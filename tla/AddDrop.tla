------------------------------- MODULE AddDrop -------------------------------
(***************************************************************************)
(* Add/drop of one registered student: AddDropService of                   *)
(* src/app/modules/course/service.py with the checks of                    *)
(* EnrollmentAdjustmentAgent, and the section a student accepts for an     *)
(* added course (SchedulingService, AcademicSchedulingAgent).              *)
(*                                                                         *)
(* The agent judges a batch on the course links and the timetable of the   *)
(* moment; an officer applies it whenever they get to it, without a second *)
(* check.  A request is a database session: it keeps the links it loaded,  *)
(* and its commit writes the attributes that differ from them.             *)
(***************************************************************************)
EXTENDS Integers, Sequences, FiniteSets, Functions

CONSTANTS
    Courses,
    Sections,       \* the sections of the term
    Home,           \* the student's own section
    Times,          \* weekly hours; two slots collide when they share one
    Timetables,     \* the timetables scheduling may produce
    CreditHours,    \* Course.credit_hours
    Curriculum,     \* courses of the student's department and half of the year
    Completed,      \* courses the student passed in earlier terms
    Starts,         \* the course sets a registration may be final with
    Slots,          \* request slots of the server
    Serves,         \* Serves[p]: the kinds of request slot p may take
    MaxItems,       \* bound: items of all batches of the student
    MaxBatches      \* bound: batches of the student

Kinds == {"submit", "approve", "override", "reject", "accept", "schedule"}

ASSUME AddDropAssumption ==
    /\ Home \in Sections
    /\ Timetables \subseteq [Sections -> [Courses -> SUBSET Times]]
    /\ IsFiniteSet(Courses)
    /\ CreditHours \in [Courses -> Nat]
    /\ Curriculum \subseteq Courses
    /\ Completed \subseteq Courses
    /\ Starts \subseteq SUBSET Courses
    /\ Serves \in [Slots -> SUBSET Kinds]
    /\ MaxItems \in Nat /\ MaxBatches \in Nat

VARIABLES
    links,       \* the registration_courses row of each course
    cleared,     \* courses whose prerequisites are passed or overridden
    timetable,   \* class_schedule_slots of each section
    additions,   \* student_schedule_additions of the student
    batches,     \* add_drop_batches with their items, in commit order
    request      \* what each slot is doing

rows == <<links, cleared, timetable, additions, batches>>
vars == <<links, cleared, timetable, additions, batches, request>>

-----------------------------------------------------------------------------
(* Rows.  baseline is kept for LoadKept: the links the agent has judged.   *)

Links == {"none", "active", "dropped"}
Actions == {"ADD", "DROP"}
ItemStatuses == {"APPROVED", "DENIED", "APPLIED"}
BatchStatuses == {"AGENT_APPROVED", "AGENT_DENIED", "APPLIED", "REJECTED"}

Changes == UNION {[S -> Actions] : S \in SUBSET Courses}
Items == UNION {[S -> [action : Actions, status : ItemStatuses]] :
                  S \in SUBSET Courses}
BatchRow == [status : BatchStatuses, items : Items, approved : BOOLEAN,
             justified : BOOLEAN, baseline : [Courses -> Links]]
SlotRow == [section : Sections, course : Courses, time : Times]

NoChanges == [c \in {} |-> "ADD"]

Request == [op : Kinds \cup {"none"}, at : {"idle", "busy"}, changes : Changes,
            intime : BOOLEAN, links : [Courses -> Links],
            cleared : SUBSET Courses, batch : Nat,
            course : SUBSET Courses, section : Sections]

Rest == [op |-> "none", at |-> "idle", changes |-> NoChanges, intime |-> FALSE,
         links |-> [c \in Courses |-> "none"], cleared |-> {}, batch |-> 0,
         course |-> {}, section |-> Home]

TypeOK ==
    /\ links \in [Courses -> Links]
    /\ cleared \subseteq Courses
    /\ timetable \in Timetables
    /\ additions \subseteq SlotRow
    /\ batches \in Seq(BatchRow)
    /\ request \in [Slots -> Request]

Active(ls) == {c \in Courses : ls[c] = "active"}

Init ==
    /\ \E S \in Starts : links = [c \in Courses |-> IF c \in S THEN "active" ELSE "none"]
    /\ cleared = Active(links)
    /\ timetable \in Timetables
    /\ additions = {}
    /\ batches = <<>>
    /\ request = [p \in Slots |-> Rest]

Begin(p, r) ==
    /\ request[p].at = "idle"
    /\ r.op \in Serves[p]
    /\ request' = [request EXCEPT ![p] = [r EXCEPT !.at = "busy"]]
    /\ UNCHANGED rows

Serving(p, op) == request[p].op = op
Finish(p) == request' = [request EXCEPT ![p] = Rest]

-----------------------------------------------------------------------------
(* What the agent judges.                                                  *)

MinCreditLoad == 12
MaxCreditLoad == 22
Load(S) == SumFunctionOnSet(CreditHours, S)
WithinLoad(load) == load \in MinCreditLoad..MaxCreditLoad

Changed(changes, action) == {c \in DOMAIN changes : changes[c] = action}

Offered(c) == \E s \in Sections : timetable[s][c] # {}

(* The deadline is the one the student sends with the batch.               *)
InTime(r) == r.intime

(* A course of the student's department and of this half of the year.      *)
Takeable(c) == c \in Curriculum

Prepared(r, c) == c \in r.cleared

(* One item of process_batch.                                              *)
Passes(r, c) ==
    /\ InTime(r)
    /\ Takeable(c)
    /\ \/ /\ r.changes[c] = "ADD"
          /\ r.links[c] # "active"
          /\ Offered(c)
          /\ Prepared(r, c)
       \/ r.changes[c] = "DROP" /\ r.links[c] = "active"

(* Mutant: a dropped course still counts.                                  *)
ProjectedGross(r) == Load(Active(r.links)) + Load(Changed(r.changes, "ADD"))

Projected(r) == Load(Active(r.links)) + Load(Changed(r.changes, "ADD"))
                                      - Load(Changed(r.changes, "DROP"))

Approved(r) == (\A c \in DOMAIN r.changes : Passes(r, c)) /\ WithinLoad(Projected(r))

-----------------------------------------------------------------------------
(* submit_batch: the links, overrides and completed courses are read once, *)
(* the offered sections item by item before the commit.                    *)

SubmitLoad(p, changes, intime) ==
    /\ Len(batches) < MaxBatches
    /\ DOMAIN changes # {}
    /\ Begin(p, [Rest EXCEPT !.op = "submit", !.changes = changes, !.intime = intime,
                             !.links = links, !.cleared = cleared])

Judged(r) ==
    [status    |-> IF Approved(r) THEN "AGENT_APPROVED" ELSE "AGENT_DENIED",
     items     |-> [c \in DOMAIN r.changes |->
                      [action |-> r.changes[c],
                       status |-> IF Passes(r, c) THEN "APPROVED" ELSE "DENIED"]],
     approved  |-> Approved(r),
     justified |-> FALSE,
     baseline  |-> r.links]

SubmitCommit(p) ==
    /\ Serving(p, "submit")
    /\ Len(batches) < MaxBatches
    /\ batches' = Append(batches, Judged(request[p]))
    /\ Finish(p)
    /\ UNCHANGED <<links, cleared, timetable, additions>>

-----------------------------------------------------------------------------
(* The department head.  Loading a batch loads the links of its            *)
(* registration; the commit decides on the batch loaded.                   *)

(* Mutant: approval takes a denied batch too.                              *)
DecidableAny(op) == {"AGENT_APPROVED", "AGENT_DENIED"}

Decidable(op) ==
    CASE op = "approve"  -> {"AGENT_APPROVED"}
      [] op = "override" -> {"AGENT_DENIED"}
      [] op = "reject"   -> {"AGENT_APPROVED", "AGENT_DENIED"}

DecideLoad(p, op, b) ==
    /\ batches[b].status \in Decidable(op)
    /\ Begin(p, [Rest EXCEPT !.op = op, !.batch = b, !.links = links])

(* An is_dropped that already has its value when loaded is not written.    *)
Linked(action, loaded, stored) ==
    LET target == IF action = "ADD" THEN "active" ELSE "dropped"
    IN  IF loaded = target THEN stored ELSE target

(* Mutant: dropping a course leaves its additions.                         *)
LosesAdditionsNever(items, c) == FALSE

LosesAdditions(items, c) == c \in DOMAIN items /\ items[c].action = "DROP"

(* Mutant: the items keep the agent's verdict.                             *)
AppliedStatusOnly(row, op) ==
    [row EXCEPT !.status = "APPLIED", !.justified = row.justified \/ op = "override"]

Applied(row, op) ==
    [row EXCEPT !.status = "APPLIED",
                !.items = [c \in DOMAIN row.items |->
                             [row.items[c] EXCEPT !.status = "APPLIED"]],
                !.justified = row.justified \/ op = "override"]

(* A DROP of a course that was never linked raises: see RequestFails.      *)
ApplyBatch(p, op) ==
    LET r == request[p]
        items == batches[r.batch].items
    IN  /\ Serving(p, op)
        /\ \A c \in DOMAIN items : items[c].action = "DROP" => links[c] # "none"
        /\ links' = [c \in Courses |->
                       IF c \in DOMAIN items
                       THEN Linked(items[c].action, r.links[c], links[c])
                       ELSE links[c]]
        /\ additions' = {a \in additions : ~LosesAdditions(items, a.course)}
        /\ batches' = [batches EXCEPT ![r.batch] = Applied(@, op)]
        /\ Finish(p)
        /\ UNCHANGED <<cleared, timetable>>

RejectBatch(p) ==
    /\ Serving(p, "reject")
    /\ batches' = [batches EXCEPT ![request[p].batch].status = "REJECTED",
                                  ![request[p].batch].justified = TRUE]
    /\ Finish(p)
    /\ UNCHANGED <<links, cleared, timetable, additions>>

-----------------------------------------------------------------------------
(* The student picks a section for an added course.                        *)

SlotsOf(s, c) == {[section |-> s, course |-> c, time |-> t] : t \in timetable[s][c]}

(* The effective schedule: the student's own section, active courses only, *)
(* and every addition.                                                     *)
EffectiveSlots ==
    additions \cup UNION {SlotsOf(Home, c) : c \in Active(links)}

Collide(a, b) == a.time = b.time

(* Mutant: compares with the student's own section only.                   *)
ViableAtHome(s, c) ==
    \A a \in SlotsOf(s, c), b \in EffectiveSlots \ additions :
        b.course # c => ~Collide(a, b)

Viable(s, c) ==
    \A a \in SlotsOf(s, c), b \in EffectiveSlots : b.course # c => ~Collide(a, b)

AcceptLoad(p, c, s) ==
    /\ links[c] = "active"
    /\ SlotsOf(s, c) # {}
    /\ Viable(s, c)
    /\ Begin(p, [Rest EXCEPT !.op = "accept", !.course = {c}, !.section = s])

AcceptCommit(p) ==
    /\ Serving(p, "accept")
    /\ additions' = additions \cup
         UNION {SlotsOf(request[p].section, c) : c \in request[p].course}
    /\ Finish(p)
    /\ UNCHANGED <<links, cleared, timetable, batches>>

-----------------------------------------------------------------------------
(* get_add_drop_picker: what the portal shows the student.                 *)

(* Mutant: a denied batch is over.                                         *)
InFlightApproved(action) ==
    {c \in Courses : \E b \in DOMAIN batches :
        /\ batches[b].status = "AGENT_APPROVED"
        /\ c \in DOMAIN batches[b].items /\ batches[b].items[c].action = action}

(* An officer may still override a denied batch.                           *)
InFlight(action) ==
    {c \in Courses : \E b \in DOMAIN batches :
        /\ batches[b].status \in {"AGENT_APPROVED", "AGENT_DENIED"}
        /\ c \in DOMAIN batches[b].items /\ batches[b].items[c].action = action}

(* Courses never on the registration that the agent would let the student  *)
(* add; a dropped course is offered again whether it would or not.         *)
Catalog ==
    {c \in (Curriculum \cap cleared) \ Completed :
        links[c] = "none" /\ \E s \in Sections : timetable[s][c] # {}}

Dropped == {c \in Courses : links[c] = "dropped"}

(* The mark is put on courses that are listed, and on no other: an ADD in  *)
(* flight of a course never taken up, that the agent has denied or that    *)
(* scheduling has taken off the timetable since, is shown nowhere.         *)
Picker ==
    [active  |-> Active(links),
     dropped |-> Dropped,
     catalog |-> Catalog,
     pending_drop |-> Active(links) \cap InFlight("DROP"),
     pending_add  |-> (Dropped \cup Catalog) \cap InFlight("ADD")]

(* The queue of the department heads.                                      *)
list_pending_batches ==
    {b \in DOMAIN batches : batches[b].status \in {"AGENT_APPROVED", "AGENT_DENIED"}}

-----------------------------------------------------------------------------
(* generate_schedule deletes the slots of the department's sections and    *)
(* inserts new ones; the additions that name them go with them.            *)
GenerateSchedule(p) ==
    /\ request[p].at = "idle"
    /\ "schedule" \in Serves[p]
    /\ timetable' \in Timetables
    /\ additions' = {}
    /\ UNCHANGED <<links, cleared, batches, request>>

(* A grade becomes official or a department head overrides a prerequisite. *)
ClearPrerequisite(c) ==
    /\ cleared' = cleared \cup {c}
    /\ UNCHANGED <<links, timetable, additions, batches, request>>

(* An await raises: the transaction is rolled back.                        *)
RequestFails(p) ==
    /\ request[p].at = "busy"
    /\ Finish(p)
    /\ UNCHANGED rows

Requested ==
    Cardinality(UNION {{b} \X DOMAIN batches[b].items : b \in DOMAIN batches})

Student(p) ==
    \/ \E S \in SUBSET Courses : \E changes \in [S -> Actions], intime \in BOOLEAN :
          Cardinality(S) + Requested <= MaxItems /\ SubmitLoad(p, changes, intime)
    \/ SubmitCommit(p)
    \/ \E c \in Courses, s \in Sections : AcceptLoad(p, c, s)
    \/ AcceptCommit(p)

Officer(p) ==
    \/ \E b \in DOMAIN batches, op \in {"approve", "override", "reject"} :
          DecideLoad(p, op, b)
    \/ ApplyBatch(p, "approve")
    \/ ApplyBatch(p, "override")
    \/ RejectBatch(p)
    \/ GenerateSchedule(p)

Next ==
    \/ \E p \in Slots : Student(p) \/ Officer(p) \/ RequestFails(p)
    \/ \E c \in Courses : ClearPrerequisite(c)

Spec == Init /\ [][Next]_vars

-----------------------------------------------------------------------------
(* Properties.                                                             *)

Becomes(b, status) ==
    /\ b \in DOMAIN batches
    /\ batches[b].status # status /\ batches'[b].status = status

(* What the agent let through stays honest: when officers take turns, a    *)
(* batch the agent has approved, applied to the links the agent saw,       *)
(* leaves a load of 12 to 22 and every item of it materialised.            *)
LoadKept ==
    [][\A b \in DOMAIN batches :
          Becomes(b, "APPLIED") /\ batches[b].approved /\ links = batches[b].baseline
          => /\ WithinLoad(Load(Active(links')))
             /\ \A c \in DOMAIN batches[b].items :
                   c \in Active(links') <=> batches[b].items[c].action = "ADD"]_vars

(* The items of a batch share its fate (AddDropBatch): all are applied in  *)
(* an applied batch and none in any other, when officers take turns.       *)
SharedFate ==
    \A b \in DOMAIN batches : \A c \in DOMAIN batches[b].items :
        batches[b].items[c].status = "APPLIED" <=> batches[b].status = "APPLIED"

(* Whatever overlaps: a batch the agent has denied is applied only with an *)
(* officer's justification on it.                                          *)
OverrideJustified ==
    \A b \in DOMAIN batches :
        batches[b].status = "APPLIED" => batches[b].approved \/ batches[b].justified

(* A student is never sent to a class of a course they have dropped, when  *)
(* the choice of a section and the decision of a batch take turns.         *)
AdditionsActive == \A a \in additions : links[a.course] = "active"

Clash == \E a, b \in EffectiveSlots : a.course # b.course /\ Collide(a, b)

(* Choosing sections never makes two courses of a student meet: a clash    *)
(* comes only with a batch that puts a course back whose hour is taken.    *)
ClashFromAdd ==
    [][links' # links \/ additions' # additions =>
         Clash \/ ~Clash' \/ \E b \in DOMAIN batches :
            /\ Becomes(b, "APPLIED")
            /\ \E c \in DOMAIN batches[b].items :
                  batches[b].items[c].action = "ADD" /\ links[c] # "active"]_vars

(* The picker is honest about what it lists: each course of the catalog,   *)
(* asked for alone and in time, passes the agent's checks; what it marks   *)
(* as pending waits in the officers' queue; and a decision of an officer,  *)
(* by a batch of that queue, drops no active course without the mark, and  *)
(* adds none that the student was offered without it.  Of a course it does *)
(* not list it says nothing: an override may add one that was never shown. *)
PickerHonest ==
    [][/\ \A c \in Catalog :
             Passes([Rest EXCEPT !.changes = [x \in {c} |-> "ADD"], !.intime = TRUE,
                                 !.links = links, !.cleared = cleared], c)
       /\ Picker.pending_add \cup Picker.pending_drop
             \subseteq UNION {DOMAIN batches[b].items : b \in list_pending_batches}
       /\ links' # links =>
             /\ \E b \in list_pending_batches : Becomes(b, "APPLIED")
             /\ \A c \in Courses :
                /\ links[c] = "active" /\ links'[c] = "dropped" => c \in Picker.pending_drop
                /\ c \in Picker.dropped \cup Picker.catalog /\ links'[c] = "active"
                      => c \in Picker.pending_add]_vars

(* The inductive invariant behind OverrideJustified: the verdict stands,   *)
(* and whoever is approving has loaded a batch the agent approved.         *)
VerdictStands(row) ==
    /\ row.status = "AGENT_APPROVED" => row.approved
    /\ row.status = "APPLIED" => row.approved \/ row.justified

RequestOK(p) ==
    /\ request[p].op \in {"approve", "override", "reject"}
         => request[p].batch \in DOMAIN batches
    /\ request[p].op = "approve" => batches[request[p].batch].approved

IInv ==
    /\ TypeOK
    /\ \A b \in DOMAIN batches : VerdictStands(batches[b])
    /\ \A p \in Slots : RequestOK(p)
=============================================================================
