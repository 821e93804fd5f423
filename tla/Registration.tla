---------------------------- MODULE Registration ----------------------------
(***************************************************************************)
(* Course registration of one student: RegistrationService of              *)
(* src/app/modules/course/service.py, the checks of                        *)
(* CurriculumComplianceAgent and the in-process payment flags of PayMock.  *)
(*                                                                         *)
(* A request runs as a coroutine on a session of its own.  It reads the    *)
(* registration once, keeps that object until it ends (the session neither *)
(* refreshes nor locks it), and commits at the end; PostgreSQL runs it at  *)
(* READ COMMITTED.  What the other requests can see in between is          *)
(*   - a committed row,                                                    *)
(*   - the payment flags, which live in the process and not in the         *)
(*     database: they change at once and survive no restart.               *)
(* The UPDATE that autoflush sends for CHECKING_PREREQUISITES locks the    *)
(* row until the commit, so the second of two submissions waits there: but *)
(* with the status and the courses it has read before.  A register request *)
(* has flushed its links by then, row after row, and holds each of them    *)
(* while it waits for the next.                                            *)
(*                                                                         *)
(* Dropped courses belong to the add/drop workflow, which starts where     *)
(* this one ends: the courses of a registration are all active here.       *)
(***************************************************************************)
EXTENDS Integers, Sequences, FiniteSets, FiniteSetsExt

CONSTANTS
  Terms,          \* academic terms
  Courses,        \* the courses of the student's curriculum
  Handlers,       \* request slots of the server
  Serves,         \* Serves[h]: the kinds of request slot h may take
  CreditHours,    \* CreditHours[c]: Course.credit_hours
  Prerequisites,  \* Prerequisites[c]: the CoursePrerequisite rows of c
  KeyOrder,       \* the order of the primary keys of the link rows
  Government,     \* TRUE when the student's sponsorship is GOVERNMENT
  Failures,       \* TRUE when a request may fail at any of its awaits
  MaxHistory,     \* bound: no request starts with more history rows than this
  MaxReferences   \* bound: payment references minted per term

Kinds == {"register", "submit", "add", "remove",
          "initiate", "callback", "form"}

ASSUME RegistrationAssumption ==
  /\ Terms # {}
  /\ Serves \in [Handlers -> SUBSET Kinds]
  /\ CreditHours \in [Courses -> Nat]
  /\ Prerequisites \in [Courses -> SUBSET Courses]
  /\ KeyOrder \in [Courses -> Nat]
  /\ Government \in BOOLEAN
  /\ Failures \in BOOLEAN
  /\ MaxHistory \in Nat
  /\ MaxReferences \in Nat

VARIABLES
  windowOpen,  \* AcademicTerm.is_open
  status,      \* Registration.status as committed, "NONE" where there is no row
  courses,     \* the RegistrationCourse rows, as committed
  history,     \* RegistrationStatusHistory: <<previous_status, new_status>>
  reference,   \* Registration.payment_reference, 0 where it is null
  minted,      \* references initiate_payment has handed out so far
  overrides,   \* PrerequisiteOverride rows of the term's registration
  paid,        \* PayMock._payment_status_map, of this student
  settled,     \* every course a payment or form of the term has ever marked
  request      \* what each slot is doing

vars == <<windowOpen, status, courses, history, reference, minted,
          overrides, paid, settled, request>>

-----------------------------------------------------------------------------
(* The state machine of SDS figure 39, as _ALLOWED_TRANSITIONS has it.     *)

AllowedTransitions ==
  [ NONE                   |-> {"REGISTRATION_OPEN"},
    REGISTRATION_OPEN      |-> {"ADVISOR_REVIEW", "CHECKING_PREREQUISITES",
                                "CANCELLED"},
    ADVISOR_REVIEW         |-> {"CHECKING_PREREQUISITES", "CANCELLED"},
    CHECKING_PREREQUISITES |-> {"CHECKING_PAYMENT", "REGISTRATION_OPEN",
                                "CANCELLED"},
    CHECKING_PAYMENT       |-> {"VALIDATION_SUCCESS", "PAYMENT_HOLD",
                                "CANCELLED"},
    PAYMENT_HOLD           |-> {"CHECKING_PAYMENT", "REGISTRATION_OPEN",
                                "CANCELLED"},
    VALIDATION_SUCCESS     |-> {"REGISTERED", "CANCELLED"},
    REGISTERED             |-> {"ADD_DROP_WINDOW"},
    ADD_DROP_WINDOW        |-> {},
    CANCELLED              |-> {} ]

Status == DOMAIN AllowedTransitions

(* Mutant: drafts are told from final registrations by a list that has     *)
(* REGISTERED in it.                                                       *)
DraftStatesAll == {"REGISTRATION_OPEN", "ADVISOR_REVIEW", "REGISTERED"}
DraftStates == {"REGISTRATION_OPEN", "ADVISOR_REVIEW"}
PayableStates == {"REGISTRATION_OPEN", "ADVISOR_REVIEW", "PAYMENT_HOLD"}

(* The rows _transition appends when a registration in state s is moved    *)
(* along path.                                                             *)
Rows(s, path) ==
  [i \in 1..Len(path) |-> <<IF i = 1 THEN s ELSE path[i - 1], path[i]>>]

-----------------------------------------------------------------------------
(* CurriculumComplianceAgent.                                              *)

MinCreditLoad == 12
MaxCreditLoad == 22

Load(S) == MapThenSumSet(LAMBDA c : CreditHours[c], S)

ValidLoad(S) == S # {} /\ Load(S) \in MinCreditLoad..MaxCreditLoad

(* The completed courses the check is given: register_me calls             *)
(* select_courses_and_submit without them, and no other route submits.     *)
CompletedSupplied == {}

PrerequisitesMet(c, overridden) ==
  c \in overridden \/ Prerequisites[c] \subseteq CompletedSupplied

PaymentSettled(S) == S \subseteq paid

(* Mutant: one passed check of the two is enough.                          *)
VerdictEither(t, S) ==
  IF ~(ValidLoad(S) \/ \A c \in S : PrerequisitesMet(c, overrides[t]))
  THEN "bounced"
  ELSE IF PaymentSettled(S) THEN "registered" ELSE "held"

(* How submit leaves a registration holding the courses S.                 *)
Verdict(t, S) ==
  IF ~(ValidLoad(S) /\ \A c \in S : PrerequisitesMet(c, overrides[t]))
  THEN "bounced"
  ELSE IF PaymentSettled(S) THEN "registered" ELSE "held"

SubmitPath ==
  [ bounced    |-> <<"CHECKING_PREREQUISITES", "REGISTRATION_OPEN">>,
    held       |-> <<"CHECKING_PREREQUISITES", "CHECKING_PAYMENT",
                     "PAYMENT_HOLD">>,
    registered |-> <<"CHECKING_PREREQUISITES", "CHECKING_PAYMENT",
                     "VALIDATION_SUCCESS", "REGISTERED">> ]

Outcomes == DOMAIN SubmitPath

-----------------------------------------------------------------------------
(* Requests.  want and links are a register request's target list and the  *)
(* links it has found, held the rows it has inserted or deleted and waits  *)
(* the row its next statement waits for; listed is the course set it hands *)
(* the agent.                                                              *)

Phases == {"idle", "create", "link", "flush", "check", "commit",
           "write", "mint", "mark", "clear"}

Requests ==
  [ phase : Phases, kind : Kinds, term : Terms, seen : Status,
    want : SUBSET Courses, links : SUBSET Courses,
    held : SUBSET Courses, waits : SUBSET Courses,
    listed : SUBSET Courses, outcome : Outcomes ]

Idle(h) == request[h].phase = "idle"

(* A slot that has ended keeps nothing of its request.                     *)
Rest == [ phase |-> "idle", kind |-> "register",
          term |-> CHOOSE t \in Terms : TRUE, seen |-> "NONE",
          want |-> {}, links |-> {}, held |-> {}, waits |-> {},
          listed |-> {}, outcome |-> "bounced" ]

Finish(h) == request' = [request EXCEPT ![h] = Rest]

Admit(h, k, t, p, W) ==
  /\ Idle(h)
  /\ k \in Serves[h]
  /\ Len(history[t]) <= MaxHistory
  /\ request' = [request EXCEPT ![h] =
       [Rest EXCEPT !.phase = p, !.kind = k, !.term = t,
                    !.seen = status[t], !.want = W]]

(* Link rows a request has flushed and not committed.                      *)
Added(h)   == request[h].held \ request[h].links
Deleted(h) == request[h].held \intersect request[h].links

Others(h, t) == {g \in Handlers \ {h} : ~Idle(g) /\ request[g].term = t}

(* Mutant: a transaction that is still waiting for the lock counts.        *)
RowLockedEarly(h, t) ==
  \E g \in Others(h, t) : request[g].phase \in {"check", "commit"}

(* Another transaction holds the lock on the registration row.             *)
RowLocked(h, t) == \E g \in Others(h, t) : request[g].phase = "commit"

-----------------------------------------------------------------------------
(* Officers.                                                               *)

OpenWindow(t) ==
  /\ ~windowOpen[t]
  /\ windowOpen' = [windowOpen EXCEPT ![t] = TRUE]
  /\ UNCHANGED <<status, courses, history, reference, minted, overrides,
                 paid, settled, request>>

CloseWindow(t) ==
  /\ windowOpen[t]
  /\ windowOpen' = [windowOpen EXCEPT ![t] = FALSE]
  /\ UNCHANGED <<status, courses, history, reference, minted, overrides,
                 paid, settled, request>>

GrantPrerequisiteOverride(t, c) ==
  /\ status[t] # "NONE"
  /\ c \notin overrides[t]
  /\ overrides' = [overrides EXCEPT ![t] = @ \union {c}]
  /\ UNCHANGED <<windowOpen, status, courses, history, reference, minted,
                 paid, settled, request>>

-----------------------------------------------------------------------------
(* select_courses_and_submit and submit.                                   *)

(* The request looks the registration up; a missing one is created first,  *)
(* one that is not a draft is refused.                                     *)
BeginRegister(h, t, W) ==
  /\ \/ /\ status[t] = "NONE"
        /\ Admit(h, "register", t, "create", W)
     \/ /\ status[t] = "REGISTRATION_OPEN"
        /\ Admit(h, "register", t, "link", W)
  /\ UNCHANGED <<windowOpen, status, courses, history, reference, minted,
                 overrides, paid, settled>>

(* Mutant: neither the duplicate check nor the unique constraint.          *)
CreateDraftAgain(h) ==
  LET t == request[h].term IN
  /\ request[h].phase = "create"
  /\ windowOpen[t]
  /\ status' = [status EXCEPT ![t] = "REGISTRATION_OPEN"]
  /\ history' = [history EXCEPT ![t] =
                   Append(@, <<"NONE", "REGISTRATION_OPEN">>)]
  /\ request' = [request EXCEPT ![h].phase = "link",
                                ![h].seen = "REGISTRATION_OPEN"]
  /\ UNCHANGED <<windowOpen, courses, reference, minted, overrides, paid,
                 settled>>

(* create_draft commits before the submission goes on: a later failure     *)
(* leaves the draft behind.                                                *)
CreateDraft(h) ==
  LET t == request[h].term IN
  /\ request[h].phase = "create"
  /\ windowOpen[t]
  /\ status[t] = "NONE"
  /\ status' = [status EXCEPT ![t] = "REGISTRATION_OPEN"]
  /\ history' = [history EXCEPT ![t] =
                   Append(@, <<"NONE", "REGISTRATION_OPEN">>)]
  /\ request' = [request EXCEPT ![h].phase = "link",
                                ![h].seen = "REGISTRATION_OPEN"]
  /\ UNCHANGED <<windowOpen, courses, reference, minted, overrides, paid,
                 settled>>

(* The window is closed, or another request has inserted the row: the      *)
(* duplicate check or the unique constraint refuses this one.              *)
DraftRefused(h) ==
  LET t == request[h].term IN
  /\ request[h].phase = "create"
  /\ ~windowOpen[t] \/ status[t] # "NONE"
  /\ Finish(h)
  /\ UNCHANGED <<windowOpen, status, courses, history, reference, minted,
                 overrides, paid, settled>>

ReadLinks(h) ==
  /\ request[h].phase = "link"
  /\ request[h].kind = "register"
  /\ request' = [request EXCEPT ![h].phase = "flush",
                                ![h].links = courses[request[h].term]]
  /\ UNCHANGED <<windowOpen, status, courses, history, reference, minted,
                 overrides, paid, settled>>

(* The rows whose turn it is in the flush: the inserts in the order of a   *)
(* set, which is any, then the deletes in the order of their keys.         *)
NextRows(h) ==
  LET q    == request[h]
      adds == (q.want \ q.links) \ q.held
      dels == (q.links \ q.want) \ q.held IN
  IF q.waits # {} THEN q.waits
  ELSE IF adds # {} THEN adds
  ELSE {c \in dels : \A d \in dels : KeyOrder[c] <= KeyOrder[d]}

(* Who holds the row of c: another transaction that has deleted it, or has *)
(* inserted the one this request is to insert.                             *)
Holders(h, c) ==
  {g \in Others(h, request[h].term) :
     \/ c \in Deleted(g)
     \/ c \in Added(g) /\ c \notin request[h].links}

FlushWaits(h) ==
  /\ request[h].phase = "flush"
  /\ request[h].waits = {}
  /\ \E c \in NextRows(h) :
       /\ Holders(h, c) # {}
       /\ request' = [request EXCEPT ![h].waits = {c}]
  /\ UNCHANGED <<windowOpen, status, courses, history, reference, minted,
                 overrides, paid, settled>>

(* The statement of a row goes through.  A row to delete that has gone in  *)
(* the meantime is no link any more.                                       *)
FlushLink(h) ==
  LET q == request[h] IN
  /\ q.phase = "flush"
  /\ \E c \in NextRows(h) :
       /\ Holders(h, c) = {}
       /\ \/ /\ c \in q.links <=> c \in courses[q.term]
             /\ request' = [request EXCEPT ![h].waits = {},
                                           ![h].held = @ \union {c}]
          \/ /\ c \in q.links \ courses[q.term]
             /\ request' = [request EXCEPT ![h].waits = {},
                                           ![h].links = @ \ {c}]
  /\ UNCHANGED <<windowOpen, status, courses, history, reference, minted,
                 overrides, paid, settled>>

(* uq_registration_course_pair: a link to insert has been committed since  *)
(* the links were read, and nobody is deleting it.                         *)
FlushRefused(h) ==
  LET q == request[h] IN
  /\ q.phase = "flush"
  /\ \E c \in NextRows(h) : /\ Holders(h, c) = {}
                            /\ c \in courses[q.term] \ q.links
  /\ Finish(h)
  /\ UNCHANGED <<windowOpen, status, courses, history, reference, minted,
                 overrides, paid, settled>>

WaitsFor(h) == UNION {Holders(h, c) : c \in request[h].waits}

(* Transactions that wait for each other in a ring: PostgreSQL aborts one  *)
(* of them, whichever finds the ring, and its request fails.               *)
DeadlockVictim(h) ==
  /\ request[h].waits # {}
  /\ \E n \in 1..Cardinality(Handlers) : \E ring \in [0..n -> Handlers] :
       /\ ring[0] = h /\ ring[n] = h
       /\ \A i \in 1..n : ring[i] \in WaitsFor(ring[i - 1])
  /\ Finish(h)
  /\ UNCHANGED <<windowOpen, status, courses, history, reference, minted,
                 overrides, paid, settled>>

(* The service's own submit, without the reconciliation.                   *)
BeginSubmit(h, t) ==
  /\ status[t] \in DraftStates
  /\ Admit(h, "submit", t, "link", {})
  /\ UNCHANGED <<windowOpen, status, courses, history, reference, minted,
                 overrides, paid, settled>>

(* submit reads the courses again: the committed rows with the changes     *)
(* this transaction has flushed.                                           *)
ReadCourses(h) ==
  LET q == request[h] IN
  /\ \/ q.phase = "link" /\ q.kind = "submit"
     \/ q.phase = "flush" /\ NextRows(h) = {}
  /\ request' = [request EXCEPT
       ![h].phase = "check",
       ![h].listed = (courses[q.term] \ Deleted(h)) \union Added(h)]
  /\ UNCHANGED <<windowOpen, status, courses, history, reference, minted,
                 overrides, paid, settled>>

(* Mutant: the courses are not re-read after the reconciliation.           *)
CheckOldLinks(h) ==
  LET q == request[h] IN
  /\ q.phase = "check"
  /\ ~RowLocked(h, q.term)
  /\ request' = [request EXCEPT
       ![h].phase = "commit",
       ![h].outcome = Verdict(q.term, IF q.kind = "register"
                                      THEN q.links ELSE q.listed)]
  /\ UNCHANGED <<windowOpen, status, courses, history, reference, minted,
                 overrides, paid, settled>>

(* The move to CHECKING_PREREQUISITES is flushed, which takes the row      *)
(* lock; then the overrides are read and the agent runs, on the courses    *)
(* read before and on the flags as they are now.                           *)
Check(h) ==
  LET q == request[h] IN
  /\ q.phase = "check"
  /\ ~RowLocked(h, q.term)
  /\ request' = [request EXCEPT ![h].phase = "commit",
                                ![h].outcome = Verdict(q.term, q.listed)]
  /\ UNCHANGED <<windowOpen, status, courses, history, reference, minted,
                 overrides, paid, settled>>

(* All of it commits together: the links, one history row per transition   *)
(* (from the status this request has seen) and the last status.            *)
CommitSubmission(h) ==
  LET q    == request[h]
      path == SubmitPath[q.outcome] IN
  /\ q.phase = "commit"
  /\ courses' = [courses EXCEPT ![q.term] =
                   (@ \ Deleted(h)) \union Added(h)]
  /\ status' = [status EXCEPT ![q.term] = path[Len(path)]]
  /\ history' = [history EXCEPT ![q.term] = @ \o Rows(q.seen, path)]
  /\ Finish(h)
  /\ UNCHANGED <<windowOpen, reference, minted, overrides, paid, settled>>

-----------------------------------------------------------------------------
(* add_course_to_draft and remove_course_from_draft.                       *)

BeginEdit(h, k, t, c) ==
  /\ status[t] \in DraftStates
  /\ k = "remove" => c \in courses[t]
  /\ Admit(h, k, t, "write", {c})
  /\ UNCHANGED <<windowOpen, status, courses, history, reference, minted,
                 overrides, paid, settled>>

AddCourseToDraft(h) ==
  LET q == request[h] IN
  /\ q.phase = "write"
  /\ q.kind = "add"
  /\ \A g \in Others(h, q.term) : Added(g) \intersect q.want = {}
  /\ courses' = [courses EXCEPT ![q.term] = @ \union q.want]
  /\ Finish(h)
  /\ UNCHANGED <<windowOpen, status, history, reference, minted, overrides,
                 paid, settled>>

RemoveCourseFromDraft(h) ==
  LET q == request[h] IN
  /\ q.phase = "write"
  /\ q.kind = "remove"
  /\ \A g \in Others(h, q.term) : Deleted(g) \intersect q.want = {}
  /\ courses' = [courses EXCEPT ![q.term] = @ \ q.want]
  /\ Finish(h)
  /\ UNCHANGED <<windowOpen, status, history, reference, minted, overrides,
                 paid, settled>>

-----------------------------------------------------------------------------
(* initiate_payment, complete_payment and submit_cost_sharing_form.        *)

(* A row that has a reference is answered at once and nothing changes.     *)
BeginInitiate(h, t) ==
  /\ status[t] \in PayableStates
  /\ reference[t] = 0
  /\ minted[t] < MaxReferences
  /\ Admit(h, "initiate", t, "mint", {})
  /\ UNCHANGED <<windowOpen, status, courses, history, reference, minted,
                 overrides, paid, settled>>

MintReference(h) ==
  LET t == request[h].term IN
  /\ request[h].phase = "mint"
  /\ minted[t] < MaxReferences
  /\ ~RowLocked(h, t)
  /\ minted' = [minted EXCEPT ![t] = @ + 1]
  /\ reference' = [reference EXCEPT ![t] = minted[t] + 1]
  /\ Finish(h)
  /\ UNCHANGED <<windowOpen, status, courses, history, overrides, paid,
                 settled>>

(* The gateway calls back with a reference r the student was given; one    *)
(* that is not the row's is refused and nothing changes.                   *)
BeginCallback(h, t, r) ==
  /\ status[t] \in PayableStates
  /\ r = reference[t]
  /\ r # 0
  /\ Admit(h, "callback", t, "mark", {})
  /\ UNCHANGED <<windowOpen, status, courses, history, reference, minted,
                 overrides, paid, settled>>

BeginForm(h, t) ==
  /\ Government
  /\ status[t] \in PayableStates
  /\ Admit(h, "form", t, "mark", {})
  /\ UNCHANGED <<windowOpen, status, courses, history, reference, minted,
                 overrides, paid, settled>>

(* Every course of the registration is marked in the process's map, before *)
(* anything commits.  Only a hold needs a transition afterwards; the form  *)
(* refuses a registration without courses, the callback does not.          *)
MarkPaid(h) ==
  LET q == request[h]
      S == courses[q.term] IN
  /\ q.phase = "mark"
  /\ q.kind = "form" => S # {}
  /\ paid' = paid \union S
  /\ settled' = [settled EXCEPT ![q.term] = @ \union S]
  /\ IF q.seen = "PAYMENT_HOLD"
     THEN request' = [request EXCEPT ![h].phase = "clear"]
     ELSE Finish(h)
  /\ UNCHANGED <<windowOpen, status, courses, history, reference, minted,
                 overrides>>

FormRefused(h) ==
  /\ request[h].phase = "mark"
  /\ request[h].kind = "form"
  /\ courses[request[h].term] = {}
  /\ Finish(h)
  /\ UNCHANGED <<windowOpen, status, courses, history, reference, minted,
                 overrides, paid, settled>>

(* Mutant: the status is set without _transition.                          *)
ClearHoldSilently(h) ==
  LET q == request[h] IN
  /\ q.phase = "clear"
  /\ ~RowLocked(h, q.term)
  /\ status' = [status EXCEPT ![q.term] = "REGISTRATION_OPEN"]
  /\ Finish(h)
  /\ UNCHANGED <<windowOpen, courses, history, reference, minted, overrides,
                 paid, settled>>

ClearHold(h) ==
  LET q == request[h] IN
  /\ q.phase = "clear"
  /\ ~RowLocked(h, q.term)
  /\ status' = [status EXCEPT ![q.term] = "REGISTRATION_OPEN"]
  /\ history' = [history EXCEPT ![q.term] =
                   @ \o Rows(q.seen, <<"REGISTRATION_OPEN">>)]
  /\ Finish(h)
  /\ UNCHANGED <<windowOpen, courses, reference, minted, overrides, paid,
                 settled>>

-----------------------------------------------------------------------------
(* A query or the commit of the request raises: get_db rolls its           *)
(* transaction back.  The flags it has set stay.                           *)
RequestFails(h) ==
  /\ Failures
  /\ ~Idle(h)
  /\ Finish(h)
  /\ UNCHANGED <<windowOpen, status, courses, history, reference, minted,
                 overrides, paid, settled>>

(* The process dies: the open transactions roll back and the flags go.     *)
Restart ==
  /\ paid' = {}
  /\ request' = [h \in Handlers |-> Rest]
  /\ UNCHANGED <<windowOpen, status, courses, history, reference, minted,
                 overrides, settled>>

Init ==
  /\ windowOpen = [t \in Terms |-> FALSE]
  /\ status = [t \in Terms |-> "NONE"]
  /\ courses = [t \in Terms |-> {}]
  /\ history = [t \in Terms |-> <<>>]
  /\ reference = [t \in Terms |-> 0]
  /\ minted = [t \in Terms |-> 0]
  /\ overrides = [t \in Terms |-> {}]
  /\ paid = {}
  /\ settled = [t \in Terms |-> {}]
  /\ request = [h \in Handlers |-> Rest]

Continue(h) ==
  \/ CreateDraft(h) \/ DraftRefused(h)
  \/ ReadLinks(h) \/ FlushWaits(h) \/ FlushLink(h) \/ FlushRefused(h)
  \/ DeadlockVictim(h) \/ ReadCourses(h)
  \/ Check(h) \/ CommitSubmission(h)
  \/ AddCourseToDraft(h) \/ RemoveCourseFromDraft(h)
  \/ MintReference(h) \/ MarkPaid(h) \/ FormRefused(h) \/ ClearHold(h)

Arrive(h, t) ==
  \/ \E W \in SUBSET Courses : BeginRegister(h, t, W)
  \/ BeginSubmit(h, t)
  \/ \E k \in {"add", "remove"}, c \in Courses : BeginEdit(h, k, t, c)
  \/ BeginInitiate(h, t)
  \/ \E r \in 1..MaxReferences : BeginCallback(h, t, r)
  \/ BeginForm(h, t)

Next ==
  \/ \E t \in Terms : OpenWindow(t) \/ CloseWindow(t)
  \/ \E t \in Terms, c \in Courses : GrantPrerequisiteOverride(t, c)
  \/ \E h \in Handlers, t \in Terms : Arrive(h, t)
  \/ \E h \in Handlers : Continue(h) \/ RequestFails(h)
  \/ Restart

Spec == Init /\ [][Next]_vars

(* The event loop resumes every coroutine whose query has been answered;   *)
(* PostgreSQL grants a row lock when its holder has committed and aborts a *)
(* transaction of a deadlock.  It wakes the statement that waits for a row *)
(* whenever the row is free, so one that is free again and again is not    *)
(* beaten to it forever by new requests.  Nothing is assumed of students,  *)
(* officers or the gateway.                                                *)
Fairness ==
  \A h \in Handlers : /\ WF_vars(Continue(h))
                      /\ SF_vars(FlushLink(h) \/ FlushRefused(h))

FairSpec == Spec /\ Fairness

-----------------------------------------------------------------------------
(* Properties.                                                             *)

(* Committed rows hold only the states a request can end in, never a       *)
(* CHECKING_* one, and a request's lists are courses of the curriculum.    *)
TypeOK ==
  /\ windowOpen \in [Terms -> BOOLEAN]
  /\ status \in [Terms -> {"NONE", "REGISTRATION_OPEN", "PAYMENT_HOLD",
                           "REGISTERED"}]
  /\ courses \in [Terms -> SUBSET Courses]
  /\ history \in [Terms -> Seq(Status \X Status)]
  /\ reference \in [Terms -> 0..MaxReferences]
  /\ minted \in [Terms -> 0..MaxReferences]
  /\ overrides \in [Terms -> SUBSET Courses]
  /\ paid \subseteq Courses
  /\ settled \in [Terms -> SUBSET Courses]
  /\ request \in [Handlers -> Requests]

(* The history replays: the first row creates the draft, each row starts   *)
(* where the one before it ended, makes an allowed transition, and the     *)
(* last one ends in the status of the row.                                 *)
HistoryReplays ==
  \A t \in Terms :
    LET H == history[t] IN
    IF H = <<>> THEN status[t] = "NONE"
    ELSE /\ H[1] = <<"NONE", "REGISTRATION_OPEN">>
         /\ H[Len(H)][2] = status[t]
         /\ \A i \in 1..Len(H) : H[i][2] \in AllowedTransitions[H[i][1]]
         /\ \A i \in 2..Len(H) : H[i][1] = H[i - 1][2]

(* The payment gate: every course of a registered student has at some time *)
(* been marked by a payment or a cost-sharing form.                        *)
RegisteredSettled ==
  \A t \in Terms : status[t] = "REGISTERED" =>
    courses[t] \subseteq UNION {settled[u] : u \in Terms}

(* The curriculum gate: what a registered student carries is within the    *)
(* credit window and has its prerequisites passed or overridden.           *)
RegisteredCompliant ==
  \A t \in Terms : status[t] = "REGISTERED" =>
    /\ ValidLoad(courses[t])
    /\ \A c \in courses[t] : PrerequisitesMet(c, overrides[t])

(* The final submission locks the registration: from REGISTERED neither    *)
(* its status nor its courses change in this workflow.                     *)
FinalLocks ==
  [][\A t \in Terms : status[t] = "REGISTERED" =>
       /\ status'[t] = "REGISTERED"
       /\ courses'[t] = courses[t]]_vars

(* One row per student and term: a registration is created once and never  *)
(* disappears, however many first submissions run side by side.            *)
CreatedOnce ==
  \A t \in Terms :
    Cardinality({i \in 1..Len(history[t]) : history[t][i][1] = "NONE"}) =
      (IF status[t] = "NONE" THEN 0 ELSE 1)

(* Every request is answered: a submission that waits for a link row or    *)
(* for the registration gets it or fails, also when two flushes hold the   *)
(* rows of each other.                                                     *)
Answered == \A h \in Handlers : ~Idle(h) ~> Idle(h)
=============================================================================
