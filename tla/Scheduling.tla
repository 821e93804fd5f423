------------------------------ MODULE Scheduling ------------------------------
(***************************************************************************)
(* Cohort sections, the weekly timetable and who teaches what, in one      *)
(* term: SchedulingService and InstructorService of                        *)
(* src/app/modules/course/service.py with AcademicSchedulingAgent.         *)
(*                                                                         *)
(* Department heads allocate sections, generate timetables, rebind         *)
(* instructors and reassign single classes, each request on a session of   *)
(* its own at READ COMMITTED: what it has read before its commit may be    *)
(* gone by then.  The greedy placement awaits nothing, so no other request *)
(* of the process runs meanwhile.  Row identities count: a regenerated     *)
(* class is a new row, and a request that deletes the rows it has loaded   *)
(* leaves those that another has inserted since.                           *)
(***************************************************************************)
EXTENDS Integers, Sequences, FiniteSets

CONSTANTS
    Departments,
    Courses,
    Dept,           \* Dept[c]: Course.department
    Semester,       \* Semester[c]: Course.semester
    CreditHours,    \* CreditHours[c]: weekly hours of the course
    Rooms,
    Owner,          \* Owner[r]: Classroom.department
    Capacity,       \* Capacity[r]: Classroom.capacity
    Students,       \* the registrations of the term, numbered by created_at
    Cohort,         \* Cohort[n]: department and semester of the student
    Instructors,
    NoOne,          \* an instructor_id that is NULL
    NoSection,      \* a section_id that is NULL
    Days, Blocks,   \* the teaching week: days 1..Days of 1-hour blocks 1..Blocks
    Slots,          \* request slots of the server
    MaxRuns,        \* bound: allocations and generations of each department
    MaxAssignments, \* bound: instructor assignments ever inserted
    MaxRetries      \* the restarts of the placement (40 in the code)

ASSUME SchedulingAssumption ==
    /\ Dept \in [Courses -> Departments]
    /\ Semester \in [Courses -> Nat]
    /\ CreditHours \in [Courses -> Nat]
    /\ Owner \in [Rooms -> Departments]
    /\ Capacity \in [Rooms -> Nat \ {0}]
    /\ IsFiniteSet(Rooms) /\ IsFiniteSet(Courses)
    /\ Students \subseteq Nat /\ IsFiniteSet(Students)
    /\ Cohort \in [Students -> [dept : Departments, semester : Nat]]
    /\ IsFiniteSet(Instructors) /\ NoOne \notin Instructors
    /\ NoSection \notin [dept : Departments, run : Nat, semester : Nat, code : Nat]
    /\ Days \in Nat /\ Blocks \in Nat
    /\ MaxRuns \in [Departments -> Nat] /\ MaxAssignments \in Nat /\ MaxRetries \in Nat

VARIABLES
    registered,   \* students whose registration is REGISTERED
    pin,          \* Registration.section_id
    enrolled,     \* the Section rows, with their enrolled_count
    referenced,   \* sections with grading rows or students' schedule additions
    classes,      \* the ClassScheduleSlot rows
    conflicts,    \* the OPEN ScheduleConflict rows
    assignments,  \* the InstructorAssignment rows by created_at; a deleted one is NoOne's
    runs,         \* allocations and generations of each department so far
    request,      \* what each slot is doing
    draft         \* the placement each slot is working on

rows == <<registered, pin, enrolled, referenced, classes, conflicts, assignments, runs>>
vars == <<rows, request, draft>>

-----------------------------------------------------------------------------
(* Rows.  The run that has made a row identifies it.                       *)

Section == [dept : Departments, run : Nat, semester : Nat, code : Nat]
ConflictKinds == {"NO_AVAILABLE_ROOM", "NO_AVAILABLE_INSTRUCTOR", "ROOM_DOUBLE_BOOKED"}
Class == [section : Section, course : Courses, instructor : Instructors \cup {NoOne},
          day : 1..Days, block : 1..Blocks, room : Rooms, run : Nat]
Conflict == [section : Section, course : Courses, kind : ConflictKinds, run : Nat]
Assignment == [course : Courses, instructor : Instructors \cup {NoOne}]

SectionsOf(d) == {s \in DOMAIN enrolled : s.dept = d}
RoomsOf(d) == {r \in Rooms : Owner[r] = d}
Largest(d) == CHOOSE n \in {Capacity[r] : r \in RoomsOf(d)} :
                \A r \in RoomsOf(d) : Capacity[r] <= n
Curriculum(s) == {c \in Courses : Dept[c] = s.dept /\ Semester[c] = s.semester}

(* The rows of a department that a request deletes are those it has loaded. *)
Loaded(S, d, R) == {x \in S : x.section.dept = d /\ x.run \in R}

-----------------------------------------------------------------------------
(* The sessions of a course, and where one can go beside those placed.     *)

Session == [section : Section, cohort : Nat, course : Courses, nth : Nat, size : 1..2]
Placement == [session : Session, day : 1..Days, start : 1..Blocks, room : Rooms]

(* Two-hour sessions, and a single hour when the credits are odd.          *)
SessionsOf(s, c) ==
    {[section |-> s, cohort |-> enrolled[s], course |-> c, nth |-> n,
      size |-> IF 2 * n <= CreditHours[c] THEN 2 ELSE 1] : n \in 1..((CreditHours[c] + 1) \div 2)}

Span(start, size) == start..(start + size - 1)
Hours(x) == Span(x.start, x.session.size)

(* What keeps a session from a day, a start and a room: that the course    *)
(* meets on that day already, or that the cohort, the room or the          *)
(* instructor is busy in one of the blocks.                                *)
ClashNoRoom(who, x, s, day, start, room) ==      \* mutant: rooms are not looked at
    /\ x.day = day
    /\ \/ x.session.section = s.section /\ x.session.course = s.course
       \/ /\ Hours(x) \cap Span(start, s.size) # {}
          /\ \/ x.session.section = s.section
             \/ who[s.course] # NoOne /\ who[x.session.course] = who[s.course]
Clash(who, x, s, day, start, room) ==
    /\ x.day = day
    /\ \/ x.session.section = s.section /\ x.session.course = s.course
       \/ /\ Hours(x) \cap Span(start, s.size) # {}
          /\ \/ x.session.section = s.section
             \/ x.room = room
             \/ who[s.course] # NoOne /\ who[x.session.course] = who[s.course]

Feasible(who, placed, s) ==
    {x \in [session : {s}, day : 1..Days, start : 1..Blocks, room : RoomsOf(s.section.dept)] :
        /\ x.start + s.size - 1 <= Blocks
        /\ Capacity[x.room] >= s.cohort
        /\ \A y \in placed : ~Clash(who, y, s, x.day, x.start, x.room)}

HoursToday(P, day) == Cardinality(UNION {Hours(x) : x \in {y \in P : y.day = day}})

(* The score: the instructor's hours of the day, then the cohort's, an     *)
(* early start and a small room; the first day with the best score wins.   *)
Less(a, b) == \E i \in DOMAIN a : a[i] < b[i] /\ \A j \in 1..(i - 1) : a[j] = b[j]

Best(who, placed, s) ==
    LET theirs  == {x \in placed : who[s.course] # NoOne /\ who[x.session.course] = who[s.course]}
        cohorts == {x \in placed : x.session.section = s.section}
        score(x) == <<HoursToday(theirs, x.day), HoursToday(cohorts, x.day),
                      x.start, Capacity[x.room], x.day>>
        scored  == {<<score(x), x>> : x \in Feasible(who, placed, s)}
    IN  {a[2] : a \in {b \in scored : \A c \in scored : ~Less(c[1], b[1])}}

(* Long sessions and large cohorts are placed first, ties in any order.    *)
Tightest(todo) ==
    {s \in todo : \A t \in todo :
        \/ s.size > t.size
        \/ s.size = t.size /\ s.cohort >= t.cohort}

-----------------------------------------------------------------------------
(* Requests.                                                               *)

Kinds == {"allocate", "generate", "reassign", "assign"}
Request == [op : Kinds \cup {"none"}, at : {"idle", "loaded", "wiped", "placing", "placed"},
            dept : Departments, old : SUBSET Section, runs : SUBSET Nat, stale : SUBSET Nat,
            target : {NoSection} \cup Class, course : Courses,
            instructor : Instructors \cup {NoOne}, row : Nat]
Draft == [who : [Courses -> Instructors \cup {NoOne}],
          todo : SUBSET Session, placed : SUBSET Placement, left : SUBSET Session,
          kept : SUBSET Placement, lost : SUBSET Session, tries : Nat]

AnyDept == CHOOSE d \in Departments : TRUE
AnyCourse == CHOOSE c \in Courses : TRUE
Rest == [op |-> "none", at |-> "idle", dept |-> AnyDept, old |-> {}, runs |-> {}, stale |-> {},
         target |-> NoSection, course |-> AnyCourse, instructor |-> NoOne, row |-> 0]
NoDraft == [who |-> [c \in Courses |-> NoOne], todo |-> {}, placed |-> {}, left |-> {},
            kept |-> {}, lost |-> {}, tries |-> 0]

Init ==
    /\ registered \in SUBSET Students
    /\ pin = [n \in Students |-> NoSection]
    /\ enrolled = << >>
    /\ referenced = {}
    /\ classes = {} /\ conflicts = {}
    /\ assignments = << >>
    /\ runs = [d \in Departments |-> 0]
    /\ request = [p \in Slots |-> Rest]
    /\ draft = [p \in Slots |-> NoDraft]

Begin(p, r) ==
    /\ request[p].at = "idle"
    /\ request' = [request EXCEPT ![p] = r]
    /\ UNCHANGED <<rows, draft>>

Serving(p, op, at) == request[p].op = op /\ request[p].at = at

Finish(p) ==
    /\ request' = [request EXCEPT ![p] = Rest]
    /\ draft' = [draft EXCEPT ![p] = NoDraft]

(* An exception, a constraint or a lost connection: the session rolls back. *)
RequestFails(p) ==
    /\ request[p].at # "idle"
    /\ Finish(p)
    /\ UNCHANGED rows

NextRun(d) == runs' = [runs EXCEPT ![d] = @ + 1]

-----------------------------------------------------------------------------
(* Registration and grading, as far as scheduling sees them.               *)

StudentRegisters(n) ==
    /\ n \notin registered
    /\ registered' = registered \cup {n}
    /\ UNCHANGED <<pin, enrolled, referenced, classes, conflicts, assignments, runs, request, draft>>

(* A breakdown, a grade batch, a grade or a schedule addition of a section: *)
(* foreign keys that keep the section from being deleted.                  *)
ReferenceSection(s) ==
    /\ s \in DOMAIN enrolled
    /\ referenced' = referenced \cup {s}
    /\ UNCHANGED <<registered, pin, enrolled, classes, conflicts, assignments, runs, request, draft>>

-----------------------------------------------------------------------------
(* allocate_sections: the sections it has loaded go, with all that points  *)
(* at them, and the registered students are split anew.                    *)

Mates(n) == {m \in registered : Cohort[m] = Cohort[n]}
Rank(n) == Cardinality({m \in Mates(n) : m <= n})
Ceil(n, k) == (n + k - 1) \div k

(* Section codes A, B, ... are 1, 2, ...  Of n students in k sections the  *)
(* first n % k sections take one more than the others.                     *)
CodeFilling(d, rank, n) ==      \* mutant: one section after the other is filled
    (rank - 1) \div Largest(d) + 1
CodeOf(d, rank, n) ==
    LET k == Ceil(n, Largest(d))
        base == n \div k
        wide == (n % k) * (base + 1)
    IN  IF rank <= wide THEN (rank - 1) \div (base + 1) + 1
        ELSE (n % k) + (rank - 1 - wide) \div base + 1

Placed(n) == [dept |-> Cohort[n].dept, run |-> runs[Cohort[n].dept] + 1,
              semester |-> Cohort[n].semester,
              code |-> CodeOf(Cohort[n].dept, Rank(n), Cardinality(Mates(n)))]

AllocateLoad(p, d) ==
    /\ RoomsOf(d) # {}
    /\ runs[d] < MaxRuns[d]
    /\ Begin(p, [Rest EXCEPT !.op = "allocate", !.at = "loaded", !.dept = d,
                             !.old = SectionsOf(d)])

AllocateCommit(p) ==
    LET d     == request[p].dept
        old   == request[p].old
        mine  == {n \in registered : Cohort[n].dept = d}
        fresh == {Placed(n) : n \in mine}
        stay  == DOMAIN enrolled \ old
    IN  /\ Serving(p, "allocate", "loaded")
        /\ old \cap referenced = {}
        /\ \A s \in fresh, t \in stay : \/ s.dept # t.dept \/ s.semester # t.semester
                                         \/ s.code # t.code
        /\ enrolled' = [s \in stay \cup fresh |->
                          IF s \in stay THEN enrolled[s]
                          ELSE Cardinality({n \in mine : Placed(n) = s})]
        /\ pin' = [n \in Students |-> IF n \in mine THEN Placed(n)
                                      ELSE IF pin[n] \in old THEN NoSection ELSE pin[n]]
        /\ classes' = {x \in classes : x.section \notin old}
        /\ conflicts' = {x \in conflicts : x.section \notin old}
        /\ NextRun(d)
        /\ Finish(p)
        /\ UNCHANGED <<registered, referenced, assignments>>

-----------------------------------------------------------------------------
(* generate_timetable: sections and classes are loaded; the classes are    *)
(* deleted and the conflicts loaded, then deleted and the instructors read; *)
(* then the placement, with restarts; then the commit.  A deletion waits   *)
(* for a transaction that has deleted the same row, and what that one has  *)
(* committed in their place is not among the rows loaded before.           *)

Oversized(s, n) == n > Largest(s.dept)

GenerateLoad(p, d) ==
    /\ SectionsOf(d) # {}
    /\ RoomsOf(d) # {}
    /\ runs[d] < MaxRuns[d]
    /\ request[p].at = "idle"
    /\ request' = [request EXCEPT ![p] =
          [Rest EXCEPT !.op = "generate", !.at = "loaded", !.dept = d, !.old = SectionsOf(d),
                       !.runs = {x.run : x \in {y \in classes : y.section.dept = d}}]]
    /\ draft' = [draft EXCEPT ![p].todo =
          UNION {UNION {SessionsOf(s, c) : c \in Curriculum(s)} :
                   s \in {t \in SectionsOf(d) : ~Oversized(t, enrolled[t])}}]
    /\ UNCHANGED rows

(* The rows a generation has deleted and not committed.                    *)
Deleting(p, at) == request[p].op = "generate" /\ request[p].at \in at
WipedClasses(p) ==
    IF Deleting(p, {"wiped", "placing", "placed"})
    THEN Loaded(classes, request[p].dept, request[p].runs) ELSE {}
WipedConflicts(p) ==
    IF Deleting(p, {"placing", "placed"})
    THEN Loaded(conflicts, request[p].dept, request[p].stale) ELSE {}

(* The flush of the deleted classes, and then the OPEN conflicts: those    *)
(* that are there now, not when the classes were selected.                 *)
GenerateWipe(p) ==
    LET d == request[p].dept
    IN  /\ Serving(p, "generate", "loaded")
        /\ \A q \in Slots \ {p} :
              WipedClasses(q) \cap Loaded(classes, d, request[p].runs) = {}
        /\ request' = [request EXCEPT ![p].at = "wiped",
              ![p].stale = {x.run : x \in {y \in conflicts : y.section.dept = d}}]
        /\ UNCHANGED <<rows, draft>>

(* _pick_instructor: the first assignment of the course.                   *)
Live(c) == {k \in DOMAIN assignments : assignments[k].course = c
                                       /\ assignments[k].instructor # NoOne}
Picked(c) ==
    IF Live(c) = {} THEN NoOne
    ELSE assignments[CHOOSE k \in Live(c) : \A l \in Live(c) : k <= l].instructor

GenerateRead(p) ==
    /\ Serving(p, "generate", "wiped")
    /\ \A q \in Slots \ {p} :
          WipedConflicts(q) \cap Loaded(conflicts, request[p].dept, request[p].stale) = {}
    /\ request' = [request EXCEPT ![p].at = "placing"]
    /\ draft' = [draft EXCEPT ![p].who = [c \in Courses |-> Picked(c)]]
    /\ UNCHANGED rows

(* One round of _attempt.                                                  *)
Place(p) ==
    /\ Serving(p, "generate", "placing")
    /\ \E s \in Tightest(draft[p].todo) :
         LET best == Best(draft[p].who, draft[p].placed, s)
         IN  \/ \E x \in best :
                  draft' = [draft EXCEPT ![p].todo = @ \ {s}, ![p].placed = @ \cup {x}]
             \/ /\ best = {}
                /\ draft' = [draft EXCEPT ![p].todo = @ \ {s}, ![p].left = @ \cup {s}]
    /\ UNCHANGED <<rows, request>>

(* An attempt that leaves less unplaced is kept; while something is left,  *)
(* the next one starts over.                                               *)
Keeps(f) == f.tries = 0 \/ Cardinality(f.left) < Cardinality(f.lost)

EndAttempt(p) ==
    LET f    == draft[p]
        kept == IF Keeps(f) THEN f.placed ELSE f.kept
        lost == IF Keeps(f) THEN f.left ELSE f.lost
        again == lost # {} /\ f.tries < MaxRetries
    IN  /\ Serving(p, "generate", "placing")
        /\ f.todo = {}
        /\ draft' = [draft EXCEPT ![p] =
              [f EXCEPT !.kept = kept, !.lost = lost,
                        !.todo = IF again THEN {x.session : x \in f.placed} \cup f.left ELSE {},
                        !.placed = {}, !.left = {},
                        !.tries = IF again THEN @ + 1 ELSE @]]
        /\ request' = [request EXCEPT ![p].at = IF again THEN "placing" ELSE "placed"]
        /\ UNCHANGED rows

ClassesOf(f, run) ==
    UNION {{[section |-> x.session.section, course |-> x.session.course,
             instructor |-> f.who[x.session.course], day |-> x.day, block |-> b,
             room |-> x.room, run |-> run] : b \in Hours(x)} : x \in f.kept}

Report(S, kind, run) ==
    {[section |-> x[1], course |-> x[2], kind |-> kind, run |-> run] : x \in S}
ConflictsFirst(f, old, run) ==      \* mutant: a course without instructor is the only conflict
    Report({x \in old \X Courses : x[2] \in Curriculum(x[1]) /\ f.who[x[2]] = NoOne},
           "NO_AVAILABLE_INSTRUCTOR", run)
ConflictsOf(f, old, run) ==
    LET taught == {x \in old \X Courses : x[2] \in Curriculum(x[1])}
        large  == {x \in taught : Oversized(x[1], enrolled[x[1]])}
    IN  Report(large, "NO_AVAILABLE_ROOM", run)
        \cup Report({x \in taught \ large : f.who[x[2]] = NoOne},
                    "NO_AVAILABLE_INSTRUCTOR", run)
        \cup Report({<<x.section, x.course>> : x \in f.lost}, "ROOM_DOUBLE_BOOKED", run)

GenerateCommit(p) ==
    LET d     == request[p].dept
        run   == runs[d] + 1
        fresh == ClassesOf(draft[p], run)
        clash == ConflictsOf(draft[p], request[p].old, run)
        stay  == classes \ Loaded(classes, d, request[p].runs)
    IN  /\ Serving(p, "generate", "placed")
        /\ request[p].old \subseteq DOMAIN enrolled
        /\ \A x \in fresh, y \in stay :      \* uq_section_slot_per_day_start
              x.section # y.section \/ x.day # y.day \/ x.block # y.block
        /\ classes' = stay \cup fresh
        /\ conflicts' = (conflicts \ Loaded(conflicts, d, request[p].stale)) \cup clash
        /\ NextRun(d)
        /\ Finish(p)
        /\ UNCHANGED <<registered, pin, enrolled, referenced, assignments>>

-----------------------------------------------------------------------------
(* assign_instructor_to_slot: the booking check, then the write to the row. *)

BookedInSection(i, m) ==      \* mutant: other cohorts are not looked at
    \E x \in classes : /\ x.section = m.section
                       /\ x.instructor = i /\ x.day = m.day /\ x.block = m.block
Booked(i, m) ==
    \E x \in classes : x.instructor = i /\ x.day = m.day /\ x.block = m.block

ReassignLoad(p, m, i) ==
    /\ m \in classes
    /\ m.instructor # i
    /\ ~Booked(i, m)
    /\ Begin(p, [Rest EXCEPT !.op = "reassign", !.at = "loaded", !.target = m,
                             !.instructor = i])

ReassignCommit(p) ==
    /\ Serving(p, "reassign", "loaded")
    /\ \E m \in classes :
         /\ [m EXCEPT !.instructor = NoOne] = [request[p].target EXCEPT !.instructor = NoOne]
         /\ \A q \in Slots : m \notin WipedClasses(q)
         /\ classes' = (classes \ {m}) \cup {[m EXCEPT !.instructor = request[p].instructor]}
    /\ Finish(p)
    /\ UNCHANGED <<registered, pin, enrolled, referenced, conflicts, assignments, runs>>

-----------------------------------------------------------------------------
(* assign_to_course: an upsert of the latest assignment; unassign.         *)

LatestNever(c) == 0      \* mutant: always a new row
Latest(c) == IF Live(c) = {} THEN 0 ELSE CHOOSE k \in Live(c) : \A l \in Live(c) : l <= k

AssignLoad(p, c, i) ==
    Begin(p, [Rest EXCEPT !.op = "assign", !.at = "loaded", !.course = c,
                         !.instructor = i, !.row = Latest(c)])

AssignCommit(p) ==
    LET c == request[p].course
        i == request[p].instructor
        k == request[p].row
        new == [course |-> c, instructor |-> i]
    IN  /\ Serving(p, "assign", "loaded")
        /\ \A l \in DOMAIN assignments \ {k} : assignments[l] # new   \* uq_instructor_course_term
        /\ \/ /\ k = 0
              /\ Len(assignments) < MaxAssignments
              /\ assignments' = Append(assignments, new)
           \/ /\ k # 0
              /\ assignments[k].instructor # NoOne
              /\ assignments' = [assignments EXCEPT ![k] = new]
        /\ Finish(p)
        /\ UNCHANGED <<registered, pin, enrolled, referenced, classes, conflicts, runs>>

Unassign(k) ==
    /\ assignments[k].instructor # NoOne
    /\ assignments' = [assignments EXCEPT ![k].instructor = NoOne]
    /\ UNCHANGED <<registered, pin, enrolled, referenced, classes, conflicts, runs, request, draft>>

-----------------------------------------------------------------------------
Placing == \E p \in Slots : request[p].at = "placing"

Others ==
    \/ \E n \in Students : StudentRegisters(n)
    \/ \E s \in DOMAIN enrolled : ReferenceSection(s)
    \/ \E k \in DOMAIN assignments : Unassign(k)
    \/ \E p \in Slots :
         \/ \E d \in Departments : AllocateLoad(p, d) \/ GenerateLoad(p, d)
         \/ AllocateCommit(p) \/ GenerateWipe(p) \/ GenerateRead(p)
         \/ GenerateCommit(p)
         \/ \E m \in classes, i \in Instructors : ReassignLoad(p, m, i)
         \/ ReassignCommit(p)
         \/ \E c \in Courses, i \in Instructors : AssignLoad(p, c, i)
         \/ AssignCommit(p)
         \/ RequestFails(p)

Next ==
    \/ ~Placing /\ Others
    \/ \E p \in Slots : Place(p) \/ EndAttempt(p)

Spec == Init /\ [][Next]_vars

-----------------------------------------------------------------------------
(* Properties.                                                             *)

(* Every row and every request is well formed; in particular a class lies  *)
(* within the teaching week.                                               *)
TypeOK ==
    /\ registered \subseteq Students /\ referenced \subseteq Section
    /\ pin \in [Students -> Section \cup {NoSection}]
    /\ DOMAIN enrolled \subseteq Section /\ \A s \in DOMAIN enrolled : enrolled[s] \in Nat
    /\ classes \subseteq Class /\ conflicts \subseteq Conflict
    /\ assignments \in Seq(Assignment)
    /\ runs \in [Departments -> Nat]
    /\ request \in [Slots -> Request] /\ draft \in [Slots -> Draft]

(* The rows of one generation never use a room twice in one hour, whoever  *)
(* regenerates, allocates or reassigns meanwhile.                          *)
RoomsFree ==
    \A x, y \in classes :
        x.run = y.run /\ x.room = y.room /\ x.day = y.day /\ x.block = y.block
        => x.section = y.section /\ x.course = y.course

(* A cohort has one class at a time, and no course twice on one day except *)
(* as the two adjacent hours of a session.                                 *)
CohortsFree ==
    \A x, y \in classes : x.section = y.section /\ x.day = y.day =>
        /\ x.block = y.block => x = y
        /\ x.run = y.run /\ x.course = y.course => x.block - y.block \in -1..1 /\ x.room = y.room

(* The timetable of a department at any time, also while requests overlap. *)
TimetableSound == RoomsFree /\ CohortsFree

(* Within a department an instructor teaches one class at a time.          *)
InstructorsFree ==
    \A x, y \in classes :
        /\ x.instructor = y.instructor /\ x.instructor # NoOne
        /\ x.section.dept = y.section.dept /\ x.day = y.day /\ x.block = y.block
        => x = y

(* What one generation has made of a section is complete or reported: each *)
(* course has its hours, or an OPEN conflict names it.  Two generations at *)
(* once can break this: the second deletes the conflicts of the first and  *)
(* keeps its classes.  What a department has made last stands by it.       *)
HoursOf(s, c, r) == {x \in classes : x.section = s /\ x.run = r /\ x.course = c}
Accounted(x) ==
    \A c \in Curriculum(x.section) :
        \/ Cardinality(HoursOf(x.section, c, x.run)) = CreditHours[c]
        \/ \E y \in conflicts : y.section = x.section /\ y.run = x.run /\ y.course = c
CompleteOrReported == \A x \in classes \cup conflicts : Accounted(x)
LatestComplete ==
    \A x \in classes \cup conflicts : x.run = runs[x.section.dept] => Accounted(x)

(* What a department's pages show is one generation: nothing of an earlier *)
(* one is left beside it, which would double the hours of a course.        *)
OneGeneration ==
    \A x, y \in classes \cup conflicts : x.section.dept = y.section.dept => x.run = y.run

(* A student's section is one of their department and semester; its count  *)
(* is that of its students, and the sections of a cohort differ by at most *)
(* one and fit the largest room.                                           *)
Balanced ==
    /\ \A n \in Students : pin[n] # NoSection =>
         /\ pin[n] \in DOMAIN enrolled
         /\ pin[n].dept = Cohort[n].dept /\ pin[n].semester = Cohort[n].semester
    /\ \A s \in DOMAIN enrolled :
         /\ enrolled[s] = Cardinality({n \in Students : pin[n] = s})
         /\ enrolled[s] \in 1..Largest(s.dept)
    /\ \A s, t \in DOMAIN enrolled :
         s.dept = t.dept /\ s.semester = t.semester => enrolled[s] - enrolled[t] \in -1..1

(* A course has at most one assignment.                                    *)
OneInstructor == \A c \in Courses : Cardinality(Live(c)) <= 1
=============================================================================
