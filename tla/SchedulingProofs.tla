--------------------------- MODULE SchedulingProofs ----------------------------
(***************************************************************************)
(* Theorems about the timetable, for any departments, rooms, students and  *)
(* instructors, and any number of requests that overlap or fail.           *)
(***************************************************************************)
EXTENDS SchedulingTurns, SumLemmas, FiniteSetTheorems, FunctionTheorems, SequenceTheorems, TLAPS

-----------------------------------------------------------------------------
(* The inductive invariant.                                                *)

\* A session of a department, and a place for it.
SessionOf(s, d) == s.section.dept = d /\ s.size \in 1..2
PlacementOf(x, d) ==
    /\ SessionOf(x.session, d)
    /\ x.start \in Nat
    /\ Owner[x.room] = d

\* No two placements clash.
Free(who, P) ==
    \A x, y \in P : x # y => ~Clash(who, x, y.session, y.day, y.start, y.room)

ClassRow(x) ==
    /\ DOMAIN x = {"section", "course", "instructor", "day", "block", "room", "run"}
    /\ x.section.dept \in Departments
    /\ Owner[x.room] = x.section.dept
    /\ x.block \in Nat
    /\ x.run \in Nat
    /\ x.run <= runs[x.section.dept]

RowsTyped ==
    /\ runs \in [Departments -> Nat]
    /\ \A x \in classes : ClassRow(x)

RequestFields == {"op", "at", "dept", "old", "runs", "stale", "target", "course", "instructor", "row"}
RequestsTyped ==
    /\ request = [p \in Slots |-> request[p]]
    /\ \A p \in Slots :
         /\ DOMAIN request[p] = RequestFields
         /\ request[p].op \in {"allocate", "generate"} => request[p].dept \in Departments

DraftFields == {"who", "todo", "placed", "left", "kept", "lost", "tries"}
DraftOf(f, d) ==
    /\ DOMAIN f = DraftFields
    /\ \A s \in f.todo \cup f.left : SessionOf(s, d)
    /\ \A x \in f.placed \cup f.kept : PlacementOf(x, d)
    /\ Free(f.who, f.placed)
    /\ Free(f.who, f.kept)
DraftsTyped ==
    /\ draft = [p \in Slots |-> draft[p]]
    /\ \A p \in Slots : DraftOf(draft[p], request[p].dept)
Blank ==
    \A p \in Slots : request[p].at \notin {"placing", "placed"} =>
        draft[p].placed = {} /\ draft[p].kept = {}
EmptyWhenIdle ==
    \A p \in Slots : request[p].at = "idle" => draft[p].todo = {} /\ draft[p].left = {}

IInv ==
    /\ RowsTyped
    /\ RequestsTyped
    /\ DraftsTyped
    /\ Blank
    /\ EmptyWhenIdle
    /\ RoomsFree
    /\ CohortsFree

-----------------------------------------------------------------------------
(* The placement.                                                          *)

LEMMA ClashSymmetric ==
    ASSUME NEW who, NEW x, NEW y,
           Clash(who, x, y.session, y.day, y.start, y.room)
    PROVE  Clash(who, y, x.session, x.day, x.start, x.room)
  BY DEF Clash, Hours

\* The best place is a feasible one.
LEMMA BestFeasible ==
    ASSUME NEW who, NEW P, NEW s, NEW x \in Best(who, P, s)
    PROVE  x \in Feasible(who, P, s)
<1> HIDE DEF Feasible
<1> DEFINE theirs  == {z \in P : who[s.course] # NoOne /\ who[z.session.course] = who[s.course]}
           cohorts == {z \in P : z.session.section = s.section}
           score(z) == <<HoursToday(theirs, z.day), HoursToday(cohorts, z.day),
                         z.start, Capacity[z.room], z.day>>
           scored  == {<<score(z), z>> : z \in Feasible(who, P, s)}
<1>1. PICK a \in {b \in scored : \A c \in scored : ~Less(c[1], b[1])} : x = a[2]
  BY Zenon DEF Best
<1> HIDE DEF score
<1>2. PICK z \in Feasible(who, P, s) : a = <<score(z), z>>
  BY <1>1
<1> QED  BY <1>1, <1>2

\* What is placed stays free of clashes.
LEMMA PlaceKeepsFree ==
    ASSUME NEW who, NEW P, NEW s, NEW x \in Feasible(who, P, s), Free(who, P)
    PROVE  Free(who, P \cup {x})
<1>1. \A y \in P : ~Clash(who, y, x.session, x.day, x.start, x.room)
  BY DEF Feasible
<1>2. \A y \in P : ~Clash(who, x, y.session, y.day, y.start, y.room)
  BY <1>1, ClashSymmetric
<1> QED  BY <1>1, <1>2, Zenon DEF Free

LEMMA FeasiblePlacement ==
    ASSUME NEW who, NEW P, NEW s, NEW d, NEW x \in Feasible(who, P, s), SessionOf(s, d)
    PROVE  PlacementOf(x, d)
  BY SchedulingAssumption DEF Feasible, PlacementOf, SessionOf, RoomsOf

\* Two hours that meet in one room, or in one section, belong to one placement.
LEMMA OnePlacement ==
    ASSUME NEW who, NEW P, Free(who, P), NEW x \in P, NEW y \in P, x.day = y.day,
           \/ /\ Hours(x) \cap Hours(y) # {}
              /\ x.room = y.room \/ x.session.section = y.session.section
           \/ x.session.section = y.session.section /\ x.session.course = y.session.course
    PROVE  x = y
  BY DEF Free, Clash, Hours

-----------------------------------------------------------------------------
(* The requests.                                                           *)

LEMMA InitInv == Init => IInv
  BY DEF Init, IInv, RowsTyped, RequestsTyped, RequestFields, DraftsTyped, DraftFields, DraftOf,
     Free, Blank, EmptyWhenIdle, RoomsFree, CohortsFree, Rest, NoDraft

\* A request that begins or ends leaves the placements in order.
LEMMA BeginInv ==
    ASSUME IInv, NEW p \in Slots, NEW r, Begin(p, r), DOMAIN r = RequestFields,
           r.op \in {"allocate", "generate"} => r.dept \in Departments
    PROVE  IInv'
<1>1. /\ request[p].at = "idle" /\ request' = [request EXCEPT ![p] = r]
      /\ UNCHANGED rows /\ draft' = draft
  BY DEF Begin
<1>2. RequestsTyped'
  BY <1>1 DEF IInv, RequestsTyped
<1>3. draft[p].todo = {} /\ draft[p].left = {} /\ draft[p].placed = {} /\ draft[p].kept = {}
  BY <1>1 DEF IInv, EmptyWhenIdle, Blank
<1>4. DraftsTyped'
  BY <1>1, <1>3 DEF IInv, DraftsTyped, DraftOf, RequestsTyped
<1>5. Blank' /\ EmptyWhenIdle'
  BY <1>1, <1>3 DEF IInv, Blank, EmptyWhenIdle, RequestsTyped
<1>6. RowsTyped' /\ RoomsFree' /\ CohortsFree'
  BY <1>1 DEF IInv, rows, RowsTyped, ClassRow, RoomsFree, CohortsFree
<1> QED  BY <1>2, <1>4, <1>5, <1>6 DEF IInv

LEMMA FinishInv ==
    ASSUME IInv, NEW p \in Slots, Finish(p)
    PROVE  RequestsTyped' /\ DraftsTyped' /\ Blank' /\ EmptyWhenIdle'
<1>1. RequestsTyped'
  BY DEF Finish, IInv, RequestsTyped, RequestFields, Rest
<1>2. \A q \in Slots : /\ draft'[q] = IF q = p THEN NoDraft ELSE draft[q]
                       /\ request'[q] = IF q = p THEN Rest ELSE request[q]
  BY DEF Finish, IInv, RequestsTyped, DraftsTyped
<1>3. \A d : DraftOf(NoDraft, d)
  BY DEF DraftOf, DraftFields, NoDraft, Free
<1>4. DraftsTyped'
  <2>1. draft' = [q \in Slots |-> draft'[q]]
    BY DEF Finish, IInv, DraftsTyped
  <2>2. \A q \in Slots : DraftOf(draft'[q], request'[q].dept)
    BY <1>2, <1>3 DEF IInv, DraftsTyped
  <2> QED  BY <2>1, <2>2 DEF DraftsTyped
<1>5. Blank' /\ EmptyWhenIdle'
  BY <1>2 DEF IInv, Blank, EmptyWhenIdle, NoDraft
<1> QED  BY <1>1, <1>4, <1>5

LEMMA KeptRows ==
    ASSUME RowsTyped, RoomsFree, CohortsFree, classes' \subseteq classes,
           \/ runs' = runs
           \/ \E d : runs' = [runs EXCEPT ![d] = @ + 1]
    PROVE  RowsTyped' /\ RoomsFree' /\ CohortsFree'
<1>1. runs' \in [Departments -> Nat] /\ \A d \in Departments : runs[d] <= runs'[d]
  BY DEF RowsTyped
<1>2. RowsTyped'
  BY <1>1 DEF RowsTyped, ClassRow
<1>3. RoomsFree' /\ CohortsFree'
  BY DEF RoomsFree, CohortsFree
<1> QED  BY <1>2, <1>3

LEMMA AllocateCommitInv ==
    ASSUME IInv, NEW p \in Slots, AllocateCommit(p)
    PROVE  IInv'
<1>1. Finish(p) /\ classes' \subseteq classes /\ NextRun(request[p].dept)
  BY DEF AllocateCommit
<1>2. RowsTyped' /\ RoomsFree' /\ CohortsFree'
  BY <1>1, KeptRows DEF IInv, NextRun
<1> QED  BY <1>1, <1>2, FinishInv DEF IInv

LEMMA GenerateLoadInv ==
    ASSUME IInv, NEW p \in Slots, NEW d \in Departments, GenerateLoad(p, d)
    PROVE  IInv'
<1> DEFINE todo == UNION {UNION {SessionsOf(s, c) : c \in Curriculum(s)} :
                     s \in {t \in SectionsOf(d) : ~Oversized(t, enrolled[t])}}
<1>1. \A x \in todo : SessionOf(x, d)
  BY DEF SessionsOf, SectionsOf, SessionOf
<1> DEFINE r == [Rest EXCEPT !.op = "generate", !.at = "loaded", !.dept = d,
                             !.old = SectionsOf(d),
                             !.runs = {x.run : x \in {y \in classes : y.section.dept = d}}]
<1>r. /\ request[p].at = "idle" /\ request' = [request EXCEPT ![p] = r]
  BY DEF GenerateLoad
<1>s. DOMAIN r = RequestFields /\ r.op = "generate" /\ r.at = "loaded" /\ r.dept = d
  BY DEF Rest, RequestFields
<1> HIDE DEF r
<1>2. /\ request[p].at = "idle"
      /\ \E x : /\ request' = [request EXCEPT ![p] = x]
                /\ DOMAIN x = RequestFields /\ x.op = "generate" /\ x.at = "loaded" /\ x.dept = d
  BY <1>r, <1>s, Zenon
<1>3. draft' = [draft EXCEPT ![p].todo = todo] /\ UNCHANGED rows
  BY DEF GenerateLoad
<1>4. draft[p].left = {} /\ draft[p].placed = {} /\ draft[p].kept = {}
  BY <1>2 DEF IInv, EmptyWhenIdle, Blank
<1> HIDE DEF todo
<1>5. RequestsTyped' /\ Blank' /\ EmptyWhenIdle'
  BY <1>2, <1>3, <1>4 DEF IInv, RequestsTyped, Blank, EmptyWhenIdle, DraftsTyped, DraftOf, DraftFields
<1>6. \A q \in Slots : DraftOf(draft'[q], request'[q].dept)
  <2>1. TAKE q \in Slots
  <2>2. CASE q = p
    <3>1. /\ DOMAIN draft'[p] = DraftFields
          /\ draft'[p].todo = todo /\ draft'[p].left = {}
          /\ draft'[p].placed = {} /\ draft'[p].kept = {}
      BY <1>3, <1>4 DEF IInv, DraftsTyped, DraftOf, DraftFields
    <3>2. request'[p].dept = d
      BY <1>2 DEF IInv, RequestsTyped
    <3> QED  BY <2>2, <3>1, <3>2, <1>1 DEF DraftOf, Free
  <2>3. CASE q # p
    BY <2>3, <1>2, <1>3 DEF IInv, RequestsTyped, DraftsTyped
  <2> QED  BY <2>2, <2>3
<1>7. DraftsTyped'
  BY <1>3, <1>6 DEF IInv, DraftsTyped
<1>8. RowsTyped' /\ RoomsFree' /\ CohortsFree'
  BY <1>3 DEF IInv, rows, RowsTyped, ClassRow, RoomsFree, CohortsFree
<1> QED  BY <1>5, <1>7, <1>8 DEF IInv

\* The deletion of the classes changes nothing but the slot's request.
LEMMA Wiped ==
    ASSUME IInv, NEW p \in Slots, GenerateWipe(p)
    PROVE  /\ UNCHANGED <<rows, draft>>
           /\ request[p].op = "generate" /\ request[p].at = "loaded"
           /\ \E S : S = {x.run : x \in {y \in conflicts : y.section.dept = request[p].dept}}
                    /\ request'[p] = [request[p] EXCEPT !.at = "wiped", !.stale = S]
           /\ \A q \in Slots \ {p} : request'[q] = request[q]
           /\ request' = [q \in Slots |-> request'[q]]
           /\ DOMAIN request'[p] = RequestFields
           /\ request'[p].op = request[p].op /\ request'[p].at = "wiped"
           /\ request'[p].dept = request[p].dept /\ request'[p].old = request[p].old
           /\ request'[p].runs = request[p].runs
           /\ request'[p].course = request[p].course
           /\ request'[p].instructor = request[p].instructor
<1> DEFINE S == {x.run : x \in {y \in conflicts : y.section.dept = request[p].dept}}
           r == [request[p] EXCEPT !.at = "wiped", !.stale = S]
<1>1. /\ UNCHANGED <<rows, draft>>
      /\ request[p].op = "generate" /\ request[p].at = "loaded"
      /\ request' = [request EXCEPT ![p].at = "wiped", ![p].stale = S]
  BY DEF GenerateWipe, Serving
<1>2. request = [q \in Slots |-> request[q]] /\ DOMAIN request[p] = RequestFields
  BY DEF IInv, RequestsTyped
<1> HIDE DEF S
<1>3. request' = [request EXCEPT ![p] = r]
  BY <1>1, <1>2
<1>4. /\ DOMAIN r = RequestFields
      /\ r.op = request[p].op /\ r.at = "wiped" /\ r.dept = request[p].dept
      /\ r.old = request[p].old /\ r.runs = request[p].runs /\ r.course = request[p].course
      /\ r.instructor = request[p].instructor
  BY <1>2 DEF RequestFields
<1>5. \E U : U = {x.run : x \in {y \in conflicts : y.section.dept = request[p].dept}}
             /\ r = [request[p] EXCEPT !.at = "wiped", !.stale = U]
  BY DEF S
<1> HIDE DEF r
<1>6. request'[p] = r /\ request' = [q \in Slots |-> request'[q]]
      /\ \A q \in Slots \ {p} : request'[q] = request[q]
  BY <1>2, <1>3
<1> QED  BY <1>1, <1>4, <1>5, <1>6, Zenon

LEMMA GenerateWipeInv ==
    ASSUME IInv, NEW p \in Slots, GenerateWipe(p)
    PROVE  IInv'
<1>1. /\ UNCHANGED <<rows, draft>> /\ request[p].at = "loaded"
      /\ \A q \in Slots \ {p} : request'[q] = request[q]
      /\ request' = [q \in Slots |-> request'[q]]
      /\ DOMAIN request'[p] = RequestFields /\ request'[p].at = "wiped"
      /\ request'[p].op = request[p].op /\ request'[p].dept = request[p].dept
  BY Wiped
<1>2. RequestsTyped'
  BY <1>1 DEF IInv, RequestsTyped
<1>3. \A q \in Slots : DraftOf(draft'[q], request'[q].dept)
  BY <1>1 DEF IInv, DraftsTyped
<1>4. DraftsTyped'
  BY <1>1, <1>3 DEF IInv, DraftsTyped
<1>5. Blank' /\ EmptyWhenIdle'
  BY <1>1 DEF IInv, Blank, EmptyWhenIdle
<1>6. RowsTyped' /\ RoomsFree' /\ CohortsFree'
  BY <1>1 DEF IInv, rows, RowsTyped, ClassRow, RoomsFree, CohortsFree
<1> QED  BY <1>2, <1>4, <1>5, <1>6 DEF IInv

\* A step that only moves one slot's placement on.
LEMMA DraftMoves ==
    ASSUME IInv, NEW p \in Slots, NEW f, NEW at, UNCHANGED rows,
           draft' = [draft EXCEPT ![p] = f],
           request' = [request EXCEPT ![p].at = at] \/ request' = request,
           request'[p].at \in {"placing", "placed"},
           DraftOf(f, request[p].dept)
    PROVE  IInv'
<1>1. \A q \in Slots : /\ draft'[q] = IF q = p THEN f ELSE draft[q]
                       /\ q # p => request'[q] = request[q]
                       /\ request'[q].dept = request[q].dept /\ request'[q].op = request[q].op
                       /\ DOMAIN request'[q] = RequestFields
  BY DEF IInv, DraftsTyped, RequestsTyped, RequestFields
<1>2. RequestsTyped'
  BY <1>1 DEF IInv, RequestsTyped
<1>3. DraftsTyped'
  <2>1. draft' = [q \in Slots |-> draft'[q]]
    BY DEF IInv, DraftsTyped
  <2>2. \A q \in Slots : DraftOf(draft'[q], request'[q].dept)
    BY <1>1 DEF IInv, DraftsTyped
  <2> QED  BY <2>1, <2>2 DEF DraftsTyped
<1>4. Blank' /\ EmptyWhenIdle'
  BY <1>1 DEF IInv, Blank, EmptyWhenIdle
<1>5. RowsTyped' /\ RoomsFree' /\ CohortsFree'
  BY DEF IInv, rows, RowsTyped, ClassRow, RoomsFree, CohortsFree
<1> QED  BY <1>2, <1>3, <1>4, <1>5 DEF IInv

LEMMA GenerateReadInv ==
    ASSUME IInv, NEW p \in Slots, GenerateRead(p)
    PROVE  IInv'
<1> DEFINE f == [draft[p] EXCEPT !.who = [c \in Courses |-> Picked(c)]]
<1>1. /\ draft' = [draft EXCEPT ![p] = f] /\ UNCHANGED rows
      /\ request' = [request EXCEPT ![p].at = "placing"]
      /\ request[p].at = "wiped"
  BY DEF GenerateRead, Serving
<1>2. request'[p].at = "placing"
  BY <1>1 DEF IInv, RequestsTyped, RequestFields
<1>3. DraftOf(f, request[p].dept)
  <2>1. DraftOf(draft[p], request[p].dept) /\ draft[p].placed = {} /\ draft[p].kept = {}
    BY <1>1 DEF IInv, DraftsTyped, Blank
  <2>2. /\ DOMAIN f = DraftFields /\ f.todo = draft[p].todo /\ f.left = draft[p].left
        /\ f.placed = {} /\ f.kept = {}
    BY <2>1 DEF DraftOf, DraftFields
  <2> QED  BY <2>1, <2>2 DEF DraftOf, Free
<1> HIDE DEF f
<1> QED  BY <1>1, <1>2, <1>3, DraftMoves

LEMMA PlaceInv ==
    ASSUME IInv, NEW p \in Slots, Place(p)
    PROVE  IInv'
<1> DEFINE d == request[p].dept
<1>1. PICK s \in Tightest(draft[p].todo) :
         LET best == Best(draft[p].who, draft[p].placed, s)
         IN  \/ \E x \in best :
                  draft' = [draft EXCEPT ![p].todo = @ \ {s}, ![p].placed = @ \cup {x}]
             \/ /\ best = {}
                /\ draft' = [draft EXCEPT ![p].todo = @ \ {s}, ![p].left = @ \cup {s}]
  BY DEF Place
<1>2. DraftOf(draft[p], d) /\ DOMAIN draft[p] = DraftFields
  BY DEF IInv, DraftsTyped, DraftOf
<1>3. s \in draft[p].todo /\ SessionOf(s, d)
  BY <1>1, <1>2 DEF Tightest, DraftOf
<1>4. request' = request /\ request'[p].at = "placing" /\ UNCHANGED rows
  BY DEF Place, Serving
<1>5. ASSUME NEW x \in Best(draft[p].who, draft[p].placed, s),
             draft' = [draft EXCEPT ![p].todo = @ \ {s}, ![p].placed = @ \cup {x}]
      PROVE  IInv'
  <2> DEFINE f == [draft[p] EXCEPT !.todo = @ \ {s}, !.placed = @ \cup {x}]
  <2>1. draft' = [draft EXCEPT ![p] = f]
    BY <1>5 DEF IInv, DraftsTyped
  <2>2. x \in Feasible(draft[p].who, draft[p].placed, s)
    BY BestFeasible
  <2>3. PlacementOf(x, d) /\ Free(draft[p].who, draft[p].placed \cup {x})
    BY <1>2, <1>3, <2>2, FeasiblePlacement, PlaceKeepsFree DEF DraftOf
  <2>4. /\ DOMAIN f = DraftFields /\ f.who = draft[p].who /\ f.todo = draft[p].todo \ {s}
        /\ f.left = draft[p].left /\ f.placed = draft[p].placed \cup {x}
        /\ f.kept = draft[p].kept
    BY <1>2 DEF DraftFields
  <2> HIDE DEF f
  <2>5. DraftOf(f, d)
    BY <1>2, <2>3, <2>4 DEF DraftOf
  <2> QED  BY <1>4, <2>1, <2>5, DraftMoves
<1>6. ASSUME draft' = [draft EXCEPT ![p].todo = @ \ {s}, ![p].left = @ \cup {s}]
      PROVE  IInv'
  <2> DEFINE f == [draft[p] EXCEPT !.todo = @ \ {s}, !.left = @ \cup {s}]
  <2>1. draft' = [draft EXCEPT ![p] = f]
    BY <1>6 DEF IInv, DraftsTyped
  <2>4. /\ DOMAIN f = DraftFields /\ f.who = draft[p].who /\ f.todo = draft[p].todo \ {s}
        /\ f.left = draft[p].left \cup {s} /\ f.placed = draft[p].placed
        /\ f.kept = draft[p].kept
    BY <1>2 DEF DraftFields
  <2> HIDE DEF f
  <2>5. DraftOf(f, d)
    BY <1>2, <1>3, <2>4 DEF DraftOf
  <2> QED  BY <1>4, <2>1, <2>5, DraftMoves
<1> QED  BY <1>1, <1>5, <1>6

LEMMA EndAttemptInv ==
    ASSUME IInv, NEW p \in Slots, EndAttempt(p)
    PROVE  IInv'
<1> DEFINE g == draft[p]
           kept == IF Keeps(g) THEN g.placed ELSE g.kept
           lost == IF Keeps(g) THEN g.left ELSE g.lost
           again == lost # {} /\ g.tries < MaxRetries
           f == [g EXCEPT !.kept = kept, !.lost = lost,
                          !.todo = IF again THEN {x.session : x \in g.placed} \cup g.left ELSE {},
                          !.placed = {}, !.left = {},
                          !.tries = IF again THEN @ + 1 ELSE @]
           at == IF again THEN "placing" ELSE "placed"
<1>1. /\ draft' = [draft EXCEPT ![p] = f] /\ UNCHANGED rows
      /\ request' = [request EXCEPT ![p].at = at]
  BY DEF EndAttempt
<1>2. request'[p].at \in {"placing", "placed"}
  BY <1>1 DEF IInv, RequestsTyped, RequestFields
<1>3. DraftOf(g, request[p].dept) /\ DOMAIN g = DraftFields
  BY DEF IInv, DraftsTyped, DraftOf
<1>4. /\ DOMAIN f = DraftFields /\ f.who = g.who
      /\ f.todo \subseteq {x.session : x \in g.placed} \cup g.left
      /\ f.left = {} /\ f.placed = {} /\ f.kept \in {g.placed, g.kept}
  BY <1>3 DEF DraftFields
<1> HIDE DEF f, at, g
<1>5. DraftOf(f, request[p].dept)
  BY <1>3, <1>4 DEF DraftOf, PlacementOf, Free
<1> QED  BY <1>1, <1>2, <1>5, DraftMoves DEF g

\* The rows that a placement becomes.
LEMMA ClassesRows ==
    ASSUME NEW f, NEW run, NEW x \in ClassesOf(f, run)
    PROVE  \E z \in f.kept :
             /\ x.block \in Hours(z)
             /\ x = [section |-> z.session.section, course |-> z.session.course,
                     instructor |-> f.who[z.session.course], day |-> z.day, block |-> x.block,
                     room |-> z.room, run |-> run]
  BY DEF ClassesOf

LEMMA GenerateCommitInv ==
    ASSUME IInv, NEW p \in Slots, GenerateCommit(p)
    PROVE  IInv'
<1> DEFINE d     == request[p].dept
           run   == runs[d] + 1
           f     == draft[p]
           fresh == ClassesOf(f, run)
           stay  == classes \ Loaded(classes, d, request[p].runs)
<1>1. /\ classes' = stay \cup fresh /\ NextRun(d) /\ Finish(p)
      /\ request[p].op = "generate"
  BY DEF GenerateCommit, Serving
<1>2. \A x \in fresh, y \in stay : x.section # y.section \/ x.day # y.day \/ x.block # y.block
  BY DEF GenerateCommit
<1>3. d \in Departments /\ DraftOf(f, d)
  BY <1>1 DEF IInv, RequestsTyped, DraftsTyped
<1>4. /\ runs' \in [Departments -> Nat] /\ runs'[d] = run
      /\ \A e \in Departments : runs[e] <= runs'[e]
  BY <1>1, <1>3 DEF IInv, RowsTyped, NextRun
<1>5. stay \subseteq classes
  BY DEF Loaded
<1> HIDE DEF fresh, stay, d, run, f
<1>6. \A x \in fresh :
        /\ DOMAIN x = {"section", "course", "instructor", "day", "block", "room", "run"}
        /\ x.run = run
        /\ \E z \in f.kept :
             /\ x.block \in Hours(z)
             /\ x.section = z.session.section /\ x.course = z.session.course
             /\ x.instructor = f.who[x.course]
             /\ x.day = z.day /\ x.room = z.room
  BY ClassesRows DEF fresh
<1>7. \A x \in fresh : x.section.dept = d /\ Owner[x.room] = d /\ x.block \in Nat
  BY <1>3, <1>6 DEF DraftOf, PlacementOf, SessionOf, Hours, Span
<1>8. \A y \in stay : y.section.dept = d => y.run < run
  BY <1>3, <1>5 DEF IInv, RowsTyped, ClassRow, run
<1>9. RowsTyped'
  BY <1>1, <1>3, <1>4, <1>5, <1>6, <1>7 DEF IInv, RowsTyped, ClassRow, run
<1>10. ASSUME NEW x \in fresh, NEW y \in fresh
       PROVE  /\ x.room = y.room /\ x.day = y.day /\ x.block = y.block
                 => x.section = y.section /\ x.course = y.course
              /\ x.section = y.section /\ x.day = y.day =>
                 /\ x.block = y.block => x = y
                 /\ x.course = y.course => x.block - y.block \in -1..1 /\ x.room = y.room
  <2>1. PICK v \in f.kept :
           /\ x.block \in Hours(v) /\ x.section = v.session.section /\ x.course = v.session.course
           /\ x.instructor = f.who[x.course] /\ x.day = v.day /\ x.room = v.room
    BY <1>6
  <2>2. PICK w \in f.kept :
           /\ y.block \in Hours(w) /\ y.section = w.session.section /\ y.course = w.session.course
           /\ y.instructor = f.who[y.course] /\ y.day = w.day /\ y.room = w.room
    BY <1>6
  <2>f. /\ Free(f.who, f.kept)
        /\ v.day = x.day /\ w.day = y.day /\ v.room = x.room /\ w.room = y.room
        /\ v.session.section = x.section /\ w.session.section = y.section
        /\ v.session.course = x.course /\ w.session.course = y.course
    BY <1>3, <2>1, <2>2 DEF DraftOf
  <2>3. x.day = y.day /\ x.block = y.block /\ (x.room = y.room \/ x.section = y.section) => v = w
    <3>1. x.block = y.block => Hours(v) \cap Hours(w) # {}
      BY <2>1, <2>2
    <3> QED  BY <2>f, <3>1, OnePlacement
  <2>4. x.day = y.day /\ x.section = y.section /\ x.course = y.course => v = w
    BY <2>f, OnePlacement
  <2>5. v = w => x.block - y.block \in -1..1
    <3>1. PlacementOf(v, d)
      BY <1>3 DEF DraftOf
    <3> QED  BY <2>1, <2>2, <3>1 DEF PlacementOf, SessionOf, Hours, Span
  <2>6. v = w /\ x.block = y.block => x = y
    <3>1. PICK a \in f.kept :
             /\ x.block \in Hours(a)
             /\ x = [section |-> a.session.section, course |-> a.session.course,
                     instructor |-> f.who[a.session.course], day |-> a.day, block |-> x.block,
                     room |-> a.room, run |-> run]
      BY ClassesRows DEF fresh
    <3>2. PICK b \in f.kept :
             /\ y.block \in Hours(b)
             /\ y = [section |-> b.session.section, course |-> b.session.course,
                     instructor |-> f.who[b.session.course], day |-> b.day, block |-> y.block,
                     room |-> b.room, run |-> run]
      BY ClassesRows DEF fresh
    <3>3. x = [section |-> x.section, course |-> x.course, instructor |-> x.instructor,
               day |-> x.day, block |-> x.block, room |-> x.room, run |-> run]
      BY <3>1
    <3>4. y = [section |-> y.section, course |-> y.course, instructor |-> y.instructor,
               day |-> y.day, block |-> y.block, room |-> y.room, run |-> run]
      BY <3>2
    <3> QED  BY <2>1, <2>2, <3>3, <3>4
  <2> QED  BY <2>1, <2>2, <2>3, <2>4, <2>5, <2>6
<1>11. ASSUME NEW x \in fresh, NEW y \in stay
       PROVE  ~(x.run = y.run /\ (x.room = y.room \/ x.section = y.section))
  <2>1. ClassRow(y)
    BY <1>5 DEF IInv, RowsTyped
  <2> QED  BY <1>6, <1>7, <1>8, <2>1, <1>3 DEF ClassRow, IInv, RowsTyped, run
<1>12. RoomsFree'
  BY <1>1, <1>5, <1>10, <1>11 DEF IInv, RoomsFree
<1>13. CohortsFree'
  <2>1. ASSUME NEW x \in stay \cup fresh, NEW y \in stay \cup fresh, x.section = y.section, x.day = y.day
        PROVE  /\ x.block = y.block => x = y
               /\ x.run = y.run /\ x.course = y.course
                    => x.block - y.block \in -1..1 /\ x.room = y.room
    <3>1. CASE x \in fresh /\ y \in fresh
      BY <2>1, <3>1, <1>10
    <3>2. CASE x \in fresh /\ y \in stay
      BY <2>1, <3>2, <1>2, <1>11
    <3>3. CASE x \in stay /\ y \in fresh
      BY <2>1, <3>3, <1>2, <1>11
    <3>4. CASE x \in stay /\ y \in stay
      BY <2>1, <3>4, <1>5 DEF IInv, CohortsFree
    <3> QED  BY <3>1, <3>2, <3>3, <3>4
  <2> QED  BY <2>1, <1>1 DEF CohortsFree
<1> QED  BY <1>1, <1>9, <1>12, <1>13, FinishInv DEF IInv

\* A class that is reassigned keeps everything but its instructor.
LEMMA ReassignCommitInv ==
    ASSUME IInv, NEW p \in Slots, ReassignCommit(p)
    PROVE  IInv'
<1> DEFINE i == request[p].instructor
<1>1. PICK m \in classes : classes' = (classes \ {m}) \cup {[m EXCEPT !.instructor = i]}
  BY DEF ReassignCommit
<1>2. Finish(p) /\ runs' = runs
  BY DEF ReassignCommit
<1> DEFINE n == [m EXCEPT !.instructor = i]
           Was(x) == IF x = n THEN m ELSE x
<1>3. ClassRow(m)
  BY DEF IInv, RowsTyped
<1>4. /\ DOMAIN n = DOMAIN m
      /\ n.section = m.section /\ n.course = m.course /\ n.day = m.day /\ n.block = m.block
      /\ n.room = m.room /\ n.run = m.run
  BY <1>3 DEF ClassRow
<1>n. classes' = (classes \ {m}) \cup {n}
  BY <1>1
<1> HIDE DEF n
<1>5. \A x \in classes' :
        /\ Was(x) \in classes
        /\ DOMAIN x = DOMAIN Was(x)
        /\ x.section = Was(x).section /\ x.course = Was(x).course /\ x.day = Was(x).day
        /\ x.block = Was(x).block /\ x.room = Was(x).room /\ x.run = Was(x).run
  BY <1>n, <1>4
<1>6. \A x, y \in classes' : Was(x) = Was(y) => x = y
  BY <1>n
<1> HIDE DEF Was
<1>7. RowsTyped'
  BY <1>2, <1>5 DEF IInv, RowsTyped, ClassRow
<1>8. RoomsFree'
  BY <1>5 DEF IInv, RoomsFree
<1>9. CohortsFree'
  BY <1>5, <1>6 DEF IInv, CohortsFree
<1> QED  BY <1>2, <1>7, <1>8, <1>9, FinishInv DEF IInv

LEMMA AssignCommitInv ==
    ASSUME IInv, NEW p \in Slots, AssignCommit(p)
    PROVE  IInv'
<1>1. Finish(p) /\ runs' = runs /\ classes' = classes
  BY DEF AssignCommit
<1> QED  BY <1>1, KeptRows, FinishInv DEF IInv

LEMMA QuietInv ==
    ASSUME IInv, runs' = runs, classes' = classes, request' = request, draft' = draft
    PROVE  IInv'
  BY DEF IInv, RowsTyped, ClassRow, RequestsTyped, DraftsTyped, Blank, EmptyWhenIdle, RoomsFree,
     CohortsFree

LEMMA NextInv == IInv /\ [Next]_vars => IInv'
<1> SUFFICES ASSUME IInv, [Next]_vars
             PROVE  IInv'
  OBVIOUS
<1>1. ASSUME NEW n \in Students, StudentRegisters(n)
      PROVE  IInv'
  BY <1>1, QuietInv DEF StudentRegisters
<1>2. ASSUME NEW s \in DOMAIN enrolled, ReferenceSection(s)
      PROVE  IInv'
  BY <1>2, QuietInv DEF ReferenceSection
<1>3. ASSUME NEW k \in DOMAIN assignments, Unassign(k)
      PROVE  IInv'
  BY <1>3, QuietInv DEF Unassign
<1>4. ASSUME NEW p \in Slots, NEW d \in Departments, AllocateLoad(p, d)
      PROVE  IInv'
  <2> DEFINE r == [Rest EXCEPT !.op = "allocate", !.at = "loaded", !.dept = d,
                               !.old = SectionsOf(d)]
  <2>1. Begin(p, r) /\ DOMAIN r = RequestFields /\ r.dept = d
    BY <1>4 DEF AllocateLoad, Rest, RequestFields
  <2> QED  BY <2>1, BeginInv
<1>5. ASSUME NEW p \in Slots, NEW m \in classes, NEW i \in Instructors, ReassignLoad(p, m, i)
      PROVE  IInv'
  <2> DEFINE r == [Rest EXCEPT !.op = "reassign", !.at = "loaded", !.target = m,
                               !.instructor = i]
  <2>1. Begin(p, r) /\ DOMAIN r = RequestFields /\ r.op = "reassign"
    BY <1>5 DEF ReassignLoad, Rest, RequestFields
  <2> QED  BY <2>1, BeginInv
<1>6. ASSUME NEW p \in Slots, NEW c \in Courses, NEW i \in Instructors, AssignLoad(p, c, i)
      PROVE  IInv'
  <2> DEFINE r == [Rest EXCEPT !.op = "assign", !.at = "loaded", !.course = c,
                               !.instructor = i, !.row = Latest(c)]
  <2>1. Begin(p, r) /\ DOMAIN r = RequestFields /\ r.op = "assign"
    BY <1>6 DEF AssignLoad, Rest, RequestFields
  <2> QED  BY <2>1, BeginInv
<1>7. ASSUME NEW p \in Slots, RequestFails(p)
      PROVE  IInv'
  <2>1. Finish(p) /\ runs' = runs /\ classes' = classes
    BY <1>7 DEF RequestFails, rows
  <2> QED  BY <2>1, KeptRows, FinishInv DEF IInv
<1>8. CASE UNCHANGED vars
  BY <1>8, QuietInv DEF vars, rows
<1> QED
  BY <1>1, <1>2, <1>3, <1>4, <1>5, <1>6, <1>7, <1>8, AllocateCommitInv, GenerateLoadInv,
     GenerateWipeInv, GenerateReadInv, PlaceInv, EndAttemptInv, GenerateCommitInv, ReassignCommitInv,
     AssignCommitInv DEF Next, Others

\* The inductive invariant holds however requests overlap.
THEOREM Invariant == Spec => []IInv
  BY InitInv, NextInv, PTL DEF Spec

\* The rows of one generation never use a room twice in one hour, and a cohort has
\* one class at a time and no course twice on a day, whatever allocations,
\* generations and reassignments run side by side or fail half-way.
THEOREM Sound == Spec => []TimetableSound
<1>1. IInv => TimetableSound
  BY DEF IInv, TimetableSound
<1> QED  BY <1>1, Invariant, PTL

-----------------------------------------------------------------------------
(* Nothing is left out: what a generation looks for, and what its rows are. *)

Sessions(P) == {x.session : x \in P}
Sought(old) ==
    UNION {UNION {SessionsOf(s, c) : c \in Curriculum(s)} :
             s \in {t \in old : ~Oversized(t, enrolled[t])}}

OneEach(P) == \A x, y \in P : x.session = y.session => x = y

\* Every session is to be placed, placed, or left; and so it is with the best attempt.
Search(f, at, old) ==
    /\ OneEach(f.placed) /\ OneEach(f.kept)
    /\ f.todo \cap Sessions(f.placed) = {}
    /\ at \in {"loaded", "wiped", "placing"} => f.todo \cup Sessions(f.placed) \cup f.left = Sought(old)
    /\ (at = "placing" /\ f.tries # 0) \/ at = "placed" =>
          Sessions(f.kept) \cup f.lost = Sought(old)

Searching ==
    \A p \in Slots : request[p].op = "generate" /\ request[p].old \subseteq DOMAIN enrolled =>
        Search(draft[p], request[p].at, request[p].old)
FreshDrafts ==
    \A p \in Slots : request[p].at \notin {"placing", "placed"} => draft[p].tries = 0

Made(s, d) == s.dept = d /\ s.run \in Nat /\ s.run <= runs[d]
SectionsKnown == \A s \in DOMAIN enrolled : s.dept \in Departments /\ Made(s, s.dept)
OldKnown ==
    \A p \in Slots : request[p].op = "generate" =>
        \A s \in request[p].old : Made(s, request[p].dept)
RowsKnown ==
    /\ \A x \in classes \cup conflicts : x.section \in DOMAIN enrolled
    /\ \A x \in conflicts : /\ x.course \in Curriculum(x.section)
                            /\ x.run \in Nat /\ x.run <= runs[x.section.dept]

\* One run has made all hours of a course of a section, or has reported the course: always
\* what a department has made last, and while requests take turns all that stands.
Full(s, c, r) == ExistsBijection(1..CreditHours[c], HoursOf(s, c, r))
Named(s, c, r) == \E x \in conflicts : x.section = s /\ x.run = r /\ x.course = c
FullOrNamed(x) ==
    \A c \in Curriculum(x.section) : Full(x.section, c, x.run) \/ Named(x.section, c, x.run)
LatestFull ==
    \A x \in classes \cup conflicts : x.run = runs[x.section.dept] => FullOrNamed(x)
EveryFull == \A x \in classes \cup conflicts : FullOrNamed(x)

FInv ==
    /\ SectionsKnown
    /\ OldKnown
    /\ RowsKnown
    /\ FreshDrafts
    /\ Searching
    /\ LatestFull

LEMMA InitFull == Init => FInv
<1> SUFFICES ASSUME Init PROVE FInv
  OBVIOUS
<1>1. /\ \A p \in Slots : request[p].op = "none" /\ draft[p].tries = 0
      /\ enrolled = << >> /\ classes = {} /\ conflicts = {}
  BY DEF Init, Rest, NoDraft
<1>2. DOMAIN enrolled = {}
  BY <1>1
<1> QED
  BY <1>1, <1>2 DEF FInv, SectionsKnown, OldKnown, RowsKnown, FreshDrafts, Searching, LatestFull

\* A section keeps its number of students as long as it is there.
LEMMA SoughtKept ==
    \A old : (\A s \in old : enrolled'[s] = enrolled[s]) => Sought(old)' = Sought(old)
<1> SUFFICES ASSUME NEW old, \A s \in old : enrolled'[s] = enrolled[s]
             PROVE  Sought(old)' = Sought(old)
  OBVIOUS
<1>1. {t \in old : ~Oversized(t, enrolled'[t])} = {t \in old : ~Oversized(t, enrolled[t])}
  BY Zenon
<1>2. ASSUME NEW s \in old, NEW c
      PROVE  SessionsOf(s, c)' = SessionsOf(s, c)
  BY <1>2 DEF SessionsOf
<1>3. ASSUME NEW s \in old
      PROVE  (UNION {SessionsOf(s, c) : c \in Curriculum(s)})'
               = UNION {SessionsOf(s, c) : c \in Curriculum(s)}
  BY <1>2, <1>3
<1> QED  BY <1>1, <1>3 DEF Sought

\* The search of a slot that does not move, in sections that are there or gone.
LEMMA SearchKept ==
    ASSUME FInv, NEW q \in Slots, request'[q] = request[q], draft'[q] = draft[q],
           request[q].op = "generate" /\ request[q].old \subseteq DOMAIN enrolled' =>
              /\ request[q].old \subseteq DOMAIN enrolled
              /\ \A s \in request[q].old : enrolled'[s] = enrolled[s],
           request[q].op = "generate", request[q].old \subseteq DOMAIN enrolled'
    PROVE  Search(draft[q], request[q].at, request[q].old)'
<1>1. Search(draft[q], request[q].at, request[q].old)
  BY DEF FInv, Searching
<1>2. Sought(request[q].old)' = Sought(request[q].old)
  BY SoughtKept
<1> HIDE DEF Sought
<1> QED  BY <1>1, <1>2 DEF Search

LEMMA RowsSame ==
    ASSUME FInv, UNCHANGED <<enrolled, classes, conflicts, runs>>
    PROVE  SectionsKnown' /\ RowsKnown' /\ LatestFull'
  BY DEF FInv, SectionsKnown, Made, RowsKnown, LatestFull, FullOrNamed, Full, HoursOf, Named

LEMMA LaterRuns ==
    ASSUME IInv, NEW d \in Departments, NextRun(d)
    PROVE  \A s : \A e \in Departments : Made(s, e) => Made(s, e)'
<1>1. \A e \in Departments : runs[e] \in Nat /\ runs'[e] \in Nat /\ runs[e] <= runs'[e]
  BY DEF NextRun, IInv, RowsTyped
<1> QED  BY <1>1 DEF Made

\* A slot that begins, ends or stays.
LEMMA SlotsSame ==
    ASSUME IInv, FInv, NEW p \in Slots, enrolled' = enrolled,
           \A s : \A e \in Departments : Made(s, e) => Made(s, e)',
           \A q \in Slots \ {p} : request'[q] = request[q] /\ draft'[q] = draft[q],
           request'[p].op = "generate" => request'[p] = request[p] /\ draft'[p] = draft[p],
           request'[p].at \notin {"placing", "placed"} => draft'[p].tries = 0
    PROVE  OldKnown' /\ FreshDrafts' /\ Searching'
<1>1. OldKnown'
  BY DEF FInv, OldKnown, IInv, RequestsTyped
<1>2. FreshDrafts'
  BY DEF FInv, FreshDrafts
<1>3. Searching'
  BY SearchKept DEF Searching
<1> QED  BY <1>1, <1>2, <1>3

LEMMA BeginFull ==
    ASSUME IInv, FInv, NEW p \in Slots, NEW r, Begin(p, r), r.op # "generate"
    PROVE  FInv'
<1>1. /\ request[p].at = "idle" /\ UNCHANGED rows
      /\ request' = [request EXCEPT ![p] = r] /\ draft' = draft
  BY DEF Begin
<1>2. draft[p].tries = 0
  BY <1>1 DEF FInv, FreshDrafts
<1>3. /\ \A q \in Slots \ {p} : request'[q] = request[q] /\ draft'[q] = draft[q]
      /\ request'[p] = r /\ draft'[p] = draft[p]
  BY <1>1 DEF IInv, RequestsTyped
<1>4. \A s : \A e \in Departments : Made(s, e) => Made(s, e)'
  BY <1>1 DEF rows, Made
<1> QED  BY <1>1, <1>2, <1>3, <1>4, RowsSame, SlotsSame DEF rows, FInv

LEMMA FinishFull ==
    ASSUME IInv, FInv, NEW p \in Slots, Finish(p), enrolled' = enrolled,
           \A s : \A e \in Departments : Made(s, e) => Made(s, e)'
    PROVE  OldKnown' /\ FreshDrafts' /\ Searching'
<1>1. /\ \A q \in Slots \ {p} : request'[q] = request[q] /\ draft'[q] = draft[q]
      /\ request'[p] = Rest /\ draft'[p] = NoDraft
  BY DEF Finish, IInv, RequestsTyped, DraftsTyped
<1>2. Rest.op = "none" /\ NoDraft.tries = 0
  BY DEF Rest, NoDraft
<1> QED  BY <1>1, <1>2, SlotsSame

\* A step of one slot's search.
LEMMA SearchMoves ==
    ASSUME IInv, FInv, NEW p \in Slots, NEW f, NEW at, UNCHANGED rows,
           draft' = [draft EXCEPT ![p] = f],
           request' = [request EXCEPT ![p].at = at] \/ request' = request,
           request'[p].at \in {"placing", "placed"},
           request[p].op = "generate",
           Search(draft[p], request[p].at, request[p].old) =>
              Search(f, request'[p].at, request[p].old)
    PROVE  FInv'
<1>1. \A q \in Slots : /\ draft'[q] = IF q = p THEN f ELSE draft[q]
                       /\ q # p => request'[q] = request[q]
                       /\ request'[q].dept = request[q].dept /\ request'[q].op = request[q].op
                       /\ request'[q].old = request[q].old
  BY DEF IInv, DraftsTyped, RequestsTyped, RequestFields
<1>2. SectionsKnown' /\ RowsKnown' /\ LatestFull'
  BY RowsSame DEF rows
<1>3. OldKnown'
  BY <1>1 DEF FInv, OldKnown, Made, rows
<1>4. FreshDrafts'
  BY <1>1 DEF FInv, FreshDrafts
<1>5. Searching'
  <2> SUFFICES ASSUME NEW q \in Slots, request'[q].op = "generate",
                      request'[q].old \subseteq DOMAIN enrolled'
               PROVE  Search(draft[q], request[q].at, request[q].old)'
    BY DEF Searching
  <2>1. enrolled' = enrolled
    BY DEF rows
  <2>2. CASE q # p
    BY <2>1, <2>2, <1>1, SearchKept
  <2>3. CASE q = p
    <3>1. Search(draft[p], request[p].at, request[p].old)
      BY <1>1, <2>1, <2>3 DEF FInv, Searching
    <3>2. Sought(request[p].old)' = Sought(request[p].old)
      BY <1>1, <2>1, SoughtKept
    <3> HIDE DEF Sought
    <3>3. Search(f, request'[p].at, request[p].old)
      BY <3>1
    <3>4. draft'[p] = f
      BY <1>1
    <3> QED  BY <3>2, <3>3, <3>4, <2>3 DEF Search
  <2> QED  BY <2>2, <2>3
<1> QED  BY <1>2, <1>3, <1>4, <1>5 DEF FInv

LEMMA GenerateLoadFull ==
    ASSUME IInv, FInv, NEW p \in Slots, NEW d \in Departments, GenerateLoad(p, d)
    PROVE  FInv'
<1> DEFINE r == [Rest EXCEPT !.op = "generate", !.at = "loaded", !.dept = d,
                             !.old = SectionsOf(d),
                             !.runs = {x.run : x \in {y \in classes : y.section.dept = d}}]
           f == [draft[p] EXCEPT !.todo = Sought(SectionsOf(d))]
<1>1. /\ request[p].at = "idle" /\ request' = [request EXCEPT ![p] = r] /\ UNCHANGED rows
      /\ draft' = [draft EXCEPT ![p] = f]
  BY DEF GenerateLoad, Sought
<1>2. r.op = "generate" /\ r.at = "loaded" /\ r.dept = d /\ r.old = SectionsOf(d)
  BY DEF Rest
<1>3. /\ draft[p].left = {} /\ draft[p].placed = {} /\ draft[p].kept = {} /\ draft[p].tries = 0
      /\ DOMAIN draft[p] = DraftFields
  BY <1>1 DEF IInv, EmptyWhenIdle, Blank, DraftsTyped, DraftOf, FInv, FreshDrafts
<1>4. /\ f.left = {} /\ f.placed = {} /\ f.kept = {} /\ f.tries = 0
      /\ f.todo = Sought(SectionsOf(d))
  BY <1>3 DEF DraftFields
<1> HIDE DEF r, f
<1>5. /\ \A q \in Slots \ {p} : request'[q] = request[q] /\ draft'[q] = draft[q]
      /\ request'[p] = r /\ draft'[p] = f
  BY <1>1 DEF IInv, RequestsTyped, DraftsTyped
<1>6. SectionsKnown' /\ RowsKnown' /\ LatestFull'
  BY <1>1, RowsSame DEF rows
<1>7. OldKnown'
  BY <1>1, <1>2, <1>5 DEF FInv, OldKnown, Made, SectionsKnown, SectionsOf, rows
<1>8. FreshDrafts'
  BY <1>2, <1>4, <1>5 DEF FInv, FreshDrafts
<1>9. Searching'
  <2> SUFFICES ASSUME NEW q \in Slots, request'[q].op = "generate",
                      request'[q].old \subseteq DOMAIN enrolled'
               PROVE  Search(draft[q], request[q].at, request[q].old)'
    BY DEF Searching
  <2>1. enrolled' = enrolled
    BY <1>1 DEF rows
  <2>2. CASE q # p
    BY <2>1, <2>2, <1>5, SearchKept
  <2>3. CASE q = p
    <3>2. Sought(request[p].old)' = Sought(SectionsOf(d))
      BY <1>2, <1>5, <2>1, SoughtKept
    <3> HIDE DEF Sought
    <3>3. Search(f, "loaded", SectionsOf(d))
      BY <1>4 DEF Search, OneEach, Sessions
    <3> QED  BY <1>2, <1>4, <1>5, <2>3, <3>2 DEF Search, OneEach, Sessions
  <2> QED  BY <2>2, <2>3
<1> QED  BY <1>6, <1>7, <1>8, <1>9 DEF FInv

LEMMA GenerateWipeFull ==
    ASSUME IInv, FInv, NEW p \in Slots, GenerateWipe(p)
    PROVE  FInv'
<1>1. /\ UNCHANGED <<rows, draft>>
      /\ request[p].op = "generate" /\ request[p].at = "loaded"
      /\ \A q \in Slots \ {p} : request'[q] = request[q]
      /\ request'[p].op = request[p].op /\ request'[p].at = "wiped"
      /\ request'[p].dept = request[p].dept /\ request'[p].old = request[p].old
  BY Wiped
<1>2. SectionsKnown' /\ RowsKnown' /\ LatestFull'
  BY <1>1, RowsSame DEF rows
<1>3. OldKnown'
  BY <1>1 DEF FInv, OldKnown, Made, rows
<1>4. FreshDrafts'
  BY <1>1 DEF FInv, FreshDrafts
<1>5. Searching'
  <2> SUFFICES ASSUME NEW q \in Slots, request'[q].op = "generate",
                      request'[q].old \subseteq DOMAIN enrolled'
               PROVE  Search(draft[q], request[q].at, request[q].old)'
    BY DEF Searching
  <2>1. enrolled' = enrolled
    BY <1>1 DEF rows
  <2>2. CASE q # p
    BY <2>1, <2>2, <1>1, SearchKept
  <2>3. CASE q = p
    <3>1. Search(draft[p], "loaded", request[p].old)
      BY <1>1, <2>1, <2>3 DEF FInv, Searching
    <3>2. Sought(request[p].old)' = Sought(request[p].old)
      BY <1>1, <2>1, SoughtKept
    <3> HIDE DEF Sought
    <3> QED  BY <3>1, <3>2, <1>1, <2>3 DEF Search
  <2> QED  BY <2>2, <2>3
<1> QED  BY <1>2, <1>3, <1>4, <1>5 DEF FInv

LEMMA GenerateReadFull ==
    ASSUME IInv, FInv, NEW p \in Slots, GenerateRead(p)
    PROVE  FInv'
<1> DEFINE f == [draft[p] EXCEPT !.who = [c \in Courses |-> Picked(c)]]
<1>1. /\ draft' = [draft EXCEPT ![p] = f] /\ UNCHANGED rows
      /\ request' = [request EXCEPT ![p].at = "placing"]
      /\ request[p].at = "wiped" /\ request[p].op = "generate"
  BY DEF GenerateRead, Serving
<1>2. request'[p].at = "placing"
  BY <1>1 DEF IInv, RequestsTyped, RequestFields
<1>3. draft[p].tries = 0 /\ DOMAIN draft[p] = DraftFields
  BY <1>1 DEF FInv, FreshDrafts, IInv, DraftsTyped, DraftOf
<1>4. /\ f.todo = draft[p].todo /\ f.left = draft[p].left /\ f.placed = draft[p].placed
      /\ f.kept = draft[p].kept /\ f.tries = 0
  BY <1>3 DEF DraftFields
<1> HIDE DEF f
<1>5. Search(draft[p], request[p].at, request[p].old) => Search(f, request'[p].at, request[p].old)
  BY <1>1, <1>2, <1>4 DEF Search
<1> QED  BY <1>1, <1>2, <1>5, SearchMoves

LEMMA PlaceFull ==
    ASSUME IInv, FInv, NEW p \in Slots, Place(p)
    PROVE  FInv'
<1>1. PICK s \in Tightest(draft[p].todo) :
         LET best == Best(draft[p].who, draft[p].placed, s)
         IN  \/ \E x \in best :
                  draft' = [draft EXCEPT ![p].todo = @ \ {s}, ![p].placed = @ \cup {x}]
             \/ /\ best = {}
                /\ draft' = [draft EXCEPT ![p].todo = @ \ {s}, ![p].left = @ \cup {s}]
  BY DEF Place
<1>2. DOMAIN draft[p] = DraftFields
  BY DEF IInv, DraftsTyped, DraftOf
<1>3. s \in draft[p].todo
  BY <1>1 DEF Tightest
<1>4. /\ request' = request /\ request[p].at = "placing" /\ request[p].op = "generate"
      /\ UNCHANGED rows
  BY DEF Place, Serving
<1>5. ASSUME NEW x \in Best(draft[p].who, draft[p].placed, s),
             draft' = [draft EXCEPT ![p].todo = @ \ {s}, ![p].placed = @ \cup {x}]
      PROVE  FInv'
  <2> DEFINE f == [draft[p] EXCEPT !.todo = @ \ {s}, !.placed = @ \cup {x}]
  <2>1. draft' = [draft EXCEPT ![p] = f]
    BY <1>5 DEF IInv, DraftsTyped
  <2>2. x.session = s
    <3>1. x \in Feasible(draft[p].who, draft[p].placed, s)
      BY BestFeasible
    <3> QED  BY <3>1 DEF Feasible
  <2>4. /\ f.todo = draft[p].todo \ {s} /\ f.left = draft[p].left
        /\ f.placed = draft[p].placed \cup {x} /\ f.kept = draft[p].kept
        /\ f.tries = draft[p].tries /\ f.lost = draft[p].lost
    BY <1>2 DEF DraftFields
  <2> HIDE DEF f
  <2>5. Sessions(f.placed) = Sessions(draft[p].placed) \cup {s}
    BY <2>2, <2>4 DEF Sessions
  <2>6. ASSUME OneEach(draft[p].placed), draft[p].todo \cap Sessions(draft[p].placed) = {}
        PROVE  OneEach(f.placed)
    BY <2>2, <2>4, <2>6, <1>3 DEF OneEach, Sessions
  <2>7. Search(draft[p], request[p].at, request[p].old) =>
           Search(f, request'[p].at, request[p].old)
    <3> DEFINE G == draft[p]
               P == Sessions(G.placed)
    <3>1. ASSUME G.todo \cap P = {}
          PROVE  f.todo \cap Sessions(f.placed) = {}
      BY <2>4, <2>5, <3>1
    <3>2. f.todo \cup Sessions(f.placed) \cup f.left = G.todo \cup P \cup G.left
      BY <1>3, <2>4, <2>5
    <3>3. request'[p].at = "placing" /\ request[p].at = "placing"
      BY <1>4
    <3> QED  BY <2>4, <2>6, <3>1, <3>2, <3>3, Zenon DEF Search
  <2> QED  BY <1>4, <2>1, <2>7, SearchMoves
<1>6. ASSUME draft' = [draft EXCEPT ![p].todo = @ \ {s}, ![p].left = @ \cup {s}]
      PROVE  FInv'
  <2> DEFINE f == [draft[p] EXCEPT !.todo = @ \ {s}, !.left = @ \cup {s}]
  <2>1. draft' = [draft EXCEPT ![p] = f]
    BY <1>6 DEF IInv, DraftsTyped
  <2>4. /\ f.todo = draft[p].todo \ {s} /\ f.left = draft[p].left \cup {s}
        /\ f.placed = draft[p].placed /\ f.kept = draft[p].kept
        /\ f.tries = draft[p].tries /\ f.lost = draft[p].lost
    BY <1>2 DEF DraftFields
  <2> HIDE DEF f
  <2>7. Search(draft[p], request[p].at, request[p].old) =>
           Search(f, request'[p].at, request[p].old)
    BY <1>3, <1>4, <2>4 DEF Search
  <2> QED  BY <1>4, <2>1, <2>7, SearchMoves
<1> QED  BY <1>1, <1>5, <1>6

LEMMA EndAttemptFull ==
    ASSUME IInv, FInv, NEW p \in Slots, EndAttempt(p)
    PROVE  FInv'
<1> DEFINE g == draft[p]
           kept == IF Keeps(g) THEN g.placed ELSE g.kept
           lost == IF Keeps(g) THEN g.left ELSE g.lost
           again == lost # {} /\ g.tries < MaxRetries
           f == [g EXCEPT !.kept = kept, !.lost = lost,
                          !.todo = IF again THEN {x.session : x \in g.placed} \cup g.left ELSE {},
                          !.placed = {}, !.left = {},
                          !.tries = IF again THEN @ + 1 ELSE @]
           at == IF again THEN "placing" ELSE "placed"
<1>1. /\ draft' = [draft EXCEPT ![p] = f] /\ UNCHANGED rows
      /\ request' = [request EXCEPT ![p].at = at]
      /\ g.todo = {} /\ request[p].at = "placing" /\ request[p].op = "generate"
  BY DEF EndAttempt, Serving
<1>2. request'[p].at = at
  BY <1>1 DEF IInv, RequestsTyped, RequestFields
<1>3. DOMAIN g = DraftFields
  BY DEF IInv, DraftsTyped, DraftOf
<1>4. /\ f.todo = IF again THEN Sessions(g.placed) \cup g.left ELSE {}
      /\ f.left = {} /\ f.placed = {} /\ f.kept = kept /\ f.lost = lost
  BY <1>3 DEF DraftFields, Sessions
<1>5. OneEach({}) /\ Sessions({}) = {}
  BY DEF OneEach, Sessions
<1>6. g.tries = 0 => Keeps(g)
  BY DEF Keeps
<1> HIDE DEF f, g
<1>7. Search(g, "placing", request[p].old) => Search(f, at, request[p].old)
  <2> HIDE DEF OneEach, Sessions, Sought
  <2> QED  BY <1>1, <1>4, <1>5, <1>6 DEF Search
<1>8. at \in {"placing", "placed"}
  OBVIOUS
<1> HIDE DEF at
<1> QED  BY <1>1, <1>2, <1>7, <1>8, SearchMoves DEF g

\* The hours of a course whose sessions all have a place.
HoursPlaced(f, run, s, c) == {x \in ClassesOf(f, run) : x.section = s /\ x.course = c}

LEMMA PlacedFull ==
    ASSUME NEW f, NEW d, NEW run, NEW s, NEW c \in Courses, DraftOf(f, d), OneEach(f.kept),
           SessionsOf(s, c) \subseteq Sessions(f.kept),
           \A z \in f.kept : z.session.section = s /\ z.session.course = c =>
              z.session \in SessionsOf(s, c)
    PROVE  ExistsBijection(1..CreditHours[c], HoursPlaced(f, run, s, c))
<1> DEFINE CH     == CreditHours[c]
           last   == (CH + 1) \div 2
           Y      == {x \in ClassesOf(f, run) : x.section = s /\ x.course = c}
           Asked(n) == [section |-> s, cohort |-> enrolled[s], course |-> c, nth |-> n,
                          size |-> IF 2 * n <= CH THEN 2 ELSE 1]
           At(n)  == CHOOSE z \in f.kept : z.session = Asked(n)
           Nth(k) == (k + 1) \div 2
           HourRow(z, b) == [section |-> z.session.section, course |-> z.session.course,
                             instructor |-> f.who[z.session.course], day |-> z.day, block |-> b,
                             room |-> z.room, run |-> run]
           Block(k) == At(Nth(k)).start + (k - (2 * Nth(k) - 1))
           h      == [k \in 1..CH |-> HourRow(At(Nth(k)), Block(k))]
<1>1. CH \in Nat
  BY SchedulingAssumption
<1>2. SessionsOf(s, c) = {Asked(n) : n \in 1..last}
  BY DEF SessionsOf
<1>3. \A n : /\ Asked(n).section = s /\ Asked(n).course = c /\ Asked(n).nth = n
             /\ Asked(n).size = IF 2 * n <= CH THEN 2 ELSE 1
  OBVIOUS
<1> HIDE DEF Asked
<1>4. \A n \in 1..last : At(n) \in f.kept /\ At(n).session = Asked(n)
  <2>1. TAKE n \in 1..last
  <2>2. \E z \in f.kept : z.session = Asked(n)
    BY <1>2 DEF Sessions
  <2> HIDE DEF last
  <2> QED  BY <2>2
<1>5. \A z \in f.kept : z.start \in Nat
  BY DEF DraftOf, PlacementOf
<1>6. \A k \in 1..CH : /\ Nth(k) \in 1..last
                       /\ k - (2 * Nth(k) - 1) \in 0..1
                       /\ k - (2 * Nth(k) - 1) = 1 => 2 * Nth(k) <= CH
  BY <1>1
<1>7. \A z \in f.kept : \A b \in Hours(z) : HourRow(z, b) \in ClassesOf(f, run)
  BY DEF ClassesOf
<1> HIDE DEF CH, last, At, Nth
<1>8. \A k \in 1..CH : /\ At(Nth(k)) \in f.kept
                       /\ At(Nth(k)).session = Asked(Nth(k))
                       /\ Block(k) \in Hours(At(Nth(k)))
  <2>1. TAKE k \in 1..CH
  <2> DEFINE n == Nth(k)
             z == At(n)
             o == k - (2 * n - 1)
  <2>2. n \in 1..last /\ o \in 0..1 /\ (o = 1 => 2 * n <= CH)
    BY <1>6
  <2>3. z \in f.kept /\ z.session = Asked(n)
    BY <1>4, <2>2
  <2>4. z.start \in Nat /\ z.session.size = IF 2 * n <= CH THEN 2 ELSE 1
    BY <1>3, <1>5, <2>3
  <2>5. Block(k) = z.start + o
    OBVIOUS
  <2> HIDE DEF n, z, o, Block
  <2>6. Block(k) \in z.start..(z.start + z.session.size - 1)
    BY <2>2, <2>4, <2>5
  <2> QED  BY <2>3, <2>6 DEF Hours, Span, z, n
<1>9. h \in [1..CH -> Y]
  <2> SUFFICES ASSUME NEW k \in 1..CH PROVE h[k] \in Y
    OBVIOUS
  <2>1. HourRow(At(Nth(k)), Block(k)) \in ClassesOf(f, run)
    BY <1>7, <1>8
  <2> QED  BY <1>3, <1>8, <2>1
<1>10. ASSUME NEW k \in 1..CH, NEW l \in 1..CH, h[k] = h[l]
       PROVE  k = l
  <2> DEFINE v == At(Nth(k))
             w == At(Nth(l))
  <2>1. /\ v \in f.kept /\ v.session = Asked(Nth(k))
        /\ w \in f.kept /\ w.session = Asked(Nth(l))
    BY <1>8
  <2>2. v.day = w.day /\ Block(k) = Block(l)
    BY <1>10
  <2>3. /\ v.session.section = w.session.section /\ v.session.course = w.session.course
        /\ Free(f.who, f.kept)
    BY <1>3, <2>1 DEF DraftOf
  <2> HIDE DEF v, w
  <2>4. v = w
    BY <2>1, <2>2, <2>3, OnePlacement
  <2>5. Nth(k) = Nth(l)
    BY <1>3, <2>1, <2>4
  <2>6. v.start \in Nat /\ Nth(k) \in Int
    BY <1>5, <1>6, <2>1
  <2> QED  BY <2>2, <2>4, <2>5, <2>6 DEF v, w
<1>11. ASSUME NEW y \in Y
       PROVE  \E k \in 1..CH : h[k] = y
  <2>1. PICK z \in f.kept : y.block \in Hours(z) /\ y = HourRow(z, y.block)
    BY ClassesRows
  <2>2. z.session.section = s /\ z.session.course = c
    BY <2>1
  <2>3. PICK n \in 1..last : z.session = Asked(n)
    BY <1>2, <2>2
  <2>4. At(n) = z
    BY <1>4, <2>3 DEF OneEach
  <2> DEFINE k == 2 * n - 1 + (y.block - z.start)
  <2>5. /\ z.start \in Nat
        /\ y.block \in z.start..(z.start + (IF 2 * n <= CH THEN 2 ELSE 1) - 1)
    BY <1>3, <1>5, <2>1, <2>3 DEF Hours, Span
  <2>6. n \in Nat \ {0} /\ 2 * n <= CH + 1
    BY <1>1 DEF last
  <2>7. y.block \in Nat /\ y.block - z.start \in 0..1
    BY <2>5
  <2>8. k \in 1..CH
    BY <1>1, <2>5, <2>6, <2>7
  <2>9. Nth(k) = n
    BY <2>6, <2>7 DEF Nth
  <2>10. Block(k) = y.block
    BY <2>4, <2>5, <2>6, <2>7, <2>9
  <2> QED  BY <2>1, <2>4, <2>8, <2>9, <2>10
<1> HIDE DEF h, Y
<1>12. h \in Bijection(1..CH, Y)
  BY <1>9, <1>10, <1>11, Fun_IsBij
<1> QED  BY <1>12 DEF ExistsBijection, CH, Y, HoursPlaced

\* An allocation leaves the rows of a section, or deletes them all.
LEMMA AllocateKeeps ==
    ASSUME NEW p \in Slots, AllocateCommit(p), NEW x \in classes' \cup conflicts'
    PROVE  x \in classes \cup conflicts /\ (FullOrNamed(x) => FullOrNamed(x)')
<1> DEFINE old == request[p].old
<1>1. /\ classes' = {y \in classes : y.section \notin old}
      /\ conflicts' = {y \in conflicts : y.section \notin old}
  BY DEF AllocateCommit
<1>2. x \in classes \cup conflicts /\ x.section \notin old
  BY <1>1
<1>3. ASSUME NEW c \in Curriculum(x.section)
      PROVE  /\ HoursOf(x.section, c, x.run)' = HoursOf(x.section, c, x.run)
             /\ Named(x.section, c, x.run) => Named(x.section, c, x.run)'
  BY <1>1, <1>2 DEF HoursOf, Named
<1> QED  BY <1>2, <1>3 DEF FullOrNamed, Full, Curriculum

LEMMA AllocateCommitFull ==
    ASSUME IInv, FInv, NEW p \in Slots, AllocateCommit(p)
    PROVE  FInv'
<1> DEFINE d     == request[p].dept
           old   == request[p].old
           mine  == {n \in registered : Cohort[n].dept = d}
           fresh == {Placed(n) : n \in mine}
           stay  == DOMAIN enrolled \ old
<1>1. /\ Finish(p) /\ NextRun(d) /\ request[p].op = "allocate"
      /\ enrolled' = [s \in stay \cup fresh |->
                        IF s \in stay THEN enrolled[s]
                        ELSE Cardinality({n \in mine : Placed(n) = s})]
      /\ classes' = {x \in classes : x.section \notin old}
      /\ conflicts' = {x \in conflicts : x.section \notin old}
  BY DEF AllocateCommit, Serving
<1>2. d \in Departments /\ runs \in [Departments -> Nat]
  BY <1>1 DEF IInv, RequestsTyped, RowsTyped
<1>3. /\ runs'[d] = runs[d] + 1 /\ runs' \in [Departments -> Nat]
      /\ \A e \in Departments : runs[e] <= runs'[e]
  BY <1>1, <1>2 DEF NextRun
<1>4. \A s \in fresh : s.dept = d /\ s.run = runs[d] + 1
  BY DEF Placed
<1> HIDE DEF fresh, mine
<1>5. /\ DOMAIN enrolled' = stay \cup fresh
      /\ \A s \in stay : enrolled'[s] = enrolled[s]
  BY <1>1
<1>6. /\ \A q \in Slots \ {p} : request'[q] = request[q] /\ draft'[q] = draft[q]
      /\ request'[p].op = "none" /\ draft'[p].tries = 0
  BY <1>1 DEF Finish, IInv, RequestsTyped, DraftsTyped, Rest, NoDraft
<1>7. SectionsKnown'
  <2> SUFFICES ASSUME NEW s \in stay \cup fresh
               PROVE  s.dept \in Departments /\ s.run \in Nat /\ s.run <= runs'[s.dept]
    BY <1>5 DEF SectionsKnown, Made
  <2>1. CASE s \in fresh
    BY <2>1, <1>2, <1>3, <1>4
  <2>2. CASE s \in stay
    <3>1. s.dept \in Departments /\ s.run \in Nat /\ s.run <= runs[s.dept]
      BY <2>2 DEF FInv, SectionsKnown, Made
    <3> QED  BY <3>1, <1>2, <1>3
  <2> QED  BY <2>1, <2>2
<1>8. OldKnown'
  <2> SUFFICES ASSUME NEW q \in Slots, request'[q].op = "generate", NEW s \in request'[q].old
               PROVE  Made(s, request[q].dept)'
    BY DEF OldKnown
  <2>1. /\ request'[q] = request[q] /\ Made(s, request[q].dept)
        /\ request[q].dept \in Departments
    BY <1>6 DEF FInv, OldKnown, IInv, RequestsTyped
  <2> QED  BY <2>1, <1>2, <1>3 DEF Made
<1>9. FreshDrafts'
  BY <1>6 DEF FInv, FreshDrafts
<1>10. Searching'
  <2> SUFFICES ASSUME NEW q \in Slots, request'[q].op = "generate",
                      request'[q].old \subseteq DOMAIN enrolled'
               PROVE  Search(draft[q], request[q].at, request[q].old)'
    BY DEF Searching
  <2>1. request'[q] = request[q] /\ draft'[q] = draft[q]
    BY <1>6
  <2>2. \A s \in request[q].old : s \notin fresh
    <3>1. TAKE s \in request[q].old
    <3>2. Made(s, request[q].dept)
      BY <2>1 DEF FInv, OldKnown
    <3> QED  BY <3>2, <1>2, <1>4 DEF Made
  <2>3. \A s \in request[q].old : s \in stay
    BY <2>1, <2>2, <1>5
  <2>4. request[q].old \subseteq DOMAIN enrolled /\ \A s \in request[q].old : enrolled'[s] = enrolled[s]
    BY <2>3, <1>5
  <2> QED  BY <2>1, <2>4, SearchKept
<1>11. RowsKnown'
  <2>1. \A x \in classes' \cup conflicts' : x.section \in DOMAIN enrolled'
    BY <1>1, <1>5 DEF FInv, RowsKnown
  <2>2. ASSUME NEW x \in conflicts'
        PROVE  x.course \in Curriculum(x.section) /\ x.run \in Nat /\ x.run <= runs'[x.section.dept]
    <3>1. /\ x.course \in Curriculum(x.section) /\ x.run \in Nat /\ x.run <= runs[x.section.dept]
          /\ x.section.dept \in Departments
      BY <1>1 DEF FInv, RowsKnown, SectionsKnown
    <3> QED  BY <3>1, <1>2, <1>3
  <2> QED  BY <2>1, <2>2 DEF RowsKnown
<1>12. LatestFull'
  <2> SUFFICES ASSUME NEW x \in classes' \cup conflicts', x.run = runs'[x.section.dept]
               PROVE  FullOrNamed(x)'
    BY DEF LatestFull
  <2>1. x \in classes \cup conflicts /\ (FullOrNamed(x) => FullOrNamed(x)')
    BY AllocateKeeps
  <2>2. x.section.dept \in Departments /\ x.run \in Nat /\ x.run <= runs[x.section.dept]
    BY <2>1 DEF FInv, RowsKnown, SectionsKnown, IInv, RowsTyped, ClassRow
  <2>3. runs'[x.section.dept] = runs[x.section.dept]
    BY <2>2, <1>1, <1>2, <1>3 DEF NextRun
  <2> QED  BY <2>1, <2>3 DEF FInv, LatestFull
<1> QED  BY <1>7, <1>8, <1>9, <1>10, <1>11, <1>12 DEF FInv

\* What a generation reports belongs to its sections.
LEMMA ConflictsRows ==
    ASSUME NEW f, NEW old, NEW run, f.lost \subseteq Sought(old), NEW x \in ConflictsOf(f, old, run)
    PROVE  x.section \in old /\ x.course \in Curriculum(x.section) /\ x.run = run
<1> DEFINE taught == {y \in old \X Courses : y[2] \in Curriculum(y[1])}
<1>1. \A S, kind : \A y \in Report(S, kind, run) :
         y.run = run /\ <<y.section, y.course>> \in {<<z[1], z[2]>> : z \in S}
  BY DEF Report
<1>2. \A z \in f.lost : z.section \in old /\ z.course \in Curriculum(z.section)
  BY DEF Sought, SessionsOf
<1> DEFINE lost == {<<y.section, y.course>> : y \in f.lost}
           large  == {y \in taught : Oversized(y[1], enrolled[y[1]])}
           none == {y \in taught \ large : f.who[y[2]] = NoOne}
<1>3. \/ x \in Report(large, "NO_AVAILABLE_ROOM", run)
      \/ x \in Report(none, "NO_AVAILABLE_INSTRUCTOR", run)
      \/ x \in Report(lost, "ROOM_DOUBLE_BOOKED", run)
  BY Zenon DEF ConflictsOf
<1>4. \A z \in large \cup none \cup lost : z[1] \in old /\ z[2] \in Curriculum(z[1])
  BY <1>2
<1> HIDE DEF large, none, lost
<1>5. PICK S \in {large, none, lost} : x.run = run /\ <<x.section, x.course>> \in {<<z[1], z[2]>> : z \in S}
  BY <1>1, <1>3
<1> QED  BY <1>4, <1>5

LEMMA ConflictsNamed ==
    ASSUME NEW f, NEW old, NEW run, NEW s \in old, NEW c \in Courses, c \in Curriculum(s),
           \/ Oversized(s, enrolled[s])
           \/ \E z \in f.lost : z.section = s /\ z.course = c
    PROVE  \E x \in ConflictsOf(f, old, run) : x.section = s /\ x.course = c /\ x.run = run
<1> DEFINE taught == {y \in old \X Courses : y[2] \in Curriculum(y[1])}
           large  == {y \in taught : Oversized(y[1], enrolled[y[1]])}
           lost == {<<y.section, y.course>> : y \in f.lost}
<1>1. <<s, c>> \in large \cup lost
  BY Zenon
<1>2. \A S, kind : <<s, c>> \in S =>
         \E x \in Report(S, kind, run) : x.section = s /\ x.course = c /\ x.run = run
  <2> TAKE S, kind
  <2> HAVE <<s, c>> \in S
  <2> DEFINE x == [section |-> s, course |-> c, kind |-> kind, run |-> run]
  <2>1. x \in Report(S, kind, run)
    BY DEF Report
  <2> QED  BY <2>1
<1>3. /\ Report(large, "NO_AVAILABLE_ROOM", run) \subseteq ConflictsOf(f, old, run)
      /\ Report(lost, "ROOM_DOUBLE_BOOKED", run) \subseteq ConflictsOf(f, old, run)
  BY Zenon DEF ConflictsOf
<1> HIDE DEF large, lost
<1> QED  BY <1>1, <1>2, <1>3, Zenon

LEMMA GeneratedRows ==
    ASSUME IInv, FInv, NEW p \in Slots, GenerateCommit(p)
    PROVE  LET run == runs[request[p].dept] + 1
           IN  /\ \A x \in ClassesOf(draft[p], run) :
                     x.section \in request[p].old /\ x.run = run
               /\ \A x \in ConflictsOf(draft[p], request[p].old, run) :
                     /\ x.section \in request[p].old /\ x.course \in Curriculum(x.section)
                     /\ x.run = run
               /\ \A s \in request[p].old : s.dept = request[p].dept
<1> DEFINE old == request[p].old
           f   == draft[p]
           run == runs[request[p].dept] + 1
<1>1. /\ old \subseteq DOMAIN enrolled
      /\ request[p].op = "generate" /\ request[p].at = "placed"
  BY DEF GenerateCommit, Serving
<1>2. Sessions(f.kept) \cup f.lost = Sought(old)
  BY <1>1 DEF FInv, Searching, Search
<1>3. \A s \in old : s.dept = request[p].dept
  BY <1>1 DEF FInv, OldKnown, Made
<1>4. \A z \in Sessions(f.kept) : z.section \in old
  BY <1>2 DEF Sought, SessionsOf
<1>5. \A x \in ClassesOf(f, run) : x.section \in old /\ x.run = run
  <2>1. ASSUME NEW x \in ClassesOf(f, run)
        PROVE  x.run = run /\ \E z \in f.kept : x.section = z.session.section
    BY ClassesRows
  <2> QED  BY <2>1, <1>4 DEF Sessions
<1>6. \A x \in ConflictsOf(f, old, run) :
         x.section \in old /\ x.course \in Curriculum(x.section) /\ x.run = run
  <2>1. f.lost \subseteq Sought(old)
    BY <1>2
  <2> QED  BY <2>1, ConflictsRows
<1> QED  BY <1>3, <1>5, <1>6

\* A generation leaves the rows of other departments.
LEMMA GenerateElsewhere ==
    ASSUME IInv, FInv, NEW p \in Slots, GenerateCommit(p), NEW x, x.section.dept # request[p].dept
    PROVE  FullOrNamed(x) => FullOrNamed(x)'
<1> DEFINE d     == request[p].dept
           R     == request[p].runs
           T     == request[p].stale
           fresh == ClassesOf(draft[p], runs[d] + 1)
           clash == ConflictsOf(draft[p], request[p].old, runs[d] + 1)
<1>1. /\ classes' = (classes \ Loaded(classes, d, R)) \cup fresh
      /\ conflicts' = (conflicts \ Loaded(conflicts, d, T)) \cup clash
  BY DEF GenerateCommit
<1>2. \A y \in fresh \cup clash : y.section.dept = d
  BY GeneratedRows
<1> HIDE DEF R, T, fresh, clash
<1>3. ASSUME NEW c \in Curriculum(x.section)
      PROVE  /\ HoursOf(x.section, c, x.run)' = HoursOf(x.section, c, x.run)
             /\ Named(x.section, c, x.run) => Named(x.section, c, x.run)'
  BY <1>1, <1>2 DEF HoursOf, Named, Loaded
<1> QED  BY <1>3 DEF FullOrNamed, Full, Curriculum

LEMMA GenerateCommitFull ==
    ASSUME IInv, FInv, NEW p \in Slots, GenerateCommit(p)
    PROVE  FInv'
<1> DEFINE d     == request[p].dept
           old   == request[p].old
           R     == request[p].runs
           T     == request[p].stale
           run   == runs[d] + 1
           f     == draft[p]
           fresh == ClassesOf(f, run)
           clash == ConflictsOf(f, old, run)
<1>1. /\ classes' = (classes \ Loaded(classes, d, R)) \cup fresh
      /\ conflicts' = (conflicts \ Loaded(conflicts, d, T)) \cup clash
      /\ NextRun(d) /\ Finish(p) /\ enrolled' = enrolled
      /\ old \subseteq DOMAIN enrolled
      /\ request[p].op = "generate" /\ request[p].at = "placed"
  BY DEF GenerateCommit, Serving
<1>2. d \in Departments /\ runs \in [Departments -> Nat] /\ DraftOf(f, d)
  BY <1>1 DEF IInv, RequestsTyped, RowsTyped, DraftsTyped
<1>3. \A s \in old : Made(s, d)
  BY <1>1 DEF FInv, OldKnown
<1>4. Sessions(f.kept) \cup f.lost = Sought(old) /\ OneEach(f.kept)
  BY <1>1 DEF FInv, Searching, Search
<1>5. \A s : \A e \in Departments : Made(s, e) => Made(s, e)'
  BY <1>1, <1>2, LaterRuns
<1>6. OldKnown' /\ FreshDrafts' /\ Searching'
  BY <1>1, <1>5, FinishFull
<1>7. runs'[d] = run /\ run \in Nat /\ runs[d] < run
  BY <1>1, <1>2 DEF NextRun
<1>8. ASSUME NEW z \in Sessions(f.kept) \cup f.lost
      PROVE  z \in SessionsOf(z.section, z.course)
  BY <1>4, <1>8 DEF Sought, SessionsOf
<1>9. \A x \in fresh : x.section \in old /\ x.run = run
  BY GeneratedRows
<1>10. \A x \in clash : x.section \in old /\ x.course \in Curriculum(x.section) /\ x.run = run
  BY GeneratedRows
<1>11. SectionsKnown'
  BY <1>1, <1>5 DEF FInv, SectionsKnown
<1>12. ASSUME NEW x \in classes \cup conflicts
       PROVE  /\ x.section \in DOMAIN enrolled /\ x.run \in Nat /\ x.run <= runs[x.section.dept]
              /\ x.section.dept \in Departments
  BY <1>12 DEF FInv, RowsKnown, SectionsKnown, IInv, RowsTyped, ClassRow
<1>13. RowsKnown'
  <2> HIDE DEF d, old, R, T, run, f, fresh, clash
  <2>1. \A x \in classes' \cup conflicts' :
           x \in classes \cup conflicts \/ x.section \in old
    BY <1>1, <1>9, <1>10
  <2>2. \A x \in classes' \cup conflicts' : x.section \in DOMAIN enrolled'
    BY <1>1, <1>12, <2>1
  <2>3. ASSUME NEW x \in conflicts'
        PROVE  x.course \in Curriculum(x.section) /\ x.run \in Nat /\ x.run <= runs'[x.section.dept]
    <3>1. CASE x \in clash
      BY <3>1, <1>3, <1>7, <1>10 DEF Made
    <3>2. CASE x \in conflicts
      <4>1. runs'[x.section.dept] >= runs[x.section.dept] /\ runs' \in [Departments -> Nat]
        BY <3>2, <1>1, <1>2, <1>12 DEF NextRun
      <4> QED  BY <3>2, <4>1, <1>2, <1>12 DEF FInv, RowsKnown
    <3> QED  BY <3>1, <3>2, <1>1
  <2> QED  BY <2>2, <2>3 DEF RowsKnown
<1>14. ASSUME NEW x \in classes' \cup conflicts', NEW c \in Curriculum(x.section),
              x \in fresh \cup clash
       PROVE  Full(x.section, c, x.run)' \/ Named(x.section, c, x.run)'
  <2> DEFINE s == x.section
  <2>1. s \in old /\ x.run = run /\ s.dept = d /\ c \in Courses
    BY <1>3, <1>9, <1>10, <1>14 DEF Made, Curriculum
  <2>2. CASE Oversized(s, enrolled[s]) \/ \E z \in f.lost : z.section = s /\ z.course = c
    <3>1. \E y \in clash : y.section = s /\ y.course = c /\ y.run = run
      BY <2>1, <2>2, ConflictsNamed
    <3> QED  BY <3>1, <2>1, <1>1 DEF Named
  <2>3. CASE ~Oversized(s, enrolled[s]) /\ ~\E z \in f.lost : z.section = s /\ z.course = c
    <3>1. SessionsOf(s, c) \subseteq Sought(old)
      BY <2>1, <2>3 DEF Sought
    <3>2. \A z \in SessionsOf(s, c) : z.section = s /\ z.course = c
      BY DEF SessionsOf
    <3>3. SessionsOf(s, c) \subseteq Sessions(f.kept)
      BY <3>1, <3>2, <2>3, <1>4
    <3>4. \A z \in f.kept : z.session.section = s /\ z.session.course = c =>
             z.session \in SessionsOf(s, c)
      BY <1>8 DEF Sessions
    <3> HIDE DEF f, run
    <3>5. ExistsBijection(1..CreditHours[c], HoursPlaced(f, run, s, c))
      BY <3>3, <3>4, <2>1, <1>2, <1>4, PlacedFull
    <3>6. \A y \in classes \ Loaded(classes, d, R) : ~(y.section = s /\ y.run = run)
      BY <2>1, <1>7, <1>12, <1>2
    <3>7. HoursOf(s, c, x.run)' = HoursPlaced(f, run, s, c)
      BY <3>6, <1>1, <1>9, <2>1 DEF HoursOf, HoursPlaced
    <3> QED  BY <3>5, <3>7, <2>1 DEF Full
  <2> QED  BY <2>2, <2>3
<1>15. ASSUME NEW x \in classes' \cup conflicts', x.run = runs'[x.section.dept],
              x \notin fresh \cup clash
       PROVE  FullOrNamed(x)'
  <2> HIDE DEF old, R, T, f, fresh, clash
  <2>1. x \in classes \cup conflicts
    BY <1>1, <1>15
  <2>2. x.section.dept # d
    BY <2>1, <1>2, <1>7, <1>12, <1>15
  <2>3. runs'[x.section.dept] = runs[x.section.dept]
    BY <2>1, <2>2, <1>1, <1>2, <1>12 DEF NextRun
  <2>4. FullOrNamed(x)
    BY <2>1, <2>3, <1>15 DEF FInv, LatestFull
  <2> QED  BY <2>2, <2>4, GenerateElsewhere
<1>16. LatestFull'
  <2> HIDE DEF fresh, clash
  <2> QED  BY <1>14, <1>15 DEF LatestFull, FullOrNamed, Curriculum
<1> QED  BY <1>6, <1>11, <1>13, <1>16 DEF FInv

\* A class that is reassigned stays an hour of its course.
LEMMA ReassignKeeps ==
    ASSUME IInv, NEW p \in Slots, ReassignCommit(p)
    PROVE  \A x \in classes' \cup conflicts' :
              \E y \in classes \cup conflicts :
                 /\ y.section = x.section /\ y.run = x.run
                 /\ FullOrNamed(y) => FullOrNamed(x)'
<1> DEFINE i == request[p].instructor
<1>1. PICK m \in classes : classes' = (classes \ {m}) \cup {[m EXCEPT !.instructor = i]}
  BY DEF ReassignCommit
<1>2. Finish(p) /\ UNCHANGED <<runs, enrolled, conflicts>>
  BY DEF ReassignCommit
<1> DEFINE n == [m EXCEPT !.instructor = i]
<1>3. ClassRow(m)
  BY DEF IInv, RowsTyped
<1>4. /\ n.section = m.section /\ n.course = m.course /\ n.day = m.day /\ n.block = m.block
      /\ n.run = m.run
  BY <1>3 DEF ClassRow
<1>5. classes' = (classes \ {m}) \cup {n}
  BY <1>1
<1> HIDE DEF n
<1>6. n \in classes => n = m
  BY <1>4 DEF IInv, CohortsFree
<1>7. ASSUME NEW s, NEW c, NEW r, Full(s, c, r)
      PROVE  Full(s, c, r)'
  <2> DEFINE S == HoursOf(s, c, r)
             U == {x \in classes' : x.section = s /\ x.run = r /\ x.course = c}
             F == [x \in S |-> IF x = m THEN n ELSE x]
  <2>1. F \in [S -> U] /\ \A a, b \in S : F[a] = F[b] => a = b
    BY <1>4, <1>5, <1>6 DEF HoursOf
  <2>2. \A y \in U : \E x \in S : F[x] = y
    BY <1>4, <1>5 DEF HoursOf
  <2> HIDE DEF F, S, U
  <2>3. F \in Bijection(S, U)
    BY <2>1, <2>2, Fun_IsBij
  <2>4. PICK G : G \in Bijection(1..CreditHours[c], S)
    BY <1>7 DEF Full, ExistsBijection, S
  <2>5. [k \in 1..CreditHours[c] |-> F[G[k]]] \in Bijection(1..CreditHours[c], U)
    BY <2>3, <2>4, Fun_BijTransitive
  <2>6. HoursOf(s, c, r)' = U
    BY DEF HoursOf, U
  <2> QED  BY <2>5, <2>6 DEF Full, ExistsBijection
<1>8. ASSUME NEW x \in classes' \cup conflicts'
      PROVE  \E y \in classes \cup conflicts :
                /\ y.section = x.section /\ y.run = x.run
                /\ FullOrNamed(y) => FullOrNamed(x)'
  <2>1. PICK y \in classes \cup conflicts : y.section = x.section /\ y.run = x.run
    BY <1>2, <1>4, <1>5
  <2>2. ASSUME NEW c \in Curriculum(x.section)
        PROVE  Named(x.section, c, x.run) => Named(x.section, c, x.run)'
    BY <1>2 DEF Named
  <2>3. FullOrNamed(y) => FullOrNamed(x)'
    BY <2>1, <2>2, <1>7 DEF FullOrNamed, Curriculum
  <2> QED  BY <2>1, <2>3
<1> QED  BY <1>8

LEMMA ReassignCommitFull ==
    ASSUME IInv, FInv, NEW p \in Slots, ReassignCommit(p)
    PROVE  FInv'
<1> DEFINE i == request[p].instructor
<1>1. PICK m \in classes : classes' = (classes \ {m}) \cup {[m EXCEPT !.instructor = i]}
  BY DEF ReassignCommit
<1>2. Finish(p) /\ UNCHANGED <<runs, enrolled, conflicts>>
  BY DEF ReassignCommit
<1> DEFINE n == [m EXCEPT !.instructor = i]
<1>3. ClassRow(m)
  BY DEF IInv, RowsTyped
<1>4. n.section = m.section /\ n.run = m.run
  BY <1>3 DEF ClassRow
<1>5. classes' = (classes \ {m}) \cup {n}
  BY <1>1
<1> HIDE DEF n
<1>8. LatestFull'
  <2> SUFFICES ASSUME NEW x \in classes' \cup conflicts', x.run = runs'[x.section.dept]
               PROVE  FullOrNamed(x)'
    BY DEF LatestFull
  <2>1. PICK y \in classes \cup conflicts :
           /\ y.section = x.section /\ y.run = x.run
           /\ FullOrNamed(y) => FullOrNamed(x)'
    BY ReassignKeeps
  <2>2. FullOrNamed(y)
    BY <2>1, <1>2 DEF FInv, LatestFull
  <2> QED  BY <2>1, <2>2
<1>9. SectionsKnown' /\ RowsKnown'
  BY <1>2, <1>4, <1>5 DEF FInv, SectionsKnown, Made, RowsKnown
<1>10. OldKnown' /\ FreshDrafts' /\ Searching'
  <2>1. \A s : \A e \in Departments : Made(s, e) => Made(s, e)'
    BY <1>2 DEF Made
  <2> QED  BY <2>1, <1>2, FinishFull
<1> QED  BY <1>8, <1>9, <1>10 DEF FInv

LEMMA QuietFull ==
    ASSUME FInv, UNCHANGED <<enrolled, classes, conflicts, runs, request, draft>>
    PROVE  FInv'
<1>1. OldKnown' /\ FreshDrafts'
  BY DEF FInv, OldKnown, Made, FreshDrafts
<1>2. Searching'
  BY SearchKept DEF Searching
<1> QED  BY <1>1, <1>2, RowsSame DEF FInv

LEMMA NextFull == IInv /\ FInv /\ [Next]_vars => FInv'
<1> SUFFICES ASSUME IInv, FInv, [Next]_vars
             PROVE  FInv'
  OBVIOUS
<1>1. ASSUME NEW n \in Students, StudentRegisters(n)
      PROVE  FInv'
  BY <1>1, QuietFull DEF StudentRegisters
<1>2. ASSUME NEW s \in DOMAIN enrolled, ReferenceSection(s)
      PROVE  FInv'
  BY <1>2, QuietFull DEF ReferenceSection
<1>3. ASSUME NEW k \in DOMAIN assignments, Unassign(k)
      PROVE  FInv'
  BY <1>3, QuietFull DEF Unassign
<1>4. ASSUME NEW p \in Slots, NEW d \in Departments, AllocateLoad(p, d)
      PROVE  FInv'
  <2> DEFINE r == [Rest EXCEPT !.op = "allocate", !.at = "loaded", !.dept = d,
                               !.old = SectionsOf(d)]
  <2>1. Begin(p, r) /\ r.op # "generate"
    BY <1>4 DEF AllocateLoad, Rest
  <2> QED  BY <2>1, BeginFull
<1>5. ASSUME NEW p \in Slots, NEW m \in classes, NEW i \in Instructors, ReassignLoad(p, m, i)
      PROVE  FInv'
  <2> DEFINE r == [Rest EXCEPT !.op = "reassign", !.at = "loaded", !.target = m,
                               !.instructor = i]
  <2>1. Begin(p, r) /\ r.op # "generate"
    BY <1>5 DEF ReassignLoad, Rest
  <2> QED  BY <2>1, BeginFull
<1>6. ASSUME NEW p \in Slots, NEW c \in Courses, NEW i \in Instructors, AssignLoad(p, c, i)
      PROVE  FInv'
  <2> DEFINE r == [Rest EXCEPT !.op = "assign", !.at = "loaded", !.course = c,
                               !.instructor = i, !.row = Latest(c)]
  <2>1. Begin(p, r) /\ r.op # "generate"
    BY <1>6 DEF AssignLoad, Rest
  <2> QED  BY <2>1, BeginFull
<1>7. ASSUME NEW p \in Slots, RequestFails(p) \/ AssignCommit(p)
      PROVE  FInv'
  <2>1. Finish(p) /\ UNCHANGED <<enrolled, classes, conflicts, runs>>
    BY <1>7 DEF RequestFails, AssignCommit, rows
  <2>2. \A s : \A e \in Departments : Made(s, e) => Made(s, e)'
    BY <2>1 DEF Made
  <2> QED  BY <2>1, <2>2, FinishFull, RowsSame DEF FInv
<1>8. CASE UNCHANGED vars
  BY <1>8, QuietFull DEF vars, rows
<1> QED
  BY <1>1, <1>2, <1>3, <1>4, <1>5, <1>6, <1>7, <1>8, AllocateCommitFull, GenerateLoadFull,
     GenerateWipeFull, GenerateReadFull, PlaceFull, EndAttemptFull, GenerateCommitFull, ReassignCommitFull
     DEF Next, Others

\* However requests overlap, a generation forgets nothing that it looks for, and what a
\* department has made last is complete or named in an open conflict.
THEOREM Exhaustive == Spec => []FInv
<1>1. IInv /\ FInv /\ [Next]_vars => FInv'
  BY NextFull
<1> QED  BY <1>1, InitFull, Invariant, PTL DEF Spec

-----------------------------------------------------------------------------
(* Requests that take turns.                                               *)

\* Nobody but p is at work.
Alone(p) == \A q \in Slots \ {p} : request[q].op = "none"
IdleRests == \A p \in Slots : request[p].at = "idle" => request[p].op = "none"

\* What a request has loaded still holds when it commits.
AssigningFresh ==
    \A p \in Slots : request[p].op = "assign" /\ request[p].at = "loaded" =>
        /\ [course |-> request[p].course, instructor |-> request[p].instructor] \in Assignment
        /\ \A k \in DOMAIN assignments :
              assignments[k].course = request[p].course /\ assignments[k].instructor # NoOne
              => k = request[p].row
GeneratingFresh ==
    \A p \in Slots : request[p].op = "generate" =>
        /\ \A x \in classes : x.section.dept = request[p].dept => x.run \in request[p].runs
        /\ request[p].at # "loaded" =>
              \A x \in conflicts : x.section.dept = request[p].dept => x.run \in request[p].stale
ReassigningFresh ==
    \A p \in Slots : request[p].op = "reassign" =>
        request[p].target \in classes /\ ~Booked(request[p].instructor, request[p].target)

OnceEach ==
    \A k, l \in DOMAIN assignments :
        /\ assignments[k].course = assignments[l].course
        /\ assignments[k].instructor # NoOne /\ assignments[l].instructor # NoOne
        => k = l
AssignmentsTyped ==
    assignments \in Seq(Assignment)

Turns ==
    /\ AssignmentsTyped
    /\ OnceEach
    /\ AssigningFresh
    /\ GeneratingFresh
    /\ ReassigningFresh
    /\ InstructorsFree
    /\ OneGeneration
    /\ EveryFull

LEMMA InitTurns == Init => Turns
<1> SUFFICES ASSUME Init PROVE Turns
  OBVIOUS
<1>1. AssignmentsTyped /\ OnceEach
  <2>1. assignments = << >>
    BY DEF Init
  <2> QED  BY <2>1 DEF AssignmentsTyped, OnceEach
<1>2. /\ AssigningFresh /\ GeneratingFresh /\ ReassigningFresh /\ InstructorsFree
      /\ OneGeneration /\ EveryFull
  BY DEF Init, AssigningFresh, GeneratingFresh, ReassigningFresh, InstructorsFree,
         OneGeneration, EveryFull, Rest
<1> QED  BY <1>1, <1>2 DEF Turns

\* A slot that is done remembers nothing.
LEMMA RestFresh ==
    ASSUME IInv, NEW p \in Slots, Alone(p), Finish(p)
    PROVE  AssigningFresh' /\ GeneratingFresh' /\ ReassigningFresh'
<1>1. \A q \in Slots : request'[q].op = "none"
  BY DEF Alone, Finish, IInv, RequestsTyped, Rest
<1> QED  BY <1>1 DEF AssigningFresh, GeneratingFresh, ReassigningFresh

LEMMA AssignmentsKept ==
    ASSUME Turns, assignments' = assignments
    PROVE  AssignmentsTyped' /\ OnceEach'
  BY DEF Turns, AssignmentsTyped, OnceEach

LEMMA FewerRows ==
    ASSUME Turns, classes' \subseteq classes, conflicts' \subseteq conflicts
    PROVE  InstructorsFree' /\ OneGeneration'
  BY DEF Turns, InstructorsFree, OneGeneration

LEMMA SameRows ==
    ASSUME Turns, classes' = classes, conflicts' = conflicts
    PROVE  InstructorsFree' /\ OneGeneration' /\ EveryFull'
<1>1. EveryFull'
  BY DEF Turns, EveryFull, FullOrNamed, Full, HoursOf, Named
<1> QED  BY <1>1, FewerRows

\* The latest assignment of a course is the only one.
LEMMA LatestIsIt ==
    ASSUME Turns, NEW c, NEW k \in DOMAIN assignments,
           assignments[k].course = c, assignments[k].instructor # NoOne
    PROVE  k = Latest(c)
<1>1. Live(c) = {k}
  BY DEF Live, Turns, OnceEach
<1>2. k \in Nat
  <2>1. assignments \in Seq(Assignment)
    BY DEF Turns, AssignmentsTyped
  <2> QED  BY <2>1
<1>3. k = CHOOSE l \in {k} : \A n \in {k} : n <= l
  BY <1>2
<1> QED  BY <1>1, <1>3, Zenon DEF Latest

\* A request that begins has loaded what holds now.
LEMMA BeginTurns ==
    ASSUME IInv, Turns, NEW p \in Slots, Alone(p), NEW r, UNCHANGED rows,
           request' = [request EXCEPT ![p] = r],
           r.op = "assign" => /\ r.row = Latest(r.course)
                              /\ [course |-> r.course, instructor |-> r.instructor] \in Assignment,
           r.op = "generate" => /\ r.at = "loaded"
                                /\ \A x \in classes : x.section.dept = r.dept => x.run \in r.runs,
           r.op = "reassign" => r.target \in classes /\ ~Booked(r.instructor, r.target)
    PROVE  Turns'
<1>1. \A q \in Slots : request'[q] = r \/ request'[q].op = "none"
  BY DEF Alone, IInv, RequestsTyped
<1>2. AssignmentsTyped' /\ OnceEach' /\ InstructorsFree' /\ OneGeneration' /\ EveryFull'
  BY AssignmentsKept, SameRows DEF rows
<1>3. AssigningFresh'
  <2>1. assignments' = assignments
    BY DEF rows
  <2>2. ASSUME r.op = "assign", NEW k \in DOMAIN assignments,
               assignments[k].course = r.course, assignments[k].instructor # NoOne
        PROVE  k = r.row
    BY <2>2, LatestIsIt
  <2> QED  BY <1>1, <2>1, <2>2 DEF AssigningFresh
<1>4. GeneratingFresh' /\ ReassigningFresh'
  BY <1>1 DEF GeneratingFresh, ReassigningFresh, rows, Booked
<1> QED  BY <1>2, <1>3, <1>4 DEF Turns

LEMMA WipeTurns ==
    ASSUME IInv, Turns, NEW p \in Slots, Alone(p), GenerateWipe(p)
    PROVE  Turns'
<1>1. UNCHANGED rows /\ request[p].op = "generate"
  BY Wiped
<1>2. /\ \A q \in Slots \ {p} : request'[q] = request[q]
      /\ request'[p].op = "generate" /\ request'[p].dept = request[p].dept
      /\ request'[p].runs = request[p].runs
  BY <1>1, Wiped
<1>3. \A x \in conflicts : x.section.dept = request[p].dept => x.run \in request'[p].stale
  <2>1. PICK S : /\ S = {x.run : x \in {y \in conflicts : y.section.dept = request[p].dept}}
                 /\ request'[p] = [request[p] EXCEPT !.at = "wiped", !.stale = S]
    BY Wiped
  <2>2. request'[p].stale = S
    BY <2>1 DEF IInv, RequestsTyped, RequestFields
  <2> QED  BY <2>1, <2>2
<1>4. \A q \in Slots \ {p} : request'[q].op = "none"
  BY <1>2 DEF Alone
<1>5. GeneratingFresh'
  BY <1>1, <1>2, <1>3, <1>4 DEF Turns, GeneratingFresh, rows
<1>6. AssigningFresh' /\ ReassigningFresh'
  BY <1>2, <1>4 DEF AssigningFresh, ReassigningFresh
<1> QED  BY <1>1, <1>5, <1>6, AssignmentsKept, SameRows DEF Turns, rows

\* A step of a generation after that and before its commit.
LEMMA MoveTurns ==
    ASSUME IInv, Turns, NEW p \in Slots, NEW at, UNCHANGED rows, request[p].op = "generate",
           request[p].at # "loaded",
           request' = [request EXCEPT ![p].at = at] \/ request' = request
    PROVE  Turns'
<1>1. \A q \in Slots : /\ request'[q].op = request[q].op /\ request'[q].dept = request[q].dept
                       /\ request'[q].runs = request[q].runs
                       /\ request'[q].stale = request[q].stale
                       /\ request'[q].at # request[q].at => request[q].at # "loaded"
                       /\ request'[q].target = request[q].target
                       /\ request'[q].instructor = request[q].instructor
                       /\ request[q].op # "generate" => request'[q] = request[q]
  BY DEF IInv, RequestsTyped, RequestFields
<1>2. AssigningFresh'
  BY <1>1 DEF Turns, AssigningFresh, rows
<1>3. GeneratingFresh' /\ ReassigningFresh'
  BY <1>1 DEF Turns, GeneratingFresh, ReassigningFresh, Booked, rows
<1> QED  BY <1>2, <1>3, AssignmentsKept, SameRows DEF Turns, rows

LEMMA GenerateCommitTurns ==
    ASSUME IInv, FInv, Turns, NEW p \in Slots, Alone(p), GenerateCommit(p)
    PROVE  Turns'
<1> DEFINE d     == request[p].dept
           f     == draft[p]
           fresh == ClassesOf(f, runs[d] + 1)
           clash == ConflictsOf(f, request[p].old, runs[d] + 1)
           stay  == classes \ Loaded(classes, d, request[p].runs)
           still == conflicts \ Loaded(conflicts, d, request[p].stale)
<1>1. /\ classes' = stay \cup fresh /\ conflicts' = still \cup clash
      /\ assignments' = assignments /\ Finish(p)
      /\ request[p].op = "generate" /\ request[p].at = "placed"
      /\ runs' = [runs EXCEPT ![d] = @ + 1]
  BY DEF GenerateCommit, Serving, NextRun
<1>2. /\ stay \subseteq classes /\ still \subseteq conflicts
      /\ \A y \in stay \cup still : y.section.dept # d
  BY <1>1 DEF Turns, GeneratingFresh, Loaded
<1>g. \A x \in fresh \cup clash : x.section.dept = d /\ x.run = runs[d] + 1
  BY GeneratedRows
<1>3. DraftOf(f, d)
  BY DEF IInv, DraftsTyped
<1> HIDE DEF stay, still, clash, d, f
<1>4. \A x \in fresh : \E z \in f.kept :
         /\ x.block \in Hours(z)
         /\ x = [section |-> z.session.section, course |-> z.session.course,
                 instructor |-> f.who[z.session.course], day |-> z.day, block |-> x.block,
                 room |-> z.room, run |-> runs[d] + 1]
  BY ClassesRows
<1>5. \A x \in fresh : x.section.dept = d
  BY <1>g
<1> HIDE DEF fresh
<1>6. ASSUME NEW x \in fresh, NEW y \in fresh, x.instructor = y.instructor,
             x.instructor # NoOne, x.day = y.day, x.block = y.block
      PROVE  x = y
  <2>1. PICK v \in f.kept :
           /\ x.block \in Hours(v)
           /\ x = [section |-> v.session.section, course |-> v.session.course,
                   instructor |-> f.who[v.session.course], day |-> v.day, block |-> x.block,
                   room |-> v.room, run |-> runs[d] + 1]
    BY <1>4
  <2>2. PICK w \in f.kept :
           /\ y.block \in Hours(w)
           /\ y = [section |-> w.session.section, course |-> w.session.course,
                   instructor |-> f.who[w.session.course], day |-> w.day, block |-> y.block,
                   room |-> w.room, run |-> runs[d] + 1]
    BY <1>4
  <2>3. /\ v.day = w.day /\ x.block \in Hours(v) \cap Hours(w)
        /\ f.who[w.session.course] # NoOne
        /\ f.who[v.session.course] = f.who[w.session.course]
    BY <2>1, <2>2, <1>6
  <2>4. v = w
    BY <2>3, <1>3 DEF DraftOf, Free, Clash, Hours
  <2> QED  BY <2>1, <2>2, <2>4, <1>6
<1>7. InstructorsFree'
  BY <1>1, <1>2, <1>5, <1>6 DEF Turns, InstructorsFree
<1>8. OneGeneration'
  BY <1>1, <1>2, <1>g DEF Turns, OneGeneration
<1>9. EveryFull'
  <2> SUFFICES ASSUME NEW x \in classes' \cup conflicts' PROVE FullOrNamed(x)'
    BY DEF EveryFull
  <2>1. CASE x \in fresh \cup clash
    <3>1. d \in Departments /\ runs \in [Departments -> Nat]
      BY <1>1 DEF IInv, RequestsTyped, RowsTyped, d
    <3>2. x.run = runs'[x.section.dept]
      BY <2>1, <3>1, <1>1, <1>g
    <3>3. LatestFull'
      BY GenerateCommitFull DEF FInv
    <3> QED  BY <3>2, <3>3 DEF LatestFull
  <2>2. CASE x \in stay \cup still
    <3>1. x \in classes \cup conflicts /\ x.section.dept # request[p].dept
      BY <2>2, <1>2 DEF d
    <3>2. FullOrNamed(x)
      BY <3>1 DEF Turns, EveryFull
    <3> QED  BY <3>1, <3>2, GenerateElsewhere
  <2> QED  BY <2>1, <2>2, <1>1
<1> QED  BY <1>1, <1>7, <1>8, <1>9, RestFresh, AssignmentsKept DEF Turns

LEMMA ReassignCommitTurns ==
    ASSUME IInv, Turns, NEW p \in Slots, Alone(p), ReassignCommit(p)
    PROVE  Turns'
<1> DEFINE i == request[p].instructor
           t == request[p].target
<1>1. PICK m \in classes :
         /\ [m EXCEPT !.instructor = NoOne] = [t EXCEPT !.instructor = NoOne]
         /\ classes' = (classes \ {m}) \cup {[m EXCEPT !.instructor = i]}
  BY DEF ReassignCommit
<1>2. /\ Finish(p) /\ assignments' = assignments /\ conflicts' = conflicts
      /\ request[p].op = "reassign"
  BY DEF ReassignCommit, Serving
<1>3. t \in classes /\ ~Booked(i, t)
  BY <1>2 DEF Turns, ReassigningFresh
<1>4. ClassRow(m) /\ ClassRow(t)
  BY <1>3 DEF IInv, RowsTyped
<1> DEFINE n == [m EXCEPT !.instructor = i]
           m0 == [m EXCEPT !.instructor = NoOne]
           t0 == [t EXCEPT !.instructor = NoOne]
<1>5. m0.day = m.day /\ m0.block = m.block /\ t0.day = t.day /\ t0.block = t.block
  BY <1>4 DEF ClassRow
<1>6. m.day = t.day /\ m.block = t.block
  BY <1>1, <1>5
<1>7. /\ n.day = m.day /\ n.block = m.block /\ n.instructor = i
      /\ n.section = m.section /\ n.run = m.run
  BY <1>4 DEF ClassRow
<1>8. classes' = (classes \ {m}) \cup {n}
  BY <1>1
<1> HIDE DEF n
<1>9. \A x \in classes : ~(x.instructor = i /\ x.day = n.day /\ x.block = n.block)
  BY <1>3, <1>6, <1>7 DEF Booked
<1>10. InstructorsFree'
  BY <1>7, <1>8, <1>9 DEF Turns, InstructorsFree
<1>11. OneGeneration'
  BY <1>2, <1>7, <1>8 DEF Turns, OneGeneration
<1>12. EveryFull'
  BY ReassignKeeps DEF Turns, EveryFull
<1> QED  BY <1>2, <1>10, <1>11, <1>12, RestFresh, AssignmentsKept DEF Turns

LEMMA AssignCommitTurns ==
    ASSUME IInv, Turns, NEW p \in Slots, Alone(p), AssignCommit(p)
    PROVE  Turns'
<1> DEFINE c   == request[p].course
           k   == request[p].row
           new == [course |-> c, instructor |-> request[p].instructor]
<1>1. /\ Finish(p) /\ classes' = classes /\ conflicts' = conflicts
      /\ \/ k = 0 /\ assignments' = Append(assignments, new)
         \/ assignments' = [assignments EXCEPT ![k] = new]
      /\ request[p].op = "assign" /\ request[p].at = "loaded"
  BY DEF AssignCommit, Serving
<1>2. assignments \in Seq(Assignment) /\ new \in Assignment
  BY <1>1 DEF Turns, AssignmentsTyped, AssigningFresh
<1>3. \A l \in DOMAIN assignments :
         assignments[l].course = c /\ assignments[l].instructor # NoOne => l = k
  BY <1>1 DEF Turns, AssigningFresh
<1>4. new.course = c
  OBVIOUS
<1> HIDE DEF c, k, new
<1>5. CASE k = 0 /\ assignments' = Append(assignments, new)
  <2> DEFINE n == Len(assignments)
  <2>1. n \in Nat /\ DOMAIN assignments = 1..n
    BY <1>2
  <2>2. /\ assignments' \in Seq(Assignment) /\ DOMAIN assignments' = 1..(n + 1)
        /\ \A l \in 1..n : assignments'[l] = assignments[l]
        /\ assignments'[n + 1] = new
    BY <1>2, <1>5
  <2> HIDE DEF n
  <2>3. AssignmentsTyped'
    BY <2>2 DEF AssignmentsTyped
  <2>4. OnceEach'
    BY <1>3, <1>4, <1>5, <2>1, <2>2 DEF Turns, OnceEach
  <2> QED  BY <1>1, <2>3, <2>4, RestFresh, SameRows DEF Turns
<1>6. CASE assignments' = [assignments EXCEPT ![k] = new]
  <2> DEFINE n == Len(assignments)
  <2>n. n \in Nat /\ assignments \in [1..n -> Assignment] /\ DOMAIN assignments = 1..n
    BY <1>2
  <2>s. assignments' \in [1..n -> Assignment]
    BY <1>2, <1>6, <2>n
  <2> HIDE DEF n
  <2>1. assignments' \in Seq(Assignment) /\ DOMAIN assignments' = DOMAIN assignments
    BY <2>n, <2>s, SeqDef
  <2>2. \A l \in DOMAIN assignments : assignments'[l] = IF l = k THEN new ELSE assignments[l]
    BY <1>6
  <2>3. AssignmentsTyped'
    BY <2>1 DEF AssignmentsTyped
  <2>4. OnceEach'
    BY <1>3, <1>4, <2>1, <2>2 DEF Turns, OnceEach
  <2> QED  BY <1>1, <2>3, <2>4, RestFresh, SameRows DEF Turns
<1> QED  BY <1>1, <1>5, <1>6

LEMMA UnassignTurns ==
    ASSUME Turns, NEW k \in DOMAIN assignments, Unassign(k)
    PROVE  Turns'
<1>1. assignments \in Seq(Assignment)
  BY DEF Turns, AssignmentsTyped
<1>2. /\ assignments' = [assignments EXCEPT ![k].instructor = NoOne]
      /\ classes' = classes /\ conflicts' = conflicts /\ request' = request
  BY DEF Unassign
<1>3. assignments[k] \in Assignment
  BY <1>1
<1> DEFINE new == [assignments[k] EXCEPT !.instructor = NoOne]
<1>4. new \in Assignment /\ new.instructor = NoOne
  BY <1>3 DEF Assignment
<1>5. assignments' = [assignments EXCEPT ![k] = new]
  BY <1>2
<1> HIDE DEF new
<1>6. assignments' \in Seq(Assignment) /\ DOMAIN assignments' = DOMAIN assignments
  BY <1>1, <1>4, <1>5
<1>7. \A l \in DOMAIN assignments :
         assignments'[l] = IF l = k THEN new ELSE assignments[l]
  BY <1>5
<1>8. OnceEach' /\ AssigningFresh'
  BY <1>2, <1>4, <1>6, <1>7 DEF Turns, OnceEach, AssigningFresh
<1>9. GeneratingFresh' /\ ReassigningFresh'
  BY <1>2 DEF Turns, GeneratingFresh, ReassigningFresh, Booked
<1> QED  BY <1>2, <1>6, <1>8, <1>9, SameRows DEF Turns, AssignmentsTyped

LEMMA QuietTurns ==
    ASSUME Turns, classes' = classes, conflicts' = conflicts, assignments' = assignments, request' = request
    PROVE  Turns'
  BY AssignmentsKept, SameRows
     DEF Turns, AssigningFresh, GeneratingFresh, ReassigningFresh, Booked

\* A request begins.
LoadsOf(p) ==
    \/ \E d \in Departments : AllocateLoad(p, d) \/ GenerateLoad(p, d)
    \/ \E m \in classes, i \in Instructors : ReassignLoad(p, m, i)
    \/ \E c \in Courses, i \in Instructors : AssignLoad(p, c, i)

LEMMA LoadsLoad ==
    ASSUME NEW p \in Slots, LoadsOf(p)
    PROVE  \E r : request' = [request EXCEPT ![p] = r] /\ r.at = "loaded"
<1>1. ASSUME NEW d \in Departments, AllocateLoad(p, d) \/ GenerateLoad(p, d)
      PROVE  \E r : request' = [request EXCEPT ![p] = r] /\ r.at = "loaded"
  <2> DEFINE R == {x.run : x \in {y \in classes : y.section.dept = d}}
             r1 == [Rest EXCEPT !.op = "allocate", !.at = "loaded", !.dept = d,
                                !.old = SectionsOf(d)]
             r2 == [Rest EXCEPT !.op = "generate", !.at = "loaded", !.dept = d,
                                !.old = SectionsOf(d), !.runs = R]
  <2>1. request' = [request EXCEPT ![p] = r1] \/ request' = [request EXCEPT ![p] = r2]
    BY <1>1 DEF AllocateLoad, GenerateLoad, Begin
  <2>2. r1.at = "loaded" /\ r2.at = "loaded"
    BY DEF Rest
  <2> HIDE DEF r1, r2
  <2> QED  BY <2>1, <2>2
<1>2. ASSUME NEW m \in classes, NEW i \in Instructors, ReassignLoad(p, m, i)
      PROVE  \E r : request' = [request EXCEPT ![p] = r] /\ r.at = "loaded"
  <2> DEFINE r == [Rest EXCEPT !.op = "reassign", !.at = "loaded", !.target = m,
                               !.instructor = i]
  <2>1. request' = [request EXCEPT ![p] = r] /\ r.at = "loaded"
    BY <1>2 DEF ReassignLoad, Begin, Rest
  <2> QED  BY <2>1
<1>3. ASSUME NEW c \in Courses, NEW i \in Instructors, AssignLoad(p, c, i)
      PROVE  \E r : request' = [request EXCEPT ![p] = r] /\ r.at = "loaded"
  <2> DEFINE r == [Rest EXCEPT !.op = "assign", !.at = "loaded", !.course = c,
                               !.instructor = i, !.row = Latest(c)]
  <2>1. request' = [request EXCEPT ![p] = r] /\ r.at = "loaded"
    BY <1>3 DEF AssignLoad, Begin, Rest
  <2> QED  BY <2>1
<1> QED  BY <1>1, <1>2, <1>3 DEF LoadsOf

LEMMA LoadTurns ==
    ASSUME IInv, Turns, NEW p \in Slots, Alone(p), LoadsOf(p)
    PROVE  Turns'
<1>1. ASSUME NEW d \in Departments, AllocateLoad(p, d)
      PROVE  Turns'
  <2> DEFINE r == [Rest EXCEPT !.op = "allocate", !.at = "loaded", !.dept = d,
                               !.old = SectionsOf(d)]
  <2>1. request' = [request EXCEPT ![p] = r] /\ UNCHANGED rows
    BY <1>1 DEF AllocateLoad, Begin
  <2>2. r.op = "allocate"
    BY DEF Rest
  <2> HIDE DEF r
  <2> QED  BY <2>1, <2>2, BeginTurns
<1>2. ASSUME NEW d \in Departments, GenerateLoad(p, d)
      PROVE  Turns'
  <2> DEFINE R == {x.run : x \in {y \in classes : y.section.dept = d}}
             r == [Rest EXCEPT !.op = "generate", !.at = "loaded", !.dept = d,
                               !.old = SectionsOf(d), !.runs = R]
  <2>1. request' = [request EXCEPT ![p] = r] /\ UNCHANGED rows
    BY <1>2 DEF GenerateLoad
  <2>2. r.op = "generate" /\ r.at = "loaded" /\ r.dept = d /\ r.runs = R
    BY DEF Rest
  <2>3. \A x \in classes : x.section.dept = d => x.run \in R
    OBVIOUS
  <2> HIDE DEF r, R
  <2> QED  BY <2>1, <2>2, <2>3, BeginTurns
<1>3. ASSUME NEW m \in classes, NEW i \in Instructors, ReassignLoad(p, m, i)
      PROVE  Turns'
  <2> DEFINE r == [Rest EXCEPT !.op = "reassign", !.at = "loaded", !.target = m,
                               !.instructor = i]
  <2>1. request' = [request EXCEPT ![p] = r] /\ UNCHANGED rows /\ ~Booked(i, m)
    BY <1>3 DEF ReassignLoad, Begin
  <2>2. r.op = "reassign" /\ r.target = m /\ r.instructor = i
    BY DEF Rest
  <2> HIDE DEF r
  <2> QED  BY <2>1, <2>2, BeginTurns
<1>4. ASSUME NEW c \in Courses, NEW i \in Instructors, AssignLoad(p, c, i)
      PROVE  Turns'
  <2> DEFINE r == [Rest EXCEPT !.op = "assign", !.at = "loaded", !.course = c,
                               !.instructor = i, !.row = Latest(c)]
  <2>1. request' = [request EXCEPT ![p] = r] /\ UNCHANGED rows
    BY <1>4 DEF AssignLoad, Begin
  <2>2. r.op = "assign" /\ r.row = Latest(c) /\ r.course = c /\ r.instructor = i
    BY DEF Rest
  <2>3. [course |-> c, instructor |-> i] \in Assignment
    BY DEF Assignment
  <2> HIDE DEF r
  <2> QED  BY <2>1, <2>2, <2>3, BeginTurns
<1> QED  BY <1>1, <1>2, <1>3, <1>4 DEF LoadsOf

LEMMA IdleRestsKept == IInv /\ IdleRests /\ [Next]_vars => IdleRests'
<1> SUFFICES ASSUME IInv, IdleRests, [Next]_vars
             PROVE  IdleRests'
  OBVIOUS
<1>1. ASSUME NEW p \in Slots, NEW r, request' = [request EXCEPT ![p] = r],
             r.at = "idle" => r.op = "none"
      PROVE  IdleRests'
  BY <1>1 DEF IdleRests, IInv, RequestsTyped
<1>2. ASSUME NEW p \in Slots, NEW at, request' = [request EXCEPT ![p].at = at],
             at # "idle"
      PROVE  IdleRests'
  BY <1>2 DEF IdleRests, IInv, RequestsTyped, RequestFields
<1>3. ASSUME request' = request
      PROVE  IdleRests'
  BY <1>3 DEF IdleRests
<1>4. ASSUME NEW p \in Slots, Finish(p)
      PROVE  IdleRests'
  <2>1. request' = [request EXCEPT ![p] = Rest] /\ Rest.op = "none"
    BY <1>4 DEF Finish, Rest
  <2> QED  BY <2>1, <1>1
<1>5. ASSUME NEW p \in Slots, LoadsOf(p)
      PROVE  IdleRests'
  <2>1. PICK r : request' = [request EXCEPT ![p] = r] /\ r.at = "loaded"
    BY <1>5, LoadsLoad
  <2> QED  BY <2>1, <1>1
<1>6. ASSUME NEW p \in Slots, EndAttempt(p)
      PROVE  IdleRests'
  <2>1. \E at \in {"placing", "placed"} : request' = [request EXCEPT ![p].at = at]
    BY <1>6 DEF EndAttempt
  <2> QED  BY <2>1, <1>2
<1>7. ASSUME NEW p \in Slots, GenerateWipe(p) \/ GenerateRead(p)
      PROVE  IdleRests'
  <2>1. CASE GenerateWipe(p)
    <3>1. request'[p].at = "wiped" /\ \A q \in Slots \ {p} : request'[q] = request[q]
      BY <2>1, Wiped
    <3> QED  BY <3>1 DEF IdleRests
  <2>2. CASE GenerateRead(p)
    BY <2>2, <1>2 DEF GenerateRead
  <2> QED  BY <1>7, <2>1, <2>2
<1>8. CASE UNCHANGED vars
  BY <1>8, <1>3 DEF vars
<1> QED
  BY <1>3, <1>4, <1>5, <1>6, <1>7, <1>8
     DEF Next, Others, LoadsOf, AllocateCommit, GenerateCommit, ReassignCommit, AssignCommit,
         RequestFails, Place, StudentRegisters, ReferenceSection, Unassign

\* Whoever acts while requests take turns is the only one at work.
LEMMA ActorAlone ==
    ASSUME IdleRests, OneAtATime, OneAtATime', NEW p \in Slots,
           \/ request[p].at # "idle"
           \/ /\ request'[p].at # "idle"
              /\ \A q \in Slots \ {p} : request'[q] = request[q]
    PROVE  Alone(p)
  BY DEF IdleRests, OneAtATime, Busy, Alone

LEMMA NextTurns ==
    IInv /\ FInv /\ IdleRests /\ OneAtATime /\ OneAtATime' /\ Turns /\ [Next]_vars => Turns'
<1> SUFFICES ASSUME IInv, FInv, IdleRests, OneAtATime, OneAtATime', Turns, [Next]_vars
             PROVE  Turns'
  OBVIOUS
<1>1. ASSUME NEW n \in Students, StudentRegisters(n)
      PROVE  Turns'
  BY <1>1, QuietTurns DEF StudentRegisters
<1>2. ASSUME NEW s \in DOMAIN enrolled, ReferenceSection(s)
      PROVE  Turns'
  BY <1>2, QuietTurns DEF ReferenceSection
<1>3. ASSUME NEW p \in Slots, AllocateCommit(p) \/ RequestFails(p)
      PROVE  Turns'
  <2>1. /\ Finish(p) /\ classes' \subseteq classes /\ conflicts' \subseteq conflicts
        /\ assignments' = assignments
        /\ request[p].at # "idle"
    BY <1>3 DEF AllocateCommit, RequestFails, rows, Serving
  <2>2. EveryFull'
    <3>1. CASE AllocateCommit(p)
      BY <3>1, AllocateKeeps DEF Turns, EveryFull
    <3>2. CASE RequestFails(p)
      BY <3>2, SameRows DEF RequestFails, rows
    <3> QED  BY <1>3, <3>1, <3>2
  <2> QED  BY <2>1, <2>2, ActorAlone, RestFresh, AssignmentsKept, FewerRows DEF Turns
<1>4. ASSUME NEW p \in Slots, GenerateWipe(p) \/ GenerateRead(p)
      PROVE  Turns'
  <2>1. CASE GenerateWipe(p)
    <3>1. request[p].at # "idle"
      BY <2>1, Wiped
    <3> QED  BY <2>1, <3>1, ActorAlone, WipeTurns
  <2>2. CASE GenerateRead(p)
    BY <2>2, MoveTurns DEF GenerateRead, Serving
  <2> QED  BY <1>4, <2>1, <2>2
<1>5. ASSUME NEW p \in Slots, Place(p)
      PROVE  Turns'
  <2>1. request[p].op = "generate" /\ request' = request /\ UNCHANGED rows
    BY <1>5 DEF Place, Serving
  <2> QED  BY <2>1, QuietTurns DEF rows
<1>6. ASSUME NEW p \in Slots, EndAttempt(p)
      PROVE  Turns'
  <2>1. /\ request[p].op = "generate" /\ request[p].at # "loaded" /\ UNCHANGED rows
        /\ \E at : request' = [request EXCEPT ![p].at = at]
    BY <1>6 DEF EndAttempt, Serving
  <2> QED  BY <2>1, MoveTurns
<1>7. CASE UNCHANGED vars
  BY <1>7, QuietTurns DEF vars, rows
<1>8. ASSUME NEW p \in Slots, LoadsOf(p)
      PROVE  Turns'
  <2>1. PICK r : request' = [request EXCEPT ![p] = r] /\ r.at = "loaded"
    BY <1>8, LoadsLoad
  <2>2. request'[p].at # "idle" /\ \A q \in Slots \ {p} : request'[q] = request[q]
    BY <2>1 DEF IInv, RequestsTyped
  <2> QED  BY <1>8, <2>2, ActorAlone, LoadTurns
<1>9. ASSUME NEW p \in Slots, GenerateCommit(p) \/ ReassignCommit(p) \/ AssignCommit(p)
      PROVE  Turns'
  <2>1. request[p].at # "idle"
    BY <1>9 DEF GenerateCommit, ReassignCommit, AssignCommit, Serving
  <2> QED
    BY <1>9, <2>1, ActorAlone, GenerateCommitTurns, ReassignCommitTurns, AssignCommitTurns
<1> QED
  BY <1>1, <1>2, <1>3, <1>4, <1>5, <1>6, <1>7, <1>8, <1>9, UnassignTurns
     DEF Next, Others, LoadsOf

LEMMA TurnsOneInstructor == Turns => OneInstructor
<1> SUFFICES ASSUME Turns, NEW c \in Courses PROVE Cardinality(Live(c)) <= 1
  BY DEF OneInstructor
<1>1. CASE Live(c) = {}
  BY <1>1, FS_EmptySet
<1>2. CASE Live(c) # {}
  <2>1. PICK k \in Live(c) : TRUE
    BY <1>2
  <2>2. Live(c) = {k}
    BY <2>1 DEF Live, Turns, OnceEach
  <2>3. Cardinality({k}) = 1
    BY FS_Singleton
  <2> QED  BY <2>2, <2>3
<1> QED  BY <1>1, <1>2

LEMMA InTurns == TurnsSpec => []IInv /\ []FInv /\ [](turns => Turns)
<1> DEFINE Inv == IdleRests /\ (turns => OneAtATime /\ Turns)
<1>1. TurnsInit => Inv
  <2> SUFFICES ASSUME TurnsInit PROVE Inv
    OBVIOUS
  <2>1. IdleRests /\ OneAtATime
    BY DEF TurnsInit, Init, Rest, IdleRests, OneAtATime, Busy
  <2> QED  BY <2>1, InitTurns DEF TurnsInit
<1>2. IInv /\ FInv /\ Inv /\ [TurnsNext]_<<vars, turns>> => Inv'
  <2> SUFFICES ASSUME IInv, FInv, Inv, [TurnsNext]_<<vars, turns>> PROVE Inv'
    OBVIOUS
  <2>1. [Next]_vars /\ turns' = turns
    BY DEF TurnsNext
  <2>2. turns => OneAtATime'
    BY DEF TurnsNext, OneAtATime, Busy, vars
  <2> QED  BY <2>1, <2>2, IdleRestsKept, NextTurns
<1>3. Inv => (turns => Turns)
  OBVIOUS
<1>4. TurnsInit => Init
  BY DEF TurnsInit
<1>5. [TurnsNext]_<<vars, turns>> => [Next]_vars
  BY DEF TurnsNext
<1>6. TurnsSpec => []IInv /\ []FInv
  BY <1>4, <1>5, Invariant, Exhaustive, PTL DEF TurnsSpec, Spec
<1> HIDE DEF Inv
<1> QED  BY <1>1, <1>2, <1>3, <1>6, PTL DEF TurnsSpec

\* While requests take turns, an instructor teaches one class of a department at a
\* time: what a generation replaces is all there is, and a reassignment looks at
\* every class of the term.  A course never has two assignments, with deletions at
\* any time, and a timetable is gone when the next one is there: with the theorem
\* after, a course has its hours and no more.
THEOREM OnceInTurns == TurnsSpec => []TurnsOnce
<1>1. (turns => Turns) => TurnsOnce
  BY TurnsOneInstructor DEF TurnsOnce, Turns
<1> QED  BY <1>1, InTurns, PTL

LEMMA FullCounts ==
    ASSUME NEW x, FullOrNamed(x)
    PROVE  Accounted(x)
<1> SUFFICES ASSUME NEW c \in Curriculum(x.section), ~Named(x.section, c, x.run)
             PROVE  Cardinality(HoursOf(x.section, c, x.run)) = CreditHours[c]
  BY DEF Accounted, Named
<1>1. ExistsBijection(1..CreditHours[c], HoursOf(x.section, c, x.run))
  BY DEF FullOrNamed, Full
<1>2. CreditHours[c] \in Nat
  BY SchedulingAssumption DEF Curriculum
<1> QED  BY <1>1, <1>2, FS_CountingElements

\* What the last generation of a department has made of a section is complete, or an open
\* conflict names the course, and the department head is shown it: whatever restarts,
\* allocations, reassignments and other generations run beside it.  While requests take
\* turns, no generation that stands is incomplete without a conflict.
THEOREM NothingUnseen == TurnsSpec => []CompleteOrSeen
<1>1. FInv /\ (turns => Turns) => CompleteOrSeen
  <2> SUFFICES ASSUME FInv, turns => Turns PROVE CompleteOrSeen
    OBVIOUS
  <2>1. LatestComplete
    BY FullCounts DEF LatestComplete, FInv, LatestFull
  <2>2. turns => CompleteOrReported
    BY FullCounts DEF CompleteOrReported, Turns, EveryFull
  <2>3. ConflictsSeen
    BY DEF ConflictsSeen, FInv, RowsKnown, SectionsOf, list_open_conflicts, Curriculum
  <2> QED  BY <2>1, <2>2, <2>3 DEF CompleteOrSeen
<1> QED  BY <1>1, InTurns, PTL

---------------------------------------------------------

-----------------------------------------------------------------------------
(* The sharing of a cohort.                                                *)

LEMMA Quotient ==
    ASSUME NEW a \in Nat, NEW b \in Nat \ {0}
    PROVE  /\ a \div b \in Nat /\ a % b \in Nat /\ a % b < b
           /\ a = b * (a \div b) + (a % b)
           /\ \A q \in Nat : b * q <= a /\ a < b * q + b => a \div b = q
<1> DEFINE p == a \div b
           r == a % b
<1>1. p \in Int /\ r \in Int
  OBVIOUS
<1>2. p >= 0 /\ r >= 0 /\ r < b
  OBVIOUS
<1>3. a = b * p + r
  OBVIOUS
<1> HIDE DEF p, r
<1>4. ASSUME NEW q \in Nat, b * q <= a, a < b * q + b
      PROVE  p = q
  <2>1. ASSUME NEW m \in Nat, NEW n \in Nat, m >= n + 1
        PROVE  b * m >= b * n + b
    <3>1. b * m = b * n + b + b * (m - n - 1)
      OBVIOUS
    <3>2. b * (m - n - 1) >= 0
      BY <2>1
    <3>3. b * m \in Int /\ b * n \in Int /\ b * (m - n - 1) \in Int
      OBVIOUS
    <3> QED  BY <3>1, <3>2, <3>3
  <2>2. p \in Nat
    BY <1>1, <1>2
  <2>3. p >= q + 1 => b * p >= b * q + b
    BY <2>1, <2>2
  <2>4. q >= p + 1 => b * q >= b * p + b
    BY <2>1, <2>2
  <2> DEFINE bp == b * p
             bq == b * q
  <2>5. bp \in Int /\ bq \in Int
    BY <1>1
  <2>6. a = bp + r /\ bq <= a /\ a < bq + b
    BY <1>3, <1>4
  <2>7. (p >= q + 1 => bp >= bq + b) /\ (q >= p + 1 => bq >= bp + b)
    BY <2>3, <2>4
  <2> HIDE DEF bp, bq
  <2> QED  BY <1>1, <1>2, <2>2, <2>5, <2>6, <2>7
<1> QED  BY <1>1, <1>2, <1>3, <1>4 DEF p, r

LEMMA Products ==
    ASSUME NEW b \in Nat, NEW m \in Int, NEW n \in Int, m <= n
    PROVE  b * m \in Int /\ b * n \in Int /\ b * m <= b * n
<1>1. b * n = b * m + b * (n - m)
  OBVIOUS
<1>2. b * (n - m) >= 0
  OBVIOUS
<1> QED  BY <1>1, <1>2

\* N students in as few sections of at most L as will do.
LEMMA Sharing ==
    ASSUME NEW N \in Nat \ {0}, NEW L \in Nat \ {0},
           NEW k, k = Ceil(N, L), NEW b, b = N \div k, NEW w, w = N % k
    PROVE  /\ k \in 1..N /\ b \in 1..L /\ w \in Nat /\ w < k
           /\ N = k * b + w
           /\ w > 0 => b + 1 <= L
<1> DEFINE r == (N + L - 1) % L
<1>1. /\ k \in Nat /\ r \in Nat /\ r < L /\ N + L - 1 = L * k + r
  <2>1. N + L - 1 \in Nat /\ k = (N + L - 1) \div L
    BY DEF Ceil
  <2> QED  BY <2>1, Quotient
<1> HIDE DEF r
<1> DEFINE Lk == L * k
<1>2. Lk \in Int /\ Lk >= N /\ Lk <= N + L - 1
  BY <1>1
<1>3. k >= 1
  <2>1. k = 0 => Lk = 0
    OBVIOUS
  <2> HIDE DEF Lk
  <2> QED  BY <1>1, <1>2, <2>1
<1>4. k <= N
  <2>2. k >= N + 1 => Lk >= L * (N + 1)
    BY <1>1, Products
  <2> DEFINE LN == (L - 1) * N
  <2>3. L * (N + 1) = LN + N + L /\ LN >= 0 /\ LN \in Int
    OBVIOUS
  <2> HIDE DEF Lk, LN
  <2> QED  BY <1>1, <1>2, <2>2, <2>3
<1> DEFINE kb == k * b
<1>5. b \in Nat /\ w \in Nat /\ w < k /\ N = kb + w /\ kb \in Int
  <2>1. N \in Nat /\ k \in Nat \ {0}
    BY <1>1, <1>3
  <2>2. b \in Nat /\ w \in Nat /\ w < k /\ N = k * b + w
    BY <2>1, Quotient
  <2> QED  BY <2>1, <2>2
<1>6. b >= 1
  <2>1. b = 0 => kb = 0
    BY <1>1
  <2> HIDE DEF kb
  <2> QED  BY <1>1, <1>4, <1>5, <2>1
<1>7. b <= L /\ (w > 0 => b < L)
  <2>1. ASSUME b >= L + 1 PROVE kb >= k * (L + 1)
    <3>1. k \in Nat /\ L + 1 \in Int /\ b \in Int /\ L + 1 <= b
      BY <1>1, <1>5, <2>1
    <3> QED  BY <3>1, Products
  <2>2. k * (L + 1) = Lk + k
    BY <1>1
  <2>3. ASSUME b >= L PROVE kb >= k * L
    <3>1. k \in Nat /\ L \in Int /\ b \in Int /\ L <= b
      BY <1>1, <1>5, <2>3
    <3> QED  BY <3>1, Products
  <2>4. k * L = Lk
    BY <1>1
  <2> HIDE DEF Lk, kb
  <2> QED  BY <1>1, <1>2, <1>3, <1>5, <2>1, <2>2, <2>3, <2>4
<1> QED  BY <1>1, <1>3, <1>4, <1>5, <1>6, <1>7

\* Blocks of m numbers after the first o.
LEMMA BlockOf ==
    ASSUME NEW o \in Nat, NEW m \in Nat \ {0}, NEW i \in Nat, i > o,
           NEW q, q = (i - 1 - o) \div m
    PROVE  /\ q \in Nat
           /\ \A p \in Nat : /\ m * p \in Nat
                             /\ (q = p) <=> i \in (o + m * p + 1)..(o + m * p + m)
<1> DEFINE a == i - 1 - o
           r == a % m
<1>1. a \in Nat
  OBVIOUS
<1>2. /\ q \in Nat /\ r \in Nat /\ r < m /\ a = m * q + r
      /\ \A p \in Nat : m * p <= a /\ a < m * p + m => q = p
  BY <1>1, Quotient
<1>3. \A p \in Nat : m * p \in Nat
  BY Products
<1> HIDE DEF r
<1>4. m * q <= a /\ a < m * q + m
  BY <1>1, <1>2, <1>3
<1>5. ASSUME NEW p \in Nat
      PROVE  q = p <=> m * p <= a /\ a < m * p + m
  BY <1>2, <1>4
<1>6. ASSUME NEW p \in Nat
      PROVE  (m * p <= a /\ a < m * p + m) <=> i \in (o + m * p + 1)..(o + m * p + m)
  <2> DEFINE mp == m * p
  <2>1. mp \in Nat
    BY <1>3
  <2> HIDE DEF mp
  <2>2. (mp <= a /\ a < mp + m) <=> i \in (o + mp + 1)..(o + mp + m)
    BY <2>1
  <2> QED  BY <2>2 DEF mp
<1> QED  BY <1>2, <1>3, <1>5, <1>6

LEMMA BlockSize ==
    ASSUME NEW o \in Nat, NEW m \in Nat \ {0}, NEW S, S = (o + 1)..(o + m)
    PROVE  Cardinality(S) = m
<1>1. Cardinality((o + 1)..(o + m)) = IF o + 1 > o + m THEN 0 ELSE (o + m) - (o + 1) + 1
  BY FS_Interval
<1> QED  BY <1>1

\* How many of a cohort are in a section.
LEMMA Shares ==
    ASSUME NEW d, Largest(d) \in Nat \ {0}, NEW N \in Nat \ {0}
    PROVE  /\ CodeOf(d, 1, N) = 1
           /\ \E m \in Nat :
                \A i \in 1..N :
                  LET mates == {j \in 1..N : CodeOf(d, j, N) = CodeOf(d, i, N)}
                  IN  /\ CodeOf(d, i, N) \in Nat
                      /\ Cardinality(mates) \in {m, m + 1}
                      /\ Cardinality(mates) \in 1..Largest(d)
<1> DEFINE L == Largest(d)
           k == Ceil(N, L)
           b == N \div k
           w == N % k
           wide == w * (b + 1)
           first(i) == (i - 1 - 0) \div (b + 1)
           then(i) == (i - 1 - wide) \div b
           code(i) == IF i <= wide THEN first(i) + 1 ELSE w + then(i) + 1
           class(i) == {j \in 1..N : code(j) = code(i)}
<1>1. \A i \in 1..N : CodeOf(d, i, N) = code(i)
  <2> TAKE i \in 1..N
  <2>1. i - 1 - 0 = i - 1
    OBVIOUS
  <2> QED  BY <2>1 DEF CodeOf
<1>2. /\ k \in 1..N /\ b \in 1..L /\ w \in Nat /\ w < k
      /\ N = k * b + w
      /\ w > 0 => b + 1 <= L
  <2>1. L \in Nat \ {0} /\ k = Ceil(N, L) /\ b = N \div k /\ w = N % k
    OBVIOUS
  <2> HIDE DEF L, k, b, w
  <2> QED  BY <2>1, Sharing
<1> HIDE DEF L, k, b, w
<1>3. wide = (b + 1) * w /\ wide \in Nat /\ N = wide + b * (k - w)
  <2>1. k \in Nat /\ b \in Nat /\ w \in Nat
    BY <1>2
  <2>2. wide = (b + 1) * w /\ b * (k - w) = k * b - b * w /\ wide = b * w + w
    BY <2>1
  <2>3. wide \in Nat /\ k * b \in Int /\ b * w \in Int
    BY <2>1, <2>2, Products
  <2> HIDE DEF wide
  <2> QED  BY <1>2, <2>2, <2>3
<1> DEFINE tail == b * (k - w)
<1>4. ASSUME NEW i \in 1..N, i <= wide
      PROVE  /\ first(i) \in Nat /\ first(i) < w
             /\ \A p \in Nat : /\ (b + 1) * p \in Nat
                               /\ (first(i) = p) <=> i \in ((b + 1) * p + 1)..((b + 1) * p + (b + 1))
  <2>1. b + 1 \in Nat \ {0} /\ i \in Nat /\ i > 0 /\ 0 \in Nat
    BY <1>2
  <2> DEFINE q == first(i)
             m == b + 1
  <2>6. q = (i - 1 - 0) \div m
    OBVIOUS
  <2> HIDE DEF q
  <2>2. /\ q \in Nat
        /\ \A p \in Nat : /\ (b + 1) * p \in Nat
                          /\ (q = p) <=> i \in (0 + (b + 1) * p + 1)..(0 + (b + 1) * p + (b + 1))
    <3>1. m \in Nat \ {0}
      BY <2>1
    <3> HIDE DEF m, wide, first, then
    <3>2. /\ q \in Nat
          /\ \A p \in Nat : /\ m * p \in Nat
                            /\ (q = p) <=> i \in (0 + m * p + 1)..(0 + m * p + m)
      BY <2>1, <2>6, <3>1, BlockOf
    <3> QED  BY <3>2 DEF m
  <2>3. \A p \in Nat : 0 + (b + 1) * p = (b + 1) * p
    <3> TAKE p \in Nat
    <3> DEFINE mp == (b + 1) * p
    <3>1. mp \in Nat
      BY <2>2
    <3> HIDE DEF mp
    <3>2. 0 + mp = mp
      BY <3>1
    <3> QED  BY <3>2 DEF mp
  <2>4. (b + 1) * q + 1 <= i /\ (b + 1) * q \in Nat
    <3> DEFINE mq == (b + 1) * q
    <3>1. mq \in Nat /\ (q = q <=> i \in (0 + mq + 1)..(0 + mq + (b + 1)))
      BY <2>2
    <3> HIDE DEF mq
    <3>2. mq + 1 <= i
      BY <2>1, <3>1
    <3> QED  BY <3>1, <3>2 DEF mq
  <2>5. ASSUME q >= w PROVE FALSE
    <3>1. b + 1 \in Nat /\ w \in Int /\ q \in Int /\ w <= q
      BY <1>2, <2>1, <2>2, <2>5
    <3>2. (b + 1) * w <= (b + 1) * q
      BY <3>1, Products
    <3> HIDE DEF wide
    <3> QED  BY <1>3, <1>4, <2>1, <2>4, <3>2
  <2>7. q < w
    BY <1>2, <2>2, <2>5
  <2> QED  BY <2>2, <2>3, <2>7 DEF q
<1>5. ASSUME NEW i \in 1..N, i > wide
      PROVE  /\ then(i) \in Nat /\ then(i) < k - w
             /\ \A p \in Nat : /\ b * p \in Nat
                               /\ (then(i) = p) <=> i \in (wide + b * p + 1)..(wide + b * p + b)
  <2>1. b \in Nat \ {0} /\ i \in Nat
    BY <1>2
  <2> DEFINE q == then(i)
  <2>2. /\ q \in Nat
        /\ \A p \in Nat : /\ b * p \in Nat
                          /\ (q = p) <=> i \in (wide + b * p + 1)..(wide + b * p + b)
    <3>1. q = (i - 1 - wide) \div b
      OBVIOUS
    <3>2. wide \in Nat /\ i > wide
      BY <1>3, <1>5
    <3> HIDE DEF wide, first, then, q
    <3> QED  BY <2>1, <3>1, <3>2, BlockOf
  <2> HIDE DEF q, wide
  <2>3. wide + b * q + 1 <= i /\ b * q \in Nat
    BY <2>1, <2>2, <1>3
  <2>4. ASSUME q >= k - w PROVE FALSE
    <3>1. b \in Nat /\ k - w \in Int /\ q \in Int /\ k - w <= q
      BY <1>2, <2>1, <2>2, <2>4
    <3>2. b * (k - w) <= b * q
      BY <3>1, Products
    <3>3. tail \in Int
      BY <3>1, Products
    <3> HIDE DEF tail
    <3>4. i <= wide + tail /\ tail <= b * q
      BY <3>2, <1>3 DEF tail
    <3> QED  BY <1>3, <2>1, <2>3, <3>3, <3>4
  <2>5. q < k - w
    BY <1>2, <2>2, <2>4
  <2> QED  BY <2>2, <2>5 DEF q
<1> HIDE DEF wide, first, then
<1>6. ASSUME NEW i \in 1..N, i <= wide
      PROVE  code(i) \in Nat /\ w > 0 /\ Cardinality(class(i)) = b + 1
  <2> DEFINE p == first(i)
             o == (b + 1) * p
  <2>1. p \in Nat /\ p < w /\ o \in Nat
    <3>1. p \in Nat /\ p < w
      BY <1>4, <1>6
    <3>2. \A u \in Nat : (b + 1) * u \in Nat
      BY <1>4, <1>6
    <3> HIDE DEF p
    <3> QED  BY <3>1, <3>2
  <2>2. o + (b + 1) <= wide
    <3>1. b + 1 \in Nat /\ p + 1 \in Int /\ w \in Int /\ p + 1 <= w
      BY <1>2, <2>1
    <3>2. (b + 1) * (p + 1) <= (b + 1) * w
      BY <3>1, Products
    <3>3. (b + 1) * (p + 1) = o + (b + 1)
      BY <1>2, <2>1
    <3> QED  BY <1>3, <3>2, <3>3
  <2>3. wide <= N
    <3>1. tail \in Nat
      BY <1>2, Products
    <3> QED  BY <1>3, <3>1
  <2>4. \A j \in 1..N : code(j) = code(i) <=> j \in (o + 1)..(o + (b + 1))
    <3> TAKE j \in 1..N
    <3>1. CASE j <= wide
      <4>1. first(j) \in Nat /\ (first(j) = p <=> j \in (o + 1)..(o + (b + 1)))
        BY <1>4, <2>1, <3>1
      <4> HIDE DEF p, o
      <4> QED  BY <1>6, <2>1, <3>1, <4>1 DEF p
    <3>2. CASE j > wide
      <4>1. then(j) \in Nat
        BY <1>5, <3>2
      <4>2. j \notin (o + 1)..(o + (b + 1))
        <5> HIDE DEF o
        <5> QED  BY <1>2, <1>3, <2>1, <2>2, <3>2
      <4> QED  BY <1>2, <1>3, <1>6, <2>1, <3>2, <4>1, <4>2
    <3> QED  BY <1>3, <3>1, <3>2
  <2>5. class(i) = (o + 1)..(o + (b + 1))
    <3> HIDE DEF code, o
    <3>1. \A j \in (o + 1)..(o + (b + 1)) : j \in 1..N
      BY <1>2, <1>3, <2>1, <2>2, <2>3
    <3> QED  BY <2>4, <3>1
  <2>6. b + 1 \in Nat \ {0}
    BY <1>2
  <2>7. code(i) \in Nat /\ w > 0
    <3> HIDE DEF o
    <3> QED  BY <1>2, <1>6, <2>1
  <2> DEFINE m == b + 1
  <2> HIDE DEF class, o, m, code
  <2>8. Cardinality(class(i)) = m
    BY <2>1, <2>5, <2>6, BlockSize DEF m
  <2> QED  BY <2>7, <2>8 DEF m
<1>7. ASSUME NEW i \in 1..N, i > wide
      PROVE  code(i) \in Nat /\ Cardinality(class(i)) = b
  <2> DEFINE p == then(i)
             o == wide + b * p
  <2>1. p \in Nat /\ p < k - w /\ b * p \in Nat /\ o \in Nat
    <3>1. p \in Nat /\ p < k - w
      BY <1>5, <1>7
    <3>2. \A u \in Nat : b * u \in Nat
      BY <1>5, <1>7
    <3> HIDE DEF p
    <3>3. b * p \in Nat
      BY <3>1, <3>2
    <3> QED  BY <1>3, <3>1, <3>3
  <2>2. o + b <= N
    <3>1. b \in Nat /\ p + 1 \in Int /\ k - w \in Int /\ p + 1 <= k - w
      BY <1>2, <2>1
    <3>2. b * (p + 1) <= tail
      BY <3>1, Products
    <3>3. wide + b * (p + 1) = o + b
      BY <1>2, <1>3, <2>1
    <3>4. tail \in Int /\ b * (p + 1) \in Int
      BY <3>1, Products
    <3> QED  BY <1>3, <3>2, <3>3, <3>4
  <2>4. \A j \in 1..N : code(j) = code(i) <=> j \in (o + 1)..(o + b)
    <3> TAKE j \in 1..N
    <3>1. CASE j > wide
      <4>1. then(j) \in Nat /\ (then(j) = p <=> j \in (o + 1)..(o + b))
        BY <1>5, <2>1, <3>1
      <4> HIDE DEF p, o
      <4> QED  BY <1>2, <1>3, <1>7, <2>1, <3>1, <4>1 DEF p
    <3>2. CASE j <= wide
      <4>1. first(j) \in Nat /\ first(j) < w
        BY <1>4, <3>2
      <4>2. j \notin (o + 1)..(o + b)
        <5>1. o >= wide
          BY <1>3, <2>1
        <5> HIDE DEF o
        <5> QED  BY <1>2, <1>3, <2>1, <3>2, <5>1
      <4> QED  BY <1>2, <1>3, <1>7, <2>1, <3>2, <4>1, <4>2
    <3> QED  BY <1>3, <3>1, <3>2
  <2>5. class(i) = (o + 1)..(o + b)
    <3> HIDE DEF code, o
    <3>1. \A j \in (o + 1)..(o + b) : j \in 1..N
      BY <1>2, <1>3, <2>1, <2>2
    <3> QED  BY <2>4, <3>1
  <2>6. b \in Nat \ {0}
    BY <1>2
  <2>7. code(i) \in Nat
    <3> HIDE DEF o
    <3> QED  BY <1>2, <1>3, <1>7, <2>1
  <2> HIDE DEF class, o, code
  <2>8. Cardinality(class(i)) = b
    BY <2>1, <2>5, <2>6, BlockSize
  <2> QED  BY <2>7, <2>8
<1>8. code(1) = 1
  <2>1. 1 \in 1..N
    OBVIOUS
  <2>2. ASSUME 1 <= wide PROVE first(1) = 0
    <3> DEFINE mp == (b + 1) * 0
    <3>1. first(1) = 0 <=> 1 \in (mp + 1)..(mp + (b + 1))
      BY <1>4, <2>1, <2>2
    <3>2. mp = 0
      BY <1>2
    <3> HIDE DEF mp
    <3>3. 1 \in (mp + 1)..(mp + (b + 1))
      BY <1>2, <3>2
    <3> QED  BY <3>1, <3>3
  <2>3. ASSUME ~(1 <= wide) PROVE w + then(1) = 0
    <3>1. wide = 0
      BY <1>3, <2>3
    <3>2. w = 0
      <4>1. w > 0 => (b + 1) * w >= (b + 1) * 1
        BY <1>2, Products
      <4>2. (b + 1) * 1 = b + 1
        BY <1>2
      <4> DEFINE bw == (b + 1) * w
      <4> HIDE DEF bw
      <4>3. bw = 0 /\ (w > 0 => bw >= b + 1)
        BY <1>3, <3>1, <4>1, <4>2 DEF bw
      <4> QED  BY <1>2, <4>3
    <3> DEFINE mp == b * 0
    <3>3. then(1) = 0 <=> 1 \in (wide + mp + 1)..(wide + mp + b)
      BY <1>5, <2>1, <2>3, <1>3
    <3>4. mp = 0
      BY <1>2
    <3> HIDE DEF mp
    <3>5. 1 \in (wide + mp + 1)..(wide + mp + b)
      BY <1>2, <3>1, <3>4
    <3> QED  BY <3>2, <3>3, <3>5
  <2> QED  BY <2>2, <2>3
<1>9. \A i \in 1..N : /\ code(i) \in Nat /\ Cardinality(class(i)) \in {b, b + 1}
                      /\ Cardinality(class(i)) \in 1..L
  <2> HIDE DEF code, class
  <2> QED  BY <1>2, <1>3, <1>6, <1>7
<1>10. \A i \in 1..N : {j \in 1..N : CodeOf(d, j, N) = CodeOf(d, i, N)} = class(i)
  <2> HIDE DEF code
  <2> QED  BY <1>1
<1>11. CodeOf(d, 1, N) = 1
  BY <1>1, <1>8
<1>12. b \in Nat
  BY <1>2
<1> HIDE DEF code, class
<1>13. \A i \in 1..N : CodeOf(d, i, N) \in Nat /\ Cardinality(class(i)) \in {b, b + 1}
                       /\ Cardinality(class(i)) \in 1..Largest(d)
  BY <1>1, <1>9 DEF L
<1> QED  BY <1>10, <1>11, <1>12, <1>13

-----------------------------------------------------------------------------
(* The largest room, and the order in which students have registered.      *)

LEMMA LargestIs ==
    ASSUME NEW d, RoomsOf(d) # {}
    PROVE  Largest(d) \in Nat \ {0}
<1> DEFINE R == RoomsOf(d)
           Top(T, q) == \A r \in T : Capacity[r] <= Capacity[q]
           Good == {T \in SUBSET R : T # {} => \E q \in T : Top(T, q)}
<1>1. IsFiniteSet(R) /\ \A r \in R : Capacity[r] \in Nat \ {0}
  BY SchedulingAssumption, FS_Subset DEF RoomsOf
<1> HIDE DEF R
<1>2. ASSUME NEW T \in SUBSET R, \A r \in T : T \ {r} \in Good
      PROVE  T \in Good
  <2> SUFFICES ASSUME T # {} PROVE \E q \in T : Top(T, q)
    OBVIOUS
  <2>1. PICK r \in T : TRUE
    OBVIOUS
  <2>2. CASE T \ {r} = {}
    BY <1>1, <2>1, <2>2
  <2>3. CASE T \ {r} # {}
    <3>1. PICK q \in T \ {r} : Top(T \ {r}, q)
      BY <1>2, <2>1, <2>3
    <3>2. Capacity[q] \in Nat /\ Capacity[r] \in Nat
      BY <1>1, <2>1, <3>1
    <3>3. CASE Capacity[r] <= Capacity[q]
      BY <3>1, <3>3
    <3>4. CASE Capacity[q] <= Capacity[r]
      <4>1. \A z \in T : Capacity[z] \in Nat
        BY <1>1
      <4> QED  BY <2>1, <3>1, <3>2, <3>4, <4>1
    <3> QED  BY <3>2, <3>3, <3>4
  <2> QED  BY <2>2, <2>3
<1> HIDE DEF Good
<1>3. R \in Good
  BY <1>1, <1>2, Shrinking
<1>4. PICK q \in R : Top(R, q)
  BY <1>3 DEF Good, R
<1>5. Largest(d) \in {Capacity[r] : r \in R}
  BY <1>4 DEF Largest, R
<1> QED  BY <1>1, <1>5

LEMMA Ranks ==
    ASSUME NEW M, M \subseteq Nat, IsFiniteSet(M), NEW rank,
           rank = [n \in M |-> Cardinality({m \in M : m <= n})]
    PROVE  rank \in Bijection(M, 1..Cardinality(M))
<1> DEFINE Upto(n) == {m \in M : m <= n}
           N == Cardinality(M)
<1>1. \A n \in M : /\ IsFiniteSet(Upto(n)) /\ Cardinality(Upto(n)) \in 1..N
                   /\ rank[n] = Cardinality(Upto(n))
  <2> TAKE n \in M
  <2>1. Upto(n) \in SUBSET M /\ n \in Upto(n) /\ rank[n] = Cardinality(Upto(n))
    OBVIOUS
  <2> HIDE DEF Upto
  <2>2. /\ IsFiniteSet(Upto(n)) /\ Cardinality(Upto(n)) <= N /\ N \in Nat
        /\ Cardinality(Upto(n)) \in Nat
    BY <2>1, FS_Subset, FS_CardinalityType
  <2>3. Cardinality(Upto(n)) # 0
    BY <2>1, <2>2, FS_EmptySet
  <2> QED  BY <2>1, <2>2, <2>3
<1>2. ASSUME NEW m \in M, NEW n \in M, m < n
      PROVE  rank[m] # rank[n]
  <2>1. Upto(m) \in SUBSET Upto(n) /\ n \in Upto(n) /\ n \notin Upto(m)
    <3>1. m \in Nat /\ n \in Nat /\ \A x \in M : x \in Nat
      OBVIOUS
    <3>2. ASSUME NEW x \in Upto(m) PROVE x \in Upto(n)
      BY <3>1, <1>2, <3>2
    <3>3. n \in Upto(n) /\ n \notin Upto(m)
      BY <3>1, <1>2
    <3> QED  BY <3>2, <3>3
  <2> HIDE DEF Upto
  <2>2. Cardinality(Upto(n)) # Cardinality(Upto(m))
    BY <1>1, <2>1, FS_Subset
  <2> QED  BY <1>1, <2>2
<1> HIDE DEF Upto
<1>3. rank \in Injection(M, 1..N)
  <2>1. rank \in [M -> 1..N]
    BY <1>1
  <2>2. ASSUME NEW m \in M, NEW n \in M, rank[m] = rank[n]
        PROVE  m = n
    <3>1. m \in Nat /\ n \in Nat
      OBVIOUS
    <3> QED  BY <3>1, <1>2, <2>2
  <2> QED  BY <2>1, <2>2 DEF Injection, IsInjective
<1>4. N \in Nat /\ IsFiniteSet(1..N) /\ Cardinality(1..N) = N
  <2>1. N \in Nat
    BY FS_CardinalityType
  <2>2. IsFiniteSet(1..N) /\ Cardinality(1..N) = IF 1 > N THEN 0 ELSE N - 1 + 1
    BY <2>1, FS_Interval
  <2> QED  BY <2>1, <2>2
<1>5. rank \in Surjection(M, 1..N)
  BY <1>3, <1>4, FS_Injection
<1> QED  BY <1>3, <1>5 DEF Bijection

\* A part of the ranks has as many students.
LEMMA RankPart ==
    ASSUME NEW M, NEW N, NEW rank \in Bijection(M, 1..N), NEW J \in SUBSET (1..N), N \in Nat
    PROVE  Cardinality({n \in M : rank[n] \in J}) = Cardinality(J)
<1> DEFINE P == {n \in M : rank[n] \in J}
           f == [n \in P |-> rank[n]]
<1>1. rank \in [M -> 1..N] /\ (\A a, b \in M : rank[a] = rank[b] => a = b)
      /\ \A j \in 1..N : \E n \in M : rank[n] = j
  BY DEF Bijection, Injection, Surjection, IsInjective
<1>2. f \in Bijection(P, J)
  <2>1. f \in [P -> J] /\ \A a, b \in P : f[a] = f[b] => a = b
    BY <1>1
  <2>2. \A j \in J : \E n \in P : f[n] = j
    BY <1>1
  <2> QED  BY <2>1, <2>2 DEF Bijection, Injection, Surjection, IsInjective
<1>3. IsFiniteSet(J)
  <2>1. IsFiniteSet(1..N)
    BY FS_Interval
  <2> QED  BY <2>1, FS_Subset
<1>4. IsFiniteSet(P)
  BY <1>2, <1>3, FS_Injection DEF Bijection
<1> HIDE DEF f
<1>5. ExistsBijection(P, J)
  BY <1>2 DEF ExistsBijection
<1> HIDE DEF P
<1>6. Cardinality(J) = Cardinality(P)
  BY <1>4, <1>5, FS_Bijection
<1> QED  BY <1>6 DEF P

-----------------------------------------------------------------------------
(* The sections of an allocation.                                          *)

\* The students of a cohort are in sections of equal size or one more, and some in the first one.
Shared(d, mine, a) ==
    /\ \A n \in Mates(a) :
         /\ n \in mine /\ Placed(n) \in Section /\ Placed(n).dept = d
         /\ Placed(n).run = runs[d] + 1
         /\ Placed(n).semester = Cohort[a].semester
    /\ \E n \in Mates(a) : Placed(n).code = 1
    /\ \E k \in Nat : \A n \in Mates(a) :
         LET size == Cardinality({m \in mine : Placed(m) = Placed(n)})
         IN  size \in {k, k + 1} /\ size \in 1..Largest(d)

LEMMA CohortShares ==
    ASSUME NEW d \in Departments, RoomsOf(d) # {}, registered \subseteq Students,
           runs \in [Departments -> Nat],
           NEW mine, mine = {n \in registered : Cohort[n].dept = d},
           NEW a \in mine
    PROVE  Shared(d, mine, a)
<1> DEFINE M == Mates(a)
           N == Cardinality(M)
           rank == [n \in M |-> Cardinality({m \in M : m <= n})]
           J(n) == {j \in 1..N : CodeOf(d, j, N) = CodeOf(d, rank[n], N)}
<1>1. /\ M \subseteq Nat /\ IsFiniteSet(M) /\ a \in M /\ M \subseteq mine
      /\ \A n \in mine : n \in M <=> Cohort[n] = Cohort[a]
  <2>1. M \in SUBSET Students /\ M \in SUBSET mine /\ a \in M
    BY DEF Mates
  <2>2. Students \subseteq Nat /\ IsFiniteSet(Students)
    BY SchedulingAssumption
  <2>3. IsFiniteSet(M)
    BY <2>1, <2>2, FS_Subset
  <2> QED  BY <2>1, <2>2, <2>3 DEF Mates
<1>2. N \in Nat \ {0}
  BY <1>1, FS_CardinalityType, FS_EmptySet
<1>3. rank \in Bijection(M, 1..N)
  <2> HIDE DEF M
  <2> QED  BY <1>1, Ranks
<1>4. /\ rank \in [M -> 1..N]
      /\ \A j \in 1..N : \E n \in M : rank[n] = j
  BY <1>3 DEF Bijection, Surjection
<1>5. \A n \in M : Mates(n) = M /\ Rank(n) = rank[n]
  <2> TAKE n \in M
  <2>1. Mates(n) = M
    BY DEF Mates
  <2> HIDE DEF M
  <2> QED  BY <2>1 DEF Rank
<1>6. \A n \in mine : /\ Cohort[n].dept = d /\ Cohort[n].semester \in Nat
                      /\ Cohort[n] = [dept |-> d, semester |-> Cohort[n].semester]
  BY SchedulingAssumption
<1>7. /\ CodeOf(d, 1, N) = 1
      /\ \E k \in Nat : \A i \in 1..N :
           LET mates == {j \in 1..N : CodeOf(d, j, N) = CodeOf(d, i, N)}
           IN  /\ CodeOf(d, i, N) \in Nat
               /\ Cardinality(mates) \in {k, k + 1}
               /\ Cardinality(mates) \in 1..Largest(d)
  <2>1. Largest(d) \in Nat \ {0}
    BY LargestIs
  <2> HIDE DEF N
  <2> QED  BY <2>1, <1>2, Shares
<1> HIDE DEF M, N, rank
<1>8. \A n \in M : Placed(n) = [dept |-> d, run |-> runs[d] + 1, semester |-> Cohort[a].semester,
                                code |-> CodeOf(d, rank[n], N)]
  <2> TAKE n \in M
  <2>1. Cohort[n] = Cohort[a] /\ Cohort[n].dept = d
    BY <1>1, <1>6
  <2> QED  BY <2>1, <1>5 DEF Placed, N
<1>9. \A n \in M : CodeOf(d, rank[n], N) \in Nat
  BY <1>4, <1>7
<1>10. ASSUME NEW n \in M
       PROVE  {m \in mine : Placed(m) = Placed(n)} = {m \in M : rank[m] \in J(n)}
  <2>1. ASSUME NEW m \in mine, Placed(m) = Placed(n)
        PROVE  m \in M
    <3>1. Placed(m).semester = Cohort[m].semester /\ Placed(n).semester = Cohort[a].semester
      BY <1>8 DEF Placed
    <3>2. Cohort[m].semester = Cohort[a].semester
      BY <2>1, <3>1
    <3> QED  BY <1>1, <1>6, <3>2
  <2>2. ASSUME NEW m \in M
        PROVE  Placed(m) = Placed(n) <=> CodeOf(d, rank[m], N) = CodeOf(d, rank[n], N)
    <3>1. Placed(m).code = CodeOf(d, rank[m], N) /\ Placed(n).code = CodeOf(d, rank[n], N)
      BY <1>8
    <3> QED  BY <1>8, <3>1
  <2>3. \A m \in M : rank[m] \in 1..N /\ m \in mine
    BY <1>1, <1>4
  <2> QED  BY <2>1, <2>2, <2>3
<1>11. \A n \in M : Cardinality({m \in mine : Placed(m) = Placed(n)}) = Cardinality(J(n))
  <2> TAKE n \in M
  <2>1. J(n) \in SUBSET (1..N) /\ N \in Nat
    BY <1>2
  <2> HIDE DEF J
  <2>2. Cardinality({m \in M : rank[m] \in J(n)}) = Cardinality(J(n))
    BY <1>3, <2>1, RankPart
  <2> QED  BY <1>10, <2>2
<1>12. \A n \in M : /\ n \in mine /\ Placed(n) \in Section /\ Placed(n).dept = d
                    /\ Placed(n).run = runs[d] + 1 /\ Placed(n).semester = Cohort[a].semester
  <2> TAKE n \in M
  <2>0. runs[d] \in Nat /\ Cohort[a].semester \in Nat
    BY <1>6
  <2>1. runs[d] + 1 \in Nat /\ Cohort[a].semester \in Nat
    BY <2>0
  <2> QED  BY <1>1, <1>8, <1>9, <2>1 DEF Section
<1>13. \E n \in M : Placed(n).code = 1
  <2>1. PICK n \in M : rank[n] = 1
    BY <1>2, <1>4
  <2> QED  BY <2>1, <1>7, <1>8
<1>14. \E k \in Nat : \A n \in M :
         LET size == Cardinality({m \in mine : Placed(m) = Placed(n)})
         IN  size \in {k, k + 1} /\ size \in 1..Largest(d)
  <2>1. PICK k \in Nat : \A i \in 1..N :
               LET mates == {j \in 1..N : CodeOf(d, j, N) = CodeOf(d, i, N)}
               IN  /\ CodeOf(d, i, N) \in Nat
                   /\ Cardinality(mates) \in {k, k + 1}
                   /\ Cardinality(mates) \in 1..Largest(d)
    BY <1>7, Zenon
  <2>2. \A n \in M : Cardinality(J(n)) \in {k, k + 1} /\ Cardinality(J(n)) \in 1..Largest(d)
    BY <1>4, <2>1
  <2> HIDE DEF J
  <2> QED  BY <1>11, <2>2
<1> QED  BY <1>12, <1>13, <1>14 DEF M, Shared

\* The pinned are registered and in a section of their own cohort.
PinsRight ==
    /\ registered \subseteq Students
    /\ \A n \in Students : pin[n] # NoSection =>
         /\ n \in registered /\ pin[n] \in DOMAIN enrolled
         /\ pin[n].dept = Cohort[n].dept /\ pin[n].semester = Cohort[n].semester

\* Every cohort that has sections has a first one.
SectionsShared ==
    /\ DOMAIN enrolled \subseteq Section
    /\ \A s \in DOMAIN enrolled :
         /\ enrolled[s] = Cardinality({n \in Students : pin[n] = s})
         /\ enrolled[s] \in 1..Largest(s.dept)
         /\ \E t \in DOMAIN enrolled : t.dept = s.dept /\ t.semester = s.semester /\ t.code = 1
    /\ \A s, t \in DOMAIN enrolled :
         s.dept = t.dept /\ s.semester = t.semester => enrolled[s] - enrolled[t] \in -1..1

\* What an allocation has loaded are all sections of its department, or all are gone.
AllocatingKnown ==
    \A p \in Slots : request[p].op = "allocate" =>
        /\ RoomsOf(request[p].dept) # {}
        /\ \A s \in request[p].old : Made(s, request[p].dept)
        /\ \/ request[p].old = SectionsOf(request[p].dept)
           \/ request[p].old \cap DOMAIN enrolled = {}

CInv == PinsRight /\ SectionsShared /\ AllocatingKnown

LEMMA InitCohorts == Init => CInv
<1> SUFFICES ASSUME Init PROVE CInv
  OBVIOUS
<1>1. /\ \A p \in Slots : request[p].op = "none"
      /\ enrolled = << >> /\ registered \subseteq Students /\ \A n \in Students : pin[n] = NoSection
  BY DEF Init, Rest
<1>2. DOMAIN enrolled = {}
  BY <1>1
<1> QED  BY <1>1, <1>2 DEF CInv, PinsRight, SectionsShared, AllocatingKnown

\* Nothing but an allocation moves students.
LEMMA CohortsSame ==
    ASSUME IInv, CInv, UNCHANGED <<pin, enrolled>>,
           registered \subseteq registered', registered' \subseteq Students,
           \A s : \A e \in Departments : Made(s, e) => Made(s, e)',
           \A q \in Slots : request'[q].op = "allocate" =>
              /\ request[q].op = "allocate"
              /\ request'[q].old = request[q].old /\ request'[q].dept = request[q].dept
    PROVE  CInv'
<1>1. PinsRight' /\ SectionsShared'
  BY DEF CInv, PinsRight, SectionsShared
<1>2. AllocatingKnown'
  <2> SUFFICES ASSUME NEW q \in Slots, request'[q].op = "allocate"
               PROVE  (/\ RoomsOf(request[q].dept) # {}
                       /\ \A s \in request[q].old : Made(s, request[q].dept)
                       /\ \/ request[q].old = SectionsOf(request[q].dept)
                          \/ request[q].old \cap DOMAIN enrolled = {})'
    BY DEF AllocatingKnown
  <2>1. /\ request[q].op = "allocate" /\ request[q].dept \in Departments
        /\ request'[q].old = request[q].old /\ request'[q].dept = request[q].dept
    BY DEF IInv, RequestsTyped
  <2>2. /\ RoomsOf(request[q].dept) # {}
        /\ \A s \in request[q].old : Made(s, request[q].dept)
        /\ \/ request[q].old = SectionsOf(request[q].dept)
           \/ request[q].old \cap DOMAIN enrolled = {}
    BY <2>1 DEF CInv, AllocatingKnown
  <2>3. \A s \in request[q].old : Made(s, request[q].dept)
          => /\ s.dept = request'[q].dept /\ s.run \in Nat
             /\ s.run <= runs'[request'[q].dept]
    <3> TAKE s \in request[q].old
    <3>1. \A e \in Departments : Made(s, e) => s.dept = e /\ s.run \in Nat /\ s.run <= runs'[e]
      BY DEF Made
    <3> QED  BY <3>1, <2>1
  <2>4. (RoomsOf(request[q].dept) # {})'
    BY <2>1, <2>2 DEF RoomsOf
  <2>5. (\/ request[q].old = SectionsOf(request[q].dept)
         \/ request[q].old \cap DOMAIN enrolled = {})'
    BY <2>1, <2>2 DEF SectionsOf
  <2>6. (\A s \in request[q].old : Made(s, request[q].dept))'
    BY <2>1, <2>2, <2>3 DEF Made
  <2> QED  BY <2>4, <2>5, <2>6
<1> QED  BY <1>1, <1>2 DEF CInv

LEMMA AllocateLoadCohorts ==
    ASSUME IInv, FInv, CInv, NEW p \in Slots, NEW d \in Departments, AllocateLoad(p, d)
    PROVE  CInv'
<1> DEFINE r == [Rest EXCEPT !.op = "allocate", !.at = "loaded", !.dept = d,
                             !.old = SectionsOf(d)]
<1>1. /\ request' = [request EXCEPT ![p] = r] /\ UNCHANGED rows /\ RoomsOf(d) # {}
      /\ r.dept = d /\ r.old = SectionsOf(d)
  BY DEF AllocateLoad, Begin, Rest
<1> HIDE DEF r
<1>2. /\ request'[p] = r /\ \A q \in Slots \ {p} : request'[q] = request[q]
  BY <1>1 DEF IInv, RequestsTyped
<1>3. \A s \in SectionsOf(d) : Made(s, d)
  BY DEF FInv, SectionsKnown, SectionsOf, Made
<1>4. PinsRight' /\ SectionsShared'
  BY <1>1 DEF CInv, PinsRight, SectionsShared, rows
<1>5. AllocatingKnown'
  BY <1>1, <1>2, <1>3 DEF CInv, AllocatingKnown, rows, Made, SectionsOf
<1> QED  BY <1>4, <1>5 DEF CInv

LEMMA AllocateCommitCohorts ==
    ASSUME IInv, FInv, CInv, NEW p \in Slots, AllocateCommit(p)
    PROVE  CInv'
<1> DEFINE d     == request[p].dept
           old   == request[p].old
           mine  == {n \in registered : Cohort[n].dept = d}
           fresh == {Placed(n) : n \in mine}
           stay  == DOMAIN enrolled \ old
<1>1. /\ Finish(p) /\ NextRun(d) /\ request[p].op = "allocate" /\ registered' = registered
      /\ \A s \in fresh, t \in stay : s.dept # t.dept \/ s.semester # t.semester \/ s.code # t.code
      /\ enrolled' = [s \in stay \cup fresh |->
                        IF s \in stay THEN enrolled[s]
                        ELSE Cardinality({n \in mine : Placed(n) = s})]
      /\ pin' = [n \in Students |-> IF n \in mine THEN Placed(n)
                                    ELSE IF pin[n] \in old THEN NoSection ELSE pin[n]]
  BY DEF AllocateCommit, Serving
<1>2. d \in Departments /\ runs \in [Departments -> Nat] /\ registered \subseteq Students
  BY <1>1 DEF IInv, RequestsTyped, RowsTyped, CInv, PinsRight
<1>3. /\ RoomsOf(d) # {} /\ \A s \in old : Made(s, d)
      /\ old = SectionsOf(d) \/ old \cap DOMAIN enrolled = {}
  BY <1>1 DEF CInv, AllocatingKnown
<1>4. ASSUME NEW a \in mine
      PROVE  /\ \A n \in Mates(a) :
                  /\ n \in mine /\ Placed(n) \in Section /\ Placed(n).dept = d
                  /\ Placed(n).run = runs[d] + 1
                  /\ Placed(n).semester = Cohort[a].semester
             /\ \E n \in Mates(a) : Placed(n).code = 1
             /\ \E k \in Nat : \A n \in Mates(a) :
                  LET size == Cardinality({m \in mine : Placed(m) = Placed(n)})
                  IN  size \in {k, k + 1} /\ size \in 1..Largest(d)
  <2>1. Shared(d, mine, a)
    <3> DEFINE e == d
               own == mine
    <3>1. own = {n \in registered : Cohort[n].dept = e}
      OBVIOUS
    <3>2. e \in Departments /\ RoomsOf(e) # {} /\ a \in own
      BY <1>2, <1>3
    <3>3. runs \in [Departments -> Nat] /\ registered \subseteq Students
      BY <1>2
    <3> HIDE DEF e, own
    <3>4. Shared(e, own, a)
      BY <3>1, <3>2, <3>3, CohortShares
    <3> QED  BY <3>4 DEF e, own
  <2> HIDE DEF mine, d
  <2> QED  BY <2>1 DEF Shared
<1>5. \A a \in mine : a \in Mates(a) /\ a \in Students /\ Cohort[a].dept = d
  BY <1>2 DEF Mates
<1>6. \A a \in mine : /\ Placed(a) \in Section /\ Placed(a).dept = d /\ Placed(a).run = runs[d] + 1
                      /\ Placed(a).semester = Cohort[a].semester
  BY <1>4, <1>5
<1>7. \A s \in Section : s # NoSection
  BY SchedulingAssumption DEF Section
<1>8. /\ DOMAIN enrolled \subseteq Section
      /\ \A n \in Students : pin[n] # NoSection =>
           /\ n \in registered /\ pin[n] \in DOMAIN enrolled
           /\ pin[n].dept = Cohort[n].dept /\ pin[n].semester = Cohort[n].semester
  BY DEF CInv, PinsRight, SectionsShared
<1>9. ASSUME NEW s \in stay, s.dept = d PROVE FALSE
  <2>1. old \cap DOMAIN enrolled = {}
    BY <1>3, <1>9 DEF SectionsOf
  <2>2. PICK t \in DOMAIN enrolled : t.dept = d /\ t.semester = s.semester /\ t.code = 1
    <3>1. \A x \in DOMAIN enrolled : \E t \in DOMAIN enrolled :
             t.dept = x.dept /\ t.semester = x.semester /\ t.code = 1
      BY DEF CInv, SectionsShared
    <3>2. s \in DOMAIN enrolled
      OBVIOUS
    <3> HIDE DEF stay, d
    <3> QED  BY <1>9, <3>1, <3>2
  <2>3. PICK n \in Students : pin[n] = t
    <3> DEFINE S == {n \in Students : pin[n] = t}
    <3>1. Cardinality(S) \in 1..Largest(t.dept)
      BY DEF CInv, SectionsShared
    <3> HIDE DEF S
    <3>2. Cardinality(S) # 0
      BY <3>1
    <3>3. S # {}
      BY <3>2, FS_EmptySet
    <3> QED  BY <3>3 DEF S
  <2>4. n \in mine /\ Cohort[n].semester = t.semester
    BY <1>7, <1>8, <2>2, <2>3
  <2>5. PICK m \in Mates(n) : Placed(m).code = 1
    BY <1>4, <2>4
  <2>6. m \in mine /\ Placed(m).dept = d /\ Placed(m).semester = t.semester
    BY <1>4, <2>4
  <2>7. t \in stay /\ Placed(m) \in fresh
    BY <2>1, <2>6
  <2> HIDE DEF stay, fresh
  <2> QED  BY <1>1, <2>2, <2>5, <2>6, <2>7
<1> HIDE DEF mine
<1>10. \A s \in fresh : s \in Section /\ s.dept = d /\ s.run = runs[d] + 1 /\ s \notin stay
  BY <1>6, <1>9
<1>11. /\ DOMAIN enrolled' = stay \cup fresh
       /\ \A s \in stay : enrolled'[s] = enrolled[s]
       /\ \A s \in fresh : enrolled'[s] = Cardinality({n \in mine : Placed(n) = s})
  <2> HIDE DEF stay, fresh
  <2> QED  BY <1>1, <1>10
<1>12. \A n \in Students \ mine : pin'[n] = pin[n] /\ (pin[n] # NoSection => pin[n].dept # d)
  <2> TAKE n \in Students \ mine
  <2>1. pin[n] # NoSection => pin[n].dept # d
    BY <1>8 DEF mine
  <2>2. pin[n] \in old => pin[n].dept = d
    BY <1>3 DEF Made
  <2>3. pin'[n] = IF pin[n] \in old THEN NoSection ELSE pin[n]
    BY <1>1
  <2> QED  BY <2>1, <2>2, <2>3
<1>13. \A n \in mine : pin'[n] = Placed(n) /\ n \in Students /\ n \in registered
  BY <1>1, <1>2 DEF mine
<1>14. PinsRight'
  <2> SUFFICES ASSUME NEW n \in Students, pin'[n] # NoSection
               PROVE  /\ n \in registered /\ pin'[n] \in stay \cup fresh
                      /\ pin'[n].dept = Cohort[n].dept /\ pin'[n].semester = Cohort[n].semester
    BY <1>1, <1>2, <1>11 DEF PinsRight
  <2>1. CASE n \in mine
    BY <2>1, <1>5, <1>6, <1>13
  <2>2. CASE n \notin mine
    <3>1. pin'[n] = pin[n] /\ pin[n].dept # d
      BY <2>2, <1>12
    <3>2. pin[n] \notin old
      BY <3>1, <1>3 DEF Made
    <3> QED  BY <3>1, <3>2, <1>8
  <2> QED  BY <2>1, <2>2
<1>15. \A s \in stay : {n \in Students : pin'[n] = s} = {n \in Students : pin[n] = s}
  <2> TAKE s \in stay
  <2>1. s # NoSection /\ s.dept # d
    BY <1>7, <1>8, <1>9
  <2>2. \A n \in Students : pin'[n] = s <=> pin[n] = s
    <3> TAKE n \in Students
    <3>1. CASE n \in mine
      BY <3>1, <2>1, <1>5, <1>6, <1>8, <1>13
    <3>2. CASE n \notin mine
      BY <3>2, <1>12
    <3> QED  BY <3>1, <3>2
  <2> QED  BY <2>2
<1>16. \A s \in fresh : {n \in Students : pin'[n] = s} = {n \in mine : Placed(n) = s}
  <2> TAKE s \in fresh
  <2>1. s # NoSection /\ s.dept = d
    BY <1>7, <1>10
  <2>2. \A n \in Students : pin'[n] = s => n \in mine
    BY <2>1, <1>12
  <2> QED  BY <2>2, <1>13
<1>17. ASSUME NEW s \in fresh
       PROVE  /\ enrolled'[s] \in 1..Largest(d)
              /\ \E t \in fresh : t.semester = s.semester /\ t.code = 1
  <2>1. PICK a \in mine : s = Placed(a)
    OBVIOUS
  <2>2. Cardinality({m \in mine : Placed(m) = Placed(a)}) \in 1..Largest(d)
    BY <1>4, <1>5
  <2>3. PICK n \in Mates(a) : Placed(n).code = 1
    BY <1>4
  <2>4. Placed(n) \in fresh /\ Placed(n).semester = s.semester
    BY <1>4, <1>6, <2>1
  <2> HIDE DEF fresh
  <2> QED  BY <1>11, <2>1, <2>2, <2>3, <2>4
<1>18. ASSUME NEW s \in fresh, NEW t \in fresh, s.semester = t.semester
       PROVE  enrolled'[s] - enrolled'[t] \in -1..1
  <2>1. PICK a \in mine : s = Placed(a)
    OBVIOUS
  <2>2. PICK b \in mine : t = Placed(b)
    OBVIOUS
  <2>3. b \in Mates(a)
    <3>1. Cohort[a] = Cohort[b]
      <4>1. /\ Cohort[a] \in [dept : Departments, semester : Nat]
            /\ Cohort[b] \in [dept : Departments, semester : Nat]
        BY <1>5, SchedulingAssumption
      <4>2. Cohort[a].semester = Cohort[b].semester /\ Cohort[a].dept = Cohort[b].dept
        BY <1>5, <1>6, <1>18, <2>1, <2>2
      <4> QED  BY <4>1, <4>2
    <3> QED  BY <3>1, <1>13 DEF Mates
  <2>4. PICK k \in Nat : \A n \in Mates(a) : 
                 LET size == Cardinality({m \in mine : Placed(m) = Placed(n)})
                 IN  size \in {k, k + 1} /\ size \in 1..Largest(d)
    BY <1>4, Zenon
  <2>5. enrolled'[s] \in {k, k + 1} /\ enrolled'[t] \in {k, k + 1}
    <3> HIDE DEF fresh
    <3> QED  BY <1>5, <1>11, <2>1, <2>2, <2>3, <2>4
  <2> QED  BY <2>5
<1> HIDE DEF fresh, stay
<1>19. SectionsShared'
  <2>1. DOMAIN enrolled' \subseteq Section
    BY <1>8, <1>10, <1>11 DEF stay
  <2>2. ASSUME NEW s \in stay \cup fresh
        PROVE  /\ enrolled'[s] = Cardinality({n \in Students : pin'[n] = s})
               /\ enrolled'[s] \in 1..Largest(s.dept)
               /\ \E t \in stay \cup fresh : t.dept = s.dept /\ t.semester = s.semester /\ t.code = 1
    <3>1. CASE s \in fresh
      <4>1. s.dept = d /\ \A t \in fresh : t.dept = d
        BY <3>1, <1>10
      <4>2. enrolled'[s] = Cardinality({n \in Students : pin'[n] = s})
        BY <3>1, <1>11, <1>16
      <4> QED  BY <3>1, <4>1, <4>2, <1>17
    <3>2. CASE s \in stay
      <4>1. s \in DOMAIN enrolled
        BY <3>2 DEF stay
      <4>2. /\ enrolled[s] = Cardinality({n \in Students : pin[n] = s})
            /\ enrolled[s] \in 1..Largest(s.dept)
        BY <4>1 DEF CInv, SectionsShared
      <4>3. PICK t \in DOMAIN enrolled : t.dept = s.dept /\ t.semester = s.semester /\ t.code = 1
        BY <4>1 DEF CInv, SectionsShared
      <4>4. t \in stay
        BY <3>2, <4>3, <1>3, <1>9 DEF stay, Made
      <4> QED  BY <3>2, <4>2, <4>3, <4>4, <1>11, <1>15
    <3> QED  BY <3>1, <3>2
  <2>3. ASSUME NEW s \in stay \cup fresh, NEW t \in stay \cup fresh,
               s.dept = t.dept, s.semester = t.semester
        PROVE  enrolled'[s] - enrolled'[t] \in -1..1
    <3>1. CASE s \in fresh
      <4>1. t \in fresh
        BY <2>3, <3>1, <1>9, <1>10
      <4> QED  BY <2>3, <3>1, <4>1, <1>18
    <3>2. CASE s \in stay
      <4>1. t \in stay
        BY <2>3, <3>2, <1>9, <1>10
      <4>2. s \in DOMAIN enrolled /\ t \in DOMAIN enrolled
        BY <3>2, <4>1 DEF stay
      <4> QED  BY <2>3, <3>2, <4>1, <4>2, <1>11 DEF CInv, SectionsShared
    <3> QED  BY <3>1, <3>2
  <2> QED  BY <1>11, <2>1, <2>2, <2>3 DEF SectionsShared
<1>20. AllocatingKnown'
  <2> SUFFICES ASSUME NEW q \in Slots, request'[q].op = "allocate"
               PROVE  (/\ RoomsOf(request[q].dept) # {}
                       /\ \A s \in request[q].old : Made(s, request[q].dept)
                       /\ \/ request[q].old = SectionsOf(request[q].dept)
                          \/ request[q].old \cap DOMAIN enrolled = {})'
    BY DEF AllocatingKnown
  <2>1. q # p /\ request'[q] = request[q]
    BY <1>1 DEF Finish, IInv, RequestsTyped, Rest
  <2> DEFINE e == request[q].dept
             theirs == request[q].old
  <2>2. /\ e \in Departments /\ RoomsOf(e) # {} /\ \A s \in theirs : Made(s, e)
        /\ theirs = SectionsOf(e) \/ theirs \cap DOMAIN enrolled = {}
    BY <2>1 DEF CInv, AllocatingKnown, IInv, RequestsTyped
  <2>3. /\ runs'[d] = runs[d] + 1 /\ \A x \in Departments : runs[x] <= runs'[x] /\ runs[x] \in Nat
        /\ runs' \in [Departments -> Nat]
    BY <1>1, <1>2 DEF NextRun
  <2>4. (\A s \in theirs : s.dept = e /\ s.run \in Nat /\ s.run <= runs[e] /\ s.run <= runs'[e])
    BY <2>2, <2>3 DEF Made
  <2>5. \/ theirs = {s \in DOMAIN enrolled' : s.dept = e}
        \/ theirs \cap DOMAIN enrolled' = {}
    <3>1. CASE e = d
      <4>1. \A s \in theirs : s \notin stay /\ s \notin fresh
        BY <2>3, <2>4, <3>1, <1>2, <1>9, <1>10
      <4> QED  BY <4>1, <1>11
    <3>2. CASE e # d
      <4>1. \A s : s.dept = e => s \notin fresh /\ s \notin old
        BY <3>2, <1>3, <1>10 DEF Made
      <4>2. \A s : s.dept = e => (s \in DOMAIN enrolled' <=> s \in DOMAIN enrolled)
        BY <4>1, <1>11 DEF stay
      <4> QED  BY <2>2, <2>4, <4>2 DEF SectionsOf
    <3> QED  BY <3>1, <3>2
  <2>6. request'[q].dept = e /\ request'[q].old = theirs
    BY <2>1
  <2> HIDE DEF e, theirs
  <2> QED  BY <2>2, <2>4, <2>5, <2>6 DEF RoomsOf, Made, SectionsOf
<1> QED  BY <1>14, <1>19, <1>20 DEF CInv

LEMMA NextCohorts == IInv /\ FInv /\ CInv /\ [Next]_vars => CInv'
<1> SUFFICES ASSUME IInv, FInv, CInv, [Next]_vars
             PROVE  CInv'
  OBVIOUS
<1> DEFINE Later == \A s : \A e \in Departments : Made(s, e) => Made(s, e)'
           Waits(q) == /\ request[q].op = "allocate"
                       /\ request'[q].old = request[q].old /\ request'[q].dept = request[q].dept
<1>1. registered \subseteq Students
  BY DEF CInv, PinsRight
<1>2. runs' = runs => Later
  BY DEF Made
<1>3. ASSUME NEW n \in Students, StudentRegisters(n)
      PROVE  CInv'
  BY <1>1, <1>2, <1>3, CohortsSame DEF StudentRegisters
<1>4. ASSUME NEW s \in DOMAIN enrolled, ReferenceSection(s)
      PROVE  CInv'
  BY <1>1, <1>2, <1>4, CohortsSame DEF ReferenceSection
<1>5. ASSUME NEW k \in DOMAIN assignments, Unassign(k)
      PROVE  CInv'
  BY <1>1, <1>2, <1>5, CohortsSame DEF Unassign
<1>6. ASSUME NEW p \in Slots, NEW r, request' = [request EXCEPT ![p] = r], r.op # "allocate"
      PROVE  \A q \in Slots : request'[q].op = "allocate" => Waits(q)
  BY <1>6 DEF IInv, RequestsTyped
<1>7. ASSUME NEW p \in Slots, NEW d \in Departments, GenerateLoad(p, d)
      PROVE  CInv'
  <2> DEFINE r == [Rest EXCEPT !.op = "generate", !.at = "loaded", !.dept = d, !.old = SectionsOf(d),
                               !.runs = {x.run : x \in {y \in classes : y.section.dept = d}}]
  <2>1. request' = [request EXCEPT ![p] = r] /\ UNCHANGED rows /\ r.op # "allocate"
    BY <1>7 DEF GenerateLoad, Rest
  <2> HIDE DEF r
  <2> QED  BY <2>1, <1>1, <1>2, <1>6, CohortsSame DEF rows
<1>8. ASSUME NEW p \in Slots, NEW m \in classes, NEW i \in Instructors, ReassignLoad(p, m, i)
      PROVE  CInv'
  <2> DEFINE r == [Rest EXCEPT !.op = "reassign", !.at = "loaded", !.target = m,
                               !.instructor = i]
  <2>1. request' = [request EXCEPT ![p] = r] /\ UNCHANGED rows /\ r.op # "allocate"
    BY <1>8 DEF ReassignLoad, Begin, Rest
  <2> HIDE DEF r
  <2> QED  BY <2>1, <1>1, <1>2, <1>6, CohortsSame DEF rows
<1>9. ASSUME NEW p \in Slots, NEW c \in Courses, NEW i \in Instructors, AssignLoad(p, c, i)
      PROVE  CInv'
  <2> DEFINE r == [Rest EXCEPT !.op = "assign", !.at = "loaded", !.course = c,
                               !.instructor = i, !.row = Latest(c)]
  <2>1. request' = [request EXCEPT ![p] = r] /\ UNCHANGED rows /\ r.op # "allocate"
    BY <1>9 DEF AssignLoad, Begin, Rest
  <2> HIDE DEF r
  <2> QED  BY <2>1, <1>1, <1>2, <1>6, CohortsSame DEF rows
<1>w. ASSUME NEW p \in Slots, GenerateWipe(p)
      PROVE  CInv'
  <2>1. /\ UNCHANGED rows /\ request[p].op = "generate" /\ request'[p].op = request[p].op
        /\ \A q \in Slots \ {p} : request'[q] = request[q]
    BY <1>w, Wiped
  <2>2. \A q \in Slots : request'[q].op = "allocate" => Waits(q)
    BY <2>1
  <2> QED  BY <2>1, <2>2, <1>1, <1>2, CohortsSame DEF rows
<1>10. ASSUME NEW p \in Slots, GenerateRead(p) \/ Place(p) \/ EndAttempt(p)
       PROVE  CInv'
  <2>1. /\ UNCHANGED rows
        /\ \/ request' = request
           \/ \E at : request' = [request EXCEPT ![p].at = at]
    BY <1>10 DEF GenerateRead, Place, EndAttempt
  <2>2. \A q \in Slots : request'[q].op = "allocate" => Waits(q)
    BY <2>1 DEF IInv, RequestsTyped, RequestFields
  <2> QED  BY <2>1, <2>2, <1>1, <1>2, CohortsSame DEF rows
<1>11. ASSUME NEW p \in Slots,
              RequestFails(p) \/ GenerateCommit(p) \/ ReassignCommit(p) \/ AssignCommit(p)
       PROVE  CInv'
  <2>1. Finish(p) /\ UNCHANGED <<registered, pin, enrolled>>
    BY <1>11 DEF RequestFails, GenerateCommit, ReassignCommit, AssignCommit, rows
  <2>2. \A q \in Slots : request'[q].op = "allocate" => Waits(q)
    <3>1. Rest.op # "allocate"
      BY DEF Rest
    <3> QED  BY <2>1, <3>1, <1>6 DEF Finish
  <2>3. Later
    <3>1. CASE GenerateCommit(p)
      <4>1. NextRun(request[p].dept) /\ request[p].dept \in Departments
        BY <3>1 DEF GenerateCommit, Serving, IInv, RequestsTyped
      <4> QED  BY <4>1, LaterRuns
    <3>2. CASE ~GenerateCommit(p)
      BY <1>2, <1>11, <3>2 DEF RequestFails, ReassignCommit, AssignCommit, rows
    <3> QED  BY <3>1, <3>2
  <2> QED  BY <2>1, <2>2, <2>3, <1>1, CohortsSame
<1>12. CASE UNCHANGED vars
  BY <1>1, <1>2, <1>12, CohortsSame DEF vars, rows
<1> QED
  BY <1>3, <1>4, <1>5, <1>7, <1>8, <1>9, <1>w, <1>10, <1>11, <1>12, AllocateLoadCohorts,
     AllocateCommitCohorts DEF Next, Others

THEOREM Cohorts == Spec => []CInv
<1>1. IInv /\ FInv /\ CInv /\ [Next]_vars => CInv'
  BY NextCohorts
<1> QED  BY <1>1, InitCohorts, Invariant, Exhaustive, PTL DEF Spec

-----------------------------------------------------------------------------
(* What the pages count: finitely many classes, of instructors or of nobody. *)

Someone == Instructors \cup {NoOne}

ClassesCounted == IsFiniteSet(classes) /\ \A x \in classes : x.instructor \in Someone

\* The instructors of a search, and its finitely many placements of courses.
DraftCounted(f) ==
    /\ \A c \in Courses : f.who[c] \in Someone
    /\ IsFiniteSet(f.placed) /\ IsFiniteSet(f.kept)
    /\ \A s \in f.todo \cup f.left : s.course \in Courses
    /\ \A x \in f.placed \cup f.kept : x.session.course \in Courses
DraftsCounted == \A p \in Slots : DraftCounted(draft[p])

RequestCounted(r) ==
    /\ r.op \in {"assign", "reassign"} => r.instructor \in Instructors
    /\ r.op = "assign" => r.course \in Courses
RequestsCounted == \A p \in Slots : RequestCounted(request[p])

PInv == ClassesCounted /\ AssignmentsTyped /\ DraftsCounted /\ RequestsCounted

LEMMA InitCounted == Init => PInv
<1> SUFFICES ASSUME Init PROVE PInv
  OBVIOUS
<1>1. /\ classes = {} /\ assignments = << >>
      /\ \A p \in Slots : request[p] = Rest /\ draft[p] = NoDraft
  BY DEF Init
<1>2. RequestCounted(Rest) /\ DraftCounted(NoDraft)
  BY FS_EmptySet DEF RequestCounted, Rest, DraftCounted, NoDraft, Someone
<1>3. ClassesCounted
  BY <1>1, FS_EmptySet DEF ClassesCounted
<1> QED  BY <1>1, <1>2, <1>3 DEF PInv, AssignmentsTyped, DraftsCounted, RequestsCounted

\* One slot moves.
LEMMA SlotCounted ==
    ASSUME IInv, PInv, NEW p \in Slots, NEW r, NEW f, RequestCounted(r), DraftCounted(f),
           request' = [request EXCEPT ![p] = r],
           draft' = [draft EXCEPT ![p] = f] \/ draft' = draft
    PROVE  DraftsCounted' /\ RequestsCounted'
<1>1. \A q \in Slots : /\ request'[q] = r \/ request'[q] = request[q]
                       /\ draft'[q] = f \/ draft'[q] = draft[q]
  BY DEF IInv, RequestsTyped, DraftsTyped
<1>2. \A q \in Slots : RequestCounted(request[q]) /\ DraftCounted(draft[q])
  BY DEF PInv, DraftsCounted, RequestsCounted
<1>3. \A q \in Slots : RequestCounted(request'[q]) /\ DraftCounted(draft'[q])
  BY <1>1, <1>2
<1> QED  BY <1>3 DEF DraftsCounted, RequestsCounted, DraftCounted, RequestCounted

LEMMA FinishCounted ==
    ASSUME IInv, PInv, NEW p \in Slots, Finish(p)
    PROVE  DraftsCounted' /\ RequestsCounted'
<1>1. RequestCounted(Rest) /\ DraftCounted(NoDraft)
  BY FS_EmptySet DEF RequestCounted, Rest, DraftCounted, NoDraft, Someone
<1> QED  BY <1>1, SlotCounted DEF Finish

LEMMA FewerClasses ==
    ASSUME PInv, classes' \subseteq classes
    PROVE  ClassesCounted'
  BY FS_Subset DEF PInv, ClassesCounted

LEMMA GenerateLoadCounted ==
    ASSUME IInv, PInv, NEW p \in Slots, NEW d \in Departments, GenerateLoad(p, d)
    PROVE  PInv'
<1> DEFINE r == [Rest EXCEPT !.op = "generate", !.at = "loaded", !.dept = d, !.old = SectionsOf(d),
                             !.runs = {x.run : x \in {y \in classes : y.section.dept = d}}]
           todo == UNION {UNION {SessionsOf(s, c) : c \in Curriculum(s)} :
                            s \in {t \in SectionsOf(d) : ~Oversized(t, enrolled[t])}}
           f == [draft[p] EXCEPT !.todo = todo]
<1>1. /\ request' = [request EXCEPT ![p] = r] /\ draft' = [draft EXCEPT ![p] = f] /\ UNCHANGED rows
      /\ request[p].at = "idle"
  BY DEF GenerateLoad
<1>2. RequestCounted(r)
  BY DEF RequestCounted, Rest
<1>3. \A s \in todo : s.course \in Courses
  BY DEF SessionsOf, Curriculum
<1> HIDE DEF todo
<1>4. DraftCounted(draft[p]) /\ DOMAIN draft[p] = DraftFields
  BY DEF PInv, DraftsCounted, IInv, DraftsTyped, DraftOf
<1>5. /\ f.who = draft[p].who /\ f.placed = draft[p].placed /\ f.kept = draft[p].kept
      /\ f.left = draft[p].left /\ f.todo = todo
  BY <1>4 DEF DraftFields
<1> HIDE DEF f, r
<1>6. DraftCounted(f)
  BY <1>3, <1>4, <1>5 DEF DraftCounted
<1>7. ClassesCounted' /\ AssignmentsTyped'
  BY <1>1, FewerClasses DEF rows, PInv, AssignmentsTyped
<1> QED  BY <1>1, <1>2, <1>6, <1>7, SlotCounted DEF PInv

LEMMA PickedCounted ==
    ASSUME PInv, NEW c \in Courses
    PROVE  Picked(c) \in Someone
<1>1. CASE Live(c) = {}
  BY <1>1 DEF Picked, Someone
<1>2. CASE Live(c) # {}
  <2>1. assignments \in Seq(Assignment)
    BY DEF PInv, AssignmentsTyped
  <2>2. Live(c) \subseteq Nat /\ Live(c) \subseteq DOMAIN assignments
    BY <2>1 DEF Live
  <2>3. \E k \in Live(c) : \A l \in Live(c) : k <= l
    BY <1>2, <2>2, Minimum
  <2>4. (CHOOSE k \in Live(c) : \A l \in Live(c) : k <= l) \in Live(c)
    BY <2>3
  <2>5. \A k \in Live(c) : assignments[k].instructor \in Someone
    <3>1. \A k \in DOMAIN assignments : assignments[k] \in Assignment
      BY <2>1
    <3> QED  BY <2>2, <3>1 DEF Assignment, Someone
  <2> QED  BY <1>2, <2>4, <2>5 DEF Picked
<1> QED  BY <1>1, <1>2

\* A search goes on.
LEMMA SearchCounted ==
    ASSUME IInv, PInv, NEW p \in Slots, NEW f, DraftCounted(f), UNCHANGED rows,
           draft' = [draft EXCEPT ![p] = f],
           request' = request \/ \E at : request' = [request EXCEPT ![p].at = at]
    PROVE  PInv'
<1>1. \A q \in Slots : request'[q].op = request[q].op /\ request'[q].instructor = request[q].instructor
                       /\ request'[q].course = request[q].course
  BY DEF IInv, RequestsTyped, RequestFields
<1>2. \A q \in Slots : draft'[q] = f \/ draft'[q] = draft[q]
  BY DEF IInv, DraftsTyped
<1>3. RequestsCounted'
  BY <1>1 DEF PInv, RequestsCounted, RequestCounted
<1>4. \A q \in Slots : DraftCounted(draft'[q])
  BY <1>2 DEF PInv, DraftsCounted
<1>5. DraftsCounted'
  BY <1>4 DEF DraftsCounted, DraftCounted
<1>6. ClassesCounted' /\ AssignmentsTyped'
  BY FewerClasses DEF rows, PInv, AssignmentsTyped
<1> QED  BY <1>3, <1>5, <1>6 DEF PInv

LEMMA GenerateWipeCounted ==
    ASSUME IInv, PInv, NEW p \in Slots, GenerateWipe(p)
    PROVE  PInv'
<1>1. /\ UNCHANGED <<rows, draft>>
      /\ \A q \in Slots \ {p} : request'[q] = request[q]
      /\ request'[p].op = request[p].op /\ request'[p].course = request[p].course
      /\ request'[p].instructor = request[p].instructor
  BY Wiped
<1>2. RequestsCounted'
  BY <1>1 DEF PInv, RequestsCounted, RequestCounted
<1>3. DraftsCounted' /\ AssignmentsTyped'
  BY <1>1 DEF PInv, DraftsCounted, DraftCounted, AssignmentsTyped, rows
<1>4. ClassesCounted'
  BY <1>1, FewerClasses DEF rows
<1> QED  BY <1>2, <1>3, <1>4 DEF PInv

LEMMA GenerateReadCounted ==
    ASSUME IInv, PInv, NEW p \in Slots, GenerateRead(p)
    PROVE  PInv'
<1> DEFINE who == [c \in Courses |-> Picked(c)]
           f == [draft[p] EXCEPT !.who = who]
<1>1. /\ request' = [request EXCEPT ![p].at = "placing"] /\ draft' = [draft EXCEPT ![p] = f]
      /\ UNCHANGED rows
  BY DEF GenerateRead
<1>2. \A c \in Courses : who[c] \in Someone
  BY PickedCounted
<1> HIDE DEF who
<1>3. DraftCounted(draft[p]) /\ DOMAIN draft[p] = DraftFields
  BY DEF PInv, DraftsCounted, IInv, DraftsTyped, DraftOf
<1>4. /\ f.who = who /\ f.placed = draft[p].placed /\ f.kept = draft[p].kept
      /\ f.left = draft[p].left /\ f.todo = draft[p].todo
  BY <1>3 DEF DraftFields
<1> HIDE DEF f
<1>5. DraftCounted(f)
  BY <1>2, <1>3, <1>4 DEF DraftCounted
<1> QED  BY <1>1, <1>5, SearchCounted

LEMMA PlaceCounted ==
    ASSUME IInv, PInv, NEW p \in Slots, Place(p)
    PROVE  PInv'
<1> DEFINE g == draft[p]
<1>1. PICK s \in Tightest(g.todo) :
         \/ \E x \in Best(g.who, g.placed, s) :
               draft' = [draft EXCEPT ![p].todo = @ \ {s}, ![p].placed = @ \cup {x}]
         \/ draft' = [draft EXCEPT ![p].todo = @ \ {s}, ![p].left = @ \cup {s}]
  BY DEF Place
<1>2. UNCHANGED rows /\ request' = request
  BY DEF Place
<1>3. DraftCounted(g) /\ DOMAIN g = DraftFields
  BY DEF PInv, DraftsCounted, IInv, DraftsTyped, DraftOf
<1>4. s \in g.todo /\ s.course \in Courses
  BY <1>3 DEF Tightest, DraftCounted
<1>5. ASSUME NEW x \in Best(g.who, g.placed, s),
             draft' = [draft EXCEPT ![p].todo = @ \ {s}, ![p].placed = @ \cup {x}]
      PROVE  PInv'
  <2> DEFINE f == [g EXCEPT !.todo = @ \ {s}, !.placed = @ \cup {x}]
  <2>1. draft' = [draft EXCEPT ![p] = f]
    BY <1>5 DEF IInv, DraftsTyped
  <2>2. x.session = s
    BY BestFeasible DEF Feasible
  <2>3. /\ f.who = g.who /\ f.placed = g.placed \cup {x} /\ f.kept = g.kept
        /\ f.left = g.left /\ f.todo = g.todo \ {s}
    BY <1>3 DEF DraftFields
  <2> HIDE DEF f, g
  <2>4. IsFiniteSet(f.placed)
    BY <1>3, <2>3, FS_AddElement DEF DraftCounted
  <2>5. DraftCounted(f)
    BY <1>3, <1>4, <2>2, <2>3, <2>4 DEF DraftCounted
  <2> QED  BY <1>2, <2>1, <2>5, SearchCounted
<1>6. ASSUME draft' = [draft EXCEPT ![p].todo = @ \ {s}, ![p].left = @ \cup {s}]
      PROVE  PInv'
  <2> DEFINE f == [g EXCEPT !.todo = @ \ {s}, !.left = @ \cup {s}]
  <2>1. draft' = [draft EXCEPT ![p] = f]
    BY <1>6 DEF IInv, DraftsTyped
  <2>2. /\ f.who = g.who /\ f.placed = g.placed /\ f.kept = g.kept
        /\ f.left = g.left \cup {s} /\ f.todo = g.todo \ {s}
    BY <1>3 DEF DraftFields
  <2> HIDE DEF f, g
  <2>3. DraftCounted(f)
    BY <1>3, <1>4, <2>2 DEF DraftCounted
  <2> QED  BY <1>2, <2>1, <2>3, SearchCounted
<1> QED  BY <1>1, <1>5, <1>6

LEMMA EndAttemptCounted ==
    ASSUME IInv, PInv, NEW p \in Slots, EndAttempt(p)
    PROVE  PInv'
<1> DEFINE g == draft[p]
           kept == IF Keeps(g) THEN g.placed ELSE g.kept
           lost == IF Keeps(g) THEN g.left ELSE g.lost
           again == lost # {} /\ g.tries < MaxRetries
           f == [g EXCEPT !.kept = kept, !.lost = lost,
                          !.todo = IF again THEN {x.session : x \in g.placed} \cup g.left ELSE {},
                          !.placed = {}, !.left = {},
                          !.tries = IF again THEN @ + 1 ELSE @]
           at == IF again THEN "placing" ELSE "placed"
<1>1. /\ draft' = [draft EXCEPT ![p] = f] /\ UNCHANGED rows
      /\ request' = [request EXCEPT ![p].at = at]
  BY DEF EndAttempt, Serving
<1>2. DraftCounted(g) /\ DOMAIN g = DraftFields
  BY DEF PInv, DraftsCounted, IInv, DraftsTyped, DraftOf
<1>3. /\ f.todo = IF again THEN {x.session : x \in g.placed} \cup g.left ELSE {}
      /\ f.left = {} /\ f.placed = {} /\ f.kept = kept /\ f.who = g.who
  BY <1>2 DEF DraftFields
<1>4. kept = g.placed \/ kept = g.kept
  OBVIOUS
<1> HIDE DEF f, g, kept, lost, again, at
<1>5. DraftCounted(f)
  BY <1>2, <1>3, <1>4, FS_EmptySet DEF DraftCounted
<1> QED  BY <1>1, <1>5, SearchCounted

LEMMA ClassesFinite ==
    ASSUME NEW f, NEW d, NEW run, DraftOf(f, d), IsFiniteSet(f.kept)
    PROVE  IsFiniteSet(ClassesOf(f, run))
<1> DEFINE row(x, b) == [section |-> x.session.section, course |-> x.session.course,
                         instructor |-> f.who[x.session.course], day |-> x.day, block |-> b,
                         room |-> x.room, run |-> run]
           R(x) == {row(x, b) : b \in Hours(x)}
           T == {R(x) : x \in f.kept}
<1>1. ASSUME NEW x \in f.kept
      PROVE  IsFiniteSet(R(x))
  <2>1. x.start \in Int /\ x.start + x.session.size - 1 \in Int
    BY DEF DraftOf, PlacementOf, SessionOf
  <2>2. IsFiniteSet(Hours(x))
    BY <2>1, FS_Interval DEF Hours, Span
  <2> DEFINE H == Hours(x)
             Rx == R(x)
             h == [b \in H |-> row(x, b)]
  <2>3. IsFiniteSet(H) /\ h \in [H -> Rx] /\ \A y \in Rx : \E b \in H : h[b] = y
    BY <2>2
  <2> HIDE DEF H, Rx, h
  <2>4. IsFiniteSet(Rx)
    BY <2>3, Images
  <2> QED  BY <2>4 DEF Rx
<1> HIDE DEF R
<1>2. IsFiniteSet(T)
  <2> DEFINE K == f.kept
             h == [x \in K |-> R(x)]
  <2>1. IsFiniteSet(K) /\ h \in [K -> T] /\ \A y \in T : \E x \in K : h[x] = y
    OBVIOUS
  <2> HIDE DEF K, T, h
  <2> QED  BY <2>1, Images
<1>3. IsFiniteSet(UNION T)
  <2>1. \A S \in T : IsFiniteSet(S)
    BY <1>1
  <2> HIDE DEF T
  <2> QED  BY <1>2, <2>1, FS_UNION
<1> QED  BY <1>3 DEF ClassesOf, R

LEMMA GenerateCommitCounted ==
    ASSUME IInv, PInv, NEW p \in Slots, GenerateCommit(p)
    PROVE  PInv'
<1> DEFINE d     == request[p].dept
           run   == runs[d] + 1
           f     == draft[p]
           fresh == ClassesOf(f, run)
           stay  == classes \ Loaded(classes, d, request[p].runs)
<1>1. classes' = stay \cup fresh /\ assignments' = assignments /\ Finish(p)
  BY DEF GenerateCommit
<1>2. DraftOf(f, d) /\ DraftCounted(f)
  BY DEF IInv, DraftsTyped, PInv, DraftsCounted
<1> HIDE DEF d, run, f
<1>3. IsFiniteSet(fresh)
  BY <1>2, ClassesFinite DEF DraftCounted
<1>4. \A x \in fresh : x.instructor \in Someone
  <2> TAKE x \in fresh
  <2>1. PICK z \in f.kept : x.instructor = f.who[z.session.course]
    BY DEF ClassesOf
  <2> QED  BY <1>2, <2>1 DEF DraftCounted
<1>5. stay \in SUBSET classes /\ IsFiniteSet(classes) /\ \A x \in classes : x.instructor \in Someone
  BY DEF PInv, ClassesCounted
<1>6. IsFiniteSet(stay)
  BY <1>5, FS_Subset
<1> HIDE DEF fresh, stay
<1>7. IsFiniteSet(stay \cup fresh)
  BY <1>3, <1>6, FS_Union
<1>8. ClassesCounted'
  BY <1>1, <1>4, <1>5, <1>7 DEF ClassesCounted
<1> QED  BY <1>1, <1>8, FinishCounted DEF PInv, AssignmentsTyped

LEMMA ReassignCommitCounted ==
    ASSUME IInv, PInv, NEW p \in Slots, ReassignCommit(p)
    PROVE  PInv'
<1>1. PICK m \in classes :
         classes' = (classes \ {m}) \cup {[m EXCEPT !.instructor = request[p].instructor]}
  BY DEF ReassignCommit
<1>2. request[p].instructor \in Someone /\ Finish(p) /\ assignments' = assignments
  BY DEF ReassignCommit, Serving, PInv, RequestsCounted, RequestCounted, Someone
<1> DEFINE new == [m EXCEPT !.instructor = request[p].instructor]
<1>3. new.instructor = request[p].instructor
  BY DEF IInv, RowsTyped, ClassRow
<1>4. IsFiniteSet(classes) /\ \A x \in classes : x.instructor \in Someone
  BY DEF PInv, ClassesCounted
<1> HIDE DEF new
<1>5. classes' = (classes \ {m}) \cup {new}
  BY <1>1 DEF new
<1>6. IsFiniteSet(classes')
  BY <1>4, <1>5, FS_RemoveElement, FS_AddElement
<1>7. ClassesCounted'
  BY <1>2, <1>3, <1>4, <1>5, <1>6 DEF ClassesCounted
<1> QED  BY <1>2, <1>7, FinishCounted DEF PInv, AssignmentsTyped

LEMMA AssignCommitCounted ==
    ASSUME IInv, PInv, NEW p \in Slots, AssignCommit(p)
    PROVE  PInv'
<1> DEFINE k   == request[p].row
           new == [course |-> request[p].course, instructor |-> request[p].instructor]
<1>1. /\ Finish(p) /\ classes' = classes
      /\ \/ assignments' = Append(assignments, new)
         \/ assignments' = [assignments EXCEPT ![k] = new]
      /\ request[p].op = "assign"
  BY DEF AssignCommit, Serving
<1>2. assignments \in Seq(Assignment) /\ new \in Assignment
  BY <1>1 DEF PInv, AssignmentsTyped, RequestsCounted, RequestCounted, Assignment
<1> HIDE DEF k, new
<1>3. assignments' \in Seq(Assignment)
  <2>1. CASE assignments' = Append(assignments, new)
    BY <1>2, <2>1
  <2>2. CASE assignments' = [assignments EXCEPT ![k] = new]
    <3> DEFINE n == Len(assignments)
    <3>1. n \in Nat /\ assignments \in [1..n -> Assignment]
      BY <1>2
    <3>2. assignments' \in [1..n -> Assignment]
      BY <1>2, <2>2, <3>1
    <3> HIDE DEF n
    <3> QED  BY <3>1, <3>2, SeqDef
  <2> QED  BY <1>1, <2>1, <2>2
<1> QED  BY <1>1, <1>3, FewerClasses, FinishCounted DEF PInv, AssignmentsTyped

LEMMA UnassignCounted ==
    ASSUME PInv, NEW k \in DOMAIN assignments, Unassign(k)
    PROVE  PInv'
<1>1. assignments \in Seq(Assignment)
  BY DEF PInv, AssignmentsTyped
<1>2. /\ assignments' = [assignments EXCEPT ![k].instructor = NoOne]
      /\ classes' = classes /\ request' = request /\ draft' = draft
  BY DEF Unassign
<1>3. assignments[k] \in Assignment
  BY <1>1
<1> DEFINE new == [assignments[k] EXCEPT !.instructor = NoOne]
<1>4. new \in Assignment
  BY <1>3 DEF Assignment
<1>5. assignments' = [assignments EXCEPT ![k] = new]
  BY <1>2
<1> HIDE DEF new
<1>6. assignments' \in Seq(Assignment)
  BY <1>1, <1>4, <1>5
<1> QED
  BY <1>2, <1>6, FewerClasses
     DEF PInv, AssignmentsTyped, DraftsCounted, DraftCounted, RequestsCounted, RequestCounted

LEMMA NextCounted == IInv /\ PInv /\ [Next]_vars => PInv'
<1> SUFFICES ASSUME IInv, PInv, [Next]_vars
             PROVE  PInv'
  OBVIOUS
<1>1. ASSUME UNCHANGED <<classes, assignments, request, draft>>
      PROVE  PInv'
  BY <1>1, FewerClasses
     DEF PInv, AssignmentsTyped, DraftsCounted, DraftCounted, RequestsCounted, RequestCounted
<1>2. ASSUME NEW p \in Slots, NEW r, RequestCounted(r), Begin(p, r)
      PROVE  PInv'
  <2>1. request' = [request EXCEPT ![p] = r] /\ draft' = draft /\ UNCHANGED rows
    BY <1>2 DEF Begin
  <2>2. DraftCounted(draft[p])
    BY DEF PInv, DraftsCounted
  <2>3. DraftsCounted' /\ RequestsCounted'
    BY <1>2, <2>1, <2>2, SlotCounted
  <2> QED  BY <2>1, <2>3, FewerClasses DEF PInv, AssignmentsTyped, rows
<1>3. ASSUME NEW n \in Students, StudentRegisters(n)
      PROVE  PInv'
  BY <1>1, <1>3 DEF StudentRegisters
<1>4. ASSUME NEW s \in DOMAIN enrolled, ReferenceSection(s)
      PROVE  PInv'
  BY <1>1, <1>4 DEF ReferenceSection
<1>5. ASSUME NEW p \in Slots, NEW d \in Departments, AllocateLoad(p, d)
      PROVE  PInv'
  <2> DEFINE r == [Rest EXCEPT !.op = "allocate", !.at = "loaded", !.dept = d,
                               !.old = SectionsOf(d)]
  <2>1. Begin(p, r)
    BY <1>5 DEF AllocateLoad
  <2>2. RequestCounted(r)
    BY DEF RequestCounted, Rest
  <2> HIDE DEF r
  <2> QED  BY <2>1, <2>2, <1>2
<1>6. ASSUME NEW p \in Slots, NEW m \in classes, NEW i \in Instructors, ReassignLoad(p, m, i)
      PROVE  PInv'
  <2> DEFINE r == [Rest EXCEPT !.op = "reassign", !.at = "loaded", !.target = m,
                               !.instructor = i]
  <2>1. Begin(p, r)
    BY <1>6 DEF ReassignLoad
  <2>2. RequestCounted(r)
    BY DEF RequestCounted, Rest
  <2> HIDE DEF r
  <2> QED  BY <2>1, <2>2, <1>2
<1>7. ASSUME NEW p \in Slots, NEW c \in Courses, NEW i \in Instructors, AssignLoad(p, c, i)
      PROVE  PInv'
  <2> DEFINE r == [Rest EXCEPT !.op = "assign", !.at = "loaded", !.course = c,
                               !.instructor = i, !.row = Latest(c)]
  <2>1. Begin(p, r)
    BY <1>7 DEF AssignLoad
  <2>2. RequestCounted(r)
    BY DEF RequestCounted, Rest
  <2> HIDE DEF r
  <2> QED  BY <2>1, <2>2, <1>2
<1>8. ASSUME NEW p \in Slots, RequestFails(p) \/ AllocateCommit(p)
      PROVE  PInv'
  <2>1. Finish(p) /\ classes' \subseteq classes /\ assignments' = assignments
    BY <1>8 DEF RequestFails, AllocateCommit, rows
  <2> QED  BY <2>1, FewerClasses, FinishCounted DEF PInv, AssignmentsTyped
<1>9. CASE UNCHANGED vars
  BY <1>1, <1>9 DEF vars, rows
<1> QED
  BY <1>3, <1>4, <1>5, <1>6, <1>7, <1>8, <1>9, UnassignCounted, GenerateLoadCounted,
     GenerateWipeCounted, GenerateReadCounted, PlaceCounted, EndAttemptCounted, GenerateCommitCounted,
     ReassignCommitCounted, AssignCommitCounted DEF Next, Others

LEMMA Counted == Spec => []PInv
<1>1. IInv /\ PInv /\ [Next]_vars => PInv'
  BY NextCounted
<1> QED  BY <1>1, InitCounted, Invariant, PTL DEF Spec

-----------------------------------------------------------------------------
(* The pages.                                                              *)

LEMMA PagesAgree == FInv /\ CInv /\ PInv => PagesFit
<1> SUFFICES ASSUME FInv, CInv, PInv, NEW d \in Departments
             PROVE  LET page   == get_department_term_overview(d)
                        mine   == DOMAIN page.sections
                        theirs == [i \in Instructors \cup {NoOne} |->
                                     Cardinality({x \in get_instructor_schedule(i) :
                                                    x.section.dept = d})]
                    IN  /\ page.students_placed_count = SumFunctionOnSet(page.sections, mine)
                        /\ page.students_placed_count =
                             Cardinality(UNION {list_section_students(s) : s \in mine})
                        /\ page.slots_count = SumFunctionOnSet(theirs, Instructors \cup {NoOne})
  BY DEF PagesFit
<1> DEFINE S == SectionsOf(d)
           sections == [s \in S |-> enrolled[s]]
           placed == {n \in Students : pin[n] \in S}
           theirs == [i \in Someone |->
                        Cardinality({x \in get_instructor_schedule(i) : x.section.dept = d})]
           taught == {x \in classes : x.section \in S}
<1>1. IsFiniteSet(Students)
  BY SchedulingAssumption
<1>2. \A s \in S : enrolled[s] = Cardinality({n \in Students : pin[n] = s})
  BY DEF CInv, SectionsShared, SectionsOf
<1>3. \A s \in S : \E n \in placed : pin[n] = s
  <2> TAKE s \in S
  <2> DEFINE P == {n \in Students : pin[n] = s}
  <2>1. Cardinality(P) \in 1..Largest(s.dept)
    BY DEF CInv, SectionsShared, SectionsOf
  <2> HIDE DEF P
  <2>2. Cardinality(P) # 0
    BY <2>1
  <2>3. P # {}
    BY <2>2, FS_EmptySet
  <2> QED  BY <2>3 DEF P
<1>4. IsFiniteSet(S)
  <2> DEFINE h == [n \in placed |-> pin[n]]
  <2>1. placed \in SUBSET Students /\ h \in [placed -> S] /\ \A s \in S : \E n \in placed : h[n] = s
    BY <1>3
  <2> HIDE DEF h, placed, S
  <2>2. IsFiniteSet(placed)
    BY <1>1, <2>1, FS_Subset
  <2> QED  BY <2>1, <2>2, Images
<1>5. SumFunctionOnSet(sections, S) = Cardinality(placed)
  <2>1. \A s \in S : sections[s] = Cardinality(Fibre(Students, pin, s))
    BY <1>2 DEF Fibre
  <2>2. placed = Over(Students, pin, S)
    BY DEF Over
  <2> HIDE DEF S, sections, placed
  <2> QED  BY <1>1, <1>4, <2>1, <2>2, SumFibres
<1>6. UNION {list_section_students(s) : s \in S} = placed
  BY DEF list_section_students
<1>7. /\ IsFiniteSet(classes) /\ \A x \in classes : x.instructor \in Someone
      /\ \A x \in classes : x.section \in DOMAIN enrolled
  BY DEF PInv, ClassesCounted, FInv, RowsKnown
<1>8. taught = {x \in classes : x.section.dept = d}
  BY <1>7 DEF SectionsOf
<1>9. SumFunctionOnSet(theirs, Someone) = Cardinality(taught)
  <2> DEFINE by == [x \in taught |-> x.instructor]
  <2>1. taught \in SUBSET classes
    OBVIOUS
  <2>2. IsFiniteSet(taught)
    BY <1>7, <2>1, FS_Subset
  <2>3. \A i \in Someone : {x \in get_instructor_schedule(i) : x.section.dept = d}
                              = Fibre(taught, by, i)
    BY <1>8 DEF get_instructor_schedule, Fibre
  <2>4. \A i \in Someone : theirs[i] = Cardinality(Fibre(taught, by, i))
    BY <2>3
  <2>5. Over(taught, by, Someone) = taught
    BY <1>7 DEF Over
  <2>6. IsFiniteSet(Someone)
    BY SchedulingAssumption, FS_AddElement DEF Someone
  <2> HIDE DEF theirs, taught, by
  <2> QED  BY <2>2, <2>4, <2>5, <2>6, SumFibres
<1>10. get_department_term_overview(d) = [sections |-> sections,
          students_placed_count |-> Cardinality(placed), slots_count |-> Cardinality(taught)]
  BY DEF get_department_term_overview
<1>11. DOMAIN sections = S
  OBVIOUS
<1>12. theirs = [i \in Instructors \cup {NoOne} |->
                   Cardinality({x \in get_instructor_schedule(i) : x.section.dept = d})]
  BY DEF Someone
<1> HIDE DEF sections, placed, taught, theirs, S
<1> QED  BY <1>5, <1>6, <1>9, <1>10, <1>11, <1>12 DEF Someone

\* A cohort is split into sections that differ by at most one student and fit the largest
\* room, each counted right, whatever students register, officers regenerate or reassign and
\* other allocations commit meanwhile; and the pages of a department count the same.
THEOREM CohortsStayBalanced == Spec => []CohortsBalanced
<1>1. CInv => Balanced
  BY DEF CInv, PinsRight, SectionsShared, Balanced
<1>2. FInv /\ CInv /\ PInv => CohortsBalanced
  BY <1>1, PagesAgree DEF CohortsBalanced
<1> QED  BY <1>2, Exhaustive, Cohorts, Counted, PTL
=============================================================================
