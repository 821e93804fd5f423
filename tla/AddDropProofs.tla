---------------------------- MODULE AddDropProofs ----------------------------
(***************************************************************************)
(* Theorems about add/drop, for any number of courses, sections, batches   *)
(* and request slots.                                                      *)
(***************************************************************************)
EXTENDS AddDrop, SumLemmas, SequenceTheorems, TLAPS

-----------------------------------------------------------------------------
(* Types.                                                                  *)

LEMMA RestType == Rest \in Request
<1>1. NoChanges \in Changes
  <2>1. {} \in SUBSET Courses /\ NoChanges \in [{} -> Actions]
    BY DEF NoChanges
  <2> QED  BY <2>1 DEF Changes
<1> QED  BY <1>1, AddDropAssumption DEF Rest, Request, Kinds, Links

LEMMA JudgedType ==
  ASSUME NEW r \in Request
  PROVE  /\ Judged(r) \in BatchRow
         /\ VerdictStands(Judged(r))
<1> DEFINE items == [c \in DOMAIN r.changes |->
                       [action |-> r.changes[c],
                        status |-> IF Passes(r, c) THEN "APPROVED" ELSE "DENIED"]]
           ok == (\A c \in DOMAIN r.changes : Passes(r, c)) /\ WithinLoad(Projected(r))
<1>1. PICK S \in SUBSET Courses : r.changes \in [S -> Actions]
  BY DEF Request, Changes
<1>2. items \in [S -> [action : Actions, status : ItemStatuses]]
  BY <1>1 DEF ItemStatuses
<1>3. items \in Items
  BY <1>2 DEF Items
<1>4. Judged(r) = [status |-> IF ok THEN "AGENT_APPROVED" ELSE "AGENT_DENIED",
                   items |-> items, approved |-> ok, justified |-> FALSE,
                   baseline |-> r.links]
  BY DEF Judged, Approved
<1>5. ok \in BOOLEAN /\ r.links \in [Courses -> Links]
  BY DEF Request, WithinLoad
<1> HIDE DEF items, ok
<1> QED  BY <1>3, <1>4, <1>5 DEF BatchRow, BatchStatuses, VerdictStands

LEMMA AppliedType ==
  ASSUME NEW row \in BatchRow, NEW op \in {"approve", "override"},
         op = "approve" => row.approved
  PROVE  /\ Applied(row, op) \in BatchRow
         /\ Applied(row, op).approved = row.approved
         /\ VerdictStands(Applied(row, op))
<1> DEFINE items == [c \in DOMAIN row.items |-> [row.items[c] EXCEPT !.status = "APPLIED"]]
<1>1. PICK S \in SUBSET Courses :
        row.items \in [S -> [action : Actions, status : ItemStatuses]]
  BY DEF BatchRow, Items
<1>2. items \in [S -> [action : Actions, status : ItemStatuses]]
  BY <1>1 DEF ItemStatuses
<1>3. items \in Items
  BY <1>2 DEF Items
<1>4. Applied(row, op) =
        [row EXCEPT !.status = "APPLIED", !.items = items,
                    !.justified = row.justified \/ op = "override"]
  BY DEF Applied
<1> HIDE DEF items
<1> QED  BY <1>3, <1>4 DEF BatchRow, BatchStatuses, VerdictStands

\* Replacing a batch keeps the log's type and length.
LEMMA BatchReplaced ==
  ASSUME batches \in Seq(BatchRow), NEW b \in DOMAIN batches, NEW row \in BatchRow,
         batches' = [batches EXCEPT ![b] = row]
  PROVE  /\ batches' \in Seq(BatchRow)
         /\ DOMAIN batches' = DOMAIN batches
         /\ \A d \in DOMAIN batches : batches'[d] = IF d = b THEN row ELSE batches[d]
BY ExceptSeq

LEMMA BatchAppended ==
  ASSUME batches \in Seq(BatchRow), NEW row \in BatchRow,
         batches' = Append(batches, row)
  PROVE  /\ batches' \in Seq(BatchRow)
         /\ DOMAIN batches \subseteq DOMAIN batches'
         /\ \A d \in DOMAIN batches : batches'[d] = batches[d]
         /\ \A d \in DOMAIN batches' \ DOMAIN batches : batches'[d] = row
BY AppendProperties

-----------------------------------------------------------------------------
(* What a step must keep: the rows one by one, the slots one by one.       *)

\* A slot that opens a request or ends one leaves the others alone.
LEMMA SlotsKept ==
  ASSUME IInv, NEW p \in Slots, NEW r \in Request,
         request' = [request EXCEPT ![p] = r],
         DOMAIN batches \subseteq DOMAIN batches',
         \A b \in DOMAIN batches : batches'[b].approved = batches[b].approved,
         r.op \in {"approve", "override", "reject"} => r.batch \in DOMAIN batches,
         r.op = "approve" => batches[r.batch].approved
  PROVE  /\ request' \in [Slots -> Request]
         /\ \A q \in Slots : RequestOK(q)'
<1>1. request' \in [Slots -> Request]
  BY DEF IInv, TypeOK
<1>2. ASSUME NEW q \in Slots  PROVE RequestOK(q)'
  <2>1. request'[q] = IF q = p THEN r ELSE request[q]
    BY DEF IInv, TypeOK
  <2> QED  BY <2>1 DEF IInv, RequestOK
<1> QED  BY <1>1, <1>2

\* Opening a request changes no row.
LEMMA BeginKeeps ==
  ASSUME IInv, NEW p \in Slots, NEW r \in Request, Begin(p, r),
         r.op \in {"approve", "override", "reject"} => r.batch \in DOMAIN batches,
         r.op = "approve" => batches[r.batch].approved
  PROVE  IInv'
<1>1. [r EXCEPT !.at = "busy"] \in Request
  BY DEF Request
<1>2. UNCHANGED rows /\ request' = [request EXCEPT ![p] = [r EXCEPT !.at = "busy"]]
  BY DEF Begin
<1>3. /\ [r EXCEPT !.at = "busy"].op = r.op
      /\ [r EXCEPT !.at = "busy"].batch = r.batch
  BY DEF Request
<1>4. request' \in [Slots -> Request] /\ \A q \in Slots : RequestOK(q)'
  BY <1>1, <1>2, <1>3, SlotsKept DEF rows
<1> QED  BY <1>2, <1>4 DEF IInv, TypeOK, rows, VerdictStands

\* Ending one leaves the slots as the invariant wants them.
LEMMA FinishKeeps ==
  ASSUME IInv, NEW p \in Slots, Finish(p),
         DOMAIN batches \subseteq DOMAIN batches',
         \A b \in DOMAIN batches : batches'[b].approved = batches[b].approved
  PROVE  /\ request' \in [Slots -> Request]
         /\ \A q \in Slots : RequestOK(q)'
<1>1. Rest.op = "none"
  BY DEF Rest
<1> QED  BY <1>1, RestType, SlotsKept DEF Finish

LEMMA SubmitLoadKeeps ==
  ASSUME IInv, NEW p \in Slots, NEW S \in SUBSET Courses, NEW changes \in [S -> Actions],
         NEW intime \in BOOLEAN, SubmitLoad(p, changes, intime)
  PROVE  IInv'
<1> DEFINE r == [Rest EXCEPT !.op = "submit", !.changes = changes, !.intime = intime,
                             !.links = links, !.cleared = cleared]
<1>1. changes \in Changes
  BY DEF Changes
<1>2. r \in Request /\ r.op = "submit"
  BY <1>1, RestType DEF IInv, TypeOK, Request, Kinds
<1>3. Begin(p, r)
  BY DEF SubmitLoad
<1> HIDE DEF r
<1> QED  BY <1>2, <1>3, BeginKeeps

LEMMA SubmitCommitKeeps ==
  ASSUME IInv, NEW p \in Slots, SubmitCommit(p)
  PROVE  IInv'
<1>1. request[p] \in Request /\ batches \in Seq(BatchRow)
  BY DEF IInv, TypeOK
<1>2. PICK row : row = Judged(request[p])
  OBVIOUS
<1>3. row \in BatchRow /\ VerdictStands(row)
  BY <1>1, <1>2, JudgedType
<1>4. batches' = Append(batches, row)
  BY <1>2 DEF SubmitCommit
<1>5. /\ batches' \in Seq(BatchRow)
      /\ DOMAIN batches \subseteq DOMAIN batches'
      /\ \A d \in DOMAIN batches : batches'[d] = batches[d]
      /\ \A d \in DOMAIN batches' \ DOMAIN batches : batches'[d] = row
  BY <1>1, <1>3, <1>4, BatchAppended
<1>6. request' \in [Slots -> Request] /\ \A q \in Slots : RequestOK(q)'
  BY <1>5, FinishKeeps DEF SubmitCommit
<1>7. \A d \in DOMAIN batches' : VerdictStands(batches'[d])
  BY <1>3, <1>5 DEF IInv
<1>8. UNCHANGED <<links, cleared, timetable, additions>>
  BY DEF SubmitCommit
<1> QED  BY <1>5, <1>6, <1>7, <1>8 DEF IInv, TypeOK

LEMMA DecideLoadKeeps ==
  ASSUME IInv, NEW p \in Slots, NEW b \in DOMAIN batches,
         NEW op \in {"approve", "override", "reject"}, DecideLoad(p, op, b)
  PROVE  IInv'
<1> DEFINE r == [Rest EXCEPT !.op = op, !.batch = b, !.links = links]
<1>1. b \in Nat
  BY DEF IInv, TypeOK
<1>2. r \in Request /\ r.op = op /\ r.batch = b
  BY <1>1, RestType DEF IInv, TypeOK, Request, Kinds
<1>3. op = "approve" => batches[b].approved
  BY DEF DecideLoad, Decidable, IInv, VerdictStands
<1>4. Begin(p, r)
  BY DEF DecideLoad
<1> HIDE DEF r
<1> QED  BY <1>2, <1>3, <1>4, BeginKeeps

LEMMA ApplyKeeps ==
  ASSUME IInv, NEW p \in Slots, NEW op \in {"approve", "override"}, ApplyBatch(p, op)
  PROVE  IInv'
<1>1. PICK b, old : b = request[p].batch /\ old = batches[b]
  OBVIOUS
<1>2. PICK row : row = Applied(old, op)
  OBVIOUS
<1>3. b \in DOMAIN batches /\ (op = "approve" => old.approved)
  BY <1>1 DEF ApplyBatch, Serving, IInv, RequestOK
<1>4. old \in BatchRow
  BY <1>1, <1>3 DEF IInv, TypeOK
<1>5. row \in BatchRow /\ row.approved = old.approved /\ VerdictStands(row)
  BY <1>2, <1>3, <1>4, AppliedType
<1>6. batches' = [batches EXCEPT ![b] = row]
  BY <1>1, <1>2, <1>3 DEF ApplyBatch
<1>7. /\ batches' \in Seq(BatchRow)
      /\ DOMAIN batches' = DOMAIN batches
      /\ \A d \in DOMAIN batches : batches'[d] = IF d = b THEN row ELSE batches[d]
  BY <1>3, <1>5, <1>6, BatchReplaced DEF IInv, TypeOK
<1>8. request' \in [Slots -> Request] /\ \A q \in Slots : RequestOK(q)'
  BY <1>1, <1>5, <1>7, FinishKeeps DEF ApplyBatch
<1>9. \A d \in DOMAIN batches' : VerdictStands(batches'[d])
  BY <1>5, <1>7 DEF IInv
<1>10. links' \in [Courses -> Links]
  <2>1. \A a, l, s : s \in Links => Linked(a, l, s) \in Links
    BY DEF Linked, Links
  <2> QED  BY <2>1 DEF ApplyBatch, IInv, TypeOK
<1>11. additions' \subseteq SlotRow /\ UNCHANGED <<cleared, timetable>>
  BY DEF ApplyBatch, IInv, TypeOK
<1> QED  BY <1>7, <1>8, <1>9, <1>10, <1>11 DEF IInv, TypeOK

LEMMA RejectKeeps ==
  ASSUME IInv, NEW p \in Slots, RejectBatch(p)
  PROVE  IInv'
<1>1. PICK b, old : b = request[p].batch /\ old = batches[b]
  OBVIOUS
<1>2. PICK row : row = [old EXCEPT !.status = "REJECTED", !.justified = TRUE]
  OBVIOUS
<1>3. b \in DOMAIN batches
  BY <1>1 DEF RejectBatch, Serving, IInv, RequestOK
<1>4. old \in BatchRow
  BY <1>1, <1>3 DEF IInv, TypeOK
<1>5. row \in BatchRow /\ row.approved = old.approved /\ VerdictStands(row)
  BY <1>2, <1>4 DEF BatchRow, BatchStatuses, VerdictStands
<1>6. batches' = [batches EXCEPT ![b] = row]
  BY <1>1, <1>2, <1>3, <1>4 DEF RejectBatch, BatchRow, IInv, TypeOK
<1>7. /\ batches' \in Seq(BatchRow)
      /\ DOMAIN batches' = DOMAIN batches
      /\ \A d \in DOMAIN batches : batches'[d] = IF d = b THEN row ELSE batches[d]
  BY <1>3, <1>5, <1>6, BatchReplaced DEF IInv, TypeOK
<1>8. request' \in [Slots -> Request] /\ \A q \in Slots : RequestOK(q)'
  BY <1>1, <1>5, <1>7, FinishKeeps DEF RejectBatch
<1>9. \A d \in DOMAIN batches' : VerdictStands(batches'[d])
  BY <1>5, <1>7 DEF IInv
<1> QED  BY <1>7, <1>8, <1>9 DEF IInv, TypeOK, RejectBatch

LEMMA AcceptLoadKeeps ==
  ASSUME IInv, NEW p \in Slots, NEW c \in Courses, NEW s \in Sections, AcceptLoad(p, c, s)
  PROVE  IInv'
<1> DEFINE r == [Rest EXCEPT !.op = "accept", !.course = {c}, !.section = s]
<1>1. r \in Request /\ r.op = "accept"
  BY RestType DEF Request, Kinds
<1>2. Begin(p, r)
  BY DEF AcceptLoad
<1> HIDE DEF r
<1> QED  BY <1>1, <1>2, BeginKeeps

LEMMA AcceptCommitKeeps ==
  ASSUME IInv, NEW p \in Slots, AcceptCommit(p)
  PROVE  IInv'
<1>1. UNCHANGED <<links, cleared, timetable, batches>>
  BY DEF AcceptCommit
<1>2. request' \in [Slots -> Request] /\ \A q \in Slots : RequestOK(q)'
  BY <1>1, FinishKeeps DEF AcceptCommit
<1>3. request[p] \in Request /\ timetable \in [Sections -> [Courses -> SUBSET Times]]
  BY AddDropAssumption DEF IInv, TypeOK
<1>4. \A c \in request[p].course : SlotsOf(request[p].section, c) \subseteq SlotRow
  BY <1>3 DEF SlotsOf, SlotRow, Request
<1>5. additions' \subseteq SlotRow
  BY <1>4 DEF AcceptCommit, IInv, TypeOK
<1> QED  BY <1>1, <1>2, <1>5 DEF IInv, TypeOK, VerdictStands

LEMMA InitKeeps == Init => IInv
<1> SUFFICES ASSUME Init  PROVE IInv
  OBVIOUS
<1>1. links \in [Courses -> Links]
  BY DEF Init, Links
<1>2. batches \in Seq(BatchRow) /\ DOMAIN batches = {}
  BY DEF Init
<1>3. request \in [Slots -> Request] /\ \A p \in Slots : request[p].op = "none"
  BY RestType DEF Init, Rest
<1> QED  BY <1>1, <1>2, <1>3 DEF Init, IInv, TypeOK, Active, RequestOK

LEMMA StepKeeps == IInv /\ [Next]_vars => IInv'
<1> SUFFICES ASSUME IInv, [Next]_vars  PROVE IInv'
  OBVIOUS
<1>1. CASE UNCHANGED vars
  BY <1>1 DEF vars, IInv, TypeOK, VerdictStands, RequestOK
<1>2. ASSUME NEW p \in Slots, Student(p)  PROVE IInv'
  BY <1>2, SubmitLoadKeeps, SubmitCommitKeeps, AcceptLoadKeeps, AcceptCommitKeeps
  DEF Student
<1>3. ASSUME NEW p \in Slots, GenerateSchedule(p)  PROVE IInv'
  BY <1>3 DEF GenerateSchedule, IInv, TypeOK, VerdictStands, RequestOK
<1>4. ASSUME NEW p \in Slots, Officer(p)  PROVE IInv'
  BY <1>3, <1>4, DecideLoadKeeps, ApplyKeeps, RejectKeeps DEF Officer
<1>5. ASSUME NEW p \in Slots, RequestFails(p)  PROVE IInv'
  <2>1. request' \in [Slots -> Request] /\ \A q \in Slots : RequestOK(q)'
    BY <1>5, FinishKeeps DEF RequestFails, rows
  <2> QED  BY <1>5, <2>1 DEF RequestFails, rows, IInv, TypeOK, VerdictStands
<1>6. ASSUME NEW c \in Courses, ClearPrerequisite(c)  PROVE IInv'
  BY <1>6 DEF ClearPrerequisite, IInv, TypeOK, VerdictStands, RequestOK
<1> QED  BY <1>1, <1>2, <1>4, <1>5, <1>6 DEF Next

\* Rows and requests keep their types, verdicts stand and whoever approves has
\* loaded a batch the agent let through, whatever requests overlap or fail.
THEOREM Invariant == Spec => []IInv
BY InitKeeps, StepKeeps, PTL DEF Spec

\* A batch the agent has denied is applied only with a justification on it,
\* although nobody looks at the verdict again after the load
\* (officer_override_batch).
THEOREM Justified == Spec => []OverrideJustified
<1>1. IInv => OverrideJustified
  BY DEF IInv, VerdictStands, OverrideJustified
<1> QED  BY <1>1, Invariant, PTL

-----------------------------------------------------------------------------
(* Additions, when choices of a section and decisions take turns.          *)

\* At most one slot takes the requests that change links or add slots.
TakeTurns ==
    \A p, q \in Slots :
        /\ Serves[p] \cap {"approve", "override", "accept"} # {}
        /\ Serves[q] \cap {"approve", "override", "accept"} # {}
        => p = q

\* A slot serves what it may serve, and who accepts a section has seen a course
\* that is still active.
AcceptOK(p) ==
    /\ request[p].op # "none" => request[p].op \in Serves[p]
    /\ request[p].op = "accept" => \A c \in request[p].course : links[c] = "active"

TInv ==
    /\ IInv
    /\ AdditionsActive
    /\ \A p \in Slots : AcceptOK(p)

\* Steps that leave links and additions alone keep what concerns the slots.
LEMMA TurnsBegin ==
  ASSUME TInv, NEW p \in Slots, NEW r \in Request, Begin(p, r),
         r.op = "accept" => \A c \in r.course : links[c] = "active"
  PROVE  AdditionsActive' /\ \A q \in Slots : AcceptOK(q)'
<1>1. ASSUME NEW q \in Slots  PROVE AcceptOK(q)'
  <2>1. request'[q] = IF q = p THEN [r EXCEPT !.at = "busy"] ELSE request[q]
    BY DEF TInv, IInv, TypeOK, Begin
  <2>2. [r EXCEPT !.at = "busy"].op = r.op /\ [r EXCEPT !.at = "busy"].course = r.course
    BY DEF Request
  <2>3. r.op \in Serves[p] /\ UNCHANGED links
    BY DEF Begin, rows
  <2> QED  BY <2>1, <2>2, <2>3 DEF TInv, AcceptOK
<1> QED  BY <1>1 DEF TInv, AdditionsActive, Begin, rows

LEMMA TurnsFinish ==
  ASSUME TInv, NEW p \in Slots, Finish(p),
         \/ UNCHANGED links
         \/ \A q \in Slots : request[q].op = "accept" => q = p
  PROVE  \A q \in Slots : AcceptOK(q)'
<1> SUFFICES ASSUME NEW q \in Slots  PROVE AcceptOK(q)'
  OBVIOUS
<1>1. request'[q] = IF q = p THEN Rest ELSE request[q]
  BY DEF TInv, IInv, TypeOK, Finish
<1>2. Rest.op = "none"
  BY DEF Rest
<1> QED  BY <1>1, <1>2 DEF TInv, AcceptOK

\* Applying a batch: the additions of the courses it drops go, a course that
\* has additions and is not dropped stays active, and nobody else is choosing.
LEMMA TurnsApply ==
  ASSUME TakeTurns, TInv, NEW p \in Slots, NEW op \in {"approve", "override"},
         ApplyBatch(p, op)
  PROVE  AdditionsActive' /\ \A q \in Slots : AcceptOK(q)'
<1>1. ASSUME NEW q \in Slots, request[q].op = "accept"  PROVE q = p
  BY <1>1 DEF TakeTurns, TInv, AcceptOK, ApplyBatch, Serving
<1>2. \A q \in Slots : AcceptOK(q)'
  BY <1>1, TurnsFinish DEF ApplyBatch
<1>3. PICK items : items = batches[request[p].batch].items
  OBVIOUS
<1>4. items \in Items
  <2>1. request[p].batch \in DOMAIN batches
    BY DEF TInv, IInv, RequestOK, ApplyBatch, Serving
  <2>2. batches[request[p].batch] \in BatchRow
    BY <2>1 DEF TInv, IInv, TypeOK
  <2> QED  BY <1>3, <2>2 DEF BatchRow
<1>5. ASSUME NEW a \in additions'  PROVE links'[a.course] = "active"
  <2>1. a \in additions /\ ~LosesAdditions(items, a.course)
    BY <1>3, <1>5 DEF ApplyBatch
  <2>2. a.course \in Courses /\ links[a.course] = "active"
    BY <2>1 DEF TInv, IInv, TypeOK, SlotRow, AdditionsActive
  <2>3. links'[a.course] =
          IF a.course \in DOMAIN items
          THEN Linked(items[a.course].action, request[p].links[a.course], links[a.course])
          ELSE links[a.course]
    BY <1>3, <2>2 DEF ApplyBatch
  <2>4. a.course \in DOMAIN items => items[a.course].action = "ADD"
    BY <1>4, <2>1 DEF LosesAdditions, Items, Actions
  <2> QED  BY <2>2, <2>3, <2>4 DEF Linked
<1> QED  BY <1>2, <1>5 DEF AdditionsActive

LEMMA TurnsStep == TakeTurns /\ TInv /\ [Next]_vars => TInv'
<1> SUFFICES ASSUME TakeTurns, TInv, [Next]_vars
             PROVE  AdditionsActive' /\ \A q \in Slots : AcceptOK(q)'
  BY StepKeeps DEF TInv
<1>1. CASE UNCHANGED vars
  BY <1>1 DEF vars, TInv, AdditionsActive, AcceptOK
<1>2. ASSUME NEW p \in Slots, NEW S \in SUBSET Courses, NEW changes \in [S -> Actions],
             NEW intime \in BOOLEAN, SubmitLoad(p, changes, intime)
      PROVE  AdditionsActive' /\ \A q \in Slots : AcceptOK(q)'
  <2> DEFINE r == [Rest EXCEPT !.op = "submit", !.changes = changes, !.intime = intime,
                               !.links = links, !.cleared = cleared]
  <2>1. changes \in Changes
    BY DEF Changes
  <2>2. r \in Request /\ r.op = "submit"
    BY <2>1, RestType DEF TInv, IInv, TypeOK, Request, Kinds
  <2>3. Begin(p, r)
    BY <1>2 DEF SubmitLoad
  <2> HIDE DEF r
  <2> QED  BY <2>2, <2>3, TurnsBegin
<1>3. ASSUME NEW p \in Slots, SubmitCommit(p) \/ RejectBatch(p) \/ RequestFails(p)
      PROVE  AdditionsActive' /\ \A q \in Slots : AcceptOK(q)'
  <2>1. UNCHANGED <<links, additions>> /\ Finish(p)
    BY <1>3 DEF SubmitCommit, RejectBatch, RequestFails, rows
  <2> QED  BY <2>1, TurnsFinish DEF TInv, AdditionsActive
<1>4. ASSUME NEW p \in Slots, NEW c \in Courses, NEW s \in Sections, AcceptLoad(p, c, s)
      PROVE  AdditionsActive' /\ \A q \in Slots : AcceptOK(q)'
  <2> DEFINE r == [Rest EXCEPT !.op = "accept", !.course = {c}, !.section = s]
  <2>1. r \in Request /\ r.op = "accept" /\ r.course = {c}
    BY RestType DEF Request, Kinds
  <2>2. Begin(p, r) /\ links[c] = "active"
    BY <1>4 DEF AcceptLoad
  <2> HIDE DEF r
  <2> QED  BY <2>1, <2>2, TurnsBegin
<1>5. ASSUME NEW p \in Slots, AcceptCommit(p)
      PROVE  AdditionsActive' /\ \A q \in Slots : AcceptOK(q)'
  <2>1. \A c \in request[p].course : links[c] = "active"
    BY <1>5 DEF TInv, AcceptOK, AcceptCommit, Serving
  <2>2. \A c \in request[p].course : \A a \in SlotsOf(request[p].section, c) : a.course = c
    BY DEF SlotsOf
  <2>3. AdditionsActive'
    BY <1>5, <2>1, <2>2 DEF AcceptCommit, TInv, AdditionsActive
  <2>4. \A q \in Slots : AcceptOK(q)'
    BY <1>5, TurnsFinish DEF AcceptCommit
  <2> QED  BY <2>3, <2>4
<1>6. ASSUME NEW p \in Slots, NEW b \in DOMAIN batches,
             NEW op \in {"approve", "override", "reject"}, DecideLoad(p, op, b)
      PROVE  AdditionsActive' /\ \A q \in Slots : AcceptOK(q)'
  <2> DEFINE r == [Rest EXCEPT !.op = op, !.batch = b, !.links = links]
  <2>1. b \in Nat
    BY DEF TInv, IInv, TypeOK
  <2>2. r \in Request /\ r.op = op
    BY <2>1, RestType DEF TInv, IInv, TypeOK, Request, Kinds
  <2>3. Begin(p, r)
    BY <1>6 DEF DecideLoad
  <2> HIDE DEF r
  <2> QED  BY <2>2, <2>3, TurnsBegin
<1>7. ASSUME NEW p \in Slots, GenerateSchedule(p)
      PROVE  AdditionsActive' /\ \A q \in Slots : AcceptOK(q)'
  BY <1>7 DEF GenerateSchedule, TInv, AdditionsActive, AcceptOK
<1>8. ASSUME NEW c \in Courses, ClearPrerequisite(c)
      PROVE  AdditionsActive' /\ \A q \in Slots : AcceptOK(q)'
  BY <1>8 DEF ClearPrerequisite, TInv, AdditionsActive, AcceptOK
<1>9. ASSUME NEW p \in Slots, Student(p)
      PROVE  AdditionsActive' /\ \A q \in Slots : AcceptOK(q)'
  BY <1>2, <1>3, <1>4, <1>5, <1>9 DEF Student
<1>10. ASSUME NEW p \in Slots, Officer(p)
       PROVE  AdditionsActive' /\ \A q \in Slots : AcceptOK(q)'
  BY <1>3, <1>6, <1>7, <1>10, TurnsApply DEF Officer
<1> QED  BY <1>1, <1>3, <1>8, <1>9, <1>10 DEF Next

LEMMA TurnsInit == Init => TInv
<1> SUFFICES ASSUME Init  PROVE TInv
  OBVIOUS
<1>1. \A p \in Slots : request[p].op = "none"
  BY DEF Init, Rest
<1> QED  BY <1>1, InitKeeps DEF Init, TInv, AdditionsActive, AcceptOK

\* While choices and decisions take turns, every class a student has chosen is of
\* a course they still take, with submissions, failures and new timetables in
\* between (_apply_drop, accept_section_for_added_course).
THEOREM ChosenStayActive == TakeTurns /\ Spec => []AdditionsActive
<1>1. TInv => AdditionsActive
  BY DEF TInv
<1>2. TakeTurns /\ TInv /\ [Next]_vars => TInv'
  BY TurnsStep
<1>3. TakeTurns => TakeTurns'
  BY DEF TakeTurns
<1> QED  BY <1>1, <1>2, <1>3, TurnsInit, PTL DEF Spec

-----------------------------------------------------------------------------
(* Decisions, when officers take turns.                                    *)

Deciding == {"approve", "override", "reject"}

OfficersTakeTurns ==
    \A p, q \in Slots : Serves[p] \cap Deciding # {} /\ Serves[q] \cap Deciding # {} => p = q

\* Whoever decides has loaded a batch that still waits.
DecideOK(p) ==
    /\ request[p].op # "none" => request[p].op \in Serves[p] /\ request[p].at = "busy"
    /\ request[p].op \in Deciding =>
           batches[request[p].batch].status \in Decidable(request[p].op)

OInv ==
    /\ IInv
    /\ SharedFate
    /\ \A p \in Slots : DecideOK(p)

LEMMA DecidableWaits ==
  ASSUME NEW op \in Deciding
  PROVE  Decidable(op) \subseteq {"AGENT_APPROVED", "AGENT_DENIED"}
BY DEF Deciding, Decidable

\* What each kind of request begins with.
LEMMA Begun ==
  ASSUME IInv, NEW p \in Slots
  PROVE  /\ \A S \in SUBSET Courses : \A changes \in [S -> Actions], intime \in BOOLEAN :
              SubmitLoad(p, changes, intime) =>
                \E r \in Request : Begin(p, r) /\ r.op = "submit"
         /\ \A c \in Courses, s \in Sections :
              AcceptLoad(p, c, s) =>
                \E r \in Request : /\ Begin(p, r) /\ r.op = "accept"
                                   /\ r.course = {c} /\ r.section = s
         /\ \A b \in DOMAIN batches, op \in Deciding :
              DecideLoad(p, op, b) =>
                \E r \in Request : Begin(p, r) /\ r.op = op /\ r.batch = b
<1>1. ASSUME NEW S \in SUBSET Courses, NEW changes \in [S -> Actions], NEW intime \in BOOLEAN,
             SubmitLoad(p, changes, intime)
      PROVE  \E r \in Request : Begin(p, r) /\ r.op = "submit"
  <2> DEFINE r == [Rest EXCEPT !.op = "submit", !.changes = changes, !.intime = intime,
                               !.links = links, !.cleared = cleared]
  <2>1. changes \in Changes
    BY DEF Changes
  <2>2. r \in Request /\ r.op = "submit"
    BY <2>1, RestType DEF IInv, TypeOK, Request, Kinds
  <2>3. Begin(p, r)
    BY <1>1 DEF SubmitLoad
  <2> HIDE DEF r
  <2> QED  BY <2>2, <2>3
<1>2. ASSUME NEW c \in Courses, NEW s \in Sections, AcceptLoad(p, c, s)
      PROVE  \E r \in Request : /\ Begin(p, r) /\ r.op = "accept"
                                /\ r.course = {c} /\ r.section = s
  <2> DEFINE r == [Rest EXCEPT !.op = "accept", !.course = {c}, !.section = s]
  <2>1. r \in Request /\ r.op = "accept" /\ r.course = {c} /\ r.section = s
    BY RestType DEF Request, Kinds
  <2>2. Begin(p, r)
    BY <1>2 DEF AcceptLoad
  <2> HIDE DEF r
  <2> QED  BY <2>1, <2>2
<1>3. ASSUME NEW b \in DOMAIN batches, NEW op \in Deciding, DecideLoad(p, op, b)
      PROVE  \E r \in Request : Begin(p, r) /\ r.op = op /\ r.batch = b
  <2> DEFINE r == [Rest EXCEPT !.op = op, !.batch = b, !.links = links]
  <2>1. b \in Nat
    BY DEF IInv, TypeOK
  <2>2. r \in Request /\ r.op = op /\ r.batch = b
    BY <2>1, RestType DEF IInv, TypeOK, Request, Kinds, Deciding
  <2>3. Begin(p, r)
    BY <1>3 DEF DecideLoad
  <2> HIDE DEF r
  <2> QED  BY <2>2, <2>3
<1> QED  BY <1>1, <1>2, <1>3

LEMMA OfficersBegin ==
  ASSUME OInv, NEW p \in Slots, NEW r \in Request, Begin(p, r),
         r.op \in Deciding => batches[r.batch].status \in Decidable(r.op)
  PROVE  SharedFate' /\ \A q \in Slots : DecideOK(q)'
<1>1. r.op \in Serves[p] /\ UNCHANGED rows
  BY DEF Begin
<1>2. ASSUME NEW q \in Slots PROVE DecideOK(q)'
  <2>1. request'[q] = IF q = p THEN [r EXCEPT !.at = "busy"] ELSE request[q]
    BY DEF OInv, IInv, TypeOK, Begin
  <2>2. /\ [r EXCEPT !.at = "busy"].op = r.op /\ [r EXCEPT !.at = "busy"].batch = r.batch
        /\ [r EXCEPT !.at = "busy"].at = "busy"
    BY DEF Request
  <2> QED  BY <1>1, <2>1, <2>2 DEF OInv, DecideOK, rows
<1> QED  BY <1>1, <1>2 DEF OInv, SharedFate, rows

\* A request that ends leaves the batches of the others as they are.
LEMMA OfficersFinish ==
  ASSUME OInv, NEW p \in Slots, Finish(p),
         \/ \A d \in DOMAIN batches : batches'[d] = batches[d]
         \/ \A q \in Slots : request[q].op \in Deciding => q = p
  PROVE  \A q \in Slots : DecideOK(q)'
<1> SUFFICES ASSUME NEW q \in Slots PROVE DecideOK(q)'
  OBVIOUS
<1>1. request'[q] = IF q = p THEN Rest ELSE request[q]
  BY DEF OInv, IInv, TypeOK, Finish
<1>2. Rest.op = "none" /\ "none" \notin Deciding
  BY DEF Rest, Deciding
<1>3. CASE q = p
  BY <1>1, <1>2, <1>3 DEF DecideOK
<1>4. CASE q # p
  <2>1. request'[q] = request[q] /\ DecideOK(q)
    BY <1>1, <1>4 DEF OInv
  <2>2. request[q].op \in Deciding => request[q].batch \in DOMAIN batches
    BY DEF OInv, IInv, RequestOK, Deciding
  <2> QED  BY <1>4, <2>1, <2>2 DEF DecideOK
<1> QED  BY <1>3, <1>4

\* Nobody else decides.
LEMMA OnlyDecider ==
  ASSUME OfficersTakeTurns, OInv, NEW p \in Slots, request[p].op \in Deciding
  PROVE  /\ \A q \in Slots : request[q].op \in Deciding => q = p
         /\ request[p].batch \in DOMAIN batches
         /\ batches[request[p].batch] \in BatchRow
         /\ batches[request[p].batch].status \in {"AGENT_APPROVED", "AGENT_DENIED"}
<1>1. "none" \notin Deciding
  BY DEF Deciding
<1>2. \A q \in Slots : request[q].op \in Deciding => Serves[q] \cap Deciding # {}
  BY <1>1 DEF OInv, DecideOK
<1>3. request[p].batch \in DOMAIN batches
  BY DEF OInv, IInv, RequestOK, Deciding
<1>4. batches[request[p].batch].status \in Decidable(request[p].op)
  BY DEF OInv, DecideOK
<1> QED  BY <1>2, <1>3, <1>4, DecidableWaits DEF OfficersTakeTurns, OInv, IInv, TypeOK

\* A new batch has no item that was applied.
LEMMA OfficersSubmit ==
  ASSUME OInv, NEW p \in Slots, SubmitCommit(p)
  PROVE  SharedFate' /\ \A q \in Slots : DecideOK(q)'
<1>1. request[p] \in Request /\ batches \in Seq(BatchRow)
  BY DEF OInv, IInv, TypeOK
<1>2. PICK row : row = Judged(request[p])
  OBVIOUS
<1>3. row \in BatchRow
  BY <1>1, <1>2, JudgedType
<1>4. row.status # "APPLIED" /\ \A c \in DOMAIN row.items : row.items[c].status # "APPLIED"
  BY <1>2 DEF Judged
<1>5. /\ DOMAIN batches \subseteq DOMAIN batches'
      /\ \A d \in DOMAIN batches : batches'[d] = batches[d]
      /\ \A d \in DOMAIN batches' \ DOMAIN batches : batches'[d] = row
  BY <1>1, <1>2, <1>3, BatchAppended DEF SubmitCommit
<1>6. SharedFate'
  BY <1>4, <1>5 DEF SharedFate, OInv
<1> QED  BY <1>5, <1>6, OfficersFinish DEF SubmitCommit

\* A decision is about every item of the batch.
LEMMA OfficersApply ==
  ASSUME OfficersTakeTurns, OInv, NEW p \in Slots, NEW op \in {"approve", "override"},
         ApplyBatch(p, op)
  PROVE  SharedFate' /\ \A q \in Slots : DecideOK(q)'
<1>1. request[p].op = op /\ op \in Deciding
  BY DEF ApplyBatch, Serving, Deciding
<1>2. PICK b, old : b = request[p].batch /\ old = batches[b]
  OBVIOUS
<1>3. b \in DOMAIN batches /\ old \in BatchRow
  BY <1>1, <1>2, OnlyDecider
<1>4. PICK row : row = Applied(old, op)
  OBVIOUS
<1>5. row.status = "APPLIED" /\ \A c \in DOMAIN row.items : row.items[c].status = "APPLIED"
  <2> DEFINE items == [c \in DOMAIN old.items |-> [old.items[c] EXCEPT !.status = "APPLIED"]]
  <2>1. PICK S \in SUBSET Courses : old.items \in [S -> [action : Actions, status : ItemStatuses]]
    BY <1>3 DEF BatchRow, Items
  <2>2. \A c \in DOMAIN items : items[c].status = "APPLIED"
    BY <2>1
  <2>3. row.items = items /\ row.status = "APPLIED"
    BY <1>3, <1>4 DEF Applied, BatchRow
  <2> QED  BY <2>2, <2>3
<1>6. batches' = [batches EXCEPT ![b] = row]
  BY <1>2, <1>3, <1>4 DEF ApplyBatch
<1>7. \A d \in DOMAIN batches' :
        d \in DOMAIN batches /\ batches'[d] = IF d = b THEN row ELSE batches[d]
  BY <1>3, <1>6
<1>8. SharedFate'
  BY <1>5, <1>7 DEF SharedFate, OInv
<1> QED  BY <1>1, <1>8, OnlyDecider, OfficersFinish DEF ApplyBatch

LEMMA OfficersReject ==
  ASSUME OfficersTakeTurns, OInv, NEW p \in Slots, RejectBatch(p)
  PROVE  SharedFate' /\ \A q \in Slots : DecideOK(q)'
<1>1. request[p].op \in Deciding
  BY DEF RejectBatch, Serving, Deciding
<1>2. PICK b, old : b = request[p].batch /\ old = batches[b]
  OBVIOUS
<1>3. b \in DOMAIN batches /\ old \in BatchRow /\ old.status \in {"AGENT_APPROVED", "AGENT_DENIED"}
  BY <1>1, <1>2, OnlyDecider
<1>4. PICK row : row = [old EXCEPT !.status = "REJECTED", !.justified = TRUE]
  OBVIOUS
<1>5. row.status = "REJECTED" /\ row.items = old.items
  BY <1>3, <1>4 DEF BatchRow
<1>6. batches' = [batches EXCEPT ![b] = row]
  BY <1>2, <1>3, <1>4 DEF RejectBatch, BatchRow, OInv, IInv, TypeOK
<1>7. \A d \in DOMAIN batches' :
        d \in DOMAIN batches /\ batches'[d] = IF d = b THEN row ELSE batches[d]
  BY <1>3, <1>6
<1>8. \A c \in DOMAIN row.items : row.items[c].status # "APPLIED"
  BY <1>2, <1>3, <1>5 DEF OInv, SharedFate
<1>9. SharedFate'
  BY <1>5, <1>7, <1>8 DEF SharedFate, OInv
<1> QED  BY <1>1, <1>9, OnlyDecider, OfficersFinish DEF RejectBatch

LEMMA OfficersStep == OfficersTakeTurns /\ OInv /\ [Next]_vars => OInv'
<1> SUFFICES ASSUME OfficersTakeTurns, OInv, [Next]_vars
             PROVE  SharedFate' /\ \A q \in Slots : DecideOK(q)'
  BY StepKeeps DEF OInv
<1> DEFINE Goal == SharedFate' /\ \A q \in Slots : DecideOK(q)'
<1>1. CASE UNCHANGED vars
  BY <1>1 DEF vars, OInv, SharedFate, DecideOK
<1>2. ASSUME NEW p \in Slots, Student(p) PROVE Goal
  <2>1. ASSUME NEW r \in Request, Begin(p, r), r.op \in {"submit", "accept"} PROVE Goal
    <3>1. r.op \notin Deciding
      BY <2>1 DEF Deciding
    <3> QED  BY <2>1, <3>1, OfficersBegin
  <2>2. CASE AcceptCommit(p)
    BY <2>2, OfficersFinish DEF AcceptCommit, OInv, SharedFate
  <2> HIDE DEF Goal
  <2>3. ASSUME NEW S \in SUBSET Courses, NEW changes \in [S -> Actions],
               NEW intime \in BOOLEAN, SubmitLoad(p, changes, intime)
        PROVE  Goal
    <3>1. PICK r \in Request : Begin(p, r) /\ r.op = "submit"
      BY <2>3, Begun DEF OInv
    <3> QED  BY <2>1, <3>1
  <2>4. ASSUME NEW c \in Courses, NEW s \in Sections, AcceptLoad(p, c, s) PROVE Goal
    <3>1. PICK r \in Request : Begin(p, r) /\ r.op = "accept"
      BY <2>4, Begun DEF OInv
    <3> QED  BY <2>1, <3>1
  <2>5. CASE SubmitCommit(p)
    BY <2>5, OfficersSubmit DEF Goal
  <2> QED  BY <1>2, <2>2, <2>3, <2>4, <2>5 DEF Student
<1>3. ASSUME NEW p \in Slots, Officer(p) PROVE Goal
  <2>1. ASSUME NEW b \in DOMAIN batches, NEW op \in Deciding, DecideLoad(p, op, b) PROVE Goal
    <3>1. PICK r \in Request : Begin(p, r) /\ r.op = op /\ r.batch = b
      BY <2>1, Begun DEF OInv
    <3>2. batches[r.batch].status \in Decidable(r.op)
      BY <2>1, <3>1 DEF DecideLoad
    <3> QED  BY <3>1, <3>2, OfficersBegin
  <2>2. CASE GenerateSchedule(p)
    BY <2>2 DEF GenerateSchedule, OInv, SharedFate, DecideOK
  <2> QED  BY <1>3, <2>1, <2>2, OfficersApply, OfficersReject DEF Officer, Deciding
<1>4. ASSUME NEW p \in Slots, RequestFails(p) PROVE Goal
  BY <1>4, OfficersFinish DEF RequestFails, rows, OInv, SharedFate
<1>5. ASSUME NEW c \in Courses, ClearPrerequisite(c) PROVE Goal
  BY <1>5 DEF ClearPrerequisite, OInv, SharedFate, DecideOK
<1> QED  BY <1>1, <1>2, <1>3, <1>4, <1>5 DEF Next

LEMMA OfficersInit == Init => OInv
<1> SUFFICES ASSUME Init PROVE OInv
  OBVIOUS
<1>1. \A p \in Slots : request[p].op = "none"
  BY DEF Init, Rest
<1> QED  BY <1>1, InitKeeps DEF Init, OInv, SharedFate, DecideOK, Deciding

LEMMA OfficersInvariant == OfficersTakeTurns /\ Spec => []OInv
<1>1. OfficersTakeTurns => OfficersTakeTurns'
  BY DEF OfficersTakeTurns
<1> QED  BY <1>1, OfficersInit, OfficersStep, PTL DEF Spec

\* When officers take turns, the items of a batch share its fate: all are applied in
\* an applied batch and none in any other (AddDropBatch).
THEOREM FateShared == OfficersTakeTurns /\ Spec => []SharedFate
<1>1. OInv => SharedFate
  BY DEF OInv
<1> QED  BY <1>1, OfficersInvariant, PTL

-----------------------------------------------------------------------------
(* The picker.                                                             *)

\* What is offered would pass.
LEMMA CatalogPasses ==
  ASSUME IInv, NEW c \in Catalog
  PROVE  Passes([Rest EXCEPT !.changes = [x \in {c} |-> "ADD"], !.intime = TRUE,
                             !.links = links, !.cleared = cleared], c)
<1>1. PICK r : r = [Rest EXCEPT !.changes = [x \in {c} |-> "ADD"], !.intime = TRUE,
                                !.links = links, !.cleared = cleared]
  OBVIOUS
<1>2. r.intime /\ r.links = links /\ r.cleared = cleared /\ r.changes[c] = "ADD"
  BY <1>1 DEF Rest
<1>3. c \in Curriculum /\ c \in cleared /\ links[c] = "none" /\ Offered(c)
  BY DEF Catalog, Offered
<1>4. Passes(r, c)
  BY <1>2, <1>3 DEF Passes, InTime, Takeable, Prepared
<1> QED  BY <1>1, <1>4

\* What is shown as pending waits in the queue.
LEMMA PendingWaits ==
  Picker.pending_add \cup Picker.pending_drop
      \subseteq UNION {DOMAIN batches[b].items : b \in list_pending_batches}
<1>1. ASSUME NEW action, NEW c \in InFlight(action)
      PROVE  \E b \in list_pending_batches : c \in DOMAIN batches[b].items
  BY DEF InFlight, list_pending_batches
<1>2. /\ Picker.pending_add \subseteq InFlight("ADD")
      /\ Picker.pending_drop \subseteq InFlight("DROP")
  BY DEF Picker
<1> QED  BY <1>1, <1>2

\* A decision changes the links of a waiting batch's items, as they ask.
LEMMA DecisionShown ==
  ASSUME OfficersTakeTurns, OInv, NEW p \in Slots, NEW op \in {"approve", "override"},
         ApplyBatch(p, op)
  PROVE  /\ \E b \in list_pending_batches : Becomes(b, "APPLIED")
         /\ \A c \in Courses :
              /\ links[c] = "active" /\ links'[c] = "dropped" => c \in Picker.pending_drop
              /\ c \in Picker.dropped \cup Picker.catalog /\ links'[c] = "active"
                    => c \in Picker.pending_add
<1>1. PICK b, items : b = request[p].batch /\ items = batches[b].items
  OBVIOUS
<1>2. request[p].op \in Deciding
  BY DEF ApplyBatch, Serving, Deciding
<1>3. /\ b \in DOMAIN batches /\ batches[b] \in BatchRow
      /\ batches[b].status \in {"AGENT_APPROVED", "AGENT_DENIED"}
  BY <1>1, <1>2, OnlyDecider
<1>4. PICK row : row = Applied(batches[b], op)
  OBVIOUS
<1>5. batches' = [batches EXCEPT ![b] = row] /\ row.status = "APPLIED"
  BY <1>1, <1>3, <1>4 DEF ApplyBatch, Applied, BatchRow
<1>6. b \in list_pending_batches /\ Becomes(b, "APPLIED")
  BY <1>3, <1>5 DEF list_pending_batches, Becomes
<1>7. items \in Items
  BY <1>1, <1>3 DEF BatchRow
<1>8. ASSUME NEW c \in Courses, links'[c] # links[c]
      PROVE  /\ c \in DOMAIN items /\ items[c].action \in Actions
             /\ links'[c] = IF items[c].action = "ADD" THEN "active" ELSE "dropped"
  <2>1. links'[c] = IF c \in DOMAIN items
                    THEN Linked(items[c].action, request[p].links[c], links[c]) ELSE links[c]
    BY <1>1 DEF ApplyBatch
  <2>2. c \in DOMAIN items => items[c].action \in Actions
    BY <1>7 DEF Items
  <2> QED  BY <1>8, <2>1, <2>2 DEF Linked
<1>9. ASSUME NEW c \in Courses, links'[c] # links[c]
      PROVE  c \in InFlight(items[c].action)
  BY <1>1, <1>3, <1>8, <1>9 DEF InFlight
<1>10. ASSUME NEW c \in Courses, links[c] = "active", links'[c] = "dropped"
       PROVE  c \in Picker.pending_drop
  <2>1. items[c].action = "DROP"
    BY <1>8, <1>10 DEF Actions
  <2> QED  BY <1>9, <1>10, <2>1 DEF Picker, Active
<1>11. ASSUME NEW c \in Courses, c \in Picker.dropped \cup Picker.catalog, links'[c] = "active"
       PROVE  c \in Picker.pending_add
  <2>1. c \in Dropped \cup Catalog /\ links[c] # "active"
    BY <1>11 DEF Picker, Dropped, Catalog
  <2>2. items[c].action = "ADD"
    BY <1>8, <1>11, <2>1
  <2> QED  BY <1>9, <1>11, <2>1, <2>2 DEF Picker
<1> QED  BY <1>6, <1>10, <1>11

\* Only a decision to apply a batch changes a link.
LEMMA OnlyDecisionsLink ==
  ASSUME Next, links' # links
  PROVE  \E p \in Slots : \E op \in {"approve", "override"} : ApplyBatch(p, op)
BY DEF Next, Student, Officer, SubmitLoad, SubmitCommit, AcceptLoad, AcceptCommit, DecideLoad,
       RejectBatch, GenerateSchedule, RequestFails, ClearPrerequisite, Begin, rows

\* When officers take turns, each course the picker offers would pass the agent's
\* checks, what it marks as pending waits in the officers' queue, and a decision
\* drops no course, and adds none that was listed, without that mark
\* (get_add_drop_picker).
THEOREM PickerIsHonest == OfficersTakeTurns /\ Spec => PickerHonest
<1>1. ASSUME OfficersTakeTurns, OInv, [Next]_vars, ~UNCHANGED vars
      PROVE  /\ \A c \in Catalog :
                  Passes([Rest EXCEPT !.changes = [x \in {c} |-> "ADD"], !.intime = TRUE,
                                      !.links = links, !.cleared = cleared], c)
             /\ Picker.pending_add \cup Picker.pending_drop
                  \subseteq UNION {DOMAIN batches[b].items : b \in list_pending_batches}
             /\ links' # links =>
                  /\ \E b \in list_pending_batches : Becomes(b, "APPLIED")
                  /\ \A c \in Courses :
                     /\ links[c] = "active" /\ links'[c] = "dropped" => c \in Picker.pending_drop
                     /\ c \in Picker.dropped \cup Picker.catalog /\ links'[c] = "active"
                           => c \in Picker.pending_add
  <2>1. links' # links =>
          /\ \E b \in list_pending_batches : Becomes(b, "APPLIED")
          /\ \A c \in Courses :
             /\ links[c] = "active" /\ links'[c] = "dropped" => c \in Picker.pending_drop
             /\ c \in Picker.dropped \cup Picker.catalog /\ links'[c] = "active"
                   => c \in Picker.pending_add
    BY <1>1, OnlyDecisionsLink, DecisionShown
  <2> QED  BY <1>1, <2>1, CatalogPasses, PendingWaits DEF OInv
<1>2. OfficersTakeTurns => OfficersTakeTurns'
  BY DEF OfficersTakeTurns
<1> QED  BY <1>1, <1>2, OfficersInvariant, PTL DEF Spec, PickerHonest

-----------------------------------------------------------------------------
(* The load after a decision, when officers take turns.                    *)

Asking(row, action) == {c \in DOMAIN row.items : row.items[c].action = action}

\* Applied to the links the agent has judged, a batch leaves a load within the limits.
FitsBaseline(row) ==
    /\ Asking(row, "ADD") \cap Active(row.baseline) = {}
    /\ Asking(row, "DROP") \subseteq Active(row.baseline)
    /\ WithinLoad(Load(Active(row.baseline)) + Load(Asking(row, "ADD"))
                                             - Load(Asking(row, "DROP")))

\* The verdicts were right, and whoever is about to write links has read those stored.
VerdictsFit == \A b \in DOMAIN batches : batches[b].approved => FitsBaseline(batches[b])
LoadedStands(p) == request[p].op \in Deciding => request[p].links = links

LInv ==
    /\ OInv
    /\ VerdictsFit
    /\ \A p \in Slots : LoadedStands(p)

LEMMA LoadOf ==
  ASSUME NEW S \in SUBSET Courses
  PROVE  IsFiniteSet(S) /\ Load(S) \in Int
<1>1. IsFiniteSet(S)
  BY AddDropAssumption, FS_Subset
<1>2. \A c \in S : CreditHours[c] \in Int
  BY AddDropAssumption
<1>3. SumFunctionOnSet(CreditHours, S) \in Int
  BY <1>1, <1>2, SumType
<1> QED  BY <1>1, <1>3 DEF Load

\* Loads of courses without one in common add up.
LEMMA LoadUnion ==
  ASSUME NEW S \in SUBSET Courses, NEW T \in SUBSET Courses, S \cap T = {}
  PROVE  Load(S \cup T) = Load(S) + Load(T)
<1>1. IsFiniteSet(S) /\ IsFiniteSet(T)
  BY LoadOf
<1>2. \A c \in S \cup T : CreditHours[c] \in Int
  BY AddDropAssumption
<1>3. SumFunctionOnSet(CreditHours, S \cup T)
        = SumFunctionOnSet(CreditHours, S) + SumFunctionOnSet(CreditHours, T)
  BY <1>1, <1>2, SumUnion
<1> QED  BY <1>3 DEF Load

\* What the agent approves fits the links it has read.
LEMMA JudgedFits ==
  ASSUME NEW r \in Request, Judged(r).approved
  PROVE  FitsBaseline(Judged(r))
<1>1. PICK row : row = Judged(r)
  OBVIOUS
<1>2. Approved(r)
  BY DEF Judged
<1>3. PICK S \in SUBSET Courses : r.changes \in [S -> Actions]
  BY DEF Request, Changes
<1>4. /\ DOMAIN row.items = DOMAIN r.changes /\ row.baseline = r.links
      /\ \A c \in DOMAIN r.changes : row.items[c].action = r.changes[c]
  BY <1>1 DEF Judged
<1>5. /\ Asking(row, "ADD") = Changed(r.changes, "ADD")
      /\ Asking(row, "DROP") = Changed(r.changes, "DROP")
  BY <1>4 DEF Asking, Changed
<1>6. WithinLoad(Projected(r)) /\ \A c \in DOMAIN r.changes : Passes(r, c)
  BY <1>2 DEF Approved
<1>7. \A c \in Changed(r.changes, "ADD") : r.links[c] # "active"
  BY <1>6 DEF Passes, Changed
<1>8. \A c \in Changed(r.changes, "DROP") : c \in Courses /\ r.links[c] = "active"
  BY <1>3, <1>6 DEF Passes, Changed
<1>9. FitsBaseline(row)
  BY <1>4, <1>5, <1>6, <1>7, <1>8 DEF FitsBaseline, Active, Projected
<1> QED  BY <1>1, <1>9

\* A decision asks for the same changes of the same links.
LEMMA DecidedFits ==
  ASSUME NEW row \in BatchRow, NEW new, FitsBaseline(row), new.baseline = row.baseline,
         DOMAIN new.items = DOMAIN row.items,
         \A c \in DOMAIN row.items : new.items[c].action = row.items[c].action
  PROVE  FitsBaseline(new)
<1>1. \A action : Asking(new, action) = Asking(row, action)
  BY DEF Asking
<1> QED  BY <1>1 DEF FitsBaseline

LEMMA AppliedRow ==
  ASSUME NEW row \in BatchRow, NEW op
  PROVE  /\ Applied(row, op).approved = row.approved
         /\ Applied(row, op).baseline = row.baseline
         /\ DOMAIN Applied(row, op).items = DOMAIN row.items
         /\ \A c \in DOMAIN row.items : Applied(row, op).items[c].action = row.items[c].action
<1> DEFINE items == [c \in DOMAIN row.items |-> [row.items[c] EXCEPT !.status = "APPLIED"]]
<1>1. PICK S \in SUBSET Courses :
        row.items \in [S -> [action : Actions, status : ItemStatuses]]
  BY DEF BatchRow, Items
<1>2. DOMAIN items = DOMAIN row.items /\ \A c \in DOMAIN row.items : items[c].action = row.items[c].action
  BY <1>1
<1>3. Applied(row, op) =
        [row EXCEPT !.status = "APPLIED", !.items = items,
                    !.justified = row.justified \/ op = "override"]
  BY DEF Applied
<1> HIDE DEF items
<1> QED  BY <1>2, <1>3 DEF BatchRow

LEMMA LoadedKept ==
  ASSUME LInv, NEW p \in Slots, NEW r, request' = [request EXCEPT ![p] = r],
         r.op \in Deciding => r.links = links,
         \/ links' = links
         \/ r.op \notin Deciding /\ \A q \in Slots : request[q].op \in Deciding => q = p
  PROVE  \A q \in Slots : LoadedStands(q)'
<1> SUFFICES ASSUME NEW q \in Slots PROVE LoadedStands(q)'
  OBVIOUS
<1>1. request'[q] = IF q = p THEN r ELSE request[q]
  BY DEF LInv, OInv, IInv, TypeOK
<1>2. LoadedStands(q)
  BY DEF LInv
<1> QED  BY <1>1, <1>2 DEF LoadedStands

LEMMA LoadBegin ==
  ASSUME LInv, NEW p \in Slots, NEW r \in Request, Begin(p, r),
         r.op \in Deciding => r.links = links
  PROVE  VerdictsFit' /\ \A q \in Slots : LoadedStands(q)'
<1>1. /\ UNCHANGED rows
      /\ request' = [request EXCEPT ![p] = [r EXCEPT !.at = "busy"]]
  BY DEF Begin
<1>2. [r EXCEPT !.at = "busy"].op = r.op /\ [r EXCEPT !.at = "busy"].links = r.links
  BY DEF Request
<1>3. \A q \in Slots : LoadedStands(q)'
  BY <1>1, <1>2, LoadedKept DEF rows
<1> QED  BY <1>1, <1>3 DEF LInv, VerdictsFit, rows

\* The request rests, and either no link has changed or nobody else decides.
LEMMA LoadFinish ==
  ASSUME LInv, NEW p \in Slots, Finish(p),
         \/ links' = links
         \/ \A q \in Slots : request[q].op \in Deciding => q = p
  PROVE  \A q \in Slots : LoadedStands(q)'
<1>1. Rest.op \notin Deciding
  BY DEF Rest, Deciding
<1> QED  BY <1>1, LoadedKept DEF Finish

LEMMA LoadDecideLoad ==
  ASSUME LInv, NEW p \in Slots, NEW b \in DOMAIN batches, NEW op \in Deciding,
         DecideLoad(p, op, b)
  PROVE  VerdictsFit' /\ \A q \in Slots : LoadedStands(q)'
<1> DEFINE r == [Rest EXCEPT !.op = op, !.batch = b, !.links = links]
<1>1. b \in Nat
  BY DEF LInv, OInv, IInv, TypeOK
<1>2. r \in Request /\ r.links = links
  BY <1>1, RestType DEF LInv, OInv, IInv, TypeOK, Request, Kinds, Deciding
<1>3. Begin(p, r)
  BY DEF DecideLoad
<1> HIDE DEF r
<1> QED  BY <1>2, <1>3, LoadBegin

LEMMA LoadSubmit ==
  ASSUME LInv, NEW p \in Slots, SubmitCommit(p)
  PROVE  VerdictsFit' /\ \A q \in Slots : LoadedStands(q)'
<1>1. request[p] \in Request /\ batches \in Seq(BatchRow)
  BY DEF LInv, OInv, IInv, TypeOK
<1>2. PICK row : row = Judged(request[p])
  OBVIOUS
<1>3. row \in BatchRow
  BY <1>1, <1>2, JudgedType
<1>4. row.approved => FitsBaseline(row)
  BY <1>1, <1>2, JudgedFits
<1>5. /\ \A d \in DOMAIN batches : batches'[d] = batches[d]
      /\ \A d \in DOMAIN batches' \ DOMAIN batches : batches'[d] = row
  BY <1>1, <1>2, <1>3, BatchAppended DEF SubmitCommit
<1>6. VerdictsFit'
  BY <1>4, <1>5 DEF LInv, VerdictsFit
<1> QED  BY <1>6, LoadFinish DEF SubmitCommit

\* A batch that is decided asks for what it asked for.
LEMMA LoadDecide ==
  ASSUME OfficersTakeTurns, LInv, NEW p \in Slots, request[p].op \in Deciding, Finish(p),
         NEW row, batches' = [batches EXCEPT ![request[p].batch] = row],
         row.approved = batches[request[p].batch].approved,
         row.baseline = batches[request[p].batch].baseline,
         DOMAIN row.items = DOMAIN batches[request[p].batch].items,
         \A c \in DOMAIN batches[request[p].batch].items :
            row.items[c].action = batches[request[p].batch].items[c].action
  PROVE  VerdictsFit' /\ \A q \in Slots : LoadedStands(q)'
<1>1. PICK b, old : b = request[p].batch /\ old = batches[b]
  OBVIOUS
<1>2. b \in DOMAIN batches /\ old \in BatchRow
  BY <1>1, OnlyDecider DEF LInv
<1>3. row.approved => FitsBaseline(row)
  BY <1>1, <1>2, DecidedFits DEF LInv, VerdictsFit
<1>4. \A d \in DOMAIN batches' :
        d \in DOMAIN batches /\ batches'[d] = IF d = b THEN row ELSE batches[d]
  BY <1>1, <1>2
<1>5. VerdictsFit'
  BY <1>3, <1>4 DEF LInv, VerdictsFit
<1> QED  BY <1>5, LoadFinish, OnlyDecider DEF LInv

LEMMA LoadApply ==
  ASSUME OfficersTakeTurns, LInv, NEW p \in Slots, NEW op \in {"approve", "override"},
         ApplyBatch(p, op)
  PROVE  VerdictsFit' /\ \A q \in Slots : LoadedStands(q)'
<1>1. request[p].op \in Deciding /\ Finish(p)
  BY DEF ApplyBatch, Serving, Deciding
<1>2. PICK b, old : b = request[p].batch /\ old = batches[b]
  OBVIOUS
<1>3. b \in DOMAIN batches /\ old \in BatchRow
  BY <1>1, <1>2, OnlyDecider DEF LInv
<1>4. PICK row : row = Applied(old, op)
  OBVIOUS
<1>5. batches' = [batches EXCEPT ![b] = row]
  BY <1>2, <1>3, <1>4 DEF ApplyBatch
<1>6. /\ row.approved = old.approved /\ row.baseline = old.baseline
      /\ DOMAIN row.items = DOMAIN old.items
      /\ \A c \in DOMAIN old.items : row.items[c].action = old.items[c].action
  BY <1>3, <1>4, AppliedRow
<1> QED  BY <1>1, <1>2, <1>5, <1>6, LoadDecide

LEMMA LoadReject ==
  ASSUME OfficersTakeTurns, LInv, NEW p \in Slots, RejectBatch(p)
  PROVE  VerdictsFit' /\ \A q \in Slots : LoadedStands(q)'
<1>1. request[p].op \in Deciding /\ Finish(p)
  BY DEF RejectBatch, Serving, Deciding
<1>2. PICK b, old : b = request[p].batch /\ old = batches[b]
  OBVIOUS
<1>3. b \in DOMAIN batches /\ old \in BatchRow
  BY <1>1, <1>2, OnlyDecider DEF LInv
<1>4. PICK row : row = [old EXCEPT !.status = "REJECTED", !.justified = TRUE]
  OBVIOUS
<1>5. batches' = [batches EXCEPT ![b] = row]
  BY <1>2, <1>3, <1>4 DEF RejectBatch, BatchRow, LInv, OInv, IInv, TypeOK
<1>6. /\ row.approved = old.approved /\ row.baseline = old.baseline
      /\ row.items = old.items
  BY <1>3, <1>4 DEF BatchRow
<1> QED  BY <1>1, <1>2, <1>5, <1>6, LoadDecide

LEMMA LoadStep == OfficersTakeTurns /\ LInv /\ [Next]_vars => LInv'
<1> SUFFICES ASSUME OfficersTakeTurns, LInv, [Next]_vars
             PROVE  VerdictsFit' /\ \A q \in Slots : LoadedStands(q)'
  BY OfficersStep DEF LInv
<1> DEFINE Goal == VerdictsFit' /\ \A q \in Slots : LoadedStands(q)'
<1>1. CASE UNCHANGED vars
  BY <1>1 DEF vars, LInv, VerdictsFit, LoadedStands
<1>2. ASSUME NEW p \in Slots, Student(p) PROVE Goal
  <2>1. ASSUME NEW r \in Request, Begin(p, r), r.op \in {"submit", "accept"} PROVE Goal
    <3>1. r.op \notin Deciding
      BY <2>1 DEF Deciding
    <3> QED  BY <2>1, <3>1, LoadBegin
  <2>2. CASE AcceptCommit(p)
    BY <2>2, LoadFinish DEF AcceptCommit, LInv, VerdictsFit
  <2> HIDE DEF Goal
  <2>3. ASSUME NEW S \in SUBSET Courses, NEW changes \in [S -> Actions],
               NEW intime \in BOOLEAN, SubmitLoad(p, changes, intime)
        PROVE  Goal
    <3>1. PICK r \in Request : Begin(p, r) /\ r.op = "submit"
      BY <2>3, Begun DEF LInv, OInv
    <3> QED  BY <2>1, <3>1
  <2>4. ASSUME NEW c \in Courses, NEW s \in Sections, AcceptLoad(p, c, s) PROVE Goal
    <3>1. PICK r \in Request : Begin(p, r) /\ r.op = "accept"
      BY <2>4, Begun DEF LInv, OInv
    <3> QED  BY <2>1, <3>1
  <2>5. CASE SubmitCommit(p)
    BY <2>5, LoadSubmit DEF Goal
  <2> QED  BY <1>2, <2>2, <2>3, <2>4, <2>5 DEF Student
<1>3. ASSUME NEW p \in Slots, Officer(p) PROVE Goal
  <2>1. CASE GenerateSchedule(p)
    BY <2>1 DEF GenerateSchedule, LInv, VerdictsFit, LoadedStands
  <2> QED  BY <1>3, <2>1, LoadDecideLoad, LoadApply, LoadReject DEF Officer, Deciding
<1>4. ASSUME NEW p \in Slots, RequestFails(p) PROVE Goal
  BY <1>4, LoadFinish DEF RequestFails, rows, LInv, VerdictsFit
<1>5. ASSUME NEW c \in Courses, ClearPrerequisite(c) PROVE Goal
  BY <1>5 DEF ClearPrerequisite, LInv, VerdictsFit, LoadedStands
<1> QED  BY <1>1, <1>2, <1>3, <1>4, <1>5 DEF Next

LEMMA LoadInit == Init => LInv
<1> SUFFICES ASSUME Init PROVE LInv
  OBVIOUS
<1>1. \A p \in Slots : request[p].op = "none"
  BY DEF Init, Rest
<1> QED  BY <1>1, OfficersInit DEF Init, LInv, VerdictsFit, LoadedStands, Deciding

LEMMA OnlyCommitsWrite ==
  ASSUME Next, batches' # batches
  PROVE  \E p \in Slots : \/ SubmitCommit(p) \/ RejectBatch(p)
                          \/ \E op \in {"approve", "override"} : ApplyBatch(p, op)
<1>1. ASSUME NEW p \in Slots, Student(p) PROVE SubmitCommit(p)
  <2>1. \A changes, intime : SubmitLoad(p, changes, intime) => batches' = batches
    BY Zenon DEF SubmitLoad, Begin, rows
  <2>2. \A c, s : AcceptLoad(p, c, s) => batches' = batches
    BY Zenon DEF AcceptLoad, Begin, rows
  <2>3. AcceptCommit(p) => batches' = batches
    BY DEF AcceptCommit
  <2> QED  BY <1>1, <2>1, <2>2, <2>3 DEF Student
<1>2. ASSUME NEW p \in Slots, Officer(p)
      PROVE  RejectBatch(p) \/ \E op \in {"approve", "override"} : ApplyBatch(p, op)
  <2>1. \A op, b : DecideLoad(p, op, b) => batches' = batches
    BY Zenon DEF DecideLoad, Begin, rows
  <2>2. GenerateSchedule(p) => batches' = batches
    BY DEF GenerateSchedule
  <2> QED  BY <1>2, <2>1, <2>2 DEF Officer
<1>3. \A p \in Slots : ~RequestFails(p)
  BY DEF RequestFails, rows
<1>4. \A c \in Courses : ~ClearPrerequisite(c)
  BY DEF ClearPrerequisite
<1> QED  BY <1>1, <1>2, <1>3, <1>4 DEF Next

\* Only a decision applies a batch.
LEMMA OnlyDecisionsApply ==
  ASSUME LInv, Next, NEW b \in DOMAIN batches, Becomes(b, "APPLIED")
  PROVE  \E p \in Slots : \E op \in {"approve", "override"} :
            ApplyBatch(p, op) /\ b = request[p].batch
<1>1. batches' # batches /\ batches'[b] # batches[b]
  BY DEF Becomes
<1>2. ASSUME NEW p \in Slots, SubmitCommit(p) PROVE FALSE
  <2>1. request[p] \in Request /\ batches \in Seq(BatchRow)
    BY DEF LInv, OInv, IInv, TypeOK
  <2>2. Judged(request[p]) \in BatchRow
    BY <2>1, JudgedType
  <2>3. batches'[b] = batches[b]
    BY <1>2, <2>1, <2>2, BatchAppended DEF SubmitCommit
  <2> QED  BY <1>1, <2>3
<1>3. ASSUME NEW p \in Slots, RejectBatch(p) PROVE FALSE
  <2>1. PICK d, old : d = request[p].batch /\ old = batches[d]
    OBVIOUS
  <2>2. d \in DOMAIN batches /\ old \in BatchRow
    BY <1>3, <2>1 DEF RejectBatch, Serving, LInv, OInv, IInv, TypeOK, RequestOK
  <2>3. PICK row : row = [old EXCEPT !.status = "REJECTED", !.justified = TRUE]
    OBVIOUS
  <2>4. batches' = [batches EXCEPT ![d] = row]
    BY <1>3, <2>1, <2>2, <2>3 DEF RejectBatch, BatchRow, LInv, OInv, IInv, TypeOK
  <2>5. row.status = "REJECTED"
    BY <2>2, <2>3 DEF BatchRow
  <2> QED  BY <1>1, <2>4, <2>5 DEF Becomes
<1>4. \E p \in Slots : \E op \in {"approve", "override"} : ApplyBatch(p, op)
  BY <1>1, <1>2, <1>3, OnlyCommitsWrite
<1>5. PICK p \in Slots, op \in {"approve", "override"} : ApplyBatch(p, op)
  BY <1>4
<1>6. b = request[p].batch
  BY <1>1, <1>5 DEF ApplyBatch
<1> QED  BY <1>5, <1>6

\* A batch applied to the links it was judged on does what it asked for.
LEMMA AppliedLoad ==
  ASSUME LInv, NEW p \in Slots, NEW op \in {"approve", "override"}, ApplyBatch(p, op),
         NEW b, b = request[p].batch, batches[b].approved, links = batches[b].baseline
  PROVE  /\ WithinLoad(Load(Active(links')))
         /\ \A c \in DOMAIN batches[b].items :
               c \in Active(links') <=> batches[b].items[c].action = "ADD"
<1>1. PICK row : row = batches[b]
  OBVIOUS
<1>2. request[p].op \in Deciding /\ b \in DOMAIN batches
  BY DEF ApplyBatch, Serving, Deciding, LInv, OInv, IInv, RequestOK
<1>3. row \in BatchRow /\ FitsBaseline(row) /\ row.baseline = links
  BY <1>1, <1>2 DEF LInv, OInv, IInv, TypeOK, VerdictsFit
<1>4. request[p].links = links
  BY <1>2 DEF LInv, LoadedStands
<1>5. PICK S \in SUBSET Courses :
        row.items \in [S -> [action : Actions, status : ItemStatuses]]
  BY <1>3 DEF BatchRow, Items
<1>6. \A c \in Courses :
        links'[c] = IF c \in DOMAIN row.items
                    THEN IF row.items[c].action = "ADD" THEN "active" ELSE "dropped"
                    ELSE links[c]
  BY <1>1, <1>4 DEF ApplyBatch, Linked
<1> DEFINE before == Active(links)
           added == Asking(row, "ADD")
           gone == Asking(row, "DROP")
<1>7. /\ before \in SUBSET Courses /\ added \in SUBSET Courses /\ gone \in SUBSET before
      /\ added \cap before = {}
      /\ \A c \in DOMAIN row.items : c \in added \/ c \in gone
  BY <1>3, <1>5 DEF Active, Asking, FitsBaseline, Actions
<1>8. Active(links') = (before \ gone) \cup added
  BY <1>5, <1>6, <1>7 DEF Active, Asking
<1>9. \A c \in DOMAIN row.items : c \in Active(links') <=> row.items[c].action = "ADD"
  BY <1>5, <1>6 DEF Active
<1>10. WithinLoad(Load(before) + Load(added) - Load(gone))
  BY <1>3 DEF FitsBaseline
<1> HIDE DEF before, added, gone
<1>11. Load((before \ gone) \cup added) = Load(before \ gone) + Load(added)
  BY <1>7, LoadUnion
<1>12. Load(before) = Load(before \ gone) + Load(gone)
  <2>1. (before \ gone) \cup gone = before
    BY <1>7
  <2>2. Load((before \ gone) \cup gone) = Load(before \ gone) + Load(gone)
    BY <1>7, LoadUnion
  <2> QED  BY <2>1, <2>2
<1>13. Load(before \ gone) \in Int /\ Load(gone) \in Int /\ Load(added) \in Int
  BY <1>7, LoadOf
<1>14. Load(Active(links')) = Load(before) + Load(added) - Load(gone)
  BY <1>8, <1>11, <1>12, <1>13
<1> QED  BY <1>1, <1>9, <1>10, <1>14

\* When officers take turns, a batch the agent has approved, applied to the links the
\* agent saw, leaves 12 to 22 credit hours and each of its items done (process_batch).
THEOREM LoadStaysKept == OfficersTakeTurns /\ Spec => LoadKept
<1>1. ASSUME LInv, Next
      PROVE  \A b \in DOMAIN batches :
               Becomes(b, "APPLIED") /\ batches[b].approved /\ links = batches[b].baseline
               => /\ WithinLoad(Load(Active(links')))
                  /\ \A c \in DOMAIN batches[b].items :
                        c \in Active(links') <=> batches[b].items[c].action = "ADD"
  BY <1>1, OnlyDecisionsApply, AppliedLoad
<1>2. OfficersTakeTurns => OfficersTakeTurns'
  BY DEF OfficersTakeTurns
<1>3. ASSUME LInv, [Next]_vars, ~UNCHANGED vars
      PROVE  \A b \in DOMAIN batches :
               Becomes(b, "APPLIED") /\ batches[b].approved /\ links = batches[b].baseline
               => /\ WithinLoad(Load(Active(links')))
                  /\ \A c \in DOMAIN batches[b].items :
                        c \in Active(links') <=> batches[b].items[c].action = "ADD"
  BY <1>1, <1>3
<1> QED  BY <1>2, <1>3, LoadInit, LoadStep, PTL DEF Spec, LoadKept

-----------------------------------------------------------------------------
(* Clashes, when everything but the submissions takes turns.               *)

Placing == Deciding \cup {"accept", "schedule"}

OneOffice ==
    \A p, q \in Slots : Serves[p] \cap Placing # {} /\ Serves[q] \cap Placing # {} => p = q

\* The timetables of the student's own section have no two courses at one hour, as
\* scheduling generates them (TimetableSound of Scheduling).
HomeFits ==
    \A table \in Timetables : \A c, d \in Courses :
        c # d => table[Home][c] \cap table[Home][d] = {}

\* Whoever accepts a section has one course, and it still fits.
FitsStill(p) ==
    request[p].op = "accept" =>
        \E c \in Courses : request[p].course = {c} /\ Viable(request[p].section, c)

CInv ==
    /\ OInv
    /\ \A p \in Slots : FitsStill(p)

LEMMA OfficeServes ==
  ASSUME OneOffice, CInv, NEW p \in Slots, NEW q \in Slots,
         request[q].op = "accept",
         request[p].op \in Placing \/ ("schedule" \in Serves[p] /\ request[p].at = "idle")
  PROVE  q = p /\ request[p].at = "busy"
<1>1. "none" \notin Placing /\ "accept" \in Placing /\ "schedule" \in Placing
  BY DEF Placing, Deciding
<1>2. /\ request[q].op \in Serves[q] /\ request[q].at = "busy"
      /\ request[p].op # "none" => request[p].op \in Serves[p]
  BY <1>1 DEF CInv, OInv, DecideOK
<1> QED  BY <1>1, <1>2 DEF OneOffice

LEMMA TurnsOfOfficers == OneOffice => OfficersTakeTurns
BY DEF OneOffice, OfficersTakeTurns, Placing

\* The schedule stays as it is while somebody accepts.
LEMMA FitsKept ==
  ASSUME CInv, NEW p \in Slots, NEW r, request' = [request EXCEPT ![p] = r],
         \/ UNCHANGED <<links, timetable, additions>>
         \/ \A q \in Slots : request[q].op = "accept" => q = p,
         r.op # "accept"
  PROVE  \A q \in Slots : FitsStill(q)'
<1> SUFFICES ASSUME NEW q \in Slots PROVE FitsStill(q)'
  OBVIOUS
<1>1. request'[q] = IF q = p THEN r ELSE request[q]
  BY DEF CInv, OInv, IInv, TypeOK
<1>2. CASE request'[q].op # "accept"
  BY <1>2 DEF FitsStill
<1>3. CASE request'[q].op = "accept"
  <2>1. q # p /\ request'[q] = request[q] /\ request[q].op = "accept"
    BY <1>1, <1>3
  <2>2. UNCHANGED <<links, timetable, additions>>
    BY <2>1
  <2>3. FitsStill(q)
    BY DEF CInv
  <2> QED  BY <2>1, <2>2, <2>3 DEF FitsStill, Viable, SlotsOf, EffectiveSlots, Active
<1> QED  BY <1>2, <1>3

LEMMA FitsBegun ==
  ASSUME CInv, NEW p \in Slots, NEW r \in Request, Begin(p, r),
         r.op = "accept" => \E c \in Courses : r.course = {c} /\ Viable(r.section, c)
  PROVE  \A q \in Slots : FitsStill(q)'
<1>1. PICK busy : busy = [r EXCEPT !.at = "busy"]
  OBVIOUS
<1>2. busy.op = r.op /\ busy.course = r.course /\ busy.section = r.section
  BY <1>1 DEF Request
<1>3. request' = [request EXCEPT ![p] = busy] /\ UNCHANGED <<links, timetable, additions>>
  BY <1>1 DEF Begin, rows
<1>4. CASE r.op # "accept"
  BY <1>2, <1>3, <1>4, FitsKept
<1>5. CASE r.op = "accept"
  <2> SUFFICES ASSUME NEW q \in Slots PROVE FitsStill(q)'
    OBVIOUS
  <2>1. request'[q] = IF q = p THEN busy ELSE request[q]
    BY <1>3 DEF CInv, OInv, IInv, TypeOK
  <2>2. CASE q = p
    BY <1>2, <1>3, <1>5, <2>1, <2>2 DEF FitsStill, Viable, SlotsOf, EffectiveSlots, Active
  <2>3. CASE q # p
    <3>1. FitsStill(q) /\ request'[q] = request[q]
      BY <2>1, <2>3 DEF CInv
    <3> QED  BY <1>3, <3>1 DEF FitsStill, Viable, SlotsOf, EffectiveSlots, Active
  <2> QED  BY <2>2, <2>3
<1> QED  BY <1>4, <1>5

LEMMA FitsEnded ==
  ASSUME CInv, NEW p \in Slots, Finish(p),
         \/ UNCHANGED <<links, timetable, additions>>
         \/ \A q \in Slots : request[q].op = "accept" => q = p
  PROVE  \A q \in Slots : FitsStill(q)'
<1>1. PICK r : r = Rest
  OBVIOUS
<1>2. r.op # "accept" /\ request' = [request EXCEPT ![p] = r]
  BY <1>1 DEF Rest, Finish
<1> QED  BY <1>2, FitsKept

LEMMA OfficeStep == OneOffice /\ CInv /\ [Next]_vars => CInv'
<1> SUFFICES ASSUME OneOffice, CInv, [Next]_vars PROVE \A q \in Slots : FitsStill(q)'
  BY TurnsOfOfficers, OfficersStep DEF CInv
<1> DEFINE Goal == \A q \in Slots : FitsStill(q)'
<1>1. CASE UNCHANGED vars
  <2> SUFFICES ASSUME NEW q \in Slots PROVE FitsStill(q)'
    OBVIOUS
  <2>1. FitsStill(q)
    BY DEF CInv
  <2> QED  BY <1>1, <2>1 DEF vars, FitsStill, Viable, SlotsOf, EffectiveSlots, Active
<1>2. ASSUME NEW p \in Slots, Student(p) PROVE Goal
  <2>1. ASSUME NEW r \in Request, Begin(p, r), r.op = "submit" PROVE Goal
    BY <2>1, FitsBegun
  <2>2. ASSUME NEW c \in Courses, NEW s \in Sections, AcceptLoad(p, c, s) PROVE Goal
    <3>1. PICK r \in Request : /\ Begin(p, r) /\ r.op = "accept"
                               /\ r.course = {c} /\ r.section = s
      BY <2>2, Begun DEF CInv, OInv
    <3>2. Viable(r.section, c)
      BY <2>2, <3>1 DEF AcceptLoad
    <3> QED  BY <3>1, <3>2, FitsBegun
  <2>3. CASE AcceptCommit(p)
    <3>1. \A q \in Slots : request[q].op = "accept" => q = p
      <4>1. request[p].op \in Placing
        BY <2>3 DEF AcceptCommit, Serving, Placing
      <4> QED  BY <4>1, OfficeServes
    <3> QED  BY <2>3, <3>1, FitsEnded DEF AcceptCommit
  <2>4. CASE SubmitCommit(p)
    BY <2>4, FitsEnded DEF SubmitCommit
  <2> HIDE DEF Goal
  <2>5. ASSUME NEW S \in SUBSET Courses, NEW changes \in [S -> Actions],
               NEW intime \in BOOLEAN, SubmitLoad(p, changes, intime)
        PROVE  Goal
    <3>1. PICK r \in Request : Begin(p, r) /\ r.op = "submit"
      BY <2>5, Begun DEF CInv, OInv
    <3> QED  BY <2>1, <3>1
  <2> QED  BY <1>2, <2>2, <2>3, <2>4, <2>5 DEF Student
<1>3. ASSUME NEW p \in Slots, Officer(p) PROVE Goal
  <2>1. ASSUME NEW b \in DOMAIN batches, NEW op \in Deciding, DecideLoad(p, op, b) PROVE Goal
    <3>1. PICK r \in Request : Begin(p, r) /\ r.op = op
      BY <2>1, Begun DEF CInv, OInv
    <3>2. r.op # "accept"
      BY <3>1 DEF Deciding
    <3> QED  BY <3>1, <3>2, FitsBegun
  <2>2. CASE GenerateSchedule(p)
    <3>1. ASSUME NEW q \in Slots, request[q].op = "accept" PROVE FALSE
      BY <2>2, <3>1, OfficeServes DEF GenerateSchedule
    <3> QED  BY <2>2, <3>1 DEF GenerateSchedule, FitsStill
  <2>3. ASSUME NEW op \in {"approve", "override"}, ApplyBatch(p, op) PROVE Goal
    <3>1. \A q \in Slots : request[q].op = "accept" => q = p
      <4>1. request[p].op \in Placing
        BY <2>3 DEF ApplyBatch, Serving, Placing, Deciding
      <4> QED  BY <4>1, OfficeServes
    <3> QED  BY <2>3, <3>1, FitsEnded DEF ApplyBatch
  <2>4. CASE RejectBatch(p)
    BY <2>4, FitsEnded DEF RejectBatch
  <2> QED  BY <1>3, <2>1, <2>2, <2>3, <2>4 DEF Officer, Deciding
<1>4. ASSUME NEW p \in Slots, RequestFails(p) PROVE Goal
  BY <1>4, FitsEnded DEF RequestFails, rows
<1>5. ASSUME NEW c \in Courses, ClearPrerequisite(c) PROVE Goal
  <2> SUFFICES ASSUME NEW q \in Slots PROVE FitsStill(q)'
    OBVIOUS
  <2>1. FitsStill(q)
    BY DEF CInv
  <2> QED  BY <1>5, <2>1 DEF ClearPrerequisite, FitsStill, Viable, SlotsOf, EffectiveSlots, Active
<1> QED  BY <1>1, <1>2, <1>3, <1>4, <1>5 DEF Next

LEMMA OfficeInit == Init => CInv
<1> SUFFICES ASSUME Init PROVE CInv
  OBVIOUS
<1>1. \A p \in Slots : request[p].op = "none"
  BY DEF Init, Rest
<1> QED  BY <1>1, OfficersInit DEF CInv, FitsStill

\* A section that is accepted meets nothing: it fitted, and nothing has changed.
LEMMA AcceptMeetsNothing ==
  ASSUME CInv, NEW p \in Slots, AcceptCommit(p), Clash'
  PROVE  Clash
<1>1. PICK c, s : /\ c \in Courses /\ s = request[p].section
                 /\ request[p].course = {c} /\ Viable(s, c)
  BY DEF CInv, FitsStill, AcceptCommit, Serving
<1>2. UNCHANGED <<links, timetable>> /\ additions' = additions \cup SlotsOf(s, c)
  BY <1>1 DEF AcceptCommit
<1>3. PICK old, new : old = EffectiveSlots /\ new = SlotsOf(s, c)
  OBVIOUS
<1>4. EffectiveSlots' = old \cup new
  <2> DEFINE home == UNION {SlotsOf(Home, x) : x \in Active(links)}
  <2>1. home' = home
    BY <1>2 DEF SlotsOf, Active
  <2>2. EffectiveSlots' = additions' \cup home' /\ EffectiveSlots = additions \cup home
    BY DEF EffectiveSlots
  <2> HIDE DEF home
  <2> QED  BY <1>2, <1>3, <2>1, <2>2
<1>5. PICK a, b : /\ a \in old \cup new /\ b \in old \cup new
                  /\ a.course # b.course /\ a.time = b.time
  BY <1>4 DEF Clash, Collide
<1>6. \A x \in new : x.course = c
  BY <1>3 DEF SlotsOf
<1>7. \A x \in new, y \in old : y.course # c => x.time # y.time
  BY <1>1, <1>3 DEF Viable, Collide
<1>8. a \in old /\ b \in old
  BY <1>5, <1>6, <1>7
<1> QED  BY <1>3, <1>5, <1>8 DEF Clash, Collide

\* A batch that puts no course back meets nothing new.
LEMMA DropMeetsNothing ==
  ASSUME CInv, NEW p \in Slots, NEW op \in {"approve", "override"}, ApplyBatch(p, op), Clash',
         \A c \in DOMAIN batches[request[p].batch].items :
            batches[request[p].batch].items[c].action = "ADD" => links[c] = "active"
  PROVE  Clash
<1>1. PICK items : items = batches[request[p].batch].items
  OBVIOUS
<1>2. ASSUME NEW c \in Courses, links'[c] = "active" PROVE links[c] = "active"
  BY <1>1, <1>2 DEF ApplyBatch, Linked
<1>3. additions' \subseteq additions /\ UNCHANGED timetable
  BY DEF ApplyBatch
<1>4. EffectiveSlots' \subseteq EffectiveSlots
  <2> DEFINE home == UNION {SlotsOf(Home, x) : x \in Active(links)}
  <2>1. Active(links)' \subseteq Active(links)
    BY <1>2 DEF Active
  <2>2. \A x : SlotsOf(Home, x)' = SlotsOf(Home, x)
    BY <1>3 DEF SlotsOf
  <2>3. home' \subseteq home
    BY <2>1, <2>2
  <2>4. EffectiveSlots' = additions' \cup home' /\ EffectiveSlots = additions \cup home
    BY DEF EffectiveSlots
  <2> HIDE DEF home
  <2> QED  BY <1>3, <2>3, <2>4
<1> QED  BY <1>4 DEF Clash, Collide

\* A new timetable: the student's own section alone has no clash.
LEMMA TimetableMeetsNothing ==
  ASSUME HomeFits, CInv, NEW p \in Slots, GenerateSchedule(p)
  PROVE  ~Clash'
<1>1. PICK table \in Timetables : timetable' = table
  BY DEF GenerateSchedule
<1>2. \A a \in EffectiveSlots' : a.course \in Courses /\ a.time \in table[Home][a.course]
  BY <1>1 DEF GenerateSchedule, EffectiveSlots, SlotsOf, Active
<1> QED  BY <1>2 DEF Clash, Collide, HomeFits

\* When everything but the submissions takes turns, on timetables in which the own
\* section has no clash, the choice of a section never makes two courses meet; only
\* a batch that puts a course back does (accept_section_for_added_course).
THEOREM ClashesFromAdd == OneOffice /\ HomeFits /\ Spec => ClashFromAdd
<1> DEFINE Added == \E b \in DOMAIN batches :
              /\ Becomes(b, "APPLIED")
              /\ \E c \in DOMAIN batches[b].items :
                    batches[b].items[c].action = "ADD" /\ links[c] # "active"
<1>1. ASSUME OneOffice, HomeFits, CInv, [Next]_vars, ~UNCHANGED vars,
             links' # links \/ additions' # additions
      PROVE  Clash \/ ~Clash' \/ Added
  <2>1. ASSUME NEW p \in Slots, NEW op \in {"approve", "override"}, ApplyBatch(p, op),
               Clash', ~Clash
        PROVE  Added
    <3>1. PICK b : b = request[p].batch
      OBVIOUS
    <3>2. PICK c \in DOMAIN batches[b].items :
             batches[b].items[c].action = "ADD" /\ links[c] # "active"
      <4>1. ~ \A c \in DOMAIN batches[request[p].batch].items :
                 batches[request[p].batch].items[c].action = "ADD" => links[c] = "active"
        BY <1>1, <2>1, DropMeetsNothing
      <4> QED  BY <3>1, <4>1
    <3>3. request[p].op \in Deciding
      BY <2>1 DEF ApplyBatch, Serving, Deciding
    <3>4. /\ b \in DOMAIN batches /\ batches[b] \in BatchRow
          /\ batches[b].status \in {"AGENT_APPROVED", "AGENT_DENIED"}
      BY <3>1, <3>3, TurnsOfOfficers, OnlyDecider, <1>1 DEF CInv
    <3>5. PICK row : row = Applied(batches[b], op)
      OBVIOUS
    <3>6. batches' = [batches EXCEPT ![b] = row] /\ row.status = "APPLIED"
      BY <2>1, <3>1, <3>4, <3>5 DEF ApplyBatch, Applied, BatchRow
    <3>7. Becomes(b, "APPLIED")
      BY <3>4, <3>6 DEF Becomes
    <3> QED  BY <3>2, <3>4, <3>7
  <2> HIDE DEF Added
  <2>2. \/ \E p \in Slots : \/ AcceptCommit(p) \/ GenerateSchedule(p)
                            \/ \E op \in {"approve", "override"} : ApplyBatch(p, op)
    BY <1>1 DEF Next, Student, Officer, SubmitLoad, SubmitCommit, AcceptLoad, DecideLoad,
                RejectBatch, RequestFails, ClearPrerequisite, Begin, rows
  <2> QED  BY <1>1, <2>1, <2>2, AcceptMeetsNothing, TimetableMeetsNothing
<1>2. (OneOffice => OneOffice') /\ (HomeFits => HomeFits')
  BY DEF OneOffice, HomeFits
<1>3. OneOffice /\ Spec => []CInv
  BY <1>2, OfficeInit, OfficeStep, PTL DEF Spec
<1>4. OneOffice /\ HomeFits /\ CInv /\ [Next]_vars =>
        [links' # links \/ additions' # additions => Clash \/ ~Clash' \/ Added]_vars
  BY <1>1
<1> HIDE DEF Added
<1>5. OneOffice /\ HomeFits /\ Spec =>
        [][links' # links \/ additions' # additions => Clash \/ ~Clash' \/ Added]_vars
  BY <1>2, <1>3, <1>4, PTL DEF Spec
<1> QED  BY <1>5 DEF ClashFromAdd, Added
=============================================================================
