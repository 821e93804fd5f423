------------------------- MODULE RegistrationProofs -------------------------
(***************************************************************************)
(* Theorems about the registration of a student, for any number of terms,  *)
(* courses and request slots.                                              *)
(***************************************************************************)
EXTENDS RegistrationViews, FiniteSetTheorems, WellFoundedInduction, TLAPS

-----------------------------------------------------------------------------
(* Types.                                                                  *)

AtRest == {"NONE", "REGISTRATION_OPEN", "PAYMENT_HOLD", "REGISTERED"}

LEMMA RestType == Rest \in Requests /\ Rest.phase = "idle"
  BY RegistrationAssumption
  DEF Rest, Requests, Phases, Kinds, Status, AllowedTransitions, Outcomes,
      SubmitPath

LEMMA StatusFacts ==
  /\ AtRest \subseteq Status
  /\ DraftStates \subseteq Status \ {"NONE"}
  /\ PayableStates \subseteq Status \ {"NONE"}
BY DEF AtRest, Status, AllowedTransitions, DraftStates, PayableStates

\* The path of a submission: where it leaves the registration, and that every
\* status on it is one the state machine knows and none of them is NONE.
LEMMA PathFacts ==
  ASSUME NEW o \in Outcomes
  PROVE  /\ SubmitPath[o] \in Seq(Status \ {"NONE"})
         /\ Len(SubmitPath[o]) \in Nat \ {0}
         /\ SubmitPath[o][Len(SubmitPath[o])] \in AtRest \ {"NONE"}
         /\ SubmitPath[o][Len(SubmitPath[o])] = "REGISTERED" => o = "registered"
<1>0. "CHECKING_PREREQUISITES" \in Status \ {"NONE"}
      /\ "REGISTRATION_OPEN" \in Status \ {"NONE"}
      /\ "CHECKING_PAYMENT" \in Status \ {"NONE"}
      /\ "PAYMENT_HOLD" \in Status \ {"NONE"}
      /\ "VALIDATION_SUCCESS" \in Status \ {"NONE"}
      /\ "REGISTERED" \in Status \ {"NONE"}
  BY DEF Status, AllowedTransitions
<1> HIDE DEF Status
<1>1. CASE o = "bounced"
  <2>1. SubmitPath[o] = <<"CHECKING_PREREQUISITES", "REGISTRATION_OPEN">>
    BY <1>1 DEF SubmitPath
  <2> QED  BY <1>0, <2>1 DEF AtRest
<1>2. CASE o = "held"
  <2>1. SubmitPath[o] =
          <<"CHECKING_PREREQUISITES", "CHECKING_PAYMENT", "PAYMENT_HOLD">>
    BY <1>2 DEF SubmitPath
  <2> QED  BY <1>0, <2>1 DEF AtRest
<1>3. CASE o = "registered"
  <2>1. SubmitPath[o] = <<"CHECKING_PREREQUISITES", "CHECKING_PAYMENT",
                          "VALIDATION_SUCCESS", "REGISTERED">>
    BY <1>3 DEF SubmitPath
  <2> QED  BY <1>0, <2>1, <1>3 DEF AtRest
<1> QED  BY <1>1, <1>2, <1>3 DEF Outcomes, SubmitPath

\* What _transition appends: well-typed rows, of which only one that starts in
\* NONE comes from NONE.
LEMMA RowsFacts ==
  ASSUME NEW s \in Status, NEW path \in Seq(Status \ {"NONE"})
  PROVE  /\ Rows(s, path) \in Seq(Status \X Status)
         /\ Len(Rows(s, path)) = Len(path)
         /\ s # "NONE" => \A i \in 1..Len(path) : Rows(s, path)[i][1] # "NONE"
<1> HIDE DEF Status
<1>1. \A i \in 1..Len(path) : path[i] \in Status \ {"NONE"}
  OBVIOUS
<1>2. Len(path) \in Nat
  OBVIOUS
<1>3. \A i \in 1..Len(path) :
        /\ Rows(s, path)[i] \in Status \X Status
        /\ s # "NONE" => Rows(s, path)[i][1] # "NONE"
  <2> SUFFICES ASSUME NEW i \in 1..Len(path)
               PROVE  /\ Rows(s, path)[i] \in Status \X Status
                      /\ s # "NONE" => Rows(s, path)[i][1] # "NONE"
    OBVIOUS
  <2>1. CASE i = 1
    BY <1>1, <2>1 DEF Rows
  <2>2. CASE i # 1
    <3>1. i - 1 \in 1..Len(path)
      BY <1>2, <2>2
    <3> QED  BY <1>1, <2>2, <3>1 DEF Rows
  <2> QED  BY <2>1, <2>2
<1>4. Rows(s, path) = [i \in 1..Len(path) |-> Rows(s, path)[i]]
  BY DEF Rows
<1>5. Rows(s, path) \in [1..Len(path) -> Status \X Status]
  BY <1>3, <1>4
<1> QED  BY <1>2, <1>3, <1>5

\* A request that changes nothing but its own slot.
LEMMA QuietType ==
  ASSUME TypeOK, NEW r \in [Handlers -> Requests], request' = r,
         UNCHANGED <<windowOpen, status, courses, history, reference, minted,
                     overrides, paid, settled>>
  PROVE  TypeOK'
  BY DEF TypeOK

\* Where a request is in a phase, the phase and the fields of its slot.
LEMMA SlotType ==
  ASSUME TypeOK, NEW h \in Handlers
  PROVE  /\ request[h] \in Requests
         /\ request[h].term \in Terms
         /\ request[h].seen \in Status
         /\ request[h].outcome \in Outcomes
         /\ request[h].want \in SUBSET Courses
         /\ request[h].links \in SUBSET Courses
         /\ request[h].held \in SUBSET Courses
         /\ request[h].waits \in SUBSET Courses
         /\ request[h].listed \in SUBSET Courses
         /\ request[h].kind \in Kinds
  BY DEF TypeOK, Requests

LEMMA FinishType ==
  ASSUME TypeOK, NEW h \in Handlers, Finish(h)
  PROVE  request' \in [Handlers -> Requests]
  BY RestType DEF TypeOK, Finish

LEMMA AdmitType ==
  ASSUME TypeOK, NEW h \in Handlers, NEW k, NEW t \in Terms, NEW p \in Phases,
         NEW W \in SUBSET Courses, Admit(h, k, t, p, W)
  PROVE  request' \in [Handlers -> Requests]
<1>1. k \in Kinds
  BY RegistrationAssumption DEF Admit
<1>2. status[t] \in Status
  BY StatusFacts DEF TypeOK, AtRest
<1>3. [Rest EXCEPT !.phase = p, !.kind = k, !.term = t,
                   !.seen = status[t], !.want = W] \in Requests
  BY <1>1, <1>2, RestType DEF Requests
<1> QED  BY <1>3 DEF Admit, TypeOK

LEMMA ArriveType ==
  ASSUME TypeOK, NEW h \in Handlers, NEW t \in Terms, Arrive(h, t)
  PROVE  TypeOK'
<1>1. request' \in [Handlers -> Requests]
  <2>0. {"create", "link", "write", "mint", "mark"} \subseteq Phases
    BY DEF Phases
  <2>1. ASSUME NEW W \in SUBSET Courses, BeginRegister(h, t, W)
        PROVE  request' \in [Handlers -> Requests]
    BY <2>0, <2>1, AdmitType DEF BeginRegister
  <2>2. CASE BeginSubmit(h, t)
    BY <2>0, <2>2, AdmitType DEF BeginSubmit
  <2>3. ASSUME NEW k \in {"add", "remove"}, NEW c \in Courses, BeginEdit(h, k, t, c)
        PROVE  request' \in [Handlers -> Requests]
    BY <2>0, <2>3, AdmitType DEF BeginEdit
  <2>4. CASE BeginInitiate(h, t)
    BY <2>0, <2>4, AdmitType DEF BeginInitiate
  <2>5. ASSUME NEW r \in 1..MaxReferences, BeginCallback(h, t, r)
        PROVE  request' \in [Handlers -> Requests]
    BY <2>0, <2>5, AdmitType DEF BeginCallback
  <2>6. CASE BeginForm(h, t)
    BY <2>0, <2>6, AdmitType DEF BeginForm
  <2> QED  BY <2>1, <2>2, <2>3, <2>4, <2>5, <2>6 DEF Arrive
<1>2. UNCHANGED <<windowOpen, status, courses, history, reference, minted,
                  overrides, paid, settled>>
  BY DEF Arrive, BeginRegister, BeginSubmit, BeginEdit, BeginInitiate,
         BeginCallback, BeginForm
<1> QED  BY <1>1, <1>2, QuietType

LEMMA ContinueType ==
  ASSUME TypeOK, NEW h \in Handlers, Continue(h)
  PROVE  TypeOK'
<1> DEFINE q == request[h]
<1>a. /\ q \in Requests /\ q.term \in Terms /\ q.seen \in Status
      /\ q.outcome \in Outcomes /\ q.want \in SUBSET Courses
      /\ q.links \in SUBSET Courses /\ q.listed \in SUBSET Courses
      /\ q.held \in SUBSET Courses /\ q.waits \in SUBSET Courses
      /\ NextRows(h) \subseteq Courses
  BY SlotType DEF NextRows
<1>b. {"idle", "create", "link", "flush", "check", "commit", "clear"} \subseteq Phases
  BY DEF Phases
<1>c. request \in [Handlers -> Requests] /\ courses[q.term] \in SUBSET Courses
  BY <1>a DEF TypeOK
<1>d. "REGISTRATION_OPEN" \in Status \ {"NONE"} /\ "NONE" \in Status
  BY DEF Status, AllowedTransitions
<1>e. history[q.term] \in Seq(Status \X Status)
  BY <1>a DEF TypeOK
<1> HIDE DEF Status
<1>1. CASE CreateDraft(h)
  <2>1. request' \in [Handlers -> Requests]
    BY <1>1, <1>a, <1>b, <1>c, <1>d DEF CreateDraft, Requests
  <2>2. Append(history[q.term], <<"NONE", "REGISTRATION_OPEN">>)
          \in Seq(Status \X Status)
    BY <1>d, <1>e
  <2>3. history' \in [Terms -> Seq(Status \X Status)]
    BY <1>1, <2>2 DEF CreateDraft, TypeOK
  <2> QED  BY <1>1, <2>1, <2>3 DEF CreateDraft, TypeOK
<1>2. CASE DraftRefused(h)
  BY <1>2, FinishType, QuietType DEF DraftRefused
<1>3. CASE ReadLinks(h)
  <2>1. request' \in [Handlers -> Requests]
    BY <1>3, <1>a, <1>b, <1>c DEF ReadLinks, Requests
  <2> QED  BY <1>3, <2>1, QuietType DEF ReadLinks
<1>4. CASE FlushWaits(h) \/ FlushLink(h)
  <2>1. request' \in [Handlers -> Requests]
    BY <1>4, <1>a, <1>b, <1>c DEF FlushWaits, FlushLink, Requests
  <2> QED  BY <1>4, <2>1, QuietType DEF FlushWaits, FlushLink
<1>5. CASE FlushRefused(h) \/ DeadlockVictim(h)
  BY <1>5, FinishType, QuietType DEF FlushRefused, DeadlockVictim
<1>6. CASE ReadCourses(h)
  <2>1. request' \in [Handlers -> Requests]
    BY <1>6, <1>a, <1>b, <1>c DEF ReadCourses, Requests, Added, Deleted
  <2> QED  BY <1>6, <2>1, QuietType DEF ReadCourses
<1>7. CASE Check(h)
  <2>1. Verdict(q.term, q.listed) \in Outcomes
    BY DEF Verdict, Outcomes, SubmitPath
  <2>2. request' \in [Handlers -> Requests]
    BY <1>7, <2>1, <1>a, <1>b, <1>c DEF Check, Requests
  <2> QED  BY <1>7, <2>2, QuietType DEF Check
<1>8. CASE CommitSubmission(h)
  <2> DEFINE path == SubmitPath[q.outcome]
  <2>1. path \in Seq(Status \ {"NONE"}) /\ path[Len(path)] \in AtRest \ {"NONE"}
    BY <1>a, PathFacts
  <2>2. Rows(q.seen, path) \in Seq(Status \X Status)
    BY <1>a, <2>1, RowsFacts
  <2>3. history[q.term] \o Rows(q.seen, path) \in Seq(Status \X Status)
    BY <1>e, <2>2
  <2>4. history' = [history EXCEPT ![q.term] = @ \o Rows(q.seen, path)]
        /\ status' = [status EXCEPT ![q.term] = path[Len(path)]]
    BY <1>8 DEF CommitSubmission
  <2>5. history' \in [Terms -> Seq(Status \X Status)]
    BY <2>3, <2>4 DEF TypeOK
  <2>6. status' \in [Terms -> AtRest]
    BY <2>1, <2>4 DEF TypeOK, AtRest
  <2>7. courses' \in [Terms -> SUBSET Courses]
    BY <1>8, <1>a DEF CommitSubmission, TypeOK, Added, Deleted
  <2>8. request' \in [Handlers -> Requests]
    BY <1>8, FinishType DEF CommitSubmission
  <2> QED  BY <1>8, <2>5, <2>6, <2>7, <2>8 DEF CommitSubmission, TypeOK, AtRest
<1>9. CASE AddCourseToDraft(h)
  <2>1. request' \in [Handlers -> Requests]
    BY <1>9, FinishType DEF AddCourseToDraft
  <2>2. courses' \in [Terms -> SUBSET Courses]
    BY <1>9, <1>a DEF AddCourseToDraft, TypeOK
  <2> QED  BY <1>9, <2>1, <2>2 DEF AddCourseToDraft, TypeOK
<1>10. CASE RemoveCourseFromDraft(h)
  <2>1. request' \in [Handlers -> Requests]
    BY <1>10, FinishType DEF RemoveCourseFromDraft
  <2>2. courses' \in [Terms -> SUBSET Courses]
    BY <1>10, <1>a DEF RemoveCourseFromDraft, TypeOK
  <2> QED  BY <1>10, <2>1, <2>2 DEF RemoveCourseFromDraft, TypeOK
<1>11. CASE MintReference(h)
  <2>1. request' \in [Handlers -> Requests]
    BY <1>11, FinishType DEF MintReference
  <2>2. minted[q.term] + 1 \in 0..MaxReferences
    BY <1>11, <1>a, RegistrationAssumption DEF MintReference, TypeOK
  <2> QED  BY <1>11, <2>1, <2>2 DEF MintReference, TypeOK
<1>12. CASE MarkPaid(h)
  <2>1. request' \in [Handlers -> Requests]
    <3>1. CASE q.seen = "PAYMENT_HOLD"
      BY <1>12, <1>a, <1>b, <1>c, <3>1 DEF MarkPaid, Requests
    <3>2. CASE q.seen # "PAYMENT_HOLD"
      BY <1>12, <3>2, FinishType DEF MarkPaid
    <3> QED  BY <3>1, <3>2
  <2>2. paid' \subseteq Courses /\ settled' \in [Terms -> SUBSET Courses]
    BY <1>12, <1>a, <1>c DEF MarkPaid, TypeOK
  <2> QED  BY <1>12, <2>1, <2>2 DEF MarkPaid, TypeOK
<1>13. CASE FormRefused(h)
  BY <1>13, FinishType, QuietType DEF FormRefused
<1>14. CASE ClearHold(h)
  <2>1. request' \in [Handlers -> Requests]
    BY <1>14, FinishType DEF ClearHold
  <2>2. <<"REGISTRATION_OPEN">> \in Seq(Status \ {"NONE"})
    BY <1>d
  <2>3. Rows(q.seen, <<"REGISTRATION_OPEN">>) \in Seq(Status \X Status)
    BY <1>a, <2>2, RowsFacts
  <2>4. history[q.term] \o Rows(q.seen, <<"REGISTRATION_OPEN">>)
          \in Seq(Status \X Status)
    BY <1>e, <2>3
  <2>5. history' \in [Terms -> Seq(Status \X Status)]
    BY <1>14, <2>4 DEF ClearHold, TypeOK
  <2> QED  BY <1>14, <2>1, <2>5 DEF ClearHold, TypeOK
<1> QED  BY <1>1, <1>2, <1>3, <1>4, <1>5, <1>6, <1>7, <1>8, <1>9, <1>10, <1>11,
            <1>12, <1>13, <1>14 DEF Continue

LEMMA TypeInit == Init => TypeOK
  <1>1. <<>> \in Seq(Status \X Status)
    OBVIOUS
  <1> HIDE DEF Status
  <1> QED  BY <1>1, RestType, RegistrationAssumption DEF Init, TypeOK

LEMMA TypeStep == TypeOK /\ [Next]_vars => TypeOK'
<1> SUFFICES ASSUME TypeOK, [Next]_vars PROVE TypeOK'
  OBVIOUS
<1>1. ASSUME NEW t \in Terms, OpenWindow(t) \/ CloseWindow(t) PROVE TypeOK'
  BY <1>1 DEF OpenWindow, CloseWindow, TypeOK
<1>2. ASSUME NEW t \in Terms, NEW c \in Courses, GrantPrerequisiteOverride(t, c)
      PROVE  TypeOK'
  BY <1>2 DEF GrantPrerequisiteOverride, TypeOK
<1>3. ASSUME NEW h \in Handlers, RequestFails(h) PROVE TypeOK'
  BY <1>3, FinishType, QuietType DEF RequestFails
<1>4. CASE Restart
  BY <1>4, RestType DEF Restart, TypeOK
<1>5. CASE UNCHANGED vars
  BY <1>5 DEF vars, TypeOK
<1> QED  BY <1>1, <1>2, <1>3, <1>4, <1>5, ArriveType, ContinueType DEF Next

\* Every committed registration is in a state in which a request can end: never
\* between two checks, however the requests overlap or fail.
THEOREM TypeCorrect == Spec => []TypeOK
  BY TypeInit, TypeStep, PTL DEF Spec

-----------------------------------------------------------------------------
(* One registration per student and term.                                  *)

(* A request past its look-up has found a registration, and it is there.   *)
FoundOK ==
  \A h \in Handlers :
    request[h].phase \notin {"idle", "create"} =>
      /\ request[h].seen # "NONE"
      /\ status[request[h].term] # "NONE"

(* The history is empty while there is no registration; afterwards its     *)
(* first row, and no other, comes from nothing.                            *)
StartsOnce(H) == \A i \in 1..Len(H) : H[i][1] = "NONE" <=> i = 1

HistoryOK ==
  \A t \in Terms : /\ history[t] = <<>> <=> status[t] = "NONE"
                   /\ StartsOnce(history[t])

CreatedInv == TypeOK /\ FoundOK /\ HistoryOK

LEMMA AppendStartsOnce ==
  ASSUME NEW H \in Seq(Status \X Status), NEW R \in Seq(Status \X Status),
         H # <<>>, StartsOnce(H), \A i \in 1..Len(R) : R[i][1] # "NONE"
  PROVE  H \o R # <<>> /\ StartsOnce(H \o R)
<1> HIDE DEF Status
<1>1. Len(H) \in Nat \ {0} /\ Len(R) \in Nat /\ Len(H \o R) = Len(H) + Len(R)
  OBVIOUS
<1>2. ASSUME NEW i \in 1..Len(H \o R)
      PROVE  (H \o R)[i][1] = "NONE" <=> i = 1
  <2>1. CASE i <= Len(H)
    <3>1. i \in 1..Len(H) /\ (H \o R)[i] = H[i]
      BY <1>1, <2>1
    <3> QED  BY <3>1 DEF StartsOnce
  <2>2. CASE i > Len(H)
    <3>1. i - Len(H) \in 1..Len(R) /\ (H \o R)[i] = R[i - Len(H)] /\ i # 1
      BY <1>1, <2>2
    <3> QED  BY <3>1
  <2> QED  BY <1>1, <2>1, <2>2
<1> QED  BY <1>1, <1>2 DEF StartsOnce

\* What a step can do to a slot.
LEMMA SlotStep ==
  ASSUME TypeOK, [Next]_vars, NEW h \in Handlers
  PROVE  \/ request'[h] = request[h]
         \/ request'[h] = Rest
         \/ /\ Idle(h)
            /\ request'[h].term \in Terms
            /\ request'[h].seen = status[request'[h].term]
            /\ request'[h].phase # "create" => request'[h].seen # "NONE"
            /\ status' = status
         \/ /\ request'[h].term = request[h].term
            /\ request'[h].seen = "REGISTRATION_OPEN"
            /\ status'[request[h].term] = "REGISTRATION_OPEN"
         \/ /\ request[h].phase \notin {"idle", "create"}
            /\ request'[h].term = request[h].term
            /\ request'[h].seen = request[h].seen
<1>a. \A g \in Handlers : request[g] \in Requests
  BY DEF TypeOK
<1>b. request \in [Handlers -> Requests]
  BY DEF TypeOK
<1>c. Rest \in Requests
  BY RestType
<1> USE DEF Finish
<1>1. CASE UNCHANGED vars
  BY <1>1 DEF vars
<1>2. CASE Restart
  BY <1>2 DEF Restart
<1>3. ASSUME NEW t \in Terms, OpenWindow(t) \/ CloseWindow(t)
      PROVE  request' = request
  BY <1>3 DEF OpenWindow, CloseWindow
<1>4. ASSUME NEW t \in Terms, NEW c \in Courses, GrantPrerequisiteOverride(t, c)
      PROVE  request' = request
  BY <1>4 DEF GrantPrerequisiteOverride
<1>5. ASSUME NEW g \in Handlers, NEW t \in Terms, Arrive(g, t)
      PROVE  \/ request'[h] = request[h]
             \/ /\ Idle(h)
                /\ request'[h].term \in Terms
                /\ request'[h].seen = status[request'[h].term]
                /\ request'[h].phase # "create" => request'[h].seen # "NONE"
                /\ status' = status
  <2>0. status' = status
    BY <1>5 DEF Arrive, BeginRegister, BeginSubmit, BeginEdit, BeginInitiate,
                BeginCallback, BeginForm
  <2>1. ASSUME NEW k, NEW p, NEW W, Admit(g, k, t, p, W),
               p # "create" => status[t] # "NONE"
        PROVE  \/ request'[h] = request[h]
               \/ /\ Idle(h)
                  /\ request'[h].term \in Terms
                  /\ request'[h].seen = status[request'[h].term]
                  /\ request'[h].phase # "create" => request'[h].seen # "NONE"
    <3>1. CASE g # h
      BY <2>1, <3>1, <1>b DEF Admit
    <3>2. CASE g = h
      <4> DEFINE r == [Rest EXCEPT !.phase = p, !.kind = k, !.term = t,
                                   !.seen = status[t], !.want = W]
      <4>1. r.phase = p /\ r.term = t /\ r.seen = status[t]
        BY <1>c DEF Requests
      <4>2. request'[h] = r /\ Idle(h)
        BY <2>1, <3>2, <1>b DEF Admit
      <4> QED  BY <2>1, <4>1, <4>2
    <3> QED  BY <3>1, <3>2
  <2>2. "NONE" \notin DraftStates /\ "NONE" \notin PayableStates
    BY StatusFacts
  <2>3. ASSUME NEW W \in SUBSET Courses, BeginRegister(g, t, W)
        PROVE  \E k, p : Admit(g, k, t, p, W) /\ (p # "create" => status[t] # "NONE")
    BY <2>3 DEF BeginRegister
  <2>4. ASSUME NEW k, NEW c, BeginEdit(g, k, t, c)
        PROVE  Admit(g, k, t, "write", {c}) /\ status[t] # "NONE"
    BY <2>2, <2>4 DEF BeginEdit
  <2>5. ASSUME NEW r, BeginCallback(g, t, r)
        PROVE  Admit(g, "callback", t, "mark", {}) /\ status[t] # "NONE"
    BY <2>2, <2>5 DEF BeginCallback
  <2>6. CASE BeginSubmit(g, t)
    BY <2>0, <2>1, <2>2, <2>6 DEF BeginSubmit
  <2>7. CASE BeginInitiate(g, t)
    BY <2>0, <2>1, <2>2, <2>7 DEF BeginInitiate
  <2>8. CASE BeginForm(g, t)
    BY <2>0, <2>1, <2>2, <2>8 DEF BeginForm
  <2>9. CASE \E W \in SUBSET Courses : BeginRegister(g, t, W)
    BY <2>0, <2>1, <2>3, <2>9
  <2>10. CASE \E k \in {"add", "remove"}, c \in Courses : BeginEdit(g, k, t, c)
    BY <2>0, <2>1, <2>4, <2>10
  <2>11. CASE \E r \in 1..MaxReferences : BeginCallback(g, t, r)
    BY <2>0, <2>1, <2>5, <2>11
  <2> QED  BY <1>5, <2>6, <2>7, <2>8, <2>9, <2>10, <2>11 DEF Arrive
<1>6. ASSUME NEW g \in Handlers, Continue(g) \/ RequestFails(g), g # h
      PROVE  request'[h] = request[h]
  BY <1>6, <1>b
  DEF Continue, RequestFails, CreateDraft, DraftRefused, ReadLinks, FlushWaits,
      FlushLink, FlushRefused, DeadlockVictim, ReadCourses, Check,
      CommitSubmission, AddCourseToDraft,
      RemoveCourseFromDraft, MintReference, MarkPaid, FormRefused, ClearHold
<1>7. CASE CreateDraft(h)
  <2>1. request[h].term \in Terms
    BY SlotType
  <2>2. /\ request'[h].term = request[h].term
        /\ request'[h].seen = "REGISTRATION_OPEN"
    BY <1>7, <1>a, <1>b DEF CreateDraft, Requests
  <2> QED  BY <1>7, <2>1, <2>2 DEF CreateDraft, TypeOK
<1>8. CASE \/ DraftRefused(h) \/ FlushRefused(h) \/ DeadlockVictim(h)
           \/ CommitSubmission(h)
           \/ AddCourseToDraft(h) \/ RemoveCourseFromDraft(h)
           \/ MintReference(h) \/ FormRefused(h) \/ ClearHold(h)
           \/ RequestFails(h)
  BY <1>8, <1>b
  DEF RequestFails, DraftRefused, FlushRefused,
        DeadlockVictim, CommitSubmission,
      AddCourseToDraft, RemoveCourseFromDraft, MintReference, FormRefused,
      ClearHold
<1>9. CASE \/ ReadLinks(h) \/ FlushWaits(h) \/ FlushLink(h)
           \/ ReadCourses(h) \/ Check(h)
  BY <1>9, <1>a, <1>b DEF ReadLinks, FlushWaits, FlushLink, ReadCourses,
        Check, Requests
<1>10. CASE MarkPaid(h)
  BY <1>10, <1>a, <1>b DEF MarkPaid, Requests
<1>11. CASE Continue(h) \/ RequestFails(h)
  BY <1>11, <1>7, <1>8, <1>9, <1>10 DEF Continue
<1> QED  BY <1>1, <1>2, <1>3, <1>4, <1>5, <1>6, <1>11 DEF Next

\* What a step can do to the registration of a term: nothing, create it, or append
\* the rows of a request that has found it.
LEMMA RegistrationStep ==
  ASSUME CreatedInv, [Next]_vars, NEW t \in Terms
  PROVE  \/ status'[t] = status[t] /\ history'[t] = history[t]
         \/ /\ status[t] = "NONE"
            /\ status'[t] # "NONE"
            /\ history'[t] = Append(history[t], <<"NONE", "REGISTRATION_OPEN">>)
         \/ /\ status[t] # "NONE"
            /\ status'[t] # "NONE"
            /\ \E R \in Seq(Status \X Status) :
                 /\ \A i \in 1..Len(R) : R[i][1] # "NONE"
                 /\ history'[t] = history[t] \o R
<1>a. status \in [Terms -> AtRest] /\ history \in [Terms -> Seq(Status \X Status)]
  BY DEF CreatedInv, TypeOK, AtRest
<1>b. ASSUME NEW h \in Handlers
      PROVE  /\ request[h].term \in Terms /\ request[h].seen \in Status
             /\ request[h].outcome \in Outcomes
  BY SlotType DEF CreatedInv
<1> HIDE DEF Status
<1>1. ASSUME NEW h \in Handlers, CreateDraft(h)
      PROVE  \/ status'[t] = status[t] /\ history'[t] = history[t]
             \/ /\ status[t] = "NONE"
                /\ status'[t] # "NONE"
                /\ history'[t] =
                     Append(history[t], <<"NONE", "REGISTRATION_OPEN">>)
  BY <1>1, <1>a, <1>b DEF CreateDraft
<1>2. ASSUME NEW h \in Handlers, NEW path \in Seq(Status \ {"NONE"}), NEW s,
             request[h].phase \notin {"idle", "create"}, s # "NONE",
             status' = [status EXCEPT ![request[h].term] = s],
             history' = [history EXCEPT ![request[h].term] =
                           @ \o Rows(request[h].seen, path)]
      PROVE  \/ status'[t] = status[t] /\ history'[t] = history[t]
             \/ /\ status[t] # "NONE"
                /\ status'[t] # "NONE"
                /\ \E R \in Seq(Status \X Status) :
                     /\ \A i \in 1..Len(R) : R[i][1] # "NONE"
                     /\ history'[t] = history[t] \o R
  <2>1. CASE request[h].term # t
    BY <1>2, <1>a, <2>1
  <2>2. CASE request[h].term = t
    <3>1. request[h].seen # "NONE" /\ status[t] # "NONE"
      BY <1>2, <2>2 DEF CreatedInv, FoundOK
    <3>2. /\ Rows(request[h].seen, path) \in Seq(Status \X Status)
          /\ \A i \in 1..Len(Rows(request[h].seen, path)) :
               Rows(request[h].seen, path)[i][1] # "NONE"
      BY <1>b, <3>1, RowsFacts
    <3>3. history'[t] = history[t] \o Rows(request[h].seen, path)
          /\ status'[t] = s
      BY <1>2, <1>a, <2>2
    <3> QED  BY <1>2, <3>1, <3>2, <3>3
  <2> QED  BY <2>1, <2>2
<1>3. ASSUME NEW h \in Handlers, CommitSubmission(h)
      PROVE  \E path \in Seq(Status \ {"NONE"}) : \E s :
               /\ request[h].phase \notin {"idle", "create"} /\ s # "NONE"
               /\ status' = [status EXCEPT ![request[h].term] = s]
               /\ history' = [history EXCEPT ![request[h].term] =
                                @ \o Rows(request[h].seen, path)]
  BY <1>3, <1>b, PathFacts DEF CommitSubmission
<1>4. ASSUME NEW h \in Handlers, ClearHold(h)
      PROVE  \E path \in Seq(Status \ {"NONE"}) : \E s :
               /\ request[h].phase \notin {"idle", "create"} /\ s # "NONE"
               /\ status' = [status EXCEPT ![request[h].term] = s]
               /\ history' = [history EXCEPT ![request[h].term] =
                                @ \o Rows(request[h].seen, path)]
  <2>1. <<"REGISTRATION_OPEN">> \in Seq(Status \ {"NONE"})
    BY DEF Status, AllowedTransitions
  <2> QED  BY <1>4, <2>1 DEF ClearHold
<1>5. ASSUME NEW h \in Handlers, Continue(h), ~CreateDraft(h),
             ~CommitSubmission(h), ~ClearHold(h)
      PROVE  UNCHANGED <<status, history>>
  BY <1>5 DEF Continue, DraftRefused, ReadLinks, FlushWaits, FlushLink,
      FlushRefused, DeadlockVictim,
              ReadCourses, Check, AddCourseToDraft, RemoveCourseFromDraft,
              MintReference, MarkPaid, FormRefused
<1>6. ASSUME ~ \E h \in Handlers : Continue(h)
      PROVE  UNCHANGED <<status, history>>
  <2>1. ASSUME NEW h \in Handlers, NEW u \in Terms, Arrive(h, u)
        PROVE  UNCHANGED <<status, history>>
    BY <2>1 DEF Arrive, BeginRegister, BeginSubmit, BeginEdit, BeginInitiate,
                BeginCallback, BeginForm
  <2> QED  BY <1>6, <2>1 DEF Next, OpenWindow, CloseWindow,
             GrantPrerequisiteOverride, RequestFails, Restart, vars
<1>7. ASSUME NEW h \in Handlers, CommitSubmission(h) \/ ClearHold(h)
      PROVE  \/ status'[t] = status[t] /\ history'[t] = history[t]
             \/ /\ status[t] # "NONE"
                /\ status'[t] # "NONE"
                /\ \E R \in Seq(Status \X Status) :
                     /\ \A i \in 1..Len(R) : R[i][1] # "NONE"
                     /\ history'[t] = history[t] \o R
  <2>1. PICK path \in Seq(Status \ {"NONE"}) : \E s :
               /\ request[h].phase \notin {"idle", "create"} /\ s # "NONE"
               /\ status' = [status EXCEPT ![request[h].term] = s]
               /\ history' = [history EXCEPT ![request[h].term] =
                                @ \o Rows(request[h].seen, path)]
    BY <1>3, <1>4, <1>7
  <2>2. PICK s :
               /\ request[h].phase \notin {"idle", "create"} /\ s # "NONE"
               /\ status' = [status EXCEPT ![request[h].term] = s]
               /\ history' = [history EXCEPT ![request[h].term] =
                                @ \o Rows(request[h].seen, path)]
    BY <2>1
  <2> QED  BY <1>2, <2>2
<1>8. CASE \E h \in Handlers : Continue(h)
  BY <1>1, <1>5, <1>7, <1>8
<1>9. CASE ~ \E h \in Handlers : Continue(h)
  BY <1>6, <1>9
<1> QED  BY <1>8, <1>9

LEMMA CreatedStep == CreatedInv /\ [Next]_vars => CreatedInv'
<1> SUFFICES ASSUME CreatedInv, [Next]_vars PROVE CreatedInv'
  OBVIOUS
<1>1. TypeOK'
  BY TypeStep DEF CreatedInv
<1>2. \A t \in Terms : status[t] # "NONE" => status'[t] # "NONE"
  BY RegistrationStep
<1>3. FoundOK'
  <2> SUFFICES ASSUME NEW h \in Handlers,
                      request'[h].phase \notin {"idle", "create"}
               PROVE  /\ request'[h].seen # "NONE"
                      /\ status'[request'[h].term] # "NONE"
    BY DEF FoundOK
  <2>1. request[h].term \in Terms /\ TypeOK
    BY SlotType DEF CreatedInv
  <2>2. request[h].phase \notin {"idle", "create"} =>
          request[h].seen # "NONE" /\ status[request[h].term] # "NONE"
    BY DEF CreatedInv, FoundOK
  <2>3. request'[h] # Rest
    BY RestType
  <2> QED  BY <1>2, <2>1, <2>2, <2>3, SlotStep
<1>4. HistoryOK'
  <2> SUFFICES ASSUME NEW t \in Terms
               PROVE  /\ history'[t] = <<>> <=> status'[t] = "NONE"
                      /\ StartsOnce(history'[t])
    BY DEF HistoryOK, StartsOnce
  <2>1. /\ history[t] = <<>> <=> status[t] = "NONE"
        /\ StartsOnce(history[t])
        /\ history[t] \in Seq(Status \X Status)
    BY DEF CreatedInv, HistoryOK, TypeOK
  <2>2. CASE status'[t] = status[t] /\ history'[t] = history[t]
    BY <2>1, <2>2 DEF StartsOnce
  <2>3. CASE /\ status[t] = "NONE"
             /\ status'[t] # "NONE"
             /\ history'[t] = Append(history[t], <<"NONE", "REGISTRATION_OPEN">>)
    <3> DEFINE row == <<"NONE", "REGISTRATION_OPEN">>
    <3>1. \A x : Append(<<>>, x) = <<x>>
      OBVIOUS
    <3>2. history'[t] = <<row>> /\ row[1] = "NONE"
      BY <2>1, <2>3, <3>1
    <3> HIDE DEF row
    <3>3. \A x : Len(<<x>>) = 1 /\ <<x>>[1] = x /\ <<x>> # <<>>
      OBVIOUS
    <3> QED  BY <2>3, <3>2, <3>3 DEF StartsOnce
  <2>4. CASE /\ status[t] # "NONE"
             /\ status'[t] # "NONE"
             /\ \E R \in Seq(Status \X Status) :
                  /\ \A i \in 1..Len(R) : R[i][1] # "NONE"
                  /\ history'[t] = history[t] \o R
    <3>1. PICK R \in Seq(Status \X Status) :
                 /\ \A i \in 1..Len(R) : R[i][1] # "NONE"
                 /\ history'[t] = history[t] \o R
      BY <2>4
    <3>2. history[t] \o R # <<>> /\ StartsOnce(history[t] \o R)
      BY <2>1, <2>4, <3>1, AppendStartsOnce
    <3> QED  BY <2>4, <3>1, <3>2
  <2> QED  BY <2>2, <2>3, <2>4, RegistrationStep
<1> QED  BY <1>1, <1>3, <1>4 DEF CreatedInv

LEMMA CreatedInit == Init => CreatedInv
<1> SUFFICES ASSUME Init PROVE FoundOK /\ HistoryOK
  BY TypeInit DEF CreatedInv
<1>1. FoundOK
  BY RestType DEF Init, FoundOK
<1>2. HistoryOK
  BY DEF Init, HistoryOK, StartsOnce
<1> QED  BY <1>1, <1>2

LEMMA CreatedImplies == CreatedInv => CreatedOnce
<1> SUFFICES ASSUME CreatedInv, NEW t \in Terms
             PROVE  Cardinality({i \in 1..Len(history[t]) :
                                   history[t][i][1] = "NONE"}) =
                      (IF status[t] = "NONE" THEN 0 ELSE 1)
  BY DEF CreatedOnce
<1>1. /\ history[t] = <<>> <=> status[t] = "NONE"
      /\ \A i \in 1..Len(history[t]) : history[t][i][1] = "NONE" <=> i = 1
      /\ history[t] \in Seq(Status \X Status)
  BY DEF CreatedInv, HistoryOK, StartsOnce, TypeOK
<1> HIDE DEF Status
<1>2. CASE status[t] = "NONE"
  <2>1. {i \in 1..Len(history[t]) : history[t][i][1] = "NONE"} = {}
    BY <1>1, <1>2
  <2> QED  BY <1>2, <2>1, FS_EmptySet
<1>3. CASE status[t] # "NONE"
  <2>1. Len(history[t]) \in Nat \ {0}
    BY <1>1, <1>3
  <2>2. {i \in 1..Len(history[t]) : history[t][i][1] = "NONE"} = {1}
    BY <1>1, <2>1
  <2> QED  BY <1>3, <2>2, FS_Singleton
<1> QED  BY <1>2, <1>3

\* However many first submissions of a student run side by side, a term has one
\* registration, created once and never undone.
THEOREM OneRegistration == Spec => []CreatedOnce
  BY CreatedInit, CreatedStep, CreatedImplies, PTL DEF Spec

-----------------------------------------------------------------------------
(* The payment gate, when the student's own requests come one at a time.   *)

Writers == {"register", "submit", "add", "remove"}
EditPhases == {"create", "link", "flush", "check", "commit", "write"}

(* Only one slot takes the requests that change links or submit; any       *)
(* number of others take payments and forms.                               *)
OneLane(lane) == \A h \in Handlers \ {lane} : Serves[h] \intersect Writers = {}

(* A slot is in a phase of its kind of request, which is one it serves.    *)
SlotOK(h, q) ==
  q.phase \in EditPhases => q.kind \in Writers \intersect Serves[h]

KindOK == \A h \in Handlers : SlotOK(h, request[h])

AllSettled == UNION {settled[u] : u \in Terms}

(* While the lane works on a registration, that one is not final; the list *)
(* it has handed to the agent is what its commit will leave; and a verdict *)
(* to finalise covers that list.                                           *)
LaneOK(lane) ==
  /\ request[lane].phase \in EditPhases =>
       status[request[lane].term] # "REGISTERED"
  /\ request[lane].phase \in {"check", "commit"} =>
       request[lane].listed =
         (courses[request[lane].term] \ (request[lane].held \intersect request[lane].links))
         \union (request[lane].held \ request[lane].links)
  /\ request[lane].phase = "commit" /\ request[lane].outcome = "registered" =>
       request[lane].listed \subseteq AllSettled

GateInv(lane) ==
  /\ TypeOK /\ KindOK /\ LaneOK(lane)
  /\ paid \subseteq AllSettled
  /\ RegisteredSettled

LEMMA RestSlot == ASSUME NEW h PROVE SlotOK(h, Rest)
  BY DEF SlotOK, Rest, EditPhases

LEMMA KindStep == TypeOK /\ KindOK /\ [Next]_vars => KindOK'
<1> SUFFICES ASSUME TypeOK, KindOK, [Next]_vars, NEW h \in Handlers
             PROVE  SlotOK(h, request'[h])
  BY DEF KindOK, SlotOK
<1>a. /\ request \in [Handlers -> Requests]
      /\ request[h] \in Requests
      /\ SlotOK(h, request[h])
      /\ SlotOK(h, Rest)
      /\ Rest \in Requests
  BY RestType, RestSlot DEF TypeOK, KindOK, Rest
<1> USE DEF Finish
<1>1. CASE UNCHANGED vars \/ Restart
  BY <1>1, <1>a DEF vars, Restart
<1>2. ASSUME NEW t \in Terms, NEW c \in Courses, GrantPrerequisiteOverride(t, c)
      PROVE  SlotOK(h, request'[h])
  BY <1>2, <1>a DEF GrantPrerequisiteOverride
<1>3. ASSUME NEW g \in Handlers, NEW t \in Terms, Arrive(g, t)
      PROVE  SlotOK(h, request'[h])
  <2>1. ASSUME NEW k, NEW p, NEW W, Admit(g, k, t, p, W),
               p \in EditPhases => k \in Writers
        PROVE  SlotOK(h, request'[h])
    <3>1. CASE g # h
      BY <2>1, <3>1, <1>a DEF Admit
    <3>2. CASE g = h
      <4> DEFINE r == [Rest EXCEPT !.phase = p, !.kind = k, !.term = t,
                                   !.seen = status[t], !.want = W]
      <4>1. r.phase = p /\ r.kind = k
        BY <1>a DEF Requests
      <4>2. request'[h] = r /\ k \in Serves[h]
        BY <2>1, <3>2, <1>a DEF Admit
      <4> QED  BY <2>1, <4>1, <4>2 DEF SlotOK
    <3> QED  BY <3>1, <3>2
  <2>2. ASSUME NEW W \in SUBSET Courses, BeginRegister(g, t, W)
        PROVE  SlotOK(h, request'[h])
    BY <2>1, <2>2 DEF BeginRegister, Writers
  <2>3. CASE BeginSubmit(g, t)
    BY <2>1, <2>3 DEF BeginSubmit, Writers
  <2>4. ASSUME NEW k \in {"add", "remove"}, NEW c \in Courses, BeginEdit(g, k, t, c)
        PROVE  SlotOK(h, request'[h])
    BY <2>1, <2>4 DEF BeginEdit, Writers
  <2>5. ASSUME NEW r, BeginInitiate(g, t) \/ BeginCallback(g, t, r) \/ BeginForm(g, t)
        PROVE  SlotOK(h, request'[h])
    <3>1. \E k, p : Admit(g, k, t, p, {}) /\ p \notin EditPhases
      BY <2>5 DEF BeginInitiate, BeginCallback, BeginForm, EditPhases
    <3> QED  BY <2>1, <3>1
  <2> QED  BY <1>3, <2>2, <2>3, <2>4, <2>5 DEF Arrive
<1>4. ASSUME NEW g \in Handlers, Continue(g) \/ RequestFails(g), g # h
      PROVE  request'[h] = request[h]
  BY <1>4, <1>a
  DEF Continue, RequestFails, CreateDraft, DraftRefused, ReadLinks, FlushWaits,
      FlushLink, FlushRefused, DeadlockVictim, ReadCourses, Check,
      CommitSubmission, AddCourseToDraft,
      RemoveCourseFromDraft, MintReference, MarkPaid, FormRefused, ClearHold
<1>5. CASE \/ DraftRefused(h) \/ FlushRefused(h) \/ DeadlockVictim(h)
           \/ CommitSubmission(h)
           \/ AddCourseToDraft(h) \/ RemoveCourseFromDraft(h)
           \/ MintReference(h) \/ FormRefused(h) \/ ClearHold(h)
           \/ RequestFails(h)
  BY <1>5, <1>a
  DEF RequestFails, DraftRefused, FlushRefused,
        DeadlockVictim, CommitSubmission,
      AddCourseToDraft, RemoveCourseFromDraft, MintReference, FormRefused,
      ClearHold
<1>6. CASE ReadLinks(h)
  <2>1. /\ request'[h].kind = "register" /\ request[h].kind = "register"
        /\ request[h].phase \in EditPhases
    BY <1>6, <1>a DEF ReadLinks, Requests, EditPhases
  <2> QED  BY <1>a, <2>1 DEF SlotOK
<1>7. CASE \/ CreateDraft(h) \/ FlushWaits(h) \/ FlushLink(h)
           \/ ReadCourses(h) \/ Check(h)
  <2>1. /\ request'[h].kind = request[h].kind
        /\ request[h].phase \in EditPhases
    BY <1>7, <1>a
    DEF CreateDraft, FlushWaits, FlushLink, ReadCourses,
        Check, Requests, EditPhases
  <2> QED  BY <1>a, <2>1 DEF SlotOK
<1>8. CASE MarkPaid(h)
  <2>1. CASE request[h].seen # "PAYMENT_HOLD"
    BY <1>8, <2>1, <1>a DEF MarkPaid
  <2>2. CASE request[h].seen = "PAYMENT_HOLD"
    <3>1. /\ request'[h].kind = request[h].kind
          /\ request'[h].phase = "clear"
      BY <1>8, <2>2, <1>a DEF MarkPaid, Requests
    <3> QED  BY <1>a, <3>1 DEF SlotOK, EditPhases
  <2> QED  BY <2>1, <2>2
<1>9. CASE Continue(h) \/ RequestFails(h)
  BY <1>5, <1>6, <1>7, <1>8, <1>9 DEF Continue
<1>10. ASSUME NEW g \in Handlers, Continue(g) \/ RequestFails(g)
       PROVE  SlotOK(h, request'[h])
  <2>1. CASE g = h
    BY <1>9, <1>10, <2>1
  <2>2. CASE g # h
    <3>1. request'[h] = request[h]
      BY <1>4, <1>10, <2>2
    <3> QED  BY <1>a, <3>1
  <2> QED  BY <2>1, <2>2
<1>11. CASE Next
  <2>1. CASE \E t \in Terms : OpenWindow(t) \/ CloseWindow(t)
    <3>1. request' = request
      BY <2>1 DEF OpenWindow, CloseWindow
    <3> QED  BY <1>a, <3>1
  <2>2. CASE \E t \in Terms, c \in Courses : GrantPrerequisiteOverride(t, c)
    BY <1>2, <2>2
  <2>3. CASE \E g \in Handlers, t \in Terms : Arrive(g, t)
    BY <1>3, <2>3
  <2>4. CASE \E g \in Handlers : Continue(g) \/ RequestFails(g)
    BY <1>10, <2>4
  <2> QED  BY <1>1, <1>11, <2>1, <2>2, <2>3, <2>4 DEF Next
<1> QED  BY <1>1, <1>11

LEMMA EditorIsLane ==
  ASSUME NEW lane \in Handlers, OneLane(lane), KindOK, NEW h \in Handlers,
         request[h].phase \in EditPhases
  PROVE  h = lane
  BY DEF OneLane, KindOK, SlotOK

\* What a step can do to the registration of a term: nothing; leave it a draft
\* with the same courses; or what the end of an edit or of a submission does.
LEMMA RowStep ==
  ASSUME TypeOK, [Next]_vars, NEW t \in Terms
  PROVE  \/ /\ courses'[t] = courses[t]
            /\ status'[t] = "REGISTERED" => status[t] = "REGISTERED"
         \/ \E h \in Handlers :
              /\ request[h].phase = "write"
              /\ request[h].term = t
              /\ status' = status
              /\ request'[h] = Rest
         \/ \E h \in Handlers :
              /\ request[h].phase = "commit"
              /\ request[h].term = t
              /\ courses'[t] =
                   (courses[t] \ (request[h].held \intersect request[h].links))
                   \union (request[h].held \ request[h].links)
              /\ status'[t] = "REGISTERED" => request[h].outcome = "registered"
              /\ request'[h] = Rest
<1> DEFINE Same == /\ courses'[t] = courses[t]
                   /\ status'[t] = "REGISTERED" => status[t] = "REGISTERED"
           Edited == \E h \in Handlers :
                       /\ request[h].phase = "write"
                       /\ request[h].term = t
                       /\ status' = status
                       /\ request'[h] = Rest
           Submitted == \E h \in Handlers :
              /\ request[h].phase = "commit"
              /\ request[h].term = t
              /\ courses'[t] =
                   (courses[t] \ (request[h].held \intersect request[h].links))
                   \union (request[h].held \ request[h].links)
              /\ status'[t] = "REGISTERED" => request[h].outcome = "registered"
              /\ request'[h] = Rest
<1>a. /\ status \in [Terms -> AtRest] /\ courses \in [Terms -> SUBSET Courses]
      /\ request \in [Handlers -> Requests]
  BY DEF TypeOK, AtRest
<1>1. ASSUME NEW h \in Handlers, CommitSubmission(h)
      PROVE  Same \/ Submitted
  <2>1. PICK path \in Seq(Status \ {"NONE"}) : path = SubmitPath[request[h].outcome]
    BY SlotType, PathFacts
  <2>2. /\ path[Len(path)] = "REGISTERED" => request[h].outcome = "registered"
        /\ request[h].term \in Terms
    BY <2>1, SlotType, PathFacts
  <2>3. /\ status' = [status EXCEPT ![request[h].term] = path[Len(path)]]
        /\ request[h].phase = "commit"
        /\ request'[h] = Rest
        /\ courses' = [courses EXCEPT ![request[h].term] =
             (@ \ (request[h].held \intersect request[h].links))
             \union (request[h].held \ request[h].links)]
    BY <1>1, <1>a, <2>1 DEF CommitSubmission, Finish, Added, Deleted
  <2>4. CASE request[h].term # t
    <3>1. Same
      BY <1>a, <2>2, <2>3, <2>4
    <3> QED  BY <3>1
  <2>5. CASE request[h].term = t
    <3>1. /\ courses'[t] = (courses[t] \ (request[h].held \intersect request[h].links))
                           \union (request[h].held \ request[h].links)
          /\ status'[t] = path[Len(path)]
      BY <1>a, <2>2, <2>3, <2>5
    <3> QED  BY <2>2, <2>3, <2>5, <3>1
  <2> QED  BY <2>4, <2>5
<1>2. ASSUME NEW h \in Handlers, AddCourseToDraft(h) \/ RemoveCourseFromDraft(h)
      PROVE  Same \/ Edited
  <2>1. /\ request[h].phase = "write"
        /\ status' = status
        /\ request'[h] = Rest
        /\ request[h].term # t => courses'[t] = courses[t]
    BY <1>2, <1>a, SlotType DEF AddCourseToDraft, RemoveCourseFromDraft, Finish
  <2> QED  BY <2>1
<1>3. ASSUME NEW h \in Handlers, CreateDraft(h) \/ ClearHold(h)
      PROVE  Same
  BY <1>3, <1>a, SlotType DEF CreateDraft, ClearHold
<1>4. ASSUME NEW h \in Handlers, Continue(h), ~CreateDraft(h),
             ~CommitSubmission(h), ~ClearHold(h), ~AddCourseToDraft(h),
             ~RemoveCourseFromDraft(h)
      PROVE  Same
  BY <1>4 DEF Continue, DraftRefused, ReadLinks, FlushWaits, FlushLink,
      FlushRefused, DeadlockVictim,
              ReadCourses, Check, MintReference, MarkPaid, FormRefused
<1>5. ASSUME ~ \E h \in Handlers : Continue(h)
      PROVE  Same
  <2>1. ASSUME NEW h \in Handlers, NEW u \in Terms, Arrive(h, u)
        PROVE  UNCHANGED <<status, courses>>
    BY <2>1 DEF Arrive, BeginRegister, BeginSubmit, BeginEdit, BeginInitiate,
                BeginCallback, BeginForm
  <2> QED  BY <1>5, <2>1 DEF Next, OpenWindow, CloseWindow,
             GrantPrerequisiteOverride, RequestFails, Restart, vars
<1> HIDE DEF Same, Edited, Submitted
<1>6. Same \/ Edited \/ Submitted
  BY <1>1, <1>2, <1>3, <1>4, <1>5
<1> QED  BY <1>6 DEF Same, Edited, Submitted

\* A course once marked by a payment stays on record, and so is every flag.
LEMMA SettledStep ==
  ASSUME TypeOK, paid \subseteq AllSettled, [Next]_vars
  PROVE  AllSettled \subseteq AllSettled' /\ paid' \subseteq AllSettled'
<1>a. settled \in [Terms -> SUBSET Courses]
  BY DEF TypeOK
<1>1. ASSUME NEW h \in Handlers, MarkPaid(h)
      PROVE  AllSettled \subseteq AllSettled' /\ paid' \subseteq AllSettled'
  <2>1. PICK t \in Terms : t = request[h].term
    BY SlotType
  <2>2. /\ paid' = paid \union courses[t]
        /\ settled' = [settled EXCEPT ![t] = @ \union courses[t]]
    BY <1>1, <2>1 DEF MarkPaid
  <2>3. /\ \A u \in Terms : settled[u] \subseteq settled'[u]
        /\ courses[t] \subseteq settled'[t]
    BY <1>a, <2>2
  <2>4. AllSettled \subseteq AllSettled' /\ courses[t] \subseteq AllSettled'
    BY <2>3 DEF AllSettled
  <2> QED  BY <2>2, <2>4
<1>2. ASSUME ~ \E h \in Handlers : MarkPaid(h)
      PROVE  settled' = settled /\ paid' \subseteq paid
  <2>1. ASSUME NEW h \in Handlers, NEW t \in Terms, Arrive(h, t)
        PROVE  UNCHANGED <<paid, settled>>
    BY <2>1 DEF Arrive, BeginRegister, BeginSubmit, BeginEdit, BeginInitiate,
                BeginCallback, BeginForm
  <2>2. ASSUME NEW h \in Handlers, Continue(h)
        PROVE  UNCHANGED <<paid, settled>>
    BY <1>2, <2>2
    DEF Continue, CreateDraft, DraftRefused, ReadLinks, FlushWaits, FlushLink,
      FlushRefused, DeadlockVictim,
        ReadCourses, Check, CommitSubmission, AddCourseToDraft,
        RemoveCourseFromDraft, MintReference, FormRefused, ClearHold
  <2> QED  BY <2>1, <2>2 DEF Next, OpenWindow, CloseWindow,
             GrantPrerequisiteOverride, RequestFails, Restart, vars
<1>3. CASE \E h \in Handlers : MarkPaid(h)
  BY <1>1, <1>3
<1>4. CASE ~ \E h \in Handlers : MarkPaid(h)
  BY <1>2, <1>4 DEF AllSettled
<1> QED  BY <1>3, <1>4

\* What a step can do to a slot, as far as the payment gate can tell.
LEMMA GateSlotStep ==
  ASSUME TypeOK, KindOK, [Next]_vars, NEW h \in Handlers
  PROVE  \/ request'[h] = request[h]
         \/ request'[h].phase \notin EditPhases
         \/ /\ request'[h].phase \notin {"check", "commit"}
            /\ status[request'[h].term] # "REGISTERED"
            /\ status' = status
         \/ /\ request[h].phase \in EditPhases
            /\ request'[h].phase \notin {"check", "commit"}
            /\ request'[h].term = request[h].term
         \/ /\ request[h].phase \in EditPhases
            /\ request'[h].phase = "check"
            /\ request'[h].term = request[h].term
            /\ request'[h].listed =
                 (courses[request[h].term] \ (request'[h].held \intersect request'[h].links))
                 \union (request'[h].held \ request'[h].links)
         \/ /\ request[h].phase = "check"
            /\ request'[h].phase = "commit"
            /\ request'[h].term = request[h].term
            /\ request'[h].held = request[h].held
            /\ request'[h].links = request[h].links
            /\ request'[h].listed = request[h].listed
            /\ request'[h].outcome = "registered" =>
                 request[h].listed \subseteq paid
<1> DEFINE Moved ==
         \/ request'[h] = request[h]
         \/ request'[h].phase \notin EditPhases
         \/ /\ request'[h].phase \notin {"check", "commit"}
            /\ status[request'[h].term] # "REGISTERED"
            /\ status' = status
         \/ /\ request[h].phase \in EditPhases
            /\ request'[h].phase \notin {"check", "commit"}
            /\ request'[h].term = request[h].term
         \/ /\ request[h].phase \in EditPhases
            /\ request'[h].phase = "check"
            /\ request'[h].term = request[h].term
            /\ request'[h].listed =
                 (courses[request[h].term] \ (request'[h].held \intersect request'[h].links))
                 \union (request'[h].held \ request'[h].links)
         \/ /\ request[h].phase = "check"
            /\ request'[h].phase = "commit"
            /\ request'[h].term = request[h].term
            /\ request'[h].held = request[h].held
            /\ request'[h].links = request[h].links
            /\ request'[h].listed = request[h].listed
            /\ request'[h].outcome = "registered" =>
                 request[h].listed \subseteq paid
<1> SUFFICES Moved
  OBVIOUS
<1>a. /\ request \in [Handlers -> Requests]
      /\ request[h] \in Requests
      /\ SlotOK(h, request[h])
      /\ Rest \in Requests /\ Rest.phase \notin EditPhases
      /\ \A t \in Terms : courses[t] \in SUBSET Courses
  BY RestType DEF TypeOK, KindOK, Rest, EditPhases
<1>1. CASE UNCHANGED vars
  BY <1>1 DEF vars
<1>2. CASE Restart
  <2>1. request'[h] = Rest
    BY <1>2 DEF Restart
  <2> QED  BY <1>a, <2>1
<1>3. ASSUME NEW t \in Terms, OpenWindow(t) \/ CloseWindow(t)
      PROVE  Moved
  BY <1>3 DEF OpenWindow, CloseWindow
<1>4. ASSUME NEW t \in Terms, NEW c \in Courses, GrantPrerequisiteOverride(t, c)
      PROVE  Moved
  BY <1>4 DEF GrantPrerequisiteOverride
<1>5. ASSUME NEW g \in Handlers, NEW t \in Terms, Arrive(g, t)
      PROVE  Moved
  <2> DEFINE Admitted(k, p, W) == /\ Admit(g, k, t, p, W)
                                  /\ p \notin {"check", "commit"}
                                  /\ p \in EditPhases => status[t] # "REGISTERED"
  <2>a. ASSUME NEW W, BeginRegister(g, t, W)
        PROVE  Admitted("register", "create", W) \/ Admitted("register", "link", W)
    BY <2>a DEF BeginRegister
  <2>b. ASSUME BeginSubmit(g, t) PROVE Admitted("submit", "link", {})
    BY <2>b DEF BeginSubmit, DraftStates
  <2>c. ASSUME NEW k, NEW c, BeginEdit(g, k, t, c) PROVE Admitted(k, "write", {c})
    BY <2>c DEF BeginEdit, DraftStates
  <2>d. ASSUME BeginInitiate(g, t) PROVE Admitted("initiate", "mint", {})
    BY <2>d DEF BeginInitiate, EditPhases
  <2>e. ASSUME NEW r, BeginCallback(g, t, r) PROVE Admitted("callback", "mark", {})
    BY <2>e DEF BeginCallback, EditPhases
  <2>f. ASSUME BeginForm(g, t) PROVE Admitted("form", "mark", {})
    BY <2>f DEF BeginForm, EditPhases
  <2> HIDE DEF Admitted
  <2>1. \E k, p, W : Admitted(k, p, W)
    BY <1>5, <2>a, <2>b, <2>c, <2>d, <2>e, <2>f DEF Arrive
  <2>2. PICK k, p, W : /\ Admit(g, k, t, p, W)
                       /\ p \notin {"check", "commit"}
                       /\ p \in EditPhases => status[t] # "REGISTERED"
    BY <2>1 DEF Admitted
  <2>3. status' = status
    BY <1>5 DEF Arrive, BeginRegister, BeginSubmit, BeginEdit, BeginInitiate,
                BeginCallback, BeginForm
  <2>4. CASE g # h
    BY <1>a, <2>2, <2>4 DEF Admit
  <2>5. CASE g = h
    <3>1. request'[h].phase = p /\ request'[h].term = t
      BY <1>a, <2>2, <2>5 DEF Admit, Requests
    <3> QED  BY <2>2, <2>3, <3>1
  <2> QED  BY <2>4, <2>5
<1>6. ASSUME NEW g \in Handlers, Continue(g) \/ RequestFails(g), g # h
      PROVE  Moved
  <2>1. request'[h] = request[h]
    BY <1>6, <1>a
    DEF Continue, RequestFails, Finish, CreateDraft, DraftRefused, ReadLinks,
        FlushWaits, FlushLink, FlushRefused, DeadlockVictim, ReadCourses,
        Check, CommitSubmission,
        AddCourseToDraft, RemoveCourseFromDraft, MintReference, MarkPaid,
        FormRefused, ClearHold
  <2> QED  BY <2>1
<1>7. CASE \/ DraftRefused(h) \/ FlushRefused(h) \/ DeadlockVictim(h)
           \/ CommitSubmission(h)
           \/ AddCourseToDraft(h) \/ RemoveCourseFromDraft(h)
           \/ MintReference(h) \/ FormRefused(h) \/ ClearHold(h)
           \/ RequestFails(h)
  <2>1. request'[h] = Rest
    BY <1>7, <1>a
    DEF RequestFails, Finish, DraftRefused, FlushRefused,
        DeadlockVictim, CommitSubmission,
        AddCourseToDraft, RemoveCourseFromDraft, MintReference, FormRefused,
        ClearHold
  <2> QED  BY <1>a, <2>1
<1>8. CASE CreateDraft(h) \/ ReadLinks(h)
  <2>1. /\ request[h].phase \in EditPhases
        /\ request'[h].phase \notin {"check", "commit"}
        /\ request'[h].term = request[h].term
    BY <1>8, <1>a DEF CreateDraft, ReadLinks, Requests, EditPhases
  <2> QED  BY <2>1
<1>9. CASE FlushWaits(h) \/ FlushLink(h)
  <2>1. /\ request[h].phase = "flush"
        /\ request'[h].phase = "flush"
        /\ request'[h].term = request[h].term
    BY <1>9, <1>a DEF FlushWaits, FlushLink, Requests
  <2> QED  BY <2>1 DEF EditPhases
<1>10. CASE ReadCourses(h)
  <2>1. /\ request[h].phase \in EditPhases
        /\ request'[h].phase = "check"
        /\ request'[h].term = request[h].term
        /\ request'[h].held = request[h].held
        /\ request'[h].links = request[h].links
        /\ request'[h].listed =
             (courses[request[h].term] \ Deleted(h)) \union Added(h)
    BY <1>10, <1>a DEF ReadCourses, Requests, EditPhases
  <2> QED  BY <2>1 DEF Added, Deleted
<1>11. CASE Check(h)
  <2>1. /\ request[h].phase = "check"
        /\ request'[h].phase = "commit"
        /\ request'[h].term = request[h].term
        /\ request'[h].held = request[h].held
        /\ request'[h].links = request[h].links
        /\ request'[h].listed = request[h].listed
        /\ request'[h].outcome = Verdict(request[h].term, request[h].listed)
    BY <1>11, <1>a DEF Check, Requests
  <2>2. \A t, S : Verdict(t, S) = "registered" => S \subseteq paid
    BY DEF Verdict, PaymentSettled
  <2> QED  BY <2>1, <2>2
<1>12. CASE MarkPaid(h)
  <2>1. request'[h].phase \notin EditPhases
    BY <1>12, <1>a DEF MarkPaid, Finish, Requests, EditPhases
  <2> QED  BY <2>1
<1> HIDE DEF Moved
<1>13. ASSUME NEW g \in Handlers, Continue(g) \/ RequestFails(g)
       PROVE  Moved
  <2>1. CASE g = h
    BY <2>1, <1>7, <1>8, <1>9, <1>10, <1>11, <1>12, <1>13 DEF Continue
  <2>2. CASE g # h
    BY <2>2, <1>6, <1>13
  <2> QED  BY <2>1, <2>2
<1>14. CASE Next
  <2>1. CASE \E t \in Terms : OpenWindow(t) \/ CloseWindow(t)
    BY <1>3, <2>1
  <2>2. CASE \E t \in Terms, c \in Courses : GrantPrerequisiteOverride(t, c)
    BY <1>4, <2>2
  <2>3. CASE \E g \in Handlers, t \in Terms : Arrive(g, t)
    BY <1>5, <2>3
  <2>4. CASE \E g \in Handlers : Continue(g) \/ RequestFails(g)
    BY <1>13, <2>4
  <2> QED  BY <1>2, <1>14, <2>1, <2>2, <2>3, <2>4 DEF Next
<1> QED  BY <1>1, <1>14

LEMMA GateStep ==
  ASSUME NEW lane \in Handlers, OneLane(lane), GateInv(lane), [Next]_vars
  PROVE  GateInv(lane)'
<1>a. /\ TypeOK /\ KindOK /\ LaneOK(lane) /\ RegisteredSettled
      /\ paid \subseteq AllSettled
      /\ request \in [Handlers -> Requests] /\ request[lane].term \in Terms
  BY SlotType DEF GateInv, TypeOK
<1>b. TypeOK' /\ KindOK'
  BY <1>a, TypeStep, KindStep
<1>c. AllSettled \subseteq AllSettled' /\ paid' \subseteq AllSettled'
  BY <1>a, SettledStep
<1>d. request'[lane].term \in Terms
  BY <1>b DEF TypeOK, Requests
<1>e. Rest.phase \notin EditPhases /\ {"check", "commit", "write"} \subseteq EditPhases
  BY DEF Rest, EditPhases
<1> DEFINE Same(t) == /\ courses'[t] = courses[t]
                      /\ status'[t] = "REGISTERED" => status[t] = "REGISTERED"
           Edited(t) == /\ request[lane].phase = "write"
                        /\ request[lane].term = t
                        /\ status' = status
                        /\ request'[lane] = Rest
           Submitted(t) ==
              /\ request[lane].phase = "commit"
              /\ request[lane].term = t
              /\ courses'[t] =
                   (courses[t] \ (request[lane].held \intersect request[lane].links))
                   \union (request[lane].held \ request[lane].links)
              /\ status'[t] = "REGISTERED" => request[lane].outcome = "registered"
              /\ request'[lane] = Rest
<1>1. ASSUME NEW t \in Terms
      PROVE  Same(t) \/ Edited(t) \/ Submitted(t)
  <2>1. \A h \in Handlers : request[h].phase \in {"write", "commit"} => h = lane
    BY <1>a, <1>e, EditorIsLane
  <2> QED  BY <1>a, <2>1, RowStep
<1>2. RegisteredSettled'
  <2> SUFFICES ASSUME NEW t \in Terms, status'[t] = "REGISTERED"
               PROVE  courses'[t] \subseteq AllSettled'
    BY DEF RegisteredSettled, AllSettled
  <2>1. CASE Same(t)
    <3>1. courses[t] \subseteq AllSettled
      BY <1>a, <2>1 DEF RegisteredSettled, AllSettled
    <3> QED  BY <1>c, <2>1, <3>1
  <2>2. CASE Edited(t)
    BY <1>a, <1>e, <2>2 DEF LaneOK
  <2>3. CASE Submitted(t)
    BY <1>a, <1>c, <2>3 DEF LaneOK
  <2> QED  BY <1>1, <2>1, <2>2, <2>3
<1>3. LaneOK(lane)'
  <2>1. CASE request'[lane].phase \notin EditPhases
    BY <1>e, <2>1 DEF LaneOK
  <2>2. CASE request'[lane].phase \in EditPhases
    <3>1. \A t \in Terms : Same(t)
      BY <1>1, <1>e, <2>2
    <3>2. request[lane].phase \in EditPhases =>
            status[request[lane].term] # "REGISTERED"
      BY <1>a DEF LaneOK
    <3>3. CASE request'[lane] = request[lane]
      BY <1>a, <1>c, <3>1, <3>2, <3>3 DEF LaneOK
    <3>4. CASE /\ request'[lane].phase \notin {"check", "commit"}
               /\ status[request'[lane].term] # "REGISTERED"
               /\ status' = status
      BY <3>4 DEF LaneOK
    <3>5. CASE /\ request[lane].phase \in EditPhases
               /\ request'[lane].phase \notin {"check", "commit"}
               /\ request'[lane].term = request[lane].term
      BY <1>a, <3>1, <3>2, <3>5 DEF LaneOK
    <3>6. CASE /\ request[lane].phase \in EditPhases
               /\ request'[lane].phase = "check"
               /\ request'[lane].term = request[lane].term
               /\ request'[lane].listed =
                    (courses[request[lane].term]
                       \ (request'[lane].held \intersect request'[lane].links))
                    \union (request'[lane].held \ request'[lane].links)
      BY <1>a, <3>1, <3>2, <3>6 DEF LaneOK
    <3>7. CASE /\ request[lane].phase = "check"
               /\ request'[lane].phase = "commit"
               /\ request'[lane].term = request[lane].term
               /\ request'[lane].held = request[lane].held
               /\ request'[lane].links = request[lane].links
               /\ request'[lane].listed = request[lane].listed
               /\ request'[lane].outcome = "registered" =>
                    request[lane].listed \subseteq paid
      <4>1. request'[lane].listed =
              (courses'[request'[lane].term]
                 \ (request'[lane].held \intersect request'[lane].links))
              \union (request'[lane].held \ request'[lane].links)
        BY <1>a, <3>1, <3>7 DEF LaneOK
      <4>2. request'[lane].outcome = "registered" =>
              request'[lane].listed \subseteq AllSettled'
        BY <1>a, <1>c, <3>7
      <4>3. status'[request'[lane].term] # "REGISTERED"
        BY <1>a, <1>e, <3>1, <3>2, <3>7
      <4> QED  BY <4>1, <4>2, <4>3 DEF LaneOK
    <3> QED  BY <1>a, <2>2, <3>3, <3>4, <3>5, <3>6, <3>7, GateSlotStep
  <2> QED  BY <2>1, <2>2
<1> QED  BY <1>b, <1>c, <1>2, <1>3 DEF GateInv

LEMMA GateInit ==
  ASSUME NEW lane \in Handlers, Init
  PROVE  GateInv(lane)
<1>1. TypeOK
  BY TypeInit
<1>2. \A h \in Handlers : request[h] = Rest
  BY DEF Init
<1>3. KindOK
  BY <1>2, RestSlot DEF KindOK
<1>4. LaneOK(lane)
  <2>1. /\ request[lane].phase = "idle"
        /\ "idle" \notin EditPhases /\ {"check", "commit"} \subseteq EditPhases
    BY <1>2, RestType DEF EditPhases
  <2> QED  BY <2>1 DEF LaneOK
<1>5. paid \subseteq AllSettled /\ RegisteredSettled
  BY DEF Init, RegisteredSettled
<1> QED  BY <1>1, <1>3, <1>4, <1>5 DEF GateInv

\* The payment gate holds for every number of terms, courses and slots, where
\* one slot takes all the requests that edit or submit: payments, forms, officers,
\* failures and restarts in between do not open it.
THEOREM PaymentGate ==
  ASSUME NEW CONSTANT lane \in Handlers, OneLane(lane)
  PROVE  Spec => []RegisteredSettled
<1>1. Init => GateInv(lane)
  BY GateInit
<1>2. GateInv(lane) /\ [Next]_vars => GateInv(lane)'
  BY GateStep
<1>3. GateInv(lane) => RegisteredSettled
  BY DEF GateInv
<1> QED  BY <1>1, <1>2, <1>3, PTL DEF Spec
-----------------------------------------------------------------------------
(* What a registration's row and history record, when the student's edits  *)
(* and submissions come one at a time and so do the payments and forms:    *)
(* no request then writes on a status it has not just read.                *)

Cashiers == {"callback", "form"}
OneCashier(pay) ==
  \A h \in Handlers \ {pay} : Serves[h] \intersect Cashiers = {}

Editing == {"link", "flush", "check", "commit", "write"}
Paying == {"mark", "clear"}

(* The status a slot has read is the one it will write over.               *)
DeskOK(h, q, st) ==
  /\ q.phase \in Paying => q.kind \in Cashiers \intersect Serves[h]
  /\ q.phase \in Editing => /\ q.seen = "REGISTRATION_OPEN"
                            /\ st[q.term] = "REGISTRATION_OPEN"
  /\ q.phase = "clear" => q.seen = "PAYMENT_HOLD"
  /\ q.phase \in Paying /\ q.seen = "PAYMENT_HOLD" =>
       st[q.term] = "PAYMENT_HOLD"

DesksOK == \A h \in Handlers : DeskOK(h, request[h], status)

Bystander(q) == q.phase \notin Editing \union Paying

LEMMA PhaseGroups ==
  /\ Editing \subseteq EditPhases
  /\ Editing \intersect Paying = {}
  /\ {"idle", "create", "mint"} \intersect (Editing \union Paying) = {}
  /\ {"commit", "write", "link", "flush", "check"} \subseteq Editing
  /\ {"mark", "clear"} \subseteq Paying
  /\ Rest.phase = "idle"
  BY DEF Editing, Paying, EditPhases, Rest

LEMMA PayerIsCashier ==
  ASSUME NEW pay \in Handlers, OneCashier(pay), DesksOK, NEW h \in Handlers,
         request[h].phase \in Paying
  PROVE  h = pay
  BY DEF OneCashier, DesksOK, DeskOK

LEMMA EditingIsLane ==
  ASSUME NEW lane \in Handlers, OneLane(lane), KindOK, NEW h \in Handlers,
         request[h].phase \in Editing
  PROVE  h = lane
  BY EditorIsLane, PhaseGroups

\* What a step does to the row, the courses and the history of a term: nothing, an
\* edit of the courses, the creation, the end of a submission, or a cleared hold.
LEMMA RowMoves ==
  ASSUME TypeOK, [Next]_vars, NEW t \in Terms
  PROVE  \/ /\ status'[t] = status[t] /\ history'[t] = history[t]
            /\ courses'[t] = courses[t]
         \/ /\ status'[t] = status[t] /\ history'[t] = history[t]
            /\ \E h \in Handlers : /\ request[h].phase = "write"
                                   /\ request[h].term = t
         \/ /\ status[t] = "NONE" /\ status'[t] = "REGISTRATION_OPEN"
            /\ history'[t] = Append(history[t], <<"NONE", "REGISTRATION_OPEN">>)
            /\ courses'[t] = courses[t]
         \/ \E h \in Handlers :
              LET q == request[h] IN
              /\ q.phase = "commit" /\ q.term = t /\ request'[h] = Rest
              /\ status'[t] = SubmitPath[q.outcome][Len(SubmitPath[q.outcome])]
              /\ history'[t] = history[t] \o Rows(q.seen, SubmitPath[q.outcome])
              /\ courses'[t] = (courses[t] \ (q.held \intersect q.links))
                               \union (q.held \ q.links)
         \/ \E h \in Handlers :
              LET q == request[h] IN
              /\ q.phase = "clear" /\ q.term = t /\ request'[h] = Rest
              /\ status'[t] = "REGISTRATION_OPEN"
              /\ history'[t] =
                   history[t] \o Rows(q.seen, <<"REGISTRATION_OPEN">>)
              /\ courses'[t] = courses[t]
<1> DEFINE Same == /\ status'[t] = status[t] /\ history'[t] = history[t]
                   /\ courses'[t] = courses[t]
           Edited == /\ status'[t] = status[t] /\ history'[t] = history[t]
                     /\ \E h \in Handlers : /\ request[h].phase = "write"
                                            /\ request[h].term = t
           Created ==
             /\ status[t] = "NONE" /\ status'[t] = "REGISTRATION_OPEN"
             /\ history'[t] = Append(history[t], <<"NONE", "REGISTRATION_OPEN">>)
             /\ courses'[t] = courses[t]
           Submitted(h) ==
              /\ request[h].phase = "commit" /\ request[h].term = t
              /\ request'[h] = Rest
              /\ status'[t] = SubmitPath[request[h].outcome]
                                        [Len(SubmitPath[request[h].outcome])]
              /\ history'[t] = history[t] \o
                   Rows(request[h].seen, SubmitPath[request[h].outcome])
              /\ courses'[t] =
                   (courses[t] \ (request[h].held \intersect request[h].links))
                   \union (request[h].held \ request[h].links)
           Cleared(h) ==
              /\ request[h].phase = "clear" /\ request[h].term = t
              /\ request'[h] = Rest
              /\ status'[t] = "REGISTRATION_OPEN"
              /\ history'[t] =
                   history[t] \o Rows(request[h].seen, <<"REGISTRATION_OPEN">>)
              /\ courses'[t] = courses[t]
<1>a. /\ status \in [Terms -> AtRest] /\ courses \in [Terms -> SUBSET Courses]
      /\ history \in [Terms -> Seq(Status \X Status)]
      /\ request \in [Handlers -> Requests]
  BY DEF TypeOK, AtRest
<1>b. ASSUME NEW h \in Handlers PROVE request[h].term \in Terms
  BY SlotType
<1> HIDE DEF Status
<1>1. ASSUME NEW h \in Handlers, CommitSubmission(h)
      PROVE  Same \/ Submitted(h)
  <2>1. /\ request[h].phase = "commit"
        /\ request'[h] = Rest
        /\ status' = [status EXCEPT ![request[h].term] =
             SubmitPath[request[h].outcome][Len(SubmitPath[request[h].outcome])]]
        /\ history' = [history EXCEPT ![request[h].term] =
             @ \o Rows(request[h].seen, SubmitPath[request[h].outcome])]
        /\ courses' = [courses EXCEPT ![request[h].term] =
             (@ \ (request[h].held \intersect request[h].links))
             \union (request[h].held \ request[h].links)]
    BY <1>1, <1>a DEF CommitSubmission, Finish, Added, Deleted
  <2>2. CASE request[h].term # t
    <3>1. Same
      BY <1>a, <1>b, <2>1, <2>2
    <3> QED  BY <3>1
  <2>3. CASE request[h].term = t
    <3>1. Submitted(h)
      BY <1>a, <2>1, <2>3
    <3> QED  BY <3>1
  <2> QED  BY <2>2, <2>3
<1>2. ASSUME NEW h \in Handlers, ClearHold(h)
      PROVE  Same \/ Cleared(h)
  <2>1. /\ request[h].phase = "clear"
        /\ request'[h] = Rest
        /\ status' = [status EXCEPT ![request[h].term] = "REGISTRATION_OPEN"]
        /\ history' = [history EXCEPT ![request[h].term] =
             @ \o Rows(request[h].seen, <<"REGISTRATION_OPEN">>)]
        /\ courses' = courses
    BY <1>2, <1>a DEF ClearHold, Finish
  <2>2. CASE request[h].term # t
    <3>1. Same
      BY <1>a, <1>b, <2>1, <2>2
    <3> QED  BY <3>1
  <2>3. CASE request[h].term = t
    <3>1. Cleared(h)
      BY <1>a, <2>1, <2>3
    <3> QED  BY <3>1
  <2> QED  BY <2>2, <2>3
<1>3. ASSUME NEW h \in Handlers, AddCourseToDraft(h) \/ RemoveCourseFromDraft(h)
      PROVE  Same \/ Edited
  <2>1. /\ request[h].phase = "write"
        /\ status' = status /\ history' = history
        /\ request[h].term # t => courses'[t] = courses[t]
    BY <1>3, <1>a, <1>b DEF AddCourseToDraft, RemoveCourseFromDraft
  <2> QED  BY <2>1
<1>4. ASSUME NEW h \in Handlers, CreateDraft(h)
      PROVE  Same \/ Created
  BY <1>4, <1>a, <1>b DEF CreateDraft
<1>5. ASSUME NEW h \in Handlers, Continue(h), ~CreateDraft(h),
             ~CommitSubmission(h), ~ClearHold(h), ~AddCourseToDraft(h),
             ~RemoveCourseFromDraft(h)
      PROVE  Same
  BY <1>5 DEF Continue, DraftRefused, ReadLinks, FlushWaits, FlushLink,
      FlushRefused, DeadlockVictim,
              ReadCourses, Check, MintReference, MarkPaid, FormRefused
<1>6. ASSUME ~ \E h \in Handlers : Continue(h)
      PROVE  Same
  <2>1. ASSUME NEW h \in Handlers, NEW u \in Terms, Arrive(h, u)
        PROVE  UNCHANGED <<status, courses, history>>
    BY <2>1 DEF Arrive, BeginRegister, BeginSubmit, BeginEdit, BeginInitiate,
                BeginCallback, BeginForm
  <2> QED  BY <1>6, <2>1 DEF Next, OpenWindow, CloseWindow,
             GrantPrerequisiteOverride, RequestFails, Restart, vars
<1> HIDE DEF Same, Edited, Created, Submitted, Cleared
<1>7. \/ Same \/ Edited \/ Created
      \/ \E h \in Handlers : Submitted(h) \/ Cleared(h)
  BY <1>1, <1>2, <1>3, <1>4, <1>5, <1>6
<1> QED  BY <1>7 DEF Same, Edited, Created, Submitted, Cleared

\* A step leaves a slot alone, or gives it a status that is the row's.
LEMMA DeskSlotStep ==
  ASSUME TypeOK, KindOK, DesksOK, [Next]_vars, NEW h \in Handlers
  PROVE  request'[h] = request[h] \/ DeskOK(h, request'[h], status')
<1> DEFINE Moved == request'[h] = request[h] \/ DeskOK(h, request'[h], status')
<1> SUFFICES Moved
  OBVIOUS
<1>a. /\ request \in [Handlers -> Requests]
      /\ request[h] \in Requests
      /\ request[h].term \in Terms
      /\ DeskOK(h, request[h], status)
      /\ Rest \in Requests
      /\ status \in [Terms -> AtRest]
  BY RestType, SlotType DEF TypeOK, DesksOK, AtRest
<1>b. ASSUME Bystander(request'[h]) PROVE Moved
  BY <1>b, PhaseGroups DEF Bystander, DeskOK
<1>c. Bystander(Rest)
  BY PhaseGroups DEF Bystander
<1>d. ASSUME /\ request'[h].phase \in Editing
             /\ request'[h].seen = "REGISTRATION_OPEN"
             /\ status'[request'[h].term] = "REGISTRATION_OPEN"
      PROVE  Moved
  BY <1>d, PhaseGroups DEF DeskOK
<1> HIDE DEF Moved
<1>1. CASE UNCHANGED vars
  BY <1>1 DEF vars, Moved
<1>2. CASE Restart
  <2>1. request'[h] = Rest
    BY <1>2 DEF Restart
  <2> QED  BY <1>b, <1>c, <2>1
<1>3. ASSUME NEW t \in Terms, OpenWindow(t) \/ CloseWindow(t)
      PROVE  Moved
  BY <1>3 DEF OpenWindow, CloseWindow, Moved
<1>4. ASSUME NEW t \in Terms, NEW c \in Courses, GrantPrerequisiteOverride(t, c)
      PROVE  Moved
  BY <1>4 DEF GrantPrerequisiteOverride, Moved
<1>5. ASSUME NEW g \in Handlers, NEW t \in Terms, Arrive(g, t)
      PROVE  Moved
  <2> DEFINE Admitted(k, p, W) ==
        /\ Admit(g, k, t, p, W)
        /\ \/ p \in {"create", "mint"}
           \/ p \in Editing /\ status[t] = "REGISTRATION_OPEN"
           \/ p = "mark" /\ k \in Cashiers
  <2>0. DraftStates \intersect AtRest = {"REGISTRATION_OPEN"}
    BY DEF DraftStates, AtRest
  <2>x. status[t] \in DraftStates => status[t] = "REGISTRATION_OPEN"
    BY <1>a, <2>0
  <2>a. ASSUME NEW W, BeginRegister(g, t, W)
        PROVE  Admitted("register", "create", W) \/ Admitted("register", "link", W)
    BY <2>a DEF BeginRegister, Editing
  <2>b. ASSUME BeginSubmit(g, t) PROVE Admitted("submit", "link", {})
    BY <2>b, <2>x DEF BeginSubmit, Editing
  <2>c. ASSUME NEW k, NEW c, BeginEdit(g, k, t, c) PROVE Admitted(k, "write", {c})
    BY <2>c, <2>x DEF BeginEdit, Editing
  <2>d. ASSUME BeginInitiate(g, t) PROVE Admitted("initiate", "mint", {})
    BY <2>d DEF BeginInitiate
  <2>e. ASSUME NEW r, BeginCallback(g, t, r) PROVE Admitted("callback", "mark", {})
    BY <2>e DEF BeginCallback, Cashiers
  <2>f. ASSUME BeginForm(g, t) PROVE Admitted("form", "mark", {})
    BY <2>f DEF BeginForm, Cashiers
  <2> HIDE DEF Admitted
  <2>1. \E k, p, W : Admitted(k, p, W)
    BY <1>5, <2>a, <2>b, <2>c, <2>d, <2>e, <2>f DEF Arrive
  <2>2. PICK k, p, W : Admitted(k, p, W)
    BY <2>1
  <2>3. /\ Admit(g, k, t, p, W)
        /\ \/ p \in {"create", "mint"}
           \/ p \in Editing /\ status[t] = "REGISTRATION_OPEN"
           \/ p = "mark" /\ k \in Cashiers
    BY <2>2 DEF Admitted
  <2>4. status' = status
    BY <1>5 DEF Arrive, BeginRegister, BeginSubmit, BeginEdit, BeginInitiate,
                BeginCallback, BeginForm
  <2>5. CASE g # h
    <3>1. request'[h] = request[h]
      BY <1>a, <2>3, <2>5 DEF Admit
    <3> QED  BY <3>1 DEF Moved
  <2>6. CASE g = h
    <3>1. /\ request'[h].phase = p /\ request'[h].term = t
          /\ request'[h].seen = status[t] /\ request'[h].kind = k
          /\ k \in Serves[h]
      BY <1>a, <2>3, <2>6 DEF Admit, Requests
    <3>2. CASE p \in {"create", "mint"}
      BY <1>b, <3>1, <3>2, PhaseGroups DEF Bystander
    <3>3. CASE p \in Editing /\ status[t] = "REGISTRATION_OPEN"
      BY <1>d, <2>4, <3>1, <3>3
    <3>4. CASE p = "mark" /\ k \in Cashiers
      <4>1. p \notin Editing /\ p # "clear"
        BY <3>4, PhaseGroups
      <4> QED  BY <2>4, <3>1, <3>4, <4>1 DEF DeskOK, Moved
    <3> QED  BY <2>3, <3>2, <3>3, <3>4
  <2> QED  BY <2>5, <2>6
<1>6. ASSUME NEW g \in Handlers, Continue(g) \/ RequestFails(g), g # h
      PROVE  Moved
  <2>1. request'[h] = request[h]
    BY <1>6, <1>a
    DEF Continue, RequestFails, Finish, CreateDraft, DraftRefused, ReadLinks,
        FlushWaits, FlushLink, FlushRefused, DeadlockVictim, ReadCourses,
        Check, CommitSubmission,
        AddCourseToDraft, RemoveCourseFromDraft, MintReference, MarkPaid,
        FormRefused, ClearHold
  <2> QED  BY <2>1 DEF Moved
<1>7. CASE \/ DraftRefused(h) \/ FlushRefused(h) \/ DeadlockVictim(h)
           \/ CommitSubmission(h)
           \/ AddCourseToDraft(h) \/ RemoveCourseFromDraft(h)
           \/ MintReference(h) \/ FormRefused(h) \/ ClearHold(h)
           \/ RequestFails(h)
  <2>1. request'[h] = Rest
    BY <1>7, <1>a
    DEF RequestFails, Finish, DraftRefused, FlushRefused,
        DeadlockVictim, CommitSubmission,
        AddCourseToDraft, RemoveCourseFromDraft, MintReference, FormRefused,
        ClearHold
  <2> QED  BY <1>b, <1>c, <2>1
<1>8. CASE CreateDraft(h)
  <2>1. /\ request'[h].phase = "link"
        /\ request'[h].seen = "REGISTRATION_OPEN"
        /\ request'[h].term = request[h].term
        /\ status' = [status EXCEPT ![request[h].term] = "REGISTRATION_OPEN"]
    BY <1>8, <1>a DEF CreateDraft, Requests
  <2> QED  BY <1>a, <1>d, <2>1, PhaseGroups
<1>9. CASE \/ ReadLinks(h) \/ FlushWaits(h) \/ FlushLink(h)
           \/ ReadCourses(h) \/ Check(h)
  <2>1. /\ request[h].phase \in {"link", "flush", "check"}
        /\ request'[h].phase \in {"flush", "check", "commit"}
        /\ request'[h].seen = request[h].seen
        /\ request'[h].term = request[h].term
        /\ status' = status
    BY <1>9, <1>a DEF ReadLinks, FlushWaits, FlushLink, ReadCourses,
        Check, Requests
  <2>2. request[h].phase \in Editing /\ request'[h].phase \in Editing
    BY <2>1, PhaseGroups
  <2> QED  BY <1>a, <1>d, <2>1, <2>2 DEF DeskOK
<1>10. CASE MarkPaid(h)
  <2>1. CASE request[h].seen # "PAYMENT_HOLD"
    <3>1. request'[h] = Rest
      BY <1>10, <1>a, <2>1 DEF MarkPaid, Finish
    <3> QED  BY <1>b, <1>c, <3>1
  <2>2. CASE request[h].seen = "PAYMENT_HOLD"
    <3>1. /\ request[h].phase = "mark"
          /\ request'[h].phase = "clear"
          /\ request'[h].seen = request[h].seen
          /\ request'[h].term = request[h].term
          /\ request'[h].kind = request[h].kind
          /\ status' = status
      BY <1>10, <1>a, <2>2 DEF MarkPaid, Requests
    <3>2. "mark" \in Paying /\ "clear" \in Paying /\ "clear" \notin Editing
      BY PhaseGroups
    <3> QED  BY <1>a, <2>2, <3>1, <3>2 DEF DeskOK, Moved
  <2> QED  BY <2>1, <2>2
<1>13. ASSUME NEW g \in Handlers, Continue(g) \/ RequestFails(g)
       PROVE  Moved
  <2>1. CASE g = h
    BY <2>1, <1>7, <1>8, <1>9, <1>10, <1>13 DEF Continue
  <2>2. CASE g # h
    BY <2>2, <1>6, <1>13
  <2> QED  BY <2>1, <2>2
<1>14. CASE Next
  <2>1. CASE \E t \in Terms : OpenWindow(t) \/ CloseWindow(t)
    BY <1>3, <2>1
  <2>2. CASE \E t \in Terms, c \in Courses : GrantPrerequisiteOverride(t, c)
    BY <1>4, <2>2
  <2>3. CASE \E g \in Handlers, t \in Terms : Arrive(g, t)
    BY <1>5, <2>3
  <2>4. CASE \E g \in Handlers : Continue(g) \/ RequestFails(g)
    BY <1>13, <2>4
  <2> QED  BY <1>2, <1>14, <2>1, <2>2, <2>3, <2>4 DEF Next
<1> QED  BY <1>1, <1>14

LEMMA DeskStep ==
  ASSUME NEW lane \in Handlers, OneLane(lane), NEW pay \in Handlers,
         OneCashier(pay), TypeOK, KindOK, DesksOK, [Next]_vars
  PROVE  DesksOK'
<1> SUFFICES ASSUME NEW h \in Handlers PROVE DeskOK(h, request'[h], status')
  BY DEF DesksOK
<1>1. CASE DeskOK(h, request'[h], status')
  BY <1>1
<1>2. CASE request'[h] = request[h]
  <2> DEFINE q == request[h]
             t == request[h].term
  <2>a. t \in Terms /\ DeskOK(h, q, status)
    BY SlotType DEF DesksOK
  <2>b. ASSUME q.phase \in Editing \union Paying PROVE request'[h] # Rest
    BY <1>2, <2>b, PhaseGroups
  <2>c. \/ status'[t] = status[t]
        \/ status[t] = "NONE"
        \/ \E g \in Handlers : /\ request[g].phase \in {"commit", "clear"}
                               /\ request[g].term = t
                               /\ request'[g] = Rest
    BY <2>a, RowMoves
  <2>1. ASSUME q.phase \in Editing
        PROVE  status'[t] = status[t]
    <3>1. h = lane /\ status[t] = "REGISTRATION_OPEN"
      BY <2>1, <2>a, EditingIsLane DEF DeskOK
    <3>2. ASSUME NEW g \in Handlers, request[g].phase = "commit",
                 request'[g] = Rest
          PROVE  FALSE
      <4>1. g = h
        BY <3>1, <3>2, EditingIsLane, PhaseGroups
      <4> QED  BY <2>1, <2>b, <3>2, <4>1
    <3>3. ASSUME NEW g \in Handlers, request[g].phase = "clear",
                 request[g].term = t
          PROVE  FALSE
      <4>1. DeskOK(g, request[g], status)
        BY DEF DesksOK
      <4>2. status[t] = "PAYMENT_HOLD"
        BY <3>3, <4>1, PhaseGroups DEF DeskOK
      <4> QED  BY <3>1, <4>2
    <3> QED  BY <3>1, <3>2, <3>3, <2>c
  <2>2. ASSUME q.phase \in Paying, q.seen = "PAYMENT_HOLD"
        PROVE  status'[t] = status[t]
    <3>1. h = pay /\ status[t] = "PAYMENT_HOLD"
      BY <2>2, <2>a, PayerIsCashier DEF DeskOK
    <3>2. ASSUME NEW g \in Handlers, request[g].phase = "commit",
                 request[g].term = t
          PROVE  FALSE
      <4>1. DeskOK(g, request[g], status)
        BY DEF DesksOK
      <4>2. status[t] = "REGISTRATION_OPEN"
        BY <3>2, <4>1, PhaseGroups DEF DeskOK
      <4> QED  BY <3>1, <4>2
    <3>3. ASSUME NEW g \in Handlers, request[g].phase = "clear",
                 request'[g] = Rest
          PROVE  FALSE
      <4>1. g = h
        BY <3>1, <3>3, PayerIsCashier, PhaseGroups
      <4> QED  BY <2>2, <2>b, <3>3, <4>1
    <3> QED  BY <3>1, <3>2, <3>3, <2>c
  <2> QED  BY <1>2, <2>a, <2>1, <2>2, PhaseGroups DEF DeskOK
<1> QED  BY <1>1, <1>2, DeskSlotStep

OneDesk(lane, pay) == OneLane(lane) /\ OneCashier(pay)

DeskInv == TypeOK /\ KindOK /\ DesksOK

LEMMA DeskInit == Init => DeskInv
<1> SUFFICES ASSUME Init PROVE TypeOK /\ KindOK /\ DesksOK
  BY DEF DeskInv
<1>1. \A h \in Handlers : request[h] = Rest
  BY DEF Init
<1>2. KindOK
  BY <1>1, RestSlot DEF KindOK
<1>3. DesksOK
  <2>1. Rest.phase \notin Editing /\ Rest.phase \notin Paying /\ Rest.phase # "clear"
    BY PhaseGroups
  <2> QED  BY <1>1, <2>1 DEF DesksOK, DeskOK
<1> QED  BY TypeInit, <1>2, <1>3

LEMMA DeskInvStep ==
  ASSUME NEW lane \in Handlers, NEW pay \in Handlers, OneDesk(lane, pay),
         DeskInv, [Next]_vars
  PROVE  DeskInv'
  BY TypeStep, KindStep, DeskStep DEF DeskInv, OneDesk

\* A registration that is final has no request left that would write on it.
LEMMA FinalStep ==
  ASSUME DeskInv, [Next]_vars, NEW t \in Terms, status[t] = "REGISTERED"
  PROVE  status'[t] = "REGISTERED" /\ courses'[t] = courses[t]
<1>1. ASSUME NEW h \in Handlers, request[h].phase \in {"write", "commit", "clear"},
             request[h].term = t
      PROVE  FALSE
  <2>1. DeskOK(h, request[h], status)
    BY DEF DeskInv, DesksOK
  <2>2. status[t] \in {"REGISTRATION_OPEN", "PAYMENT_HOLD"}
    BY <1>1, <2>1, PhaseGroups DEF DeskOK
  <2> QED  BY <2>2
<1>2. TypeOK
  BY DEF DeskInv
<1> QED  BY <1>1, <1>2, RowMoves

\* The final submission locks the registration: while the student's edits and
\* submissions come one at a time, and the payments and forms one at a time beside
\* them, no step of any request, failure or restart moves a REGISTERED registration
\* or its courses.
THEOREM FinalStays ==
  ASSUME NEW CONSTANT lane \in Handlers, NEW CONSTANT pay \in Handlers,
         OneDesk(lane, pay)
  PROVE  Spec => FinalLocks
<1>1. Init => DeskInv
  BY DeskInit
<1>2. DeskInv /\ [Next]_vars => DeskInv'
  BY DeskInvStep
<1>3. DeskInv /\ [Next]_vars =>
        [\A t \in Terms : status[t] = "REGISTERED" =>
           /\ status'[t] = "REGISTERED"
           /\ courses'[t] = courses[t]]_vars
  BY FinalStep
<1> QED  BY <1>1, <1>2, <1>3, PTL DEF Spec, FinalLocks

-----------------------------------------------------------------------------
(* The history replays.                                                    *)

(* Each row makes an allowed transition and starts where the last ended.   *)
Chained(H) ==
  /\ \A i \in 1..Len(H) : H[i][2] \in AllowedTransitions[H[i][1]]
  /\ \A i \in 2..Len(H) : H[i][1] = H[i - 1][2]

LEMMA ChainAppends ==
  ASSUME NEW H \in Seq(Status \X Status), NEW R \in Seq(Status \X Status),
         H # <<>>, R # <<>>, Chained(H), Chained(R), R[1][1] = H[Len(H)][2]
  PROVE  /\ H \o R # <<>> /\ Chained(H \o R)
         /\ (H \o R)[1] = H[1]
         /\ (H \o R)[Len(H \o R)] = R[Len(R)]
<1> HIDE DEF Status
<1>1. /\ Len(H) \in Nat \ {0} /\ Len(R) \in Nat \ {0}
      /\ Len(H \o R) = Len(H) + Len(R)
      /\ \A i \in 1..Len(H) : (H \o R)[i] = H[i]
      /\ \A i \in 1..(Len(H) + Len(R)) : i > Len(H) => (H \o R)[i] = R[i - Len(H)]
  OBVIOUS
<1>2. ASSUME NEW i \in 1..Len(H \o R)
      PROVE  (H \o R)[i][2] \in AllowedTransitions[(H \o R)[i][1]]
  <2>1. CASE i <= Len(H)
    <3>1. i \in 1..Len(H) /\ (H \o R)[i] = H[i]
      BY <1>1, <2>1
    <3> QED  BY <3>1 DEF Chained
  <2>2. CASE i > Len(H)
    <3>1. i - Len(H) \in 1..Len(R) /\ (H \o R)[i] = R[i - Len(H)]
      BY <1>1, <2>2
    <3> QED  BY <3>1 DEF Chained
  <2> QED  BY <1>1, <2>1, <2>2
<1>3. ASSUME NEW i \in 2..Len(H \o R)
      PROVE  (H \o R)[i][1] = (H \o R)[i - 1][2]
  <2>1. CASE i <= Len(H)
    <3>1. /\ i \in 2..Len(H) /\ (H \o R)[i] = H[i]
          /\ (H \o R)[i - 1] = H[i - 1]
      BY <1>1, <2>1
    <3> QED  BY <3>1 DEF Chained
  <2>2. CASE i = Len(H) + 1
    <3>1. (H \o R)[i] = R[1] /\ (H \o R)[i - 1] = H[Len(H)]
      BY <1>1, <2>2
    <3> QED  BY <3>1
  <2>3. CASE i > Len(H) + 1
    <3> DEFINE j == i - Len(H)
    <3>1. /\ j \in 2..Len(R) /\ (H \o R)[i] = R[j]
          /\ (H \o R)[i - 1] = R[j - 1]
      BY <1>1, <2>3
    <3> HIDE DEF j
    <3> QED  BY <3>1 DEF Chained
  <2> QED  BY <1>1, <2>1, <2>2, <2>3
<1>4. Chained(H \o R)
  BY <1>2, <1>3 DEF Chained
<1>5. H \o R # <<>> /\ (H \o R)[1] = H[1]
      /\ (H \o R)[Len(H \o R)] = R[Len(R)]
  BY <1>1
<1> QED  BY <1>4, <1>5

\* What _transition appends when it moves a row along a legal path.
LEMMA RowsChain ==
  ASSUME NEW s \in Status, NEW path \in Seq(Status \ {"NONE"}), path # <<>>,
         path[1] \in AllowedTransitions[s],
         \A i \in 2..Len(path) : path[i] \in AllowedTransitions[path[i - 1]]
  PROVE  /\ Rows(s, path) \in Seq(Status \X Status) /\ Rows(s, path) # <<>>
         /\ Chained(Rows(s, path))
         /\ Rows(s, path)[1][1] = s
         /\ Rows(s, path)[Len(Rows(s, path))][2] = path[Len(path)]
<1> HIDE DEF Status
<1>1. Len(path) \in Nat \ {0}
  OBVIOUS
<1>2. Rows(s, path) \in Seq(Status \X Status) /\ Len(Rows(s, path)) = Len(path)
  BY RowsFacts
<1>3. \A i \in 1..Len(path) :
        Rows(s, path)[i] = <<IF i = 1 THEN s ELSE path[i - 1], path[i]>>
  BY DEF Rows
<1>4. /\ \A i \in 1..Len(path) : Rows(s, path)[i][2] = path[i]
      /\ \A i \in 2..Len(path) : Rows(s, path)[i][1] = path[i - 1]
      /\ Rows(s, path)[1][1] = s
  BY <1>1, <1>3
<1>5. \A i \in 1..Len(path) :
        Rows(s, path)[i][2] \in AllowedTransitions[Rows(s, path)[i][1]]
  <2> SUFFICES ASSUME NEW i \in 1..Len(path)
               PROVE  Rows(s, path)[i][2] \in AllowedTransitions[Rows(s, path)[i][1]]
    OBVIOUS
  <2>1. CASE i = 1
    BY <1>1, <1>4, <2>1
  <2>2. CASE i # 1
    <3>1. i \in 2..Len(path)
      BY <1>1, <2>2
    <3> QED  BY <1>4, <3>1
  <2> QED  BY <2>1, <2>2
<1>6. \A i \in 2..Len(path) : Rows(s, path)[i][1] = Rows(s, path)[i - 1][2]
  <2> SUFFICES ASSUME NEW i \in 2..Len(path)
               PROVE  Rows(s, path)[i][1] = Rows(s, path)[i - 1][2]
    OBVIOUS
  <2>1. i - 1 \in 1..Len(path)
    BY <1>1
  <2> QED  BY <1>4, <2>1
<1>7. Chained(Rows(s, path))
  BY <1>2, <1>5, <1>6 DEF Chained
<1>8. Rows(s, path) # <<>>
  BY <1>1, <1>2
<1> QED  BY <1>1, <1>2, <1>4, <1>7, <1>8

\* Every way a submission can end is legal for a draft, and so is a cleared hold.
LEMMA PathsLegal ==
  /\ \A o \in Outcomes :
       LET path == SubmitPath[o] IN
       /\ path # <<>> /\ path[1] \in AllowedTransitions["REGISTRATION_OPEN"]
       /\ \A i \in 2..Len(path) : path[i] \in AllowedTransitions[path[i - 1]]
  /\ "REGISTRATION_OPEN" \in AllowedTransitions["PAYMENT_HOLD"]
  /\ "REGISTRATION_OPEN" \in AllowedTransitions["NONE"]
<1>1. SubmitPath["bounced"] = <<"CHECKING_PREREQUISITES", "REGISTRATION_OPEN">>
  BY DEF SubmitPath
<1>2. SubmitPath["held"] =
        <<"CHECKING_PREREQUISITES", "CHECKING_PAYMENT", "PAYMENT_HOLD">>
  BY DEF SubmitPath
<1>3. SubmitPath["registered"] =
        <<"CHECKING_PREREQUISITES", "CHECKING_PAYMENT",
          "VALIDATION_SUCCESS", "REGISTERED">>
  BY DEF SubmitPath
<1>4. /\ "CHECKING_PREREQUISITES" \in AllowedTransitions["REGISTRATION_OPEN"]
      /\ "REGISTRATION_OPEN" \in AllowedTransitions["CHECKING_PREREQUISITES"]
      /\ "CHECKING_PAYMENT" \in AllowedTransitions["CHECKING_PREREQUISITES"]
      /\ "PAYMENT_HOLD" \in AllowedTransitions["CHECKING_PAYMENT"]
      /\ "VALIDATION_SUCCESS" \in AllowedTransitions["CHECKING_PAYMENT"]
      /\ "REGISTERED" \in AllowedTransitions["VALIDATION_SUCCESS"]
      /\ "REGISTRATION_OPEN" \in AllowedTransitions["PAYMENT_HOLD"]
      /\ "REGISTRATION_OPEN" \in AllowedTransitions["NONE"]
  BY DEF AllowedTransitions
<1>5. Outcomes = {"bounced", "held", "registered"}
  BY DEF Outcomes, SubmitPath
<1>6. ASSUME NEW a, NEW b, NEW path, path = <<a, b>>,
             a \in AllowedTransitions["REGISTRATION_OPEN"],
             b \in AllowedTransitions[a]
      PROVE  /\ path # <<>> /\ path[1] \in AllowedTransitions["REGISTRATION_OPEN"]
             /\ \A i \in 2..Len(path) : path[i] \in AllowedTransitions[path[i - 1]]
  <2>1. Len(path) = 2 /\ path[1] = a /\ path[2] = b /\ path # <<>>
    BY <1>6
  <2>2. \A i \in 2..Len(path) : i = 2
    BY <2>1
  <2> QED  BY <1>6, <2>1, <2>2
<1>7. ASSUME NEW a, NEW b, NEW c, NEW path, path = <<a, b, c>>,
             a \in AllowedTransitions["REGISTRATION_OPEN"],
             b \in AllowedTransitions[a], c \in AllowedTransitions[b]
      PROVE  /\ path # <<>> /\ path[1] \in AllowedTransitions["REGISTRATION_OPEN"]
             /\ \A i \in 2..Len(path) : path[i] \in AllowedTransitions[path[i - 1]]
  <2>1. /\ Len(path) = 3 /\ path[1] = a /\ path[2] = b /\ path[3] = c
        /\ path # <<>>
    BY <1>7
  <2>2. \A i \in 2..Len(path) : i = 2 \/ i = 3
    BY <2>1
  <2> QED  BY <1>7, <2>1, <2>2
<1>8. ASSUME NEW a, NEW b, NEW c, NEW d, NEW path, path = <<a, b, c, d>>,
             a \in AllowedTransitions["REGISTRATION_OPEN"],
             b \in AllowedTransitions[a], c \in AllowedTransitions[b],
             d \in AllowedTransitions[c]
      PROVE  /\ path # <<>> /\ path[1] \in AllowedTransitions["REGISTRATION_OPEN"]
             /\ \A i \in 2..Len(path) : path[i] \in AllowedTransitions[path[i - 1]]
  <2>1. /\ Len(path) = 4 /\ path[1] = a /\ path[2] = b /\ path[3] = c
        /\ path[4] = d /\ path # <<>>
    BY <1>8
  <2>2. \A i \in 2..Len(path) : i = 2 \/ i = 3 \/ i = 4
    BY <2>1
  <2> QED  BY <1>8, <2>1, <2>2
<1> SUFFICES ASSUME NEW o \in Outcomes
             PROVE  LET path == SubmitPath[o] IN
               /\ path # <<>> /\ path[1] \in AllowedTransitions["REGISTRATION_OPEN"]
               /\ \A i \in 2..Len(path) : path[i] \in AllowedTransitions[path[i - 1]]
  BY <1>4
<1>9. CASE o = "bounced"
  BY <1>1, <1>4, <1>6, <1>9
<1>10. CASE o = "held"
  BY <1>2, <1>4, <1>7, <1>10
<1>11. CASE o = "registered"
  BY <1>3, <1>4, <1>8, <1>11
<1> QED  BY <1>5, <1>9, <1>10, <1>11

(* HistoryReplays, term by term.                                           *)
ReplaysTo(H, s) ==
  IF H = <<>> THEN s = "NONE"
  ELSE /\ H[1] = <<"NONE", "REGISTRATION_OPEN">>
       /\ H[Len(H)][2] = s
       /\ Chained(H)

Replays == \A t \in Terms : ReplaysTo(history[t], status[t])

LEMMA ReplaysIsHistory == Replays <=> HistoryReplays
  BY DEF Replays, ReplaysTo, Chained, HistoryReplays

LEMMA ReplayOn ==
  ASSUME NEW H \in Seq(Status \X Status), NEW s \in Status \ {"NONE"},
         ReplaysTo(H, s), NEW path \in Seq(Status \ {"NONE"}), path # <<>>,
         path[1] \in AllowedTransitions[s],
         \A i \in 2..Len(path) : path[i] \in AllowedTransitions[path[i - 1]]
  PROVE  ReplaysTo(H \o Rows(s, path), path[Len(path)])
<1> HIDE DEF Status
<1>1. H # <<>> /\ Chained(H) /\ H[Len(H)][2] = s
      /\ H[1] = <<"NONE", "REGISTRATION_OPEN">>
  BY DEF ReplaysTo
<1>2. /\ Rows(s, path) \in Seq(Status \X Status) /\ Rows(s, path) # <<>>
      /\ Chained(Rows(s, path)) /\ Rows(s, path)[1][1] = s
      /\ Rows(s, path)[Len(Rows(s, path))][2] = path[Len(path)]
  BY RowsChain
<1> QED  BY <1>1, <1>2, ChainAppends DEF ReplaysTo

LEMMA ReplayFirst == ReplaysTo(Append(<<>>, <<"NONE", "REGISTRATION_OPEN">>),
                               "REGISTRATION_OPEN")
<1> DEFINE row == <<"NONE", "REGISTRATION_OPEN">>
<1>1. row[2] \in AllowedTransitions[row[1]] /\ row[2] = "REGISTRATION_OPEN"
  BY PathsLegal
<1> HIDE DEF row
<1>2. /\ Len(<<row>>) = 1 /\ <<row>>[1] = row /\ <<row>> # <<>>
      /\ Append(<<>>, row) = <<row>>
  OBVIOUS
<1>3. ReplaysTo(<<row>>, "REGISTRATION_OPEN")
  BY <1>1, <1>2 DEF ReplaysTo, Chained, row
<1> QED  BY <1>2, <1>3 DEF row

LEMMA ReplayStep ==
  ASSUME DeskInv, Replays, [Next]_vars
  PROVE  Replays'
<1> SUFFICES ASSUME NEW t \in Terms PROVE ReplaysTo(history'[t], status'[t])
  BY DEF Replays, ReplaysTo, Chained
<1>a. /\ TypeOK /\ ReplaysTo(history[t], status[t])
      /\ history[t] \in Seq(Status \X Status)
  BY DEF DeskInv, Replays, TypeOK
<1>b. "REGISTRATION_OPEN" \in Status \ {"NONE"} /\ "PAYMENT_HOLD" \in Status \ {"NONE"}
  BY DEF Status, AllowedTransitions
<1> HIDE DEF Status
<1>1. CASE status'[t] = status[t] /\ history'[t] = history[t]
  BY <1>a, <1>1
<1>2. CASE /\ status[t] = "NONE" /\ status'[t] = "REGISTRATION_OPEN"
           /\ history'[t] = Append(history[t], <<"NONE", "REGISTRATION_OPEN">>)
  <2>1. history[t] = <<>>
    <3>1. CASE history[t] # <<>>
      <4>1. Chained(history[t]) /\ history[t][Len(history[t])][2] = "NONE"
        BY <1>a, <1>2, <3>1 DEF ReplaysTo
      <4>2. Len(history[t]) \in 1..Len(history[t])
        BY <1>a, <3>1
      <4>3. "NONE" \in AllowedTransitions[history[t][Len(history[t])][1]]
            /\ history[t][Len(history[t])][1] \in Status
        BY <1>a, <4>1, <4>2 DEF Chained
      <4> QED  BY <4>3 DEF Status, AllowedTransitions
    <3> QED  BY <3>1
  <2> QED  BY <1>2, <2>1, ReplayFirst
<1>3. ASSUME NEW h \in Handlers, request[h].phase = "commit",
             request[h].term = t,
             status'[t] = SubmitPath[request[h].outcome]
                                    [Len(SubmitPath[request[h].outcome])],
             history'[t] = history[t]
                  \o Rows(request[h].seen, SubmitPath[request[h].outcome])
      PROVE  ReplaysTo(history'[t], status'[t])
  <2>1. DeskOK(h, request[h], status) /\ request[h].outcome \in Outcomes
    BY <1>a, SlotType DEF DeskInv, DesksOK
  <2>2. status[t] = "REGISTRATION_OPEN" /\ request[h].seen = "REGISTRATION_OPEN"
    BY <1>3, <2>1, PhaseGroups DEF DeskOK
  <2>3. PICK path \in Seq(Status \ {"NONE"}) : path = SubmitPath[request[h].outcome]
    BY <2>1, PathFacts
  <2>4. /\ path # <<>> /\ path[1] \in AllowedTransitions["REGISTRATION_OPEN"]
        /\ \A i \in 2..Len(path) : path[i] \in AllowedTransitions[path[i - 1]]
    BY <2>1, <2>3, PathsLegal
  <2>5. ReplaysTo(history[t] \o Rows("REGISTRATION_OPEN", path), path[Len(path)])
    BY <1>a, <1>b, <2>2, <2>4, ReplayOn
  <2> QED  BY <1>3, <2>2, <2>3, <2>5
<1>4. ASSUME NEW h \in Handlers, request[h].phase = "clear",
             request[h].term = t, status'[t] = "REGISTRATION_OPEN",
             history'[t] = history[t]
                  \o Rows(request[h].seen, <<"REGISTRATION_OPEN">>)
      PROVE  ReplaysTo(history'[t], status'[t])
  <2>1. DeskOK(h, request[h], status)
    BY DEF DeskInv, DesksOK
  <2>2. status[t] = "PAYMENT_HOLD" /\ request[h].seen = "PAYMENT_HOLD"
    BY <1>4, <2>1, PhaseGroups DEF DeskOK
  <2>a. <<"REGISTRATION_OPEN">> \in Seq(Status \ {"NONE"})
    BY <1>b
  <2>3. PICK path \in Seq(Status \ {"NONE"}) : path = <<"REGISTRATION_OPEN">>
    BY <2>a
  <2>4. /\ path # <<>> /\ path[1] = "REGISTRATION_OPEN" /\ Len(path) = 1
    BY <2>3
  <2>5. /\ path[1] \in AllowedTransitions["PAYMENT_HOLD"]
        /\ \A i \in 2..Len(path) : path[i] \in AllowedTransitions[path[i - 1]]
    BY <2>4, PathsLegal
  <2>6. ReplaysTo(history[t] \o Rows("PAYMENT_HOLD", path), path[Len(path)])
    BY <1>a, <1>b, <2>2, <2>4, <2>5, ReplayOn
  <2> QED  BY <1>4, <2>2, <2>3, <2>4, <2>6
<1> QED  BY <1>a, <1>1, <1>2, <1>3, <1>4, RowMoves

LEMMA LeastOf ==
  ASSUME NEW S, S \subseteq Nat, S # {}
  PROVE  \E i \in S : \A j \in S : i <= j
<1>1. PICK x \in S : \A y \in S : ~ (<<y, x>> \in OpToRel(<, Nat))
  BY NatLessThanWellFounded, WFMin, Zenon
<1>2. \A y \in S : ~(y < x)
  BY <1>1 DEF OpToRel
<1> QED  BY <1>2

\* The portal's pages are read off the rows: where the history replays, they agree.
LEMMA PagesAgree ==
  ASSUME TypeOK, HistoryReplays
  PROVE  PagesFit
<1> SUFFICES ASSUME NEW t \in Terms, NEW begun \in BOOLEAN
             PROVE
    LET page == list_available_courses(t, begun)
        H    == history[t] IN
    /\ page.registration_status # "NONE" =>
         page.registration_status = H[Len(H)][2]
    /\ H # <<>> /\ (windowOpen[t] \/ begun) =>
         page.registration_status = H[Len(H)][2]
    /\ page.registration_status = "NONE" /\ page.courses # {} =>
         /\ windowOpen[t] /\ H = <<>>
         /\ \/ page.courses = list_curriculum_courses
            \/ \E i \in OpenPositions : i < Position(t)
    /\ \A shown \in get_student_dashboard :
         shown[1] = t => shown[2] = page.registration_status
  BY DEF PagesFit
<1> DEFINE page == list_available_courses(t, begun)
           H == history[t]
           picker == {c \in Courses : windowOpen[t] /\ Semester[c] = semester_for_term(t)}
<1>1. /\ H = <<>> => status[t] = "NONE"
      /\ H # <<>> => status[t] # "NONE" /\ H[Len(H)][2] = status[t]
  <2>1. IF H = <<>> THEN status[t] = "NONE"
        ELSE /\ H[Len(H)][2] = status[t]
             /\ \A i \in 1..Len(H) : H[i][2] \in AllowedTransitions[H[i][1]]
    BY DEF HistoryReplays
  <2>2. CASE H # <<>>
    <3>1. H \in Seq(Status \X Status)
      BY DEF TypeOK
    <3> HIDE DEF H, Status
    <3>2. Len(H) \in 1..Len(H) /\ H[Len(H)][1] \in Status
      BY <2>2, <3>1
    <3>3. \A s \in Status : "NONE" \notin AllowedTransitions[s]
      BY DEF Status, AllowedTransitions
    <3> QED  BY <2>1, <2>2, <3>2, <3>3
  <2> QED  BY <2>1, <2>2
<1>2. CASE status[t] # "NONE" /\ (windowOpen[t] \/ begun)
  <2>1. page.registration_status = status[t]
    BY <1>2 DEF list_available_courses
  <2>2. \A shown \in get_student_dashboard : shown[1] = t => shown[2] = status[t]
    BY DEF get_student_dashboard
  <2> HIDE DEF page, H
  <2>3. H # <<>>
    BY <1>1, <1>2
  <2> QED  BY <1>1, <1>2, <2>1, <2>2, <2>3 DEF page, H
<1>3. CASE ~(status[t] # "NONE" /\ (windowOpen[t] \/ begun))
  <2>1. page.registration_status = "NONE" /\ page.courses = picker
    BY <1>3 DEF list_available_courses
  <2>2. \A shown \in get_student_dashboard :
          shown[1] = t => windowOpen[t] /\ shown[2] = status[t]
    BY DEF get_student_dashboard, OpenPositions
  <2>3. \A shown \in get_student_dashboard : shown[1] = t => shown[2] = "NONE"
    BY <1>3, <2>2
  <2>4. ASSUME picker # {}
        PROVE  /\ windowOpen[t] /\ H = <<>>
               /\ \/ picker = list_curriculum_courses
                  \/ \E i \in OpenPositions : i < Position(t)
    <3>1. windowOpen[t]
      BY <2>4
    <3>2. H = <<>>
      BY <1>1, <1>3, <3>1
    <3>3. OpenPositions \subseteq Nat
      BY ViewsAssumption DEF OpenPositions
    <3>4. Position(t) \in OpenPositions
      <4>1. \E i \in DOMAIN Calendar : Calendar[i] = t
        BY ViewsAssumption
      <4>2. Position(t) \in DOMAIN Calendar /\ Calendar[Position(t)] = t
        BY <4>1 DEF Position
      <4> QED  BY <3>1, <4>2 DEF OpenPositions
    <3> DEFINE first == CHOOSE i \in OpenPositions : \A j \in OpenPositions : i <= j
    <3>5. first \in OpenPositions /\ \A j \in OpenPositions : first <= j
      <4>1. \E i \in OpenPositions : \A j \in OpenPositions : i <= j
        BY <3>3, <3>4, LeastOf
      <4> QED  BY <4>1
    <3>6. semester_for_term(t) = CurrentSemester + Position(t) - first
      BY DEF semester_for_term
    <3> HIDE DEF first
    <3>7. CASE Position(t) = first
      <4>1. CurrentSemester \in Int /\ first \in Nat
        BY <3>3, <3>5, ViewsAssumption
      <4>2. CurrentSemester + Position(t) - first = CurrentSemester
        BY <3>7, <4>1
      <4>3. picker = {c \in Courses : Semester[c] = CurrentSemester}
        BY <3>1, <3>6, <4>2
      <4> QED  BY <3>1, <3>2, <4>3 DEF list_curriculum_courses
    <3>8. CASE Position(t) # first
      <4>a. first \in Nat /\ Position(t) \in Nat /\ first <= Position(t)
        BY <3>3, <3>4, <3>5
      <4>1. first < Position(t)
        BY <4>a, <3>8
      <4> QED  BY <3>1, <3>2, <3>5, <4>1
    <3> QED  BY <3>7, <3>8
  <2>5. H # <<>> => ~(windowOpen[t] \/ begun)
    BY <1>1, <1>3
  <2> HIDE DEF page, H, picker
  <2> QED  BY <2>1, <2>3, <2>4, <2>5 DEF page, H
<1> QED  BY <1>2, <1>3

\* What the record of a registration and the pages of the portal say is one thing:
\* while edits come one at a time and so do payments, the history replays to the
\* status through legal transitions, and the course page, the home page and the
\* picker show it.
THEOREM ShownAsRecorded ==
  ASSUME NEW CONSTANT lane \in Handlers, NEW CONSTANT pay \in Handlers,
         OneDesk(lane, pay)
  PROVE  Spec => []HistoryShown
<1>1. Init => DeskInv /\ Replays
  <2>1. Init => Replays
    BY DEF Init, Replays, ReplaysTo
  <2> QED  BY <2>1, DeskInit
<1>2. DeskInv /\ Replays /\ [Next]_vars => (DeskInv /\ Replays)'
  BY DeskInvStep, ReplayStep
<1>3. DeskInv /\ Replays => HistoryShown
  BY ReplaysIsHistory, PagesAgree DEF DeskInv, HistoryShown
<1> QED  BY <1>1, <1>2, <1>3, PTL DEF Spec

-----------------------------------------------------------------------------
(* The curriculum gate, and the bill.                                      *)

(* What the compliance agent asks of the courses S under the overrides ov. *)
Passes(S, ov) == ValidLoad(S) /\ \A c \in S : PrerequisitesMet(c, ov)

PassedOK ==
  \A h \in Handlers :
    request[h].phase = "commit" /\ request[h].outcome # "bounced" =>
      Passes(request[h].listed, overrides[request[h].term])

CarriedOK ==
  \A t \in Terms : status[t] \in {"PAYMENT_HOLD", "REGISTERED"} =>
    Passes(courses[t], overrides[t])

LEMMA VerdictPasses ==
  ASSUME NEW t, NEW S, Verdict(t, S) # "bounced"
  PROVE  Passes(S, overrides[t])
  BY DEF Verdict, Passes

LEMMA PassesOn ==
  ASSUME NEW S, NEW ov, NEW more, ov \subseteq more, Passes(S, ov)
  PROVE  Passes(S, more)
  BY DEF Passes, PrerequisitesMet

LEMMA OverridesStay ==
  ASSUME TypeOK, [Next]_vars, NEW t \in Terms
  PROVE  overrides[t] \subseteq overrides'[t]
<1>a. overrides \in [Terms -> SUBSET Courses]
  BY DEF TypeOK
<1>1. ASSUME NEW u \in Terms, NEW c \in Courses, GrantPrerequisiteOverride(u, c)
      PROVE  overrides[t] \subseteq overrides'[t]
  BY <1>1, <1>a DEF GrantPrerequisiteOverride
<1>2. ASSUME NEW h \in Handlers, NEW u \in Terms, Arrive(h, u)
      PROVE  overrides' = overrides
  BY <1>2 DEF Arrive, BeginRegister, BeginSubmit, BeginEdit, BeginInitiate,
              BeginCallback, BeginForm
<1>3. ASSUME NEW h \in Handlers, Continue(h)
      PROVE  overrides' = overrides
  BY <1>3
  DEF Continue, CreateDraft, DraftRefused, ReadLinks, FlushWaits, FlushLink,
      FlushRefused, DeadlockVictim,
      ReadCourses, Check, CommitSubmission, AddCourseToDraft,
      RemoveCourseFromDraft, MintReference, MarkPaid, FormRefused, ClearHold
<1> QED  BY <1>1, <1>2, <1>3 DEF Next, OpenWindow, CloseWindow, RequestFails,
            Restart, vars

\* A slot that is about to commit is there already, or has just been checked.
LEMMA CheckedSlot ==
  ASSUME TypeOK, [Next]_vars, NEW h \in Handlers, request'[h].phase = "commit"
  PROVE  \/ request'[h] = request[h]
         \/ /\ request'[h].term = request[h].term
            /\ request'[h].listed = request[h].listed
            /\ request'[h].outcome = Verdict(request[h].term, request[h].listed)
<1> DEFINE Moved ==
         \/ request'[h] = request[h]
         \/ /\ request'[h].term = request[h].term
            /\ request'[h].listed = request[h].listed
            /\ request'[h].outcome = Verdict(request[h].term, request[h].listed)
<1> SUFFICES Moved
  OBVIOUS
<1>a. /\ request \in [Handlers -> Requests] /\ request[h] \in Requests
      /\ Rest \in Requests /\ Rest.phase = "idle"
  BY RestType DEF TypeOK
<1>1. CASE UNCHANGED vars
  BY <1>1 DEF vars
<1>2. CASE Restart
  BY <1>2, <1>a DEF Restart
<1>3. ASSUME NEW t \in Terms, OpenWindow(t) \/ CloseWindow(t)
      PROVE  Moved
  BY <1>3 DEF OpenWindow, CloseWindow
<1>4. ASSUME NEW t \in Terms, NEW c \in Courses, GrantPrerequisiteOverride(t, c)
      PROVE  Moved
  BY <1>4 DEF GrantPrerequisiteOverride
<1>5. ASSUME NEW g \in Handlers, NEW t \in Terms, Arrive(g, t)
      PROVE  Moved
  <2> DEFINE Admitted(k, p, W) == Admit(g, k, t, p, W) /\ p # "commit"
  <2>a. ASSUME NEW W, BeginRegister(g, t, W)
        PROVE  Admitted("register", "create", W) \/ Admitted("register", "link", W)
    BY <2>a DEF BeginRegister
  <2>b. ASSUME BeginSubmit(g, t) PROVE Admitted("submit", "link", {})
    BY <2>b DEF BeginSubmit
  <2>c. ASSUME NEW k, NEW c, BeginEdit(g, k, t, c) PROVE Admitted(k, "write", {c})
    BY <2>c DEF BeginEdit
  <2>d. ASSUME BeginInitiate(g, t) PROVE Admitted("initiate", "mint", {})
    BY <2>d DEF BeginInitiate
  <2>e. ASSUME NEW r, BeginCallback(g, t, r) PROVE Admitted("callback", "mark", {})
    BY <2>e DEF BeginCallback
  <2>f. ASSUME BeginForm(g, t) PROVE Admitted("form", "mark", {})
    BY <2>f DEF BeginForm
  <2> HIDE DEF Admitted
  <2>1. \E k, p, W : Admitted(k, p, W)
    BY <1>5, <2>a, <2>b, <2>c, <2>d, <2>e, <2>f DEF Arrive
  <2>2. PICK k, p, W : Admit(g, k, t, p, W) /\ p # "commit"
    BY <2>1 DEF Admitted
  <2>3. CASE g # h
    BY <1>a, <2>2, <2>3 DEF Admit
  <2>4. CASE g = h
    <3>1. request'[h].phase = p
      BY <1>a, <2>2, <2>4 DEF Admit, Requests
    <3> QED  BY <2>2, <3>1
  <2> QED  BY <2>3, <2>4
<1>6. ASSUME NEW g \in Handlers, Continue(g) \/ RequestFails(g), g # h
      PROVE  Moved
  <2>1. request'[h] = request[h]
    BY <1>6, <1>a
    DEF Continue, RequestFails, Finish, CreateDraft, DraftRefused, ReadLinks,
        FlushWaits, FlushLink, FlushRefused, DeadlockVictim, ReadCourses,
        Check, CommitSubmission,
        AddCourseToDraft, RemoveCourseFromDraft, MintReference, MarkPaid,
        FormRefused, ClearHold
  <2> QED  BY <2>1
<1>7. CASE \/ DraftRefused(h) \/ FlushRefused(h) \/ DeadlockVictim(h)
           \/ CommitSubmission(h)
           \/ AddCourseToDraft(h) \/ RemoveCourseFromDraft(h)
           \/ MintReference(h) \/ FormRefused(h) \/ ClearHold(h)
           \/ RequestFails(h)
  <2>1. request'[h] = Rest
    BY <1>7, <1>a
    DEF RequestFails, Finish, DraftRefused, FlushRefused,
        DeadlockVictim, CommitSubmission,
        AddCourseToDraft, RemoveCourseFromDraft, MintReference, FormRefused,
        ClearHold
  <2> QED  BY <1>a, <2>1
<1>8. CASE \/ CreateDraft(h) \/ ReadLinks(h) \/ FlushWaits(h)
           \/ FlushLink(h) \/ ReadCourses(h)
  <2>1. request'[h].phase # "commit"
    BY <1>8, <1>a DEF CreateDraft, ReadLinks, FlushWaits, FlushLink, ReadCourses,
        Requests
  <2> QED  BY <2>1
<1>9. CASE Check(h)
  BY <1>9, <1>a DEF Check, Requests
<1>10. CASE MarkPaid(h)
  <2>1. request'[h].phase # "commit"
    BY <1>10, <1>a DEF MarkPaid, Finish, Requests
  <2> QED  BY <2>1
<1> HIDE DEF Moved
<1>11. ASSUME NEW g \in Handlers, Continue(g) \/ RequestFails(g)
       PROVE  Moved
  <2>1. CASE g = h
    BY <2>1, <1>7, <1>8, <1>9, <1>10, <1>11 DEF Continue, Moved
  <2>2. CASE g # h
    BY <2>2, <1>6, <1>11
  <2> QED  BY <2>1, <2>2
<1>12. CASE Next
  <2>1. CASE \E t \in Terms : OpenWindow(t) \/ CloseWindow(t)
    BY <1>3, <2>1
  <2>2. CASE \E t \in Terms, c \in Courses : GrantPrerequisiteOverride(t, c)
    BY <1>4, <2>2
  <2>3. CASE \E g \in Handlers, t \in Terms : Arrive(g, t)
    BY <1>5, <2>3
  <2>4. CASE \E g \in Handlers : Continue(g) \/ RequestFails(g)
    BY <1>11, <2>4
  <2> QED  BY <1>2, <1>12, <2>1, <2>2, <2>3, <2>4 DEF Next, Moved
<1> QED  BY <1>1, <1>12 DEF Moved

LEMMA PassedStep ==
  ASSUME TypeOK, PassedOK, [Next]_vars
  PROVE  PassedOK'
<1> SUFFICES ASSUME NEW h \in Handlers, request'[h].phase = "commit",
                    request'[h].outcome # "bounced"
             PROVE  Passes(request'[h].listed, overrides'[request'[h].term])
  BY DEF PassedOK
<1>a. request[h].term \in Terms
  BY SlotType
<1>b. overrides[request[h].term] \subseteq overrides'[request[h].term]
  BY <1>a, OverridesStay
<1>1. CASE request'[h] = request[h]
  <2>1. Passes(request[h].listed, overrides[request[h].term])
    BY <1>1 DEF PassedOK
  <2>2. Passes(request[h].listed, overrides'[request[h].term])
    BY <1>b, <2>1, PassesOn
  <2> QED  BY <1>1, <2>2
<1>2. CASE /\ request'[h].term = request[h].term
           /\ request'[h].listed = request[h].listed
           /\ request'[h].outcome = Verdict(request[h].term, request[h].listed)
  <2>1. Passes(request[h].listed, overrides[request[h].term])
    BY <1>2, VerdictPasses
  <2>2. Passes(request[h].listed, overrides'[request[h].term])
    BY <1>b, <2>1, PassesOn
  <2> QED  BY <1>2, <2>2
<1> QED  BY <1>1, <1>2, CheckedSlot

CurriculumInv(lane) == DeskInv /\ GateInv(lane) /\ PassedOK /\ CarriedOK

LEMMA CarriedStep ==
  ASSUME NEW lane \in Handlers, OneLane(lane), CurriculumInv(lane), [Next]_vars
  PROVE  CarriedOK'
<1> SUFFICES ASSUME NEW t \in Terms, status'[t] \in {"PAYMENT_HOLD", "REGISTERED"}
             PROVE  Passes(courses'[t], overrides'[t])
  BY DEF CarriedOK
<1>a. /\ TypeOK /\ KindOK /\ DesksOK /\ LaneOK(lane) /\ PassedOK /\ CarriedOK
      /\ overrides[t] \subseteq overrides'[t]
  BY OverridesStay DEF CurriculumInv, DeskInv, GateInv
<1>1. CASE status'[t] = status[t] /\ courses'[t] = courses[t]
  <2>1. Passes(courses[t], overrides[t])
    BY <1>a, <1>1 DEF CarriedOK
  <2>2. Passes(courses[t], overrides'[t])
    BY <1>a, <2>1, PassesOn
  <2> QED  BY <1>1, <2>2
<1>2. ASSUME NEW h \in Handlers, request[h].phase = "write",
             request[h].term = t, status'[t] = status[t]
      PROVE  FALSE
  <2>1. DeskOK(h, request[h], status)
    BY <1>a DEF DesksOK
  <2> QED  BY <1>2, <2>1, PhaseGroups DEF DeskOK
<1>3. ASSUME NEW h \in Handlers, request[h].phase = "commit",
             request[h].term = t,
             status'[t] = SubmitPath[request[h].outcome]
                                    [Len(SubmitPath[request[h].outcome])],
             courses'[t] =
               (courses[t] \ (request[h].held \intersect request[h].links))
               \union (request[h].held \ request[h].links)
      PROVE  Passes(courses'[t], overrides'[t])
  <2>1. h = lane /\ request[h].outcome \in Outcomes
    BY <1>a, <1>3, EditingIsLane, PhaseGroups, SlotType
  <2>2. courses'[t] = request[h].listed
    BY <1>a, <1>3, <2>1 DEF LaneOK
  <2>3. request[h].outcome # "bounced"
    <3>1. SubmitPath["bounced"] = <<"CHECKING_PREREQUISITES", "REGISTRATION_OPEN">>
      BY DEF SubmitPath
    <3>2. SubmitPath["bounced"][Len(SubmitPath["bounced"])] = "REGISTRATION_OPEN"
      BY <3>1
    <3> QED  BY <1>3, <3>2
  <2>4. Passes(request[h].listed, overrides[t])
    BY <1>a, <1>3, <2>3 DEF PassedOK
  <2>5. Passes(request[h].listed, overrides'[t])
    BY <1>a, <2>4, PassesOn
  <2> QED  BY <2>2, <2>5
<1>4. CASE status'[t] = "REGISTRATION_OPEN"
  BY <1>4
<1> QED  BY <1>a, <1>1, <1>2, <1>3, <1>4, RowMoves

LEMMA BillPositive ==
  ASSUME NEW x \in Int, NEW y \in Int, x > 0, y > 0
  PROVE  x * y > 0
  OBVIOUS

LEMMA CurriculumImplies ==
  ASSUME CarriedOK, FEE_PER_CREDIT_HOUR_BIRR > 0
  PROVE  BilledCompliant
<1>1. RegisteredCompliant
  BY DEF CarriedOK, Passes, RegisteredCompliant
<1>2. ASSUME NEW t \in Terms, status[t] \in {"PAYMENT_HOLD", "REGISTERED"}
      PROVE  LET bill == get_invoice(t) IN
             /\ bill.total_credit_hours \in MinCreditLoad..MaxCreditLoad
             /\ ~Government => /\ bill.payment_required
                               /\ bill.amount_due > 0
  <2>1. courses[t] # {} /\ Load(courses[t]) \in MinCreditLoad..MaxCreditLoad
    BY <1>2 DEF CarriedOK, Passes, ValidLoad
  <2>2. Load(courses[t]) \in Int /\ Load(courses[t]) > 0
    BY <2>1 DEF MinCreditLoad, MaxCreditLoad
  <2>3. Load(courses[t]) * FEE_PER_CREDIT_HOUR_BIRR > 0
    BY <2>2, ViewsAssumption, BillPositive
  <2>4. /\ get_invoice(t).total_credit_hours = Load(courses[t])
        /\ ~Government => /\ get_invoice(t).amount_due =
                               Load(courses[t]) * FEE_PER_CREDIT_HOUR_BIRR
                          /\ get_invoice(t).payment_required
    BY <2>1 DEF get_invoice
  <2> QED  BY <2>1, <2>3, <2>4
<1>3. BillFits
  BY <1>2 DEF BillFits
<1> QED  BY <1>1, <1>3 DEF BilledCompliant

\* What a held or registered student carries has passed the load and prerequisite
\* checks as it stands, and is billed, for every number of terms, courses and slots
\* while edits come one at a time and so do payments.
THEOREM CurriculumGate ==
  ASSUME NEW CONSTANT lane \in Handlers, NEW CONSTANT pay \in Handlers,
         OneDesk(lane, pay), FEE_PER_CREDIT_HOUR_BIRR > 0
  PROVE  Spec => []BilledCompliant
<1>1. Init => CurriculumInv(lane)
  <2>1. ASSUME Init PROVE PassedOK
    <3>1. \A h \in Handlers : request[h].phase = "idle"
      BY <2>1, RestType DEF Init
    <3> QED  BY <3>1 DEF PassedOK
  <2>2. ASSUME Init PROVE CarriedOK
    BY <2>2 DEF Init, CarriedOK
  <2> QED  BY <2>1, <2>2, DeskInit, GateInit DEF CurriculumInv
<1>2. CurriculumInv(lane) /\ [Next]_vars => CurriculumInv(lane)'
  <2> SUFFICES ASSUME CurriculumInv(lane), [Next]_vars
               PROVE  CurriculumInv(lane)'
    OBVIOUS
  <2>1. DeskInv /\ GateInv(lane) /\ PassedOK /\ TypeOK /\ OneLane(lane)
    BY DEF CurriculumInv, DeskInv, OneDesk
  <2>2. DeskInv' /\ GateInv(lane)' /\ PassedOK' /\ CarriedOK'
    BY <2>1, DeskInvStep, GateStep, PassedStep, CarriedStep
  <2> QED  BY <2>2 DEF CurriculumInv
<1>3. CurriculumInv(lane) => BilledCompliant
  BY CurriculumImplies DEF CurriculumInv
<1> QED  BY <1>1, <1>2, <1>3, PTL DEF Spec
=============================================================================
