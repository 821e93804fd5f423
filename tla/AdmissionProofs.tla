---------------------------- MODULE AdmissionProofs ----------------------------
(***************************************************************************)
(* Theorems about the admission of a student, for any number of request    *)
(* slots, any scores and histories of any length; and about requests that  *)
(* take turns.                                                             *)
(***************************************************************************)
EXTENDS AdmissionTurns, SequenceTheorems, WellFoundedInduction, NaturalsInduction, TLAPS

-----------------------------------------------------------------------------
(* The state machine.                                                      *)

LEMMA StatusFacts ==
  /\ Statuses = {"DRAFT", "SUBMITTED", "PAYMENT_PENDING", "PAYMENT_VERIFIED",
                 "UNDER_VERIFICATION", "AI_PRE_SCREENING", "FLAGGED_FOR_REVIEW",
                 "CHANGES_REQUESTED", "UAT_PENDING", "UAT_COMPLETED",
                 "PENDING_REVIEW", "DECIDED", "ENROLLED"}
  /\ NoStatus \notin Statuses
BY DEF Statuses, Allowed, NoStatus

LEMMA RestingFacts ==
  /\ Resting = {"PAYMENT_PENDING", "PAYMENT_VERIFIED",
                "UNDER_VERIFICATION", "AI_PRE_SCREENING", "FLAGGED_FOR_REVIEW",
                "CHANGES_REQUESTED", "UAT_PENDING", "UAT_COMPLETED",
                "PENDING_REVIEW", "DECIDED", "ENROLLED"}
  /\ Resting \subseteq Statuses
  /\ Resting \cap BeforePayment = {"PAYMENT_PENDING"}
  /\ NoStatus \notin Resting /\ NoStatus \in BeforePayment
BY StatusFacts DEF Resting, BeforePayment, NoStatus

\* Where the table leads from a status a request can find.
LEMMA AllowedFacts ==
  ASSUME NEW status \in Resting
  PROVE  Allowed[status] \subseteq Resting
<1>1. \A from \in Resting : Allowed[from] \subseteq Resting
  BY RestingFacts DEF Allowed
<1> QED  BY <1>1

\* A path is a sequence of transitions to statuses of the table.
Steps == [to : Statuses, by : Roles]

LEMMA StepFacts ==
  ASSUME NEW status \in Resting, NEW role \in Roles
  PROVE  /\ To(status, role) \in Steps
         /\ To(status, role).to = status
         /\ To(status, role).by = role
  BY RestingFacts DEF To, Steps

LEMMA TrailFacts ==
  ASSUME NEW from \in Statuses, NEW path \in Seq(Steps)
  PROVE  /\ Trail(from, path) \in Seq(HistoryRow)
         /\ Len(Trail(from, path)) = Len(path)
<1> HIDE DEF Statuses
<1>1. \A i \in 1..Len(path) : path[i] \in Steps
  OBVIOUS
<1>2. \A i \in 1..Len(path) : Trail(from, path)[i] \in HistoryRow
  <2> SUFFICES ASSUME NEW i \in 1..Len(path)
               PROVE  Trail(from, path)[i] \in HistoryRow
    OBVIOUS
  <2>1. CASE i = 1
    BY <1>1, <2>1 DEF Trail, Steps, HistoryRow
  <2>2. CASE i # 1
    <3>1. i - 1 \in 1..Len(path)
      BY <2>2
    <3> QED  BY <1>1, <2>2, <3>1 DEF Trail, Steps, HistoryRow
  <2> QED  BY <2>1, <2>2
<1>3. Trail(from, path) = [i \in 1..Len(path) |-> Trail(from, path)[i]]
  BY DEF Trail
<1>4. Trail(from, path) \in [1..Len(path) -> HistoryRow]
  BY <1>2, <1>3
<1> QED  BY <1>2, <1>4

\* The history only grows, and keeps an officer's waiver.
LEMMA WaiverStays ==
  ASSUME history \in Seq(HistoryRow), NEW more \in Seq(HistoryRow),
         history' = history \o more, WaivedPayment
  PROVE  WaivedPayment'
<1>1. PICK i \in DOMAIN history :
         history[i].previous = "PAYMENT_PENDING" /\ history[i].by = "officer"
  BY DEF WaivedPayment, Entries
<1>2. i \in DOMAIN history' /\ history'[i] = history[i]
  BY ConcatProperties, <1>1
<1> QED  BY <1>1, <1>2 DEF WaivedPayment, Entries

-----------------------------------------------------------------------------
(* Sessions.                                                               *)

LEMMA RowTypes ==
  /\ NoApp \in AppRow
  /\ Idle \in SessionRow
BY StatusFacts DEF NoApp, AppRow, Details, DecisionTypes, NoDecision, Idle, SessionRow,
                  Choices, NoStatus

\* What a write of one session may do to what the others remember.
Grows ==
    /\ app.paid => app'.paid
    /\ WaivedPayment => WaivedPayment'
    /\ decision # NoDecision => decision' = decision

LEMMA OthersStay ==
  ASSUME IInv, Grows, NEW s \in Slots, NEW t \in Slots, session'[t] = session[t]
  PROVE  SessionBacked(t)'
<1>1. SessionBacked(t) /\ "ADMIT" # NoDecision
  BY DEF IInv, NoDecision
<1> QED  BY <1>1 DEF SessionBacked, Grows, Paid

\* A request that ends forgets what it loaded.
LEMMA Closed ==
  ASSUME IInv, Grows, NEW s \in Slots, Close(s)
  PROVE  /\ session' \in [Slots -> SessionRow]
         /\ \A t \in Slots : SessionBacked(t)'
<1>1. session \in [Slots -> SessionRow]
  BY DEF IInv, TypeOK
<1>2. session'[s] = Idle /\ \A t \in Slots \ {s} : session'[t] = session[t]
  BY <1>1 DEF Close
<1>3. session' \in [Slots -> SessionRow]
  BY <1>1, RowTypes DEF Close
<1>4. SessionBacked(s)'
  BY <1>2, RestingFacts DEF SessionBacked, Idle, NoApp
<1>5. \A t \in Slots \ {s} : SessionBacked(t)'
  BY <1>2, OthersStay
<1> QED  BY <1>3, <1>4, <1>5

\* What a slot holds.
LEMMA SlotType ==
  ASSUME TypeOK, NEW s \in Slots
  PROVE  /\ session[s] \in SessionRow
         /\ session[s].seen \in AppRow
         /\ session[s].seen.status \in Resting \cup {NoStatus}
         /\ session[s].seen.final \in DecisionTypes \cup {NoDecision}
         /\ session[s].seen.paid \in BOOLEAN
         /\ session[s].test \in Nat
         /\ app \in AppRow
         /\ app.status \in Resting \cup {NoStatus}
         /\ app.paid \in BOOLEAN
<1> USE DEF TypeOK, SessionRow, AppRow
<1>1. session[s] \in SessionRow
  OBVIOUS
<1>2. session[s].seen \in AppRow /\ app \in AppRow /\ session[s].test \in Nat
  BY <1>1
<1> QED  BY <1>1, <1>2

LEMMA StoredType ==
  ASSUME NEW seen \in AppRow, NEW new \in AppRow, app \in AppRow
  PROVE  Stored(seen, new) \in AppRow
<1> HIDE DEF Resting, DecisionTypes, Details
<1> QED  BY DEF Stored, Orm, AppRow

\* A committed transition: the status it leaves is the last of the path or the
\* one another request left; the other attributes are written if they changed.
LEMMA TransitionFacts ==
  ASSUME IInv, NEW s \in Slots, NEW row \in AppRow, NEW path \in Seq(Steps),
         Len(path) > 0, path[Len(path)].to \in Resting,
         session[s].seen.status \in Resting, Transition(s, row, path)
  PROVE  /\ app' \in AppRow
         /\ history' \in Seq(HistoryRow)
         /\ WaivedPayment => WaivedPayment'
         /\ app'.status \in {app.status, path[Len(path)].to}
         /\ path[Len(path)].to # session[s].seen.status => app'.status = path[Len(path)].to
         /\ app'.paid = Orm(session[s].seen.paid, row.paid, app.paid)
         /\ app'.final = Orm(session[s].seen.final, row.final, app.final)
         /\ Legal(Trail(session[s].seen.status, path))
<1> DEFINE last == path[Len(path)].to
           new == [row EXCEPT !.status = last]
           trail == Trail(session[s].seen.status, path)
<1>1. TypeOK
  BY DEF IInv
<1>2. last \in Resting /\ session[s].seen.status \in Statuses
  BY RestingFacts
<1>3. trail \in Seq(HistoryRow)
  BY <1>2, TrailFacts
<1>4. history' = history \o trail /\ app' = Stored(session[s].seen, new) /\ Legal(trail)
  BY DEF Transition
<1> HIDE DEF trail
<1>5. history \in Seq(HistoryRow)
  BY <1>1 DEF TypeOK
<1>6. history' \in Seq(HistoryRow)
  BY <1>3, <1>4, <1>5, ConcatProperties
<1>7. WaivedPayment => WaivedPayment'
  BY <1>3, <1>4, <1>5, WaiverStays
<1>8. /\ new \in AppRow /\ new.status = last
      /\ new.paid = row.paid /\ new.final = row.final
  BY <1>2 DEF AppRow
<1>9. app' \in AppRow
  BY <1>1, <1>4, <1>8, SlotType, StoredType
<1>10. /\ app'.status = Orm(session[s].seen.status, last, app.status)
       /\ app'.paid = Orm(session[s].seen.paid, row.paid, app.paid)
       /\ app'.final = Orm(session[s].seen.final, row.final, app.final)
  BY <1>4, <1>8 DEF Stored
<1> QED  BY <1>4, <1>6, <1>7, <1>9, <1>10 DEF trail, Orm

\* The part of the type invariant that is not the application or a session.
LedgersOK ==
    /\ termOpen \in BOOLEAN /\ named \in BOOLEAN /\ enrolled \in BOOLEAN
    /\ issued \in Nat /\ tests \in Seq(TestRow) /\ ranked \in Scores \cup {0}
    /\ decision \in DecisionTypes \cup {NoDecision}

\* The commit of a transition keeps the invariant when it pays at most on a
\* callback, leaves the payment states only with a payment or an officer's entry,
\* and takes ADMIT and the enrolment from the recorded decision.
LEMMA CommitKeeps ==
  ASSUME IInv, NEW s \in Slots, NEW row \in AppRow, NEW path \in Seq(Steps),
         Len(path) > 0, path[Len(path)].to \in Resting,
         session[s].seen.status \in Resting, Transition(s, row, path), Close(s),
         \/ row.paid = session[s].seen.paid
         \/ row.paid /\ path[Len(path)].to # session[s].seen.status,
         \/ session[s].seen.status \notin BeforePayment
         \/ row.paid
         \/ path[Len(path)].to \in BeforePayment
         \/ WaivedPayment',
         row.final = session[s].seen.final \/ row.final # "ADMIT" \/ decision' = "ADMIT",
         decision # NoDecision => decision' = decision,
         enrolled' => enrolled \/ decision = "ADMIT",
         LedgersOK'
  PROVE  IInv'
<1> DEFINE last == path[Len(path)].to
           seen == session[s].seen
<1>1. TypeOK /\ SessionBacked(s) /\ FinalBacked /\ HumanAdmits /\ PaymentGate
      /\ (app.status = NoStatus => ~app.paid) /\ "ADMIT" # NoDecision
  BY DEF IInv, NoDecision
<1>2. /\ app' \in AppRow
      /\ history' \in Seq(HistoryRow)
      /\ WaivedPayment => WaivedPayment'
      /\ app'.status \in {app.status, last}
      /\ last # seen.status => app'.status = last
      /\ app'.paid = Orm(seen.paid, row.paid, app.paid)
      /\ app'.final = Orm(seen.final, row.final, app.final)
  BY TransitionFacts
<1>3. /\ app.paid \in BOOLEAN /\ seen.paid \in BOOLEAN /\ row.paid \in BOOLEAN
      /\ seen.paid => app.paid
      /\ seen.status \notin BeforePayment => Paid
  BY <1>1, SlotType DEF SessionBacked, AppRow
<1> HIDE DEF last, seen
<1>4. /\ app.paid => app'.paid
      /\ row.paid => app'.paid
      /\ row.paid = seen.paid => app'.paid = app.paid
  BY <1>2, <1>3 DEF Orm, last, seen
<1>5. Grows
  BY <1>2, <1>4 DEF Grows
<1>6. Paid => Paid'
  BY <1>5 DEF Grows, Paid
<1>7. PaymentGate'
  <2> SUFFICES ASSUME app'.status \notin BeforePayment  PROVE Paid'
    BY DEF PaymentGate
  <2>1. CASE app'.status = app.status
    BY <1>1, <1>6, <2>1 DEF PaymentGate
  <2>2. CASE app'.status = last
    BY <1>3, <1>4, <1>6, <2>2 DEF Paid, last, seen
  <2> QED  BY <1>2, <2>1, <2>2
<1>8. app'.status = NoStatus => ~app'.paid
  <2>1. last # NoStatus
    BY RestingFacts DEF last
  <2> QED  BY <1>1, <1>2, <1>4, <2>1 DEF last, seen
<1>9. FinalBacked'
  BY <1>1, <1>2 DEF FinalBacked, Orm, seen
<1>10. HumanAdmits'
  BY <1>1 DEF HumanAdmits
<1>11. session' \in [Slots -> SessionRow] /\ \A t \in Slots : SessionBacked(t)'
  BY <1>5, Closed
<1>12. TypeOK'
  BY <1>2, <1>11 DEF TypeOK, LedgersOK
<1> QED  BY <1>7, <1>8, <1>9, <1>10, <1>11, <1>12 DEF IInv

\* A step that changes only what one session remembers.
LEMMA RequestKeeps ==
  ASSUME IInv, NEW s \in Slots, UNCHANGED rows,
         session' \in [Slots -> SessionRow],
         \A t \in Slots \ {s} : session'[t] = session[t],
         SessionBacked(s)'
  PROVE  IInv'
<1>1. TypeOK'
  BY DEF IInv, TypeOK, rows
<1>2. WaivedPayment' = WaivedPayment /\ app' = app /\ decision' = decision
  BY DEF rows, WaivedPayment, Entries
<1>3. Grows
  BY <1>2 DEF Grows
<1>4. \A t \in Slots : SessionBacked(t)'
  BY <1>3, OthersStay
<1>5. PaymentGate' /\ FinalBacked' /\ HumanAdmits' /\ (app'.status = NoStatus => ~app'.paid)
  BY <1>2 DEF IInv, rows, PaymentGate, FinalBacked, HumanAdmits, Paid
<1> QED  BY <1>1, <1>4, <1>5 DEF IInv

\* The first read of a request.
LEMMA LoadKeeps ==
  ASSUME IInv, NEW s \in Slots, NEW op \in Ops, NEW choice \in Choices, NEW test \in Nat,
         Load(s, op, choice, test),
         op = "callback" => app.status = "PAYMENT_PENDING",
         op = "patch" => app.status \in Resting /\ choice \in Resting,
         op = "decide" => choice \in DecisionTypes,
         op = "resolve" => choice \in Resolutions,
         op = "enroll" => decision = "ADMIT",
         op \in {"correct", "resolve", "rerun", "decide", "rank", "enroll"} =>
             app.status \notin BeforePayment
  PROVE  IInv'
<1> DEFINE new == [op |-> op, at |-> "loaded", seen |-> app, choice |-> choice,
                   test |-> test, found |-> NoDecision]
<1>1. TypeOK /\ PaymentGate
  BY DEF IInv
<1>2. new \in SessionRow
  BY <1>1, SlotType DEF SessionRow
<1>3. /\ session' = [session EXCEPT ![s] = new]
      /\ UNCHANGED rows
  BY DEF Load
<1>4. /\ new.op = op /\ new.at = "loaded" /\ new.seen = app
      /\ new.choice = choice /\ new.test = test
  OBVIOUS
<1> HIDE DEF new
<1>5. /\ session' \in [Slots -> SessionRow] /\ session'[s] = new
      /\ \A t \in Slots \ {s} : session'[t] = session[t]
  BY <1>1, <1>2, <1>3 DEF TypeOK
<1>6. /\ Paid' = Paid /\ app' = app /\ decision' = decision
  BY <1>3 DEF rows, Paid, WaivedPayment, Entries
<1>7. SessionBacked(s)'
  BY <1>1, <1>4, <1>5, <1>6 DEF SessionBacked, PaymentGate
<1> QED  BY <1>3, <1>5, <1>7, RequestKeeps

-----------------------------------------------------------------------------
(* The paths of the requests.                                              *)

LEMMA OneStep ==
  ASSUME NEW status \in Resting, NEW role \in Roles
  PROVE  /\ <<To(status, role)>> \in Seq(Steps)
         /\ Len(<<To(status, role)>>) = 1
         /\ <<To(status, role)>>[1].to = status
         /\ <<To(status, role)>>[1].by = role
BY StepFacts

LEMMA AgentSteps ==
  /\ {"UNDER_VERIFICATION", "AI_PRE_SCREENING", "UAT_PENDING", "FLAGGED_FOR_REVIEW",
      "PAYMENT_VERIFIED", "PENDING_REVIEW", "DECIDED", "UAT_COMPLETED",
      "ENROLLED"} \subseteq Resting
  /\ Roles = {"applicant", "system", "agent", "officer"}
  /\ "PAYMENT_PENDING" \notin {"UAT_PENDING", "FLAGGED_FOR_REVIEW"}
BY RestingFacts DEF Roles

LEMMA CredentialFacts ==
  ASSUME NEW row, NEW name
  PROVE  /\ CredentialPath(row, name) \in Seq(Steps)
         /\ Len(CredentialPath(row, name)) > 0
         /\ CredentialPath(row, name)[Len(CredentialPath(row, name))].to
                \in {"UAT_PENDING", "FLAGGED_FOR_REVIEW"}
<1>1. /\ To("AI_PRE_SCREENING", "agent") \in Steps
      /\ To("UAT_PENDING", "system") \in Steps /\ To("UAT_PENDING", "system").to = "UAT_PENDING"
      /\ To("FLAGGED_FOR_REVIEW", "agent") \in Steps
      /\ To("FLAGGED_FOR_REVIEW", "agent").to = "FLAGGED_FOR_REVIEW"
  BY AgentSteps, StepFacts
<1>2. CASE VerifiedBy(row, name)
  <2>1. CredentialPath(row, name)
           = <<To("AI_PRE_SCREENING", "agent"), To("UAT_PENDING", "system")>>
    BY <1>2 DEF CredentialPath
  <2> QED  BY <1>1, <2>1
<1>3. CASE ~VerifiedBy(row, name)
  <2>1. CredentialPath(row, name) = <<To("FLAGGED_FOR_REVIEW", "agent")>>
    BY <1>3 DEF CredentialPath
  <2> QED  BY <1>1, <2>1
<1> QED  BY <1>2, <1>3

LEMMA LastOfConcat ==
  ASSUME NEW p \in Seq(Steps), NEW q \in Seq(Steps), Len(q) > 0
  PROVE  /\ p \o q \in Seq(Steps)
         /\ Len(p \o q) > 0
         /\ (p \o q)[Len(p \o q)] = q[Len(q)]
<1>1. Len(p) \in Nat /\ Len(q) \in Nat
  BY LenProperties
<1>2. /\ p \o q \in Seq(Steps) /\ Len(p \o q) = Len(p) + Len(q)
      /\ \A i \in 1..Len(p) + Len(q) :
            (p \o q)[i] = IF i <= Len(p) THEN p[i] ELSE q[i - Len(p)]
  BY ConcatProperties
<1>3. Len(p) + Len(q) \in 1..Len(p) + Len(q)
  BY <1>1
<1>4. ~(Len(p) + Len(q) <= Len(p)) /\ (Len(p) + Len(q)) - Len(p) = Len(q)
  BY <1>1
<1> QED  BY <1>1, <1>2, <1>3, <1>4

\* Transitions of the request and then those of the credential agent.
LEMMA ThenCredentials ==
  ASSUME NEW path \in Seq(Steps), NEW row, NEW name
  PROVE  /\ path \o CredentialPath(row, name) \in Seq(Steps)
         /\ Len(path \o CredentialPath(row, name)) > 0
         /\ (path \o CredentialPath(row, name))[Len(path \o CredentialPath(row, name))].to
                \in {"UAT_PENDING", "FLAGGED_FOR_REVIEW"}
BY CredentialFacts, LastOfConcat

LEMMA CheckedAgain ==
  ASSUME NEW role \in Roles, NEW row, NEW name, NEW path,
         path = <<To("UNDER_VERIFICATION", role)>> \o CredentialPath(row, name)
  PROVE  path \in Seq(Steps) /\ Len(path) > 0 /\ path[Len(path)].to \in Resting
<1>1. <<To("UNDER_VERIFICATION", role)>> \in Seq(Steps)
  BY AgentSteps, OneStep
<1> QED  BY <1>1, AgentSteps, ThenCredentials

LEMMA TestType ==
  ASSUME tests \in Seq(TestRow), NEW row, NEW name, ScheduleTest(row, name)
  PROVE  tests' \in Seq(TestRow)
<1>1. NewTest \in TestRow
  BY DEF NewTest, TestRow
<1> QED  BY <1>1 DEF ScheduleTest

LEMMA LedgersNow ==
  ASSUME IInv
  PROVE  LedgersOK
BY DEF IInv, TypeOK, LedgersOK

-----------------------------------------------------------------------------
(* The invariant is kept: the applicant, the gateway and the agents.       *)

LEMMA SubmitKeeps ==
  ASSUME IInv, NEW s \in Slots, SubmitCommit(s)
  PROVE  IInv'
<1>1. TypeOK /\ app.status = NoStatus /\ ~app.paid /\ HumanAdmits
  BY SlotType DEF SubmitCommit, IInv
<1>2. PICK details \in {"right", "wrong"} :
         app' = [NoApp EXCEPT !.status = "PAYMENT_PENDING", !.details = details]
  BY DEF SubmitCommit
<1>3. /\ app' \in AppRow /\ app'.status = "PAYMENT_PENDING"
      /\ app'.final = NoDecision
  BY <1>2, RowTypes, RestingFacts DEF AppRow, NoApp, Details
<1>4. history \in Seq(HistoryRow)
  BY <1>1 DEF TypeOK
<1> DEFINE path == <<To("SUBMITTED", "applicant"), To("PAYMENT_PENDING", "applicant")>>
<1>5. Trail("DRAFT", path) \in Seq(HistoryRow)
  <2>1. "DRAFT" \in Statuses /\ "SUBMITTED" \in Statuses /\ "PAYMENT_PENDING" \in Statuses
    BY StatusFacts
  <2>2. path \in Seq(Steps)
    BY <2>1 DEF To, Steps, Roles
  <2> QED  BY <2>1, <2>2, TrailFacts
<1>6. history' = history \o Trail("DRAFT", path)
  BY DEF SubmitCommit
<1> HIDE DEF path
<1>7. history' \in Seq(HistoryRow)
  BY <1>4, <1>5, <1>6, ConcatProperties
<1>8. Grows
  BY <1>1, <1>4, <1>5, <1>6, WaiverStays DEF Grows, SubmitCommit
<1>9. session' \in [Slots -> SessionRow] /\ \A t \in Slots : SessionBacked(t)'
  BY <1>8, Closed DEF SubmitCommit
<1>10. TypeOK'
  BY <1>1, <1>3, <1>7, <1>9 DEF TypeOK, SubmitCommit
<1>11. PaymentGate' /\ FinalBacked' /\ HumanAdmits' /\ app'.status # NoStatus
  BY <1>1, <1>3, RestingFacts
  DEF PaymentGate, BeforePayment, FinalBacked, HumanAdmits, SubmitCommit, NoStatus,
      NoDecision
<1> QED  BY <1>9, <1>10, <1>11 DEF IInv

LEMMA InitiateKeeps ==
  ASSUME IInv, NEW s \in Slots, InitiatePaymentCommit(s)
  PROVE  IInv'
<1> DEFINE new == [session[s].seen EXCEPT !.reference = issued + 1]
<1>1. TypeOK /\ session[s].seen \in AppRow /\ app \in AppRow
  BY SlotType DEF IInv
<1>2. /\ new \in AppRow
      /\ new.status = session[s].seen.status /\ new.paid = session[s].seen.paid
      /\ new.final = session[s].seen.final
  <2>1. issued + 1 \in Nat
    BY <1>1 DEF TypeOK
  <2> QED  BY <1>1, <2>1 DEF AppRow
<1>3. app' = Stored(session[s].seen, new)
  BY DEF InitiatePaymentCommit
<1>4. app' \in AppRow
  BY <1>1, <1>2, <1>3, StoredType
<1>5. app'.status = app.status /\ app'.paid = app.paid /\ app'.final = app.final
  BY <1>2, <1>3 DEF Stored, Orm
<1>6. WaivedPayment' = WaivedPayment
  BY DEF InitiatePaymentCommit, WaivedPayment, Entries
<1>7. Grows
  BY <1>5, <1>6 DEF Grows, InitiatePaymentCommit
<1>8. session' \in [Slots -> SessionRow] /\ \A t \in Slots : SessionBacked(t)'
  BY <1>7, Closed DEF InitiatePaymentCommit
<1>9. TypeOK'
  BY <1>1, <1>4, <1>8 DEF TypeOK, InitiatePaymentCommit
<1>10. PaymentGate' /\ FinalBacked' /\ HumanAdmits' /\ (app'.status = NoStatus => ~app'.paid)
  BY <1>5, <1>6
  DEF IInv, PaymentGate, FinalBacked, HumanAdmits, Paid, InitiatePaymentCommit
<1> QED  BY <1>8, <1>9, <1>10 DEF IInv

LEMMA CallbackKeeps ==
  ASSUME IInv, NEW s \in Slots, CompletePaymentCommit(s)
  PROVE  IInv'
<1> DEFINE row == [session[s].seen EXCEPT !.paid = TRUE]
           front == <<To("PAYMENT_VERIFIED", "system")>> \o IntakePath(row)
           path == front \o CredentialPath(row, named)
<1>1. TypeOK /\ session[s].seen \in AppRow
  BY SlotType DEF IInv
<1>2. row \in AppRow /\ row.paid /\ row.final = session[s].seen.final
  BY <1>1 DEF AppRow
<1>3. session[s].seen.status = "PAYMENT_PENDING"
  BY DEF IInv, SessionBacked, CompletePaymentCommit, At
<1>4. front \in Seq(Steps)
  BY AgentSteps, OneStep, ConcatProperties, <1>2 DEF IntakePath, IntakePasses
<1>5. path \in Seq(Steps) /\ Len(path) > 0
      /\ path[Len(path)].to \in {"UAT_PENDING", "FLAGGED_FOR_REVIEW"}
  BY <1>4, ThenCredentials
<1>6. Transition(s, row, path) /\ Close(s) /\ ScheduleTest(row, named)
      /\ UNCHANGED <<termOpen, named, issued, decision, ranked, enrolled>>
  BY DEF CompletePaymentCommit
<1> HIDE DEF row, front, path
<1>7. LedgersOK'
  BY <1>1, <1>6, TestType DEF LedgersOK, TypeOK
<1>8. session[s].seen.status \in Resting /\ path[Len(path)].to \in Resting
      /\ path[Len(path)].to # session[s].seen.status
  BY <1>3, <1>5, RestingFacts, AgentSteps
<1> QED  BY <1>2, <1>5, <1>6, <1>7, <1>8, CommitKeeps

LEMMA CorrectKeeps ==
  ASSUME IInv, NEW s \in Slots, UpdateRequestedCorrectionsCommit(s)
  PROVE  IInv'
<1>1. TypeOK /\ session[s].seen \in AppRow /\ session[s].seen.status \notin BeforePayment
      /\ session[s].seen.status \in Resting
  BY SlotType, RestingFacts DEF IInv, SessionBacked, UpdateRequestedCorrectionsCommit, At
<1>2. PICK details \in Details, name \in BOOLEAN, renamed \in BOOLEAN :
         LET row == [session[s].seen EXCEPT !.details = details]
             now == IF renamed THEN name ELSE named
         IN  /\ named' = now
             /\ Transition(s, row, <<To("UNDER_VERIFICATION", "applicant")>>
                                   \o CredentialPath(row, now))
             /\ ScheduleTest(row, now)
  BY DEF UpdateRequestedCorrectionsCommit
<1> DEFINE row == [session[s].seen EXCEPT !.details = details]
           now == IF renamed THEN name ELSE named
           path == <<To("UNDER_VERIFICATION", "applicant")>> \o CredentialPath(row, now)
<1>3. row \in AppRow /\ row.paid = session[s].seen.paid
      /\ row.final = session[s].seen.final /\ now \in BOOLEAN
  BY <1>1 DEF AppRow, TypeOK
<1>4. path \in Seq(Steps) /\ Len(path) > 0 /\ path[Len(path)].to \in Resting
  BY AgentSteps, CheckedAgain
<1>5. Transition(s, row, path) /\ named' = now /\ ScheduleTest(row, now)
  BY <1>2
<1> HIDE DEF row, path, now
<1>6. Close(s) /\ UNCHANGED <<termOpen, issued, decision, ranked, enrolled>>
  BY DEF UpdateRequestedCorrectionsCommit
<1>7. LedgersOK'
  BY <1>1, <1>3, <1>5, <1>6, TestType DEF LedgersOK, TypeOK
<1> QED  BY <1>1, <1>3, <1>4, <1>5, <1>6, <1>7, CommitKeeps

LEMMA RerunKeeps ==
  ASSUME IInv, NEW s \in Slots, RerunPostPaymentChecksCommit(s)
  PROVE  IInv'
<1> DEFINE seen == session[s].seen
           path == <<To("UNDER_VERIFICATION", "officer")>> \o CredentialPath(seen, named)
<1>1. TypeOK /\ seen \in AppRow /\ seen.status \notin BeforePayment /\ seen.status \in Resting
  BY SlotType, RestingFacts DEF IInv, SessionBacked, RerunPostPaymentChecksCommit, At
<1>2. path \in Seq(Steps) /\ Len(path) > 0 /\ path[Len(path)].to \in Resting
  BY AgentSteps, CheckedAgain
<1>3. Transition(s, seen, path) /\ Close(s) /\ ScheduleTest(seen, named)
      /\ UNCHANGED <<termOpen, named, issued, decision, ranked, enrolled>>
  BY DEF RerunPostPaymentChecksCommit
<1> HIDE DEF path
<1>4. LedgersOK'
  BY <1>1, <1>3, TestType DEF LedgersOK, TypeOK
<1> QED  BY <1>1, <1>2, <1>3, <1>4, CommitKeeps

-----------------------------------------------------------------------------
(* The officers, the ranking and the enrolment run, the testing centre.    *)

\* A commit of one transition to the status an officer or an agent chose, from a
\* status beyond the payment.
LEMMA OneStepKeeps ==
  ASSUME IInv, NEW s \in Slots, NEW row \in AppRow, NEW status \in Resting,
         NEW role \in Roles, session[s].seen.status \in Resting \ BeforePayment,
         Transition(s, row, <<To(status, role)>>), Close(s),
         row.paid = session[s].seen.paid,
         row.final = session[s].seen.final \/ row.final # "ADMIT" \/ decision' = "ADMIT",
         decision # NoDecision => decision' = decision,
         enrolled' => enrolled \/ decision = "ADMIT",
         LedgersOK'
  PROVE  IInv'
<1> DEFINE path == <<To(status, role)>>
<1>1. path \in Seq(Steps) /\ Len(path) > 0 /\ path[Len(path)].to \in Resting
  BY OneStep
<1>2. Transition(s, row, path)
  OBVIOUS
<1> HIDE DEF path
<1> QED  BY <1>1, <1>2, CommitKeeps

\* A session whose request decides about an application beyond the payment.
LEMMA BeyondPayment ==
  ASSUME IInv, NEW s \in Slots,
         session[s].op \in {"correct", "resolve", "rerun", "decide", "rank", "enroll"}
  PROVE  session[s].seen.status \in Resting \ BeforePayment
BY SlotType, RestingFacts DEF IInv, SessionBacked

\* Leaving PAYMENT_PENDING by hand is the waiver.
LEMMA PatchKeeps ==
  ASSUME IInv, NEW s \in Slots, ChangeStatusCommit(s)
  PROVE  IInv'
<1> DEFINE seen == session[s].seen
           status == session[s].choice
           path == <<To(status, "officer")>>
<1>1. TypeOK /\ seen \in AppRow /\ seen.status \in Resting /\ status \in Resting
  BY SlotType DEF IInv, SessionBacked, ChangeStatusCommit, At
<1>2. /\ path \in Seq(Steps) /\ Len(path) = 1
      /\ path[1].to = status /\ path[1].by = "officer"
  BY <1>1, OneStep, AgentSteps
<1>3. Transition(s, seen, path) /\ Close(s)
      /\ UNCHANGED <<termOpen, named, issued, tests, decision, ranked, enrolled>>
  BY DEF ChangeStatusCommit
<1>4. LedgersOK'
  BY <1>1, <1>3 DEF LedgersOK, TypeOK
<1>5. CASE seen.status \in BeforePayment
  <2>1. seen.status = "PAYMENT_PENDING"
    BY <1>1, <1>5, RestingFacts
  <2> DEFINE trail == Trail(seen.status, path)
  <2>2. trail \in Seq(HistoryRow) /\ Len(trail) = 1
    BY <1>1, <1>2, RestingFacts, TrailFacts
  <2>3. trail[1].previous = "PAYMENT_PENDING" /\ trail[1].by = "officer"
    BY <1>2, <2>1 DEF Trail
  <2>4. history \in Seq(HistoryRow) /\ history' = history \o trail
    BY <1>1, <1>3 DEF TypeOK, Transition
  <2> HIDE DEF trail
  <2>5. Len(history) \in Nat /\ history' \in Seq(HistoryRow)
        /\ Len(history') = Len(history) + 1
    <3>1. /\ history \o trail \in Seq(HistoryRow)
          /\ Len(history \o trail) = Len(history) + Len(trail)
      BY <2>2, <2>4, ConcatProperties
    <3>2. Len(history) \in Nat
      BY <2>4, LenProperties
    <3> QED  BY <2>2, <2>4, <3>1, <3>2
  <2>6. Len(history) + 1 \in DOMAIN history'
    BY <2>5
  <2>7. history'[Len(history) + 1] = trail[1]
    <3>1. /\ Len(history) + 1 \in 1..Len(history) + Len(trail)
          /\ ~(Len(history) + 1 <= Len(history)) /\ (Len(history) + 1) - Len(history) = 1
      BY <2>2, <2>5
    <3> QED  BY <2>2, <2>4, <3>1, ConcatProperties
  <2>8. WaivedPayment'
    BY <2>3, <2>6, <2>7 DEF WaivedPayment, Entries
  <2>9. /\ path \in Seq(Steps) /\ Len(path) > 0 /\ path[Len(path)].to \in Resting
        /\ Transition(s, seen, path)
    BY <1>1, <1>2, <1>3
  <2> HIDE DEF path
  <2> QED  BY <1>1, <1>3, <1>4, <2>8, <2>9, CommitKeeps
<1>6. CASE seen.status \notin BeforePayment
  BY <1>1, <1>3, <1>4, <1>6, AgentSteps, OneStepKeeps
<1> QED  BY <1>5, <1>6

LEMMA ResolveKeeps ==
  ASSUME IInv, NEW s \in Slots, ResolveFlaggedApplicationCommit(s)
  PROVE  IInv'
<1>1. TypeOK /\ session[s].seen \in AppRow
      /\ session[s].choice \in Resolutions \ {"REJECT_NOW"}
      /\ session[s].seen.status \in Resting \ BeforePayment
  BY SlotType, BeyondPayment DEF IInv, SessionBacked, ResolveFlaggedApplicationCommit, At
<1>2. ResolvedStatus[session[s].choice] \in Resting
  BY <1>1, RestingFacts DEF ResolvedStatus, Resolutions
<1>3. LedgersOK'
  BY <1>1 DEF LedgersOK, TypeOK, ResolveFlaggedApplicationCommit
<1> QED  BY <1>1, <1>2, <1>3, AgentSteps, OneStepKeeps
         DEF ResolveFlaggedApplicationCommit

LEMMA RejectNowKeeps ==
  ASSUME IInv, NEW s \in Slots, RejectNowCommit(s)
  PROVE  IInv'
<1> DEFINE row == [session[s].seen EXCEPT !.final = "REJECT"]
           path == <<To("PENDING_REVIEW", "officer"), To("DECIDED", "officer")>>
<1>1. TypeOK /\ session[s].seen \in AppRow
      /\ session[s].seen.status \in Resting \ BeforePayment
  BY SlotType, BeyondPayment DEF IInv, RejectNowCommit, At
<1>2. row \in AppRow /\ row.paid = session[s].seen.paid /\ row.final = "REJECT"
  BY <1>1 DEF AppRow, DecisionTypes, HumanDecisions
<1>3. path \in Seq(Steps) /\ Len(path) > 0 /\ path[Len(path)].to \in Resting
  BY AgentSteps, StepFacts
<1>4. Transition(s, row, path) /\ Close(s)
      /\ UNCHANGED <<termOpen, named, issued, tests, ranked, enrolled>>
      /\ (decision # NoDecision => decision' = decision)
      /\ decision' \in {decision, "REJECT"}
  BY DEF RejectNowCommit, RecordDecision
<1> HIDE DEF row, path
<1>5. LedgersOK'
  BY <1>1, <1>4 DEF LedgersOK, TypeOK, DecisionTypes, HumanDecisions
<1> QED  BY <1>1, <1>2, <1>3, <1>4, <1>5, CommitKeeps

LEMMA DecideKeeps ==
  ASSUME IInv, NEW s \in Slots, DecideCommit(s)
  PROVE  IInv'
<1> DEFINE row == [session[s].seen EXCEPT !.final = session[s].choice]
<1>1. TypeOK /\ session[s].seen \in AppRow /\ session[s].choice \in DecisionTypes
      /\ session[s].seen.status \in Resting \ BeforePayment
  BY SlotType, BeyondPayment DEF IInv, SessionBacked, DecideCommit, At
<1>2. row \in AppRow /\ row.paid = session[s].seen.paid /\ row.final = session[s].choice
  BY <1>1 DEF AppRow
<1>3. Transition(s, row, <<To("DECIDED", "officer")>>) /\ Close(s)
      /\ UNCHANGED <<termOpen, named, issued, tests, ranked, enrolled>>
      /\ decision = NoDecision /\ decision' = session[s].choice
  BY DEF DecideCommit, RecordDecision
<1> HIDE DEF row
<1>4. LedgersOK'
  BY <1>1, <1>3 DEF LedgersOK, TypeOK
<1> QED  BY <1>1, <1>2, <1>3, <1>4, AgentSteps, OneStepKeeps

LEMMA RankKeeps ==
  ASSUME IInv, NEW s \in Slots, RunRankingCommit(s)
  PROVE  IInv'
<1>1. TypeOK /\ session[s].seen \in AppRow /\ session[s].test \in Scores \cup {0}
      /\ session[s].seen.status \in Resting \ BeforePayment
  BY SlotType, BeyondPayment DEF IInv, SessionBacked, RunRankingCommit, At
<1>2. LedgersOK'
  BY <1>1 DEF LedgersOK, TypeOK, RunRankingCommit
<1> QED  BY <1>1, <1>2, AgentSteps, OneStepKeeps DEF RunRankingCommit

LEMMA EnrollKeeps ==
  ASSUME IInv, NEW s \in Slots, RunEnrollmentCommit(s)
  PROVE  IInv'
<1>1. TypeOK /\ session[s].seen \in AppRow /\ decision = "ADMIT"
      /\ session[s].seen.status \in Resting \ BeforePayment
  BY SlotType, BeyondPayment DEF IInv, SessionBacked, RunEnrollmentCommit, At
<1>2. LedgersOK'
  BY <1>1 DEF LedgersOK, TypeOK, RunEnrollmentCommit
<1> QED  BY <1>1, <1>2, AgentSteps, OneStepKeeps DEF RunEnrollmentCommit

LEMMA TestKeeps ==
  ASSUME IInv, NEW s \in Slots, UATCommit(s)
  PROVE  IInv'
<1>1. TypeOK /\ session[s].seen \in AppRow
  BY SlotType DEF IInv
<1>2. PICK score \in Scores :
         tests' = [tests EXCEPT ![session[s].test] = [done |-> TRUE, score |-> score]]
  BY DEF UATCommit
<1>3. tests' \in Seq(TestRow)
  <2>1. tests \in Seq(TestRow) /\ [done |-> TRUE, score |-> score] \in TestRow
    BY <1>1 DEF TypeOK, TestRow
  <2>2. CASE session[s].test \in 1..Len(tests)
    BY <1>2, <2>1, <2>2, ExceptSeq
  <2>3. CASE session[s].test \notin 1..Len(tests)
    <3>1. tests' = tests
      BY <1>2, <2>1, <2>3
    <3> QED  BY <2>1, <3>1
  <2> QED  BY <2>2, <2>3
<1>4. Close(s) /\ UNCHANGED <<termOpen, named, issued, decision, ranked, enrolled>>
  BY DEF UATCommit
<1>5. LedgersOK'
  BY <1>1, <1>3, <1>4 DEF LedgersOK, TypeOK
<1>6. CASE session[s].seen.status = "UAT_PENDING"
  <2>1. session[s].seen.status \in Resting \ BeforePayment
    BY <1>6, RestingFacts
  <2>2. Transition(s, session[s].seen, <<To("UAT_COMPLETED", "system")>>)
    BY <1>6 DEF UATCommit
  <2> QED  BY <1>1, <1>4, <1>5, <2>1, <2>2, AgentSteps, OneStepKeeps
<1>7. CASE session[s].seen.status # "UAT_PENDING"
  <2>1. UNCHANGED <<app, history>>
    BY <1>7 DEF UATCommit
  <2>2. WaivedPayment' = WaivedPayment
    BY <2>1 DEF WaivedPayment, Entries
  <2>3. Grows
    BY <1>4, <2>1, <2>2 DEF Grows
  <2>4. session' \in [Slots -> SessionRow] /\ \A t \in Slots : SessionBacked(t)'
    BY <1>4, <2>3, Closed
  <2>5. TypeOK'
    BY <1>1, <1>5, <2>1, <2>4 DEF TypeOK, LedgersOK
  <2> QED  BY <1>4, <2>1, <2>2, <2>4, <2>5
           DEF IInv, PaymentGate, FinalBacked, HumanAdmits, Paid
<1> QED  BY <1>6, <1>7

-----------------------------------------------------------------------------
(* The reads.                                                              *)

LEMMA LoadsKeep ==
  ASSUME IInv, NEW s \in Slots,
         \/ SubmitLoad(s) \/ InitiatePaymentLoad(s)
         \/ \E reference \in 1..issued : CompletePaymentLoad(s, reference)
         \/ UpdateRequestedCorrectionsLoad(s) \/ RerunPostPaymentChecksLoad(s)
         \/ \E status \in Statuses : ChangeStatusLoad(s, status)
         \/ \E resolution \in Resolutions : ResolveFlaggedApplicationLoad(s, resolution)
         \/ \E verdict \in Verdicts : DecideLoad(s, verdict)
         \/ RunRankingLoad(s) \/ RunEnrollmentLoad(s)
         \/ \E i \in DOMAIN tests : UATLoad(s, i)
  PROVE  IInv'
<1>0. /\ NoStatus \in Choices /\ Resolutions \subseteq Choices
      /\ Resting \subseteq Choices /\ DecisionTypes \subseteq Choices
      /\ 0 \in Nat /\ Verdicts \subseteq DecisionTypes
  BY AdmissionAssumption DEF Choices, DecisionTypes, HumanDecisions
<1>1. CASE SubmitLoad(s)
  BY <1>0, <1>1, LoadKeeps DEF SubmitLoad, Ops
<1>2. CASE InitiatePaymentLoad(s)
  BY <1>0, <1>2, LoadKeeps DEF InitiatePaymentLoad, Ops
<1>3. CASE \E reference \in 1..issued : CompletePaymentLoad(s, reference)
  BY <1>0, <1>3, LoadKeeps DEF CompletePaymentLoad, Ops
<1>4. CASE UpdateRequestedCorrectionsLoad(s)
  BY <1>0, <1>4, LoadKeeps DEF UpdateRequestedCorrectionsLoad, Ops, BeforePayment, NoStatus
<1>5. CASE RerunPostPaymentChecksLoad(s)
  BY <1>0, <1>5, LoadKeeps DEF RerunPostPaymentChecksLoad, Ops, BeforePayment, NoStatus
<1>6. CASE \E status \in Statuses : ChangeStatusLoad(s, status)
  <2>1. PICK status \in Statuses : ChangeStatusLoad(s, status)
    BY <1>6
  <2>2. app.status \in Resting /\ status \in Allowed[app.status]
    BY <2>1, SlotType, StatusFacts DEF IInv, ChangeStatusLoad
  <2>3. status \in Resting
    BY <2>2, AllowedFacts
  <2> QED  BY <1>0, <2>1, <2>2, <2>3, LoadKeeps DEF ChangeStatusLoad, Ops
<1>7. CASE \E resolution \in Resolutions : ResolveFlaggedApplicationLoad(s, resolution)
  <2>1. PICK resolution \in Resolutions : ResolveFlaggedApplicationLoad(s, resolution)
    BY <1>7
  <2> QED  BY <1>0, <2>1, LoadKeeps
           DEF ResolveFlaggedApplicationLoad, Ops, BeforePayment, NoStatus
<1>8. CASE \E verdict \in Verdicts : DecideLoad(s, verdict)
  <2>1. PICK verdict \in Verdicts : DecideLoad(s, verdict)
    BY <1>8
  <2> QED  BY <1>0, <2>1, LoadKeeps DEF DecideLoad, Ops, BeforePayment, NoStatus
<1>9. CASE RunRankingLoad(s)
  BY <1>0, <1>9, LoadKeeps DEF RunRankingLoad, Ops, BeforePayment, NoStatus
<1>10. CASE RunEnrollmentLoad(s)
  BY <1>0, <1>10, LoadKeeps DEF RunEnrollmentLoad, Ops, BeforePayment, NoStatus, IInv, FinalBacked
<1>11. CASE \E i \in DOMAIN tests : UATLoad(s, i)
  <2>1. PICK i \in DOMAIN tests : UATLoad(s, i)
    BY <1>11
  <2>2. i \in Nat
    BY <2>1 DEF IInv, TypeOK
  <2> QED  BY <1>0, <2>1, <2>2, LoadKeeps DEF UATLoad, Ops
<1> QED  BY <1>1, <1>2, <1>3, <1>4, <1>5, <1>6, <1>7, <1>8, <1>9, <1>10, <1>11

\* The later reads: what a session already holds stays backed.
LEMMA LaterRead ==
  ASSUME IInv, NEW s \in Slots, NEW new \in SessionRow, UNCHANGED rows,
         session' = [session EXCEPT ![s] = new],
         new.op = session[s].op, new.choice = session[s].choice,
         new.seen = session[s].seen \/ (new.seen = app /\ new.op = "test"),
         new.op = "rank" => new.test \in Scores \cup {0}
  PROVE  IInv'
<1>1. TypeOK /\ SessionBacked(s) /\ PaymentGate
  BY DEF IInv
<1>2. /\ session' \in [Slots -> SessionRow] /\ session'[s] = new
      /\ \A t \in Slots \ {s} : session'[t] = session[t]
  BY <1>1 DEF TypeOK
<1>3. /\ Paid' = Paid /\ app' = app /\ decision' = decision
  BY DEF rows, Paid, WaivedPayment, Entries
<1>4. SessionBacked(s)'
  BY <1>1, <1>2, <1>3 DEF SessionBacked, PaymentGate
<1> QED  BY <1>2, <1>4, RequestKeeps

LEMMA ReadsKeep ==
  ASSUME IInv, NEW s \in Slots,
         \/ RejectNowRead(s) \/ DecideRead(s) \/ RunRankingRead(s)
         \/ RunEnrollmentRead(s) \/ UATFlush(s)
  PROVE  IInv'
<1>1. TypeOK /\ session[s] \in SessionRow /\ session \in [Slots -> SessionRow]
      /\ app \in AppRow
  BY SlotType DEF IInv, TypeOK
<1>2. CASE RejectNowRead(s) \/ DecideRead(s)
  <2> DEFINE new == [session[s] EXCEPT !.at = "read", !.found = decision]
  <2>1. session' = [session EXCEPT ![s] = new] /\ UNCHANGED rows
        /\ session[s].op \in {"resolve", "decide"}
    BY <1>2 DEF RejectNowRead, DecideRead, Read, At
  <2>2. /\ new \in SessionRow /\ new.op = session[s].op
        /\ new.choice = session[s].choice /\ new.seen = session[s].seen
    BY <1>1 DEF SessionRow, TypeOK
  <2> HIDE DEF new
  <2> QED  BY <2>1, <2>2, LaterRead
<1>3. CASE RunRankingRead(s)
  <2>1. PICK i \in DOMAIN tests :
           session' = [session EXCEPT ![s].at = "read", ![s].test = tests[i].score]
    BY <1>3 DEF RunRankingRead
  <2> DEFINE new == [session[s] EXCEPT !.at = "read", !.test = tests[i].score]
  <2>2. tests[i].score \in Scores \cup {0}
    <3>1. tests \in Seq(TestRow) /\ i \in 1..Len(tests)
      BY <1>1, <2>1 DEF TypeOK
    <3>2. tests[i] \in TestRow
      BY <3>1, ElementOfSeq
    <3> QED  BY <3>2 DEF TestRow
  <2>3. tests[i].score \in Nat
    <3>1. Scores \subseteq Nat /\ 0 \in Nat
      BY AdmissionAssumption
    <3> QED  BY <2>2, <3>1, Zenon
  <2>4. session' = [session EXCEPT ![s] = new] /\ UNCHANGED rows
    BY <1>3, <2>1 DEF RunRankingRead
  <2>5. /\ new \in SessionRow /\ new.op = session[s].op
        /\ new.choice = session[s].choice /\ new.seen = session[s].seen
        /\ new.test = tests[i].score
    BY <1>1, <2>3 DEF SessionRow
  <2> HIDE DEF new
  <2> QED  BY <2>2, <2>4, <2>5, LaterRead
<1>4. CASE RunEnrollmentRead(s)
  <2> DEFINE new == [session[s] EXCEPT !.at = "read"]
  <2>1. session' = [session EXCEPT ![s] = new] /\ UNCHANGED rows /\ session[s].op = "enroll"
    BY <1>4 DEF RunEnrollmentRead, At
  <2>2. /\ new \in SessionRow /\ new.op = session[s].op
        /\ new.choice = session[s].choice /\ new.seen = session[s].seen
    BY <1>1 DEF SessionRow
  <2> HIDE DEF new
  <2> QED  BY <2>1, <2>2, LaterRead
<1>5. CASE UATFlush(s)
  <2> DEFINE new == [session[s] EXCEPT !.at = "read", !.seen = app]
  <2>1. session' = [session EXCEPT ![s] = new] /\ UNCHANGED rows /\ session[s].op = "test"
    BY <1>5 DEF UATFlush, At
  <2>2. /\ new \in SessionRow /\ new.op = session[s].op
        /\ new.choice = session[s].choice /\ new.seen = app
    BY <1>1 DEF SessionRow
  <2> HIDE DEF new
  <2> QED  BY <2>1, <2>2, LaterRead
<1> QED  BY <1>2, <1>3, <1>4, <1>5

-----------------------------------------------------------------------------
(* The theorems.                                                           *)

LEMMA InitOK == Init => IInv
<1> SUFFICES ASSUME Init  PROVE IInv
  OBVIOUS
<1>1. TypeOK
  BY RowTypes, EmptySeq DEF Init, TypeOK
<1>2. app.status = NoStatus /\ ~app.paid /\ app.final = NoDecision /\ ~enrolled
  BY DEF Init, NoApp
<1>3. \A s \in Slots : session[s] = Idle
  BY DEF Init
<1>4. \A s \in Slots : SessionBacked(s)
  <2> SUFFICES ASSUME NEW s \in Slots  PROVE SessionBacked(s)
    OBVIOUS
  <2>1. /\ session[s].op = "none" /\ session[s].at = "idle"
        /\ session[s].seen.status = NoStatus /\ ~session[s].seen.paid
    BY <1>3 DEF Idle, NoApp
  <2> QED  BY <2>1, RestingFacts DEF SessionBacked
<1>5. PaymentGate /\ FinalBacked /\ HumanAdmits
  BY <1>2, RestingFacts DEF PaymentGate, FinalBacked, HumanAdmits, NoDecision
<1> QED  BY <1>1, <1>2, <1>4, <1>5 DEF IInv

LEMMA StepOK == IInv /\ [Next]_vars => IInv'
<1> SUFFICES ASSUME IInv, [Next]_vars  PROVE IInv'
  OBVIOUS
<1>1. CASE UNCHANGED vars
  BY <1>1 DEF IInv, TypeOK, PaymentGate, FinalBacked, HumanAdmits, SessionBacked, Paid,
              WaivedPayment, Entries, vars
<1>2. CASE \E open \in BOOLEAN : SetAdmissionTermOpen(open)
  BY <1>2 DEF SetAdmissionTermOpen, IInv, TypeOK, PaymentGate, FinalBacked, HumanAdmits,
              SessionBacked, Paid, WaivedPayment, Entries
<1>3. ASSUME NEW s \in Slots, Applicant(s)  PROVE IInv'
  BY <1>3, LoadsKeep, SubmitKeeps, InitiateKeeps, CallbackKeeps, CorrectKeeps DEF Applicant
<1>4. ASSUME NEW s \in Slots, Officer(s)  PROVE IInv'
  BY <1>4, LoadsKeep, ReadsKeep, PatchKeeps, RerunKeeps, ResolveKeeps, RejectNowKeeps,
     DecideKeeps, RankKeeps, EnrollKeeps DEF Officer
<1>5. ASSUME NEW s \in Slots, TestingCentre(s)  PROVE IInv'
  BY <1>5, LoadsKeep, ReadsKeep, TestKeeps DEF TestingCentre
<1>6. ASSUME NEW s \in Slots, Abort(s)  PROVE IInv'
  <2>1. Close(s) /\ UNCHANGED rows
    BY <1>6 DEF Abort
  <2>2. WaivedPayment' = WaivedPayment /\ app' = app /\ decision' = decision
    BY <2>1 DEF rows, WaivedPayment, Entries
  <2>3. session' \in [Slots -> SessionRow] /\ \A t \in Slots : SessionBacked(t)'
    BY <2>1, <2>2, Closed DEF Grows
  <2>4. \A t \in Slots \ {s} : session'[t] = session[t]
    BY <2>1 DEF IInv, TypeOK, Close
  <2> QED  BY <2>1, <2>3, <2>4, RequestKeeps
<1> QED  BY <1>1, <1>2, <1>3, <1>4, <1>5, <1>6 DEF Next

\* The invariant of the admission workflow, for any number of overlapping
\* requests: what a session remembers of payment and decision is still true when
\* it writes (ApplicationService, DecisionService, the runs and the callbacks).
THEOREM Invariant == Spec => []IInv
BY InitOK, StepOK, PTL DEF Spec

\* Nobody gets past PAYMENT_PENDING without a payment the gateway confirmed or an
\* officer's history entry, whatever overlaps or fails (complete_payment).
THEOREM PaymentGated == Spec => []PaymentGate
<1>1. IInv => PaymentGate
  BY DEF IInv
<1> QED  BY <1>1, Invariant, PTL

-----------------------------------------------------------------------------
(* The workflow implements AdmissionRecord.                                *)

LEMMA InitRecords == Init => Record!RecordInit
BY DEF Init, Record!RecordInit

\* Two actions write a decision, both only where there is none.
LEMMA DecisionStep ==
  ASSUME IInv, NEW s \in Slots, DecideCommit(s) \/ RejectNowCommit(s)
  PROVE  [Record!RecordNext]_Record!record
<1>1. UNCHANGED enrolled
  BY DEF DecideCommit, RejectNowCommit
<1>2. CASE DecideCommit(s)
  <2>1. session[s].choice \in DecisionTypes
    BY <1>2 DEF IInv, SessionBacked, DecideCommit, At
  <2> QED  BY <1>1, <1>2, <2>1
           DEF DecideCommit, RecordDecision, Record!RecordNext, Record!Decide, Record!record
<1>3. CASE RejectNowCommit(s)
  <2>1. "REJECT" \in DecisionTypes
    BY DEF DecisionTypes, HumanDecisions
  <2> QED  BY <1>1, <1>3, <2>1
           DEF RejectNowCommit, RecordDecision, Record!RecordNext, Record!Decide,
               Record!record
<1> QED  BY <1>2, <1>3

LEMMA StepRecords == IInv /\ [Next]_vars => [Record!RecordNext]_Record!record
<1> SUFFICES ASSUME IInv, [Next]_vars  PROVE [Record!RecordNext]_Record!record
  OBVIOUS
<1>1. CASE UNCHANGED vars
  BY <1>1 DEF vars, Record!record
<1>2. CASE \E open \in BOOLEAN : SetAdmissionTermOpen(open)
  BY <1>2 DEF SetAdmissionTermOpen, Record!record
<1>3. ASSUME NEW s \in Slots, Applicant(s)  PROVE UNCHANGED <<decision, enrolled>>
  BY <1>3 DEF Applicant, SubmitLoad, SubmitCommit, InitiatePaymentLoad,
     InitiatePaymentCommit, CompletePaymentLoad, CompletePaymentCommit,
     UpdateRequestedCorrectionsLoad, UpdateRequestedCorrectionsCommit, Load, rows
<1>4. ASSUME NEW s \in Slots, Officer(s)
      PROVE  \/ UNCHANGED <<decision, enrolled>>
             \/ DecideCommit(s) \/ RejectNowCommit(s) \/ RunEnrollmentCommit(s)
  BY <1>4 DEF Officer, ChangeStatusLoad, ChangeStatusCommit, RerunPostPaymentChecksLoad,
     RerunPostPaymentChecksCommit, ResolveFlaggedApplicationLoad,
     ResolveFlaggedApplicationCommit, RejectNowRead, DecideLoad, DecideRead,
     RunRankingLoad, RunRankingRead, RunRankingCommit, RunEnrollmentLoad,
     RunEnrollmentRead, Load, Read, rows
<1>5. ASSUME NEW s \in Slots, TestingCentre(s)  PROVE UNCHANGED <<decision, enrolled>>
  BY <1>5 DEF TestingCentre, UATLoad, UATFlush, UATCommit, Load, rows
<1>6. ASSUME NEW s \in Slots, Abort(s)  PROVE UNCHANGED <<decision, enrolled>>
  BY <1>6 DEF Abort, rows
<1>7. ASSUME NEW s \in Slots, RunEnrollmentCommit(s)
      PROVE  [Record!RecordNext]_Record!record
  <2>1. decision = "ADMIT"
    BY <1>7 DEF IInv, SessionBacked, RunEnrollmentCommit, At
  <2> QED  BY <1>7, <2>1 DEF RunEnrollmentCommit, Record!RecordNext, Record!Enrol, Record!record
<1> QED  BY <1>1, <1>2, <1>3, <1>4, <1>5, <1>6, <1>7, DecisionStep DEF Next, Record!record

\* A decision once written never changes and a student is enrolled once, after a
\* decision to admit (RegistrarDecision is immutable; uq on enrollments).
THEOREM Refinement == Spec => RefinesRecord
BY InitRecords, StepRecords, Invariant, PTL DEF Spec, RefinesRecord, Record!RecordSpec

-----------------------------------------------------------------------------
(***************************************************************************)
(* Requests that take turns.                                               *)
(***************************************************************************)
\* From the test on there is no way back to the checks.
Past == {"UAT_PENDING", "UAT_COMPLETED", "PENDING_REVIEW", "DECIDED", "ENROLLED"}

\* There is one test, of those who got past the checks; nobody waits for it when
\* it is done; the score that was ranked is its score.
TestsFit ==
    /\ Len(tests) <= 1
    /\ tests # <<>> => app.status \in Past
    /\ app.status = "UAT_PENDING" /\ history[Len(history)].by = "system" =>
           Len(tests) = 1 /\ ~tests[1].done
    /\ ranked # 0 => Len(tests) = 1 /\ tests[1] = [done |-> TRUE, score |-> ranked]

\* A correction that did not lead to the test was flagged again.
Correction(i) == history[i].by = "applicant" /\ history[i].previous = "CHANGES_REQUESTED"
CorrectionsFit ==
    app.status \notin Past =>
        \A i \in DOMAIN history : Correction(i) => \E j \in flagged_entries : i < j

\* What a request has read still holds.
SessionFresh(r) ==
    r.at # "idle" =>
        /\ r.seen = app
        /\ r.op = "resolve" /\ r.at = "read" => r.found = decision
        /\ r.op = "rank" /\ r.at = "read" =>
               \E i \in DOMAIN tests : tests[i].done /\ tests[i].score = r.test
        /\ r.op = "test" => r.test \in DOMAIN tests /\ ~tests[r.test].done

RowsFit == HistoryReplays /\ DecisionStands /\ TestsFit /\ CorrectionsFit

InTurn ==
    /\ OneAtATime
    /\ RowsFit
    /\ \A s \in Slots : SessionFresh(session[s])

\* Where the table leads from the test on.
LEMMA PastFacts ==
  /\ Past \subseteq Resting
  /\ \A from \in Past : Allowed[from] \subseteq Past
  /\ Allowed["DECIDED"] = {"ENROLLED"} /\ Allowed["ENROLLED"] = {}
  /\ \A from \in Resting : "ENROLLED" \in Allowed[from] => from = "DECIDED"
BY RestingFacts DEF Past, Allowed

\* What a committed transition in turn does to the row and the history.
Goes(final, path) ==
    /\ path \in Seq(Steps) /\ Len(path) > 0
    /\ app'.status = path[Len(path)].to /\ app'.final = final
    /\ history' \in Seq(HistoryRow) /\ Len(history') = Len(history) + Len(path)
    /\ \A i \in 1..Len(history) : history'[i] = history[i]
    /\ \A k \in 1..Len(path) :
          /\ history'[Len(history) + k].next = path[k].to
          /\ history'[Len(history) + k].by = path[k].by
          /\ history'[Len(history) + k].previous
                 = IF k = 1 THEN app.status ELSE path[k - 1].to
    /\ path[1].to \in Allowed[app.status]
    /\ Len(path) > 1 => path[2].to \in Allowed[path[1].to]

LEMMA Committed ==
  ASSUME TypeOK, NEW s \in Slots, session[s].seen = app, app.status \in Resting,
         NEW row \in AppRow, NEW path \in Seq(Steps), Len(path) > 0,
         path[Len(path)].to \in Resting, Transition(s, row, path)
  PROVE  Goes(row.final, path)
<1>1. PICK n \in Nat, m \in Nat : n = Len(history) /\ m = Len(path) /\ m > 0
  BY LenProperties DEF TypeOK
<1>2. PICK trail : trail = Trail(app.status, path)
  OBVIOUS
<1>3. trail \in Seq(HistoryRow) /\ Len(trail) = m
  BY <1>1, <1>2, RestingFacts, TrailFacts
<1>4. DOMAIN path = 1..m /\ DOMAIN trail = 1..m
  BY <1>1, <1>3
<1>5. \A k \in 1..m : /\ trail[k].next = path[k].to /\ trail[k].by = path[k].by
                      /\ trail[k].previous = IF k = 1 THEN app.status ELSE path[k - 1].to
  BY <1>2, <1>4 DEF Trail
<1>6. /\ Legal(trail) /\ history' = history \o trail
      /\ app' = Stored(app, [row EXCEPT !.status = path[Len(path)].to])
  BY <1>2 DEF Transition
<1>7. app'.status = path[Len(path)].to /\ app'.final = row.final
  <2>1. /\ [row EXCEPT !.status = path[Len(path)].to].status = path[Len(path)].to
        /\ [row EXCEPT !.status = path[Len(path)].to].final = row.final
    BY DEF AppRow
  <2> QED  BY <1>6, <2>1 DEF Stored, Orm
<1>8. history \in Seq(HistoryRow)
  BY DEF TypeOK
<1>9. /\ history' \in Seq(HistoryRow) /\ Len(history') = n + m
      /\ \A i \in 1..n + m : history'[i] = IF i <= n THEN history[i] ELSE trail[i - n]
  <2>1. /\ history \o trail \in Seq(HistoryRow)
        /\ Len(history \o trail) = Len(history) + Len(trail)
        /\ \A i \in 1..Len(history) + Len(trail) :
              (history \o trail)[i] = IF i <= Len(history) THEN history[i]
                                     ELSE trail[i - Len(history)]
    BY <1>3, <1>8, ConcatProperties
  <2> QED  BY <1>1, <1>3, <1>6, <2>1
<1>10. \A i \in 1..n : history'[i] = history[i]
  BY <1>9
<1>11. \A k \in 1..m : history'[n + k] = trail[k]
  <2> SUFFICES ASSUME NEW k \in 1..m PROVE history'[n + k] = trail[k]
    OBVIOUS
  <2>1. n + k \in 1..n + m /\ ~(n + k <= n) /\ (n + k) - n = k
    OBVIOUS
  <2> QED  BY <1>9, <2>1
<1>12. path[1].to \in Allowed[app.status] /\ (m > 1 => path[2].to \in Allowed[path[1].to])
  <2>1. \A k \in 1..m : trail[k].next \in Allowed[trail[k].previous]
    BY <1>4, <1>6 DEF Legal
  <2>2. 1 \in 1..m /\ (m > 1 => 2 \in 1..m) /\ 2 # 1 /\ 2 - 1 = 1
    BY <1>1
  <2>3. trail[1].next = path[1].to /\ trail[1].previous = app.status
    BY <1>5, <2>2
  <2>4. m > 1 => trail[2].next = path[2].to /\ trail[2].previous = path[1].to
    BY <1>5, <2>2
  <2> QED  BY <2>1, <2>2, <2>3, <2>4
<1> QED  BY <1>1, <1>5, <1>7, <1>9, <1>10, <1>11, <1>12 DEF Goes

\* The history stays a chain that ends in the status.
LEMMA ChainGoes ==
  ASSUME TypeOK, HistoryReplays, app.status \in Resting, NEW final, NEW path, Goes(final, path)
  PROVE  HistoryReplays' /\ history' # <<>>
         /\ history'[Len(history')].by = path[Len(path)].by
<1>1. PICK n \in Nat, m \in Nat : n = Len(history) /\ m = Len(path) /\ m > 0
  BY LenProperties DEF TypeOK, Goes
<1>2. /\ app'.status = path[m].to
      /\ history' \in Seq(HistoryRow) /\ Len(history') = n + m
      /\ \A i \in 1..n : history'[i] = history[i]
      /\ \A k \in 1..m :
            /\ history'[n + k].next = path[k].to
            /\ history'[n + k].by = path[k].by
            /\ history'[n + k].previous = IF k = 1 THEN app.status ELSE path[k - 1].to
  BY <1>1 DEF Goes
<1>3. history \in Seq(HistoryRow) /\ DOMAIN history = 1..n
  BY <1>1 DEF TypeOK
<1>4. /\ history # <<>> /\ n > 0
      /\ \A i \in 1..n : history[i].previous = IF i = 1 THEN "DRAFT" ELSE history[i - 1].next
      /\ history[n].next = app.status
  BY <1>1, <1>3, RestingFacts DEF HistoryReplays
<1>5. history' # <<>> /\ DOMAIN history' = 1..n + m
  BY <1>1, <1>2
<1>6. ASSUME NEW i \in 1..n + m
      PROVE  history'[i].previous = IF i = 1 THEN "DRAFT" ELSE history'[i - 1].next
  <2>1. CASE i \in 1..n
    <3>1. i # 1 => i - 1 \in 1..n
      BY <2>1
    <3> QED  BY <1>2, <1>4, <2>1, <3>1
  <2>2. CASE i = n + 1
    <3>1. 1 \in 1..m /\ n \in 1..n /\ i # 1 /\ i - 1 = n
      BY <1>1, <1>4, <2>2
    <3>2. history'[n + 1].previous = app.status
      BY <1>2, <3>1
    <3> QED  BY <1>2, <1>4, <2>2, <3>1, <3>2
  <2>3. CASE i > n + 1
    <3>1. PICK k \in 1..m : i = n + k /\ k # 1 /\ k - 1 \in 1..m /\ i - 1 = n + (k - 1) /\ i # 1
      <4>1. i - n \in 1..m /\ i = n + (i - n) /\ i - n # 1 /\ (i - n) - 1 \in 1..m
            /\ i - 1 = n + ((i - n) - 1) /\ i # 1
        BY <1>1, <2>3
      <4> QED  BY <4>1
    <3>2. history'[n + k].previous = path[k - 1].to
      BY <1>2, <3>1
    <3>3. history'[n + (k - 1)].next = path[k - 1].to
      BY <1>2, <3>1
    <3> QED  BY <3>1, <3>2, <3>3
  <2> QED  BY <1>1, <2>1, <2>2, <2>3
<1>7. /\ history'[n + m].next = app'.status /\ history'[n + m].by = path[m].by
  BY <1>1, <1>2
<1>8. app'.status # NoStatus
  <2>1. path[m] \in Steps
    BY <1>1 DEF Goes
  <2> QED  BY <1>2, <2>1, StatusFacts DEF Steps
<1> QED  BY <1>1, <1>2, <1>5, <1>6, <1>7, <1>8 DEF HistoryReplays

\* From the test on a request leads no way back.
StaysPast(path) == path[1].to \in Past => path[Len(path)].to \in Past

LEMMA PastGoes ==
  ASSUME TypeOK, app.status \in Past, NEW final, NEW path, Goes(final, path)
  PROVE  path[1].to \in Past /\ (StaysPast(path) => app'.status \in Past)
BY PastFacts DEF Goes, StaysPast

LEMMA CorrectionsGo ==
  ASSUME TypeOK, CorrectionsFit, NEW final, NEW path, Goes(final, path), StaysPast(path),
         \/ \A k \in 1..Len(path) : path[k].by # "applicant"
         \/ path[Len(path)].to \in Past
         \/ path[Len(path)].to = "FLAGGED_FOR_REVIEW" /\ path[Len(path)].by = "agent"
  PROVE  CorrectionsFit'
<1>1. PICK n \in Nat, m \in Nat : n = Len(history) /\ m = Len(path) /\ m > 0
  BY LenProperties DEF TypeOK, Goes
<1>2. /\ app'.status = path[m].to
      /\ history' \in Seq(HistoryRow) /\ Len(history') = n + m
      /\ \A i \in 1..n : history'[i] = history[i]
      /\ \A k \in 1..m : /\ history'[n + k].next = path[k].to
                         /\ history'[n + k].by = path[k].by
  BY <1>1 DEF Goes
<1>3. DOMAIN history = 1..n /\ DOMAIN history' = 1..n + m
  BY <1>1, <1>2 DEF TypeOK
<1> SUFFICES ASSUME app'.status \notin Past, NEW i \in 1..n + m, Correction(i)'
             PROVE  \E j \in flagged_entries' : i < j
  BY <1>3 DEF CorrectionsFit
<1>4. path[m].to \notin Past /\ app.status \notin Past
  BY <1>1, <1>2, PastGoes
<1>5. history'[i].by = "applicant" /\ history'[i].previous = "CHANGES_REQUESTED"
  BY DEF Correction
<1>6. CASE path[m].to = "FLAGGED_FOR_REVIEW" /\ path[m].by = "agent"
  <2>1. m \in 1..m /\ n + m \in 1..n + m
    BY <1>1
  <2>2. history'[n + m].next = "FLAGGED_FOR_REVIEW" /\ history'[n + m].by = "agent"
    BY <1>2, <1>6, <2>1
  <2>3. n + m \in flagged_entries'
    BY <1>3, <2>1, <2>2 DEF flagged_entries
  <2>4. i # n + m
    BY <1>5, <2>2
  <2> QED  BY <1>1, <2>3, <2>4
<1>7. CASE \A k \in 1..m : path[k].by # "applicant"
  <2>1. i \in 1..n
    <3>1. ASSUME i \notin 1..n PROVE FALSE
      <4>1. i - n \in 1..m /\ n + (i - n) = i
        BY <1>1, <3>1
      <4> QED  BY <1>2, <1>5, <1>7, <4>1
    <3> QED  BY <3>1
  <2>2. Correction(i)
    BY <1>2, <1>5, <2>1 DEF Correction
  <2>3. PICK j \in flagged_entries : i < j
    BY <1>3, <1>4, <2>1, <2>2 DEF CorrectionsFit
  <2>4. j \in 1..n /\ j \in 1..n + m
    BY <1>1, <1>3, <2>3 DEF flagged_entries
  <2>5. j \in flagged_entries'
    BY <1>2, <1>3, <2>3, <2>4 DEF flagged_entries
  <2> QED  BY <2>3, <2>5
<1> QED  BY <1>1, <1>4, <1>6, <1>7

\* Only an officer's hand decides without a decision, and only a decision decides.
LEMMA DecisionGoes ==
  ASSUME IInv, DecisionStands, app.status \in Resting, NEW final, NEW path, Goes(final, path),
         \/ /\ decision' = decision /\ final = app.final
            /\ enrolled' = enrolled \/ decision # NoDecision
            /\ path[Len(path)].to \in {"DECIDED", "ENROLLED"} => Len(path) = 1
            /\ path[Len(path)].to = "DECIDED" => path[1].by = "officer"
         \/ /\ decision' = final /\ decision' # NoDecision
            /\ path[Len(path)].to = "DECIDED"
  PROVE  DecisionStands'
<1>1. PICK n \in Nat, m \in Nat : n = Len(history) /\ m = Len(path) /\ m > 0
  BY LenProperties DEF IInv, TypeOK, Goes
<1>2. /\ app'.status = path[m].to /\ app'.final = final
      /\ history' \in Seq(HistoryRow) /\ Len(history') = n + m
      /\ \A i \in 1..n : history'[i] = history[i]
      /\ \A k \in 1..m : /\ history'[n + k].next = path[k].to
                         /\ history'[n + k].by = path[k].by
      /\ path[1].to \in Allowed[app.status]
      /\ m > 1 => path[2].to \in Allowed[path[1].to]
  BY <1>1 DEF Goes
<1>3. DOMAIN history = 1..n /\ DOMAIN history' = 1..n + m
  BY <1>1, <1>2 DEF IInv, TypeOK
<1>4. Entries \subseteq Entries'
  BY <1>2, <1>3 DEF Entries
<1>5. CASE decision' = final /\ decision' # NoDecision /\ path[m].to = "DECIDED"
  BY <1>2, <1>5 DEF DecisionStands
<1>6. CASE /\ decision' = decision /\ final = app.final
           /\ enrolled' = enrolled \/ decision # NoDecision
           /\ path[m].to \in {"DECIDED", "ENROLLED"} => m = 1
           /\ path[m].to = "DECIDED" => path[1].by = "officer"
  <2>1. decision' = app'.final
    BY <1>2, <1>6 DEF DecisionStands
  <2>2. app.status \in {"DECIDED", "ENROLLED"} => m = 1 /\ path[1].to = "ENROLLED"
    BY <1>1, <1>2, PastFacts
  <2>3. decision' # NoDecision => app'.status \in {"DECIDED", "ENROLLED"}
    BY <1>2, <1>6, <2>2 DEF DecisionStands
  <2>4. ASSUME app'.status \in {"DECIDED", "ENROLLED"}, decision' = NoDecision
        PROVE  /\ ~enrolled'
               /\ \E entry \in Entries' : entry.next = "DECIDED" /\ entry.by = "officer"
    <3>1. ~enrolled' /\ m = 1 /\ decision = NoDecision /\ app'.status = path[1].to
      BY <1>2, <1>6, <2>4 DEF IInv, HumanAdmits, NoDecision
    <3>2. CASE path[1].to = "DECIDED"
      <4>1. 1 \in 1..m /\ n + 1 \in 1..n + m
        BY <1>1
      <4>2. history'[n + 1].next = "DECIDED" /\ history'[n + 1].by = "officer"
        BY <1>2, <1>6, <3>1, <3>2, <4>1
      <4>3. history'[n + 1] \in Entries'
        BY <1>3, <4>1 DEF Entries
      <4> QED  BY <3>1, <4>2, <4>3
    <3>3. CASE path[1].to = "ENROLLED"
      <4>1. app.status = "DECIDED"
        BY <1>2, <3>3, PastFacts
      <4>2. \E entry \in Entries : entry.next = "DECIDED" /\ entry.by = "officer"
        BY <3>1, <4>1 DEF DecisionStands
      <4> QED  BY <1>4, <3>1, <4>2
    <3> QED  BY <2>4, <3>1, <3>2, <3>3
  <2> QED  BY <2>1, <2>3, <2>4 DEF DecisionStands
<1> QED  BY <1>1, <1>5, <1>6

\* A request that leaves the tests and the ranking alone, and whose transitions
\* do not end where the test is waited for.
LEMMA TestsStay ==
  ASSUME IInv, TestsFit, HistoryReplays, app.status \in Resting, NEW final, NEW path,
         Goes(final, path), StaysPast(path), tests' = tests, ranked' = ranked,
         path[Len(path)].to = "UAT_PENDING" => path[Len(path)].by # "system"
  PROVE  TestsFit'
<1>1. TypeOK
  BY DEF IInv
<1>2. tests' # <<>> => app'.status \in Past
  BY <1>1, PastGoes DEF TestsFit
<1>3. app'.status = path[Len(path)].to /\ history'[Len(history')].by = path[Len(path)].by
  BY <1>1, ChainGoes DEF Goes
<1> QED  BY <1>2, <1>3 DEF TestsFit

\* The checks schedule a test for who has none, exactly when they lead to it.
LEMMA TestScheduled ==
  ASSUME IInv, TestsFit, NEW final, NEW path, Goes(final, path), ranked' = ranked,
         path[1].to \notin Past, NEW row, NEW name, ScheduleTest(row, name),
         IF VerifiedBy(row, name) THEN path[Len(path)].to = "UAT_PENDING"
                                  ELSE path[Len(path)].to = "FLAGGED_FOR_REVIEW"
  PROVE  TestsFit'
<1>1. TypeOK /\ tests \in Seq(TestRow)
  BY DEF IInv, TypeOK
<1>2. app.status \notin Past
  BY <1>1, PastGoes
<1>3. tests = <<>> /\ ranked = 0
  BY <1>1, <1>2 DEF TestsFit
<1>4. CASE VerifiedBy(row, name)
  <2>1. tests' = Append(<<>>, NewTest)
    BY <1>3, <1>4 DEF ScheduleTest
  <2>2. Len(tests') = 1 /\ tests'[1] = NewTest /\ ~NewTest.done
    BY <2>1 DEF NewTest
  <2>3. app'.status \in Past
    BY <1>4 DEF Goes, Past
  <2> QED  BY <1>3, <2>2, <2>3 DEF TestsFit
<1>5. CASE ~VerifiedBy(row, name)
  <2>1. tests' = <<>> /\ app'.status # "UAT_PENDING"
    BY <1>3, <1>5 DEF ScheduleTest, Goes
  <2> QED  BY <1>3, <2>1 DEF TestsFit
<1> QED  BY <1>4, <1>5

\* When the request that is at work ends, nobody is at work.
LEMMA AllIdle ==
  ASSUME TypeOK, OneAtATime, NEW s \in Slots, session[s].at # "idle", Close(s)
  PROVE  OneAtATime' /\ \A t \in Slots : SessionFresh(session[t])'
<1>1. ASSUME NEW t \in Slots PROVE session'[t].at = "idle"
  <2>1. CASE t = s
    BY <2>1 DEF Close, Idle, TypeOK
  <2>2. CASE t # s
    <3>1. session'[t] = session[t]
      BY <2>2 DEF Close, TypeOK
    <3>2. session[t].at = "idle"
      BY <2>2 DEF OneAtATime, Busy
    <3> QED  BY <3>1, <3>2
  <2> QED  BY <2>1, <2>2
<1> QED  BY <1>1 DEF OneAtATime, Busy, SessionFresh

\* A session that goes on, while the rows stay as they are.
LEMMA SessionMoves ==
  ASSUME TypeOK, InTurn, OneAtATime', UNCHANGED rows, NEW s \in Slots, NEW r,
         session' = [session EXCEPT ![s] = r], SessionFresh(r)
  PROVE  InTurn'
<1>1. RowsFit'
  BY DEF InTurn, RowsFit, rows, HistoryReplays, DecisionStands, TestsFit, CorrectionsFit,
         Correction, flagged_entries, Entries
<1>2. ASSUME NEW t \in Slots PROVE SessionFresh(session[t])'
  <2>1. PICK q : q = session'[t]
    OBVIOUS
  <2>2. SessionFresh(q)
    BY <2>1 DEF InTurn, TypeOK
  <2>3. SessionFresh(q)'
    BY <2>2 DEF SessionFresh, rows
  <2> QED  BY <2>1, <2>3 DEF SessionFresh
<1> QED  BY <1>1, <1>2 DEF InTurn

\* What a commit in turn has to get right.
LEMMA CommitInTurn ==
  ASSUME IInv, InTurn, NEW s \in Slots, session[s].at # "idle", Close(s),
         app.status \in Resting, NEW row \in AppRow, NEW path \in Seq(Steps),
         Len(path) > 0, path[Len(path)].to \in Resting, Transition(s, row, path),
         StaysPast(path),
         \/ \A k \in 1..Len(path) : path[k].by # "applicant"
         \/ path[Len(path)].to \in Past
         \/ path[Len(path)].to = "FLAGGED_FOR_REVIEW" /\ path[Len(path)].by = "agent",
         \/ /\ decision' = decision /\ row.final = app.final
            /\ enrolled' = enrolled \/ decision # NoDecision
            /\ path[Len(path)].to \in {"DECIDED", "ENROLLED"} => Len(path) = 1
            /\ path[Len(path)].to = "DECIDED" => path[1].by = "officer"
         \/ /\ decision' = row.final /\ decision' # NoDecision
            /\ path[Len(path)].to = "DECIDED",
         Goes(row.final, path) => TestsFit'
  PROVE  InTurn'
<1>1. TypeOK /\ RowsFit /\ OneAtATime /\ session[s].seen = app
  BY DEF IInv, InTurn, SessionFresh
<1>2. Goes(row.final, path)
  BY <1>1, Committed
<1>3. HistoryReplays'
  BY <1>1, <1>2, ChainGoes DEF RowsFit
<1>4. CorrectionsFit'
  BY <1>1, <1>2, CorrectionsGo DEF RowsFit
<1>5. DecisionStands'
  BY <1>1, <1>2, DecisionGoes DEF RowsFit
<1>6. OneAtATime' /\ \A t \in Slots : SessionFresh(session[t])'
  BY <1>1, AllIdle
<1> QED  BY <1>2, <1>3, <1>4, <1>5, <1>6 DEF InTurn, RowsFit

-----------------------------------------------------------------------------
(* The requests that take turns.                                           *)

LEMMA FirstOfConcat ==
  ASSUME NEW p \in Seq(Steps), NEW q \in Seq(Steps), Len(p) > 0
  PROVE  (p \o q)[1] = p[1]
<1>1. Len(p) \in Nat /\ Len(q) \in Nat
  BY LenProperties
<1>2. 1 \in 1..Len(p) + Len(q) /\ 1 <= Len(p)
  BY <1>1
<1>3. \A i \in 1..Len(p) + Len(q) :
          (p \o q)[i] = IF i <= Len(p) THEN p[i] ELSE q[i - Len(p)]
  BY ConcatProperties
<1> QED  BY <1>2, <1>3

LEMMA CredentialLast ==
  ASSUME NEW row, NEW name, NEW last,
         last = CredentialPath(row, name)[Len(CredentialPath(row, name))]
  PROVE  IF VerifiedBy(row, name) THEN last.to = "UAT_PENDING"
         ELSE last.to = "FLAGGED_FOR_REVIEW" /\ last.by = "agent"
<1>1. CASE VerifiedBy(row, name)
  <2>1. CredentialPath(row, name)
           = <<To("AI_PRE_SCREENING", "agent"), To("UAT_PENDING", "system")>>
    BY <1>1 DEF CredentialPath
  <2>2. last = To("UAT_PENDING", "system")
    BY <2>1
  <2> QED  BY <1>1, <2>2 DEF To
<1>2. CASE ~VerifiedBy(row, name)
  <2>1. CredentialPath(row, name) = <<To("FLAGGED_FOR_REVIEW", "agent")>>
    BY <1>2 DEF CredentialPath
  <2>2. last = To("FLAGGED_FOR_REVIEW", "agent")
    BY <2>1
  <2> QED  BY <1>2, <2>2 DEF To
<1> QED  BY <1>1, <1>2

\* A request that ends with the verdict of the credential agent.
LEMMA ChecksInTurn ==
  ASSUME IInv, InTurn, NEW s \in Slots, session[s].at # "idle", Close(s),
         app.status \in Resting, NEW row \in AppRow, row.final = app.final,
         NEW front \in Seq(Steps), Len(front) > 0, front[1].to \notin Past,
         NEW name, Transition(s, row, front \o CredentialPath(row, name)),
         ScheduleTest(row, name), UNCHANGED <<decision, ranked, enrolled>>
  PROVE  InTurn'
<1>1. PICK path : path = front \o CredentialPath(row, name)
  OBVIOUS
<1>2. /\ path \in Seq(Steps) /\ Len(path) > 0
      /\ path[Len(path)] = CredentialPath(row, name)[Len(CredentialPath(row, name))]
      /\ path[1] = front[1]
  BY <1>1, CredentialFacts, LastOfConcat, FirstOfConcat
<1>3. IF VerifiedBy(row, name) THEN path[Len(path)].to = "UAT_PENDING"
      ELSE path[Len(path)].to = "FLAGGED_FOR_REVIEW" /\ path[Len(path)].by = "agent"
  BY <1>2, CredentialLast
<1>4. path[Len(path)].to \in {"UAT_PENDING", "FLAGGED_FOR_REVIEW"}
      /\ path[1].to \notin Past
  BY <1>2, <1>3
<1>5. path[Len(path)].to \in Resting /\ StaysPast(path)
  BY <1>4, AgentSteps DEF StaysPast
<1>6. \/ path[Len(path)].to \in Past
      \/ path[Len(path)].to = "FLAGGED_FOR_REVIEW" /\ path[Len(path)].by = "agent"
  BY <1>3 DEF Past
<1>7. /\ decision' = decision /\ row.final = app.final /\ enrolled' = enrolled
      /\ path[Len(path)].to \notin {"DECIDED", "ENROLLED"}
  BY <1>4
<1>8. TestsFit /\ ranked' = ranked
  BY DEF InTurn, RowsFit
<1>9. Goes(row.final, path) => TestsFit'
  BY <1>3, <1>4, <1>8, TestScheduled
<1> QED  BY <1>1, <1>2, <1>5, <1>6, <1>7, <1>9, CommitInTurn

\* A request of one transition, which leaves the tests and the ranking alone.
LEMMA OneStepInTurn ==
  ASSUME IInv, InTurn, NEW s \in Slots, session[s].at # "idle", Close(s),
         app.status \in Resting, NEW row \in AppRow, NEW status \in Resting,
         NEW role \in Roles \ {"applicant"},
         Transition(s, row, <<To(status, role)>>),
         \/ /\ decision' = decision /\ row.final = app.final
            /\ enrolled' = enrolled \/ decision # NoDecision
            /\ status = "DECIDED" => role = "officer"
         \/ /\ decision' = row.final /\ decision' # NoDecision
            /\ status = "DECIDED",
         \/ tests' = tests /\ ranked' = ranked /\ (status = "UAT_PENDING" => role # "system")
         \/ Goes(row.final, <<To(status, role)>>) => TestsFit'
  PROVE  InTurn'
<1>1. PICK path : path = <<To(status, role)>>
  OBVIOUS
<1>2. /\ path \in Seq(Steps) /\ Len(path) = 1
      /\ path[1].to = status /\ path[1].by = role
  BY <1>1, OneStep
<1>3. StaysPast(path) /\ (\A k \in 1..Len(path) : path[k].by # "applicant")
  BY <1>2 DEF StaysPast
<1>4. TestsFit /\ HistoryReplays
  BY DEF InTurn, RowsFit
<1>5. Goes(row.final, path) => TestsFit'
  <2>1. CASE tests' = tests /\ ranked' = ranked /\ (status = "UAT_PENDING" => role # "system")
    BY <1>2, <1>3, <1>4, <2>1, TestsStay
  <2>2. CASE Goes(row.final, path) => TestsFit'
    BY <2>2
  <2> QED  BY <1>1, <2>1, <2>2
<1>6. path[Len(path)].to = status /\ path[Len(path)].to \in Resting /\ Len(path) > 0
  BY <1>2
<1>7. \/ /\ decision' = decision /\ row.final = app.final
         /\ enrolled' = enrolled \/ decision # NoDecision
         /\ path[Len(path)].to \in {"DECIDED", "ENROLLED"} => Len(path) = 1
         /\ path[Len(path)].to = "DECIDED" => path[1].by = "officer"
      \/ /\ decision' = row.final /\ decision' # NoDecision
         /\ path[Len(path)].to = "DECIDED"
  BY <1>2, <1>6
<1> QED  BY <1>1, <1>2, <1>3, <1>5, <1>6, <1>7, CommitInTurn

\* What the session that acts has read.
LEMMA SeenNow ==
  ASSUME IInv, InTurn, NEW s \in Slots, session[s].at # "idle"
  PROVE  /\ TypeOK /\ session[s].seen = app /\ app \in AppRow
         /\ session[s].op \in {"correct", "resolve", "rerun", "decide", "rank", "enroll"} =>
                app.status \in Resting
         /\ session[s].op = "callback" => app.status \in Resting
         /\ session[s].op = "patch" => app.status \in Resting /\ session[s].choice \in Resting
<1>1. session[s].seen = app /\ TypeOK /\ SessionBacked(s)
  BY DEF InTurn, SessionFresh, IInv
<1> QED  BY <1>1, SlotType, BeyondPayment, RestingFacts DEF SessionBacked

LEMMA SubmitInTurn ==
  ASSUME IInv, InTurn, NEW s \in Slots, SubmitCommit(s)
  PROVE  InTurn'
<1>1. /\ app.status = NoStatus /\ session[s].at # "idle" /\ TypeOK /\ OneAtATime /\ RowsFit
      /\ Close(s) /\ UNCHANGED <<tests, decision, ranked, enrolled>>
  BY DEF SubmitCommit, At, IInv, InTurn
<1>2. app.status \notin Past /\ app.status \notin {"DECIDED", "ENROLLED"}
  BY <1>1 DEF Past, NoStatus
<1>3. history = <<>> /\ tests = <<>> /\ ranked = 0 /\ decision = NoDecision
  BY <1>1, <1>2 DEF RowsFit, HistoryReplays, TestsFit, DecisionStands
<1>4. app'.status = "PAYMENT_PENDING" /\ app'.final = NoDecision
  BY DEF SubmitCommit, NoApp
<1>5. PICK path : path = <<To("SUBMITTED", "applicant"), To("PAYMENT_PENDING", "applicant")>>
  OBVIOUS
<1>6. /\ Len(path) = 2 /\ DOMAIN path = 1..2
      /\ path[1].to = "SUBMITTED" /\ path[2].to = "PAYMENT_PENDING"
      /\ path[1].by = "applicant" /\ path[2].by = "applicant"
  BY <1>5 DEF To
<1>7. path \in Seq(Steps)
  <2>1. "SUBMITTED" \in Statuses /\ "PAYMENT_PENDING" \in Statuses
    BY StatusFacts
  <2> QED  BY <1>5, <2>1 DEF To, Steps, Roles
<1>8. PICK trail : trail = Trail("DRAFT", path)
  OBVIOUS
<1>9. trail \in Seq(HistoryRow) /\ Len(trail) = 2
  BY <1>6, <1>7, <1>8, StatusFacts, TrailFacts
<1>10. /\ trail[1].previous = "DRAFT" /\ trail[1].next = "SUBMITTED"
       /\ trail[2].previous = "SUBMITTED" /\ trail[2].next = "PAYMENT_PENDING"
  BY <1>6, <1>8 DEF Trail
<1>11. history' = trail
  <2>1. history' = <<>> \o trail
    BY <1>3, <1>5, <1>8 DEF SubmitCommit
  <2> QED  BY <1>9, <2>1, ConcatEmptySeq
<1>12. DOMAIN history' = 1..2 /\ history' # <<>>
  BY <1>9, <1>11
<1>13. HistoryReplays'
  <2>1. \A i \in 1..2 : history'[i].previous = IF i = 1 THEN "DRAFT" ELSE history'[i - 1].next
    <3>1. history'[1].previous = "DRAFT" /\ history'[2].previous = history'[1].next
      BY <1>10, <1>11
    <3>2. \A i \in 1..2 : i = 1 \/ (i = 2 /\ i # 1 /\ i - 1 = 1)
      OBVIOUS
    <3> QED  BY <3>1, <3>2
  <2>2. history'[Len(history')].next = app'.status
    BY <1>4, <1>9, <1>10, <1>11
  <2>3. app'.status # NoStatus
    BY <1>4 DEF NoStatus
  <2> QED  BY <1>12, <2>1, <2>2, <2>3 DEF HistoryReplays
<1>14. CorrectionsFit'
  BY <1>10, <1>11, <1>12 DEF CorrectionsFit, Correction
<1>15. TestsFit' /\ DecisionStands'
  BY <1>1, <1>3, <1>4 DEF TestsFit, DecisionStands
<1>16. OneAtATime' /\ \A t \in Slots : SessionFresh(session[t])'
  BY <1>1, AllIdle
<1> QED  BY <1>13, <1>14, <1>15, <1>16 DEF InTurn, RowsFit

\* A commit or an end that leaves status, decision, history and tests alone.
LEMMA QuietEnd ==
  ASSUME IInv, InTurn, NEW s \in Slots, session[s].at # "idle", Close(s),
         app'.status = app.status, app'.final = app.final,
         UNCHANGED <<history, tests, decision, ranked, enrolled>>
  PROVE  InTurn'
<1>1. RowsFit'
  BY DEF InTurn, RowsFit, HistoryReplays, DecisionStands, TestsFit, CorrectionsFit,
         Correction, flagged_entries, Entries
<1> QED  BY <1>1, AllIdle DEF InTurn, IInv

LEMMA InitiateInTurn ==
  ASSUME IInv, InTurn, NEW s \in Slots, InitiatePaymentCommit(s)
  PROVE  InTurn'
<1>1. session[s].at # "idle" /\ Close(s)
  BY DEF InitiatePaymentCommit, At
<1>2. session[s].seen = app /\ app \in AppRow
  BY <1>1, SeenNow
<1>3. app' = Stored(app, [app EXCEPT !.reference = issued + 1])
  BY <1>2 DEF InitiatePaymentCommit
<1>4. app'.status = app.status /\ app'.final = app.final
  BY <1>2, <1>3 DEF Stored, Orm, AppRow
<1> QED  BY <1>1, <1>4, QuietEnd DEF InitiatePaymentCommit

LEMMA CallbackInTurn ==
  ASSUME IInv, InTurn, NEW s \in Slots, CompletePaymentCommit(s)
  PROVE  InTurn'
<1>1. session[s].at # "idle" /\ session[s].op = "callback" /\ Close(s)
  BY DEF CompletePaymentCommit, At
<1>2. TypeOK /\ session[s].seen = app /\ app \in AppRow /\ app.status \in Resting
  BY <1>1, SeenNow
<1>3. PICK row : row = [app EXCEPT !.paid = TRUE]
  OBVIOUS
<1>4. row \in AppRow /\ row.final = app.final /\ row.paid
  BY <1>2, <1>3 DEF AppRow
<1>5. PICK front : front = <<To("PAYMENT_VERIFIED", "system")>> \o IntakePath(row)
  OBVIOUS
<1>6. front \in Seq(Steps) /\ Len(front) > 0 /\ front[1].to \notin Past
  <2>1. IntakePath(row) = <<To("UNDER_VERIFICATION", "agent")>>
    BY <1>4 DEF IntakePath, IntakePasses
  <2>2. /\ <<To("PAYMENT_VERIFIED", "system")>> \in Seq(Steps)
        /\ Len(<<To("PAYMENT_VERIFIED", "system")>>) = 1
        /\ <<To("PAYMENT_VERIFIED", "system")>>[1].to = "PAYMENT_VERIFIED"
        /\ IntakePath(row) \in Seq(Steps) /\ Len(IntakePath(row)) = 1
    BY <2>1, AgentSteps, OneStep
  <2>3. front[1].to = "PAYMENT_VERIFIED"
    BY <1>5, <2>2, FirstOfConcat
  <2> QED  BY <1>5, <2>2, <2>3, LastOfConcat DEF Past
<1>7. /\ Transition(s, row, front \o CredentialPath(row, named))
      /\ ScheduleTest(row, named) /\ UNCHANGED <<decision, ranked, enrolled>>
  BY <1>2, <1>3, <1>5 DEF CompletePaymentCommit
<1> QED  BY <1>1, <1>2, <1>4, <1>6, <1>7, ChecksInTurn

\* The first step of a new check.
LEMMA CheckFront ==
  ASSUME NEW role \in Roles
  PROVE  /\ <<To("UNDER_VERIFICATION", role)>> \in Seq(Steps)
         /\ Len(<<To("UNDER_VERIFICATION", role)>>) > 0
         /\ <<To("UNDER_VERIFICATION", role)>>[1].to \notin Past
BY AgentSteps, OneStep DEF Past

LEMMA CorrectInTurn ==
  ASSUME IInv, InTurn, NEW s \in Slots, UpdateRequestedCorrectionsCommit(s)
  PROVE  InTurn'
<1>1. session[s].at # "idle" /\ session[s].op = "correct" /\ Close(s)
      /\ UNCHANGED <<decision, ranked, enrolled>>
  BY DEF UpdateRequestedCorrectionsCommit, At
<1>2. session[s].seen = app /\ app \in AppRow /\ app.status \in Resting
  BY <1>1, SeenNow
<1>3. PICK details, row, now :
         /\ details \in Details
         /\ row = [app EXCEPT !.details = details]
         /\ Transition(s, row, <<To("UNDER_VERIFICATION", "applicant")>>
                               \o CredentialPath(row, now))
         /\ ScheduleTest(row, now)
  BY <1>2 DEF UpdateRequestedCorrectionsCommit
<1>4. row \in AppRow /\ row.final = app.final
  BY <1>2, <1>3 DEF AppRow
<1> QED  BY <1>1, <1>2, <1>3, <1>4, AgentSteps, CheckFront, ChecksInTurn

LEMMA RerunInTurn ==
  ASSUME IInv, InTurn, NEW s \in Slots, RerunPostPaymentChecksCommit(s)
  PROVE  InTurn'
<1>1. session[s].at # "idle" /\ session[s].op = "rerun" /\ Close(s)
      /\ UNCHANGED <<decision, ranked, enrolled>>
  BY DEF RerunPostPaymentChecksCommit, At
<1>2. session[s].seen = app /\ app \in AppRow /\ app.status \in Resting
  BY <1>1, SeenNow
<1>3. /\ Transition(s, app, <<To("UNDER_VERIFICATION", "officer")>>
                            \o CredentialPath(app, named))
      /\ ScheduleTest(app, named)
  BY <1>2 DEF RerunPostPaymentChecksCommit
<1> QED  BY <1>1, <1>2, <1>3, AgentSteps, CheckFront, ChecksInTurn

LEMMA PatchInTurn ==
  ASSUME IInv, InTurn, NEW s \in Slots, ChangeStatusCommit(s)
  PROVE  InTurn'
<1>1. session[s].at # "idle" /\ session[s].op = "patch" /\ Close(s)
      /\ UNCHANGED <<tests, decision, ranked, enrolled>>
  BY DEF ChangeStatusCommit, At
<1>2. PICK status : status = session[s].choice
  OBVIOUS
<1>3. session[s].seen = app /\ app \in AppRow /\ app.status \in Resting /\ status \in Resting
  BY <1>1, <1>2, SeenNow
<1>4. Transition(s, app, <<To(status, "officer")>>)
  BY <1>2, <1>3 DEF ChangeStatusCommit
<1>5. "officer" \in Roles \ {"applicant"} /\ "officer" # "system"
  BY AgentSteps
<1> QED  BY <1>1, <1>3, <1>4, <1>5, OneStepInTurn

LEMMA ResolveInTurn ==
  ASSUME IInv, InTurn, NEW s \in Slots, ResolveFlaggedApplicationCommit(s)
  PROVE  InTurn'
<1>1. /\ session[s].at # "idle" /\ session[s].op = "resolve" /\ Close(s)
      /\ session[s].choice \in Resolutions \ {"REJECT_NOW"}
      /\ UNCHANGED <<tests, decision, ranked, enrolled>>
  BY DEF ResolveFlaggedApplicationCommit, At, IInv, SessionBacked
<1>2. PICK status : status = ResolvedStatus[session[s].choice]
  OBVIOUS
<1>3. session[s].seen = app /\ app \in AppRow /\ app.status \in Resting
  BY <1>1, SeenNow
<1>4. status \in Resting
  BY <1>1, <1>2, RestingFacts DEF ResolvedStatus, Resolutions
<1>5. Transition(s, app, <<To(status, "officer")>>)
  BY <1>2, <1>3 DEF ResolveFlaggedApplicationCommit
<1>6. "officer" \in Roles \ {"applicant"} /\ "officer" # "system"
  BY AgentSteps
<1> QED  BY <1>1, <1>3, <1>4, <1>5, <1>6, OneStepInTurn

LEMMA RejectNowInTurn ==
  ASSUME IInv, InTurn, NEW s \in Slots, RejectNowCommit(s)
  PROVE  InTurn'
<1>1. /\ session[s].at = "read" /\ session[s].op = "resolve" /\ Close(s)
      /\ UNCHANGED <<tests, ranked, enrolled>>
  BY DEF RejectNowCommit, At
<1>2. TypeOK /\ session[s].seen = app /\ app \in AppRow /\ app.status \in Resting
  BY <1>1, SeenNow
<1>3. session[s].found = decision /\ RowsFit
  BY <1>1 DEF InTurn, SessionFresh
<1>4. PICK row, path : /\ row = [app EXCEPT !.final = "REJECT"]
                       /\ path = <<To("PENDING_REVIEW", "officer"), To("DECIDED", "officer")>>
  OBVIOUS
<1>5. row \in AppRow /\ row.final = "REJECT"
  BY <1>2, <1>4 DEF AppRow, DecisionTypes, HumanDecisions
<1>6. /\ path \in Seq(Steps) /\ Len(path) = 2
      /\ path[1].to = "PENDING_REVIEW" /\ path[2].to = "DECIDED"
      /\ path[1].by = "officer" /\ path[2].by = "officer"
  BY <1>4, AgentSteps, StepFacts
<1>7. Transition(s, row, path)
  BY <1>2, <1>4 DEF RejectNowCommit
<1>8. path[Len(path)].to = "DECIDED" /\ path[Len(path)].to \in Resting /\ Len(path) > 0
  BY <1>6, AgentSteps
<1>9. Goes(row.final, path)
  BY <1>2, <1>5, <1>6, <1>7, <1>8, Committed
<1>10. decision = NoDecision
  <2>1. "PENDING_REVIEW" \in Allowed[app.status]
    BY <1>6, <1>9 DEF Goes
  <2>2. app.status \notin {"DECIDED", "ENROLLED"}
    BY <2>1, PastFacts
  <2> QED  BY <1>3, <2>2 DEF RowsFit, DecisionStands
<1>11. decision' = row.final /\ decision' # NoDecision
  BY <1>3, <1>5, <1>10 DEF RejectNowCommit, RecordDecision, NoDecision
<1>12. StaysPast(path) /\ path[Len(path)].to \in Past
  BY <1>8 DEF StaysPast, Past
<1>13. TestsFit'
  BY <1>1, <1>2, <1>3, <1>8, <1>9, <1>12, TestsStay DEF RowsFit
<1> QED  BY <1>1, <1>2, <1>5, <1>6, <1>7, <1>8, <1>11, <1>12, <1>13, CommitInTurn

LEMMA DecideInTurn ==
  ASSUME IInv, InTurn, NEW s \in Slots, DecideCommit(s)
  PROVE  InTurn'
<1>1. /\ session[s].at # "idle" /\ session[s].op = "decide" /\ Close(s)
      /\ session[s].choice \in DecisionTypes /\ decision' = session[s].choice
      /\ UNCHANGED <<tests, ranked, enrolled>>
  BY DEF DecideCommit, RecordDecision, At, IInv, SessionBacked
<1>2. session[s].seen = app /\ app \in AppRow /\ app.status \in Resting
  BY <1>1, SeenNow
<1>3. PICK row : row = [app EXCEPT !.final = session[s].choice]
  OBVIOUS
<1>4. row \in AppRow /\ row.final = session[s].choice
  BY <1>1, <1>2, <1>3 DEF AppRow
<1>5. decision' = row.final /\ decision' # NoDecision
  BY <1>1, <1>4 DEF DecisionTypes, HumanDecisions, NoDecision
<1>6. Transition(s, row, <<To("DECIDED", "officer")>>)
  BY <1>2, <1>3 DEF DecideCommit
<1>7. "officer" \in Roles \ {"applicant"} /\ "DECIDED" \in Resting /\ "DECIDED" # "UAT_PENDING"
  BY AgentSteps
<1> QED  BY <1>1, <1>2, <1>4, <1>5, <1>6, <1>7, OneStepInTurn

\* The run ranks the score of the one test.
LEMMA RankInTurn ==
  ASSUME IInv, InTurn, NEW s \in Slots, RunRankingCommit(s)
  PROVE  InTurn'
<1>1. /\ session[s].at = "read" /\ session[s].op = "rank" /\ Close(s)
      /\ ranked' = session[s].test
      /\ UNCHANGED <<tests, decision, enrolled>>
  BY DEF RunRankingCommit, At
<1>2. TypeOK /\ session[s].seen = app /\ app \in AppRow /\ app.status \in Resting
  BY <1>1, SeenNow
<1>3. Transition(s, app, <<To("PENDING_REVIEW", "agent")>>)
  BY <1>2 DEF RunRankingCommit
<1>4. "agent" \in Roles \ {"applicant"} /\ "PENDING_REVIEW" \in Resting
  BY AgentSteps
<1>5. PICK i \in DOMAIN tests : tests[i].done /\ tests[i].score = session[s].test
  BY <1>1 DEF InTurn, SessionFresh
<1>6. tests \in Seq(TestRow) /\ Len(tests) <= 1 /\ TestsFit
  BY <1>2 DEF TypeOK, InTurn, RowsFit, TestsFit
<1>7. i = 1 /\ Len(tests) = 1 /\ tests[1] \in TestRow
  <2>1. Len(tests) \in Nat /\ DOMAIN tests = 1..Len(tests)
        /\ \A k \in 1..Len(tests) : tests[k] \in TestRow
    BY <1>6, LenProperties, ElementOfSeq
  <2>2. i \in 1..Len(tests)
    BY <1>5, <2>1
  <2>3. i = 1 /\ Len(tests) = 1
    BY <1>6, <2>1, <2>2
  <2> QED  BY <2>1, <2>2, <2>3
<1>8. tests[1] = [done |-> TRUE, score |-> session[s].test]
  BY <1>5, <1>7 DEF TestRow
<1>9. ASSUME Goes(app.final, <<To("PENDING_REVIEW", "agent")>>) PROVE TestsFit'
  <2>1. app'.status = "PENDING_REVIEW"
    BY <1>9, AgentSteps, OneStep DEF Goes
  <2> QED  BY <1>1, <1>7, <1>8, <2>1 DEF TestsFit, Past
<1> QED  BY <1>1, <1>2, <1>3, <1>4, <1>9, OneStepInTurn

LEMMA EnrollInTurn ==
  ASSUME IInv, InTurn, NEW s \in Slots, RunEnrollmentCommit(s)
  PROVE  InTurn'
<1>1. /\ session[s].at # "idle" /\ session[s].op = "enroll" /\ Close(s)
      /\ UNCHANGED <<tests, decision, ranked>>
      /\ decision # NoDecision
  BY DEF RunEnrollmentCommit, At, IInv, SessionBacked, NoDecision
<1>2. session[s].seen = app /\ app \in AppRow /\ app.status \in Resting
  BY <1>1, SeenNow
<1>3. Transition(s, app, <<To("ENROLLED", "agent")>>)
  BY <1>2 DEF RunEnrollmentCommit
<1>4. "agent" \in Roles \ {"applicant"} /\ "ENROLLED" \in Resting
  BY AgentSteps
<1> QED  BY <1>1, <1>2, <1>3, <1>4, OneStepInTurn

\* The score of the open test.
LEMMA ScoreInTurn ==
  ASSUME IInv, InTurn, NEW s \in Slots, UATCommit(s)
  PROVE  InTurn'
<1>1. /\ session[s].at # "idle" /\ session[s].op = "test" /\ Close(s)
      /\ UNCHANGED <<decision, ranked, enrolled>>
  BY DEF UATCommit, At
<1>2. TypeOK /\ session[s].seen = app /\ app \in AppRow /\ RowsFit
  BY <1>1, SeenNow DEF InTurn
<1>3. session[s].test \in DOMAIN tests /\ ~tests[session[s].test].done
  BY <1>1 DEF InTurn, SessionFresh
<1>4. tests \in Seq(TestRow) /\ Len(tests) <= 1 /\ TestsFit
  BY <1>2 DEF TypeOK, RowsFit, TestsFit
<1>5. session[s].test = 1 /\ Len(tests) = 1 /\ ~tests[1].done
  <2>1. Len(tests) \in Nat /\ DOMAIN tests = 1..Len(tests)
    BY <1>4, LenProperties
  <2>2. PICK i \in 1..Len(tests) : i = session[s].test
    BY <1>3, <2>1
  <2>3. i = 1 /\ Len(tests) = 1
    BY <1>4, <2>1, <2>2
  <2> QED  BY <1>3, <2>2, <2>3
<1>6. PICK new : tests' = [tests EXCEPT ![1] = new]
  BY <1>5 DEF UATCommit
<1>7. Len(tests') = 1
  BY <1>4, <1>5, <1>6
<1>8. ranked' = 0 /\ app.status \in Past
  <2>1. tests # <<>>
    BY <1>5
  <2>2. tests[1] # [done |-> TRUE, score |-> ranked]
    BY <1>5
  <2>3. ranked = 0 /\ app.status \in Past
    BY <1>4, <2>1, <2>2 DEF TestsFit
  <2> QED  BY <1>1, <2>3 DEF UATCommit
<1>9. CASE app.status = "UAT_PENDING"
  <2>1. Transition(s, app, <<To("UAT_COMPLETED", "system")>>)
    BY <1>2, <1>9 DEF UATCommit
  <2>2. "system" \in Roles \ {"applicant"} /\ "UAT_COMPLETED" \in Resting
        /\ app.status \in Resting
    BY <1>9, AgentSteps
  <2>3. ASSUME Goes(app.final, <<To("UAT_COMPLETED", "system")>>) PROVE TestsFit'
    <3>1. app'.status = "UAT_COMPLETED"
      BY <2>2, <2>3, OneStep DEF Goes
    <3> QED  BY <1>7, <1>8, <3>1 DEF TestsFit, Past
  <2> QED  BY <1>1, <1>2, <2>1, <2>2, <2>3, OneStepInTurn
<1>10. CASE app.status # "UAT_PENDING"
  <2>1. UNCHANGED <<app, history>>
    BY <1>2, <1>10 DEF UATCommit
  <2>2. TestsFit'
    BY <1>7, <1>8, <1>10, <2>1 DEF TestsFit
  <2>3. HistoryReplays' /\ DecisionStands' /\ CorrectionsFit'
    BY <1>1, <1>2, <2>1 DEF RowsFit, HistoryReplays, DecisionStands, CorrectionsFit,
                            Correction, flagged_entries, Entries
  <2>4. OneAtATime' /\ \A t \in Slots : SessionFresh(session[t])'
    BY <1>1, <1>2, AllIdle DEF InTurn
  <2> QED  BY <2>2, <2>3, <2>4 DEF InTurn, RowsFit
<1> QED  BY <1>9, <1>10

\* A request that begins reads the rows as they are.
LEMMA LoadInTurn ==
  ASSUME IInv, InTurn, OneAtATime', NEW s \in Slots, NEW op, NEW choice, NEW test,
         Load(s, op, choice, test),
         op = "test" => test \in DOMAIN tests /\ ~tests[test].done
  PROVE  InTurn'
<1>1. PICK r : r = [op |-> op, at |-> "loaded", seen |-> app, choice |-> choice,
                    test |-> test, found |-> NoDecision]
  OBVIOUS
<1>2. r.op = op /\ r.at = "loaded" /\ r.seen = app /\ r.test = test
  BY <1>1
<1>3. SessionFresh(r)
  BY <1>2 DEF SessionFresh
<1>4. session' = [session EXCEPT ![s] = r] /\ UNCHANGED rows /\ TypeOK
  BY <1>1 DEF Load, IInv
<1> QED  BY <1>3, <1>4, SessionMoves

LEMMA LoadsInTurn ==
  ASSUME IInv, InTurn, OneAtATime', NEW s \in Slots,
         \/ SubmitLoad(s) \/ InitiatePaymentLoad(s)
         \/ \E reference \in 1..issued : CompletePaymentLoad(s, reference)
         \/ UpdateRequestedCorrectionsLoad(s) \/ RerunPostPaymentChecksLoad(s)
         \/ \E status \in Statuses : ChangeStatusLoad(s, status)
         \/ \E resolution \in Resolutions : ResolveFlaggedApplicationLoad(s, resolution)
         \/ \E verdict \in Verdicts : DecideLoad(s, verdict)
         \/ RunRankingLoad(s) \/ RunEnrollmentLoad(s)
         \/ \E i \in DOMAIN tests : UATLoad(s, i)
  PROVE  InTurn'
<1>1. \A op, choice, test :
          op # "test" /\ Load(s, op, choice, test) => InTurn'
  BY LoadInTurn
<1>2. CASE SubmitLoad(s) \/ InitiatePaymentLoad(s)
  BY <1>1, <1>2 DEF SubmitLoad, InitiatePaymentLoad
<1>3. CASE \E reference \in 1..issued : CompletePaymentLoad(s, reference)
  BY <1>1, <1>3 DEF CompletePaymentLoad
<1>4. CASE UpdateRequestedCorrectionsLoad(s) \/ RerunPostPaymentChecksLoad(s)
  BY <1>1, <1>4 DEF UpdateRequestedCorrectionsLoad, RerunPostPaymentChecksLoad
<1>5. CASE \E status \in Statuses : ChangeStatusLoad(s, status)
  BY <1>1, <1>5 DEF ChangeStatusLoad
<1>6. CASE \E resolution \in Resolutions : ResolveFlaggedApplicationLoad(s, resolution)
  BY <1>1, <1>6 DEF ResolveFlaggedApplicationLoad
<1>7. CASE \E verdict \in Verdicts : DecideLoad(s, verdict)
  BY <1>1, <1>7 DEF DecideLoad
<1>8. CASE RunRankingLoad(s) \/ RunEnrollmentLoad(s)
  BY <1>1, <1>8 DEF RunRankingLoad, RunEnrollmentLoad
<1>9. CASE \E i \in DOMAIN tests : UATLoad(s, i)
  <2>1. PICK i \in DOMAIN tests : ~tests[i].done /\ Load(s, "test", NoStatus, i)
    BY <1>9 DEF UATLoad
  <2> QED  BY <2>1, LoadInTurn
<1> QED  BY <1>2, <1>3, <1>4, <1>5, <1>6, <1>7, <1>8, <1>9

\* The later reads.
LEMMA ReadsInTurn ==
  ASSUME IInv, InTurn, OneAtATime', NEW s \in Slots,
         \/ RejectNowRead(s) \/ DecideRead(s) \/ RunRankingRead(s)
         \/ RunEnrollmentRead(s) \/ UATFlush(s)
  PROVE  InTurn'
<1>1. /\ TypeOK /\ session[s] \in SessionRow /\ session \in [Slots -> SessionRow]
      /\ session[s].at = "loaded" /\ SessionFresh(session[s]) /\ session[s].seen = app
  BY SlotType DEF IInv, InTurn, SessionFresh, TypeOK, RejectNowRead, DecideRead,
                  RunRankingRead, RunEnrollmentRead, UATFlush, At
<1>2. CASE RejectNowRead(s) \/ DecideRead(s)
  <2>1. PICK r : r = [session[s] EXCEPT !.at = "read", !.found = decision]
    OBVIOUS
  <2>2. session' = [session EXCEPT ![s] = r] /\ UNCHANGED rows
        /\ session[s].op \in {"resolve", "decide"}
    BY <1>2, <2>1 DEF RejectNowRead, DecideRead, Read, At
  <2>3. r.op \in {"resolve", "decide"} /\ r.seen = app /\ r.found = decision
    BY <1>1, <2>1, <2>2 DEF SessionRow
  <2>4. SessionFresh(r)
    BY <2>3 DEF SessionFresh
  <2> QED  BY <1>1, <2>2, <2>4, SessionMoves
<1>3. CASE RunRankingRead(s)
  <2>1. PICK i \in DOMAIN tests :
           /\ tests[i].done
           /\ session' = [session EXCEPT ![s].at = "read", ![s].test = tests[i].score]
    BY <1>3 DEF RunRankingRead
  <2>2. PICK score : score = tests[i].score
    OBVIOUS
  <2>3. PICK r : r = [session[s] EXCEPT !.at = "read", !.test = score]
    OBVIOUS
  <2>4. session' = [session EXCEPT ![s] = r] /\ UNCHANGED rows /\ session[s].op = "rank"
    BY <1>3, <2>1, <2>2, <2>3 DEF RunRankingRead, At
  <2>5. r.op = "rank" /\ r.seen = app /\ r.test = score
    BY <1>1, <2>3, <2>4 DEF SessionRow
  <2>6. SessionFresh(r)
    BY <2>1, <2>2, <2>5 DEF SessionFresh
  <2> QED  BY <1>1, <2>4, <2>6, SessionMoves
<1>4. CASE RunEnrollmentRead(s)
  <2>1. PICK r : r = [session[s] EXCEPT !.at = "read"]
    OBVIOUS
  <2>2. session' = [session EXCEPT ![s] = r] /\ UNCHANGED rows /\ session[s].op = "enroll"
    BY <1>4, <2>1 DEF RunEnrollmentRead, At
  <2>3. r.op = "enroll" /\ r.seen = app
    BY <1>1, <2>1, <2>2 DEF SessionRow
  <2>4. SessionFresh(r)
    BY <2>3 DEF SessionFresh
  <2> QED  BY <1>1, <2>2, <2>4, SessionMoves
<1>5. CASE UATFlush(s)
  <2>1. PICK r : r = [session[s] EXCEPT !.at = "read", !.seen = app]
    OBVIOUS
  <2>2. session' = [session EXCEPT ![s] = r] /\ UNCHANGED rows /\ session[s].op = "test"
    BY <1>5, <2>1 DEF UATFlush, At
  <2>3. r.op = "test" /\ r.seen = app /\ r.test = session[s].test
    BY <1>1, <2>1, <2>2 DEF SessionRow
  <2>4. SessionFresh(r)
    BY <1>1, <2>2, <2>3 DEF SessionFresh
  <2> QED  BY <1>1, <2>2, <2>4, SessionMoves
<1> QED  BY <1>2, <1>3, <1>4, <1>5

LEMMA NextInTurn == ASSUME IInv, InTurn, OneAtATime', Next PROVE InTurn'
<1>1. CASE \E open \in BOOLEAN : SetAdmissionTermOpen(open)
  BY <1>1 DEF SetAdmissionTermOpen, InTurn, OneAtATime, Busy, RowsFit, HistoryReplays,
              DecisionStands, TestsFit, CorrectionsFit, Correction, flagged_entries, Entries,
              SessionFresh
<1>2. ASSUME NEW s \in Slots, Applicant(s) PROVE InTurn'
  BY <1>2, LoadsInTurn, SubmitInTurn, InitiateInTurn, CallbackInTurn, CorrectInTurn
     DEF Applicant
<1>3. ASSUME NEW s \in Slots, Officer(s) PROVE InTurn'
  BY <1>3, LoadsInTurn, ReadsInTurn, PatchInTurn, RerunInTurn, ResolveInTurn,
     RejectNowInTurn, DecideInTurn, RankInTurn, EnrollInTurn DEF Officer
<1>4. ASSUME NEW s \in Slots, TestingCentre(s) PROVE InTurn'
  BY <1>4, LoadsInTurn, ReadsInTurn, ScoreInTurn DEF TestingCentre
<1>5. ASSUME NEW s \in Slots, Abort(s) PROVE InTurn'
  BY <1>5, QuietEnd DEF Abort, rows
<1> QED  BY <1>1, <1>2, <1>3, <1>4, <1>5 DEF Next

LEMMA InitInTurn == Init => InTurn
<1> SUFFICES ASSUME Init PROVE InTurn
  OBVIOUS
<1>1. /\ app.status = NoStatus /\ app.final = NoDecision /\ decision = NoDecision
      /\ history = <<>> /\ tests = <<>> /\ ranked = 0 /\ ~enrolled
      /\ \A s \in Slots : session[s].at = "idle"
  BY DEF Init, NoApp, Idle
<1>2. OneAtATime /\ \A s \in Slots : SessionFresh(session[s])
  BY <1>1 DEF OneAtATime, Busy, SessionFresh
<1>3. DOMAIN history = {} /\ Len(tests) = 0
  BY <1>1
<1>4. HistoryReplays /\ DecisionStands /\ CorrectionsFit /\ TestsFit
  BY <1>1, <1>3 DEF HistoryReplays, DecisionStands, CorrectionsFit, TestsFit, NoStatus
<1> QED  BY <1>2, <1>4 DEF InTurn, RowsFit

LEMMA TurnsInvariant == TurnsSpec => [](IInv /\ (turns => InTurn))
<1> DEFINE Inv == IInv /\ (turns => InTurn)
<1>1. TurnsInit => Inv
  BY InitOK, InitInTurn DEF TurnsInit
<1>2. Inv /\ [TurnsNext]_<<vars, turns>> => Inv'
  <2> SUFFICES ASSUME Inv, [TurnsNext]_<<vars, turns>> PROVE Inv'
    OBVIOUS
  <2>1. IInv'
    BY StepOK DEF TurnsNext, vars
  <2>2. CASE TurnsNext
    BY <2>1, <2>2, NextInTurn DEF TurnsNext
  <2>3. CASE UNCHANGED <<vars, turns>>
    BY <2>1, <2>3 DEF vars, InTurn, OneAtATime, Busy, RowsFit, HistoryReplays,
              DecisionStands, TestsFit, CorrectionsFit, Correction, flagged_entries, Entries,
              SessionFresh
  <2> QED  BY <2>2, <2>3
<1> QED  BY <1>1, <1>2, PTL DEF TurnsSpec

\* A nonempty set of places has a last one.
LEMMA LatestIsLast ==
  ASSUME NEW n \in Nat, NEW T, T \subseteq 1..n, T # {}
  PROVE  Latest(T) \in T /\ \A u \in T : u <= Latest(T)
<1> DEFINE D == {n - u : u \in T}
<1>1. D \subseteq Nat /\ D # {}
  <2>1. \A u \in T : n - u \in Nat
    <3> SUFFICES ASSUME NEW u \in T PROVE n - u \in Nat
      OBVIOUS
    <3>1. u \in 1..n
      OBVIOUS
    <3> QED  BY <3>1
  <2>2. PICK u \in T : TRUE
    OBVIOUS
  <2>3. n - u \in D
    BY Zenon
  <2> QED  BY <2>1, <2>3, Zenon
<1> HIDE DEF D
<1>2. PICK d \in D : \A e \in D : ~(<<e, d>> \in OpToRel(<, Nat))
  BY <1>1, NatLessThanWellFounded, WFMin, Zenon
<1>3. \A e \in D : ~(e < d)
  BY <1>1, <1>2 DEF OpToRel
<1>4. PICK t \in T : d = n - t
  BY <1>2 DEF D
<1>5. \A u \in T : n - u \in D
  BY DEF D
<1>6. \A u \in T : u <= t
  BY <1>3, <1>4, <1>5
<1> QED  BY <1>6 DEF Latest

\* The place of the last element is the latest of those that include it.
LEMMA LatestIsEnd ==
  ASSUME NEW n \in Nat, NEW T, T \subseteq 1..n, n \in T
  PROVE  Latest(T) = n
<1>1. PICK m : m = Latest(T)
  OBVIOUS
<1>2. m \in 1..n /\ n <= m
  BY <1>1, LatestIsLast
<1> QED  BY <1>1, <1>2

\* What the pages read.
LEMMA PageRows ==
  ASSUME IInv, InTurn, NEW n, n = Len(history)
  PROVE  /\ n \in Nat /\ DOMAIN history = 1..n /\ flagged_entries \subseteq 1..n
         /\ app.status # NoStatus => n \in 1..n /\ history[n].next = app.status
         /\ HistoryReplays /\ TestsFit /\ CorrectionsFit
<1>1. history \in Seq(HistoryRow) /\ HistoryReplays /\ TestsFit /\ CorrectionsFit
  BY DEF IInv, TypeOK, InTurn, RowsFit
<1>2. n \in Nat /\ DOMAIN history = 1..n
  BY <1>1, LenProperties
<1>3. ASSUME app.status # NoStatus PROVE n \in 1..n /\ history[n].next = app.status
  <2>1. history # <<>> /\ history[n].next = app.status
    BY <1>1, <1>3 DEF HistoryReplays
  <2>2. n # 0
    BY <1>1, <2>1, EmptySeq
  <2> QED  BY <1>2, <2>1, <2>2
<1> QED  BY <1>1, <1>2, <1>3 DEF flagged_entries

\* The card: the note of the last entry, and reasons given after each correction.
LEMMA CardShown ==
  ASSUME IInv, InTurn, app.status = "CHANGES_REQUESTED"
  PROVE  /\ get_correction_context.officer_note = Len(history)
         /\ \A i \in DOMAIN history : Correction(i) => i < get_correction_context.reasons
<1> DEFINE sent == {i \in DOMAIN history : history[i].next = "CHANGES_REQUESTED"}
<1>1. PICK n : n = Len(history)
  OBVIOUS
<1>2. /\ n \in Nat /\ DOMAIN history = 1..n /\ flagged_entries \subseteq 1..n
      /\ n \in 1..n /\ history[n].next = "CHANGES_REQUESTED" /\ CorrectionsFit
  BY <1>1, PageRows DEF NoStatus
<1>3. /\ get_correction_context.officer_note = Latest(sent)
      /\ get_correction_context.reasons = Latest(flagged_entries)
  BY DEF get_correction_context, get_flag_context
<1>4. sent \subseteq 1..n /\ n \in sent
  BY <1>2
<1> HIDE DEF sent
<1>5. Latest(sent) = n
  BY <1>2, <1>4, LatestIsEnd
<1>6. ASSUME NEW i \in DOMAIN history, Correction(i) PROVE i < Latest(flagged_entries)
  <2>1. PICK j \in flagged_entries : i < j
    BY <1>2, <1>6 DEF CorrectionsFit, Past
  <2>2. PICK k : k = Latest(flagged_entries)
    OBVIOUS
  <2>3. k \in flagged_entries /\ j <= k
    BY <1>2, <2>1, <2>2, LatestIsLast
  <2>4. i \in 1..n /\ j \in 1..n /\ k \in 1..n
    BY <1>2, <2>1, <2>3
  <2>5. i < k
    BY <2>1, <2>3, <2>4
  <2> QED  BY <2>2, <2>5
<1> QED  BY <1>1, <1>3, <1>5, <1>6

\* The pages show the note, the reasons and the score that count.
LEMMA PagesShow == ASSUME IInv, InTurn PROVE PagesFit
<1>1. PICK n : n = Len(history)
  OBVIOUS
<1>2. n \in Nat /\ DOMAIN history = 1..n /\ flagged_entries \subseteq 1..n /\ TestsFit
  BY <1>1, PageRows
<1>3. ASSUME get_flagged_queue # {}, history[n].by = "agent" PROVE get_flag_context = n
  <2>1. app.status = "FLAGGED_FOR_REVIEW"
    BY <1>3 DEF get_flagged_queue
  <2>2. n \in 1..n /\ history[n].next = "FLAGGED_FOR_REVIEW"
    BY <1>1, <2>1, PageRows DEF NoStatus
  <2>3. n \in flagged_entries
    BY <1>2, <1>3, <2>2 DEF flagged_entries
  <2> QED  BY <1>2, <2>3, LatestIsEnd DEF get_flag_context
<1>4. ASSUME ranked # 0
      PROVE  /\ application_response.uat_id # 0
             /\ tests[application_response.uat_id] = [done |-> TRUE, score |-> ranked]
  <2>1. Len(tests) = 1 /\ tests[1] = [done |-> TRUE, score |-> ranked]
    BY <1>2, <1>4 DEF TestsFit
  <2>2. DOMAIN tests = 1..1
    BY <2>1, LenProperties DEF IInv, TypeOK
  <2>3. Latest(DOMAIN tests) = 1
    BY <2>2, LatestIsEnd
  <2>4. application_response.uat_id = 1
    BY <2>3 DEF application_response
  <2> QED  BY <2>1, <2>4
<1>5. app.status = "CHANGES_REQUESTED" =>
        LET card == get_correction_context
        IN  /\ card.officer_note = Len(history)
            /\ \A i \in DOMAIN history :
                 history[i].by = "applicant" /\ history[i].previous = "CHANGES_REQUESTED" =>
                   i < card.reasons
  BY CardShown DEF Correction
<1> QED  BY <1>1, <1>3, <1>4, <1>5 DEF PagesFit

\* While requests take turns the history is a chain that ends in the status
\* (status_history), the decision row, final_decision and the status agree,
\* nobody is given a second test, and the queues and the correction card show
\* the reasons, the note and the score that count.
THEOREM AgreeInTurn == TurnsSpec => []TurnsAgree
<1>1. IInv /\ (turns => InTurn) => TurnsAgree
  <2>1. InTurn => HistoryReplays /\ DecisionStands /\ OneTest
    BY DEF InTurn, RowsFit, TestsFit, OneTest
  <2> QED  BY <2>1, PagesShow DEF TurnsAgree
<1> QED  BY <1>1, TurnsInvariant, PTL
=============================================================================
