------------------------------ MODULE Admission ------------------------------
(***************************************************************************)
(* One undergraduate application in one admission term, from submission to *)
(* enrolment (undergraduate/service.py, ranking/, enrollment/ and the      *)
(* testing centre).  The applicant, the payment gateway, the agents, the   *)
(* testing centre and the officers all move one row through the states of  *)
(* ALLOWED_TRANSITIONS.                                                    *)
(*                                                                         *)
(* A request is a database session: it loads rows, awaits, and writes at   *)
(* its commit the attributes that differ from what it loaded.  An object   *)
(* once loaded is not refreshed by a later SELECT of the same session, so  *)
(* every check of the status reads the loaded one.  The flush and the      *)
(* commit are one action; only the testing centre reads between the two.   *)
(* What happens to the other applications of a ranking or enrolment run is *)
(* the subject of another module; here a run is what it does to this one.  *)
(***************************************************************************)
EXTENDS Integers, Sequences

CONSTANTS
    Slots,            \* request slots: one slot is a serial system
    Scores,           \* the scores a test can end with
    Verdicts,         \* the decisions officers may send
    MaxReferences,    \* bound for TLC: payment references minted
    MaxTransitions    \* bound for TLC: no request starts with a longer history

ASSUME AdmissionAssumption ==
    /\ Scores \subseteq Nat \ {0}
    /\ Verdicts \subseteq {"ADMIT", "REJECT", "WAITLIST", "RECOMMEND_ADMIT"}
    /\ MaxReferences \in Nat
    /\ MaxTransitions \in Nat

VARIABLES
    termOpen,    \* UndergraduateAdmissionTerm.is_open
    app,         \* the undergraduate_applications row
    named,       \* the applicant's name agrees with the ministry's record
    history,     \* application_status_history rows, in commit order
    issued,      \* how many payment references were handed out
    tests,       \* uat_records rows of the application
    decision,    \* the registrar_decisions row: its verdict
    ranked,      \* test score in the latest ranking_results row, 0 for none
    enrolled,    \* an enrollments row exists
    session      \* the request each slot is serving

rows == <<termOpen, app, named, history, issued, tests, decision, ranked, enrolled>>
vars == <<termOpen, app, named, history, issued, tests, decision, ranked, enrolled, session>>

-----------------------------------------------------------------------------
(* The state machine.                                                      *)

Allowed ==
    [DRAFT              |-> {"SUBMITTED"},
     SUBMITTED          |-> {"PAYMENT_PENDING"},
     PAYMENT_PENDING    |-> {"PAYMENT_VERIFIED"},
     PAYMENT_VERIFIED   |-> {"UNDER_VERIFICATION"},
     UNDER_VERIFICATION |-> {"AI_PRE_SCREENING", "FLAGGED_FOR_REVIEW"},
     AI_PRE_SCREENING   |-> {"UAT_PENDING", "FLAGGED_FOR_REVIEW"},
     FLAGGED_FOR_REVIEW |-> {"UNDER_VERIFICATION", "UAT_PENDING", "PENDING_REVIEW",
                             "CHANGES_REQUESTED"},
     CHANGES_REQUESTED  |-> {"UNDER_VERIFICATION", "FLAGGED_FOR_REVIEW"},
     UAT_PENDING        |-> {"UAT_COMPLETED"},
     UAT_COMPLETED      |-> {"PENDING_REVIEW"},
     PENDING_REVIEW     |-> {"DECIDED"},
     DECIDED            |-> {"ENROLLED"},
     ENROLLED           |-> {}]
Statuses == DOMAIN Allowed
NoStatus == "NO_APPLICATION"
BeforePayment == {NoStatus, "DRAFT", "SUBMITTED", "PAYMENT_PENDING"}

HumanDecisions == {"ADMIT", "REJECT", "WAITLIST"}
\* The record endpoint takes every DecisionType, the agents' included; one
\* stands for those.
DecisionTypes == HumanDecisions \cup {"RECOMMEND_ADMIT"}
NoDecision == "NO_DECISION"
Resolutions ==
    {"APPROVE_AND_CONTINUE", "REQUEST_STUDENT_CORRECTION",
     "ESCALATE_TO_PENDING_REVIEW", "REJECT_NOW"}

\* No request commits a draft: DRAFT and SUBMITTED last only inside submission.
Resting == Statuses \ {"DRAFT", "SUBMITTED"}

\* Admission number and stream: as the ministry's record has them, or not.
Details == {"right", "wrong", "wrong_again"}

AppRow ==
    [status : Resting \cup {NoStatus}, final : DecisionTypes \cup {NoDecision},
     paid : BOOLEAN, reference : Nat, details : Details]
NoApp == [status |-> NoStatus, final |-> NoDecision, paid |-> FALSE,
          reference |-> 0, details |-> "wrong"]

Roles == {"applicant", "system", "agent", "officer"}
HistoryRow == [previous : Statuses, next : Statuses, by : Roles]
TestRow == [done : BOOLEAN, score : Scores \cup {0}]

Ops == {"submit", "initiate", "callback", "correct", "resolve", "rerun", "patch",
        "decide", "rank", "enroll", "test"}
Choices == Resolutions \cup Resting \cup DecisionTypes \cup {NoStatus}

\* What a session remembers: the row it loaded, what its caller chose, the test
\* it completes or the score it ranks, the decision it found.
SessionRow ==
    [op : Ops \cup {"none"}, at : {"idle", "loaded", "read"}, seen : AppRow,
     choice : Choices, test : Nat, found : DecisionTypes \cup {NoDecision}]
Idle == [op |-> "none", at |-> "idle", seen |-> NoApp, choice |-> NoStatus,
         test |-> 0, found |-> NoDecision]

TypeOK ==
    /\ termOpen \in BOOLEAN
    /\ app \in AppRow
    /\ named \in BOOLEAN
    /\ history \in Seq(HistoryRow)
    /\ issued \in Nat
    /\ tests \in Seq(TestRow)
    /\ decision \in DecisionTypes \cup {NoDecision}
    /\ ranked \in Scores \cup {0}
    /\ enrolled \in BOOLEAN
    /\ session \in [Slots -> SessionRow]

Init ==
    /\ termOpen \in BOOLEAN
    /\ app = NoApp
    /\ named \in BOOLEAN
    /\ history = <<>>
    /\ issued = 0
    /\ tests = <<>>
    /\ decision = NoDecision
    /\ ranked = 0
    /\ enrolled = FALSE
    /\ session = [s \in Slots |-> Idle]

-----------------------------------------------------------------------------
(* Sessions.                                                               *)

At(s, op, at) == session[s].op = op /\ session[s].at = at
Close(s) == session' = [session EXCEPT ![s] = Idle]

\* The first read of a request.
Load(s, op, choice, test) ==
    /\ session[s].at = "idle"
    /\ Len(history) < MaxTransitions
    /\ session' = [session EXCEPT ![s] =
           [op |-> op, at |-> "loaded", seen |-> app, choice |-> choice,
            test |-> test, found |-> NoDecision]]
    /\ UNCHANGED rows

\* An exception, a refused check, a lost connection or a restart before the
\* commit: the transaction leaves nothing.
Abort(s) ==
    /\ session[s].at # "idle"
    /\ Close(s)
    /\ UNCHANGED rows

\* An UPDATE carries the attributes that differ from what was loaded.
Orm(loaded, new, stored) == IF new = loaded THEN stored ELSE new
Stored(seen, new) ==
    [status    |-> Orm(seen.status, new.status, app.status),
     final     |-> Orm(seen.final, new.final, app.final),
     paid      |-> Orm(seen.paid, new.paid, app.paid),
     reference |-> Orm(seen.reference, new.reference, app.reference),
     details   |-> Orm(seen.details, new.details, app.details)]

\* _transition_status, several in a row: each is checked against the table and
\* leaves a history row; the last one is what the UPDATE writes.
To(status, role) == [to |-> status, by |-> role]
TrailFrom(from, path) ==      \* mutant: every entry names the first status
    [i \in DOMAIN path |->
        [previous |-> from, next |-> path[i].to, by |-> path[i].by]]
Trail(from, path) ==
    [i \in DOMAIN path |->
        [previous |-> IF i = 1 THEN from ELSE path[i - 1].to,
         next |-> path[i].to, by |-> path[i].by]]
Legal(trail) == \A i \in DOMAIN trail : trail[i].next \in Allowed[trail[i].previous]

Transition(s, row, path) ==
    LET trail == Trail(session[s].seen.status, path)
    IN  /\ Legal(trail)
        /\ app' = Stored(session[s].seen, [row EXCEPT !.status = path[Len(path)].to])
        /\ history' = history \o trail

-----------------------------------------------------------------------------
(* The applicant and the payment.                                          *)

SetAdmissionTermOpen(open) ==
    /\ termOpen # open
    /\ termOpen' = open
    /\ UNCHANGED <<app, named, history, issued, tests, decision, ranked, enrolled, session>>

SubmitLoad(s) == termOpen /\ Load(s, "submit", NoStatus, 0)

\* uq_one_app_per_term refuses a second application of the applicant.
SubmitCommit(s) ==
    /\ At(s, "submit", "loaded")
    /\ app.status = NoStatus
    /\ \E details \in {"right", "wrong"} :
           app' = [NoApp EXCEPT !.status = "PAYMENT_PENDING", !.details = details]
    /\ history' = history \o Trail("DRAFT", <<To("SUBMITTED", "applicant"),
                                              To("PAYMENT_PENDING", "applicant")>>)
    /\ Close(s)
    /\ UNCHANGED <<termOpen, named, issued, tests, decision, ranked, enrolled>>

InitiatePaymentLoad(s) ==
    /\ app.status = "PAYMENT_PENDING"
    /\ issued < MaxReferences
    /\ Load(s, "initiate", NoStatus, 0)

InitiatePaymentCommit(s) ==
    /\ At(s, "initiate", "loaded")
    /\ issued' = issued + 1
    /\ app' = Stored(session[s].seen, [session[s].seen EXCEPT !.reference = issued + 1])
    /\ Close(s)
    /\ UNCHANGED <<termOpen, named, history, tests, decision, ranked, enrolled>>

\* The agents, run inside the request.  The schema of the application has the
\* sponsorship, the stream, the number and the programmes the intake agent asks
\* for, which leaves the payment.  The name is read when the credential agent
\* runs, the rest with the application.
IntakePasses(row) == row.paid
IntakePath(row) ==
    IF IntakePasses(row) THEN <<To("UNDER_VERIFICATION", "agent")>>
                ELSE <<To("FLAGGED_FOR_REVIEW", "agent")>>
VerifiedBy(row, name) == row.details = "right" /\ name
CredentialPath(row, name) ==
    IF VerifiedBy(row, name)
    THEN <<To("AI_PRE_SCREENING", "agent"), To("UAT_PENDING", "system")>>
    ELSE <<To("FLAGGED_FOR_REVIEW", "agent")>>
NewTest == [done |-> FALSE, score |-> 0]
ScheduleTestAlways(row, name) ==      \* mutant: a flagged application gets one too
    tests' = Append(tests, NewTest)
ScheduleTest(row, name) ==
    tests' = IF VerifiedBy(row, name) THEN Append(tests, NewTest) ELSE tests

\* The gateway returns one of the references handed out.
CompletePaymentLoad(s, reference) ==
    /\ app.status = "PAYMENT_PENDING"
    /\ app.reference = reference
    /\ Load(s, "callback", NoStatus, 0)

CompletePaymentCommitUnpaid(s) ==      \* mutant: payment_status is not written
    LET row == [session[s].seen EXCEPT !.paid = TRUE]
    IN  /\ At(s, "callback", "loaded")
        /\ Transition(s, session[s].seen, <<To("PAYMENT_VERIFIED", "system")>>
                              \o IntakePath(row) \o CredentialPath(row, named))
        /\ ScheduleTest(row, named)
        /\ Close(s)
        /\ UNCHANGED <<termOpen, named, issued, decision, ranked, enrolled>>
CompletePaymentCommit(s) ==
    LET row == [session[s].seen EXCEPT !.paid = TRUE]
    IN  /\ At(s, "callback", "loaded")
        /\ Transition(s, row, <<To("PAYMENT_VERIFIED", "system")>>
                              \o IntakePath(row) \o CredentialPath(row, named))
        /\ ScheduleTest(row, named)
        /\ Close(s)
        /\ UNCHANGED <<termOpen, named, issued, decision, ranked, enrolled>>

UpdateRequestedCorrectionsLoad(s) ==
    /\ app.status = "CHANGES_REQUESTED"
    /\ Load(s, "correct", NoStatus, 0)

\* At least one field changes, for better or worse; the credential agent judges
\* the result at once.
UpdateRequestedCorrectionsCommit(s) ==
    /\ At(s, "correct", "loaded")
    /\ \E details \in Details : \E name, renamed \in BOOLEAN :
           LET row == [session[s].seen EXCEPT !.details = details]
               now == IF renamed THEN name ELSE named
           IN  /\ renamed \/ details # session[s].seen.details
               /\ named' = now
               /\ Transition(s, row, <<To("UNDER_VERIFICATION", "applicant")>>
                                     \o CredentialPath(row, now))
               /\ ScheduleTest(row, now)
    /\ Close(s)
    /\ UNCHANGED <<termOpen, issued, decision, ranked, enrolled>>

-----------------------------------------------------------------------------
(* The officers.                                                           *)

\* PATCH status: any transition the table allows, and nothing else with it.
ChangeStatusLoad(s, status) ==
    /\ app.status \in Statuses
    /\ status \in Allowed[app.status]
    /\ Load(s, "patch", status, 0)

ChangeStatusCommit(s) ==
    /\ At(s, "patch", "loaded")
    /\ Transition(s, session[s].seen, <<To(session[s].choice, "officer")>>)
    /\ Close(s)
    /\ UNCHANGED <<termOpen, named, issued, tests, decision, ranked, enrolled>>

RerunPostPaymentChecksLoad(s) ==
    /\ app.status \in {"CHANGES_REQUESTED", "FLAGGED_FOR_REVIEW"}
    /\ Load(s, "rerun", NoStatus, 0)

RerunPostPaymentChecksCommit(s) ==
    /\ At(s, "rerun", "loaded")
    /\ Transition(s, session[s].seen, <<To("UNDER_VERIFICATION", "officer")>>
                                      \o CredentialPath(session[s].seen, named))
    /\ ScheduleTest(session[s].seen, named)
    /\ Close(s)
    /\ UNCHANGED <<termOpen, named, issued, decision, ranked, enrolled>>

ResolveFlaggedApplicationLoad(s, resolution) ==
    /\ app.status = "FLAGGED_FOR_REVIEW"
    /\ Load(s, "resolve", resolution, 0)

ResolvedStatus ==
    [APPROVE_AND_CONTINUE       |-> "UAT_PENDING",
     REQUEST_STUDENT_CORRECTION |-> "CHANGES_REQUESTED",
     ESCALATE_TO_PENDING_REVIEW |-> "PENDING_REVIEW"]

ResolveFlaggedApplicationCommit(s) ==
    /\ At(s, "resolve", "loaded")
    /\ session[s].choice # "REJECT_NOW"
    /\ Transition(s, session[s].seen, <<To(ResolvedStatus[session[s].choice], "officer")>>)
    /\ Close(s)
    /\ UNCHANGED <<termOpen, named, issued, tests, decision, ranked, enrolled>>

\* The second read of a request: the registrar's decision.
Read(s) ==
    /\ session' = [session EXCEPT ![s].at = "read", ![s].found = decision]
    /\ UNCHANGED rows

\* registrar_decisions.application_id is unique: a second row is refused.
RecordDecision(verdict) == decision = NoDecision /\ decision' = verdict

RejectNowRead(s) ==
    /\ At(s, "resolve", "loaded")
    /\ session[s].choice = "REJECT_NOW"
    /\ Read(s)

\* A decision that exists already is kept, the application is rejected anyway.
RejectNowCommitBare(s) ==      \* mutant: no registrar_decisions row
    /\ At(s, "resolve", "read")
    /\ Transition(s, [session[s].seen EXCEPT !.final = "REJECT"],
                  <<To("PENDING_REVIEW", "officer"), To("DECIDED", "officer")>>)
    /\ Close(s)
    /\ UNCHANGED <<termOpen, named, issued, tests, decision, ranked, enrolled>>
RejectNowCommit(s) ==
    /\ At(s, "resolve", "read")
    /\ IF session[s].found = NoDecision
       THEN RecordDecision("REJECT")
       ELSE UNCHANGED decision
    /\ Transition(s, [session[s].seen EXCEPT !.final = "REJECT"],
                  <<To("PENDING_REVIEW", "officer"), To("DECIDED", "officer")>>)
    /\ Close(s)
    /\ UNCHANGED <<termOpen, named, issued, tests, ranked, enrolled>>

\* decide_single, the two batch endpoints and the record endpoint.
DecideLoad(s, verdict) ==
    /\ app.status = "PENDING_REVIEW"
    /\ Load(s, "decide", verdict, 0)

DecideRead(s) ==
    /\ At(s, "decide", "loaded")
    /\ Read(s)

DecideCommitUnsealed(s) ==      \* mutant: a second decision replaces the first
    /\ At(s, "decide", "read")
    /\ decision' = session[s].choice
    /\ Transition(s, [session[s].seen EXCEPT !.final = session[s].choice],
                  <<To("DECIDED", "officer")>>)
    /\ Close(s)
    /\ UNCHANGED <<termOpen, named, issued, tests, ranked, enrolled>>
DecideCommit(s) ==
    /\ At(s, "decide", "read")
    /\ session[s].found = NoDecision
    /\ RecordDecision(session[s].choice)
    /\ Transition(s, [session[s].seen EXCEPT !.final = session[s].choice],
                  <<To("DECIDED", "officer")>>)
    /\ Close(s)
    /\ UNCHANGED <<termOpen, named, issued, tests, ranked, enrolled>>

-----------------------------------------------------------------------------
(* The testing centre.                                                     *)

UATLoad(s, i) ==
    /\ ~tests[i].done
    /\ Load(s, "test", NoStatus, i)

\* The score is flushed before the application is read: a second callback waits
\* here for the row until the first has committed.
UATFlush(s) ==
    /\ At(s, "test", "loaded")
    /\ \A t \in Slots : At(t, "test", "read") => session[t].test # session[s].test
    /\ session' = [session EXCEPT ![s].at = "read", ![s].seen = app]
    /\ UNCHANGED rows

\* A transition the table refuses is an exception the event bus swallows: the
\* score is committed all the same.
UATCommit(s) ==
    /\ At(s, "test", "read")
    /\ \E score \in Scores :
           tests' = [tests EXCEPT ![session[s].test] = [done |-> TRUE, score |-> score]]
    /\ IF session[s].seen.status = "UAT_PENDING"
       THEN Transition(s, session[s].seen, <<To("UAT_COMPLETED", "system")>>)
       ELSE UNCHANGED <<app, history>>
    /\ Close(s)
    /\ UNCHANGED <<termOpen, named, issued, decision, ranked, enrolled>>

-----------------------------------------------------------------------------
(* Ranking and enrolment runs, as far as they concern this application.    *)

RunRankingLoad(s) ==
    /\ app.status = "UAT_COMPLETED"
    /\ Load(s, "rank", NoStatus, 0)

\* Of several completed tests the run takes whichever comes last.
RunRankingRead(s) ==
    /\ At(s, "rank", "loaded")
    /\ \E i \in DOMAIN tests :
           /\ tests[i].done
           /\ session' = [session EXCEPT ![s].at = "read", ![s].test = tests[i].score]
    /\ UNCHANGED rows

RunRankingCommit(s) ==
    /\ At(s, "rank", "read")
    /\ ranked' = session[s].test
    /\ Transition(s, session[s].seen, <<To("PENDING_REVIEW", "agent")>>)
    /\ Close(s)
    /\ UNCHANGED <<termOpen, named, issued, tests, decision, enrolled>>

RunEnrollmentLoad(s) ==
    /\ app.status = "DECIDED"
    /\ app.final = "ADMIT"
    /\ Load(s, "enroll", NoStatus, 0)

RunEnrollmentRead(s) ==
    /\ At(s, "enroll", "loaded")
    /\ ~enrolled
    /\ session' = [session EXCEPT ![s].at = "read"]
    /\ UNCHANGED rows

\* enrollments.application_id is unique.
RunEnrollmentCommit(s) ==
    /\ At(s, "enroll", "read")
    /\ ~enrolled
    /\ enrolled' = TRUE
    /\ Transition(s, session[s].seen, <<To("ENROLLED", "agent")>>)
    /\ Close(s)
    /\ UNCHANGED <<termOpen, named, issued, tests, decision, ranked>>

-----------------------------------------------------------------------------
Applicant(s) ==
    \/ SubmitLoad(s) \/ SubmitCommit(s)
    \/ InitiatePaymentLoad(s) \/ InitiatePaymentCommit(s)
    \/ \E reference \in 1..issued : CompletePaymentLoad(s, reference)
    \/ CompletePaymentCommit(s)
    \/ UpdateRequestedCorrectionsLoad(s) \/ UpdateRequestedCorrectionsCommit(s)

Officer(s) ==
    \/ \E status \in Statuses : ChangeStatusLoad(s, status)
    \/ ChangeStatusCommit(s)
    \/ RerunPostPaymentChecksLoad(s) \/ RerunPostPaymentChecksCommit(s)
    \/ \E resolution \in Resolutions : ResolveFlaggedApplicationLoad(s, resolution)
    \/ ResolveFlaggedApplicationCommit(s) \/ RejectNowRead(s) \/ RejectNowCommit(s)
    \/ \E verdict \in Verdicts : DecideLoad(s, verdict)
    \/ DecideRead(s) \/ DecideCommit(s)
    \/ RunRankingLoad(s) \/ RunRankingRead(s) \/ RunRankingCommit(s)
    \/ RunEnrollmentLoad(s) \/ RunEnrollmentRead(s) \/ RunEnrollmentCommit(s)

TestingCentre(s) ==
    \/ \E i \in DOMAIN tests : UATLoad(s, i)
    \/ UATFlush(s) \/ UATCommit(s)

Next ==
    \/ \E open \in BOOLEAN : SetAdmissionTermOpen(open)
    \/ \E s \in Slots : Applicant(s) \/ Officer(s) \/ TestingCentre(s) \/ Abort(s)

Spec == Init /\ [][Next]_vars

-----------------------------------------------------------------------------
(* Properties.                                                             *)

Entries == {history[i] : i \in DOMAIN history}

\* An officer moved the application past the payment by hand.
WaivedPayment ==
    \E entry \in Entries : entry.previous = "PAYMENT_PENDING" /\ entry.by = "officer"
Paid == app.paid \/ WaivedPayment

\* However requests overlap, nobody gets past PAYMENT_PENDING without a payment
\* the gateway confirmed or an officer's entry in the history that says so
\* (complete_payment; the agents run on verified payments only).
PaymentGate == app.status \notin BeforePayment => Paid

\* Only a registrar admits (DecisionService: human in the loop): a student is
\* enrolled, and the application says ADMIT, only with a recorded ADMIT.
FinalBacked == app.final = "ADMIT" => decision = "ADMIT"
HumanAdmits == enrolled => decision = "ADMIT"

\* What a session remembers is still true when it writes.
SessionBacked(s) ==
    LET op == session[s].op
        seen == session[s].seen
        choice == session[s].choice
    IN  /\ seen.status \notin BeforePayment => Paid
        /\ seen.paid => app.paid
        /\ op = "callback" => seen.status = "PAYMENT_PENDING"
        /\ op = "patch" => seen.status \in Resting /\ choice \in Resting
        /\ op = "decide" => choice \in DecisionTypes
        /\ op = "resolve" => choice \in Resolutions
        /\ op = "enroll" => decision = "ADMIT"
        /\ op = "rank" /\ session[s].at = "read" => session[s].test \in Scores \cup {0}
        /\ op \in {"correct", "resolve", "rerun", "decide", "rank", "enroll"} =>
               seen.status \notin BeforePayment

\* The inductive invariant behind PaymentGate and HumanAdmits; a submission
\* starts unpaid, and nothing was paid before it.
IInv ==
    /\ TypeOK
    /\ PaymentGate
    /\ app.status = NoStatus => ~app.paid
    /\ FinalBacked
    /\ HumanAdmits
    /\ \A s \in Slots : SessionBacked(s)

\* One request at a time, the history is the life of the row: it starts with the
\* draft, each entry goes on from the one before and the last is the status.
\* Several transitions of one request are written all or not at all.
HistoryReplays ==
    /\ (history = <<>>) <=> (app.status = NoStatus)
    /\ \A i \in DOMAIN history :
          history[i].previous = IF i = 1 THEN "DRAFT" ELSE history[i - 1].next
    /\ history # <<>> => history[Len(history)].next = app.status

\* One request at a time, the decision, the application's final_decision and the
\* status agree, and only a manual transition decides without a decision: no
\* application is reopened, re-ranked or rejected over a decision.
DecisionStands ==
    /\ decision = app.final
    /\ decision # NoDecision => app.status \in {"DECIDED", "ENROLLED"}
    /\ app.status \in {"DECIDED", "ENROLLED"} /\ decision = NoDecision =>
           ~enrolled /\ \E entry \in Entries : entry.next = "DECIDED" /\ entry.by = "officer"

\* One request at a time, an application that the credential agent sent to the
\* test has one open test, and nobody is ever given a second one.
OneTest ==
    /\ Len(tests) <= 1
    /\ app.status = "UAT_PENDING" /\ history[Len(history)].by = "system" =>
           Len(tests) = 1 /\ ~tests[1].done

\* However requests overlap or fail, a decision once written stays and enrolment
\* follows a decision to admit, once (RegistrarDecision is immutable once
\* written; one enrollment per application).
Record == INSTANCE AdmissionRecord WITH
    RecordVerdicts <- DecisionTypes, Admit <- "ADMIT", Undecided <- NoDecision,
    verdict <- decision, member <- enrolled
RefinesRecord == Record!RecordSpec
=============================================================================
