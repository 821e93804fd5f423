---------------------------- MODULE AdmissionRecord ----------------------------
(***************************************************************************)
(* What the admission promises of its ledgers: a registrar's decision is   *)
(* written once and never changes, and a student is enrolled once, after   *)
(* a decision to admit.                                                    *)
(***************************************************************************)
CONSTANTS RecordVerdicts, Admit, Undecided

VARIABLES
    verdict,    \* the decision, Undecided while there is none
    member      \* the student is enrolled

record == <<verdict, member>>

RecordInit == verdict = Undecided /\ member = FALSE

Decide ==
    /\ verdict = Undecided
    /\ verdict' \in RecordVerdicts
    /\ UNCHANGED member

Enrol ==
    /\ verdict = Admit
    /\ ~member
    /\ member' = TRUE
    /\ UNCHANGED verdict

RecordNext == Decide \/ Enrol

RecordSpec == RecordInit /\ [][RecordNext]_record
=============================================================================
