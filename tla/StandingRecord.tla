---------------------------- MODULE StandingRecord ----------------------------
(***************************************************************************)
(* What the standing workflow promises about a student's official status:  *)
(* it appears or changes only with a decision of the department head that  *)
(* is kept in the log, it is the status decided or the one it was, and     *)
(* once set it is never empty again.  What the agent logs moves nothing.   *)
(***************************************************************************)
EXTENDS Sequences

CONSTANTS RecordTerms, RecordStatuses, Undecided

VARIABLES
    final,    \* official status of each term, Undecided while there is none
    log       \* of each term: a status for a decision, Undecided for a proposal

record == <<final, log>>

RecordInit ==
    /\ final = [t \in RecordTerms |-> Undecided]
    /\ log = [t \in RecordTerms |-> <<>>]

\* One transaction decides the terms of S, each with a status of its own.
Decide(S, choice) ==
    /\ log' = [t \in RecordTerms |->
           IF t \in S THEN Append(log[t], choice[t]) ELSE log[t]]
    /\ final' \in [RecordTerms -> RecordStatuses \cup {Undecided}]
    /\ \A t \in S : final'[t] # Undecided /\ final'[t] \in {choice[t], final[t]}
    /\ \A t \in RecordTerms \ S : final'[t] = final[t]

\* The agent proposes a status for a term.
Propose(t) ==
    /\ log' = [log EXCEPT ![t] = Append(@, Undecided)]
    /\ UNCHANGED final

RecordNext ==
    \/ \E S \in SUBSET RecordTerms : \E choice \in [S -> RecordStatuses] : Decide(S, choice)
    \/ \E t \in RecordTerms : Propose(t)

RecordSpec == RecordInit /\ [][RecordNext]_record
=============================================================================
