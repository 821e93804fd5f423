---------------------------- MODULE OfficialRecord ----------------------------
(***************************************************************************)
(* What the grading workflow promises about the official record of one     *)
(* course in one term, whatever requests overlap: a grade becomes official *)
(* only in a step that also records an officer's authorisation, and        *)
(* neither that step nor a rejection changes any letter, so a grade is     *)
(* made official with the letter its row had.  Only a submission changes   *)
(* letters.  It does not promise that an official grade stays as it is:    *)
(* Resubmit is what a stale submission can do to it.                       *)
(***************************************************************************)
EXTENDS Sequences

CONSTANTS Students, Letters, Unofficial

VARIABLES
    letter,     \* [Students -> Letters \cup {Unofficial}]: the row's letter, if it has a row
    official,   \* the students whose letter is official
    log         \* the officer's decisions: TRUE authorises, FALSE rejects

recordVars == <<letter, official, log>>

RecordInit ==
    /\ letter = [st \in Students |-> Unofficial]
    /\ official = {}
    /\ log = <<>>

\* The letters of S become official as they stand, and no letter changes.
Authorise(S) ==
    /\ \A st \in S : letter[st] \in Letters
    /\ official' = official \cup S
    /\ log' = Append(log, TRUE)
    /\ letter' = letter

\* The letters of S stop being official, and no letter changes.
Reject(S) ==
    /\ official' = official \ S
    /\ log' = Append(log, FALSE)
    /\ letter' = letter

\* No decision: S gets letters, and what was official may be withdrawn or, as a
\* stale submission can, replaced under the official status.  None becomes official.
Resubmit(S) ==
    /\ letter' \in [Students -> Letters \cup {Unofficial}]
    /\ \A st \in S : letter'[st] \in Letters
    /\ \A st \in Students \ S : letter'[st] = letter[st]
    /\ official \ S \subseteq official'
    /\ official' \subseteq official
    /\ log' = log

RecordNext == \E S \in SUBSET Students : Authorise(S) \/ Reject(S) \/ Resubmit(S)

RecordSpec == RecordInit /\ [][RecordNext]_recordVars
=============================================================================
