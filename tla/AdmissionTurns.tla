---------------------------- MODULE AdmissionTurns ----------------------------
(***************************************************************************)
(* Admission where requests about the application may take turns.  Nothing *)
(* in the code makes them do so.                                           *)
(***************************************************************************)
EXTENDS AdmissionViews

VARIABLE turns       \* no request begins before the last one has ended

Busy == {s \in Slots : session[s].at # "idle"}
OneAtATime == \A s, t \in Busy : s = t

TurnsInit == Init /\ turns \in BOOLEAN
TurnsNext ==
    /\ Next
    /\ UNCHANGED turns
    /\ turns => OneAtATime'
TurnsSpec == TurnsInit /\ [][TurnsNext]_<<vars, turns>>

-----------------------------------------------------------------------------
(* While requests take turns, the history is a chain that ends in the      *)
(* status, the decision row, the final decision and the status agree,      *)
(* nobody is given a second test, and the pages show the reasons and the   *)
(* score that count.                                                       *)
TurnsAgree == turns => HistoryReplays /\ DecisionStands /\ OneTest /\ PagesFit
=============================================================================
