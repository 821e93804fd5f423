------------------------------ MODULE GradeTurns ------------------------------
(***************************************************************************)
(* Grading where requests may take turns: an instructor and a department   *)
(* head who do not work at the same time, on rosters that no longer change *)
(* and have no student in common.  Nothing in the code makes them do so.   *)
(***************************************************************************)
EXTENDS GradeViews

VARIABLE turns       \* no request begins before the last one has ended

Busy == {p \in Sessions : session[p].at # "idle"}
OneAtATime == \A p, q \in Busy : p = q
Disjoint == \A s, t \in Sections : s # t => roster[s] \cap roster[t] = {}

TurnsInit == Init /\ turns \in BOOLEAN /\ (turns => Disjoint)
TurnsNext ==
    /\ Next
    /\ UNCHANGED turns
    /\ turns => OneAtATime' /\ UNCHANGED roster
TurnsSpec == TurnsInit /\ [][TurnsNext]_<<vars, turns>>

-----------------------------------------------------------------------------
(* While requests take turns, Grade rows are official exactly while the    *)
(* batch of their section is authorised, an official letter is that of the *)
(* total in the score matrix, and the packet shows what a decision moves.  *)
TurnsOfficial == turns => OfficialIffAuthorised /\ OfficialFromScores /\ PacketFits

(* While requests take turns, the status a department head sees is the     *)
(* agent's last verdict, scores keep the breakdown locked, and the queue   *)
(* shows the verdict behind each batch.                                    *)
TurnsWorkflow == turns => StatusFollowsVerdict /\ LockedWhileScored /\ QueueFits

(* While requests take turns, an official Grade row never changes.         *)
TurnsLocked == [][turns => KeepsOfficial]_<<vars, turns>>
=============================================================================
