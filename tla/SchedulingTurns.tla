--------------------------- MODULE SchedulingTurns ---------------------------
(***************************************************************************)
(* Scheduling where requests may take turns: department heads who do not   *)
(* work at the same time, which nothing in the code makes them do.         *)
(***************************************************************************)
EXTENDS SchedulingViews

VARIABLE turns       \* no request begins before the last one has ended

Busy == {p \in Slots : request[p].at # "idle"}
OneAtATime == \A p, q \in Busy : p = q

TurnsInit == Init /\ turns \in BOOLEAN
TurnsNext == Next /\ UNCHANGED turns /\ (turns => OneAtATime')
TurnsSpec == TurnsInit /\ [][TurnsNext]_<<vars, turns>>

(* While requests take turns, an instructor teaches one class of a         *)
(* department at a time, a course has at most one assignment, and a        *)
(* timetable is never left beside the one that replaces it.                *)
TurnsOnce == turns => InstructorsFree /\ OneInstructor /\ OneGeneration

(* What the last generation of a department has made is complete, or its   *)
(* head sees an open conflict of the section, whatever overlaps.  While    *)
(* requests take turns, so is every generation that stands.                *)
CompleteOrSeen ==
    /\ LatestComplete
    /\ turns => CompleteOrReported
    /\ ConflictsSeen
=============================================================================
