------------------------------ MODULE MCStanding ------------------------------
(***************************************************************************)
(* Two terms of one 5-ECTS course each.  A behaviour either lets requests  *)
(* take turns, or lets two overlap under tighter bounds.                   *)
(***************************************************************************)
EXTENDS StandingTurns, TLC

CONSTANTS c, p1, p2

MCCourses  == {c}
MCCredits  == [x \in {c} |-> 5]
MCExpected == [t \in Terms |-> IF t = 1 THEN {} ELSE {c}]
OneSlot  == {p1}
TwoSlots == {p1, p2}
Slots    == Permutations(TwoSlots)

(* Bounds of the behaviours in which requests overlap.                     *)
OverlapHistory == 2
OverlapMarks   == {"C-", NoLetter}
WithinOverlap ==
    /\ \A p \in Busy' \ Busy : \A t \in session'[p].terms :
          Len(history[t]) < OverlapHistory
    /\ \A t \in Terms, x \in Courses : ledger'[t][x] \in OverlapMarks

MCInit == TurnsInit
MCNext == TurnsNext /\ (turns \/ WithinOverlap)
MCSpec == MCInit /\ [][MCNext]_<<vars, turns>>
=============================================================================
