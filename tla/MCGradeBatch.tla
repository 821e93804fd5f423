----------------------------- MODULE MCGradeBatch -----------------------------
(***************************************************************************)
(* One section.  A behaviour either lets requests take turns on a stable   *)
(* roster of two students, or lets two overlap, under tighter bounds,      *)
(* while one student leaves and returns.                                   *)
(***************************************************************************)
EXTENDS GradeTurns, TLC

CONSTANTS x, y, p1, p2

TwoStudents == {x, y}
TwoSlots    == {p1, p2}
Symmetry    == Permutations(TwoSlots)
AnyRosters  == [Sections -> {{}, {x}, {x, y}}]

Reviewing == {"submit_batch", "submit_justification", "rerun_agent", "dh_rerun_agent"}

(* Bounds of the behaviours in which requests overlap.                     *)
OverlapVersion   == 1
OverlapIteration == 2
OverlapReviews   == 2
OverlapDecisions == 1
OverlapTotals    == {92, Blank, Absent}
OverlapRosters   == [Sections -> SUBSET {x}]
WithinOverlap ==
    /\ roster' \in OverlapRosters
    /\ \A sec \in Sections :
          /\ breakdown'[sec].version <= OverlapVersion
          /\ batch'[sec].iteration <= OverlapIteration
          /\ \A st \in Students : scores'[sec][st] \in OverlapTotals
    /\ \A p \in Busy' \ Busy :
          /\ session'[p].op \in Reviewing => Len(reviews) < OverlapReviews
          /\ session'[p].op \in {"authorise", "reject"} => Len(decisions) < OverlapDecisions

MCInit ==
    /\ TurnsInit
    /\ IF turns THEN roster = [sec \in Sections |-> TwoStudents] ELSE roster \in OverlapRosters
MCNext == TurnsNext /\ (turns \/ WithinOverlap)
MCSpec == MCInit /\ [][MCNext]_<<vars, turns>>
=============================================================================
