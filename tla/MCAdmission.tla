----------------------------- MODULE MCAdmission -----------------------------
(***************************************************************************)
(* Two request slots.  A behaviour either lets requests take turns, or     *)
(* lets two overlap under tighter bounds.                                  *)
(***************************************************************************)
EXTENDS AdmissionTurns, TLC

CONSTANTS r1, r2

TwoSlots == {r1, r2}
Symmetry == Permutations(TwoSlots)

(* Bounds of the behaviours in which requests overlap.                     *)
OverlapTransitions == 8
OverlapReferences  == 1
OverlapScores      == {0, 90}
OverlapVerdicts    == {"ADMIT", "REJECT"}
WithinOverlap ==
    /\ Busy' \subseteq Busy \/ Len(history) < OverlapTransitions
    /\ issued' <= OverlapReferences
    /\ \A i \in DOMAIN tests' : tests'[i].score \in OverlapScores
    /\ \A s \in Slots : session'[s].op = "decide" => session'[s].choice \in OverlapVerdicts

MCInit == TurnsInit
MCNext == TurnsNext /\ (turns \/ WithinOverlap)
MCSpec == MCInit /\ [][MCNext]_<<vars, turns>>
=============================================================================
