----------------------------- MODULE MCEnrollment -----------------------------
(***************************************************************************)
(* One term with four applicants.  A behaviour follows the ranking runs    *)
(* alone, or everything under tighter bounds: a ranking run and two        *)
(* enrolment runs that overlap, or one of each while an officer moves an   *)
(* application on by hand.                                                 *)
(***************************************************************************)
EXTENDS Enrollment, RankingViews

CONSTANTS a, b, c, d, law, med, social, k, e1, e2

\* Two programs of one place each that three applicants want in different
\* orders, and a stream of one place; two of them may have equal scores.
MCApplicants == {a, b, c, d}
MCPrograms   == {med, law}
MCStreams    == {social}
MCPreference == (a :> <<med, law>>) @@ (b :> <<law, med>>) @@ (c :> <<law>>) @@ (d :> <<social>>)
MCCapacity   == [seat \in Seats |-> 1]
MCGrade12    == (a :> 480) @@ (b :> 420) @@ (c :> 420) @@ (d :> 400)
TwoSlots     == {e1, e2}
Symmetry     == Permutations(TwoSlots)

VARIABLE scenario      \* what a behaviour is about

(* Bounds of the behaviours that go on to enrolment.                       *)
OverlapApplicants == {b, c}
OverlapRuns       == 2
HandStarts        == 3
WithinOverlap ==
    /\ \A x \in Applicants : uat'[x] \in {NoScore} \cup
           (IF x \in OverlapApplicants THEN {CHOOSE u \in UATScores : TRUE} ELSE {})
    /\ \A row \in results' : row.run <= OverlapRuns

(* Where an officer moves an application by hand one enrolment request is  *)
(* served; otherwise nobody does.                                          *)
ByHandAlone ==
    IF scenario = "by hand"
    THEN /\ \A e, f \in Enrollers : enroller'[e] = Waiting \/ enroller'[f] = Waiting \/ e = f
         /\ clock' <= HandStarts
    ELSE \A x \in ByHand : ~ChangeStatus(x)

MCInit == Init /\ scenario \in {"ranking", "enrolment", "by hand"}
MCNext ==
    /\ UNCHANGED scenario
    /\ IF scenario = "ranking" THEN RankNext /\ UNCHANGED enrollVars
       ELSE Next /\ WithinOverlap /\ ByHandAlone
MCSpec == MCInit /\ [][MCNext]_<<vars, scenario>>
=============================================================================
