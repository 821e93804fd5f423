------------------------------- MODULE MCRecords -------------------------------
(***************************************************************************)
(* The ledgers a student can have, and who reads them.  Grades are made    *)
(* official one at a time, in any order, over two terms.  A behaviour is   *)
(* of one of three modes:                                                   *)
(*   rules     the ledger only, up to every grade: what the standing rules *)
(*             and the averages of the documents make of it;               *)
(*   advice    one consultation and two reviews while grades and the       *)
(*             registration of the open term move: in turns, over more     *)
(*             ledgers, or overlapping;                                    *)
(*   class     one submitted class, whose roster moves before the grading  *)
(*             monitor looks at it.                                        *)
(***************************************************************************)
EXTENDS AdvisoryTurns, GradeClass, TLC

CONSTANTS a, b, c, d, e, x, Other, r1

VARIABLE mode

MCvars == <<advisory, serial, mode, classVars>>

\* Three 5-ECTS courses and one of 2; the second term has all four.  The fifth
\* course is another department's.
MCCourses    == {a, b, c, d, e}
MCCredits    == [k \in MCCourses |-> IF k = d THEN 2 ELSE 5]
MCDepartment == [k \in MCCourses |-> IF k = e THEN Other ELSE Home]
MCSemester   == [k \in MCCourses |-> CASE k = c -> 2 [] k \in {b, e} -> 3 [] OTHER -> 1]
Offered      == <<{a, d}, {a, b, c, d}>>
Marks        == {"A", "C-", "F", "NG"}

\* A low and a middle average, a light and a heavy load; two completed courses.
MCAsked ==
    {[cgpa |-> g, proposed |-> p, done |-> {a, c}] :
        g \in {199, 200, 275}, p \in {{}, {b, d}, {a, b, c, e}}}
MCAnswers ==
    {[risk |-> "HIGH", codes |-> {a, b, c}], [risk |-> "absent", codes |-> {b, d, e, x}]}
MCRequests == {r1}
MCReviews  == {1, 2}

(* Bounds of the modes.  The ledger and the registration stand still once  *)
(* a recommendation is stored; the rule engine, which reads neither, is    *)
(* asked before the student has a registration.                            *)
GradesAdvised   == 2                \* official grades while the advisor is asked
MarksAdvised    == {"A", "F"}
GradedAdvised   == {a, b, c}
GradesOverlap   == 1
Planned         == {{a, b}, {b, d}} \* what a draft may hold
Movable         == {a, b}           \* the courses an add/drop question is about
MovableInTurns  == {b}
Earlier         == {{}, {a, b}}     \* courses dropped from earlier registrations

\* Classes of up to nine, a student of each kind: 0, 45, 50, 50 less the error of
\* the sum, 90 percent, 32.5.  The student who may join has no cells, some, or a
\* full set from before.
MCComponents == <<[weight |-> 40, max |-> 4], [weight |-> 60, max |-> 8]>>
Kinds        == <<<<0, 0>>, <<3, 2>>, <<2, 4>>, <<2, 4>>, <<3, 8>>, <<1, 3>>>>
Short        == 4
ClassSize    == 9
Joiner       == ClassSize + 1
MCEnrolled   == 1..Joiner
JoinerCells  == {<<>>, Joiner :> <<4, Empty>>, Joiner :> <<2, 3>>}
NoClass == [roster |-> {}, added |-> {}, raw |-> <<>>, short |-> {}]
\* kind[i] of student i; equal classes are enumerated once.
Classes ==
    {[roster |-> DOMAIN kind, added |-> {},
      raw |-> [i \in DOMAIN kind |-> Kinds[kind[i]]] @@ cells,
      short |-> {i \in DOMAIN kind : kind[i] = Short}] :
        cells \in JoinerCells,
        kind \in {k \in UNION {[1..n -> DOMAIN Kinds] : n \in 1..3} :
                     \A i \in DOMAIN k : i > 1 => k[i - 1] <= k[i]}
                \cup {[i \in 1..n |-> IF i <= low THEN 1 ELSE IF i <= mid THEN Short ELSE 5] :
                        n \in 4..ClassSize, low \in 0..ClassSize, mid \in 0..ClassSize}}

Official == {g \in Terms \X Courses : ledger[g[1]][g[2]] # NoLetter}

MCInit ==
    /\ AdvisoryTurnsInit
    /\ mode \in {"rules", "advice", "class"}
    /\ serial => mode = "advice"
    /\ attempts \in IF serial THEN Earlier ELSE {{}}
    /\ IF mode = "class" THEN class \in Classes /\ ClassInit
       ELSE class = NoClass /\ outcomes = <<>>

Published == \E t \in Terms : \E k \in Offered[t], letter \in Marks : publish_grade(t, k, letter)

Gained == {k \in Courses : link'[k] = "active" /\ link[k] # "active"}

\* What of a step the bounds let through while the advisor is asked.
Bounded ==
    /\ <<ledger, plan, link>>' # <<ledger, plan, link>> => advice = <<>>
    /\ plan = "none" => plan' = "none" \/ Gained \in Planned
    /\ plan = "draft" => link' = link
    /\ plan = "active" => Gained = {} /\ Cardinality({k \in Courses : link'[k] = "dropped"}) <= 1
    /\ \A r \in Requests : request'[r].add \cup request'[r].drop \subseteq
          (IF serial THEN MovableInTurns ELSE Movable)
    /\ \A g \in Official' : /\ g[2] \in Offered[g[1]] \cap GradedAdvised
                            /\ ledger'[g[1]][g[2]] \in MarksAdvised
    /\ Cardinality(Official') <= IF serial THEN GradesAdvised ELSE GradesOverlap
    /\ advice' # advice /\ plan # "none" => advice'[1].mode # "EVALUATE"

\* What of the roster moves: one student leaves for good, one comes by add/drop.
RosterBounded ==
    /\ class'.roster \subseteq DOMAIN outcomes \cup {Joiner}
    /\ class.roster \subseteq class'.roster \/ class.roster = DOMAIN outcomes
    /\ class'.roster \ class.roster \subseteq class'.added \cap {Joiner}

MCNext ==
    /\ UNCHANGED mode
    /\ \/ mode = "class" /\ ClassNext /\ RosterBounded /\ UNCHANGED <<advisory, serial>>
       \/ mode = "rules" /\ Published /\ UNCHANGED <<serial, classVars>>
       \/ mode = "advice" /\ AdvisoryTurnsNext /\ Bounded /\ UNCHANGED classVars

MCSpec == MCInit /\ [][MCNext]_MCvars

=============================================================================
