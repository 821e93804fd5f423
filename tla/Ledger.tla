-------------------------------- MODULE Ledger --------------------------------
(***************************************************************************)
(* The ledger of authorised grades of one student, and what must be true   *)
(* of whatever it holds: of the rules that judge it and of the documents   *)
(* that average it.  Who writes it is in the modules that extend this one. *)
(***************************************************************************)
EXTENDS Records

VARIABLE
    ledger        \* authorised letter of each course of each term

NoGrades == [t \in Terms |-> [c \in Courses |-> NoLetter]]

\* What the rules make of a term, for each prior status the student may have.
Priors == Statuses \cup {NoStatus}
Verdicts(l, t) ==
    LET ctx == build_compute_input(l, t, NoStatus)
    IN  [prior \in Priors |-> evaluate_status([ctx EXCEPT !.prior_status = prior])]

\* A better letter in one course never brings a heavier verdict, on that term or
\* on a later one (rules.py: the rules are a first-match list of overlapping
\* thresholds on averages and Fs).
BetterGradeNeverHurts ==
    \A t \in Terms :
        LET was == Verdicts(ledger, t)
        IN  \A u \in 1..t, k \in Courses, l \in NumericLetters :
                /\ ledger[u][k] \in NumericLetters
                /\ GRADE_POINTS[l] > GRADE_POINTS[ledger[u][k]]
                => LET now == Verdicts([ledger EXCEPT ![u][k] = l], t)
                   IN  \A prior \in Priors : Severity(now[prior]) <= Severity(was[prior])

\* A dismissal rests on a CGPA below 2.00 or on at least three Fs: the stricter
\* first-semester and first-year rules add no other ground.
DismissalHasGround ==
    \A t \in Terms :
        LET ctx == build_compute_input(ledger, t, NoStatus)
            verdicts == Verdicts(ledger, t)
        IN  (\E prior \in Priors : verdicts[prior] = "DISMISSED")
            => ctx.cgpa < 20000 \/ ctx.f_count >= 3

\* Transcript, grade report and advisor agree on the averages of any ledger.
AveragesAgree == DocumentsAgree(ledger)
=============================================================================
