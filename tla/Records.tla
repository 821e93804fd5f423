------------------------------- MODULE Records -------------------------------
(***************************************************************************)
(* What the other readers of the ledger of authorised grades compute from  *)
(* it: the transcript (grading/transcript_service.py), the grade report    *)
(* (records/service.py) and the academic history of the advisory service   *)
(* (repository.py, GradeRepository).  Each has an average of its own.      *)
(***************************************************************************)
EXTENDS StandingRules

\* grade_points of a line: points by credit hours, None read as 0.
LinePoints(letter, c) ==
    IF counts_toward_cgpa(letter) THEN GRADE_POINTS[letter] * Credits[c] ELSE 0

\* One term of the transcript.  The credit hours are those of every line, a
\* course marked I or NG included.
total_credit_hours_counting(ledger, t) ==      \* mutant: the lines with points only
    CreditSum({c \in Courses : LinePoints(ledger[t][c], c) > 0})
total_credit_hours(ledger, t) == CreditSum(Graded(ledger, t))

term_gpa(ledger, t) ==
    GPA(SumFunction([c \in Graded(ledger, t) |-> LinePoints(ledger[t][c], c)]),
        total_credit_hours(ledger, t))

\* The average of the whole transcript is that of the terms' rounded averages,
\* weighted by their credit hours.
transcript_terms(ledger) == {t \in Terms : Graded(ledger, t) # {}}
transcript_credits(ledger) ==
    SumFunction([t \in transcript_terms(ledger) |-> total_credit_hours(ledger, t)])

transcript_cgpa(ledger) ==
    IF transcript_credits(ledger) = 0 THEN NoGPA
    ELSE Rounded(SumFunction([t \in transcript_terms(ledger) |->
                                 term_gpa(ledger, t) * total_credit_hours(ledger, t)]),
                 transcript_credits(ledger))

\* The grade report prints the averages of the decided standing row next to the
\* lines as they are now; the row has those of the ledger it was computed from.
get_grade_report(ledger, computed, t) ==
    LET ctx == build_compute_input(computed, t, NoStatus)
    IN  [courses |-> Graded(ledger, t), term_gpa |-> ctx.sgpa, cumulative_gpa |-> ctx.cgpa]

-----------------------------------------------------------------------------
(* GradeRepository.                                                        *)

list_authorised_for_student(ledger) ==
    {g \in Terms \X Courses : ledger[g[1]][g[2]] # NoLetter}

completed_course_ids_graded(ledger) ==      \* mutant: failed courses count as well
    {g[2] : g \in list_authorised_for_student(ledger)}

\* The courses passed, in any term.
completed_course_ids(ledger) ==
    {g[2] : g \in {g \in list_authorised_for_student(ledger) : is_passing(ledger[g[1]][g[2]])}}

\* Two decimals, in hundredths.
compute_cgpa(ledger) ==
    LET eligible == {g \in list_authorised_for_student(ledger) :
                        counts_toward_cgpa(ledger[g[1]][g[2]])}
        credits  == SumFunction([g \in eligible |-> Credits[g[2]]])
    IN  IF eligible = {} THEN NoGPA
        ELSE Rounded(SumFunction([g \in eligible |-> LinePoints(ledger[g[1]][g[2]], g[2])]),
                     credits)

-----------------------------------------------------------------------------
(* Properties.                                                             *)

Unmarked(ledger, t) == \A c \in Courses : ledger[t][c] \notin AdministrativeMarks
Near(x, y, slack) == x - y \in (0 - slack)..slack

\* The documents agree.  On a ledger without I and NG the transcript prints the
\* term average of the grade report and, up to one unit of its last decimal, its
\* cumulative average, and the advisor's is the same one, at two decimals.  With
\* such marks the transcript can only be lower.
DocumentsAgree(ledger) ==
    LET report == get_grade_report(ledger, ledger, LastTerm)
        clean  == \A t \in Terms : Unmarked(ledger, t)
    IN  /\ \A t \in Terms :
              LET sgpa == build_compute_input(ledger, t, NoStatus).sgpa
              IN  /\ Unmarked(ledger, t) => term_gpa(ledger, t) = sgpa
                  /\ sgpa # NoGPA => term_gpa(ledger, t) <= sgpa
        /\ clean => Near(transcript_cgpa(ledger), report.cumulative_gpa, 1)
        /\ report.cumulative_gpa = NoGPA <=> compute_cgpa(ledger) = NoGPA
        /\ report.cumulative_gpa # NoGPA =>
              /\ transcript_cgpa(ledger) <= report.cumulative_gpa + 1
              /\ Near(100 * compute_cgpa(ledger), report.cumulative_gpa, 51)
=============================================================================
