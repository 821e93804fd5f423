---------------------------- MODULE StandingRules ----------------------------
(***************************************************************************)
(* The Article-91 rules engine (standing/rules.py) and the input the       *)
(* standing service composes for it from the ledger of authorised grades   *)
(* (standing/service.py, _build_compute_input).                            *)
(*                                                                         *)
(* A GPA is a natural number of ten-thousandths, rounded as the service    *)
(* rounds it (four decimals), so 17500 is 1.75; NoGPA stands for None.     *)
(* Terms are numbered by start date.  A ledger holds the letter of each    *)
(* course of each term, NoLetter while no grade is AUTHORISED.             *)
(***************************************************************************)
EXTENDS LetterScale, FiniteSets, Functions

CONSTANTS
    Courses,
    Credits,      \* credit hours of each course
    LastTerm,
    NoLetter,     \* no authorised grade
    NoStatus      \* a status column that is NULL

ASSUME RulesAssumption ==
    /\ LastTerm \in Nat
    /\ Credits \in [Courses -> Nat \ {0}]
    /\ IsFiniteSet(Courses)
    /\ NoLetter \notin NumericLetters \cup AdministrativeMarks
    /\ NoStatus \notin {"PROMOTED", "WARNING", "DISMISSED", "INCOMPLETE"}

Terms  == 1..LastTerm
NoGPA  == -1
Statuses == {"PROMOTED", "WARNING", "DISMISSED", "INCOMPLETE"}
Letters  == NumericLetters \cup AdministrativeMarks
Ledgers  == [Terms -> [Courses -> Letters \cup {NoLetter}]]

HOLD_LETTERS == {"I", "NG"}

-----------------------------------------------------------------------------
(* _build_compute_input                                                    *)

Graded(ledger, t) == {c \in Courses : ledger[t][c] # NoLetter}
CountingPassed(ledger, t) ==      \* mutant: an F leaves the average alone
    {c \in Courses : is_passing(ledger[t][c])}
Counting(ledger, t) == {c \in Courses : counts_toward_cgpa(ledger[t][c])}
Failed(ledger, t) == {c \in Courses : ledger[t][c] = "F"}

CreditSum(C) == SumFunctionOnSet(Credits, C)
PointSum(ledger, t) ==
    SumFunction([c \in Counting(ledger, t) |-> GRADE_POINTS[ledger[t][c]] * Credits[c]])

\* round(n / d), a tie to the even neighbour.
Rounded(n, d) ==
    LET q == n \div d
        r == 2 * (n % d)
    IN  IF r > d \/ (r = d /\ q % 2 = 1) THEN q + 1 ELSE q

\* round(points / credit, 4), or None.
GPA(points, credit) ==
    IF credit = 0 THEN NoGPA ELSE Rounded(100 * points, credit)

\* Grades of terms that start after the target term are excluded.
EarlierOnly(ledger, t) == {u \in 1..(t - 1) : Graded(ledger, u) # {}}

build_compute_input(ledger, t, prior) ==
    LET before == EarlierOnly(ledger, t)
        upto   == before \cup {t}
    IN  [sgpa   |-> GPA(PointSum(ledger, t), CreditSum(Counting(ledger, t))),
         cgpa   |-> GPA(SumFunction([u \in upto |-> PointSum(ledger, u)]),
                        SumFunction([u \in upto |-> CreditSum(Counting(ledger, u))])),
         held   |-> \E c \in Courses : ledger[t][c] \in HOLD_LETTERS,
         term_credit_hours |-> CreditSum(Counting(ledger, t)),
         f_count        |-> Cardinality(Failed(ledger, t)),
         f_credit_total |-> CreditSum(Failed(ledger, t)),
         is_first_semester |-> before = {},
         is_first_year     |-> Cardinality(before) <= 1,
         prior_status      |-> prior]

-----------------------------------------------------------------------------
(* evaluate_status: the first group of rules that matches wins.            *)

Held(ctx) == ctx.held \/ ctx.sgpa = NoGPA \/ ctx.cgpa = NoGPA

DismissedEither(ctx) ==      \* mutant: 91.7.3 with "or"
    \/ ctx.sgpa < 17500 \/ ctx.cgpa < 20000
    \/ ctx.f_count >= 3 /\ ctx.f_credit_total > 12
    \/ ctx.f_count > 3
Dismissed(ctx) ==
    \/ ctx.prior_status = "WARNING" /\ ctx.cgpa < 20000                   \* 91.7.1, 91.7.4
    \/ ctx.sgpa < 17500 /\ ctx.cgpa < 20000                               \* 91.7.3
    \/ ctx.f_count >= 3 /\ ctx.f_credit_total > 12                        \* 91.7.2
    \/ ctx.f_count > 3
    \/ ctx.is_first_semester /\ ctx.sgpa < 15000                          \* 91.7.5
    \/ ctx.is_first_year /\ ~ctx.is_first_semester /\ ctx.cgpa < 17500    \* 91.7.6

Warned(ctx) ==
    \/ ctx.sgpa < 17500 \/ ctx.cgpa < 20000                               \* 91.3
    \/ ctx.f_count \in 1..3 /\ ctx.term_credit_hours <= 15                \* 91.4
    \/ ctx.is_first_semester /\ ctx.sgpa >= 15000 /\ ctx.sgpa < 17500    \* 91.5
    \/ /\ ctx.is_first_year /\ ~ctx.is_first_semester                     \* 91.6
       /\ ctx.cgpa >= 17500 /\ ctx.cgpa < 20000

evaluate_status(ctx) ==
    CASE Held(ctx)                         -> "INCOMPLETE"
      [] ~Held(ctx) /\ Dismissed(ctx)      -> "DISMISSED"
      [] ~Held(ctx) /\ ~Dismissed(ctx) /\ Warned(ctx) -> "WARNING"
      [] OTHER                             -> "PROMOTED"

requires_review(ctx) == evaluate_status(ctx) = "INCOMPLETE"

\* The verdicts that rank a student, the heaviest first.
Severity(status) ==
    CASE status = "DISMISSED" -> 2 [] status = "WARNING" -> 1 [] OTHER -> 0
=============================================================================
