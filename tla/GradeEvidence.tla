---------------------------- MODULE GradeEvidence ----------------------------
(***************************************************************************)
(* One class of one course: the outcomes a submission stores               *)
(* (grading/service.py) and the evidence the grading monitor compiles for  *)
(* the language model from the roster and the cells of the moment          *)
(* (grading/agents/grading_monitor_agent.py, grading/tools/).              *)
(*                                                                         *)
(* A class is a record: the roster, who of it joined by an add/drop, the   *)
(* cells of everybody who has some, and the students whose total falls     *)
(* short.  The code adds doubles: a sum that is a whole percent exactly    *)
(* may come out just below it (20, 24 and 2 of 30 at 20, 30 and 40         *)
(* percent: 39.99999999999999), which the cut-offs see and the rounding to *)
(* four decimals hides.  Totals are exact, in parts of a percent; means    *)
(* stay sums, z-scores are squared.                                        *)
(***************************************************************************)
EXTENDS LetterScale, FiniteSets, Functions

CONSTANTS
    Components,       \* sequence of [weight, max], weights in percent
    Unit,             \* the parts of a percent that every total is a number of;
                      \* four decimals tell two such totals apart
    Empty             \* a cell without a score

ASSUME GradeEvidenceAssumption ==
    /\ Unit \in Nat \ {0}
    /\ Components \in Seq([weight : Nat \ {0}, max : Nat \ {0}])
    /\ \A i \in DOMAIN Components : \E k \in 1..Unit : Unit = k * Components[i].max
    /\ Empty \notin Nat

Filled(cl, s) ==
    {i \in DOMAIN Components : s \in DOMAIN cl.raw /\ cl.raw[s][i] # Empty}
Complete(cl, s) == Filled(cl, s) = DOMAIN Components

\* The score of a cell as parts of one percent of its component.
Share(cl, s, i) == cl.raw[s][i] * (Unit \div Components[i].max)

\* The weighted total, a blank cell skipped, clamped: what rounding leaves of
\* it, and its letter, taken from the sum before it is rounded.
Weighted(cl, s) ==
    SumFunction([i \in Filled(cl, s) |-> Components[i].weight * Share(cl, s, i)])
numeric_score(cl, s) == IF Weighted(cl, s) > 100 * Unit THEN 100 * Unit ELSE Weighted(cl, s)
letter_grade(cl, s) ==
    letter_for_numeric((numeric_score(cl, s) - (IF s \in cl.short THEN 1 ELSE 0)) \div Unit)
Outcome(cl, s) == [numeric |-> numeric_score(cl, s), letter |-> letter_grade(cl, s)]

\* _compute_outcomes: submit_batch has refused a class with a blank cell.
compute_outcomes(cl) == [s \in cl.roster |-> Outcome(cl, s)]

-----------------------------------------------------------------------------
(* The tools.                                                              *)

per_student_partial(cl) ==      \* mutant: a blank cell counts as zero
    [s \in cl.roster |-> Outcome(cl, s)]
per_student(cl) == [s \in {m \in cl.roster : Complete(cl, m)} |-> Outcome(cl, s)]

list_missing_entries(cl) ==
    [s \in {m \in cl.roster : ~Complete(cl, m)} |-> DOMAIN Components \ Filled(cl, s)]

summarize_roster(cl) ==
    [total |-> Cardinality(cl.roster), added |-> Cardinality(cl.added),
     original_count |-> Cardinality(cl.roster \ cl.added),
     is_small_class |-> Cardinality(cl.roster) < 10]

check_breakdown_integrity ==
    SumFunction([i \in DOMAIN Components |-> Components[i].weight]) = 100

\* Count and sum; extremes and median enter nothing else.
Describe(scores) == [n |-> Cardinality(DOMAIN scores), total |-> SumFunction(scores)]

compute_class_statistics(ps) == Describe([s \in DOMAIN ps |-> ps[s].numeric])
pass_count_letters(ps) ==      \* mutant: whoever gets a passing letter
    Cardinality({s \in DOMAIN ps : is_passing(ps[s].letter)})
pass_count(ps) == Cardinality({s \in DOMAIN ps : ps[s].numeric >= 50 * Unit})

\* Scores in percent of the component's maximum, of everyone who has one.
compute_component_statistics(cl, i) ==
    Describe([s \in {m \in cl.roster : i \in Filled(cl, m)} |-> 100 * Share(cl, s, i)])

\* The histogram looks the letter up again, from the rounded number.
compute_letter_distribution(ps) ==
    [l \in NumericLetters |->
        Cardinality({s \in DOMAIN ps : letter_for_numeric(ps[s].numeric \div Unit) = l})]

\* |z| >= 2.5 over the population, for three students or more: n^2 times the
\* squared distance from the mean against 25/4 of n^2 times the variance.
list_score_outliers(ps) ==
    LET n      == Cardinality(DOMAIN ps)
        sum    == SumFunction([s \in DOMAIN ps |-> ps[s].numeric])
        spread == n * SumFunction([s \in DOMAIN ps |-> ps[s].numeric * ps[s].numeric]) - sum * sum
        dist   == [s \in DOMAIN ps |-> n * ps[s].numeric - sum]
        far    == {s \in DOMAIN ps : 4 * dist[s] * dist[s] >= 25 * spread}
    IN  IF n < 3 \/ spread = 0 THEN [below |-> {}, above |-> {}]
        ELSE [below |-> {s \in far : dist[s] < 0}, above |-> {s \in far : dist[s] > 0}]

find_identical_score_clusters(ps) ==
    {c \in {[score |-> v, count |-> Cardinality({s \in DOMAIN ps : ps[s].numeric = v})] :
                v \in {ps[s].numeric : s \in DOMAIN ps}} : c.count >= 2}

\* _compile_context: what the language model sees of the class.
compile_context(cl) ==
    LET ps == per_student(cl)
    IN  [per_student |-> ps,
         missing |-> list_missing_entries(cl),
         roster |-> summarize_roster(cl),
         sums_to_100 |-> check_breakdown_integrity,
         class_stats |-> compute_class_statistics(ps),
         pass_count |-> pass_count(ps),
         distribution |-> compute_letter_distribution(ps),
         components |-> [i \in DOMAIN Components |-> compute_component_statistics(cl, i)],
         outliers |-> list_score_outliers(ps),
         identical_clusters |-> find_identical_score_clusters(ps)]

-----------------------------------------------------------------------------
(* What the evidence must be, for a class and the Grade rows a submission  *)
(* has stored for it.                                                      *)

\* The evidence about a student who is still on the roster is the row that an
\* authorisation makes official; whoever joined since is reported as missing or
\* has a full set of cells from before.
EvidenceIsStored(cl, stored) ==
    LET ctx == compile_context(cl)
    IN  /\ \A s \in cl.roster \cap DOMAIN stored :
              s \in DOMAIN ctx.per_student /\ ctx.per_student[s] = stored[s]
        /\ \A s \in cl.roster \ DOMAIN stored :
              s \in DOMAIN ctx.missing <=> s \notin DOMAIN ctx.per_student

\* The parts of the evidence are about the same students: the pass count is that
\* of the letters C and better of the histogram, component averages make up the
\* class average, and the clusters hold exactly the students who share a score.
\* (The pass count says of itself that it is of "letter D or better", as the
\* passing letters of the points table are: of C- and D it is not.)
EvidenceAddsUp(cl) ==
    LET ctx  == compile_context(cl)
        ps   == ctx.per_student
        Letters(L) == SumFunctionOnSet(ctx.distribution, L)
    IN  /\ ctx.class_stats.n + Cardinality(DOMAIN ctx.missing) = ctx.roster.total
        /\ Letters(NumericLetters) = ctx.class_stats.n
        /\ ctx.pass_count = Letters(NumericLetters \ {"C-", "D", "F"})
        /\ DOMAIN ctx.missing = {} /\ ctx.sums_to_100 =>
              100 * ctx.class_stats.total =
                  SumFunction([i \in DOMAIN Components |->
                                  Components[i].weight * ctx.components[i].total])
        /\ SumFunction([c \in ctx.identical_clusters |-> c.count]) =
              Cardinality({s \in DOMAIN ps :
                              \E t \in DOMAIN ps \ {s} : ps[t].numeric = ps[s].numeric})

\* Nobody is an outlier in a class of seven: the largest z-score of n values is
\* the root of n - 1.  An outlier below scored less than any above.
OutliersPlausible(cl) ==
    LET ps  == per_student(cl)
        far == list_score_outliers(ps)
    IN  /\ far.below \cup far.above # {} => Cardinality(DOMAIN ps) >= 8
        /\ \A s \in far.below, t \in far.above : ps[s].numeric < ps[t].numeric

\* The table says of its bounds that they are inclusive.  A stored letter is the
\* table's for the stored number, except of a student whose number is a bound
\* exactly and whose sum fell short of it: then it is the letter of the next row.
LettersFromTable(cl, stored) ==
    \A s \in DOMAIN stored :
        \/ stored[s].letter = letter_for_numeric(stored[s].numeric \div Unit)
        \/ /\ s \in cl.short
           /\ \E i \in 1..(Len(LETTER_CUTOFFS) - 1) :
                 /\ stored[s].numeric = LETTER_CUTOFFS[i][1] * Unit
                 /\ stored[s].letter = LETTER_CUTOFFS[i + 1][2]

EvidenceHonest(cl, stored) ==
    /\ EvidenceIsStored(cl, stored)
    /\ EvidenceAddsUp(cl)
    /\ OutliersPlausible(cl)
    /\ LettersFromTable(cl, stored)
=============================================================================
