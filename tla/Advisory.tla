------------------------------- MODULE Advisory -------------------------------
(***************************************************************************)
(* The academic advisor of one student (AdvisoryService in service.py and  *)
(* agents/academic_advisory_agent.py): the rule engine over a plan the     *)
(* caller describes, the consultation of the language model over what the  *)
(* server reads, and the officer's review of high-risk verdicts.           *)
(*                                                                         *)
(* A consultation is a session of its own: the registration, the ledger    *)
(* and the earlier attempts are read by separate statements (READ          *)
(* COMMITTED), then the model is awaited, and one row is stored at the     *)
(* end, or none.  A course stands for its code.                            *)
(***************************************************************************)
EXTENDS Ledger, Sequences

CONSTANTS
    Department,        \* of each course
    Home,              \* the student's department
    Semester,          \* curriculum semester of each course
    CurrentSemester,   \* of the student; nothing changes it
    Invented,          \* codes a language model may name and no catalog has
    Answers,           \* what the language model may answer
    Asked,             \* what a caller of evaluate may state: cgpa in hundredths,
                       \* proposed and completed courses
    Requests,          \* consultation slots: one slot is a serial system
    Reviews,           \* review slots of the officers, none of them 0
    MaxRows            \* bound for TLC: stored advice

AnyRisk == {"LOW", "MEDIUM", "HIGH"}
AnyMode == {"PRE_REGISTRATION", "REGISTRATION_PLAN", "ADD_DROP"}

ASSUME AdvisoryAssumption ==
    /\ DOMAIN Department = Courses
    /\ Semester \in [Courses -> Nat]
    /\ CurrentSemester \in Nat
    /\ 0 \notin Reviews
    /\ Answers \subseteq [risk : AnyRisk \cup {"absent"}, codes : SUBSET (Courses \cup Invented)]

Curriculum == {c \in Courses : Department[c] = Home}

VARIABLES
    plan,         \* the registration of the open term: none, draft or active
    link,         \* its registration_courses row of each course
    attempts,     \* the courses dropped from earlier registrations
    advice,       \* advisory_recommendations, in insertion order
    request,      \* the consultation each slot is serving
    review        \* the review each officer has open: the row read, or 0

advisory == <<ledger, plan, link, attempts, advice, request, review>>
academic == <<ledger, plan, link, attempts>>

NoRequest == [at |-> "idle", mode |-> "none", base |-> {}, add |-> {}, drop |-> {},
              done |-> {}, cgpa |-> NoGPA, failed |-> {}, dropped |-> {}]

AdviceRow ==
    [mode : AnyMode \cup {"EVALUATE"}, risk : AnyRisk, recommended : SUBSET Courses,
     filtered : SUBSET (Courses \cup Invented), requires_officer_review : BOOLEAN,
     reviewed_by : Reviews \cup {0}]

Question ==
    [at : {"idle", "resolved", "history", "asked"}, mode : AnyMode \cup {"none"},
     base : SUBSET Courses, add : SUBSET Courses, drop : SUBSET Courses,
     done : SUBSET Courses, cgpa : Nat \cup {NoGPA},
     failed : SUBSET Courses, dropped : SUBSET Courses]

AdvisoryTypeOK ==
    /\ ledger \in Ledgers
    /\ plan \in {"none", "draft", "active"}
    /\ link \in [Courses -> {"none", "active", "dropped"}]
    /\ attempts \in SUBSET Courses
    /\ advice \in Seq(AdviceRow)
    /\ request \in [Requests -> Question]
    /\ review \in [Reviews -> {0} \cup DOMAIN advice]

AdvisoryInit ==
    /\ ledger = NoGrades
    /\ plan = "none"
    /\ link = [c \in Courses |-> "none"]
    /\ attempts \in SUBSET Courses
    /\ advice = <<>>
    /\ request = [r \in Requests |-> NoRequest]
    /\ review = [o \in Reviews |-> 0]

-----------------------------------------------------------------------------
(* evaluate_plan: the rule engine, over what the caller states.            *)

HIGH_RISK_CGPA_BELOW     == 200
MEDIUM_RISK_CGPA_BELOW   == 275
HIGH_LOAD_THRESHOLD_ECTS == 18

flag_risk_level(cgpa, total_credits) ==
    CASE cgpa < HIGH_RISK_CGPA_BELOW -> "HIGH"
      [] cgpa \in HIGH_RISK_CGPA_BELOW..(MEDIUM_RISK_CGPA_BELOW - 1) ->
            IF total_credits >= HIGH_LOAD_THRESHOLD_ECTS THEN "HIGH" ELSE "MEDIUM"
      [] OTHER -> IF total_credits >= HIGH_LOAD_THRESHOLD_ECTS THEN "MEDIUM" ELSE "LOW"

approve_course_load(risk) == risk # "HIGH"

\* The department is that of the first course proposed, or of any course.
resolve_department(proposed) ==
    {Department[c] : c \in IF proposed = {} THEN Courses ELSE proposed}

\* Recommended next: up to a semester ahead, of both halves of the year.
provide_academic_guidance(department, done) ==
    {c \in Courses : Department[c] = department /\ Semester[c] <= CurrentSemester + 1} \ done

Recommendation(mode, risk, recommended, filtered, escalated) ==
    [mode |-> mode, risk |-> risk, recommended |-> recommended, filtered |-> filtered,
     requires_officer_review |-> escalated, reviewed_by |-> 0]

\* process_task and the insert.  The narrative of the language model, or the
\* rules' own text when it does not answer, decides nothing.
evaluate_plan(asked) ==
    LET risk == flag_risk_level(asked.cgpa, CreditSum(asked.proposed))
    IN  /\ Len(advice) < MaxRows
        /\ \E department \in resolve_department(asked.proposed) :
              advice' = Append(advice,
                  Recommendation("EVALUATE", risk,
                                 provide_academic_guidance(department, asked.done), {},
                                 ~approve_course_load(risk)))
        /\ UNCHANGED <<academic, request, review>>

-----------------------------------------------------------------------------
(* The three consultations.                                                *)

Active == {c \in Courses : link[c] = "active"}

\* _resolve_student_and_open_term, and the registration the mode is about.
Consult(r, mode, base, add, drop) ==
    /\ request[r].at = "idle"
    /\ Len(advice) < MaxRows
    /\ request' = [request EXCEPT ![r] =
           [NoRequest EXCEPT !.at = "resolved", !.mode = mode, !.base = base,
                             !.add = add, !.drop = drop]]
    /\ UNCHANGED <<academic, advice, review>>

consult_pre_registration(r) == Consult(r, "PRE_REGISTRATION", {}, {}, {})

consult_registration_plan(r) ==
    /\ plan = "draft"
    /\ Consult(r, "REGISTRATION_PLAN", Active, {}, {})

\* What the student asks to add or drop is not checked against anything.
consult_add_drop(r) ==
    /\ plan = "active"
    /\ request[r].at = "idle"
    /\ \E add, drop \in SUBSET Courses : Consult(r, "ADD_DROP", Active, add, drop)

resolve_academic_history(r) ==
    /\ request[r].at = "resolved"
    /\ request' = [request EXCEPT ![r].at = "history",
                                  ![r].cgpa = compute_cgpa(ledger),
                                  ![r].done = completed_course_ids(ledger)]
    /\ UNCHANGED <<academic, advice, review>>

failed_course_ids == {g[2] : g \in {g \in Terms \X Courses : ledger[g[1]][g[2]] = "F"}}

dropped_course_ids == attempts \cup {c \in Courses : link[c] = "dropped"}

\* The attempts, and the question to the model.
ask_consult(r) ==
    /\ request[r].at = "history"
    /\ request' = [request EXCEPT ![r].at = "asked",
                                  ![r].failed = failed_course_ids,
                                  ![r].dropped = dropped_course_ids]
    /\ UNCHANGED <<academic, advice, review>>

-----------------------------------------------------------------------------
(* What the question holds: the courses the model is to choose from.       *)

InParity(c) == Semester[c] % 2 = CurrentSemester % 2

already_covered(q) == (q.base \cup q.add) \ q.drop
effective_codes(q) == ((q.base \ q.drop) \cup q.add) \cap Curriculum

\* Outstanding, taught in this half of the year, and not covered yet.
Open(q) == {c \in Curriculum \ q.done : InParity(c)} \ already_covered(q)

failed_retakes(q)  == Open(q) \cap q.failed
dropped_retakes_of_failed(q) == Open(q) \cap q.dropped     \* mutant: failed ones too
dropped_retakes(q) == (Open(q) \cap q.dropped) \ q.failed
never_attempted(q) == Open(q) \ (q.failed \cup q.dropped)

\* The part of the question the model must choose from, next to the plan the
\* student would end up with.
consultation_payload(q) ==
    [retake |-> failed_retakes(q), again |-> dropped_retakes(q), first |-> never_attempted(q),
     effective |-> effective_codes(q)]

-----------------------------------------------------------------------------
(* The answer.                                                             *)

\* Codes already passed, not of the curriculum, or of the other half are
\* stripped, and listed.
kept_known(q, codes) ==      \* mutant: a passed course may stay
    {c \in codes \cap Curriculum : InParity(c)}
kept(q, codes) == {c \in (codes \cap Curriculum) \ q.done : InParity(c)}

postprocess_consultation(q, answer) ==
    Recommendation(q.mode, IF answer.risk \in AnyRisk THEN answer.risk ELSE "MEDIUM",
                   kept(q, answer.codes), answer.codes \ kept(q, answer.codes), FALSE)

\* _run_consultation stores the verdict; no consultation is ever escalated.
store_consultation(r, answer) ==
    /\ request[r].at = "asked"
    /\ advice' = Append(advice, postprocess_consultation(request[r], answer))
    /\ request' = [request EXCEPT ![r] = NoRequest]
    /\ UNCHANGED <<academic, review>>

\* No key, a timeout, an API error, an empty or malformed answer: 503, no row.
llm_unavailable(r) ==
    /\ request[r].at = "asked"
    /\ request' = [request EXCEPT ![r] = NoRequest]
    /\ UNCHANGED <<academic, advice, review>>

-----------------------------------------------------------------------------
(* The officers.                                                           *)

list_high_risk_open ==
    {i \in DOMAIN advice : /\ advice[i].risk = "HIGH"
                           /\ advice[i].requires_officer_review
                           /\ advice[i].reviewed_by = 0}

\* The advisory part of the officers' queue of exceptions, a query of its own.
load_advisory ==
    {i \in DOMAIN advice : advice[i].requires_officer_review /\ advice[i].reviewed_by = 0}

\* close_officer_review reads the row, which it takes by id from wherever.
ReviewableTwice(row) == TRUE             \* mutant: no look at reviewed_at
Reviewable(row) == row.reviewed_by = 0

CloseLoad(o, i) ==
    /\ review[o] = 0
    /\ Reviewable(advice[i])
    /\ review' = [review EXCEPT ![o] = i]
    /\ UNCHANGED <<academic, advice, request>>

CloseCommit(o) ==
    /\ review[o] # 0
    /\ advice' = [advice EXCEPT ![review[o]].reviewed_by = o]
    /\ review' = [review EXCEPT ![o] = 0]
    /\ UNCHANGED <<academic, request>>

-----------------------------------------------------------------------------
AdvisoryNext ==
    \/ \E asked \in Asked : evaluate_plan(asked)
    \/ \E r \in Requests :
          \/ consult_pre_registration(r)
          \/ consult_registration_plan(r)
          \/ consult_add_drop(r)
          \/ resolve_academic_history(r)
          \/ ask_consult(r)
          \/ \E answer \in Answers : store_consultation(r, answer)
          \/ llm_unavailable(r)
    \/ \E o \in Reviews :
          \/ \E i \in DOMAIN advice : CloseLoad(o, i)
          \/ CloseCommit(o)

-----------------------------------------------------------------------------
(* Properties.                                                             *)

\* A new consultation recommends no course the student has passed, in any term,
\* none of another department and none of the other half, and what the model
\* said is all on record, recommended or filtered.
AdviceSound ==
    \A i \in DOMAIN advice' \ DOMAIN advice : advice'[i].mode # "EVALUATE" =>
        /\ \A c \in advice'[i].recommended :
              /\ c \in Curriculum /\ InParity(c)
              /\ \A t \in Terms : ~is_passing(ledger'[t][c])
        /\ \E answer \in Answers : answer.codes = advice'[i].recommended \cup advice'[i].filtered

\* A review, once closed, is its officer's for good, a verdict leaves the queue
\* of the officers only by such a review, and the queue of exceptions, which does
\* not ask for the risk, has the same verdicts.
ReviewStands ==
    /\ load_advisory' = list_high_risk_open'
    /\ \A i \in DOMAIN advice : advice[i].reviewed_by # 0 =>
          advice'[i].reviewed_by = advice[i].reviewed_by
    /\ \A i \in list_high_risk_open \ list_high_risk_open' : advice'[i].reviewed_by # 0
=============================================================================
