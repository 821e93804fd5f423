------------------------------ MODULE GradeViews ------------------------------
(***************************************************************************)
(* What the instructor and the department head are shown of a section's    *)
(* batch: the batch view, the department head's queue and review packet,   *)
(* the agent's history, and the queue of exceptions.  The views rebuild    *)
(* from the live roster and the score matrix what a submission has stored. *)
(***************************************************************************)
EXTENDS GradeBatch, FiniteSets

Pending == {"SUBMITTED", "FLAGGED", "AI_UNAVAILABLE"}

\* The students of the batch view, and whether their row is complete.
batch_response(sec) == [st \in roster[sec] |-> scores[sec][st] \in Totals]

\* _compute_per_student_for_dh: the rows that are not complete are left out.
per_student_grades(sec) ==
    [st \in {st \in roster[sec] : scores[sec][st] \in Totals} |->
        letter_for_numeric(scores[sec][st])]

\* A finite set in an order, given as pairs: the n-th has n - 1 before it.
InOrder(S, before) ==
    [n \in 1..Cardinality(S) |->
        CHOOSE i \in S : Cardinality({j \in S : <<j, i>> \in before}) = n - 1]

\* The runs of the agent on a batch: by iteration, then the newest first.
ReviewsOf(sec) == {i \in DOMAIN reviews : reviews[i].section = sec}
NewerRuns(sec) ==
    {w \in ReviewsOf(sec) \X ReviewsOf(sec) :
        \/ reviews[w[1]].iteration > reviews[w[2]].iteration
        \/ reviews[w[1]].iteration = reviews[w[2]].iteration /\ w[1] > w[2]}
list_agent_reviews(sec) ==
    LET order == InOrder(ReviewsOf(sec), NewerRuns(sec))
    IN  [n \in DOMAIN order |-> reviews[order[n]]]

\* The decisions on a batch, the newest first.
DecisionsOf(sec) == {i \in DOMAIN decisions : decisions[i].section = sec}
list_decisions(sec) ==
    LET order == InOrder(DecisionsOf(sec),
                         {w \in DecisionsOf(sec) \X DecisionsOf(sec) : w[1] > w[2]})
    IN  [n \in DOMAIN order |-> decisions[order[n]]]

get_review_packet(sec) ==
    [batch |-> batch_response(sec), per_student_grades |-> per_student_grades(sec),
     agent_reviews |-> list_agent_reviews(sec), decisions |-> list_decisions(sec)]

\* The batches that wait for the department head, each with its last run.
list_queue == {sec \in Sections : batch[sec].status \in Pending}
queue_entry(sec) ==
    LET runs == list_agent_reviews(sec)
    IN  [status |-> batch[sec].status, iteration |-> batch[sec].iteration,
         latest_agent_verdict |-> IF runs = <<>> THEN "PENDING" ELSE runs[1].verdict,
         roster_total |-> Cardinality(roster[sec])]

\* The batches in the queue of exceptions.
grading_exceptions == {sec \in Sections : batch[sec].status = "FLAGGED"}

-----------------------------------------------------------------------------
(* Properties.                                                             *)

\* The packet a department head decides on is what the decision moves: the letters
\* rebuilt from the matrix are those of the section's Grade rows, student by
\* student, no row of the batch view is incomplete.
PacketFits ==
    \A sec \in Sections : batch[sec].status \notin {"NONE", "DRAFT"} =>
        LET packet == get_review_packet(sec)
        IN  /\ packet.per_student_grades =
                   [st \in {st \in Students : HasGrade(st) /\ grades[st].section = sec} |->
                       grades[st].letter]
            /\ \A st \in DOMAIN packet.batch : packet.batch[st]

\* A batch in the queue shows the verdict that put it there, and the department
\* head can act on it: a decision when the agent has answered, a rerun when not.
\* Whatever the queue of exceptions lists is in that queue.
QueueFits ==
    /\ grading_exceptions \subseteq list_queue
    /\ \A sec \in Sections :
          LET entry == queue_entry(sec)
              runs  == list_agent_reviews(sec)
          IN  /\ sec \in list_queue =>
                    /\ runs # <<>> /\ runs[1] = LastOf(reviews, sec)
                    /\ entry.status = StatusFor(entry.latest_agent_verdict)
                    /\ Reviewable(sec) <=> entry.latest_agent_verdict # "PENDING"
              /\ \A i \in DOMAIN list_decisions(sec) :
                    \E j \in DOMAIN runs :
                       /\ runs[j].iteration = list_decisions(sec)[i].iteration
                       /\ runs[j].verdict = VerdictBehind(list_decisions(sec)[i].decision)
=============================================================================
