----------------------------- MODULE RankingViews -----------------------------
(***************************************************************************)
(* What officers see of a term's ranking (undergraduate/ranking/router.py): *)
(* the rows of the latest run, and its totals and cut-offs.  A run that is *)
(* being written, or was cut short, is the latest one already.             *)
(***************************************************************************)
EXTENDS Ranking

get_ranking_results == {row \in results : row.run = LatestRun}

\* A seat nobody has in the latest run has no line among the programs, and a line
\* without a score among the streams.
get_ranking_summary(seat) ==
    LET held == {row \in get_ranking_results : row.seat = seat}
    IN  [assigned_count |-> Cardinality(held),
         cutoff_score   |-> IF held = {} THEN NoScore
                            ELSE Min({FinalScore(row.application, row.uat) : row \in held})]

-----------------------------------------------------------------------------
(* The list has one line for each applicant; the cut-off it adds up to is   *)
(* never below the one a program stores for its re-runs, and is that one   *)
(* when everybody ever ranked is on the list.                              *)
SummaryFits ==
    /\ Cardinality({row.application : row \in get_ranking_results})
         = Cardinality(get_ranking_results)
    /\ \A p \in Programs :
         LET shown == get_ranking_summary(p)
         IN  shown.assigned_count > 0 /\ cutoff[p] # NoScore =>
               /\ shown.cutoff_score >= cutoff[p]
               /\ {row.application : row \in results}
                    = {row.application : row \in get_ranking_results}
                  => shown.cutoff_score = cutoff[p]

(* No run is unfair to anyone, and what is published says so.              *)
PublishedFairly == RankedFairly /\ SummaryFits
=============================================================================
