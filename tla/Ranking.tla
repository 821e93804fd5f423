------------------------------- MODULE Ranking -------------------------------
(***************************************************************************)
(* Ranking runs over the applicants of one admission term                  *)
(* (undergraduate/ranking/router.py, ranking/service.py and                *)
(* agents/ranking_agent.py).                                               *)
(*                                                                         *)
(* A run loads the applications that have completed their test, numbers    *)
(* itself, merges everybody ranked before, ranks the lot and gives seats:  *)
(* the first run greedily within capacities, a later run by the cut-offs   *)
(* of the earliest run that filled the seat.  It then commits once for     *)
(* each new applicant, in the order of the ranking, and once at the end.   *)
(* It may stop anywhere; rows added since the last commit are lost.        *)
(*                                                                         *)
(*   idle -> loaded -> numbered -> merged -> persisting -> idle            *)
(*                                                                         *)
(* A seat is a program (self-sponsored applicants, up to three choices) or *)
(* a stream (government-sponsored ones, their own).  Scores are hundredths.*)
(***************************************************************************)
EXTENDS Integers, Sequences, SequencesExt, FiniteSets, FiniteSetsExt

CONSTANTS
    Applicants,
    Programs, Streams,   \* the seats
    NoSeat,
    Preference,      \* the choices of each applicant that are set, best first
    Capacity,        \* max_capacity of a program, quota of a stream
    Grade12,         \* the MoE total of each applicant
    UATScores,       \* the test scores that may come in
    Rankers,         \* slots for ranking requests
    MaxRuns          \* bound for TLC

Seats == Programs \cup Streams
NoScore == -1

ASSUME RankingAssumption ==
    /\ IsFiniteSet(Applicants)
    /\ NoSeat \notin Seats
    /\ Programs \cap Streams = {}
    /\ Preference \in [Applicants -> Seq(Seats)]
    /\ \A a \in Applicants :
          \/ \A i \in DOMAIN Preference[a] : Preference[a][i] \in Programs
          \/ Len(Preference[a]) = 1 /\ Preference[a][1] \in Streams
    /\ Capacity \in [Seats -> Nat]
    /\ Grade12 \in [Applicants -> 0..600]
    /\ UATScores \subseteq 0..100
    /\ MaxRuns \in Nat

VARIABLES
    status,      \* current_status of each application
    uat,         \* the completed UAT record of each applicant, or NoScore
    results,     \* ranking_results
    cutoff,      \* academic_programs.cut_off_score, or NoScore
    ranker       \* the ranking request each slot is serving

rankVars == <<status, uat, results, cutoff, ranker>>

Status == {"UAT_PENDING", "UAT_COMPLETED", "PENDING_REVIEW", "DECIDED", "ENROLLED"}

Row == [application : Applicants, run : Nat, uat : UATScores, rank : Nat,
        seat : Seats \cup {NoSeat}]

Government(a) == \E i \in DOMAIN Preference[a] : Preference[a][i] \in Streams

Idle == [at |-> "idle", number |-> 0, fresh |-> {}, scores |-> <<>>,
         locked |-> <<>>, seen |-> <<>>, plan |-> <<>>, done |-> 0]

RankInit ==
    /\ status = [a \in Applicants |-> "UAT_PENDING"]
    /\ uat = [a \in Applicants |-> NoScore]
    /\ results = {}
    /\ cutoff = [p \in Programs |-> NoScore]
    /\ ranker = [r \in Rankers |-> Idle]

-----------------------------------------------------------------------------
(* Scores and order.                                                       *)

\* round((grade12 / 600) * 50 + (uat / 100) * 50, 2), in hundredths.
FinalScore(a, score) == (25 * Grade12[a] + 150 * score + 1) \div 3

\* a ranks before b or ties with it: final score, then the test score.
Before(a, b, scores) ==
    LET x == FinalScore(a, scores[a])
        y == FinalScore(b, scores[b])
    IN  x > y \/ (x = y /\ scores[a] >= scores[b])

\* The orders the sort may leave a category in; equals keep the order of the
\* query, which has no ORDER BY.
RankedByQuery(S, scores) == SetToSeqs(S)     \* mutant: not sorted
Ranked(S, scores) ==
    {order \in SetToSeqs(S) :
        \A i, j \in DOMAIN order : i < j => Before(order[i], order[j], scores)}

-----------------------------------------------------------------------------
(* Allocation.                                                             *)

\* The first choice of a that is open.
FirstOpen(a, open) ==
    LET hits == {i \in DOMAIN Preference[a] : Preference[a][i] \in open}
    IN  IF hits = {} THEN NoSeat ELSE Preference[a][Min(hits)]

\* The seats with capacity left once some have been given away.
OpenAlways(given) == {s \in Seats : Capacity[s] > 0}     \* mutant: remaining never shrinks
Open(given) ==
    {s \in Seats : Cardinality({i \in DOMAIN given : given[i] = s}) < Capacity[s]}

\* First run: in the order of the ranking, each takes the best seat left.
Allocation(order) ==
    LET given[i \in 0..Len(order)] ==
            IF i = 0 THEN <<>>
            ELSE Append(given[i - 1], FirstOpen(order[i], Open(given[i - 1])))
    IN  given[Len(order)]

\* The lowest score of the earliest run before number that gave the seat away.
Cutoff(seat, number) ==
    LET given == {r \in results : r.seat = seat /\ r.run < number}
        first == {r \in given : \A q \in given : r.run <= q.run}
    IN  IF given = {} THEN NoScore
        ELSE Min({FinalScore(r.application, r.uat) : r \in first})

\* Later runs: the seats whose floor the score reaches, or that have none.
ReachesAny(score, number) == Seats     \* mutant: the floor is not looked at
Reaches(score, number) ==
    {s \in Seats : Cutoff(s, number) = NoScore \/ score >= Cutoff(s, number)}

-----------------------------------------------------------------------------
(* The steps of a run.                                                     *)

\* The testing centre records a result (all of it in Admission).  An application
\* that is already past the test keeps its status, and the score is recorded.
CompleteUAT(a) ==
    /\ uat[a] = NoScore
    /\ \E score \in UATScores : uat' = [uat EXCEPT ![a] = score]
    /\ status' = [status EXCEPT ![a] = IF @ = "UAT_PENDING" THEN "UAT_COMPLETED" ELSE @]
    /\ UNCHANGED <<results, cutoff, ranker>>

LatestRun == Max({0} \cup {r.run : r \in results})

Busy(r, at) == ranker[r].at = at

\* Whoever has no score is skipped; there must be somebody, skipped or not.
RunLoad(r) ==
    LET waiting == {a \in Applicants : status[a] = "UAT_COMPLETED"}
        fresh   == {a \in waiting : uat[a] # NoScore}
    IN  /\ Busy(r, "idle")
        /\ LatestRun < MaxRuns
        /\ waiting # {}
        /\ ranker' = [ranker EXCEPT ![r] =
               [Idle EXCEPT !.at = "loaded", !.fresh = fresh, !.seen = cutoff,
                            !.scores = [a \in fresh |-> uat[a]]]]
        /\ UNCHANGED <<status, uat, results, cutoff>>

RunNumber(r) ==
    /\ Busy(r, "loaded")
    /\ ranker' = [ranker EXCEPT ![r].at = "numbered", ![r].number = LatestRun + 1]
    /\ UNCHANGED <<status, uat, results, cutoff>>

\* The rows of the latest run that ranked a.
LatestRows(a) ==
    {r \in results : /\ r.application = a
                     /\ \A q \in results : q.application = a => q.run <= r.run}

\* A re-run takes in everybody ranked before, with the scores and the seat of
\* their latest row.  A run with nobody to rank is refused.
RunMergeForgetful(r) ==     \* mutant: prior seats are not carried over
    LET prior == {a \in Applicants \ ranker[r].fresh : LatestRows(a) # {}}
    IN  /\ Busy(r, "numbered")
        /\ ranker[r].fresh \cup prior # {}
        /\ ranker' = [ranker EXCEPT ![r].at = "merged",
               ![r].scores = [a \in ranker[r].fresh \cup prior |->
                   IF a \in prior THEN uat[a] ELSE ranker[r].scores[a]],
               ![r].locked = <<>>]
        /\ UNCHANGED <<status, uat, results, cutoff>>
RunMerge(r) ==
    LET prior == IF ranker[r].number = 1 THEN {}
                 ELSE {a \in Applicants \ ranker[r].fresh : LatestRows(a) # {}}
    IN  /\ Busy(r, "numbered")
        /\ ranker[r].fresh \cup prior # {}
        /\ \E row \in [prior -> results] :
              /\ \A a \in prior : row[a] \in LatestRows(a)
              /\ ranker' = [ranker EXCEPT ![r].at = "merged",
                     ![r].scores = [a \in ranker[r].fresh \cup prior |->
                         IF a \in prior THEN row[a].uat ELSE ranker[r].scores[a]],
                     ![r].locked = [a \in prior |-> row[a].seat]]
        /\ UNCHANGED <<status, uat, results, cutoff>>

\* Rank, allocate, and in a re-run replace the allocation by the cut-offs and
\* the locked seats.
RunAssign(r) ==
    LET run    == ranker[r]
        all    == DOMAIN run.scores
        Seat(a, given) ==
            IF run.number = 1 THEN given
            ELSE IF a \in DOMAIN run.locked THEN run.locked[a]
            ELSE FirstOpen(a, Reaches(FinalScore(a, run.scores[a]), run.number))
    IN  /\ Busy(r, "merged")
        /\ \E self \in Ranked({a \in all : ~Government(a)}, run.scores),
              gov  \in Ranked({a \in all : Government(a)}, run.scores) :
             LET order == self \o gov
                 given == Allocation(order)
             IN  ranker' = [ranker EXCEPT ![r].at = "persisting",
                     ![r].plan = [i \in DOMAIN order |->
                         [application |-> order[i], run |-> run.number,
                          uat |-> run.scores[order[i]],
                          rank |-> IF i <= Len(self) THEN i ELSE i - Len(self),
                          seat |-> Seat(order[i], given[i])]]]
        /\ UNCHANGED <<status, uat, results, cutoff>>

\* The new applicants of the plan that are still to be written.
Fresh(r) == {i \in DOMAIN ranker[r].plan :
                i > ranker[r].done /\ ranker[r].plan[i].application \in ranker[r].fresh}

\* The next new applicant: change_status commits the rows added up to here and
\* the status, checked against the one the request loaded.
RunPersist(r) ==
    /\ Busy(r, "persisting")
    /\ \E next \in Fresh(r) :
          /\ \A i \in Fresh(r) : next <= i
          /\ results' = results \cup {ranker[r].plan[i] : i \in 1..next}
          /\ status' = [status EXCEPT ![ranker[r].plan[next].application] = "PENDING_REVIEW"]
          /\ ranker' = [ranker EXCEPT ![r].done = next]
    /\ UNCHANGED <<uat, cutoff>>

\* The lowest score among those whose seat is p, prior ones included.
NewCutoff(r, p) ==
    LET held == {i \in DOMAIN ranker[r].plan : ranker[r].plan[i].seat = p}
    IN  IF held = {} THEN ranker[r].seen[p]
        ELSE Min({FinalScore(ranker[r].plan[i].application, ranker[r].plan[i].uat) : i \in held})

\* The last commit: the rows still pending and the programs' cut-offs.
RunFinish(r) ==
    /\ Busy(r, "persisting") /\ Fresh(r) = {}
    /\ results' = results \cup ToSet(ranker[r].plan)
    /\ cutoff' = [p \in Programs |->
           IF NewCutoff(r, p) = ranker[r].seen[p] THEN cutoff[p] ELSE NewCutoff(r, p)]
    /\ ranker' = [ranker EXCEPT ![r] = Idle]
    /\ UNCHANGED <<status, uat>>

\* The request fails or the process stops: what is not committed is lost.
RunFails(r) ==
    /\ ~Busy(r, "idle")
    /\ ranker' = [ranker EXCEPT ![r] = Idle]
    /\ UNCHANGED <<status, uat, results, cutoff>>

RankNext ==
    \/ \E a \in Applicants : CompleteUAT(a)
    \/ \E r \in Rankers :
          \/ RunLoad(r)    \/ RunNumber(r)  \/ RunMerge(r) \/ RunAssign(r)
          \/ RunPersist(r) \/ RunFinish(r)  \/ RunFails(r)

-----------------------------------------------------------------------------
(* Properties: with one ranking request at a time, wherever runs stop.     *)

RowScore(row) == FinalScore(row.application, row.uat)

\* An applicant's seat is the same in every row any run writes.
SeatStands ==
    \A row, other \in results :
        row.application = other.application => row.seat = other.seat

\* Nobody holds a seat that somebody with a higher score would have preferred
\* to their own: by rank in the first run, by the locked floors later.
Prefers(a, seat, to) ==
    \E i \in DOMAIN Preference[a] :
        /\ Preference[a][i] = seat
        /\ \A j \in 1..i : Preference[a][j] # to
NoEnvy ==
    \A row, other \in results :
        Prefers(row.application, other.seat, row.seat) => RowScore(other) >= RowScore(row)

\* What the first run gives away fits the capacities, wherever it stops.
FirstRunFits ==
    \A s \in Seats :
        Cardinality({row \in results : row.run = 1 /\ row.seat = s}) <= Capacity[s]

(* No run is unfair to anyone: seats follow the scores, and the first run   *)
(* stays within the capacities, also when it is cut short or overlaps one. *)
RankedFairly == NoEnvy /\ FirstRunFits

\* Once published, a program's cut-off never moves, however many re-runs follow.
CutoffStands ==
    [][\A p \in Programs : cutoff[p] # NoScore => cutoff'[p] = cutoff[p]]_rankVars
=============================================================================
