--------------------------- MODULE EnrollmentProofs ----------------------------
(***************************************************************************)
(* Theorems about ranking and enrolment, for any applicants, seats,        *)
(* capacities and scores, any number of enrolment requests, and any number *)
(* of ranking runs, one at a time.                                         *)
(***************************************************************************)
EXTENDS Enrollment, RankingViews, FiniteSetTheorems, SequenceTheorems, WellFoundedInduction, TLAPS

-----------------------------------------------------------------------------
(* The inductive invariant.                                                *)

\* The hypothesis: one slot takes all ranking requests.
OneRanker == \A r, s \in Rankers : r = s

Advanced == {"PENDING_REVIEW", "DECIDED", "ENROLLED"}
Numbered == {"numbered", "merged", "persisting"}
Item     == [application : Applicants, number : Nat, program : Programs \cup {NoSeat}]
EnrollerState ==
  [at : {"idle", "loaded", "enrolling", "onboarding", "minting"},
   since : Nat, todo : Seq(Item), poisoned : BOOLEAN]

\* The result holds a seat that some row already gives to its applicant.
Backed(result) ==
  \E row \in results : row.application = result.application /\ row.seat = result.seat

\* Not ranked yet: only an application that is moved by hand may be past the test.
Unranked(a) ==
  /\ a \in ByHand \/ status[a] = "UAT_COMPLETED"
  /\ \A row \in results : row.application # a

StatusType == status \in [Applicants -> Status]

\* An application has rows exactly from the moment its ranking is committed,
\* unless it was moved on by hand.
RowsAdvanced ==
  \A row \in results :
    /\ row.application \in Applicants
    /\ row.run \in Nat \ {0}
    /\ status[row.application] \in Advanced
AdvancedRows ==
  \A a \in Applicants \ ByHand : status[a] \in Advanced =>
    \E row \in results : row.application = a

RunsBounded == \E n \in Nat : \A row \in results : row.run <= n

\* What a ranking request remembers, as long as it is the only one.
RankerShape ==
  /\ ranker = [r \in Rankers |-> ranker[r]]
  /\ \A r \in Rankers :
       /\ DOMAIN ranker[r] = {"at", "number", "fresh", "scores", "locked",
                              "seen", "plan", "done"}
       /\ ranker[r].at \in {"idle", "loaded"} \cup Numbered
       /\ ranker[r].fresh \subseteq Applicants
       /\ ranker[r].at \in Numbered => ranker[r].number \in Nat \ {0}
       /\ ranker[r].at # "persisting" => ranker[r].done = 0
FreshWaits ==
  \A r \in Rankers : ranker[r].at \in {"loaded", "numbered", "merged"} =>
    \A a \in ranker[r].fresh : Unranked(a)
FirstIsFirst ==
  \A r \in Rankers : ranker[r].at = "numbered" /\ ranker[r].number = 1 => results = {}
MergeBacked ==
  \A r \in Rankers : ranker[r].at = "merged" =>
    /\ DOMAIN ranker[r].scores = ranker[r].fresh \cup DOMAIN ranker[r].locked
    /\ ranker[r].number = 1 => DOMAIN ranker[r].locked = {}
    /\ \A a \in DOMAIN ranker[r].locked :
         \E row \in results : row.application = a /\ row.seat = ranker[r].locked[a]
PlanShape ==
  \A r \in Rankers : ranker[r].at = "persisting" =>
    /\ ranker[r].done \in Nat
    /\ \E n \in Nat : DOMAIN ranker[r].plan = 1..n
    /\ \A i \in DOMAIN ranker[r].plan :
         /\ ranker[r].plan[i].application \in Applicants
         /\ ranker[r].plan[i].run = ranker[r].number
    /\ \A i, j \in DOMAIN ranker[r].plan :
         ranker[r].plan[i].application = ranker[r].plan[j].application => i = j
PlanBacked ==
  \A r \in Rankers : ranker[r].at = "persisting" =>
    \A i \in DOMAIN ranker[r].plan :
      IF i \in Fresh(r)
      THEN Unranked(ranker[r].plan[i].application)
      ELSE Backed(ranker[r].plan[i])

RankInv ==
  /\ StatusType
  /\ RowsAdvanced
  /\ AdvancedRows
  /\ RunsBounded
  /\ RankerShape
  /\ FreshWaits
  /\ FirstIsFirst
  /\ MergeBacked
  /\ PlanShape
  /\ PlanBacked
  /\ SeatStands

EnrollTypes ==
  /\ final \in [Applicants -> {"NONE", "ADMIT", "REJECT"}]
  /\ enrollments \subseteq EnrollmentRow
  /\ students \subseteq StudentRow
  /\ clock \in Nat
  /\ enroller \in [Enrollers -> EnrollerState]

\* The program is the one every row gives, or there was no row to take it from.
RankedAs(a, program) ==
  /\ program = NoSeat \/ \E result \in results : result.application = a
  /\ \A result \in results : result.application = a =>
       \/ program = ProgramOf(result.seat)
       \/ a \in ByHand /\ program = NoSeat

\* Whoever is on an enrolment run's list has been admitted and stays so.
TodoAdmitted ==
  \A e \in Enrollers : \A i \in DOMAIN enroller[e].todo :
    /\ final[enroller[e].todo[i].application] = "ADMIT"
    /\ \/ enroller[e].todo[i].application \in ByHand
       \/ status[enroller[e].todo[i].application] \in {"DECIDED", "ENROLLED"}
TodoRanked ==
  \A e \in Enrollers : enroller[e].at \in {"enrolling", "onboarding", "minting"} =>
    \A i \in DOMAIN enroller[e].todo :
      RankedAs(enroller[e].todo[i].application, enroller[e].todo[i].program)
EnrollmentsRanked ==
  \A row \in enrollments : RankedAs(row.application, row.program)
Minting ==
  \A e \in Enrollers : enroller[e].at \in {"onboarding", "minting"} =>
    /\ enroller[e].todo # <<>>
    /\ \E row \in enrollments : /\ row.application = Current(e).application
                                /\ row.number = Current(e).number

EnrollInv ==
  /\ EnrollTypes
  /\ TodoAdmitted
  /\ TodoRanked
  /\ Minting
  /\ EnrollmentsRanked
  /\ AdmittedIdentity

IInv == RankInv /\ EnrollInv

-----------------------------------------------------------------------------
(* Numbers, orders and rows.                                               *)

LEMMA Minimum ==
  ASSUME NEW S, S \subseteq Nat, S # {}
  PROVE  \E m \in S : \A x \in S : m <= x
<1>1. PICK m \in S : \A y \in S : ~ (<<y, m>> \in OpToRel(<, Nat))
  BY NatLessThanWellFounded, WFMin, Zenon
<1>2. \A y \in S : ~(y < m)
  BY <1>1 DEF OpToRel
<1> QED
  BY <1>2

LEMMA Maximum ==
  ASSUME NEW S, S \subseteq Nat, S # {}, NEW n \in Nat, \A x \in S : x <= n
  PROVE  \E m \in S : \A x \in S : x <= m
<1> DEFINE D == {n - x : x \in S}
<1>1. PICK d \in D : \A e \in D : d <= e
  <2>1. \A x \in S : n - x \in Nat
    OBVIOUS
  <2>2. D \subseteq Nat
    BY <2>1
  <2>3. D # {}
    OBVIOUS
  <2> HIDE DEF D
  <2> QED
    BY <2>2, <2>3, Minimum
<1>2. PICK m \in S : d = n - m
  BY <1>1
<1>3. \A x \in S : n - m <= n - x
  BY <1>1, <1>2
<1> QED
  BY <1>3

\* The orders of a finite set: each element once.
LEMMA Orders ==
  ASSUME NEW S, IsFiniteSet(S), NEW order \in SetToSeqs(S)
  PROVE  /\ order \in Seq(S)
         /\ DOMAIN order = 1..Len(order) /\ Len(order) \in Nat
         /\ \A i \in DOMAIN order : order[i] \in S
         /\ \A i, j \in DOMAIN order : order[i] = order[j] => i = j
<1>1. Cardinality(S) \in Nat
  BY FS_CardinalityType
<1>2. order \in [1..Cardinality(S) -> S]
  BY DEF SetToSeqs
<1>3. order \in Seq(S)
  BY <1>1, <1>2, SeqDef
<1>4. \A i, j \in DOMAIN order : order[i] = order[j] => i = j
  BY <1>2 DEF SetToSeqs
<1> QED
  BY <1>3, <1>4

\* Whoever has a row has a latest one.
LEMMA LatestExists ==
  ASSUME RowsAdvanced, RunsBounded,
         NEW a, \E row \in results : row.application = a
  PROVE  LatestRows(a) # {}
<1> DEFINE own == {row \in results : row.application = a}
           S == {row.run : row \in own}
<1>1. PICK n \in Nat : \A row \in results : row.run <= n
  BY DEF RunsBounded
<1>2. S \subseteq Nat /\ S # {} /\ \A x \in S : x <= n
  BY <1>1 DEF RowsAdvanced
<1>3. PICK m \in S : \A x \in S : x <= m
  <2> HIDE DEF S
  <2> QED BY <1>2, Maximum
<1>4. PICK last \in own : last.run = m
  BY <1>3
<1>5. last \in LatestRows(a)
  BY <1>3, <1>4 DEF LatestRows
<1> QED
  BY <1>5

\* The number of the latest run is 0 iff there is no row at all.
LEMMA LatestRunType ==
  ASSUME RowsAdvanced, RunsBounded
  PROVE  LatestRun \in Nat /\ (LatestRun = 0 => results = {})
<1> DEFINE S == {0} \cup {row.run : row \in results}
<1>1. PICK n \in Nat : \A row \in results : row.run <= n
  BY DEF RunsBounded
<1>2. S \subseteq Nat /\ S # {} /\ \A x \in S : x <= n
  BY <1>1 DEF RowsAdvanced
<1>3. \E m \in S : \A x \in S : x <= m
  <2> HIDE DEF S
  <2> QED BY <1>2, Maximum
<1>4. LatestRun \in S /\ \A x \in S : x <= LatestRun
  <2>1. LatestRun = CHOOSE x \in S : \A y \in S : x >= y
    BY DEF LatestRun, Max
  <2>2. \E m \in S : \A y \in S : m >= y
    BY <1>2, <1>3
  <2> HIDE DEF S
  <2>3. LatestRun \in S /\ \A y \in S : LatestRun >= y
    BY <2>1, <2>2
  <2> QED BY <1>2, <2>3
<1>5. ASSUME LatestRun = 0, NEW row \in results PROVE FALSE
  BY <1>4, <1>5 DEF RowsAdvanced
<1> QED
  BY <1>2, <1>4, <1>5

-----------------------------------------------------------------------------
(* Ranking.                                                                *)

USE DEF Advanced, Numbered, Busy

LEMMA InitRank == Init => RankInv
<1> SUFFICES ASSUME Init PROVE RankInv
  OBVIOUS
<1> USE DEF Init, RankInit, Idle
<1>1. StatusType /\ RowsAdvanced /\ AdvancedRows /\ RunsBounded /\ SeatStands
  BY DEF StatusType, Status, RowsAdvanced, AdvancedRows, RunsBounded, SeatStands
<1>2. RankerShape /\ FreshWaits /\ FirstIsFirst /\ MergeBacked /\ PlanShape /\ PlanBacked
  BY DEF RankerShape, FreshWaits, FirstIsFirst, MergeBacked, PlanShape, PlanBacked
<1> QED
  BY <1>1, <1>2 DEF RankInv

\* Steps that write neither ranking rows nor the ranker, and move a status only
\* within the advanced ones, towards the test or by hand.
LEMMA RankingUntouched ==
  ASSUME RankInv, UNCHANGED <<results, ranker>>, StatusType',
         \A a \in Applicants :
           \/ status'[a] = status[a]
           \/ status[a] \in Advanced /\ status'[a] \in Advanced
           \/ status[a] = "UAT_PENDING" /\ status'[a] = "UAT_COMPLETED"
           \/ a \in ByHand /\ status[a] \notin Advanced
  PROVE  RankInv'
<1> USE DEF RankInv
<1>1. RowsAdvanced'
  BY DEF RowsAdvanced
<1>2. AdvancedRows'
  BY DEF AdvancedRows
<1>3. RunsBounded' /\ SeatStands' /\ FirstIsFirst' /\ MergeBacked' /\ PlanShape'
  BY DEF RunsBounded, SeatStands, FirstIsFirst, MergeBacked, PlanShape
<1>4. RankerShape'
  BY DEF RankerShape
<1>5. \A a \in Applicants : Unranked(a) => Unranked(a)'
  BY DEF Unranked
<1>6. FreshWaits'
  BY <1>5 DEF FreshWaits, RankerShape
<1>7. PlanBacked'
  <2>1. ASSUME NEW r \in Rankers, ranker[r].at = "persisting", NEW i \in DOMAIN ranker[r].plan
        PROVE  IF i \in Fresh(r) THEN Unranked(ranker[r].plan[i].application)'
               ELSE Backed(ranker[r].plan[i])
    BY <1>5, <2>1 DEF PlanBacked, PlanShape
  <2> QED
    BY <2>1 DEF PlanBacked, Fresh, Backed
<1> QED
  BY <1>1, <1>2, <1>3, <1>4, <1>6, <1>7

LEMMA CompleteUATRank ==
  ASSUME RankInv, NEW a \in Applicants, CompleteUAT(a)
  PROVE  RankInv'
<1>1. StatusType'
  BY DEF RankInv, StatusType, Status, CompleteUAT
<1> QED
  BY <1>1, RankingUntouched DEF CompleteUAT, RankInv, StatusType

\* Ranking steps that only change what their own request remembers.
LEMMA OnlyRanker ==
  ASSUME RankInv, UNCHANGED <<status, results>>,
         RankerShape', FreshWaits', FirstIsFirst', MergeBacked', PlanShape', PlanBacked'
  PROVE  RankInv'
BY DEF RankInv, StatusType, RowsAdvanced, AdvancedRows, RunsBounded, SeatStands

LEMMA RunFailsRank ==
  ASSUME RankInv, OneRanker, NEW r \in Rankers, RunFails(r)
  PROVE  RankInv'
<1>1. ranker' = [s \in Rankers |-> Idle]
  BY DEF OneRanker, RankInv, RankerShape, RunFails
<1>2. \A s \in Rankers : /\ ranker'[s].at = "idle" /\ ranker'[s].fresh = {}
                         /\ ranker'[s].done = 0
                         /\ DOMAIN ranker'[s] = {"at", "number", "fresh", "scores",
                                                 "locked", "seen", "plan", "done"}
  BY <1>1 DEF Idle
<1>3. RankerShape'
  BY <1>1, <1>2 DEF RankerShape
<1>4. FreshWaits' /\ FirstIsFirst'
  BY <1>2 DEF FreshWaits, FirstIsFirst
<1>5. MergeBacked' /\ PlanShape' /\ PlanBacked'
  BY <1>2 DEF MergeBacked, PlanShape, PlanBacked
<1> QED
  BY <1>3, <1>4, <1>5, OnlyRanker DEF RunFails

LEMMA RunLoadRank ==
  ASSUME RankInv, OneRanker, NEW r \in Rankers, RunLoad(r)
  PROVE  RankInv'
<1> DEFINE fresh == {a \in {b \in Applicants : status[b] = "UAT_COMPLETED"} : uat[a] # NoScore}
<1>1. \A s \in Rankers : /\ ranker'[s].at = "loaded" /\ ranker'[s].fresh = fresh
                         /\ ranker'[s].done = 0
                         /\ DOMAIN ranker'[s] = {"at", "number", "fresh", "scores",
                                                 "locked", "seen", "plan", "done"}
  BY DEF RunLoad, OneRanker, RankInv, RankerShape, Idle
<1>2. RankerShape'
  BY <1>1 DEF RankInv, RankerShape, RunLoad
<1>3. FreshWaits'
  <2>1. \A a \in fresh : Unranked(a)
    BY DEF Unranked, RankInv, RowsAdvanced
  <2> QED
    BY <1>1, <2>1 DEF FreshWaits, Unranked, RunLoad
<1>4. FirstIsFirst' /\ MergeBacked' /\ PlanShape' /\ PlanBacked'
  BY <1>1 DEF FirstIsFirst, MergeBacked, PlanShape, PlanBacked
<1> QED
  BY <1>2, <1>3, <1>4, OnlyRanker DEF RunLoad

LEMMA RunNumberRank ==
  ASSUME RankInv, OneRanker, NEW r \in Rankers, RunNumber(r)
  PROVE  RankInv'
<1>1. LatestRun \in Nat /\ (LatestRun = 0 => results = {})
  BY LatestRunType DEF RankInv
<1>2. \A s \in Rankers : /\ ranker'[s].at = "numbered" /\ ranker'[s].number = LatestRun + 1
                         /\ ranker'[s].fresh = ranker[r].fresh
                         /\ ranker'[s].done = ranker[r].done
                         /\ DOMAIN ranker'[s] = DOMAIN ranker[r]
  BY DEF RunNumber, OneRanker, RankInv, RankerShape
<1>3. RankerShape'
  <2>1. ranker[r].done = 0 /\ ranker[r].fresh \subseteq Applicants
    BY DEF RankInv, RankerShape, RunNumber
  <2> QED
    BY <1>1, <1>2, <2>1 DEF RankInv, RankerShape, RunNumber
<1>4. FreshWaits'
  BY <1>2 DEF RankInv, FreshWaits, Unranked, RunNumber
<1>5. FirstIsFirst'
  <2>1. UNCHANGED results
    BY DEF RunNumber
  <2>2. LatestRun + 1 = 1 => results = {}
    BY <1>1
  <2> QED
    BY <1>2, <2>1, <2>2 DEF FirstIsFirst
<1>6. MergeBacked' /\ PlanShape' /\ PlanBacked'
  BY <1>2 DEF MergeBacked, PlanShape, PlanBacked
<1> QED
  BY <1>3, <1>4, <1>5, <1>6, OnlyRanker DEF RunNumber

LEMMA RunMergeRank ==
  ASSUME RankInv, OneRanker, NEW r \in Rankers, RunMerge(r)
  PROVE  RankInv'
<1> DEFINE prior == IF ranker[r].number = 1 THEN {}
                    ELSE {a \in Applicants \ ranker[r].fresh : LatestRows(a) # {}}
<1>1. PICK row \in [prior -> results] :
        /\ \A a \in prior : row[a] \in LatestRows(a)
        /\ ranker' = [ranker EXCEPT ![r].at = "merged",
             ![r].scores = [a \in ranker[r].fresh \cup prior |->
                 IF a \in prior THEN row[a].uat ELSE ranker[r].scores[a]],
             ![r].locked = [a \in prior |-> row[a].seat]]
  BY Zenon DEF RunMerge
<1>2. /\ ranker[r].at = "numbered" /\ UNCHANGED <<status, results>>
      /\ prior \subseteq Applicants
  BY DEF RunMerge
<1> HIDE DEF prior
<1>3. \A s \in Rankers : /\ ranker'[s].at = "merged" /\ ranker'[s].number = ranker[r].number
                         /\ ranker'[s].fresh = ranker[r].fresh
                         /\ ranker'[s].done = ranker[r].done
                         /\ DOMAIN ranker'[s].scores = ranker[r].fresh \cup prior
                         /\ ranker'[s].locked = [a \in prior |-> row[a].seat]
                         /\ DOMAIN ranker'[s] = DOMAIN ranker[r]
  BY <1>1 DEF OneRanker, RankInv, RankerShape
<1>4. RankerShape'
  <2>1. ranker[r].done = 0 /\ ranker[r].fresh \subseteq Applicants
    BY <1>2 DEF RankInv, RankerShape
  <2> QED
    BY <1>1, <1>2, <1>3, <2>1 DEF RankInv, RankerShape
<1>5. FreshWaits'
  BY <1>2, <1>3 DEF RankInv, FreshWaits, Unranked
<1>6. MergeBacked'
  <2>1. \A a \in prior : row[a] \in results /\ row[a].application = a
    BY <1>1 DEF LatestRows
  <2>2. ranker[r].number = 1 => prior = {}
    BY DEF prior
  <2> SUFFICES ASSUME NEW s \in Rankers
               PROVE  /\ DOMAIN ranker'[s].scores
                           = ranker'[s].fresh \cup DOMAIN ranker'[s].locked
                      /\ ranker'[s].number = 1 => DOMAIN ranker'[s].locked = {}
                      /\ \A a \in DOMAIN ranker'[s].locked :
                           \E q \in results' : q.application = a /\ q.seat = ranker'[s].locked[a]
    BY DEF MergeBacked
  <2>3. DOMAIN ranker'[s].locked = prior /\ \A a \in prior : ranker'[s].locked[a] = row[a].seat
    BY <1>3
  <2>4. /\ DOMAIN ranker'[s].scores = ranker'[s].fresh \cup DOMAIN ranker'[s].locked
        /\ ranker'[s].number = 1 => DOMAIN ranker'[s].locked = {}
    BY <1>3, <2>2, <2>3
  <2>5. \A a \in prior : \E q \in results : q.application = a /\ q.seat = row[a].seat
    BY <2>1
  <2>6. \A a \in DOMAIN ranker'[s].locked :
          \E q \in results' : q.application = a /\ q.seat = ranker'[s].locked[a]
    BY <1>2, <2>3, <2>5
  <2> QED
    BY <2>4, <2>6
<1>7. FirstIsFirst' /\ PlanShape' /\ PlanBacked'
  BY <1>3 DEF FirstIsFirst, PlanShape, PlanBacked
<1> QED
  BY <1>2, <1>4, <1>5, <1>6, <1>7, OnlyRanker

\* Self-sponsored applicants first, then the others: each of all once.
LEMMA RankingOrder ==
  ASSUME NEW S, NEW G, S \subseteq Applicants, G \subseteq Applicants, S \cap G = {},
         NEW scores, NEW self \in Ranked(S, scores), NEW gov \in Ranked(G, scores)
  PROVE  /\ Len(self \o gov) \in Nat /\ DOMAIN (self \o gov) = 1..Len(self \o gov)
         /\ \A i \in DOMAIN (self \o gov) : (self \o gov)[i] \in S \cup G
         /\ \A i, j \in DOMAIN (self \o gov) : (self \o gov)[i] = (self \o gov)[j] => i = j
<1>1. IsFiniteSet(S) /\ IsFiniteSet(G)
  BY RankingAssumption, FS_Subset
<1>2. self \in SetToSeqs(S) /\ gov \in SetToSeqs(G)
  BY DEF Ranked
<1>4. /\ self \in Seq(S) /\ \A i \in DOMAIN self : self[i] \in S
      /\ \A i, j \in DOMAIN self : self[i] = self[j] => i = j
  BY <1>1, <1>2, Orders
<1>5. /\ gov \in Seq(G) /\ \A i \in DOMAIN gov : gov[i] \in G
      /\ \A i, j \in DOMAIN gov : gov[i] = gov[j] => i = j
  BY <1>1, <1>2, Orders
<1>6. self \in Seq(S \cup G) /\ gov \in Seq(S \cup G)
  BY <1>4, <1>5
<1>7. self \o gov \in Seq(S \cup G) /\ Len(self \o gov) = Len(self) + Len(gov)
  BY <1>6, ConcatProperties
<1>8. \A i \in 1..(Len(self) + Len(gov)) :
        (self \o gov)[i] = IF i <= Len(self) THEN self[i] ELSE gov[i - Len(self)]
  BY <1>6, ConcatProperties
<1>9. ASSUME NEW i \in 1..(Len(self) + Len(gov)), NEW j \in 1..(Len(self) + Len(gov)),
             (self \o gov)[i] = (self \o gov)[j]
      PROVE  i = j
  <2>1. CASE i <= Len(self) /\ j <= Len(self)
    BY <1>4, <1>6, <1>8, <1>9, <2>1
  <2>2. CASE ~(i <= Len(self)) /\ ~(j <= Len(self))
    <3>1. i - Len(self) \in DOMAIN gov /\ j - Len(self) \in DOMAIN gov
      BY <1>6, <2>2
    <3> QED
      BY <1>5, <1>6, <1>8, <1>9, <2>2, <3>1
  <2>3. CASE i <= Len(self) /\ ~(j <= Len(self))
    <3>1. i \in DOMAIN self /\ j - Len(self) \in DOMAIN gov
      BY <1>6, <2>3
    <3> QED
      BY <1>4, <1>5, <1>8, <1>9, <2>3, <3>1
  <2>4. CASE ~(i <= Len(self)) /\ j <= Len(self)
    <3>1. j \in DOMAIN self /\ i - Len(self) \in DOMAIN gov
      BY <1>6, <2>4
    <3> QED
      BY <1>4, <1>5, <1>8, <1>9, <2>4, <3>1
  <2> QED
    BY <2>1, <2>2, <2>3, <2>4
<1> QED
  BY <1>7, <1>9

LEMMA RunAssignRank ==
  ASSUME RankInv, OneRanker, NEW r \in Rankers, RunAssign(r)
  PROVE  RankInv'
<1> DEFINE run == ranker[r]
           all == DOMAIN run.scores
           S   == {a \in all : ~Government(a)}
           G   == {a \in all : Government(a)}
<1>1. PICK self \in Ranked(S, run.scores), gov \in Ranked(G, run.scores) :
        ranker' = [ranker EXCEPT ![r].at = "persisting",
          ![r].plan = [i \in DOMAIN (self \o gov) |->
            [application |-> (self \o gov)[i], run |-> run.number,
             uat |-> run.scores[(self \o gov)[i]],
             rank |-> IF i <= Len(self) THEN i ELSE i - Len(self),
             seat |-> IF run.number = 1 THEN Allocation(self \o gov)[i]
                      ELSE IF (self \o gov)[i] \in DOMAIN run.locked
                           THEN run.locked[(self \o gov)[i]]
                      ELSE FirstOpen((self \o gov)[i],
                             Reaches(FinalScore((self \o gov)[i],
                                                run.scores[(self \o gov)[i]]), run.number))]]]
  BY Zenon DEF RunAssign
<1>2. run.at = "merged" /\ UNCHANGED <<status, results>>
  BY DEF RunAssign
<1>3. /\ all = run.fresh \cup DOMAIN run.locked
      /\ run.number = 1 => DOMAIN run.locked = {}
      /\ \A a \in DOMAIN run.locked :
           \E row \in results : row.application = a /\ row.seat = run.locked[a]
  BY <1>2 DEF RankInv, MergeBacked
<1>4. all \subseteq Applicants
  BY <1>3 DEF RankInv, RankerShape, RowsAdvanced
<1>5. PICK order : order = self \o gov
  OBVIOUS
<1>6. /\ Len(order) \in Nat /\ DOMAIN order = 1..Len(order)
      /\ \A i \in DOMAIN order : order[i] \in all
      /\ \A i, j \in DOMAIN order : order[i] = order[j] => i = j
  <2>1. S \subseteq Applicants /\ G \subseteq Applicants /\ S \cap G = {} /\ S \cup G \subseteq all
    BY <1>4
  <2> HIDE DEF all, run, S, G
  <2>2. /\ Len(self \o gov) \in Nat /\ DOMAIN (self \o gov) = 1..Len(self \o gov)
        /\ \A i \in DOMAIN (self \o gov) : (self \o gov)[i] \in S \cup G
        /\ \A i, j \in DOMAIN (self \o gov) : (self \o gov)[i] = (self \o gov)[j] => i = j
    BY <2>1, RankingOrder, Zenon
  <2>3. \A i \in DOMAIN order : order[i] \in S \cup G
    BY <1>5, <2>2, Zenon
  <2> QED
    BY <1>5, <2>1, <2>2, <2>3, Zenon
<1>7. \A s \in Rankers :
        /\ s = r
        /\ ranker'[s].at = "persisting" /\ ranker'[s].number = run.number
        /\ ranker'[s].fresh = run.fresh /\ ranker'[s].done = run.done
        /\ DOMAIN ranker'[s] = DOMAIN run
        /\ DOMAIN ranker'[s].plan = DOMAIN order
        /\ \A i \in DOMAIN order :
             /\ ranker'[s].plan[i].application = order[i]
             /\ ranker'[s].plan[i].run = run.number
             /\ run.number # 1 /\ order[i] \in DOMAIN run.locked =>
                  ranker'[s].plan[i].seat = run.locked[order[i]]
  BY <1>1, <1>5 DEF OneRanker, RankInv, RankerShape
<1>8. run.done = 0 /\ run.number \in Nat \ {0} /\ run.fresh \subseteq Applicants
  BY <1>2 DEF RankInv, RankerShape
<1>9. \A a \in run.fresh : Unranked(a)'
  BY <1>2 DEF RankInv, FreshWaits, Unranked
<1>10. RankerShape'
  BY <1>1, <1>7, <1>8 DEF RankInv, RankerShape
<1>11. PlanShape'
  BY <1>4, <1>6, <1>7, <1>8 DEF PlanShape
<1>12. PlanBacked'
  <2>1. ASSUME NEW s \in Rankers, NEW i \in DOMAIN order
        PROVE  IF i \in Fresh(s)' THEN Unranked(ranker[s].plan[i].application)'
               ELSE \E row \in results' :
                      /\ row.application = ranker'[s].plan[i].application
                      /\ row.seat = ranker'[s].plan[i].seat
    <3>1. i \in Fresh(s)' <=> order[i] \in run.fresh
      BY <1>6, <1>7, <1>8 DEF Fresh
    <3>2. CASE order[i] \in run.fresh
      BY <1>2, <1>7, <1>9, <3>1, <3>2
    <3>3. CASE order[i] \notin run.fresh
      <4>1. order[i] \in DOMAIN run.locked /\ run.number # 1
        BY <1>3, <1>6, <3>3
      <4>2. \E row \in results : row.application = order[i] /\ row.seat = run.locked[order[i]]
        BY <1>3, <4>1
      <4> QED
        BY <1>2, <1>7, <3>1, <3>3, <4>1, <4>2
    <3> QED
      BY <3>2, <3>3
  <2> QED
    BY <1>7, <2>1 DEF PlanBacked, Backed
<1>13. FreshWaits' /\ FirstIsFirst' /\ MergeBacked'
  BY <1>7 DEF FreshWaits, FirstIsFirst, MergeBacked
<1> QED
  BY <1>2, <1>10, <1>11, <1>12, <1>13, OnlyRanker

\* Rows of the plan are committed for applicants who have a row with that seat
\* already, and for at most one, the next, who leaves the test with it.
LEMMA RowsWritten ==
  ASSUME RankInv, StatusType', NEW r \in Rankers, ranker[r].at = "persisting",
         NEW I, I \subseteq DOMAIN ranker[r].plan, NEW next,
         results' = results \cup {ranker[r].plan[i] : i \in I},
         \A i \in I \ {next} : Backed(ranker[r].plan[i]),
         \/ status' = status /\ next \notin I
         \/ /\ next \in I
            /\ Unranked(ranker[r].plan[next].application)
            /\ status' = [status EXCEPT ![ranker[r].plan[next].application] = "PENDING_REVIEW"]
  PROVE  RowsAdvanced' /\ AdvancedRows' /\ RunsBounded' /\ SeatStands'
<1> DEFINE plan == ranker[r].plan
<1>1. /\ \A i \in DOMAIN plan : plan[i].application \in Applicants /\ plan[i].run = ranker[r].number
      /\ \A i, j \in DOMAIN plan : plan[i].application = plan[j].application => i = j
  BY DEF RankInv, PlanShape
<1>2. ranker[r].number \in Nat \ {0}
  BY DEF RankInv, RankerShape
<1>3. /\ \A a \in Applicants : status[a] \in Advanced => status'[a] \in Advanced
      /\ next \in I => status'[plan[next].application] = "PENDING_REVIEW"
      /\ \A a \in Applicants : status'[a] = status[a] \/ (next \in I /\ a = plan[next].application)
  <2>1. status \in [Applicants -> Status]
    BY DEF RankInv, StatusType
  <2>2. CASE status' = status /\ next \notin I
    BY <2>2
  <2>3. CASE /\ next \in I
             /\ status' = [status EXCEPT ![plan[next].application] = "PENDING_REVIEW"]
    <3>1. plan[next].application \in Applicants
      BY <1>1, <2>3
    <3> HIDE DEF plan
    <3> QED
      BY <2>1, <2>3, <3>1
  <2> QED
    BY <2>2, <2>3
<1>4. \A i \in I \ {next} : \E row \in results : /\ row.application = plan[i].application
                                                 /\ row.seat = plan[i].seat
  BY DEF Backed
<1>5. \A row \in results : /\ row.application \in Applicants /\ row.run \in Nat \ {0}
                           /\ status[row.application] \in Advanced
  BY DEF RankInv, RowsAdvanced
<1>6. next \in I => \A row \in results : row.application # plan[next].application
  BY DEF Unranked
<1>7. RowsAdvanced'
  <2>1. ASSUME NEW i \in I PROVE status'[plan[i].application] \in Advanced
    <3>1. CASE i = next
      BY <1>3, <3>1
    <3>2. CASE i # next
      BY <1>3, <1>4, <1>5, <3>2
    <3> QED
      BY <3>1, <3>2
  <2> QED
    BY <1>1, <1>2, <1>3, <1>5, <2>1 DEF RowsAdvanced
<1>8. AdvancedRows'
  <2> SUFFICES ASSUME NEW a \in Applicants \ ByHand, status'[a] \in Advanced
               PROVE  \E row \in results' : row.application = a
    BY DEF AdvancedRows
  <2>1. CASE status[a] \in Advanced
    BY <2>1 DEF RankInv, AdvancedRows
  <2>2. CASE status[a] \notin Advanced
    BY <1>3, <2>2
  <2> QED
    BY <2>1, <2>2
<1>9. RunsBounded'
  <2>1. PICK n \in Nat : \A row \in results : row.run <= n
    BY DEF RankInv, RunsBounded
  <2>2. /\ n + ranker[r].number \in Nat
        /\ \A row \in results' : row.run <= n + ranker[r].number
    BY <1>1, <1>2, <1>5, <2>1
  <2> QED
    BY <2>2 DEF RunsBounded
<1>10. SeatStands'
  <2> SUFFICES ASSUME NEW row \in results', NEW other \in results',
                      row.application = other.application
               PROVE  row.seat = other.seat
    BY DEF SeatStands
  <2>1. \A p, q \in results : p.application = q.application => p.seat = q.seat
    BY DEF RankInv, SeatStands
  <2>2. ASSUME NEW p \in results, NEW i \in I, p.application = plan[i].application
        PROVE  p.seat = plan[i].seat
    BY <1>4, <1>6, <2>1, <2>2
  <2>3. ASSUME NEW i \in I, NEW j \in I, plan[i].application = plan[j].application
        PROVE  plan[i].seat = plan[j].seat
    BY <1>1, <2>3
  <2> QED
    BY <2>1, <2>2, <2>3
<1> QED
  BY <1>7, <1>8, <1>9, <1>10

LEMMA RunPersistRank ==
  ASSUME RankInv, OneRanker, NEW r \in Rankers, RunPersist(r)
  PROVE  RankInv'
<1>1. PICK next \in Fresh(r) :
        /\ \A i \in Fresh(r) : next <= i
        /\ results' = results \cup {ranker[r].plan[i] : i \in 1..next}
        /\ status' = [status EXCEPT ![ranker[r].plan[next].application] = "PENDING_REVIEW"]
        /\ ranker' = [ranker EXCEPT ![r].done = next]
  BY Zenon DEF RunPersist
<1>2. ranker[r].at = "persisting"
  BY DEF RunPersist
<1>3. PICK n \in Nat : DOMAIN ranker[r].plan = 1..n
  BY <1>2 DEF RankInv, PlanShape
<1>4. /\ next \in 1..n /\ next > ranker[r].done /\ ranker[r].done \in Nat
      /\ ranker[r].plan[next].application \in ranker[r].fresh
      /\ ranker[r].plan[next].application \in Applicants
      /\ Unranked(ranker[r].plan[next].application)
  BY <1>2, <1>3 DEF RankInv, PlanShape, PlanBacked, Fresh
<1>5. \A i \in 1..next : i # next => i \notin Fresh(r) /\ i \in DOMAIN ranker[r].plan
  BY <1>1, <1>3, <1>4
<1>6. \A i \in 1..next : i # next => Backed(ranker[r].plan[i])
  BY <1>2, <1>5 DEF RankInv, PlanBacked
<1>7. StatusType'
  BY <1>1, <1>4 DEF RankInv, StatusType, Status
<1>8. RowsAdvanced' /\ AdvancedRows' /\ RunsBounded' /\ SeatStands'
  <2>1. 1..next \subseteq DOMAIN ranker[r].plan /\ next \in 1..next
    BY <1>3, <1>4
  <2>2. \A i \in (1..next) \ {next} : Backed(ranker[r].plan[i])
    BY <1>6
  <2> QED
    BY <1>1, <1>2, <1>4, <1>7, <2>1, <2>2, RowsWritten
<1>9. \A s \in Rankers : /\ s = r
                         /\ DOMAIN ranker'[s] = DOMAIN ranker[s]
                         /\ ranker'[s].at = "persisting" /\ ranker'[s].done = next
                         /\ ranker'[s].number = ranker[s].number
                         /\ ranker'[s].fresh = ranker[s].fresh
                         /\ ranker'[s].plan = ranker[s].plan
  BY <1>1, <1>2 DEF OneRanker, RankInv, RankerShape
<1>10. RankerShape'
  <2>1. ranker' = [s \in Rankers |-> ranker'[s]]
    BY <1>1 DEF RankInv, RankerShape
  <2> QED
    BY <1>2, <1>9, <2>1 DEF RankInv, RankerShape
<1>11. FreshWaits' /\ FirstIsFirst' /\ MergeBacked'
  BY <1>9 DEF FreshWaits, FirstIsFirst, MergeBacked
<1>12. PlanShape'
  BY <1>2, <1>4, <1>9 DEF RankInv, PlanShape
<1>13. PlanBacked'
  <2>1. ASSUME NEW s \in Rankers, NEW i \in DOMAIN ranker[r].plan
        PROVE  IF i \in Fresh(s)' THEN Unranked(ranker[s].plan[i].application)'
               ELSE \E row \in results' :
                      /\ row.application = ranker'[s].plan[i].application
                      /\ row.seat = ranker'[s].plan[i].seat
    <3>1. i \in Fresh(s)' <=> i > next /\ ranker[r].plan[i].application \in ranker[r].fresh
      BY <1>9 DEF Fresh
    <3>2. CASE i \in Fresh(r) /\ i # next
      <4>1. i > next /\ ranker[r].plan[i].application \in ranker[r].fresh
        BY <1>1, <1>3, <1>4, <3>2 DEF Fresh
      <4>2. Unranked(ranker[r].plan[i].application)
        BY <1>2, <3>2 DEF RankInv, PlanBacked
      <4>3. ranker[r].plan[i].application # ranker[r].plan[next].application
        BY <1>2, <1>3, <1>4, <3>2 DEF RankInv, PlanShape
      <4>4. ranker[r].plan[i].application \in Applicants
        BY <1>2 DEF RankInv, PlanShape
      <4>5. status'[ranker[r].plan[i].application] = status[ranker[r].plan[i].application]
        BY <1>1, <4>3, <4>4 DEF RankInv, StatusType
      <4>6. ASSUME NEW j \in 1..next
            PROVE  ranker[r].plan[j].application # ranker[r].plan[i].application
        <5>1. j \in DOMAIN ranker[r].plan /\ j # i
          BY <1>3, <1>4, <4>1
        <5> QED
          BY <1>2, <5>1 DEF RankInv, PlanShape
      <4>7. Unranked(ranker[r].plan[i].application)'
        BY <1>1, <1>9, <4>2, <4>5, <4>6 DEF Unranked
      <4> QED
        BY <1>9, <3>1, <4>1, <4>7
    <3>3. CASE i = next
      BY <1>1, <1>3, <1>4, <1>9, <3>1, <3>3
    <3>4. CASE i \notin Fresh(r)
      <4>1. ~(i > next /\ ranker[r].plan[i].application \in ranker[r].fresh)
        BY <1>3, <1>4, <3>4 DEF Fresh
      <4>2. \E row \in results : /\ row.application = ranker[r].plan[i].application
                                 /\ row.seat = ranker[r].plan[i].seat
        BY <1>2, <3>4 DEF RankInv, PlanBacked, Backed
      <4> QED
        BY <1>1, <1>9, <3>1, <4>1, <4>2
    <3> QED
      BY <3>2, <3>3, <3>4
  <2> QED
    BY <1>9, <2>1 DEF PlanBacked, Backed
<1> QED
  BY <1>7, <1>8, <1>10, <1>11, <1>12, <1>13 DEF RankInv

LEMMA RunFinishRank ==
  ASSUME RankInv, OneRanker, NEW r \in Rankers, RunFinish(r)
  PROVE  RankInv'
<1>1. /\ ranker[r].at = "persisting" /\ Fresh(r) = {} /\ UNCHANGED status
      /\ results' = results \cup {ranker[r].plan[i] : i \in DOMAIN ranker[r].plan}
      /\ ranker' = [ranker EXCEPT ![r] = Idle]
  BY DEF RunFinish, ToSet
<1>2. StatusType'
  BY <1>1 DEF RankInv, StatusType
<1>3. \A i \in DOMAIN ranker[r].plan : Backed(ranker[r].plan[i])
  BY <1>1 DEF RankInv, PlanBacked
<1>4. RowsAdvanced' /\ AdvancedRows' /\ RunsBounded' /\ SeatStands'
  <2>1. 0 \notin DOMAIN ranker[r].plan
    BY <1>1 DEF RankInv, PlanShape
  <2> QED
    BY <1>1, <1>2, <1>3, <2>1, RowsWritten
<1>5. ranker' = [s \in Rankers |-> Idle]
  BY <1>1 DEF OneRanker, RankInv, RankerShape
<1>6. \A s \in Rankers : /\ ranker'[s].at = "idle" /\ ranker'[s].fresh = {}
                         /\ ranker'[s].done = 0
                         /\ DOMAIN ranker'[s] = {"at", "number", "fresh", "scores",
                                                 "locked", "seen", "plan", "done"}
  BY <1>5 DEF Idle
<1>7. RankerShape'
  BY <1>5, <1>6 DEF RankerShape
<1>8. FreshWaits' /\ FirstIsFirst'
  BY <1>6 DEF FreshWaits, FirstIsFirst
<1>9. MergeBacked' /\ PlanShape' /\ PlanBacked'
  BY <1>6 DEF MergeBacked, PlanShape, PlanBacked
<1> QED
  BY <1>2, <1>4, <1>7, <1>8, <1>9 DEF RankInv

-----------------------------------------------------------------------------
(* Enrolment.                                                              *)

USE DEF On, Tick

LEMMA InitEnroll == Init => EnrollInv
<1> SUFFICES ASSUME Init PROVE EnrollInv
  OBVIOUS
<1> USE DEF Init, RankInit, Waiting
<1>1. EnrollTypes
  <2>1. <<>> \in Seq(Item)
    OBVIOUS
  <2> QED
    BY <2>1 DEF EnrollTypes, EnrollerState
<1>2. TodoAdmitted /\ TodoRanked /\ Minting
  BY DEF TodoAdmitted, TodoRanked, Minting
<1>3. EnrollmentsRanked /\ AdmittedIdentity
  BY DEF EnrollmentsRanked, AdmittedIdentity, Enrolled
<1> QED
  BY <1>1, <1>2, <1>3 DEF EnrollInv

LEMMA TodoType ==
  ASSUME EnrollInv, NEW e \in Enrollers
  PROVE  /\ enroller[e].todo \in Seq(Item)
         /\ \A i \in DOMAIN enroller[e].todo :
              /\ enroller[e].todo[i] \in Item
              /\ enroller[e].todo[i].application \in Applicants
<1>1. enroller[e].todo \in Seq(Item)
  BY DEF EnrollInv, EnrollTypes, EnrollerState
<1>2. \A i \in DOMAIN enroller[e].todo : enroller[e].todo[i] \in Item
  BY <1>1
<1> QED
  BY <1>1, <1>2 DEF Item

\* The rows a run adds agree with those there are; an application without any
\* has been moved by hand and has no program.
LEMMA RankedAsStays ==
  ASSUME RankInv, RankInv', results \subseteq results', NEW a \in Applicants, NEW program,
         a \in ByHand \/ status[a] \in Advanced, RankedAs(a, program)
  PROVE  RankedAs(a, program)'
<1>1. CASE \E own \in results : own.application = a
  <2>1. PICK own \in results : own.application = a
    BY <1>1
  <2>2. \A result \in results' : result.application = a => result.seat = own.seat
    BY <2>1 DEF RankInv, SeatStands
  <2>3. program = ProgramOf(own.seat) \/ (a \in ByHand /\ program = NoSeat)
    BY <2>1 DEF RankedAs
  <2> QED
    BY <2>1, <2>2, <2>3 DEF RankedAs
<1>2. CASE ~\E own \in results : own.application = a
  <2>1. a \in ByHand
    BY <1>2 DEF RankInv, AdvancedRows
  <2> QED
    BY <1>2, <2>1 DEF RankedAs
<1> QED
  BY <1>1, <1>2

\* A ranking run adds rows that agree with those it finds, and moves nobody who
\* has been decided; an officer may have moved anyone by hand.
LEMMA EnrolmentUntouched ==
  ASSUME RankInv, EnrollInv, RankInv', UNCHANGED enrollVars, results \subseteq results',
         \A a \in Applicants \ ByHand :
           \/ status'[a] = status[a]
           \/ status[a] \in {"UAT_PENDING", "UAT_COMPLETED"} /\ status'[a] \notin {"DECIDED", "ENROLLED"}
  PROVE  EnrollInv'
<1> USE DEF enrollVars
<1>1. EnrollTypes'
  BY DEF EnrollInv, EnrollTypes
<1>2. \A e \in Enrollers : \A i \in DOMAIN enroller[e].todo :
        enroller[e].todo[i].application \in Applicants
  BY TodoType
<1>3. TodoAdmitted'
  BY <1>2 DEF EnrollInv, TodoAdmitted
<1>4. TodoRanked'
  <2> SUFFICES ASSUME NEW e \in Enrollers,
                      enroller[e].at \in {"enrolling", "onboarding", "minting"},
                      NEW i \in DOMAIN enroller[e].todo
               PROVE  RankedAs(enroller[e].todo[i].application, enroller[e].todo[i].program)'
    BY DEF TodoRanked
  <2> DEFINE a == enroller[e].todo[i].application
             program == enroller[e].todo[i].program
  <2>1. a \in Applicants /\ (a \in ByHand \/ status[a] \in Advanced)
    BY <1>2 DEF EnrollInv, TodoAdmitted
  <2>2. RankedAs(a, program)
    BY DEF EnrollInv, TodoRanked
  <2>3. a' = a /\ program' = program
    OBVIOUS
  <2> HIDE DEF a, program
  <2>4. \A x, y : x = a /\ y = program => RankedAs(x, y)'
    BY <2>1, <2>2, RankedAsStays
  <2> QED
    BY <2>3, <2>4 DEF a, program
<1>5. Minting'
  BY DEF EnrollInv, Minting, Current
<1>6. AdmittedIdentity'
  <2>1. \A a \in Applicants \ ByHand : status'[a] = "ENROLLED" <=> status[a] = "ENROLLED"
    OBVIOUS
  <2>2. \A a \in Applicants : Enrolled(a)' <=> Enrolled(a)
    BY DEF Enrolled
  <2> QED
    BY <2>1, <2>2 DEF EnrollInv, AdmittedIdentity
<1>7. EnrollmentsRanked'
  <2> SUFFICES ASSUME NEW row \in enrollments
               PROVE  RankedAs(row.application, row.program)'
    BY DEF EnrollmentsRanked
  <2>1. /\ row.application \in Applicants
        /\ row.application \in ByHand \/ status[row.application] \in Advanced
    BY DEF EnrollInv, EnrollTypes, EnrollmentRow, AdmittedIdentity, Enrolled
  <2> QED
    BY <2>1, RankedAsStays DEF EnrollInv, EnrollmentsRanked
<1> QED
  BY <1>1, <1>3, <1>4, <1>5, <1>6, <1>7 DEF EnrollInv

LEMMA RankingSteps ==
  ASSUME RankInv, EnrollInv, OneRanker, RankNext, UNCHANGED enrollVars
  PROVE  RankInv' /\ EnrollInv'
<1>1. CASE \E a \in Applicants : CompleteUAT(a)
  <2>1. PICK a \in Applicants : CompleteUAT(a)
    BY <1>1
  <2>2. RankInv'
    BY <2>1, CompleteUATRank
  <2> QED
    BY <2>1, <2>2, EnrolmentUntouched DEF CompleteUAT, RankInv, StatusType
<1>2. ASSUME NEW r \in Rankers,
             RunLoad(r) \/ RunNumber(r) \/ RunMerge(r) \/ RunAssign(r) \/ RunFails(r)
      PROVE  RankInv' /\ EnrollInv'
  <2>1. RankInv'
    BY <1>2, RunLoadRank, RunNumberRank, RunMergeRank, RunAssignRank, RunFailsRank
  <2>2. UNCHANGED <<status, results>>
    BY <1>2 DEF RunLoad, RunNumber, RunMerge, RunAssign, RunFails
  <2> QED
    BY <2>1, <2>2, EnrolmentUntouched
<1>3. ASSUME NEW r \in Rankers, RunPersist(r) PROVE RankInv' /\ EnrollInv'
  <2>1. RankInv'
    BY <1>3, RunPersistRank
  <2>2. PICK next \in Fresh(r) :
          /\ results' = results \cup {ranker[r].plan[i] : i \in 1..next}
          /\ status' = [status EXCEPT ![ranker[r].plan[next].application] = "PENDING_REVIEW"]
    BY <1>3 DEF RunPersist
  <2>3. LET a == ranker[r].plan[next].application
        IN  a \in Applicants /\ (a \in ByHand \/ status[a] = "UAT_COMPLETED")
    BY <1>3, <2>2 DEF RankInv, PlanShape, PlanBacked, Unranked, RunPersist, Fresh
  <2>4. \A a \in Applicants \ ByHand :
          \/ status'[a] = status[a]
          \/ status[a] = "UAT_COMPLETED" /\ status'[a] = "PENDING_REVIEW"
    BY <2>2, <2>3 DEF RankInv, StatusType
  <2> QED
    BY <2>1, <2>2, <2>4, EnrolmentUntouched
<1>4. ASSUME NEW r \in Rankers, RunFinish(r) PROVE RankInv' /\ EnrollInv'
  BY <1>4, RunFinishRank, EnrolmentUntouched DEF RunFinish
<1> QED
  BY <1>1, <1>2, <1>3, <1>4 DEF RankNext

\* A request goes on with the list it has, or with less of it.
LEMMA ListShrinks ==
  ASSUME EnrollInv, UNCHANGED <<status, results, final, enrollments>>,
         NEW e \in Enrollers, NEW next \in EnrollerState,
         enroller' = [enroller EXCEPT ![e] = next],
         \A i \in DOMAIN next.todo : \E j \in DOMAIN enroller[e].todo :
           next.todo[i] = enroller[e].todo[j],
         \/ next.at = "idle"
         \/ next.at = "enrolling" /\ enroller[e].at \in {"enrolling", "onboarding", "minting"}
         \/ next.at = "minting" /\ enroller[e].at = "onboarding" /\ next.todo = enroller[e].todo
  PROVE  /\ enroller' \in [Enrollers -> EnrollerState]
         /\ TodoAdmitted' /\ TodoRanked' /\ Minting'
<1>1. enroller \in [Enrollers -> EnrollerState]
  BY DEF EnrollInv, EnrollTypes
<1>2. \A f \in Enrollers : enroller'[f] = IF f = e THEN next ELSE enroller[f]
  BY <1>1
<1>3. enroller' \in [Enrollers -> EnrollerState]
  BY <1>1
<1>4. TodoAdmitted'
  BY <1>2 DEF EnrollInv, TodoAdmitted
<1>5. TodoRanked'
  BY <1>2 DEF EnrollInv, TodoRanked, RankedAs
<1>6. Minting'
  BY <1>2 DEF EnrollInv, Minting, Current
<1> QED
  BY <1>3, <1>4, <1>5, <1>6

LEMMA TailOfList ==
  ASSUME NEW todo \in Seq(Item), todo # <<>>
  PROVE  /\ Tail(todo) \in Seq(Item)
         /\ \A i \in DOMAIN Tail(todo) : \E j \in DOMAIN todo : Tail(todo)[i] = todo[j]
<1>1. Tail(todo) \in Seq(Item) /\ Len(Tail(todo)) = Len(todo) - 1
  BY HeadTailProperties
<1>2. \A i \in 1..Len(Tail(todo)) : Tail(todo)[i] = todo[i + 1]
  BY HeadTailProperties
<1> QED
  BY <1>1, <1>2

\* Steps of an enrolment run that leave applications and enrolments alone.
LEMMA RunGoesOn ==
  ASSUME RankInv, EnrollInv, UNCHANGED <<rankVars, final, enrollments>>,
         enroller' \in [Enrollers -> EnrollerState],
         TodoAdmitted', TodoRanked', Minting',
         clock' \in Nat, students' \subseteq StudentRow,
         \A student \in students' : \E row \in enrollments :
           row.application = student.application /\ row.number = student.number
  PROVE  RankInv' /\ EnrollInv'
<1>1. UNCHANGED <<status, results, ranker>>
  BY DEF rankVars
<1>2. RankInv'
  BY <1>1, RankingUntouched DEF RankInv, StatusType
<1>3. EnrollTypes'
  BY DEF EnrollInv, EnrollTypes
<1>4. EnrollmentsRanked' /\ AdmittedIdentity'
  BY <1>1 DEF EnrollInv, EnrollmentsRanked, RankedAs, AdmittedIdentity, Enrolled
<1> QED
  BY <1>2, <1>3, <1>4 DEF EnrollInv

LEMMA DecideSteps ==
  ASSUME RankInv, EnrollInv, NEW a \in Applicants, Decide(a)
  PROVE  RankInv' /\ EnrollInv'
<1>1. PICK verdict \in {"ADMIT", "REJECT"} : final' = [final EXCEPT ![a] = verdict]
  BY DEF Decide
<1>2. /\ status[a] = "PENDING_REVIEW" /\ status' = [status EXCEPT ![a] = "DECIDED"]
      /\ final[a] = "NONE"
      /\ UNCHANGED <<results, ranker, enrollments, students, clock, enroller>>
  BY DEF Decide
<1>3. StatusType' /\ \A x \in Applicants : x # a => status'[x] = status[x] /\ final'[x] = final[x]
  BY <1>1, <1>2 DEF RankInv, StatusType, Status, EnrollInv, EnrollTypes
<1>4. status'[a] = "DECIDED"
  BY <1>2 DEF RankInv, StatusType
<1>5. RankInv'
  BY <1>2, <1>3, <1>4, RankingUntouched
<1>6. EnrollTypes'
  BY <1>1, <1>2 DEF EnrollInv, EnrollTypes
<1>7. TodoAdmitted'
  <2>1. \A e \in Enrollers : \A i \in DOMAIN enroller[e].todo :
          enroller[e].todo[i].application \in Applicants \ {a}
    BY <1>2, TodoType DEF EnrollInv, TodoAdmitted
  <2> QED
    BY <1>2, <1>3, <2>1 DEF EnrollInv, TodoAdmitted
<1>8. TodoRanked' /\ Minting' /\ EnrollmentsRanked'
  BY <1>2 DEF EnrollInv, TodoRanked, RankedAs, Minting, EnrollmentsRanked, Current
<1>9. AdmittedIdentity'
  <2>1. ~Enrolled(a)
    BY <1>2 DEF EnrollInv, AdmittedIdentity, Enrolled
  <2>2. \A x \in Applicants : Enrolled(x)' <=> Enrolled(x)
    BY <1>2 DEF Enrolled
  <2>3. \A x \in Applicants \ ByHand : status'[x] = "ENROLLED" <=> Enrolled(x)'
    BY <1>2, <1>3, <1>4, <2>1, <2>2 DEF EnrollInv, AdmittedIdentity
  <2>4. \A row \in enrollments : row.application \in Applicants \ {a}
    BY <2>1 DEF EnrollInv, EnrollTypes, EnrollmentRow, Enrolled
  <2> QED
    BY <1>2, <1>3, <2>3, <2>4 DEF EnrollInv, AdmittedIdentity
<1> QED
  BY <1>5, <1>6, <1>7, <1>8, <1>9 DEF EnrollInv

LEMMA EnrollLoadSteps ==
  ASSUME RankInv, EnrollInv, NEW e \in Enrollers, EnrollLoad(e)
  PROVE  RankInv' /\ EnrollInv'
<1> DEFINE S == {a \in Applicants : Awaiting(a)}
<1>1. PICK order \in SetToSeqs(S) :
        enroller' = [enroller EXCEPT ![e] =
          [at |-> "loaded", since |-> clock, poisoned |-> FALSE,
           todo |-> [i \in DOMAIN order |->
             [application |-> order[i], number |-> 0, program |-> NoSeat]]]]
  BY DEF EnrollLoad
<1>2. UNCHANGED <<rankVars, final, enrollments, students>> /\ clock' = clock + 1
  BY DEF EnrollLoad
<1>3. \A i \in DOMAIN order : order[i] \in S
  <2>1. IsFiniteSet(S)
    BY RankingAssumption, FS_Subset
  <2> HIDE DEF S
  <2> QED BY <2>1, Orders
<1>4. Len(order) \in Nat /\ DOMAIN order = 1..Len(order)
  <2>1. IsFiniteSet(S)
    BY RankingAssumption, FS_Subset
  <2> HIDE DEF S
  <2> QED BY <2>1, Orders
<1> DEFINE todo == [i \in DOMAIN order |->
                      [application |-> order[i], number |-> 0, program |-> NoSeat]]
<1>5. todo \in Seq(Item)
  <2>1. \A i \in DOMAIN order : [application |-> order[i], number |-> 0, program |-> NoSeat] \in Item
    BY <1>3 DEF Item
  <2> QED
    BY <1>4, <2>1, SeqDef
<1>6. \A f \in Enrollers : enroller'[f] = IF f = e
        THEN [at |-> "loaded", since |-> clock, poisoned |-> FALSE, todo |-> todo]
        ELSE enroller[f]
  BY <1>1 DEF EnrollInv, EnrollTypes
<1>7. enroller' \in [Enrollers -> EnrollerState]
  <2>1. [at |-> "loaded", since |-> clock, poisoned |-> FALSE, todo |-> todo] \in EnrollerState
    BY <1>5 DEF EnrollInv, EnrollTypes, EnrollerState
  <2> HIDE DEF todo
  <2> QED
    BY <1>1, <2>1 DEF EnrollInv, EnrollTypes, todo
<1>8. UNCHANGED <<status, results>>
  BY <1>2 DEF rankVars
<1>9. \A i \in DOMAIN todo : /\ final[todo[i].application] = "ADMIT"
                             /\ status[todo[i].application] = "DECIDED"
  BY <1>3 DEF Awaiting
<1> HIDE DEF todo, S
<1>10. TodoAdmitted'
  BY <1>2, <1>6, <1>8, <1>9 DEF EnrollInv, TodoAdmitted
<1>11. TodoRanked' /\ Minting'
  BY <1>2, <1>6, <1>8 DEF EnrollInv, TodoRanked, RankedAs, Minting, Current
<1>12. clock' \in Nat /\ students' \subseteq StudentRow
  BY <1>2 DEF EnrollInv, EnrollTypes
<1> QED
  BY <1>2, <1>7, <1>10, <1>11, <1>12, RunGoesOn DEF EnrollInv, AdmittedIdentity

LEMMA NextNumberType ==
  ASSUME EnrollInv
  PROVE  NextNumbers \subseteq Nat
BY DEF EnrollInv, EnrollTypes, EnrollmentRow, NextNumbers, LastRows, FirstNumber

LEMMA EnrollReadSteps ==
  ASSUME RankInv, EnrollInv, NEW e \in Enrollers, EnrollRead(e)
  PROVE  RankInv' /\ EnrollInv'
<1> DEFINE todo == enroller[e].todo
<1>1. PICK program \in [DOMAIN todo -> Programs \cup {NoSeat}], first \in NextNumbers :
        /\ \A i \in DOMAIN todo : program[i] \in LastPrograms(todo[i].application)
        /\ enroller' = [enroller EXCEPT ![e].at = "enrolling",
             ![e].todo = [i \in DOMAIN todo |->
               [application |-> todo[i].application, program |-> program[i],
                number |-> first + i - 1]]]
  BY Zenon DEF EnrollRead
<1>2. UNCHANGED <<rankVars, final, enrollments, students, clock>>
  BY DEF EnrollRead
<1>3. UNCHANGED <<status, results>>
  BY <1>2 DEF rankVars
<1>4. todo \in Seq(Item) /\ \A i \in DOMAIN todo : todo[i].application \in Applicants
  BY TodoType
<1> DEFINE new == [i \in DOMAIN todo |->
                     [application |-> todo[i].application, program |-> program[i],
                      number |-> first + i - 1]]
<1>5. new \in Seq(Item)
  <2>1. Len(todo) \in Nat /\ DOMAIN todo = 1..Len(todo)
    BY <1>4
  <2>2. \A i \in DOMAIN todo :
          [application |-> todo[i].application, program |-> program[i],
           number |-> first + i - 1] \in Item
    <3>1. first \in Nat
      BY NextNumberType
    <3>2. \A i \in DOMAIN todo : first + i - 1 \in Nat
      BY <2>1, <3>1
    <3>3. \A i \in DOMAIN todo : program[i] \in Programs \cup {NoSeat}
      OBVIOUS
    <3> QED
      BY <1>4, <3>2, <3>3 DEF Item
  <2> HIDE DEF todo
  <2> QED
    BY <2>1, <2>2, SeqDef
<1>6. /\ enroller \in [Enrollers -> EnrollerState]
      /\ \A f \in Enrollers : f # e => enroller'[f] = enroller[f]
      /\ enroller'[e].at = "enrolling" /\ enroller'[e].todo = new
      /\ enroller'[e] = [enroller[e] EXCEPT !.at = "enrolling", !.todo = new]
  BY <1>1 DEF EnrollInv, EnrollTypes, EnrollerState
<1>7. enroller' \in [Enrollers -> EnrollerState]
  <2>1. enroller'[e] \in EnrollerState
    <3> HIDE DEF new
    <3>1. enroller[e] \in EnrollerState
      BY <1>6
    <3>2. [enroller[e] EXCEPT !.at = "enrolling", !.todo = new] \in EnrollerState
      BY <1>5, <3>1 DEF EnrollerState
    <3> QED
      BY <1>6, <3>2
  <2>2. enroller' = [enroller EXCEPT ![e] = enroller'[e]]
    BY <1>1, <1>6
  <2> QED
    BY <1>6, <2>1, <2>2
<1>8. DOMAIN new = DOMAIN todo /\ \A i \in DOMAIN todo : /\ new[i].application = todo[i].application
                                                       /\ new[i].program = program[i]
  OBVIOUS
<1> HIDE DEF new
<1>a. /\ \A f \in Enrollers : f # e => enroller'[f] = enroller[f]
      /\ enroller'[e].at = "enrolling" /\ enroller'[e].todo = new
  BY <1>6
<1>9. TodoAdmitted'
  <2> SUFFICES ASSUME NEW f \in Enrollers, NEW i \in DOMAIN enroller'[f].todo
               PROVE  /\ final'[enroller'[f].todo[i].application] = "ADMIT"
                      /\ \/ enroller'[f].todo[i].application \in ByHand
                         \/ status'[enroller'[f].todo[i].application] \in {"DECIDED", "ENROLLED"}
    BY DEF TodoAdmitted
  <2>1. CASE f = e
    BY <1>2, <1>3, <1>a, <1>8, <2>1 DEF EnrollInv, TodoAdmitted
  <2>2. CASE f # e
    BY <1>2, <1>3, <1>a, <2>2 DEF EnrollInv, TodoAdmitted
  <2> QED
    BY <2>1, <2>2
<1>10. TodoRanked'
  <2>1. ASSUME NEW i \in DOMAIN todo
        PROVE  RankedAs(todo[i].application, program[i])
    <3>1. CASE \E result \in results : result.application = todo[i].application
      <4>1. LatestRows(todo[i].application) # {}
        BY <3>1, LatestExists DEF RankInv
      <4>2. PICK row \in LatestRows(todo[i].application) : program[i] = ProgramOf(row.seat)
        BY <1>1, <4>1 DEF LastPrograms
      <4>3. \A result \in results : result.application = todo[i].application => result.seat = row.seat
        BY <4>2 DEF RankInv, SeatStands, LatestRows
      <4> QED
        BY <3>1, <4>2, <4>3 DEF RankedAs
    <3>2. CASE ~\E result \in results : result.application = todo[i].application
      <4>1. LatestRows(todo[i].application) = {}
        BY <3>2 DEF LatestRows
      <4>2. program[i] = NoSeat
        BY <1>1, <4>1 DEF LastPrograms
      <4> QED
        BY <3>2, <4>2 DEF RankedAs
    <3> QED
      BY <3>1, <3>2
  <2> SUFFICES ASSUME NEW f \in Enrollers,
                      enroller'[f].at \in {"enrolling", "onboarding", "minting"},
                      NEW i \in DOMAIN enroller'[f].todo
               PROVE  RankedAs(enroller[f].todo[i].application, enroller[f].todo[i].program)'
    BY DEF TodoRanked
  <2>2. CASE f = e
    <3>1. RankedAs(todo[i].application, program[i])
      BY <1>a, <1>8, <2>1, <2>2
    <3> HIDE DEF todo
    <3>2. i \in DOMAIN todo
      BY <1>a, <1>8, <2>2
    <3> QED
      BY <1>3, <1>a, <1>8, <2>2, <3>1, <3>2 DEF RankedAs
  <2>3. CASE f # e
    <3>1. RankedAs(enroller[f].todo[i].application, enroller[f].todo[i].program)
      BY <1>a, <2>3 DEF EnrollInv, TodoRanked
    <3> QED
      BY <1>3, <1>a, <2>3, <3>1 DEF RankedAs
  <2> QED
    BY <2>2, <2>3
<1>11. Minting'
  BY <1>2, <1>a DEF EnrollInv, Minting, Current
<1>12. clock' \in Nat /\ students' \subseteq StudentRow
  BY <1>2 DEF EnrollInv, EnrollTypes
<1>13. \A student \in students' : \E row \in enrollments :
         row.application = student.application /\ row.number = student.number
  BY <1>2 DEF EnrollInv, AdmittedIdentity
<1> HIDE DEF todo
<1> QED
  BY <1>2, <1>7, <1>9, <1>10, <1>11, <1>12, <1>13, RunGoesOn

LEMMA EnrollStudentSteps ==
  ASSUME RankInv, EnrollInv, NEW e \in Enrollers, EnrollStudent(e)
  PROVE  RankInv' /\ EnrollInv'
<1> DEFINE row == Current(e)
           new == [application |-> row.application, number |-> row.number,
                   program |-> row.program, created |-> enroller[e].since]
<1>1. /\ enroller[e].at = "enrolling" /\ enroller[e].todo # <<>>
      /\ ~Enrolled(row.application)
      /\ enrollments' = enrollments \cup {new}
      /\ status' = [status EXCEPT ![row.application] = "ENROLLED"]
      /\ enroller' = [enroller EXCEPT ![e].at = "onboarding", ![e].since = clock]
      /\ clock' = clock + 1
      /\ UNCHANGED <<results, ranker, final, students>>
  BY DEF EnrollStudent, Insertable
<1>2. enroller[e].todo \in Seq(Item) /\ 1 \in DOMAIN enroller[e].todo /\ row = enroller[e].todo[1]
  BY <1>1, TodoType DEF Current
<1>3. row \in Item /\ row.application \in Applicants /\ row.number \in Nat
      /\ row.program \in Programs \cup {NoSeat}
  BY <1>2, TodoType DEF Item
<1>4. /\ final[row.application] = "ADMIT"
      /\ row.application \in ByHand \/ status[row.application] \in {"DECIDED", "ENROLLED"}
  BY <1>2 DEF EnrollInv, TodoAdmitted
<1>5. RankedAs(row.application, row.program)
  BY <1>1, <1>2 DEF EnrollInv, TodoRanked
<1>6. /\ enroller \in [Enrollers -> EnrollerState] /\ enroller[e] \in EnrollerState
      /\ clock \in Nat /\ enrollments \subseteq EnrollmentRow
      /\ final \in [Applicants -> {"NONE", "ADMIT", "REJECT"}] /\ students \subseteq StudentRow
  BY DEF EnrollInv, EnrollTypes
<1>7. new \in EnrollmentRow /\ new.application = row.application /\ new.number = row.number
      /\ new.program = row.program
  BY <1>3, <1>6 DEF EnrollmentRow, EnrollerState
<1> HIDE DEF row, new
<1>8. /\ \A f \in Enrollers : f # e => enroller'[f] = enroller[f]
      /\ enroller'[e].at = "onboarding" /\ enroller'[e].todo = enroller[e].todo
  BY <1>1, <1>6 DEF EnrollerState
<1>9. enroller' \in [Enrollers -> EnrollerState]
  <2>1. [enroller[e] EXCEPT !.at = "onboarding", !.since = clock] \in EnrollerState
    BY <1>6 DEF EnrollerState
  <2>2. enroller' = [enroller EXCEPT ![e] = [enroller[e] EXCEPT !.at = "onboarding", !.since = clock]]
    BY <1>1
  <2> QED
    BY <1>6, <2>1, <2>2
<1>10. status \in [Applicants -> Status]
  BY DEF RankInv, StatusType
<1>11. /\ status'[row.application] = "ENROLLED"
       /\ \A a \in Applicants : a # row.application => status'[a] = status[a]
  BY <1>1, <1>3, <1>10
<1>12. StatusType'
  BY <1>1, <1>3, <1>10 DEF StatusType, Status
<1>13. RankInv'
  BY <1>1, <1>4, <1>11, <1>12, RankingUntouched
<1>14. EnrollTypes'
  BY <1>1, <1>6, <1>7, <1>9 DEF EnrollTypes
<1>15. TodoAdmitted'
  <2>1. \A f \in Enrollers : enroller'[f].todo = enroller[f].todo
    BY <1>8
  <2>2. \A a \in Applicants : status[a] \in {"DECIDED", "ENROLLED"} => status'[a] \in {"DECIDED", "ENROLLED"}
    BY <1>11
  <2> SUFFICES ASSUME NEW f \in Enrollers, NEW i \in DOMAIN enroller[f].todo
               PROVE  /\ final'[enroller[f].todo[i].application] = "ADMIT"
                      /\ \/ enroller[f].todo[i].application \in ByHand
                         \/ status'[enroller[f].todo[i].application] \in {"DECIDED", "ENROLLED"}
    BY <2>1 DEF TodoAdmitted
  <2>3. enroller[f].todo[i].application \in Applicants
    BY TodoType
  <2> QED
    BY <1>1, <2>2, <2>3 DEF EnrollInv, TodoAdmitted
<1>16. TodoRanked'
  <2>1. \A f \in Enrollers : enroller'[f].todo = enroller[f].todo
    BY <1>8
  <2>2. \A f \in Enrollers : enroller'[f].at \in {"enrolling", "onboarding", "minting"} =>
          enroller[f].at \in {"enrolling", "onboarding", "minting"}
    BY <1>1, <1>8
  <2>3. UNCHANGED results
    BY <1>1
  <2> QED
    BY <2>1, <2>2, <2>3 DEF EnrollInv, TodoRanked, RankedAs
<1>17. Minting'
  <2> SUFFICES ASSUME NEW f \in Enrollers, enroller'[f].at \in {"onboarding", "minting"}
               PROVE  /\ enroller'[f].todo # <<>>
                      /\ \E q \in enrollments' : /\ q.application = Head(enroller'[f].todo).application
                                                 /\ q.number = Head(enroller'[f].todo).number
    BY DEF Minting, Current
  <2>1. CASE f = e
    <3>1. enroller'[f].todo # <<>> /\ Head(enroller'[f].todo) = row
      BY <1>1, <1>8, <2>1 DEF row, Current
    <3>2. new \in enrollments'
      BY <1>1
    <3> QED
      BY <1>7, <3>1, <3>2
  <2>2. CASE f # e
    <3>1. enroller'[f] = enroller[f] /\ enrollments \subseteq enrollments'
      BY <1>1, <1>8, <2>2
    <3> QED
      BY <3>1 DEF EnrollInv, Minting, Current
  <2> QED
    BY <2>1, <2>2
<1>18. EnrollmentsRanked'
  BY <1>1, <1>5, <1>7 DEF EnrollInv, EnrollmentsRanked, RankedAs
<1>19. AdmittedIdentity'
  <2>1. \A a \in Applicants : Enrolled(a)' <=> Enrolled(a) \/ a = row.application
    BY <1>1, <1>7 DEF Enrolled
  <2>2. \A a \in Applicants \ ByHand : status'[a] = "ENROLLED" <=> Enrolled(a)'
    BY <1>11, <2>1 DEF EnrollInv, AdmittedIdentity
  <2>3. \A q \in enrollments' : final'[q.application] = "ADMIT"
    BY <1>1, <1>4, <1>7 DEF EnrollInv, AdmittedIdentity
  <2>4. \A student \in students' : \E q \in enrollments' :
          q.application = student.application /\ q.number = student.number
    BY <1>1 DEF EnrollInv, AdmittedIdentity
  <2> QED
    BY <2>2, <2>3, <2>4 DEF AdmittedIdentity
<1> QED
  BY <1>13, <1>14, <1>15, <1>16, <1>17, <1>18, <1>19 DEF EnrollInv

\* Steps that only take the request further.
LEMMA ListSteps ==
  ASSUME RankInv, EnrollInv, NEW e \in Enrollers,
         EnrollFailsFor(e) \/ OnboardRead(e) \/ EnrollFinish(e) \/ EnrollStops(e)
  PROVE  RankInv' /\ EnrollInv'
<1> DEFINE this == enroller[e]
<1>1. /\ enroller \in [Enrollers -> EnrollerState] /\ this \in EnrollerState
      /\ this.todo \in Seq(Item)
  BY DEF EnrollInv, EnrollTypes, EnrollerState
<1>2. UNCHANGED <<rankVars, final, enrollments, students, clock>>
  BY DEF EnrollFailsFor, OnboardRead, EnrollFinish, EnrollStops
<1>3. UNCHANGED <<status, results>>
  BY <1>2 DEF rankVars
<1>4. /\ clock' \in Nat /\ students' \subseteq StudentRow
      /\ \A student \in students' : \E row \in enrollments :
           row.application = student.application /\ row.number = student.number
  BY <1>2 DEF EnrollInv, EnrollTypes, AdmittedIdentity
<1>5. SUFFICES enroller' \in [Enrollers -> EnrollerState] /\ TodoAdmitted' /\ TodoRanked' /\ Minting'
  BY <1>2, <1>4, RunGoesOn
<1>6. CASE EnrollFailsFor(e)
  <2> DEFINE next == [this EXCEPT !.poisoned = TRUE, !.todo = Tail(this.todo)]
  <2>1. enroller' = [enroller EXCEPT ![e] = next] /\ this.at = "enrolling" /\ this.todo # <<>>
    BY <1>6 DEF EnrollFailsFor
  <2>2. Tail(this.todo) \in Seq(Item)
        /\ \A i \in DOMAIN Tail(this.todo) : \E j \in DOMAIN this.todo : Tail(this.todo)[i] = this.todo[j]
    BY <1>1, <2>1, TailOfList
  <2>3. next \in EnrollerState /\ next.at = "enrolling" /\ next.todo = Tail(this.todo)
    BY <1>1, <2>1, <2>2 DEF EnrollerState
  <2>4. \A i \in DOMAIN next.todo : \E j \in DOMAIN this.todo : next.todo[i] = this.todo[j]
    BY <2>2, <2>3
  <2>5. next.at = "enrolling" /\ this.at \in {"enrolling", "onboarding", "minting"}
    BY <2>1, <2>3
  <2> HIDE DEF next
  <2> QED
    BY <1>2, <1>3, <2>1, <2>3, <2>4, <2>5, ListShrinks
<1>7. CASE OnboardRead(e) /\ Onboarded(Current(e).application)
  <2>1. PICK next : /\ next = [this EXCEPT !.at = "enrolling", !.todo = Tail(this.todo)]
                    /\ enroller' = [enroller EXCEPT ![e] = next] /\ this.at = "onboarding"
    BY <1>7 DEF OnboardRead
  <2>2. this.todo # <<>>
    BY <2>1 DEF EnrollInv, Minting
  <2>3. Tail(this.todo) \in Seq(Item)
        /\ \A i \in DOMAIN Tail(this.todo) : \E j \in DOMAIN this.todo : Tail(this.todo)[i] = this.todo[j]
    BY <1>1, <2>2, TailOfList
  <2>4. next \in EnrollerState /\ next.at = "enrolling" /\ next.todo = Tail(this.todo)
    BY <1>1, <2>1, <2>3 DEF EnrollerState
  <2>5. \A i \in DOMAIN next.todo : \E j \in DOMAIN this.todo : next.todo[i] = this.todo[j]
    BY <2>3, <2>4
  <2>6. next.at = "enrolling" /\ this.at \in {"enrolling", "onboarding", "minting"}
    BY <2>1, <2>4
  <2>7. next \in EnrollerState /\ enroller' = [enroller EXCEPT ![e] = next]
    BY <2>1, <2>4
  <2>8. UNCHANGED <<status, results, final, enrollments>>
    BY <1>2, <1>3
  <2> QED
    BY <2>5, <2>6, <2>7, <2>8, ListShrinks
<1>8. CASE OnboardRead(e) /\ ~Onboarded(Current(e).application)
  <2> DEFINE next == [this EXCEPT !.at = "minting"]
  <2>1. enroller' = [enroller EXCEPT ![e] = next] /\ this.at = "onboarding"
    BY <1>8 DEF OnboardRead
  <2>2. next \in EnrollerState /\ next.at = "minting" /\ next.todo = this.todo
    BY <1>1 DEF EnrollerState
  <2> HIDE DEF next
  <2> QED
    BY <1>2, <1>3, <2>1, <2>2, ListShrinks
<1>9. CASE EnrollFinish(e) \/ EnrollStops(e)
  <2>1. enroller' = [enroller EXCEPT ![e] = Waiting]
    BY <1>9 DEF EnrollFinish, EnrollStops
  <2>2. Waiting \in EnrollerState /\ Waiting.at = "idle" /\ DOMAIN Waiting.todo = {}
    <3>1. <<>> \in Seq(Item) /\ DOMAIN <<>> = {}
      OBVIOUS
    <3> QED
      BY <3>1 DEF Waiting, EnrollerState
  <2> QED
    BY <1>2, <1>3, <2>1, <2>2, ListShrinks
<1> QED
  BY <1>6, <1>7, <1>8, <1>9

LEMMA OnboardCommitSteps ==
  ASSUME RankInv, EnrollInv, NEW e \in Enrollers, OnboardCommit(e)
  PROVE  RankInv' /\ EnrollInv'
<1> DEFINE this == enroller[e]
           student == [application |-> Current(e).application, number |-> Current(e).number]
<1>1. /\ enroller \in [Enrollers -> EnrollerState] /\ this \in EnrollerState
      /\ this.todo \in Seq(Item) /\ clock \in Nat /\ students \subseteq StudentRow
  BY DEF EnrollInv, EnrollTypes, EnrollerState
<1>2. UNCHANGED <<rankVars, final, enrollments>> /\ this.at = "minting"
  BY DEF OnboardCommit
<1>3. UNCHANGED <<status, results>>
  BY <1>2 DEF rankVars
<1>4. PICK next : /\ enroller' = [enroller EXCEPT ![e] = next]
                  /\ \/ next = [this EXCEPT !.at = "enrolling", !.todo = Tail(this.todo), !.since = clock]
                     \/ next = [this EXCEPT !.at = "enrolling", !.todo = Tail(this.todo), !.poisoned = TRUE]
  <2>1. \/ enroller' = [enroller EXCEPT ![e] =
              [this EXCEPT !.at = "enrolling", !.todo = Tail(this.todo), !.since = clock]]
        \/ enroller' = [enroller EXCEPT ![e] =
              [this EXCEPT !.at = "enrolling", !.todo = Tail(this.todo), !.poisoned = TRUE]]
    BY DEF OnboardCommit
  <2> QED
    BY <2>1, Zenon
<1>5. this.todo # <<>>
  BY <1>2 DEF EnrollInv, Minting
<1>6. Tail(this.todo) \in Seq(Item)
      /\ \A i \in DOMAIN Tail(this.todo) : \E j \in DOMAIN this.todo : Tail(this.todo)[i] = this.todo[j]
  BY <1>1, <1>5, TailOfList
<1>7. next \in EnrollerState /\ next.at = "enrolling" /\ next.todo = Tail(this.todo)
  BY <1>1, <1>4, <1>6 DEF EnrollerState
<1>8. enroller' \in [Enrollers -> EnrollerState] /\ TodoAdmitted' /\ TodoRanked' /\ Minting'
  <2>1. \A i \in DOMAIN next.todo : \E j \in DOMAIN this.todo : next.todo[i] = this.todo[j]
    BY <1>6, <1>7
  <2>2. next.at = "enrolling" /\ this.at \in {"enrolling", "onboarding", "minting"}
    BY <1>2, <1>7
  <2> QED
    BY <1>2, <1>3, <1>4, <1>7, <2>1, <2>2, ListShrinks
<1>9. students' \subseteq students \cup {student} /\ clock' \in Nat
  BY <1>1 DEF OnboardCommit
<1>10. student \in StudentRow
  <2>1. Current(e) \in Item
    BY <1>1, <1>5 DEF Current
  <2> QED
    BY <2>1 DEF Item, StudentRow
<1>11. \E row \in enrollments : row.application = student.application /\ row.number = student.number
  BY <1>2 DEF EnrollInv, Minting
<1> HIDE DEF student
<1>12. students' \subseteq StudentRow
  BY <1>1, <1>9, <1>10
<1>13. \A s \in students' : \E row \in enrollments : row.application = s.application /\ row.number = s.number
  BY <1>9, <1>11 DEF EnrollInv, AdmittedIdentity
<1> QED
  BY <1>2, <1>8, <1>9, <1>12, <1>13, RunGoesOn

LEMMA OnboardByHandSteps ==
  ASSUME RankInv, EnrollInv, NEW a \in Applicants, OnboardByHand(a)
  PROVE  RankInv' /\ EnrollInv'
<1>1. PICK row \in enrollments :
        /\ row.application = a
        /\ students' = students \cup {[application |-> a, number |-> row.number]}
  BY DEF OnboardByHand
<1>2. UNCHANGED <<rankVars, final, enrollments, clock, enroller>>
  BY DEF OnboardByHand
<1>3. students' \subseteq StudentRow /\ clock' \in Nat /\ enroller' \in [Enrollers -> EnrollerState]
  BY <1>1, <1>2 DEF EnrollInv, EnrollTypes, EnrollmentRow, StudentRow
<1>4. TodoAdmitted' /\ TodoRanked' /\ Minting'
  BY <1>2 DEF EnrollInv, TodoAdmitted, TodoRanked, RankedAs, Minting, Current, rankVars
<1>5. \A student \in students' : \E q \in enrollments :
        q.application = student.application /\ q.number = student.number
  BY <1>1 DEF EnrollInv, AdmittedIdentity
<1> QED
  BY <1>2, <1>3, <1>4, <1>5, RunGoesOn

\* Whatever an officer moves by hand, nobody leaves the advanced statuses.
LEMMA ChangeStatusSteps ==
  ASSUME RankInv, EnrollInv, NEW a \in ByHand, ChangeStatus(a)
  PROVE  RankInv' /\ EnrollInv'
<1>1. /\ a \in Applicants /\ status \in [Applicants -> Status]
      /\ status[a] \in DOMAIN ALLOWED_TRANSITIONS
      /\ status' = [status EXCEPT ![a] = ALLOWED_TRANSITIONS[status[a]]]
      /\ UNCHANGED <<results, ranker, enrollVars>>
  BY EnrollmentAssumption DEF ChangeStatus, RankInv, StatusType
<1>2. /\ ALLOWED_TRANSITIONS[status[a]] \in Status
      /\ status[a] \in Advanced => ALLOWED_TRANSITIONS[status[a]] \in Advanced
  BY <1>1 DEF ALLOWED_TRANSITIONS, Status
<1>3. /\ \A b \in Applicants : b # a => status'[b] = status[b]
      /\ status'[a] = ALLOWED_TRANSITIONS[status[a]]
  BY <1>1
<1>4. StatusType'
  BY <1>1, <1>2 DEF StatusType
<1>5. \A b \in Applicants : \/ status'[b] = status[b]
                            \/ status[b] \in Advanced /\ status'[b] \in Advanced
                            \/ b \in ByHand /\ status[b] \notin Advanced
  BY <1>2, <1>3
<1>6. RankInv'
  BY <1>1, <1>4, <1>5, RankingUntouched
<1> QED
  BY <1>1, <1>3, <1>6, EnrolmentUntouched

LEMMA EnrollSteps ==
  ASSUME RankInv, EnrollInv, EnrollNext
  PROVE  RankInv' /\ EnrollInv'
BY DecideSteps, OnboardByHandSteps, ChangeStatusSteps, EnrollLoadSteps, EnrollReadSteps,
   EnrollStudentSteps, ListSteps, OnboardCommitSteps DEF EnrollNext

-----------------------------------------------------------------------------
(* The theorems.                                                           *)

LEMMA Stutter ==
  ASSUME IInv, UNCHANGED vars
  PROVE  IInv'
<1> USE DEF vars, rankVars, enrollVars
<1>1. RankInv'
  BY RankingUntouched DEF IInv, RankInv, StatusType
<1> QED
  BY <1>1, EnrolmentUntouched DEF IInv

\* With one ranking request at a time, however enrolment requests overlap and
\* wherever requests stop: rows, what requests remember and what they have
\* committed are consistent.
THEOREM Invariant == ASSUME OneRanker PROVE Spec => []IInv
<1>1. Init => IInv
  BY InitRank, InitEnroll DEF IInv
<1>2. IInv /\ [Next]_vars => IInv'
  <2>1. ASSUME IInv, RankNext, UNCHANGED enrollVars PROVE IInv'
    BY <2>1, RankingSteps DEF IInv
  <2>2. ASSUME IInv, EnrollNext PROVE IInv'
    BY <2>2, EnrollSteps DEF IInv
  <2> QED
    BY <2>1, <2>2, Stutter DEF Next
<1> QED
  BY <1>1, <1>2, PTL DEF Spec

\* An applicant's seat is the same in every row any ranking run writes
\* (ranking/router.py: prior seats are carried over, wherever a run stops).
THEOREM SeatsStand == ASSUME OneRanker PROVE Spec => []SeatStands
<1>1. IInv => SeatStands
  BY DEF IInv, RankInv
<1> QED
  BY <1>1, Invariant, PTL

\* The program of an enrolment is the one every ranking row gives, although the
\* rows are read while a run may be writing (enrollment/router.py); only an
\* application moved on by hand may be enrolled without one.
THEOREM EnrolledInRankedProgram == ASSUME OneRanker PROVE Spec => []EnrolledAsRanked
<1>1. IInv => EnrolledAsRanked
  BY DEF IInv, EnrollInv, EnrollmentsRanked, RankedAs, EnrolledAsRanked
<1> QED
  BY <1>1, Invariant, PTL

\* Application, enrolment and student rows agree: enrolled applicants are admitted,
\* the student carries the row's university id, and of the applications nobody
\* moves by hand (undergraduate/router.py, the manual transition) exactly those
\* with a row are ENROLLED.
THEOREM OneIdentity == ASSUME OneRanker PROVE Spec => []AdmittedIdentity
<1>1. IInv => AdmittedIdentity
  BY DEF IInv, EnrollInv
<1> QED
  BY <1>1, Invariant, PTL

-----------------------------------------------------------------------------
(* Published cut-offs, and who gets which seat: for any number of ranking   *)
(* runs, one at a time, that may stop anywhere.  The inductive invariant,   *)
(* beside IInv.                                                             *)
(*                                                                          *)
(* A cut-off is the lowest score of all rows that give the program away,    *)
(* not only of the run that published it.  A run's plan covers the rows     *)
(* there are, with their scores, and adds nobody below the cut-off, so the  *)
(* lowest score of the plan is the cut-off again.                           *)
(*                                                                          *)
(* Nobody is passed over: the floor of a seat is what the earliest run to   *)
(* give it away asked for, and whoever wanted it in vain had been outdone   *)
(* by all rows of that run.                                                 *)

Scored == {"loaded", "numbered"}

UATType == uat \in [Applicants -> UATScores \cup {NoScore}]

\* An applicant's rows agree on the score.
ScoresStand ==
  /\ \A row \in results : row.uat \in UATScores
  /\ \A row, other \in results :
       row.application = other.application => row.uat = other.uat

\* No row gives the seat of p away for less than c.
Floor(p, c) == \A row \in results : row.seat = p => RowScore(row) >= c

CutoffIsLowest ==
  /\ cutoff \in [Programs -> Nat \cup {NoScore}]
  /\ \A p \in Programs : cutoff[p] # NoScore =>
       /\ Floor(p, cutoff[p])
       /\ \E row \in results : row.seat = p /\ RowScore(row) = cutoff[p]

SeenIsCutoff == \A r \in Rankers : ranker[r].at # "idle" => ranker[r].seen = cutoff

LoadedScores ==
  \A r \in Rankers : ranker[r].at \in Scored =>
    /\ DOMAIN ranker[r].scores = ranker[r].fresh
    /\ \A a \in ranker[r].fresh : ranker[r].scores[a] \in UATScores

\* A run numbers itself above all rows there are.
RunsBelow ==
  \A r \in Rankers : ranker[r].at \in {"numbered", "merged"} =>
    \A row \in results : row.run < ranker[r].number

\* Once merged, everybody who has a row is locked, with that row's score and seat.
MergeScored ==
  \A r \in Rankers : ranker[r].at = "merged" =>
    /\ \A a \in DOMAIN ranker[r].scores : ranker[r].scores[a] \in UATScores
    /\ \A row \in results :
         /\ row.application \in DOMAIN ranker[r].locked
         /\ ranker[r].locked[row.application] = row.seat
         /\ ranker[r].scores[row.application] = row.uat

PlanScored ==
  \A r \in Rankers : ranker[r].at = "persisting" =>
    \A i \in DOMAIN ranker[r].plan : ranker[r].plan[i].uat \in UATScores

\* The plan repeats every row there is, up to the run and the rank.
PlanCovers ==
  \A r \in Rankers : ranker[r].at = "persisting" =>
    \A row \in results : \E i \in DOMAIN ranker[r].plan :
      /\ ranker[r].plan[i].application = row.application
      /\ ranker[r].plan[i].seat = row.seat
      /\ ranker[r].plan[i].uat = row.uat

\* The plan gives no program away below its cut-off.
PlanAbove ==
  \A r \in Rankers : ranker[r].at = "persisting" =>
    \A i \in DOMAIN ranker[r].plan, p \in Programs :
      cutoff[p] # NoScore /\ ranker[r].plan[i].seat = p =>
        RowScore(ranker[r].plan[i]) >= cutoff[p]

CutoffInv ==
  /\ UATType
  /\ ScoresStand
  /\ CutoffIsLowest
  /\ SeenIsCutoff
  /\ LoadedScores
  /\ RunsBelow
  /\ MergeScored
  /\ PlanScored
  /\ PlanCovers
  /\ PlanAbove

-----------------------------------------------------------------------------
(* Scores and orders.                                                      *)

USE DEF Scored, Advanced, Numbered, Busy

LEMMA ScoreType ==
  ASSUME NEW a \in Applicants, NEW score \in UATScores
  PROVE  FinalScore(a, score) \in Nat
<1>1. Grade12[a] \in Nat /\ score \in Nat
  <2>1. Grade12[a] \in 0..600 /\ score \in 0..100
    BY RankingAssumption
  <2>2. \A n \in Nat : 0..n \subseteq Nat
    OBVIOUS
  <2> QED
    BY <2>1, <2>2
<1>2. \A n \in Nat : n \div 3 \in Nat
  OBVIOUS
<1>3. \A m, n \in Nat : 25 * m + 150 * n + 1 \in Nat
  OBVIOUS
<1> QED
  BY <1>1, <1>2, <1>3 DEF FinalScore

LEMMA RowScoreType ==
  ASSUME IInv, CutoffInv, NEW row \in results
  PROVE  RowScore(row) \in Nat
<1>1. row.application \in Applicants /\ row.uat \in UATScores
  BY DEF IInv, RankInv, RowsAdvanced, CutoffInv, ScoresStand
<1> QED
  BY <1>1, ScoreType DEF RowScore

\* An order of a finite set leaves nobody out.
LEMMA OrderCovers ==
  ASSUME NEW S, IsFiniteSet(S), NEW order \in SetToSeqs(S), NEW a \in S
  PROVE  \E i \in DOMAIN order : order[i] = a
<1> DEFINE n == Cardinality(S)
<1>1. n \in Nat
  BY FS_CardinalityType
<1>2. /\ order \in [1..n -> S]
      /\ \A i, j \in 1..n : order[i] = order[j] => i = j
  BY DEF SetToSeqs
<1>3. order \in Injection(1..n, S)
  BY <1>2 DEF Injection, IsInjective
<1>4. Cardinality(1..n) = n
  BY <1>1, FS_Interval
<1>5. order \in Surjection(1..n, S)
  BY <1>3, <1>4, FS_Injection
<1> QED
  BY <1>2, <1>5 DEF Surjection

LEMMA RankingCovers ==
  ASSUME NEW S, NEW G, S \subseteq Applicants, G \subseteq Applicants,
         NEW scores, NEW self \in Ranked(S, scores), NEW gov \in Ranked(G, scores)
  PROVE  \A a \in S \cup G : \E i \in DOMAIN (self \o gov) : (self \o gov)[i] = a
<1> SUFFICES ASSUME NEW a \in S \cup G
             PROVE  \E i \in DOMAIN (self \o gov) : (self \o gov)[i] = a
  OBVIOUS
<1>1. IsFiniteSet(S) /\ IsFiniteSet(G)
  BY RankingAssumption, FS_Subset
<1>2. self \in SetToSeqs(S) /\ gov \in SetToSeqs(G)
  BY DEF Ranked
<1>3. /\ self \in Seq(S \cup G) /\ DOMAIN self = 1..Len(self) /\ Len(self) \in Nat
      /\ gov \in Seq(S \cup G) /\ DOMAIN gov = 1..Len(gov) /\ Len(gov) \in Nat
  BY <1>1, <1>2, Orders
<1>4. /\ Len(self \o gov) = Len(self) + Len(gov)
      /\ DOMAIN (self \o gov) = 1..(Len(self) + Len(gov))
      /\ \A i \in 1..(Len(self) + Len(gov)) :
           (self \o gov)[i] = IF i <= Len(self) THEN self[i] ELSE gov[i - Len(self)]
  BY <1>3, ConcatProperties
<1>5. CASE a \in S
  <2>1. PICK i \in DOMAIN self : self[i] = a
    BY <1>1, <1>2, <1>5, OrderCovers
  <2>2. i \in 1..(Len(self) + Len(gov)) /\ i <= Len(self)
    BY <1>3, <2>1
  <2> QED
    BY <1>4, <2>1, <2>2
<1>6. CASE a \in G
  <2>1. PICK i \in DOMAIN gov : gov[i] = a
    BY <1>1, <1>2, <1>6, OrderCovers
  <2>2. PICK j \in 1..(Len(self) + Len(gov)) : ~(j <= Len(self)) /\ j - Len(self) = i
    <3>1. /\ i + Len(self) \in 1..(Len(self) + Len(gov)) /\ ~(i + Len(self) <= Len(self))
          /\ (i + Len(self)) - Len(self) = i
      BY <1>3, <2>1
    <3> QED
      BY <3>1
  <2>3. (self \o gov)[j] = gov[i]
    BY <1>4, <2>2
  <2> QED
    BY <1>4, <2>1, <2>3
<1> QED
  BY <1>5, <1>6

LEMMA RankingMembers ==
  ASSUME NEW S, NEW G, S \subseteq Applicants, G \subseteq Applicants,
         NEW scores, NEW self \in Ranked(S, scores), NEW gov \in Ranked(G, scores)
  PROVE  \A i \in DOMAIN (self \o gov) : (self \o gov)[i] \in S \cup G
<1>1. IsFiniteSet(S) /\ IsFiniteSet(G)
  BY RankingAssumption, FS_Subset
<1>2. self \in SetToSeqs(S) /\ gov \in SetToSeqs(G)
  BY DEF Ranked
<1>3. self \in Seq(S \cup G) /\ gov \in Seq(S \cup G)
  BY <1>1, <1>2, Orders
<1>4. self \o gov \in Seq(S \cup G)
  BY <1>3, ConcatProperties
<1> QED
  BY <1>4, ElementOfSeq

\* What a set of scores has as its lowest.
LEMMA LowestOf ==
  ASSUME NEW S, S \subseteq Nat, S # {}
  PROVE  Min(S) \in S /\ \A x \in S : Min(S) <= x
<1>1. \E m \in S : \A x \in S : m <= x
  BY Minimum
<1> QED
  BY <1>1 DEF Min

\* The floor a re-run applies to a seat some row gives away is a score that a row
\* has been given it for.
LEMMA CutoffAttained ==
  ASSUME IInv, CutoffInv, NEW p, NEW number \in Nat,
         \A row \in results : row.run < number,
         \E row \in results : row.seat = p
  PROVE  \E row \in results : row.seat = p /\ Cutoff(p, number) = RowScore(row)
<1> DEFINE given == {row \in results : row.seat = p /\ row.run < number}
           first == {row \in given : \A q \in given : row.run <= q.run}
           runs   == {row.run : row \in given}
           scores == {FinalScore(row.application, row.uat) : row \in first}
<1>1. given # {} /\ \A row \in given : row.run \in Nat
  BY DEF IInv, RankInv, RowsAdvanced
<1>2. first # {}
  <2>1. runs \subseteq Nat /\ runs # {}
    BY <1>1
  <2>2. \E m \in runs : \A x \in runs : m <= x
    <3> HIDE DEF runs
    <3> QED BY <2>1, Minimum
  <2>3. PICK row \in given : \A x \in runs : row.run <= x
    BY <2>2
  <2>4. row \in first
    BY <2>3
  <2> QED
    BY <2>4
<1>3. \A row \in first : FinalScore(row.application, row.uat) \in Nat
  <2>1. \A row \in first : row \in results
    OBVIOUS
  <2> QED
    BY <2>1, RowScoreType DEF RowScore
<1>4. scores \subseteq Nat /\ scores # {}
  BY <1>2, <1>3
<1>5. Min(scores) \in scores
  <2> HIDE DEF scores
  <2> QED BY <1>4, LowestOf
<1>6. Cutoff(p, number) = Min(scores)
  BY <1>1 DEF Cutoff
<1>7. PICK row \in first : Min(scores) = FinalScore(row.application, row.uat)
  BY <1>5
<1> QED
  BY <1>6, <1>7 DEF RowScore

-----------------------------------------------------------------------------
(* The steps.                                                              *)

LEMMA InitCutoff == Init => CutoffInv
<1> SUFFICES ASSUME Init PROVE CutoffInv
  OBVIOUS
<1> USE DEF Init, RankInit, Idle
<1>1. UATType /\ ScoresStand /\ CutoffIsLowest
  BY DEF UATType, ScoresStand, CutoffIsLowest
<1>2. SeenIsCutoff /\ LoadedScores /\ RunsBelow /\ MergeScored
  BY DEF SeenIsCutoff, LoadedScores, RunsBelow, MergeScored
<1>3. PlanScored /\ PlanCovers /\ PlanAbove
  BY DEF PlanScored, PlanCovers, PlanAbove
<1> QED
  BY <1>1, <1>2, <1>3 DEF CutoffInv

\* Steps that leave ranking alone and complete no test.
LEMMA CutoffUntouched ==
  ASSUME CutoffInv, UNCHANGED <<uat, results, cutoff, ranker>>
  PROVE  CutoffInv'
<1> USE DEF CutoffInv
<1>1. UATType' /\ ScoresStand'
  BY DEF UATType, ScoresStand
<1>2. CutoffIsLowest'
  BY DEF CutoffIsLowest, Floor
<1>3. SeenIsCutoff' /\ LoadedScores' /\ RunsBelow' /\ MergeScored'
  BY DEF SeenIsCutoff, LoadedScores, RunsBelow, MergeScored
<1>4. PlanScored' /\ PlanCovers' /\ PlanAbove'
  BY DEF PlanScored, PlanCovers, PlanAbove
<1> QED
  BY <1>1, <1>2, <1>3, <1>4

LEMMA EnrolmentCutoff ==
  ASSUME IInv, CutoffInv, EnrollNext
  PROVE  CutoffInv'
<1>1. ASSUME NEW a \in Applicants, Decide(a) \/ OnboardByHand(a)
      PROVE  CutoffInv'
  BY <1>1, CutoffUntouched DEF Decide, OnboardByHand, rankVars
<1>2. ASSUME NEW a \in ByHand, ChangeStatus(a)
      PROVE  CutoffInv'
  BY <1>2, CutoffUntouched DEF ChangeStatus
<1>3. ASSUME NEW e \in Enrollers, EnrollStudent(e)
      PROVE  CutoffInv'
  BY <1>3, CutoffUntouched DEF EnrollStudent
<1>4. ASSUME NEW e \in Enrollers,
             \/ EnrollLoad(e)    \/ EnrollRead(e)   \/ EnrollFailsFor(e) \/ OnboardRead(e)
             \/ OnboardCommit(e) \/ EnrollFinish(e) \/ EnrollStops(e)
      PROVE  CutoffInv'
  <2>1. UNCHANGED rankVars
    BY <1>4 DEF EnrollLoad, EnrollRead, EnrollFailsFor, OnboardRead, OnboardCommit,
                EnrollFinish, EnrollStops
  <2> QED
    BY <2>1, CutoffUntouched DEF rankVars
<1> QED
  BY <1>1, <1>2, <1>3, <1>4 DEF EnrollNext

LEMMA CompleteUATCutoff ==
  ASSUME IInv, CutoffInv, NEW a \in Applicants, CompleteUAT(a)
  PROVE  CutoffInv'
<1> USE DEF CutoffInv
<1>1. PICK score \in UATScores : uat' = [uat EXCEPT ![a] = score]
  BY DEF CompleteUAT
<1>2. UATType'
  BY <1>1 DEF UATType
<1>3. UNCHANGED <<results, cutoff, ranker>>
  BY DEF CompleteUAT
<1>4. ScoresStand' /\ CutoffIsLowest'
  BY <1>3 DEF ScoresStand, CutoffIsLowest, Floor
<1>5. SeenIsCutoff' /\ LoadedScores' /\ RunsBelow' /\ MergeScored'
  BY <1>3 DEF SeenIsCutoff, LoadedScores, RunsBelow, MergeScored
<1>6. PlanScored' /\ PlanCovers' /\ PlanAbove'
  BY <1>3 DEF PlanScored, PlanCovers, PlanAbove
<1> QED
  BY <1>2, <1>4, <1>5, <1>6

\* Steps that only change what their own request remembers.
LEMMA OnlyRequest ==
  ASSUME CutoffInv, UNCHANGED <<status, uat, results, cutoff>>, SeenIsCutoff',
         LoadedScores', RunsBelow', MergeScored', PlanScored', PlanCovers', PlanAbove'
  PROVE  CutoffInv'
<1>1. UATType' /\ ScoresStand'
  BY DEF CutoffInv, UATType, ScoresStand
<1>2. CutoffIsLowest'
  BY DEF CutoffInv, CutoffIsLowest, Floor
<1> QED
  BY <1>1, <1>2 DEF CutoffInv

LEMMA RunFailsCutoff ==
  ASSUME OneRanker, IInv, CutoffInv, NEW r \in Rankers, RunFails(r)
  PROVE  CutoffInv'
<1>1. \A s \in Rankers : ranker'[s].at = "idle"
  BY DEF RunFails, OneRanker, IInv, RankInv, RankerShape, Idle
<1>2. SeenIsCutoff' /\ LoadedScores' /\ RunsBelow' /\ MergeScored'
  BY <1>1 DEF SeenIsCutoff, LoadedScores, RunsBelow, MergeScored
<1>3. PlanScored' /\ PlanCovers' /\ PlanAbove'
  BY <1>1 DEF PlanScored, PlanCovers, PlanAbove
<1> QED
  BY <1>2, <1>3, OnlyRequest DEF RunFails

LEMMA RunLoadCutoff ==
  ASSUME OneRanker, IInv, CutoffInv, NEW r \in Rankers, RunLoad(r)
  PROVE  CutoffInv'
<1> DEFINE fresh == {a \in {b \in Applicants : status[b] = "UAT_COMPLETED"} : uat[a] # NoScore}
<1>1. \A s \in Rankers : /\ ranker'[s].at = "loaded" /\ ranker'[s].fresh = fresh
                         /\ ranker'[s].seen = cutoff
                         /\ ranker'[s].scores = [a \in fresh |-> uat[a]]
  BY DEF RunLoad, OneRanker, IInv, RankInv, RankerShape, Idle
<1>2. SeenIsCutoff'
  BY <1>1 DEF SeenIsCutoff, RunLoad
<1>3. LoadedScores'
  <2>1. \A a \in fresh : uat[a] \in UATScores
    BY DEF CutoffInv, UATType
  <2> HIDE DEF fresh
  <2> QED
    BY <1>1, <2>1 DEF LoadedScores
<1>4. RunsBelow' /\ MergeScored' /\ PlanScored' /\ PlanCovers' /\ PlanAbove'
  BY <1>1 DEF RunsBelow, MergeScored, PlanScored, PlanCovers, PlanAbove
<1> QED
  BY <1>2, <1>3, <1>4, OnlyRequest DEF RunLoad

\* Every row's run is at most the latest.
LEMMA LatestRunBound ==
  ASSUME IInv, NEW row \in results
  PROVE  LatestRun \in Nat /\ row.run \in Nat /\ row.run <= LatestRun
<1> DEFINE S == {0} \cup {q.run : q \in results}
<1>1. LatestRun \in Nat /\ row.run \in Nat /\ row.run \in S
  BY LatestRunType DEF IInv, RankInv, RowsAdvanced
<1>2. PICK n \in Nat : \A q \in results : q.run <= n
  BY DEF IInv, RankInv, RunsBounded
<1>3. S \subseteq Nat /\ S # {} /\ \A x \in S : x <= n
  BY <1>2 DEF IInv, RankInv, RowsAdvanced
<1>4. LatestRun = CHOOSE x \in S : \A y \in S : x >= y
  BY DEF LatestRun, Max
<1> HIDE DEF S
<1>5. \E m \in S : \A x \in S : x <= m
  BY <1>3, Maximum
<1>6. \E m \in S : \A y \in S : m >= y
  BY <1>3, <1>5
<1>7. \A y \in S : LatestRun >= y
  BY <1>4, <1>6
<1> QED
  BY <1>1, <1>7

LEMMA RunNumberCutoff ==
  ASSUME OneRanker, IInv, CutoffInv, NEW r \in Rankers, RunNumber(r)
  PROVE  CutoffInv'
<1>1. ranker[r].at = "loaded"
  BY DEF RunNumber
<1>2. \A s \in Rankers : /\ s = r /\ ranker'[s].at = "numbered"
                         /\ ranker'[s].number = LatestRun + 1
                         /\ ranker'[s].fresh = ranker[r].fresh
                         /\ ranker'[s].scores = ranker[r].scores
                         /\ ranker'[s].seen = ranker[r].seen
  BY DEF RunNumber, OneRanker, IInv, RankInv, RankerShape
<1>3. SeenIsCutoff' /\ LoadedScores'
  BY <1>1, <1>2 DEF CutoffInv, SeenIsCutoff, LoadedScores, RunNumber
<1>4. RunsBelow'
  <2>1. \A row \in results : row.run < LatestRun + 1
    BY LatestRunBound
  <2> QED
    BY <1>2, <2>1 DEF RunsBelow, RunNumber
<1>5. MergeScored' /\ PlanScored' /\ PlanCovers' /\ PlanAbove'
  BY <1>2 DEF MergeScored, PlanScored, PlanCovers, PlanAbove
<1> QED
  BY <1>3, <1>4, <1>5, OnlyRequest DEF RunNumber

LEMMA RunMergeCutoff ==
  ASSUME OneRanker, IInv, CutoffInv, NEW r \in Rankers, RunMerge(r)
  PROVE  CutoffInv'
<1> DEFINE prior == IF ranker[r].number = 1 THEN {}
                    ELSE {a \in Applicants \ ranker[r].fresh : LatestRows(a) # {}}
<1>1. PICK row \in [prior -> results] :
        /\ \A a \in prior : row[a] \in LatestRows(a)
        /\ ranker' = [ranker EXCEPT ![r].at = "merged",
             ![r].scores = [a \in ranker[r].fresh \cup prior |->
                 IF a \in prior THEN row[a].uat ELSE ranker[r].scores[a]],
             ![r].locked = [a \in prior |-> row[a].seat]]
  BY Zenon DEF RunMerge
<1>2. ranker[r].at = "numbered" /\ UNCHANGED <<status, uat, results, cutoff>>
  BY DEF RunMerge
\* Everybody who has a row is taken in.
<1>3. \A q \in results : q.application \in prior
  <2> SUFFICES ASSUME NEW q \in results PROVE q.application \in prior
    OBVIOUS
  <2>1. ranker[r].number # 1
    BY <1>2 DEF IInv, RankInv, FirstIsFirst
  <2>2. q.application \in Applicants \ ranker[r].fresh
    BY <1>2 DEF IInv, RankInv, FreshWaits, Unranked, RowsAdvanced
  <2>3. LatestRows(q.application) # {}
    BY LatestExists DEF IInv, RankInv
  <2> QED
    BY <2>1, <2>2, <2>3
<1> HIDE DEF prior
<1>4. /\ \A s \in Rankers : s = r
      /\ ranker'[r].at = "merged" /\ ranker'[r].number = ranker[r].number
      /\ ranker'[r].scores = [a \in ranker[r].fresh \cup prior |->
                                IF a \in prior THEN row[a].uat ELSE ranker[r].scores[a]]
      /\ ranker'[r].locked = [a \in prior |-> row[a].seat]
      /\ ranker'[r].seen = ranker[r].seen
  BY <1>1 DEF OneRanker, IInv, RankInv, RankerShape
<1>5. \A a \in prior : row[a] \in results /\ row[a].application = a
  BY <1>1 DEF LatestRows
<1>6. SeenIsCutoff' /\ RunsBelow'
  BY <1>2, <1>4 DEF CutoffInv, SeenIsCutoff, RunsBelow
<1>7. MergeScored'
  <2>1. \A a \in ranker[r].fresh : ranker[r].scores[a] \in UATScores
    BY <1>2 DEF CutoffInv, LoadedScores
  <2>2. \A a \in prior : row[a].uat \in UATScores
    BY <1>5 DEF CutoffInv, ScoresStand
  <2>3. \A a \in DOMAIN ranker'[r].scores : ranker'[r].scores[a] \in UATScores
    BY <1>4, <2>1, <2>2
  <2>4. ASSUME NEW q \in results
        PROVE  /\ q.application \in DOMAIN ranker'[r].locked
               /\ ranker'[r].locked[q.application] = q.seat
               /\ ranker'[r].scores[q.application] = q.uat
    <3>1. q.application \in prior
      BY <1>3
    <3>2. row[q.application].seat = q.seat /\ row[q.application].uat = q.uat
      BY <1>5, <3>1 DEF IInv, RankInv, SeatStands, CutoffInv, ScoresStand
    <3> QED
      BY <1>4, <3>1, <3>2
  <2>5. UNCHANGED results /\ \A s \in Rankers : s = r
    BY <1>2, <1>4
  <2> QED
    BY <2>3, <2>4, <2>5 DEF MergeScored
<1>8. LoadedScores' /\ PlanScored' /\ PlanCovers' /\ PlanAbove'
  BY <1>4 DEF LoadedScores, PlanScored, PlanCovers, PlanAbove
<1> QED
  BY <1>2, <1>6, <1>7, <1>8, OnlyRequest

\* Who is given an open seat is given one that is open.
LEMMA FirstOpenIsOpen ==
  ASSUME NEW a \in Applicants, NEW open, NEW p, p # NoSeat, FirstOpen(a, open) = p
  PROVE  p \in open
<1> DEFINE hits == {i \in DOMAIN Preference[a] : Preference[a][i] \in open}
<1>1. hits # {} /\ Preference[a][Min(hits)] = p
  BY DEF FirstOpen
<1>2. hits \subseteq Nat
  BY RankingAssumption
<1>3. Min(hits) \in hits
  <2> HIDE DEF hits
  <2> QED BY <1>1, <1>2, LowestOf
<1> QED
  BY <1>1, <1>3

\* Whoever a re-run gives a seat by the floors does not lower its cut-off.
LEMMA ReachedAbove ==
  ASSUME IInv, CutoffInv, NEW p \in Programs, cutoff[p] # NoScore,
         NEW number \in Nat, \A row \in results : row.run < number,
         NEW a \in Applicants, NEW score \in Nat,
         FirstOpen(a, Reaches(score, number)) = p
  PROVE  score >= cutoff[p]
<1>1. p # NoSeat
  BY RankingAssumption DEF Seats
<1>2. p \in Reaches(score, number)
  BY <1>1, FirstOpenIsOpen
<1>3. /\ \E row \in results : row.seat = p
      /\ \A row \in results : row.seat = p => RowScore(row) >= cutoff[p]
      /\ cutoff[p] \in Nat
  BY DEF CutoffInv, CutoffIsLowest, Floor
<1>4. PICK row \in results : row.seat = p /\ Cutoff(p, number) = RowScore(row)
  BY <1>3, CutoffAttained
<1>5. RowScore(row) \in Nat /\ RowScore(row) >= cutoff[p]
  BY <1>3, <1>4, RowScoreType
<1>6. Cutoff(p, number) = NoScore \/ score >= Cutoff(p, number)
  BY <1>2 DEF Reaches
<1> QED
  BY <1>3, <1>4, <1>5, <1>6 DEF NoScore

LEMMA RunAssignCutoff ==
  ASSUME OneRanker, IInv, CutoffInv, NEW r \in Rankers, RunAssign(r)
  PROVE  CutoffInv'
<1> DEFINE run == ranker[r]
           all == DOMAIN run.scores
           S   == {a \in all : ~Government(a)}
           G   == {a \in all : Government(a)}
<1>1. PICK self \in Ranked(S, run.scores), gov \in Ranked(G, run.scores) :
        ranker' = [ranker EXCEPT ![r].at = "persisting",
          ![r].plan = [i \in DOMAIN (self \o gov) |->
            [application |-> (self \o gov)[i], run |-> run.number,
             uat |-> run.scores[(self \o gov)[i]],
             rank |-> IF i <= Len(self) THEN i ELSE i - Len(self),
             seat |-> IF run.number = 1 THEN Allocation(self \o gov)[i]
                      ELSE IF (self \o gov)[i] \in DOMAIN run.locked
                           THEN run.locked[(self \o gov)[i]]
                      ELSE FirstOpen((self \o gov)[i],
                             Reaches(FinalScore((self \o gov)[i],
                                                run.scores[(self \o gov)[i]]), run.number))]]]
  BY Zenon DEF RunAssign
<1>2. run.at = "merged" /\ UNCHANGED <<status, uat, results, cutoff>>
  BY DEF RunAssign
<1>3. /\ all = run.fresh \cup DOMAIN run.locked
      /\ \A a \in DOMAIN run.locked :
           \E row \in results : row.application = a /\ row.seat = run.locked[a]
      /\ run.number \in Nat \ {0} /\ run.fresh \subseteq Applicants
  BY <1>2 DEF IInv, RankInv, MergeBacked, RankerShape
<1>4. all \subseteq Applicants
  BY <1>3 DEF IInv, RankInv, RowsAdvanced
<1>5. /\ \A a \in all : run.scores[a] \in UATScores
      /\ \A row \in results : /\ row.application \in DOMAIN run.locked
                              /\ run.locked[row.application] = row.seat
                              /\ run.scores[row.application] = row.uat
      /\ \A row \in results : row.run < run.number
  BY <1>2 DEF CutoffInv, MergeScored, RunsBelow
<1>6. PICK order : order = self \o gov
  OBVIOUS
<1>7. /\ \A i \in DOMAIN order : order[i] \in all
      /\ \A a \in all : \E i \in DOMAIN order : order[i] = a
  <2>1. S \subseteq Applicants /\ G \subseteq Applicants /\ S \cap G = {} /\ S \cup G = all
    BY <1>4
  <2> HIDE DEF all, run, S, G
  <2>2. \A i \in DOMAIN (self \o gov) : (self \o gov)[i] \in S \cup G
    BY <2>1, RankingMembers, Zenon
  <2>3. \A a \in S \cup G : \E i \in DOMAIN (self \o gov) : (self \o gov)[i] = a
    BY <2>1, RankingCovers, SMT
  <2> QED
    BY <1>6, <2>1, <2>2, <2>3, Zenon
<1>8. /\ \A s \in Rankers : s = r
      /\ ranker'[r].at = "persisting" /\ ranker'[r].seen = run.seen
      /\ DOMAIN ranker'[r].plan = DOMAIN order
      /\ \A i \in DOMAIN order :
           /\ ranker'[r].plan[i].application = order[i]
           /\ ranker'[r].plan[i].uat = run.scores[order[i]]
           /\ run.number # 1 =>
                ranker'[r].plan[i].seat =
                  IF order[i] \in DOMAIN run.locked THEN run.locked[order[i]]
                  ELSE FirstOpen(order[i],
                         Reaches(FinalScore(order[i], run.scores[order[i]]), run.number))
  BY <1>1, <1>6 DEF OneRanker, IInv, RankInv, RankerShape
\* With a row there is an earlier run.
<1>9. results # {} => run.number # 1
  <2>1. \A row \in results : row.run \in Nat \ {0}
    BY DEF IInv, RankInv, RowsAdvanced
  <2> QED
    BY <1>3, <1>5, <2>1
<1> DEFINE plan == ranker'[r].plan
<1>10. SeenIsCutoff'
  BY <1>2, <1>8 DEF CutoffInv, SeenIsCutoff
<1>11. PlanScored'
  BY <1>5, <1>7, <1>8 DEF PlanScored
<1>12. PlanCovers'
  <2>1. ASSUME NEW row \in results
        PROVE  \E i \in DOMAIN plan : /\ plan[i].application = row.application
                                      /\ plan[i].seat = row.seat
                                      /\ plan[i].uat = row.uat
    <3>1. row.application \in all /\ row.application \in DOMAIN run.locked
      BY <1>3, <1>5
    <3>2. PICK i \in DOMAIN order : order[i] = row.application
      BY <1>7, <3>1
    <3>3. run.number # 1
      BY <1>9
    <3> QED
      BY <1>5, <1>8, <3>1, <3>2, <3>3
  <2> QED
    BY <1>2, <1>8, <2>1 DEF PlanCovers
<1>13. PlanAbove'
  <2>1. ASSUME NEW i \in DOMAIN order, NEW p \in Programs,
               cutoff[p] # NoScore, plan[i].seat = p
        PROVE  FinalScore(order[i], run.scores[order[i]]) >= cutoff[p]
    <3>1. /\ \E row \in results : row.seat = p
          /\ \A row \in results : row.seat = p => RowScore(row) >= cutoff[p]
      BY <2>1 DEF CutoffInv, CutoffIsLowest, Floor
    <3>2. run.number # 1
      BY <1>9, <3>1
    <3>3. CASE order[i] \in DOMAIN run.locked
      <4>1. PICK row \in results : row.application = order[i] /\ row.seat = run.locked[order[i]]
        BY <1>3, <3>3
      <4>2. row.seat = p /\ row.uat = run.scores[order[i]]
        BY <1>5, <1>8, <2>1, <3>2, <3>3, <4>1
      <4> QED
        BY <3>1, <4>1, <4>2 DEF RowScore
    <3>4. CASE order[i] \notin DOMAIN run.locked
      <4>1. /\ order[i] \in Applicants /\ run.number \in Nat
            /\ FinalScore(order[i], run.scores[order[i]]) \in Nat
        BY <1>3, <1>4, <1>5, <1>7, ScoreType
      <4>2. FirstOpen(order[i], Reaches(FinalScore(order[i], run.scores[order[i]]),
                                        run.number)) = p
        BY <1>8, <2>1, <3>2, <3>4
      <4> HIDE DEF run
      <4> QED
        BY <1>5, <2>1, <4>1, <4>2, ReachedAbove
    <3> QED
      BY <3>3, <3>4
  <2>2. \A i \in DOMAIN order :
          RowScore(plan[i]) = FinalScore(order[i], run.scores[order[i]])
    BY <1>8 DEF RowScore
  <2> QED
    BY <1>2, <1>8, <2>1, <2>2 DEF PlanAbove, RowScore
<1>14. LoadedScores' /\ RunsBelow' /\ MergeScored'
  BY <1>8 DEF LoadedScores, RunsBelow, MergeScored
<1> QED
  BY <1>2, <1>10, <1>11, <1>12, <1>13, <1>14, OnlyRequest

\* Some of the plan's rows are committed, or all of them.
LEMMA PlannedRows ==
  ASSUME OneRanker, IInv, CutoffInv, NEW r \in Rankers, ranker[r].at = "persisting",
         NEW I, I \subseteq DOMAIN ranker[r].plan,
         results' = results \cup {ranker[r].plan[i] : i \in I}
  PROVE  /\ ScoresStand'
         /\ \A row \in results' : \E i \in DOMAIN ranker[r].plan :
              /\ ranker[r].plan[i].application = row.application
              /\ ranker[r].plan[i].seat = row.seat
              /\ ranker[r].plan[i].uat = row.uat
         /\ \A p \in Programs : cutoff[p] # NoScore =>
              /\ \A row \in results' : row.seat = p => RowScore(row) >= cutoff[p]
              /\ \E row \in results' : row.seat = p /\ RowScore(row) = cutoff[p]
<1> DEFINE plan == ranker[r].plan
<1>1. \A i, j \in DOMAIN plan : plan[i].application = plan[j].application => i = j
  BY DEF IInv, RankInv, PlanShape
<1>2. \A row \in results' : \E i \in DOMAIN plan :
        /\ plan[i].application = row.application
        /\ plan[i].seat = row.seat
        /\ plan[i].uat = row.uat
  BY DEF CutoffInv, PlanCovers
<1>3. ScoresStand'
  <2>1. \A row \in results' : row.uat \in UATScores
    BY <1>2 DEF CutoffInv, PlanScored
  <2>2. ASSUME NEW row \in results', NEW other \in results',
               row.application = other.application
        PROVE  row.uat = other.uat
    <3>1. PICK i \in DOMAIN plan : plan[i].application = row.application /\ plan[i].uat = row.uat
      BY <1>2
    <3>2. PICK j \in DOMAIN plan : plan[j].application = other.application /\ plan[j].uat = other.uat
      BY <1>2
    <3>3. i = j
      BY <1>1, <2>2, <3>1, <3>2
    <3> QED
      BY <3>1, <3>2, <3>3
  <2> QED
    BY <2>1, <2>2 DEF ScoresStand
<1>4. ASSUME NEW p \in Programs, cutoff[p] # NoScore
      PROVE  /\ \A row \in results' : row.seat = p => RowScore(row) >= cutoff[p]
             /\ \E row \in results' : row.seat = p /\ RowScore(row) = cutoff[p]
  <2>1. \A row \in results : row.seat = p => RowScore(row) >= cutoff[p]
    BY <1>4 DEF CutoffInv, CutoffIsLowest, Floor
  <2>2. \E row \in results : row.seat = p /\ RowScore(row) = cutoff[p]
    BY <1>4 DEF CutoffInv, CutoffIsLowest
  <2>3. \A i \in DOMAIN plan : plan[i].seat = p => RowScore(plan[i]) >= cutoff[p]
    BY <1>4 DEF CutoffInv, PlanAbove
  <2> QED
    BY <2>1, <2>2, <2>3
<1> QED
  BY <1>2, <1>3, <1>4

LEMMA RunPersistCutoff ==
  ASSUME OneRanker, IInv, CutoffInv, NEW r \in Rankers, RunPersist(r)
  PROVE  CutoffInv'
<1>1. PICK next \in Fresh(r) :
        /\ results' = results \cup {ranker[r].plan[i] : i \in 1..next}
        /\ status' = [status EXCEPT ![ranker[r].plan[next].application] = "PENDING_REVIEW"]
        /\ ranker' = [ranker EXCEPT ![r].done = next]
  BY Zenon DEF RunPersist
<1>2. ranker[r].at = "persisting" /\ UNCHANGED <<uat, cutoff>>
  BY DEF RunPersist
<1>3. 1..next \subseteq DOMAIN ranker[r].plan
  <2>1. PICK n \in Nat : DOMAIN ranker[r].plan = 1..n
    BY <1>2 DEF IInv, RankInv, PlanShape
  <2> QED
    BY <2>1 DEF Fresh
<1>4. /\ ScoresStand'
      /\ \A row \in results' : \E i \in DOMAIN ranker[r].plan :
           /\ ranker[r].plan[i].application = row.application
           /\ ranker[r].plan[i].seat = row.seat
           /\ ranker[r].plan[i].uat = row.uat
      /\ \A p \in Programs : cutoff[p] # NoScore =>
           /\ \A row \in results' : row.seat = p => RowScore(row) >= cutoff[p]
           /\ \E row \in results' : row.seat = p /\ RowScore(row) = cutoff[p]
  BY <1>1, <1>2, <1>3, PlannedRows
<1>5. /\ \A s \in Rankers : s = r
      /\ ranker'[r].at = "persisting" /\ ranker'[r].plan = ranker[r].plan
      /\ ranker'[r].seen = ranker[r].seen
  BY <1>1, <1>2 DEF OneRanker, IInv, RankInv, RankerShape
<1>6. UATType'
  BY <1>1, <1>2 DEF CutoffInv, UATType, IInv, RankInv, StatusType
<1>7. CutoffIsLowest'
  BY <1>2, <1>4 DEF CutoffInv, CutoffIsLowest, Floor, RowScore
<1>8. SeenIsCutoff' /\ PlanScored' /\ PlanAbove'
  BY <1>2, <1>5 DEF CutoffInv, SeenIsCutoff, PlanScored, PlanAbove, RowScore
<1>9. PlanCovers'
  BY <1>4, <1>5 DEF PlanCovers
<1>10. LoadedScores' /\ RunsBelow' /\ MergeScored'
  BY <1>5 DEF LoadedScores, RunsBelow, MergeScored
<1> QED
  BY <1>4, <1>6, <1>7, <1>8, <1>9, <1>10 DEF CutoffInv

\* What a run publishes for p: what it saw, if it gives p to nobody, or else the
\* lowest score of its plan for p.
LEMMA Published ==
  ASSUME OneRanker, IInv, CutoffInv, NEW r \in Rankers, ranker[r].at = "persisting",
         NEW p \in Programs
  PROVE  LET plan == ranker[r].plan
             held == {i \in DOMAIN plan : plan[i].seat = p}
         IN  \/ held = {} /\ NewCutoff(r, p) = cutoff[p]
             \/ \E i \in held : /\ NewCutoff(r, p) = RowScore(plan[i])
                                /\ NewCutoff(r, p) \in Nat
                                /\ \A j \in held : NewCutoff(r, p) <= RowScore(plan[j])
<1> DEFINE plan   == ranker[r].plan
           held   == {i \in DOMAIN plan : plan[i].seat = p}
           scores == {FinalScore(plan[i].application, plan[i].uat) : i \in held}
<1>1. CASE held = {}
  <2>1. NewCutoff(r, p) = ranker[r].seen[p]
    BY <1>1 DEF NewCutoff
  <2> QED
    BY <1>1, <2>1 DEF CutoffInv, SeenIsCutoff
<1>2. CASE held # {}
  <2>1. NewCutoff(r, p) = Min(scores)
    BY <1>2 DEF NewCutoff
  <2>2. \A i \in held : FinalScore(plan[i].application, plan[i].uat) \in Nat
    <3>1. \A i \in held : plan[i].application \in Applicants /\ plan[i].uat \in UATScores
      BY DEF IInv, RankInv, PlanShape, CutoffInv, PlanScored
    <3> QED
      BY <3>1, ScoreType
  <2>3. scores \subseteq Nat /\ scores # {}
    BY <1>2, <2>2
  <2>4. Min(scores) \in scores /\ \A x \in scores : Min(scores) <= x
    <3> HIDE DEF scores
    <3> QED BY <2>3, LowestOf
  <2>5. PICK i \in held : Min(scores) = FinalScore(plan[i].application, plan[i].uat)
    BY <2>4
  <2>6. \A j \in held : Min(scores) <= FinalScore(plan[j].application, plan[j].uat)
    BY <2>4
  <2> QED
    BY <2>1, <2>2, <2>5, <2>6 DEF RowScore
<1> QED
  BY <1>1, <1>2

\* The plan's lowest score for a program that has a cut-off is that cut-off.
LEMMA FinishKeepsCutoff ==
  ASSUME OneRanker, IInv, CutoffInv, NEW r \in Rankers, RunFinish(r),
         NEW p \in Programs
  PROVE  /\ cutoff'[p] = NewCutoff(r, p)
         /\ cutoff[p] # NoScore => cutoff'[p] = cutoff[p]
<1> DEFINE plan == ranker[r].plan
           held == {i \in DOMAIN plan : plan[i].seat = p}
<1>1. ranker[r].at = "persisting"
  BY DEF RunFinish
<1>2. cutoff'[p] = NewCutoff(r, p)
  <2>1. ranker[r].seen = cutoff
    BY <1>1 DEF CutoffInv, SeenIsCutoff
  <2> QED
    BY <2>1 DEF RunFinish
<1>3. ASSUME cutoff[p] # NoScore PROVE NewCutoff(r, p) = cutoff[p]
  <2>1. PICK row \in results : row.seat = p /\ RowScore(row) = cutoff[p]
    BY <1>3 DEF CutoffInv, CutoffIsLowest
  <2>2. PICK j \in held : RowScore(plan[j]) = cutoff[p]
    <3>1. PICK j \in DOMAIN plan : /\ plan[j].application = row.application
                                   /\ plan[j].seat = row.seat
                                   /\ plan[j].uat = row.uat
      BY <1>1 DEF CutoffInv, PlanCovers
    <3> QED
      BY <2>1, <3>1 DEF RowScore
  <2>3. \A i \in held : RowScore(plan[i]) >= cutoff[p]
    BY <1>1, <1>3 DEF CutoffInv, PlanAbove
  <2>4. cutoff[p] \in Nat
    BY <1>3 DEF CutoffInv, CutoffIsLowest
  <2>5. PICK i \in held : /\ NewCutoff(r, p) = RowScore(plan[i])
                          /\ NewCutoff(r, p) \in Nat
                          /\ \A k \in held : NewCutoff(r, p) <= RowScore(plan[k])
    BY <1>1, <2>2, Published
  <2>6. NewCutoff(r, p) >= cutoff[p] /\ NewCutoff(r, p) <= cutoff[p]
    BY <2>2, <2>3, <2>5
  <2> QED
    BY <2>4, <2>5, <2>6
<1> QED
  BY <1>2, <1>3

LEMMA RunFinishCutoff ==
  ASSUME OneRanker, IInv, CutoffInv, NEW r \in Rankers, RunFinish(r)
  PROVE  CutoffInv'
<1> DEFINE plan == ranker[r].plan
<1>1. /\ ranker[r].at = "persisting" /\ UNCHANGED <<status, uat>>
      /\ results' = results \cup {plan[i] : i \in DOMAIN plan}
      /\ ranker' = [ranker EXCEPT ![r] = Idle]
      /\ cutoff' = [p \in Programs |->
           IF NewCutoff(r, p) = ranker[r].seen[p] THEN cutoff[p] ELSE NewCutoff(r, p)]
  BY DEF RunFinish, ToSet
<1>2. /\ ScoresStand'
      /\ \A row \in results' : \E i \in DOMAIN plan :
           /\ plan[i].application = row.application
           /\ plan[i].seat = row.seat
           /\ plan[i].uat = row.uat
      /\ \A p \in Programs : cutoff[p] # NoScore =>
           /\ \A row \in results' : row.seat = p => RowScore(row) >= cutoff[p]
           /\ \E row \in results' : row.seat = p /\ RowScore(row) = cutoff[p]
  BY <1>1, PlannedRows
<1>3. \A s \in Rankers : ranker'[s].at = "idle"
  BY <1>1 DEF OneRanker, IInv, RankInv, RankerShape, Idle
<1>4. UATType'
  BY <1>1 DEF CutoffInv, UATType
<1>5. ASSUME NEW p \in Programs
      PROVE  /\ cutoff'[p] \in Nat \cup {NoScore}
             /\ cutoff'[p] # NoScore =>
                  /\ \A row \in results' : row.seat = p => RowScore(row) >= cutoff'[p]
                  /\ \E row \in results' : row.seat = p /\ RowScore(row) = cutoff'[p]
  <2> DEFINE held == {i \in DOMAIN plan : plan[i].seat = p}
  <2>1. cutoff'[p] = NewCutoff(r, p)
    BY FinishKeepsCutoff
  <2>2. CASE NewCutoff(r, p) = cutoff[p]
    BY <1>2, <2>1, <2>2 DEF CutoffInv, CutoffIsLowest
  <2>3. CASE \E i \in held : /\ NewCutoff(r, p) = RowScore(plan[i])
                             /\ NewCutoff(r, p) \in Nat
                             /\ \A j \in held : NewCutoff(r, p) <= RowScore(plan[j])
    <3>1. PICK i \in held : /\ NewCutoff(r, p) = RowScore(plan[i])
                            /\ NewCutoff(r, p) \in Nat
                            /\ \A j \in held : NewCutoff(r, p) <= RowScore(plan[j])
      BY <2>3
    <3>2. plan[i] \in results' /\ plan[i].seat = p
      BY <1>1
    <3>3. ASSUME NEW row \in results', row.seat = p
          PROVE  RowScore(row) >= NewCutoff(r, p)
      <4>1. PICK j \in DOMAIN plan : /\ plan[j].application = row.application
                                     /\ plan[j].seat = row.seat
                                     /\ plan[j].uat = row.uat
        BY <1>2
      <4>2. j \in held /\ RowScore(plan[j]) = RowScore(row)
        BY <3>3, <4>1 DEF RowScore
      <4>3. RowScore(plan[j]) \in Nat
        <5>1. plan[j].application \in Applicants /\ plan[j].uat \in UATScores
          BY <1>1 DEF IInv, RankInv, PlanShape, CutoffInv, PlanScored
        <5> QED
          BY <5>1, ScoreType DEF RowScore
      <4> QED
        BY <3>1, <4>2, <4>3
    <3> QED
      BY <2>1, <3>1, <3>2, <3>3
  <2> QED
    BY <1>1, <2>2, <2>3, Published
<1>6. CutoffIsLowest'
  <2>1. cutoff' \in [Programs -> Nat \cup {NoScore}]
    BY <1>1, <1>5
  <2> QED
    BY <1>5, <2>1 DEF CutoffIsLowest, Floor, RowScore
<1>7. SeenIsCutoff' /\ LoadedScores' /\ RunsBelow' /\ MergeScored'
  BY <1>3 DEF SeenIsCutoff, LoadedScores, RunsBelow, MergeScored
<1>8. PlanScored' /\ PlanCovers' /\ PlanAbove'
  BY <1>3 DEF PlanScored, PlanCovers, PlanAbove
<1> QED
  BY <1>2, <1>4, <1>6, <1>7, <1>8 DEF CutoffInv

-----------------------------------------------------------------------------
(* The theorems.                                                           *)

LEMMA CutoffStep ==
  ASSUME OneRanker, IInv, CutoffInv, [Next]_vars
  PROVE  CutoffInv'
<1>1. ASSUME RankNext PROVE CutoffInv'
  BY <1>1, CompleteUATCutoff, RunLoadCutoff, RunNumberCutoff, RunMergeCutoff, RunAssignCutoff,
     RunPersistCutoff, RunFinishCutoff, RunFailsCutoff DEF RankNext
<1>2. ASSUME UNCHANGED vars PROVE CutoffInv'
  BY <1>2, CutoffUntouched DEF vars, rankVars
<1> QED
  BY <1>1, <1>2, EnrolmentCutoff DEF Next

\* Rows, cut-offs and what a ranking request remembers agree: a cut-off is the
\* lowest score among all the rows that give the program away.
THEOREM CutoffsAreFloors == ASSUME OneRanker PROVE Spec => []CutoffInv
<1>1. Init => CutoffInv
  BY InitCutoff
<1>2. IInv /\ CutoffInv /\ [Next]_vars => CutoffInv'
  BY CutoffStep
<1> QED
  BY <1>1, <1>2, Invariant, PTL DEF Spec

\* Once published, a program's cut-off never moves (ranking/router.py writes it at
\* the end of each run): not by re-runs, nor by runs that stop halfway.
THEOREM PublishedCutoffStands == ASSUME OneRanker PROVE Spec => CutoffStands
<1> DEFINE Stands == \A p \in Programs : cutoff[p] # NoScore => cutoff'[p] = cutoff[p]
<1>1. IInv /\ CutoffInv /\ [Next]_vars => [Stands]_rankVars
  <2> SUFFICES ASSUME IInv, CutoffInv, [Next]_vars PROVE Stands
    OBVIOUS
  <2>1. ASSUME NEW r \in Rankers, RunFinish(r) PROVE Stands
    BY <2>1, FinishKeepsCutoff
  <2>2. ASSUME UNCHANGED cutoff PROVE Stands
    BY <2>2
  <2>3. (\E r \in Rankers : RunFinish(r)) \/ UNCHANGED cutoff
    <3>1. CASE UNCHANGED vars
      BY <3>1 DEF vars, rankVars
    <3>2. CASE RankNext
      BY <3>2 DEF RankNext, CompleteUAT, RunLoad, RunNumber, RunMerge, RunAssign,
                  RunPersist, RunFails
    <3>3. CASE EnrollNext
      BY <3>3 DEF EnrollNext, Decide, OnboardByHand, ChangeStatus, EnrollLoad, EnrollRead, EnrollStudent,
                  EnrollFailsFor, OnboardRead, OnboardCommit, EnrollFinish, EnrollStops, rankVars
    <3> QED
      BY <3>1, <3>2, <3>3 DEF Next
  <2> QED
    BY <2>1, <2>2, <2>3
<1> HIDE DEF Stands
<1>2. CutoffStands <=> [][Stands]_rankVars
  BY DEF CutoffStands, Stands
<1> QED
  BY <1>1, <1>2, Invariant, CutoffsAreFloors, PTL DEF Spec

-----------------------------------------------------------------------------
(***************************************************************************)
(* What is published is fair: seats follow the scores.                     *)
(***************************************************************************)

(* Choices.                                                                *)

LEMMA PreferenceType ==
  ASSUME NEW a \in Applicants
  PROVE  /\ Preference[a] \in Seq(Seats) /\ Len(Preference[a]) \in Nat
         /\ DOMAIN Preference[a] = 1..Len(Preference[a])
         /\ \A i \in DOMAIN Preference[a] : Preference[a][i] \in Seats
<1>1. Preference[a] \in Seq(Seats)
  BY RankingAssumption
<1>2. \A i \in 1..Len(Preference[a]) : Preference[a][i] \in Seats
  BY <1>1, ElementOfSeq
<1> QED
  BY <1>1, <1>2

\* A seat an applicant would rather have than the one it is given is not open.
LEMMA FirstOpenBest ==
  ASSUME NEW a \in Applicants, NEW open, NEW s,
         Prefers(a, s, FirstOpen(a, open))
  PROVE  s \in Seats /\ s \notin open
<1> DEFINE hits == {i \in DOMAIN Preference[a] : Preference[a][i] \in open}
<1>1. PICK i \in DOMAIN Preference[a] :
        /\ Preference[a][i] = s
        /\ \A j \in 1..i : Preference[a][j] # FirstOpen(a, open)
  BY DEF Prefers
<1>2. DOMAIN Preference[a] = 1..Len(Preference[a]) /\ Len(Preference[a]) \in Nat
      /\ s \in Seats
  BY <1>1, PreferenceType
<1>3. ASSUME s \in open PROVE FALSE
  <2>1. i \in hits /\ hits \subseteq Nat /\ hits # {}
    BY <1>1, <1>2, <1>3
  <2>2. FirstOpen(a, open) = Preference[a][Min(hits)]
    BY <2>1 DEF FirstOpen
  <2> HIDE DEF hits
  <2>3. Min(hits) \in hits /\ Min(hits) <= i
    BY <2>1, LowestOf
  <2>4. Min(hits) \in 1..i
    <3>1. Min(hits) \in 1..Len(Preference[a])
      BY <1>2, <2>3 DEF hits
    <3> QED  BY <1>1, <1>2, <2>3, <3>1
  <2> QED
    BY <1>1, <2>2, <2>4
<1> QED
  BY <1>2, <1>3

LEMMA PrefersWanted ==
  ASSUME NEW a \in Applicants, NEW s, NEW to, Prefers(a, s, to)
  PROVE  /\ s \in Seats /\ s # to
         /\ \E i \in DOMAIN Preference[a] : Preference[a][i] = s
<1>1. PICK i \in DOMAIN Preference[a] :
        /\ Preference[a][i] = s
        /\ \A j \in 1..i : Preference[a][j] # to
  BY DEF Prefers
<1>2. i \in 1..i
  BY <1>1, PreferenceType
<1> QED
  BY <1>1, <1>2, PreferenceType

\* The seat an applicant is given is one of the choices, or none.
LEMMA FirstOpenWanted ==
  ASSUME NEW a \in Applicants, NEW open
  PROVE  /\ FirstOpen(a, open) \in Seats \cup {NoSeat}
         /\ FirstOpen(a, open) # NoSeat =>
              \E i \in DOMAIN Preference[a] : Preference[a][i] = FirstOpen(a, open)
<1> DEFINE hits == {i \in DOMAIN Preference[a] : Preference[a][i] \in open}
<1>1. CASE hits = {}
  BY <1>1 DEF FirstOpen
<1>2. CASE hits # {}
  <2>1. hits \subseteq Nat
    BY PreferenceType
  <2>2. FirstOpen(a, open) = Preference[a][Min(hits)]
    BY <1>2 DEF FirstOpen
  <2>3. Min(hits) \in hits
    <3> HIDE DEF hits
    <3> QED  BY <1>2, <2>1, LowestOf
  <2> QED
    BY <2>2, <2>3, PreferenceType
<1> QED
  BY <1>1, <1>2

\* A seat is for one of the two categories.
LEMMA SameCategory ==
  ASSUME NEW a \in Applicants, NEW b \in Applicants, NEW s,
         \E i \in DOMAIN Preference[a] : Preference[a][i] = s,
         \E i \in DOMAIN Preference[b] : Preference[b][i] = s
  PROVE  Government(a) <=> Government(b)
<1>1. ASSUME NEW x \in Applicants, \E i \in DOMAIN Preference[x] : Preference[x][i] = s
      PROVE  Government(x) <=> s \in Streams
  <2>1. PICK i \in DOMAIN Preference[x] : Preference[x][i] = s
    BY <1>1
  <2>2. CASE \A j \in DOMAIN Preference[x] : Preference[x][j] \in Programs
    BY <2>1, <2>2, RankingAssumption DEF Government
  <2>3. CASE Len(Preference[x]) = 1 /\ Preference[x][1] \in Streams
    <3>1. DOMAIN Preference[x] = 1..1
      BY <2>3, PreferenceType
    <3>2. i = 1 /\ 1 \in DOMAIN Preference[x]
      BY <2>1, <3>1
    <3> QED  BY <2>1, <2>3, <3>2 DEF Government
  <2> QED
    BY <2>2, <2>3, RankingAssumption
<1> QED
  BY <1>1

-----------------------------------------------------------------------------
(* The allocation of the first run.                                        *)

\* The seats with a place left when the i-th of the ranking chooses.
LeftFor(given, i) ==
  {s \in Seats : Cardinality({j \in 1..(i - 1) : given[j] = s}) < Capacity[s]}

\* The steps of the greedy pass, from nothing to m seats.
Passes(order, pass, m) ==
  pass = [i \in 0..m |-> IF i = 0 THEN <<>>
                         ELSE Append(pass[i - 1], FirstOpen(order[i], Open(pass[i - 1])))]

LEMMA PassExists ==
  ASSUME NEW order, NEW n \in Nat
  PROVE  \E pass : Passes(order, pass, n)
<1> DEFINE Missing == {m \in Nat : ~ \E pass : Passes(order, pass, m)}
<1>1. SUFFICES ASSUME Missing # {} PROVE FALSE
  OBVIOUS
<1>2. PICK m \in Missing : \A x \in Missing : m <= x
  <2>1. Missing \subseteq Nat
    OBVIOUS
  <2> HIDE DEF Missing
  <2> QED  BY <1>1, <2>1, Minimum
<1>3. CASE m = 0
  <2>1. Passes(order, [i \in 0..0 |-> <<>>], 0)
    <3> DEFINE pass == [i \in 0..0 |-> <<>>]
    <3>1. \A i \in 0..0 : i = 0
      OBVIOUS
    <3> QED  BY <3>1 DEF Passes
  <2> QED
    BY <1>3, <2>1
<1>4. CASE m # 0
  <2>1. m \in Nat /\ m - 1 \in Nat /\ m - 1 \notin Missing
    BY <1>2, <1>4
  <2>2. PICK pass : Passes(order, pass, m - 1)
    BY <2>1
  <2> DEFINE Step(i, before) == IF i = 0 THEN <<>>
                                ELSE Append(before, FirstOpen(order[i], Open(before)))
             more == [i \in 0..m |-> IF i = m THEN Step(m, pass[m - 1]) ELSE pass[i]]
  <2>3. \A i \in 0..(m - 1) : pass[i] = Step(i, pass[i - 1])
    BY <2>2 DEF Passes
  <2>4. \A i \in 0..m : more[i] = Step(i, more[i - 1])
    <3>1. ASSUME NEW i \in 0..m PROVE more[i] = Step(i, more[i - 1])
      <4>1. CASE i = 0
        BY <1>4, <2>1, <2>3, <4>1
      <4>2. CASE i = m
        <5>1. m - 1 \in 0..m /\ m - 1 # m /\ m \in 0..m
          BY <2>1
        <5>2. more[m - 1] = pass[m - 1] /\ more[m] = Step(m, pass[m - 1])
          <6> HIDE DEF Step
          <6> QED  BY <5>1
        <5> QED  BY <4>2, <5>2
      <4>3. CASE i # 0 /\ i # m
        <5>1. i \in 0..(m - 1) /\ i - 1 \in 0..m /\ i - 1 # m
          BY <2>1, <4>3
        <5>2. more[i] = pass[i] /\ more[i - 1] = pass[i - 1]
          <6> HIDE DEF Step
          <6> QED  BY <4>3, <5>1
        <5> QED  BY <2>3, <5>1, <5>2
      <4> QED  BY <4>1, <4>2, <4>3
    <3> QED  BY <3>1
  <2>5. more = [i \in 0..m |-> Step(i, more[i - 1])]
    <3>1. more = [i \in 0..m |-> more[i]]
      OBVIOUS
    <3> HIDE DEF more
    <3> QED  BY <2>4, <3>1
  <2>6. Passes(order, more, m)
    <3> HIDE DEF more
    <3> QED  BY <2>5 DEF Passes
  <2> QED
    BY <2>6
<1> QED
  BY <1>3, <1>4

\* What the greedy pass gives each, in the order of the ranking: the best choice
\* with a place left after those before.
LEMMA AllocationSteps ==
  ASSUME NEW order, Len(order) \in Nat,
         \A i \in 1..Len(order) : order[i] \in Applicants
  PROVE  \A i \in 1..Len(order) :
           Allocation(order)[i] = FirstOpen(order[i], LeftFor(Allocation(order), i))
<1> DEFINE n == Len(order)
           Given == Seats \cup {NoSeat}
           pass == CHOOSE p : Passes(order, p, n)
<1>1. Passes(order, pass, n)
  <2>1. \E p : Passes(order, p, n)
    BY PassExists
  <2> QED  BY <2>1
<1>2. Allocation(order) = pass[n]
  BY DEF Allocation, Passes
<1> HIDE DEF pass
<1>3. /\ pass[0] = <<>>
      /\ \A m \in 1..n :
           /\ m - 1 \in Nat
           /\ pass[m] = Append(pass[m - 1], FirstOpen(order[m], Open(pass[m - 1])))
  <2>1. \A i \in 0..n : pass[i] = IF i = 0 THEN <<>>
                          ELSE Append(pass[i - 1], FirstOpen(order[i], Open(pass[i - 1])))
    BY <1>1, Zenon DEF Passes
  <2>2. 0 \in 0..n /\ \A m \in 1..n : m \in 0..n /\ m # 0 /\ m - 1 \in Nat
    OBVIOUS
  <2> QED  BY <2>1, <2>2, Zenon
\* Each pass keeps what the earlier ones have given.
<1> DEFINE Kept(m) == /\ pass[m] \in Seq(Given) /\ Len(pass[m]) = m
                      /\ \A j \in 1..m : /\ pass[m][j] = pass[j][j]
                                         /\ pass[j][j] = FirstOpen(order[j], Open(pass[j - 1]))
           Broken == {m \in 0..n : ~Kept(m)}
<1>4. ASSUME NEW m \in 0..n PROVE Kept(m)
  <2>1. SUFFICES ASSUME Broken # {} PROVE FALSE
    OBVIOUS
  <2>2. PICK k \in Broken : \A x \in Broken : k <= x
    <3>1. Broken \subseteq Nat
      OBVIOUS
    <3> HIDE DEF Broken
    <3> QED  BY <2>1, <3>1, Minimum
  <2>3. CASE k = 0
    <3>1. Kept(0)
      BY <1>3, EmptySeq
    <3> QED  BY <2>2, <2>3, <3>1
  <2>4. CASE k # 0
    <3>1. k \in 1..n /\ k - 1 \in 0..n /\ k - 1 \in Nat /\ k \in Nat /\ k - 1 \notin Broken
      BY <2>2, <2>4
    <3>2. Kept(k - 1)
      BY <3>1
    <3> DEFINE e == FirstOpen(order[k], Open(pass[k - 1]))
    <3>3. e \in Given
      BY <3>1, FirstOpenWanted
    <3>4. pass[k] = Append(pass[k - 1], e)
      BY <1>3, <3>1
    <3>5. /\ pass[k - 1] \in Seq(Given) /\ Len(pass[k - 1]) = k - 1
          /\ \A j \in 1..(k - 1) : /\ pass[k - 1][j] = pass[j][j]
                                   /\ pass[j][j] = FirstOpen(order[j], Open(pass[j - 1]))
      BY <3>2
    <3> HIDE DEF e
    <3>6. /\ pass[k] \in Seq(Given) /\ Len(pass[k]) = k
          /\ \A j \in 1..(k - 1) : pass[k][j] = pass[k - 1][j]
          /\ pass[k][k] = e
      BY <3>1, <3>3, <3>4, <3>5, AppendProperties
    <3>7. \A j \in 1..k : j \in 1..(k - 1) \/ j = k
      BY <3>1
    <3>8. \A j \in 1..k : /\ pass[k][j] = pass[j][j]
                          /\ pass[j][j] = FirstOpen(order[j], Open(pass[j - 1]))
      BY <3>5, <3>6, <3>7 DEF e
    <3>9. Kept(k)
      BY <3>6, <3>8
    <3> QED  BY <2>2, <3>9
  <2> QED  BY <2>3, <2>4
<1>5. ASSUME NEW i \in 1..n
      PROVE  pass[n][i] = FirstOpen(order[i], LeftFor(pass[n], i))
  <2>1. n \in 0..n /\ i - 1 \in 0..n /\ i - 1 \in Nat
    OBVIOUS
  <2>2. pass[n][i] = pass[i][i] /\ pass[i][i] = FirstOpen(order[i], Open(pass[i - 1]))
    BY <1>4, <2>1
  <2>3. /\ pass[i - 1] \in Seq(Given) /\ Len(pass[i - 1]) = i - 1
        /\ \A j \in 1..(i - 1) : pass[i - 1][j] = pass[j][j]
    BY <1>4, <2>1
  <2>4. \A j \in 1..(i - 1) : pass[n][j] = pass[j][j]
    <3>1. \A j \in 1..(i - 1) : j \in 1..n
      BY <2>1
    <3> QED  BY <1>4, <2>1, <3>1
  <2>5. DOMAIN pass[i - 1] = 1..(i - 1)
    BY <2>3
  <2>6. \A s : {j \in DOMAIN pass[i - 1] : pass[i - 1][j] = s} = {j \in 1..(i - 1) : pass[n][j] = s}
    BY <2>3, <2>4, <2>5
  <2>7. Open(pass[i - 1]) = LeftFor(pass[n], i)
    BY <2>6 DEF Open, LeftFor
  <2> QED
    BY <2>2, <2>7
<1> QED
  BY <1>2, <1>5

LEMMA PartOfInterval ==
  ASSUME NEW n \in Nat, NEW H, H \subseteq 1..n
  PROVE  IsFiniteSet(H) /\ Cardinality(H) \in Nat
<1>1. IsFiniteSet(1..n)
  BY FS_Interval
<1> QED
  BY <1>1, FS_Subset, FS_CardinalityType

LEMMA ImageOf ==
  ASSUME NEW S, IsFiniteSet(S), NEW f
  PROVE  /\ IsFiniteSet({f[x] : x \in S})
         /\ Cardinality({f[x] : x \in S}) <= Cardinality(S)
<1> DEFINE T == {f[x] : x \in S}
           g == [x \in S |-> f[x]]
<1>1. g \in Surjection(S, T)
  BY DEF Surjection
<1> HIDE DEF g, T
<1>2. IsFiniteSet(T) /\ Cardinality(T) <= Cardinality(S)
  BY <1>1, FS_Surjection
<1> QED
  BY <1>2 DEF T

\* The first run stays within the capacities: whoever takes the last place found
\* it open.
LEMMA AllocationFits ==
  ASSUME NEW order, Len(order) \in Nat,
         \A i \in 1..Len(order) : order[i] \in Applicants, NEW s \in Seats
  PROVE  Cardinality({j \in 1..Len(order) : Allocation(order)[j] = s}) <= Capacity[s]
<1> DEFINE n == Len(order)
           A == Allocation(order)
           H == {j \in 1..n : A[j] = s}
<1> HIDE DEF A
<1>1. Capacity[s] \in Nat /\ s # NoSeat
  BY RankingAssumption
<1>2. CASE H = {}
  <2>1. Cardinality(H) = 0
    BY <1>2, FS_EmptySet
  <2> QED
    BY <1>1, <2>1 DEF A
<1>3. CASE H # {}
  <2>1. PICK m \in H : \A x \in H : x <= m
    <3>1. H \subseteq Nat /\ \A x \in H : x <= n
      OBVIOUS
    <3> HIDE DEF H
    <3> QED  BY <1>3, <3>1, Maximum
  <2> DEFINE Earlier == {j \in 1..(m - 1) : A[j] = s}
  <2>2. H = Earlier \cup {m} /\ m \notin Earlier /\ Earlier \subseteq 1..n
    BY <2>1
  <2>3. A[m] = FirstOpen(order[m], LeftFor(A, m)) /\ A[m] = s
    BY <2>1, AllocationSteps DEF A
  <2>4. s \in LeftFor(A, m)
    BY <1>1, <2>1, <2>3, FirstOpenIsOpen
  <2>5. Cardinality(Earlier) < Capacity[s]
    BY <2>4 DEF LeftFor
  <2> HIDE DEF Earlier
  <2>6. IsFiniteSet(Earlier) /\ Cardinality(Earlier) \in Nat
    BY <2>2, PartOfInterval
  <2>7. Cardinality(H) = Cardinality(Earlier) + 1
    BY <2>2, <2>6, FS_AddElement
  <2> QED
    BY <1>1, <2>5, <2>6, <2>7 DEF A
<1> QED
  BY <1>2, <1>3

\* A seat somebody would rather have is full before their turn, of others.
LEMMA AllocationFair ==
  ASSUME NEW order, Len(order) \in Nat,
         \A i \in 1..Len(order) : order[i] \in Applicants,
         NEW s, s \in Seats => Capacity[s] > 0, NEW i \in 1..Len(order),
         Prefers(order[i], s, Allocation(order)[i])
  PROVE  /\ \E k \in 1..(i - 1) : Allocation(order)[k] = s
         /\ \A k \in 1..Len(order) : Allocation(order)[k] = s => k < i
<1> DEFINE n == Len(order)
           A == Allocation(order)
           Upto(m) == {j \in 1..(m - 1) : A[j] = s}
<1> HIDE DEF A
<1>1. s \in Seats /\ s # A[i] /\ s # NoSeat
  BY PrefersWanted, RankingAssumption DEF A
<1>2. Capacity[s] \in Nat /\ Capacity[s] > 0
  BY <1>1, RankingAssumption
<1>3. ASSUME NEW m \in 1..n
      PROVE  /\ Upto(m) \subseteq 1..n /\ IsFiniteSet(Upto(m))
             /\ Cardinality(Upto(m)) \in Nat
  <2>1. Upto(m) \subseteq 1..n
    OBVIOUS
  <2> HIDE DEF Upto
  <2> QED  BY <2>1, PartOfInterval
<1>4. ~(Cardinality(Upto(i)) < Capacity[s])
  <2>1. A[i] = FirstOpen(order[i], LeftFor(A, i))
    BY AllocationSteps DEF A
  <2>2. s \notin LeftFor(A, i)
    BY <2>1, FirstOpenBest DEF A
  <2> QED
    BY <1>1, <2>2 DEF LeftFor
<1>5. \E k \in 1..(i - 1) : A[k] = s
  <2>1. Upto(i) # {}
    <3>1. CASE Upto(i) = {}
      <4>1. Cardinality(Upto(i)) = 0
        BY <3>1, FS_EmptySet
      <4> QED  BY <1>2, <1>4, <4>1
    <3> QED  BY <3>1
  <2> QED
    BY <2>1
<1>6. ASSUME NEW k \in 1..n, A[k] = s PROVE k < i
  <2>1. SUFFICES ASSUME k > i PROVE FALSE
    BY <1>1, <1>6
  <2>2. A[k] = FirstOpen(order[k], LeftFor(A, k))
    BY AllocationSteps DEF A
  <2>3. s \in LeftFor(A, k)
    BY <1>1, <1>6, <2>2, FirstOpenIsOpen
  <2>4. Cardinality(Upto(k)) < Capacity[s]
    BY <2>3 DEF LeftFor
  <2>5. Upto(i) \subseteq Upto(k)
    BY <2>1
  <2>6. Cardinality(Upto(i)) <= Cardinality(Upto(k))
    <3>1. IsFiniteSet(Upto(k))
      BY <1>3
    <3> HIDE DEF Upto
    <3> QED  BY <2>5, <3>1, FS_Subset
  <2>7. Cardinality(Upto(i)) \in Nat /\ Cardinality(Upto(k)) \in Nat
    BY <1>3
  <2> QED
    BY <1>2, <1>4, <2>4, <2>6, <2>7
<1> QED
  BY <1>5, <1>6 DEF A

\* Within a category the ranking is by score.
LEMMA RankedInOrder ==
  ASSUME NEW S, NEW G, S \subseteq Applicants, G \subseteq Applicants,
         \A a \in S : ~Government(a), \A a \in G : Government(a),
         NEW scores, NEW self \in Ranked(S, scores), NEW gov \in Ranked(G, scores),
         NEW k \in DOMAIN (self \o gov), NEW i \in DOMAIN (self \o gov), k < i,
         Government((self \o gov)[k]) <=> Government((self \o gov)[i])
  PROVE  Before((self \o gov)[k], (self \o gov)[i], scores)
<1>1. IsFiniteSet(S) /\ IsFiniteSet(G)
  BY RankingAssumption, FS_Subset
<1>2. self \in SetToSeqs(S) /\ gov \in SetToSeqs(G)
  BY DEF Ranked
<1>3. /\ \A x, y \in DOMAIN self : x < y => Before(self[x], self[y], scores)
      /\ \A x, y \in DOMAIN gov : x < y => Before(gov[x], gov[y], scores)
  BY DEF Ranked
<1>4. /\ self \in Seq(S) /\ Len(self) \in Nat /\ DOMAIN self = 1..Len(self)
      /\ gov \in Seq(G) /\ Len(gov) \in Nat /\ DOMAIN gov = 1..Len(gov)
      /\ \A x \in DOMAIN self : self[x] \in S
      /\ \A x \in DOMAIN gov : gov[x] \in G
  BY <1>1, <1>2, Orders
<1>5. self \in Seq(S \cup G) /\ gov \in Seq(S \cup G)
  BY <1>4
<1>6. /\ DOMAIN (self \o gov) = 1..(Len(self) + Len(gov))
      /\ \A x \in 1..(Len(self) + Len(gov)) :
           (self \o gov)[x] = IF x <= Len(self) THEN self[x] ELSE gov[x - Len(self)]
  BY <1>5, ConcatProperties
<1>7. k \in 1..(Len(self) + Len(gov)) /\ i \in 1..(Len(self) + Len(gov))
  BY <1>6
<1>8. CASE i <= Len(self)
  <2>1. k \in DOMAIN self /\ i \in DOMAIN self
    BY <1>4, <1>7, <1>8
  <2>2. (self \o gov)[k] = self[k] /\ (self \o gov)[i] = self[i]
    BY <1>4, <1>6, <1>7, <1>8, <2>1
  <2> QED  BY <1>3, <2>1, <2>2
<1>9. CASE ~(k <= Len(self))
  <2>1. k - Len(self) \in DOMAIN gov /\ i - Len(self) \in DOMAIN gov /\ ~(i <= Len(self))
    BY <1>4, <1>7, <1>9
  <2>2. (self \o gov)[k] = gov[k - Len(self)] /\ (self \o gov)[i] = gov[i - Len(self)]
    BY <1>6, <1>7, <1>9, <2>1
  <2>3. k - Len(self) < i - Len(self)
    BY <1>4, <1>7
  <2> QED  BY <1>3, <2>1, <2>2, <2>3
<1>10. CASE k <= Len(self) /\ ~(i <= Len(self))
  <2>1. k \in DOMAIN self /\ i - Len(self) \in DOMAIN gov
    BY <1>4, <1>7, <1>10
  <2>2. (self \o gov)[k] \in S /\ (self \o gov)[i] \in G
    BY <1>4, <1>6, <1>7, <1>10, <2>1
  <2> QED  BY <2>2
<1> QED
  BY <1>8, <1>9, <1>10

-----------------------------------------------------------------------------
(* The inductive invariant, beside IInv and CutoffInv.                     *)

\* The rows of the earliest run that gave seat s away: its floor.
FirstRows(s) ==
  {row \in results : row.seat = s /\ \A q \in results : q.seat = s => row.run <= q.run}

\* A seat is held for a score that its floor reaches.
FloorsHold ==
  \A row \in results : row.seat # NoSeat =>
    \E f \in FirstRows(row.seat) : RowScore(f) <= RowScore(row)

\* A seat preferred in vain was given away by then, for scores not lower.
Outscored(row, s) ==
  /\ \E q \in results : q.seat = s /\ q.run <= row.run
  /\ \A f \in FirstRows(s) : RowScore(f) >= RowScore(row)
Denied ==
  \A row \in results, s \in Seats :
    Prefers(row.application, s, row.seat) => Outscored(row, s)

\* One row for each applicant and run.
OneRow ==
  \A row, other \in results :
    row.application = other.application /\ row.run = other.run => row = other

\* While a run writes, the rows there are are older or of its plan.
Written ==
  \A r \in Rankers : ranker[r].at = "persisting" =>
    \A row \in results :
      \/ row.run < ranker[r].number
      \/ \E i \in DOMAIN ranker[r].plan : row = ranker[r].plan[i]

Old(s, number) == {row \in results : row.seat = s /\ row.run < number}

\* What FloorsHold and Denied ask of the rows of a plan, where the seat was given
\* away before this run and where it was not.
PlanFloors ==
  \A r \in Rankers : ranker[r].at = "persisting" =>
    \A i \in DOMAIN ranker[r].plan :
      ranker[r].plan[i].seat # NoSeat
        /\ Old(ranker[r].plan[i].seat, ranker[r].number) # {} =>
      \E f \in FirstRows(ranker[r].plan[i].seat) : RowScore(f) <= RowScore(ranker[r].plan[i])
LaterDenied(plan, i, s) ==
  \A f \in FirstRows(s) : RowScore(f) >= RowScore(plan[i])
FirstDenied(plan, i, s) ==
  /\ \E k \in DOMAIN plan : k < i /\ plan[k].seat = s
  /\ \A k \in DOMAIN plan : plan[k].seat = s => RowScore(plan[k]) >= RowScore(plan[i])
PlanDenied ==
  \A r \in Rankers : ranker[r].at = "persisting" =>
    \A i \in DOMAIN ranker[r].plan, s \in Seats :
      Prefers(ranker[r].plan[i].application, s, ranker[r].plan[i].seat) =>
        IF Old(s, ranker[r].number) # {} THEN LaterDenied(ranker[r].plan, i, s)
        ELSE FirstDenied(ranker[r].plan, i, s)
PlanFits ==
  \A r \in Rankers : ranker[r].at = "persisting" /\ ranker[r].number = 1 =>
    \A s \in Seats :
      Cardinality({i \in DOMAIN ranker[r].plan : ranker[r].plan[i].seat = s}) <= Capacity[s]

FairInv ==
  /\ IsFiniteSet(results)
  /\ FloorsHold
  /\ Denied
  /\ FirstRunFits
  /\ OneRow
  /\ Written
  /\ PlanFloors
  /\ PlanDenied
  /\ PlanFits

-----------------------------------------------------------------------------
(* Floors.                                                                 *)

LEMMA FirstExists ==
  ASSUME RowsAdvanced, NEW q \in results
  PROVE  \E f \in FirstRows(q.seat) : f.run <= q.run
<1> DEFINE given == {row \in results : row.seat = q.seat}
           runs  == {row.run : row \in given}
<1>1. runs \subseteq Nat /\ runs # {} /\ q.run \in runs
  BY DEF RowsAdvanced
<1>2. PICK m \in runs : \A x \in runs : m <= x
  <2> HIDE DEF runs
  <2> QED  BY <1>1, Minimum
<1>3. PICK f \in given : f.run = m
  BY <1>2
<1>4. f \in FirstRows(q.seat)
  BY <1>2, <1>3 DEF FirstRows
<1> QED
  BY <1>1, <1>2, <1>3, <1>4

\* The floor of a re-run is the lowest score of the earliest rows.
LEMMA CutoffIsFloor ==
  ASSUME IInv, CutoffInv, NEW s, NEW number \in Nat,
         \A row \in results : row.run < number, Old(s, number) # {}
  PROVE  /\ Cutoff(s, number) \in Nat
         /\ \E f \in FirstRows(s) : RowScore(f) = Cutoff(s, number)
         /\ \A f \in FirstRows(s) : Cutoff(s, number) <= RowScore(f)
<1> DEFINE scores == {RowScore(f) : f \in FirstRows(s)}
<1>1. PICK q \in results : q.seat = s
  BY DEF Old
<1>2. FirstRows(s) # {} /\ FirstRows(s) \subseteq results
  BY <1>1, FirstExists DEF IInv, RankInv, FirstRows
<1>3. scores \subseteq Nat /\ scores # {}
  BY <1>2, RowScoreType
<1>4. Min(scores) \in scores /\ \A x \in scores : Min(scores) <= x
  <2> HIDE DEF scores
  <2> QED  BY <1>3, LowestOf
<1>5. Cutoff(s, number) = Min(scores)
  <2> DEFINE given == {row \in results : row.seat = s /\ row.run < number}
             first == {row \in given : \A p \in given : row.run <= p.run}
  <2>1. given # {}
    BY <1>1
  <2>2. first = FirstRows(s)
    BY DEF FirstRows
  <2>3. Cutoff(s, number) = Min({FinalScore(row.application, row.uat) : row \in first})
    BY <2>1 DEF Cutoff
  <2> HIDE DEF first
  <2> QED  BY <2>2, <2>3 DEF RowScore
<1> QED
  BY <1>3, <1>4, <1>5

LEMMA NoFloor ==
  ASSUME NEW s, NEW number, Old(s, number) = {}
  PROVE  Cutoff(s, number) = NoScore
BY DEF Old, Cutoff

\* A run that has not ranked yet knows no row of its number.
LEMMA FirstRunStartsEmpty ==
  ASSUME IInv, \A row \in results : row.run < 1
  PROVE  results = {}
BY DEF IInv, RankInv, RowsAdvanced

-----------------------------------------------------------------------------
(* The steps.                                                              *)

LEMMA InitFair == Init => FairInv
<1> SUFFICES ASSUME Init PROVE FairInv
  OBVIOUS
<1> USE DEF Init, RankInit, Idle
<1>1. IsFiniteSet(results) /\ FloorsHold /\ Denied /\ OneRow
  BY FS_EmptySet DEF FloorsHold, Denied, OneRow
<1>2. FirstRunFits
  <2> SUFFICES ASSUME NEW s \in Seats
               PROVE  Cardinality({row \in results : row.run = 1 /\ row.seat = s}) <= Capacity[s]
    BY DEF FirstRunFits
  <2>1. {row \in results : row.run = 1 /\ row.seat = s} = {}
    OBVIOUS
  <2>2. Cardinality({row \in results : row.run = 1 /\ row.seat = s}) = 0
    BY <2>1, FS_EmptySet
  <2> QED
    BY <2>2, RankingAssumption
<1>3. Written /\ PlanFloors /\ PlanDenied /\ PlanFits
  BY DEF Written, PlanFloors, PlanDenied, PlanFits
<1> QED
  BY <1>1, <1>2, <1>3 DEF FairInv

\* What is said of the rows alone.
RowsFair ==
  /\ IsFiniteSet(results)
  /\ FloorsHold
  /\ Denied
  /\ FirstRunFits
  /\ OneRow

LEMMA RowsFairUnchanged ==
  ASSUME RowsFair, UNCHANGED results
  PROVE  RowsFair'
BY DEF RowsFair, FloorsHold, Denied, Outscored, FirstRows, FirstRunFits, OneRow

LEMMA FairUntouched ==
  ASSUME FairInv, UNCHANGED <<results, ranker>>
  PROVE  FairInv'
<1>1. RowsFair'
  BY RowsFairUnchanged DEF FairInv, RowsFair
<1>2. Written' /\ PlanFits'
  BY DEF FairInv, Written, PlanFits
<1>3. PlanFloors'
  BY DEF FairInv, PlanFloors, Old, FirstRows
<1>4. PlanDenied'
  BY DEF FairInv, PlanDenied, Old, LaterDenied, FirstDenied, FirstRows
<1> QED
  BY <1>1, <1>2, <1>3, <1>4 DEF FairInv, RowsFair

\* Steps that leave nobody writing.
LEMMA NobodyWrites ==
  ASSUME FairInv, RowsFair', \A s \in Rankers : ranker'[s].at # "persisting"
  PROVE  FairInv'
<1>1. Written' /\ PlanFloors' /\ PlanDenied' /\ PlanFits'
  BY DEF Written, PlanFloors, PlanDenied, PlanFits
<1> QED
  BY <1>1 DEF FairInv, RowsFair

LEMMA PreparingFair ==
  ASSUME OneRanker, IInv, FairInv, NEW r \in Rankers,
         RunLoad(r) \/ RunNumber(r) \/ RunMerge(r) \/ RunFails(r)
  PROVE  FairInv'
<1>1. \A s \in Rankers : s = r /\ DOMAIN ranker[s] = DOMAIN Idle
      /\ ranker = [x \in Rankers |-> ranker[x]]
  BY DEF OneRanker, IInv, RankInv, RankerShape, Idle
<1>2. UNCHANGED results
  BY DEF RunLoad, RunNumber, RunMerge, RunFails
<1>3. \A s \in Rankers : ranker'[s].at # "persisting"
  <2>1. CASE RunLoad(r)
    BY <1>1, <2>1 DEF RunLoad, Idle
  <2>2. CASE RunNumber(r)
    BY <1>1, <2>2 DEF RunNumber, Idle
  <2>3. CASE RunMerge(r)
    <3>1. \E scores, locked :
            ranker' = [ranker EXCEPT ![r].at = "merged", ![r].scores = scores, ![r].locked = locked]
      BY <2>3, Zenon DEF RunMerge
    <3> QED
      BY <1>1, <3>1 DEF Idle
  <2>4. CASE RunFails(r)
    BY <1>1, <2>4 DEF RunFails, Idle
  <2> QED
    BY <2>1, <2>2, <2>3, <2>4
<1>4. RowsFair'
  BY <1>2, RowsFairUnchanged DEF FairInv, RowsFair
<1> QED
  BY <1>3, <1>4, NobodyWrites

\* The rows of a plan are written in its order, up to n.
LEMMA WriteFair ==
  ASSUME OneRanker, IInv, CutoffInv, FairInv, NEW r \in Rankers,
         ranker[r].at = "persisting", NEW n \in Nat, 1..n \subseteq DOMAIN ranker[r].plan,
         results' = results \cup {ranker[r].plan[i] : i \in 1..n}
  PROVE  /\ RowsFair'
         /\ \A row \in results' :
              \/ row.run < ranker[r].number
              \/ \E i \in DOMAIN ranker[r].plan : row = ranker[r].plan[i]
         /\ \A s : /\ {row \in results' : row.seat = s /\ row.run < ranker[r].number}
                        = Old(s, ranker[r].number)
                   /\ Old(s, ranker[r].number) # {} => FirstRows(s)' = FirstRows(s)
<1> DEFINE plan   == ranker[r].plan
           number == ranker[r].number
<1>1. PICK m \in Nat : DOMAIN plan = 1..m
  BY DEF IInv, RankInv, PlanShape
<1>2. /\ number \in Nat \ {0}
      /\ \A i \in DOMAIN plan : plan[i].application \in Applicants /\ plan[i].run = number
      /\ \A i, j \in DOMAIN plan : plan[i].application = plan[j].application => i = j
      /\ \A i \in DOMAIN plan : plan[i].uat \in UATScores
      /\ \A row \in results : row.run \in Nat \ {0}
  BY DEF IInv, RankInv, PlanShape, RankerShape, RowsAdvanced, CutoffInv, PlanScored
<1>3. \A row \in results : row.run < number \/ \E i \in DOMAIN plan : row = plan[i]
  BY DEF FairInv, Written
<1>4. \A i \in DOMAIN plan : RowScore(plan[i]) \in Nat
  BY <1>2, ScoreType DEF RowScore
<1>5. \A row \in results : RowScore(row) \in Nat
  BY RowScoreType
<1>6. /\ \A row \in results' : row \in results \/ \E i \in 1..n : row = plan[i]
      /\ \A i \in 1..n : plan[i] \in results' /\ i \in DOMAIN plan
      /\ results \subseteq results'
  OBVIOUS
<1>7. \A row \in results' : row.run < number \/ \E i \in DOMAIN plan : row = plan[i]
  BY <1>3, <1>6
<1>8. \A row \in results' : row.run \in Nat /\ row.run <= number /\ RowScore(row) \in Nat
  BY <1>2, <1>4, <1>5, <1>6, <1>7
<1> HIDE DEF plan, number
\* What is new is of this run, so it leaves earlier floors alone.
<1>9. \A row \in results' : row \notin results => row.run = number
  BY <1>2, <1>6
<1>11. ASSUME NEW s
       PROVE  {row \in results' : row.seat = s /\ row.run < number} = Old(s, number)
  BY <1>2, <1>6, <1>9 DEF Old
<1>12. ASSUME NEW s PROVE FirstRows(s) \subseteq FirstRows(s)'
  <2>1. ASSUME NEW f \in FirstRows(s) PROVE f \in FirstRows(s)'
    <3>1. f \in results /\ f.seat = s /\ \A q \in results : q.seat = s => f.run <= q.run
      BY DEF FirstRows
    <3>2. \A q \in results' : q.seat = s => f.run <= q.run
      BY <1>6, <1>8, <1>9, <3>1
    <3> QED  BY <1>6, <3>1, <3>2 DEF FirstRows
  <2> QED  BY <2>1
<1>13. ASSUME NEW s, Old(s, number) # {} PROVE FirstRows(s)' = FirstRows(s)
  <2>1. PICK q \in results : q.seat = s /\ q.run < number
    BY <1>13 DEF Old
  <2>2. ASSUME NEW f \in FirstRows(s)' PROVE f \in FirstRows(s)
    <3>1. f \in results' /\ f.seat = s /\ \A x \in results' : x.seat = s => f.run <= x.run
      BY DEF FirstRows
    <3>2. f.run <= q.run
      BY <1>6, <2>1, <3>1
    <3>3. f \in results
      BY <1>2, <1>8, <1>9, <2>1, <3>1, <3>2
    <3> QED  BY <1>6, <3>1, <3>3 DEF FirstRows
  <2> QED  BY <1>12, <2>2
\* Where nothing older gives s away, all rows of s are of this run.
<1>14. ASSUME NEW s, Old(s, number) = {}, NEW row \in results', row.seat = s
       PROVE  row.run = number /\ \E i \in DOMAIN plan : row = plan[i]
  <2>1. ~(row.run < number)
    BY <1>11, <1>14
  <2> QED  BY <1>7, <1>8, <2>1, <1>2
<1>15. IsFiniteSet(results')
  <2>1. IsFiniteSet(1..n)
    BY FS_Interval
  <2> DEFINE New == {plan[i] : i \in 1..n}
  <2>2. IsFiniteSet(New)
    BY <2>1, ImageOf
  <2>3. IsFiniteSet(results) /\ results' = results \cup New
    BY DEF FairInv, plan
  <2> HIDE DEF New
  <2> QED  BY <2>2, <2>3, FS_Union
<1>16. FloorsHold'
  <2> SUFFICES ASSUME NEW row \in results', row.seat # NoSeat
               PROVE  \E f \in FirstRows(row.seat)' : RowScore(f) <= RowScore(row)
    BY DEF FloorsHold
  <2>1. CASE row \in results
    <3>1. PICK f \in FirstRows(row.seat) : RowScore(f) <= RowScore(row)
      BY <2>1 DEF FairInv, FloorsHold
    <3> QED  BY <1>12, <3>1
  <2>2. CASE row \notin results
    <3>1. PICK i \in 1..n : row = plan[i]
      BY <1>6, <2>2
    <3>2. CASE Old(row.seat, number) # {}
      <4>1. \E f \in FirstRows(row.seat) : RowScore(f) <= RowScore(row)
        BY <1>6, <3>1, <3>2 DEF FairInv, PlanFloors, plan, number
      <4> QED  BY <1>12, <4>1
    <3>3. CASE Old(row.seat, number) = {}
      <4>1. \A q \in results' : q.seat = row.seat => row.run <= q.run
        BY <1>2, <1>14, <3>3
      <4>2. row \in FirstRows(row.seat)'
        BY <4>1 DEF FirstRows
      <4> QED  BY <1>8, <4>2
    <3> QED  BY <3>2, <3>3
  <2> QED  BY <2>1, <2>2
<1>17. Denied'
  <2> SUFFICES ASSUME NEW row \in results', NEW s \in Seats,
                      Prefers(row.application, s, row.seat)
               PROVE  /\ \E q \in results' : q.seat = s /\ q.run <= row.run
                      /\ \A f \in FirstRows(s)' : RowScore(f) >= RowScore(row)
    BY DEF Denied, Outscored
  \* A row of this run that gives away what nothing older does comes of the plan.
  <2>1. ASSUME NEW i \in DOMAIN plan, row = plan[i], Old(s, number) = {}
        PROVE  /\ \E k \in DOMAIN plan : k < i /\ plan[k].seat = s
               /\ \A f \in FirstRows(s)' : RowScore(f) >= RowScore(row)
    <3>1. FirstDenied(plan, i, s)
      BY <2>1 DEF FairInv, PlanDenied, plan, number
    <3>2. ASSUME NEW f \in FirstRows(s)' PROVE RowScore(f) >= RowScore(row)
      <4>1. f \in results' /\ f.seat = s
        BY DEF FirstRows
      <4>2. \E k \in DOMAIN plan : f = plan[k]
        BY <1>14, <2>1, <4>1
      <4> QED  BY <2>1, <3>1, <4>1, <4>2 DEF FirstDenied
    <3> QED  BY <3>1, <3>2 DEF FirstDenied
  <2>2. CASE row \in results
    <3>1. /\ \E q \in results : q.seat = s /\ q.run <= row.run
          /\ \A f \in FirstRows(s) : RowScore(f) >= RowScore(row)
      BY <2>2 DEF FairInv, Denied, Outscored
    <3>2. CASE Old(s, number) # {}
      BY <1>6, <1>13, <3>1, <3>2
    <3>3. CASE Old(s, number) = {}
      <4>1. PICK q \in results : q.seat = s /\ q.run <= row.run
        BY <3>1
      <4>2. q.run = number /\ row.run = number
        BY <1>2, <1>6, <1>8, <1>14, <3>3, <4>1
      <4>3. PICK i \in DOMAIN plan : row = plan[i]
        BY <1>2, <1>7, <4>2
      <4> QED  BY <1>6, <2>1, <3>3, <4>1, <4>3
    <3> QED  BY <3>2, <3>3
  <2>3. CASE row \notin results
    <3>1. PICK i \in 1..n : row = plan[i]
      BY <1>6, <2>3
    <3>2. i \in DOMAIN plan /\ row.run = number
      BY <1>2, <1>6, <3>1
    <3>3. CASE Old(s, number) # {}
      <4>1. LaterDenied(plan, i, s)
        BY <3>1, <3>2, <3>3 DEF FairInv, PlanDenied, plan, number
      <4>2. \A f \in FirstRows(s)' : RowScore(f) >= RowScore(row)
        BY <1>13, <3>1, <3>3, <4>1 DEF LaterDenied
      <4>3. \E q \in results' : q.seat = s /\ q.run <= row.run
        BY <1>2, <1>6, <3>2, <3>3 DEF Old
      <4> QED  BY <4>2, <4>3
    <3>4. CASE Old(s, number) = {}
      <4>1. /\ \E k \in DOMAIN plan : k < i /\ plan[k].seat = s
            /\ \A f \in FirstRows(s)' : RowScore(f) >= RowScore(row)
        BY <2>1, <3>1, <3>2, <3>4
      <4>2. PICK k \in DOMAIN plan : k < i /\ plan[k].seat = s
        BY <4>1
      <4>3. k \in 1..n
        BY <1>1, <3>1, <4>2
      <4>4. plan[k] \in results' /\ plan[k].seat = s /\ plan[k].run <= row.run
        BY <1>2, <1>6, <3>2, <4>2, <4>3
      <4> QED  BY <4>1, <4>4
    <3> QED  BY <3>3, <3>4
  <2> QED  BY <2>2, <2>3
<1>18. FirstRunFits'
  <2> SUFFICES ASSUME NEW s \in Seats
               PROVE  Cardinality({row \in results' : row.run = 1 /\ row.seat = s}) <= Capacity[s]
    BY DEF FirstRunFits
  <2>1. CASE number # 1
    <3>1. {row \in results' : row.run = 1 /\ row.seat = s}
            = {row \in results : row.run = 1 /\ row.seat = s}
      BY <1>6, <1>9, <2>1
    <3> QED  BY <3>1 DEF FairInv, FirstRunFits
  <2>2. CASE number = 1
    <3> DEFINE held == {i \in DOMAIN plan : plan[i].seat = s}
               taken == {row \in results' : row.run = 1 /\ row.seat = s}
               all == {plan[i] : i \in held}
    <3>1. Cardinality(held) <= Capacity[s]
      BY <2>2 DEF FairInv, PlanFits, plan, number
    <3>2. IsFiniteSet(held) /\ Cardinality(held) \in Nat
      <4>1. held \subseteq 1..m
        BY <1>1
      <4> HIDE DEF held
      <4> QED  BY <4>1, PartOfInterval
    <3>3. taken \subseteq all
      BY <1>2, <1>7, <2>2
    <3>4. IsFiniteSet(all) /\ Cardinality(all) <= Cardinality(held)
      <4> HIDE DEF held
      <4> QED  BY <3>2, ImageOf
    <3>5. Cardinality(taken) <= Cardinality(all)
          /\ Cardinality(taken) \in Nat /\ Cardinality(all) \in Nat
      <4> HIDE DEF taken, all
      <4> QED  BY <3>3, <3>4, FS_Subset, FS_CardinalityType
    <3>6. Capacity[s] \in Nat
      BY RankingAssumption
    <3> HIDE DEF held, taken, all
    <3>7. Cardinality(taken) <= Capacity[s]
      BY <3>1, <3>2, <3>4, <3>5, <3>6
    <3> QED  BY <3>7 DEF taken
  <2> QED  BY <2>1, <2>2
<1>19. OneRow'
  <2> SUFFICES ASSUME NEW row \in results', NEW other \in results',
                      row.application = other.application, row.run = other.run
               PROVE  row = other
    BY DEF OneRow
  <2>1. CASE row.run < number
    <3>1. row \in results /\ other \in results
      BY <1>2, <1>8, <1>9, <2>1
    <3> QED  BY <3>1 DEF FairInv, OneRow
  <2>2. CASE ~(row.run < number)
    <3>1. PICK i \in DOMAIN plan : row = plan[i]
      BY <1>7, <2>2
    <3>2. PICK j \in DOMAIN plan : other = plan[j]
      BY <1>7, <2>2
    <3> QED  BY <1>2, <3>1, <3>2
  <2> QED  BY <2>1, <2>2
<1>20. RowsFair'
  BY <1>15, <1>16, <1>17, <1>18, <1>19 DEF RowsFair
<1>21. \A s : /\ {row \in results' : row.seat = s /\ row.run < number} = Old(s, number)
              /\ Old(s, number) # {} => FirstRows(s)' = FirstRows(s)
  BY <1>11, <1>13
<1> QED
  BY <1>7, <1>20, <1>21 DEF plan, number

\* A plan is fair when it is made: the first by its greedy pass, a later one by
\* the floors and by the rows it carries over.
LEMMA RunAssignFair ==
  ASSUME OneRanker, IInv, CutoffInv, FairInv, \A s \in Seats : Capacity[s] > 0,
         NEW r \in Rankers, RunAssign(r)
  PROVE  FairInv'
<1> DEFINE run == ranker[r]
           all == DOMAIN run.scores
           S   == {a \in all : ~Government(a)}
           G   == {a \in all : Government(a)}
           Score(a) == FinalScore(a, run.scores[a])
<1>1. PICK self \in Ranked(S, run.scores), gov \in Ranked(G, run.scores) :
        ranker' = [ranker EXCEPT ![r].at = "persisting",
          ![r].plan = [i \in DOMAIN (self \o gov) |->
            [application |-> (self \o gov)[i], run |-> run.number,
             uat |-> run.scores[(self \o gov)[i]],
             rank |-> IF i <= Len(self) THEN i ELSE i - Len(self),
             seat |-> IF run.number = 1 THEN Allocation(self \o gov)[i]
                      ELSE IF (self \o gov)[i] \in DOMAIN run.locked
                           THEN run.locked[(self \o gov)[i]]
                      ELSE FirstOpen((self \o gov)[i],
                             Reaches(FinalScore((self \o gov)[i],
                                                run.scores[(self \o gov)[i]]), run.number))]]]
  BY Zenon DEF RunAssign
<1>2. run.at = "merged" /\ UNCHANGED <<status, uat, results, cutoff>>
  BY DEF RunAssign
<1>3. /\ all = run.fresh \cup DOMAIN run.locked
      /\ \A a \in DOMAIN run.locked :
           \E row \in results : row.application = a /\ row.seat = run.locked[a]
      /\ run.number \in Nat \ {0} /\ run.fresh \subseteq Applicants
  BY <1>2 DEF IInv, RankInv, MergeBacked, RankerShape
<1>4. all \subseteq Applicants
  BY <1>3 DEF IInv, RankInv, RowsAdvanced
<1>5. /\ \A a \in all : run.scores[a] \in UATScores
      /\ \A row \in results : run.scores[row.application] = row.uat
      /\ \A row \in results : row.run < run.number
  BY <1>2 DEF CutoffInv, MergeScored, RunsBelow
<1>6. PICK order : order = self \o gov
  OBVIOUS
<1>7. /\ Len(order) \in Nat /\ DOMAIN order = 1..Len(order)
      /\ \A i \in DOMAIN order : order[i] \in all
      /\ \A k, i \in DOMAIN order :
           k < i /\ (Government(order[k]) <=> Government(order[i])) =>
             Before(order[k], order[i], run.scores)
  <2>1. /\ S \subseteq Applicants /\ G \subseteq Applicants
        /\ S \cap G = {} /\ S \cup G \subseteq all
        /\ \A a \in S : ~Government(a)
        /\ \A a \in G : Government(a)
    BY <1>4
  <2> HIDE DEF all, run, S, G
  <2>2. /\ Len(self \o gov) \in Nat /\ DOMAIN (self \o gov) = 1..Len(self \o gov)
        /\ \A i \in DOMAIN (self \o gov) : (self \o gov)[i] \in S \cup G
        /\ \A i, j \in DOMAIN (self \o gov) : (self \o gov)[i] = (self \o gov)[j] => i = j
    <3>1. S \subseteq Applicants /\ G \subseteq Applicants /\ S \cap G = {}
      BY <2>1
    <3> QED  BY <3>1, RankingOrder, Zenon
  <2>3. \A i \in DOMAIN order : order[i] \in all
    BY <1>6, <2>1, <2>2, SMT
  <2>4. ASSUME NEW k \in DOMAIN (self \o gov), NEW i \in DOMAIN (self \o gov), k < i,
               Government((self \o gov)[k]) <=> Government((self \o gov)[i])
        PROVE  Before((self \o gov)[k], (self \o gov)[i], run.scores)
    BY <2>1, <2>4, RankedInOrder
  <2> QED
    BY <1>6, <2>2, <2>3, <2>4, Zenon
<1> DEFINE plan == ranker'[r].plan
<1>8. /\ \A s \in Rankers : s = r
      /\ ranker'[r].at = "persisting" /\ ranker'[r].number = run.number
      /\ DOMAIN plan = DOMAIN order
      /\ \A i \in DOMAIN order :
           /\ plan[i].application = order[i]
           /\ plan[i].uat = run.scores[order[i]]
           /\ run.number = 1 => plan[i].seat = Allocation(order)[i]
           /\ run.number # 1 =>
                plan[i].seat =
                  IF order[i] \in DOMAIN run.locked THEN run.locked[order[i]]
                  ELSE FirstOpen(order[i],
                         Reaches(FinalScore(order[i], run.scores[order[i]]), run.number))
  BY <1>1, <1>6 DEF OneRanker, IInv, RankInv, RankerShape
<1>9. \A i \in DOMAIN order : /\ RowScore(plan[i]) = Score(order[i])
                              /\ Score(order[i]) \in Nat
                              /\ order[i] \in Applicants
  BY <1>4, <1>5, <1>7, <1>8, ScoreType DEF RowScore
<1>10. run.number = 1 => \A s : Old(s, run.number) = {}
  BY <1>5, FirstRunStartsEmpty DEF Old
<1>11. \A row \in results : RowScore(row) \in Nat
  BY RowScoreType
<1>12. \A s : Old(s, run.number) # {} <=> \E row \in results : row.seat = s
  BY <1>5 DEF Old
<1> HIDE DEF plan
\* A row carried over has the score of a row there is.
<1>13. ASSUME NEW i \in DOMAIN order, run.number # 1, order[i] \in DOMAIN run.locked
       PROVE  \E row \in results : /\ row.application = order[i] /\ row.seat = plan[i].seat
                                   /\ RowScore(row) = Score(order[i])
  <2>1. PICK row \in results : row.application = order[i] /\ row.seat = run.locked[order[i]]
    BY <1>3, <1>13
  <2>2. row.seat = plan[i].seat
    BY <1>8, <1>13, <2>1
  <2>3. RowScore(row) = Score(order[i])
    BY <1>5, <2>1 DEF RowScore
  <2> QED
    BY <2>1, <2>2, <2>3
<1>14. ASSUME NEW i \in DOMAIN order, run.number # 1, order[i] \notin DOMAIN run.locked
       PROVE  plan[i].seat = FirstOpen(order[i], Reaches(Score(order[i]), run.number))
  BY <1>8, <1>14
<1>15. run.number \in Nat
  BY <1>3
<1> HIDE DEF run, Score
<1>16. ASSUME NEW i \in DOMAIN order, plan[i].seat # NoSeat, Old(plan[i].seat, run.number) # {}
       PROVE  \E f \in FirstRows(plan[i].seat) : RowScore(f) <= RowScore(plan[i])
  <2>1. run.number # 1
    BY <1>10, <1>16
  <2>2. CASE order[i] \in DOMAIN run.locked
    <3>1. PICK row \in results : row.seat = plan[i].seat /\ RowScore(row) = Score(order[i])
      BY <1>13, <2>1, <2>2
    <3>2. \E f \in FirstRows(row.seat) : RowScore(f) <= RowScore(row)
      BY <1>16, <3>1 DEF FairInv, FloorsHold
    <3> QED  BY <1>9, <3>1, <3>2
  <2>3. CASE order[i] \notin DOMAIN run.locked
    <3> DEFINE seat == plan[i].seat
    <3>1. seat = FirstOpen(order[i], Reaches(Score(order[i]), run.number))
      BY <1>14, <2>1, <2>3
    <3>2. seat \in Reaches(Score(order[i]), run.number)
      BY <1>9, <1>16, <3>1, FirstOpenIsOpen
    <3>3. /\ Cutoff(seat, run.number) \in Nat
          /\ \E f \in FirstRows(seat) : RowScore(f) = Cutoff(seat, run.number)
      BY <1>5, <1>15, <1>16, CutoffIsFloor
    <3>4. Score(order[i]) >= Cutoff(seat, run.number)
      BY <3>2, <3>3 DEF Reaches, NoScore
    <3> QED  BY <1>9, <3>3, <3>4
  <2> QED  BY <2>2, <2>3
<1>17. ASSUME NEW i \in DOMAIN order, NEW s \in Seats, Prefers(order[i], s, plan[i].seat),
              Old(s, run.number) # {}
       PROVE  \A f \in FirstRows(s) : RowScore(f) >= RowScore(plan[i])
  <2>1. run.number # 1
    BY <1>10, <1>17
  <2>2. CASE order[i] \in DOMAIN run.locked
    <3>1. PICK row \in results : /\ row.application = order[i] /\ row.seat = plan[i].seat
                                 /\ RowScore(row) = Score(order[i])
      BY <1>13, <2>1, <2>2
    <3>2. Outscored(row, s)
      BY <1>17, <3>1 DEF FairInv, Denied
    <3> QED  BY <1>9, <3>1, <3>2 DEF Outscored
  <2>3. CASE order[i] \notin DOMAIN run.locked
    <3>1. plan[i].seat = FirstOpen(order[i], Reaches(Score(order[i]), run.number))
      BY <1>14, <2>1, <2>3
    <3>2. s \notin Reaches(Score(order[i]), run.number)
      BY <1>9, <1>17, <3>1, FirstOpenBest
    <3>3. Cutoff(s, run.number) \in Nat
          /\ \A f \in FirstRows(s) : Cutoff(s, run.number) <= RowScore(f)
      BY <1>5, <1>15, <1>17, CutoffIsFloor
    <3>4. Score(order[i]) < Cutoff(s, run.number)
      BY <1>9, <1>17, <3>2, <3>3 DEF Reaches
    <3>5. \A f \in FirstRows(s) : RowScore(f) \in Nat
      BY <1>11 DEF FirstRows
    <3> QED  BY <1>9, <3>3, <3>4, <3>5
  <2> QED  BY <2>2, <2>3
<1>18. ASSUME NEW i \in DOMAIN order, NEW s \in Seats, Prefers(order[i], s, plan[i].seat),
              Old(s, run.number) = {}
       PROVE  /\ \E k \in DOMAIN order : k < i /\ plan[k].seat = s
              /\ \A k \in DOMAIN order : plan[k].seat = s => RowScore(plan[k]) >= RowScore(plan[i])
  <2>1. CASE run.number = 1
    <3>1. Prefers(order[i], s, Allocation(order)[i])
      BY <1>8, <1>18, <2>1
    <3>2. /\ \E k \in 1..(i - 1) : Allocation(order)[k] = s
          /\ \A k \in 1..Len(order) : Allocation(order)[k] = s => k < i
      BY <1>7, <1>9, <3>1, AllocationFair
    <3>3. PICK k \in 1..(i - 1) : Allocation(order)[k] = s
      BY <3>2
    <3>4. k \in DOMAIN order /\ k < i
      BY <1>7
    <3>5. plan[k].seat = s
      BY <1>8, <2>1, <3>3, <3>4
    <3>6. ASSUME NEW j \in DOMAIN order, plan[j].seat = s
          PROVE  RowScore(plan[j]) >= RowScore(plan[i])
      <4>1. Allocation(order)[j] = s /\ j < i
        BY <1>7, <1>8, <2>1, <3>2, <3>6
      <4>2. s = FirstOpen(order[j], LeftFor(Allocation(order), j))
        BY <1>7, <1>9, <4>1, AllocationSteps
      <4>3. \E x \in DOMAIN Preference[order[j]] : Preference[order[j]][x] = s
        <5>1. s # NoSeat
          BY RankingAssumption
        <5> QED  BY <1>9, <4>2, <5>1, FirstOpenWanted
      <4>4. \E x \in DOMAIN Preference[order[i]] : Preference[order[i]][x] = s
        BY <1>9, <1>18, PrefersWanted
      <4>5. Government(order[j]) <=> Government(order[i])
        BY <1>9, <4>3, <4>4, SameCategory
      <4>6. Before(order[j], order[i], run.scores)
        BY <1>7, <4>1, <4>5
      <4>7. Score(order[j]) >= Score(order[i])
        BY <1>9, <4>6 DEF Before, Score
      <4> QED  BY <1>9, <4>7
    <3> QED  BY <3>4, <3>5, <3>6
  \* Whoever is carried over was denied by a row there is; without a floor the
  \* seat is open.
  <2>2. CASE run.number # 1
    <3>1. CASE order[i] \in DOMAIN run.locked
      <4>1. PICK row \in results : row.application = order[i] /\ row.seat = plan[i].seat
        BY <1>13, <2>2, <3>1
      <4>2. \E q \in results : q.seat = s
        BY <1>18, <4>1 DEF FairInv, Denied, Outscored
      <4> QED  BY <1>12, <1>18, <4>2
    <3>2. CASE order[i] \notin DOMAIN run.locked
      <4>1. plan[i].seat = FirstOpen(order[i], Reaches(Score(order[i]), run.number))
        BY <1>14, <2>2, <3>2
      <4>2. s \notin Reaches(Score(order[i]), run.number)
        BY <1>9, <1>18, <4>1, FirstOpenBest
      <4> QED  BY <1>18, <4>2, NoFloor DEF Reaches
    <3> QED  BY <3>1, <3>2
  <2> QED  BY <2>1, <2>2
<1>19. ASSUME run.number = 1, NEW s \in Seats
       PROVE  Cardinality({i \in DOMAIN plan : plan[i].seat = s}) <= Capacity[s]
  <2>1. {i \in DOMAIN plan : plan[i].seat = s} = {i \in 1..Len(order) : Allocation(order)[i] = s}
    BY <1>7, <1>8, <1>19
  <2>2. Cardinality({i \in 1..Len(order) : Allocation(order)[i] = s}) <= Capacity[s]
    BY <1>7, <1>9, AllocationFits
  <2> QED  BY <2>1, <2>2
<1>20. RowsFair'
  BY <1>2, RowsFairUnchanged DEF FairInv, RowsFair
<1>21. results' = results
  BY <1>2
<1>22. Written'
  BY <1>5, <1>8, <1>21 DEF Written
<1>23. PlanFloors'
  BY <1>8, <1>16, <1>21 DEF PlanFloors, Old, FirstRows, plan
<1>24. PlanDenied'
  <2>1. ASSUME NEW i \in DOMAIN plan, NEW s \in Seats,
               Prefers(plan[i].application, s, plan[i].seat)
        PROVE  IF Old(s, run.number) # {}
               THEN \A f \in FirstRows(s) : RowScore(f) >= RowScore(plan[i])
               ELSE /\ \E k \in DOMAIN plan : k < i /\ plan[k].seat = s
                    /\ \A k \in DOMAIN plan : plan[k].seat = s =>
                         RowScore(plan[k]) >= RowScore(plan[i])
    <3>1. i \in DOMAIN order /\ Prefers(order[i], s, plan[i].seat)
      BY <1>8, <2>1
    <3> QED  BY <1>8, <1>17, <1>18, <3>1
  <2> QED
    BY <1>8, <1>21, <2>1 DEF PlanDenied, Old, LaterDenied, FirstDenied, FirstRows, plan
<1>25. PlanFits'
  BY <1>8, <1>19 DEF PlanFits, plan
<1> QED
  BY <1>20, <1>22, <1>23, <1>24, <1>25 DEF FairInv, RowsFair

LEMMA RunPersistFair ==
  ASSUME OneRanker, IInv, CutoffInv, FairInv, NEW r \in Rankers, RunPersist(r)
  PROVE  FairInv'
<1>1. PICK next \in Fresh(r) :
        /\ results' = results \cup {ranker[r].plan[i] : i \in 1..next}
        /\ ranker' = [ranker EXCEPT ![r].done = next]
  BY Zenon DEF RunPersist
<1>2. ranker[r].at = "persisting"
  BY DEF RunPersist
<1>3. next \in Nat /\ 1..next \subseteq DOMAIN ranker[r].plan
  <2>1. PICK n \in Nat : DOMAIN ranker[r].plan = 1..n
    BY <1>2 DEF IInv, RankInv, PlanShape
  <2> QED
    BY <2>1 DEF Fresh
<1>4. /\ RowsFair'
      /\ \A row \in results' :
           \/ row.run < ranker[r].number
           \/ \E i \in DOMAIN ranker[r].plan : row = ranker[r].plan[i]
      /\ \A s : /\ {row \in results' : row.seat = s /\ row.run < ranker[r].number}
                     = Old(s, ranker[r].number)
                /\ Old(s, ranker[r].number) # {} => FirstRows(s)' = FirstRows(s)
  BY <1>1, <1>2, <1>3, WriteFair
<1>5. \A s \in Rankers : /\ s = r /\ ranker'[s].at = ranker[s].at
                         /\ ranker'[s].plan = ranker[s].plan
                         /\ ranker'[s].number = ranker[s].number
  BY <1>1 DEF OneRanker, IInv, RankInv, RankerShape
<1>6. \A s : /\ {row \in results' : row.seat = s /\ row.run < ranker'[r].number}
                  = {row \in results : row.seat = s /\ row.run < ranker[r].number}
             /\ {row \in results : row.seat = s /\ row.run < ranker[r].number} # {} =>
                  FirstRows(s)' = FirstRows(s)
  BY <1>4, <1>5 DEF Old
<1>7. Written' /\ PlanFits'
  BY <1>4, <1>5 DEF FairInv, Written, PlanFits
<1>8. PlanFloors'
  BY <1>5, <1>6 DEF FairInv, PlanFloors, Old
<1>9. PlanDenied'
  <2> SUFFICES ASSUME NEW i \in DOMAIN ranker[r].plan, NEW s \in Seats,
                      Prefers(ranker[r].plan[i].application, s, ranker[r].plan[i].seat)
               PROVE  IF {row \in results' : row.seat = s /\ row.run < ranker'[r].number} # {}
                      THEN \A f \in FirstRows(s)' : RowScore(f) >= RowScore(ranker[r].plan[i])
                      ELSE FirstDenied(ranker[r].plan, i, s)
    BY <1>5 DEF PlanDenied, LaterDenied, FirstDenied, Old
  <2>1. IF Old(s, ranker[r].number) # {} THEN LaterDenied(ranker[r].plan, i, s)
        ELSE FirstDenied(ranker[r].plan, i, s)
    BY <1>2 DEF FairInv, PlanDenied
  <2> QED
    BY <1>6, <2>1 DEF LaterDenied, Old
<1> QED
  BY <1>4, <1>7, <1>8, <1>9 DEF FairInv, RowsFair

LEMMA RunFinishFair ==
  ASSUME OneRanker, IInv, CutoffInv, FairInv, NEW r \in Rankers, RunFinish(r)
  PROVE  FairInv'
<1>1. /\ ranker[r].at = "persisting"
      /\ ranker' = [ranker EXCEPT ![r] = Idle]
      /\ results' = results \cup {ranker[r].plan[i] : i \in DOMAIN ranker[r].plan}
  BY DEF RunFinish, ToSet
<1>2. PICK n \in Nat : DOMAIN ranker[r].plan = 1..n
  BY <1>1 DEF IInv, RankInv, PlanShape
<1>3. RowsFair'
  BY <1>1, <1>2, WriteFair
<1>4. \A s \in Rankers : ranker'[s].at # "persisting"
  BY <1>1 DEF OneRanker, IInv, RankInv, RankerShape, Idle
<1> QED
  BY <1>3, <1>4, NobodyWrites

LEMMA FairStep ==
  ASSUME OneRanker, \A s \in Seats : Capacity[s] > 0, IInv, CutoffInv, FairInv, [Next]_vars
  PROVE  FairInv'
<1>1. ASSUME NEW a \in Applicants, CompleteUAT(a) PROVE FairInv'
  BY <1>1, FairUntouched DEF CompleteUAT
<1>2. ASSUME NEW r \in Rankers,
             RunLoad(r) \/ RunNumber(r) \/ RunMerge(r) \/ RunFails(r)
      PROVE  FairInv'
  BY <1>2, PreparingFair
<1>3. ASSUME RankNext PROVE FairInv'
  BY <1>1, <1>2, <1>3, RunAssignFair, RunPersistFair, RunFinishFair DEF RankNext
<1>4. ASSUME EnrollNext PROVE FairInv'
  <2>1. UNCHANGED <<results, ranker>>
    BY <1>4 DEF EnrollNext, Decide, OnboardByHand, ChangeStatus, EnrollLoad, EnrollRead, EnrollStudent,
                EnrollFailsFor, OnboardRead, OnboardCommit, EnrollFinish, EnrollStops, rankVars
  <2> QED
    BY <2>1, FairUntouched
<1>5. ASSUME UNCHANGED vars PROVE FairInv'
  BY <1>5, FairUntouched DEF vars, rankVars
<1> QED
  BY <1>3, <1>4, <1>5 DEF Next

-----------------------------------------------------------------------------
(* What is published.                                                      *)

\* Nobody has a seat for less than its floor, and nobody who prefers it has more.
LEMMA NobodyEnvies ==
  ASSUME IInv, CutoffInv, FairInv
  PROVE  NoEnvy
<1> SUFFICES ASSUME NEW row \in results, NEW other \in results,
                    Prefers(row.application, other.seat, row.seat)
             PROVE  RowScore(other) >= RowScore(row)
  BY DEF NoEnvy
<1>1. row.application \in Applicants
  BY DEF IInv, RankInv, RowsAdvanced
<1>2. other.seat \in Seats /\ other.seat # NoSeat
  BY <1>1, PrefersWanted, RankingAssumption
<1>3. PICK f \in FirstRows(other.seat) : RowScore(f) <= RowScore(other)
  BY <1>2 DEF FairInv, FloorsHold
<1>4. RowScore(f) >= RowScore(row)
  BY <1>2 DEF FairInv, Denied, Outscored
<1>5. f \in results
  BY DEF FirstRows
<1>6. RowScore(f) \in Nat /\ RowScore(row) \in Nat /\ RowScore(other) \in Nat
  BY <1>5, RowScoreType
<1> QED
  BY <1>3, <1>4, <1>6

\* The summary adds up the rows of the latest run, one for each applicant.
LEMMA SummaryAgrees ==
  ASSUME IInv, CutoffInv, FairInv
  PROVE  SummaryFits
<1> DEFINE latest == get_ranking_results
<1>1. latest \subseteq results /\ \A row \in latest : row.run = LatestRun
  BY DEF get_ranking_results
<1>2. IsFiniteSet(latest)
  BY <1>1, FS_Subset DEF FairInv
<1>3. Cardinality({row.application : row \in latest}) = Cardinality(latest)
  <2> DEFINE T == {row.application : row \in latest}
             f == [row \in latest |-> row.application]
  <2> HIDE DEF latest
  <2>1. \A x, y \in latest : x.application = y.application => x = y
    BY <1>1 DEF FairInv, OneRow
  <2>2. f \in Bijection(latest, T)
    BY <2>1 DEF Bijection, Injection, Surjection, IsInjective
  <2>3. ExistsBijection(latest, T)
    BY <2>2 DEF ExistsBijection
  <2> HIDE DEF T, f
  <2>4. Cardinality(T) = Cardinality(latest)
    BY <1>2, <2>3, FS_Bijection
  <2> QED  BY <2>4 DEF T
<1>4. ASSUME NEW p \in Programs, get_ranking_summary(p).assigned_count > 0, cutoff[p] # NoScore
      PROVE  /\ get_ranking_summary(p).cutoff_score >= cutoff[p]
             /\ {row.application : row \in results} = {row.application : row \in latest} =>
                  get_ranking_summary(p).cutoff_score = cutoff[p]
  <2> DEFINE held   == {row \in latest : row.seat = p}
             scores == {RowScore(row) : row \in held}
  <2> HIDE DEF latest
  <2>1. held # {}
    <3>1. CASE held = {}
      <4>1. Cardinality(held) = 0
        BY <3>1, FS_EmptySet
      <4>2. get_ranking_summary(p).assigned_count = Cardinality(held)
        BY DEF get_ranking_summary, latest
      <4> QED  BY <1>4, <4>1, <4>2
    <3> QED  BY <3>1
  <2>2. get_ranking_summary(p).cutoff_score = Min(scores)
    BY <2>1 DEF get_ranking_summary, RowScore, latest
  <2>3. scores \subseteq Nat /\ scores # {}
    BY <1>1, <2>1, RowScoreType
  <2>4. Min(scores) \in scores /\ \A x \in scores : Min(scores) <= x
    <3> HIDE DEF scores
    <3> QED  BY <2>3, LowestOf
  <2>5. /\ cutoff[p] \in Nat
        /\ \A row \in results : row.seat = p => RowScore(row) >= cutoff[p]
        /\ \E row \in results : row.seat = p /\ RowScore(row) = cutoff[p]
    BY <1>4 DEF CutoffInv, CutoffIsLowest, Floor
  <2>6. Min(scores) >= cutoff[p]
    BY <1>1, <2>4, <2>5
  <2>7. ASSUME {row.application : row \in results} = {row.application : row \in latest}
        PROVE  Min(scores) = cutoff[p]
    <3>1. PICK row \in results : row.seat = p /\ RowScore(row) = cutoff[p]
      BY <2>5
    <3>2. PICK shown \in latest : shown.application = row.application
      BY <2>7
    <3>3. shown \in results
      BY <1>1
    <3>4. shown.seat = row.seat
      BY <3>2, <3>3 DEF IInv, RankInv, SeatStands
    <3>5. shown.uat = row.uat
      BY <3>2, <3>3 DEF CutoffInv, ScoresStand
    <3>6. RowScore(shown) = cutoff[p] /\ shown \in held
      BY <3>1, <3>2, <3>4, <3>5 DEF RowScore
    <3>7. Min(scores) <= cutoff[p]
      BY <2>4, <3>6
    <3> QED  BY <2>3, <2>4, <2>5, <2>6, <3>7
  <2> QED  BY <2>2, <2>6, <2>7
<1> QED
  BY <1>3, <1>4 DEF SummaryFits

\* The greedy first run and the floors of later ones (ranking_agent.py) leave
\* nobody below a seat somebody with a lower score holds, the first run fits the
\* capacities, and the summary officers see is that of the stored cut-offs.  A
\* seat without places is what would be given to anyone by a re-run.
THEOREM FairlyPublished ==
  ASSUME OneRanker, \A s \in Seats : Capacity[s] > 0
  PROVE  Spec => []PublishedFairly
<1>1. Init => FairInv
  BY InitFair
<1>2. IInv /\ CutoffInv /\ FairInv /\ [Next]_vars => FairInv'
  BY FairStep
<1>3. IInv /\ CutoffInv /\ FairInv => PublishedFairly
  BY NobodyEnvies, SummaryAgrees DEF PublishedFairly, RankedFairly, FairInv
<1> QED
  BY <1>1, <1>2, <1>3, Invariant, CutoffsAreFloors, PTL DEF Spec
=============================================================================
