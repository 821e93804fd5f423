--------------------------- MODULE GradeBatchProofs ---------------------------
(***************************************************************************)
(* Theorems about GradeBatch, for any number of sections, students,        *)
(* sessions and totals, whatever requests overlap or fail; and about       *)
(* requests that take turns.  At the end, the evidence of GradeClass, for  *)
(* any class and any components.                                           *)
(***************************************************************************)
EXTENDS GradeTurns, GradeClass, SumLemmas, FiniteSetTheorems, TLAPS

(***************************************************************************)
(* The letter scale.                                                       *)
(***************************************************************************)
\* The letter of a total is that of the one row it reaches with none above it.
LEMMA LetterOfRow ==
    ASSUME NEW n \in Int, n < 100, n >= 0, NEW k \in 1..11, n >= LETTER_CUTOFFS[k][1],
           \A j \in 1..(k - 1) : n < LETTER_CUTOFFS[j][1]
    PROVE  letter_for_numeric(n) = LETTER_CUTOFFS[k][2]
<1> DEFINE Hit(i) == /\ n >= LETTER_CUTOFFS[i][1]
                     /\ \A j \in 1..(i - 1) : n < LETTER_CUTOFFS[j][1]
<1>1. Len(LETTER_CUTOFFS) = 11 /\ \A i \in 1..11 : LETTER_CUTOFFS[i][1] \in Int
  BY DEF LETTER_CUTOFFS
<1>2. \A i \in 1..11 : Hit(i) => i = k
  <2> SUFFICES ASSUME NEW i \in 1..11, Hit(i) PROVE ~(i < k) /\ ~(k < i)
    OBVIOUS
  <2>1. CASE i < k
    BY <2>1, <1>1
  <2>2. CASE k < i
    BY <2>2, <1>1
  <2> QED  BY <2>1, <2>2
<1>3. Hit(k)
  OBVIOUS
<1>4. letter_for_numeric(n) = LETTER_CUTOFFS[CHOOSE i \in 1..Len(LETTER_CUTOFFS) : Hit(i)][2]
  BY DEF letter_for_numeric
<1> HIDE DEF Hit
<1>5. (CHOOSE i \in 1..11 : Hit(i)) = k
  BY <1>2, <1>3
<1> QED
  BY <1>1, <1>4, <1>5

\* The cut-offs as a ladder, with no table to search.
Rung(n) ==
    IF n >= 90 THEN "A+" ELSE IF n >= 83 THEN "A" ELSE IF n >= 80 THEN "A-"
    ELSE IF n >= 75 THEN "B+" ELSE IF n >= 68 THEN "B" ELSE IF n >= 65 THEN "B-"
    ELSE IF n >= 60 THEN "C+" ELSE IF n >= 50 THEN "C" ELSE IF n >= 45 THEN "C-"
    ELSE IF n >= 40 THEN "D" ELSE "F"

\* The first row that a number reaches has the letter of its rung, below 0 and
\* above 100 as well.
LEMMA LetterIsRung ==
    ASSUME NEW n \in Int
    PROVE  letter_for_numeric(n) = Rung(n)
<1>1. CASE n >= 100
  BY <1>1 DEF letter_for_numeric, Rung
<1>2. CASE n < 0
  BY <1>2 DEF letter_for_numeric, Rung
<1>3. CASE n >= 0 /\ n < 100
  <2> DEFINE k == IF n >= 90 THEN 1 ELSE IF n >= 83 THEN 2 ELSE IF n >= 80 THEN 3
                  ELSE IF n >= 75 THEN 4 ELSE IF n >= 68 THEN 5 ELSE IF n >= 65 THEN 6
                  ELSE IF n >= 60 THEN 7 ELSE IF n >= 50 THEN 8 ELSE IF n >= 45 THEN 9
                  ELSE IF n >= 40 THEN 10 ELSE 11
  <2>1. /\ k \in 1..11 /\ n >= LETTER_CUTOFFS[k][1]
        /\ \A j \in 1..(k - 1) : n < LETTER_CUTOFFS[j][1]
    BY <1>3 DEF LETTER_CUTOFFS
  <2>2. LETTER_CUTOFFS[k][2] = Rung(n)
    BY <1>3 DEF LETTER_CUTOFFS, Rung
  <2> HIDE DEF k
  <2> QED  BY <1>3, <2>1, <2>2, LetterOfRow
<1> QED
  BY <1>1, <1>2, <1>3

\* A rung is one of the eleven letters, a C or better exactly from 50 on.
LEMMA RungIsLetter ==
    ASSUME NEW n \in Int
    PROVE  /\ Rung(n) \in NumericLetters
           /\ (Rung(n) \in NumericLetters \ {"C-", "D", "F"}) <=> n >= 50
  BY DEF Rung, NumericLetters

\* Every total of 0..100 has one of the eleven letters.
LEMMA LetterIsNumeric ==
    ASSUME NEW n \in 0..100
    PROVE  letter_for_numeric(n) \in NumericLetters
  BY LetterIsRung, RungIsLetter

-----------------------------------------------------------------------------
(***************************************************************************)
(* Type correctness.                                                       *)
(***************************************************************************)
\* The conjuncts of SessionOK that the types of the rows rest on.
SessionTyped(s) ==
    /\ s.at # "idle" => s.section \in Sections
    /\ s.op = "submit_batch" => \A st \in DOMAIN s.cells : s.cells[st] \in Totals

Typed == TypeOK /\ \A p \in Sessions : SessionTyped(session[p])

\* A row of cells for any set of students has the type of a session's cells.
LEMMA CellsType ==
    ASSUME NEW S \in SUBSET Students, NEW f \in [S -> Totals \cup {Blank}]
    PROVE  f \in Cells
  BY DEF Cells

\* The empty row of cells.
LEMMA NoCellsType == NoCells \in Cells /\ DOMAIN NoCells = {}
<1>1. {} \in SUBSET Students /\ NoCells \in [{} -> Totals \cup {Blank}]
  BY DEF NoCells
<1> QED  BY <1>1, CellsType DEF NoCells

\* The rows of a section that has no breakdown and no batch yet.
LEMMA NoRowsTyped == NoBatch \in BatchRow /\ NoBreakdown \in BreakdownRow
  BY DEF NoBatch, BatchRow, NoBreakdown, BreakdownRow

\* A slot that serves no request.
LEMMA IdleTyped == Idle \in SessionRow /\ SessionTyped(Idle)
  BY NoCellsType, NoRowsTyped DEF Idle, SessionRow, SessionTyped

\* A request that starts: one of the three ways a session changes.
LEMMA OpenTyped ==
    ASSUME Typed, NEW p \in Sessions, NEW op \in Ops, NEW sec \in Sections,
           NEW bd \in BreakdownRow, Open(p, op, sec, bd)
    PROVE  Typed'
<1>1. [op |-> op, at |-> "loaded", section |-> sec, seen |-> batch[sec],
       bd |-> bd, cells |-> NoCells, selected |-> {}, flip |-> FALSE, dirty |-> {}] \in SessionRow
  BY NoCellsType DEF Typed, TypeOK, SessionRow
<1> QED  BY <1>1, NoCellsType DEF Typed, TypeOK, SessionTyped, Open, rows

\* A request that ends leaves its slot idle.
LEMMA CloseTyped ==
    ASSUME Typed, NEW p \in Sessions, Close(p)
    PROVE  /\ session' \in [Sessions -> SessionRow]
           /\ \A q \in Sessions : SessionTyped(session'[q])
  BY IdleTyped DEF Typed, TypeOK, Close

\* A request that is refused or rolls back leaves every row as it was.
LEMMA RefuseTyped ==
    ASSUME Typed, NEW p \in Sessions, Refuse(p)
    PROVE  Typed'
  BY CloseTyped DEF Typed, TypeOK, Refuse, rows

\* A request that reads more rows before it writes.
LEMMA ReadTyped ==
    ASSUME Typed, NEW p \in Sessions, session[p].at # "idle",
           NEW bd \in BreakdownRow, NEW cells \in Cells,
           NEW selected \in SUBSET Students, NEW flip \in BOOLEAN,
           NEW dirty \in SUBSET (Students \X Attributes),
           session[p].op = "submit_batch" =>
              \A st \in DOMAIN cells : cells[st] \in Totals,
           Read(p, bd, cells, selected, flip, dirty)
    PROVE  Typed'
<1> DEFINE r == [op |-> session[p].op, at |-> "read", section |-> session[p].section,
                 seen |-> session[p].seen, bd |-> bd, cells |-> cells,
                 selected |-> selected, flip |-> flip, dirty |-> dirty]
<1>1. r \in SessionRow /\ SessionTyped(r)
  BY DEF Typed, TypeOK, SessionRow, SessionTyped
<1>2. session' = [session EXCEPT ![p] = r]
  BY DEF Read
<1> QED  BY <1>1, <1>2 DEF Typed, TypeOK, Read, rows

\* The record of a session past its flush.
LEMMA FlushedRow ==
    ASSUME NEW s \in SessionRow
    PROVE  /\ [s EXCEPT !.at = "flushed"] \in SessionRow
           /\ [s EXCEPT !.at = "flushed"] =
                 [op |-> s.op, at |-> "flushed", section |-> s.section, seen |-> s.seen,
                  bd |-> s.bd, cells |-> s.cells, selected |-> s.selected,
                  flip |-> s.flip, dirty |-> s.dirty]
  BY DEF SessionRow

\* A request whose flush succeeds and that goes on to await the LLM.
LEMMA FlushedTyped ==
    ASSUME Typed, NEW p \in Sessions, session[p].at # "idle", Flushed(p)
    PROVE  Typed'
<1> DEFINE r == [session[p] EXCEPT !.at = "flushed"]
<1>0. session[p] \in SessionRow
  BY DEF Typed, TypeOK
<1>1. r \in SessionRow
  BY <1>0, FlushedRow
<1>2. SessionTyped(r)
  <2>1. r.op = session[p].op /\ r.section = session[p].section /\ r.cells = session[p].cells
    BY <1>0, FlushedRow
  <2> HIDE DEF r
  <2> QED  BY <2>1 DEF Typed, SessionTyped
<1>3. session' = [session EXCEPT ![p] = r]
  BY DEF Flushed
<1> QED  BY <1>1, <1>2, <1>3 DEF Typed, TypeOK, Flushed, rows

\* The empty tables and the idle slots have their types.
LEMMA InitTyped == Init => Typed
<1> SUFFICES ASSUME Init PROVE Typed
  OBVIOUS
<1>1. breakdown \in [Sections -> BreakdownRow] /\ batch \in [Sections -> BatchRow]
  BY NoRowsTyped DEF Init
<1>2. session \in [Sessions -> SessionRow] /\ \A p \in Sessions : SessionTyped(session[p])
  BY IdleTyped DEF Init
<1>3. reviews \in Seq(ReviewRow) /\ decisions \in Seq(DecisionRow)
  BY DEF Init
<1> QED  BY <1>1, <1>2, <1>3 DEF Init, Typed, TypeOK

\* The first reads of every endpoint.
LEMMA LoadTyped ==
    ASSUME Typed, NEW p \in Sessions, NEW sec \in Sections, Load(p, sec)
    PROVE  Typed'
<1>1. breakdown[sec] \in BreakdownRow
  BY DEF Typed, TypeOK
<1>2. \E op \in Ops, bd \in BreakdownRow : Open(p, op, sec, bd)
  BY <1>1, NoRowsTyped
  DEF Load, UpsertBreakdownLoad, GetOrCreateBatchLoad, UpsertScoresLoad,
      DeleteAllScoresLoad, SubmitLoad, JustifyLoad, ReopenLoad, RerunLoad,
      DHRerunLoad, DecideLoad, AuthoriseLoad, RejectLoad, Ops
<1> QED  BY <1>2, OpenTyped

\* The second reads: score rows, the weighted totals, the Grade rows.
LEMMA ReadStepsTyped ==
    ASSUME Typed, NEW p \in Sessions,
           \/ UpsertScoresRead(p) \/ DeleteAllScoresRead(p) \/ SubmitCompute(p)
           \/ AuthoriseRead(p) \/ RejectRead(p)
    PROVE  Typed'
<1> DEFINE sec == session[p].section
<1>1. session[p].at # "idle" => sec \in Sections
  BY DEF Typed, SessionTyped
<1>2. CASE UpsertScoresRead(p)
  <2>1. CASE Refuse(p)  BY <2>1, RefuseTyped
  <2>2. CASE ~Refuse(p)
    <3>0. PICK S \in SUBSET roster[sec] :
             \E cells \in [S -> Totals \cup {Blank}], any_non_null \in BOOLEAN :
                Read(p, breakdown[sec], cells, {st \in S : scores[sec][st] # Absent},
                     LocksBreakdown(sec, any_non_null), {})
      BY <1>2, <2>2 DEF UpsertScoresRead
    <3>1. PICK cells \in [S -> Totals \cup {Blank}], any_non_null \in BOOLEAN :
             Read(p, breakdown[sec], cells, {st \in S : scores[sec][st] # Absent},
                  LocksBreakdown(sec, any_non_null), {})
      BY <3>0
    <3>2. S \in SUBSET Students /\ breakdown[sec] \in BreakdownRow
      BY <1>1, <1>2, <3>1, ConstantsAssumption DEF UpsertScoresRead, At, Typed, TypeOK
    <3>3. cells \in Cells  BY <3>2, CellsType
    <3>4. {st \in S : scores[sec][st] # Absent} \in SUBSET Students
      BY <3>2
    <3>5. /\ session[p].at # "idle" /\ session[p].op # "submit_batch"
          /\ LocksBreakdown(sec, any_non_null) \in BOOLEAN
      BY <1>2 DEF UpsertScoresRead, At, LocksBreakdown
    <3> QED  BY <3>1, <3>2, <3>3, <3>4, <3>5, ReadTyped
  <2> QED  BY <2>1, <2>2
<1>3. CASE DeleteAllScoresRead(p)
  <2>1. breakdown[sec].locked \in BOOLEAN
    BY <1>1, <1>3 DEF DeleteAllScoresRead, At, Typed, TypeOK, BreakdownRow
  <2> QED  BY <1>3, <2>1, NoRowsTyped, NoCellsType, ReadTyped DEF DeleteAllScoresRead, At
<1>4. CASE SubmitCompute(p)
  <2>1. CASE Refuse(p)  BY <2>1, RefuseTyped
  <2>2. CASE ~Refuse(p)
    <3> DEFINE cells == [st \in roster[sec] |-> scores[sec][st]]
                dirty == {w \in roster[sec] \X Attributes :
                            Differs(w[1], w[2], NewGrade(sec, scores[sec][w[1]]))}
    <3>1. /\ Read(p, NoBreakdown, cells, {st \in roster[sec] : HasGrade(st)}, FALSE, dirty)
          /\ \A st \in roster[sec] : scores[sec][st] \in Totals
      BY <1>4, <2>2 DEF SubmitCompute
    <3>2. roster[sec] \in SUBSET Students
      <4>1. sec \in Sections  BY <1>1, <1>4 DEF SubmitCompute, At
      <4> QED  BY <4>1, ConstantsAssumption DEF Typed, TypeOK
    <3>3. cells \in Cells /\ \A st \in DOMAIN cells : cells[st] \in Totals
      BY <3>1, <3>2, CellsType
    <3>4. dirty \in SUBSET (Students \X Attributes)
      BY <3>2
    <3> HIDE DEF cells, dirty
    <3> QED  BY <3>1, <3>2, <3>3, <3>4, <1>4, NoRowsTyped, ReadTyped DEF SubmitCompute, At
  <2> QED  BY <2>1, <2>2
<1>5. CASE AuthoriseRead(p) \/ RejectRead(p)
  BY <1>5, NoRowsTyped, NoCellsType, ReadTyped
  DEF AuthoriseRead, RejectRead, DecideRead, At
<1> QED  BY <1>2, <1>3, <1>4, <1>5

\* Whatever the language model comes back with, the agent ends in one of three
\* verdicts.
LEMMA VerdictSet == Verdicts = {"APPROVE", "FLAG", "PENDING"}
  BY DEF Verdicts, Replies, review_batch

\* A verdict leads to one of the three statuses that await the officer.
LEMMA VerdictStatus ==
    ASSUME NEW verdict \in Verdicts
    PROVE  StatusFor(verdict) \in {"SUBMITTED", "FLAGGED", "AI_UNAVAILABLE"}
  BY VerdictSet DEF StatusFor

\* _persist_agent_review appends a review row.
LEMMA PersistReviewTyped ==
    ASSUME TypeOK, NEW sec \in Sections, NEW iteration \in Nat, NEW verdict \in Verdicts,
           PersistReview(sec, iteration, verdict)
    PROVE  reviews' \in Seq(ReviewRow)
<1>1. [section |-> sec, iteration |-> iteration, verdict |-> verdict] \in ReviewRow
  BY DEF ReviewRow
<1> QED  BY <1>1 DEF TypeOK, PersistReview

\* A request that is past its first read works on a section, and the rows it
\* remembers have their types.
LEMMA BusyTyped ==
    ASSUME Typed, NEW p \in Sessions, session[p].at # "idle"
    PROVE  /\ session[p] \in SessionRow
           /\ session[p].section \in Sections
           /\ session[p].seen \in BatchRow
           /\ session[p].seen.iteration \in Nat
           /\ session[p].bd \in BreakdownRow
           /\ session[p].bd.version \in Nat
           /\ session[p].cells \in Cells
           /\ session[p].selected \in SUBSET Students
           /\ session[p].flip \in BOOLEAN
  BY DEF Typed, TypeOK, SessionRow, SessionTyped, BatchRow, BreakdownRow

\* What a session's cells hold.
LEMMA CellValues ==
    ASSUME NEW cells \in Cells
    PROVE  /\ DOMAIN cells \in SUBSET Students
           /\ \A st \in DOMAIN cells : cells[st] \in Totals \cup {Blank}
  BY DEF Cells

\* The UPDATE of a grade_batches row.
LEMMA WriteBatchTyped ==
    ASSUME TypeOK, NEW sec \in Sections, NEW status \in Statuses \cup {"NONE"},
           NEW iteration \in Nat, NEW submitted \in BOOLEAN,
           WriteBatch(sec, status, iteration, submitted)
    PROVE  batch' \in [Sections -> BatchRow]
<1>1. [status |-> status, iteration |-> iteration, submitted |-> submitted] \in BatchRow
  BY DEF BatchRow
<1> QED  BY <1>1 DEF TypeOK, WriteBatch

\* The UPDATE of an assessment_breakdowns row.
LEMMA WriteBreakdownTyped ==
    ASSUME TypeOK, NEW sec \in Sections, NEW version \in Nat,
           NEW locked \in BOOLEAN, NEW whole \in BOOLEAN,
           WriteBreakdown(sec, version, locked, whole)
    PROVE  breakdown' \in [Sections -> BreakdownRow]
<1>1. [version |-> version, locked |-> locked, whole |-> whole] \in BreakdownRow
  BY DEF BreakdownRow
<1> QED  BY <1>1 DEF TypeOK, WriteBreakdown

\* The writes to a batch's student_component_scores.
LEMMA WriteScoresTyped ==
    ASSUME TypeOK, NEW sec \in Sections,
           NEW row \in [Students -> Totals \cup {Absent, Blank}], WriteScores(sec, row)
    PROVE  scores' \in [Sections -> [Students -> Totals \cup {Absent, Blank}]]
  BY DEF TypeOK, WriteScores

\* What a section's rows hold.
LEMMA RowTypes ==
    ASSUME TypeOK, NEW sec \in Sections
    PROVE  /\ batch[sec].status \in Statuses \cup {"NONE"}
           /\ batch[sec].iteration \in Nat
           /\ batch[sec].submitted \in BOOLEAN
           /\ breakdown[sec].version \in Nat
           /\ breakdown[sec].locked \in BOOLEAN
           /\ breakdown[sec].whole \in BOOLEAN
           /\ scores[sec] \in [Students -> Totals \cup {Absent, Blank}]
  BY DEF TypeOK, BatchRow, BreakdownRow

\* The commits of upsert_breakdown, get_or_create_batch, upsert_scores and
\* delete_all_scores.
LEMMA BreakdownAndScoreCommitsTyped ==
    ASSUME Typed, NEW p \in Sessions,
           \/ UpsertBreakdownCommit(p) \/ GetOrCreateBatchCommit(p)
           \/ UpsertScoresCommit(p) \/ DeleteAllScoresCommit(p)
    PROVE  Typed'
<1> DEFINE sec == session[p].section
<1>1. session[p].at # "idle"
  BY DEF UpsertBreakdownCommit, GetOrCreateBatchCommit, UpsertScoresCommit,
         DeleteAllScoresCommit, At
<1>2. CASE Refuse(p)  BY <1>2, RefuseTyped
<1>a. sec \in Sections /\ TypeOK  BY <1>1, BusyTyped DEF Typed
<1>3. CASE UpsertBreakdownCommit(p) /\ ~Refuse(p)
  <2> DEFINE same == breakdown[sec].version = session[p].bd.version
             row  == [st \in Students |->
                        IF same \/ scores[sec][st] = Absent THEN Absent ELSE Blank]
  <2>1. /\ Close(p) /\ WriteScores(sec, row)
        /\ WriteBreakdown(sec, session[p].bd.version + 1, breakdown[sec].locked, same)
        /\ UNCHANGED <<roster, batch, grades, reviews, decisions>>
    BY <1>3 DEF UpsertBreakdownCommit
  <2>2. breakdown' \in [Sections -> BreakdownRow]
    <3> DEFINE whole == same
    <3>1. whole \in BOOLEAN
      OBVIOUS
    <3>2. WriteBreakdown(sec, session[p].bd.version + 1, breakdown[sec].locked, whole)
      BY <2>1
    <3>3. session[p].bd.version + 1 \in Nat  BY <1>1, BusyTyped
    <3>4. breakdown[sec].locked \in BOOLEAN  BY <1>a, RowTypes
    <3> HIDE DEF whole, sec
    <3> QED  BY <1>a, <3>1, <3>2, <3>3, <3>4, WriteBreakdownTyped
  <2>3. scores' \in [Sections -> [Students -> Totals \cup {Absent, Blank}]]
    BY <1>a, <2>1, WriteScoresTyped
  <2> QED  BY <2>1, <2>2, <2>3, CloseTyped DEF Typed, TypeOK
<1>4. CASE GetOrCreateBatchCommit(p) /\ ~Refuse(p)
  <2>1. /\ Close(p) /\ WriteBatch(sec, "DRAFT", 1, FALSE)
        /\ UNCHANGED <<roster, breakdown, scores, grades, reviews, decisions>>
    BY <1>4 DEF GetOrCreateBatchCommit
  <2>2. batch' \in [Sections -> BatchRow]
    BY <1>a, <2>1, WriteBatchTyped DEF Statuses
  <2> QED  BY <2>1, <2>2, CloseTyped DEF Typed, TypeOK
<1>5. CASE UpsertScoresCommit(p) /\ ~Refuse(p)
  <2> DEFINE s   == session[p]
             row == [st \in Students |->
                       IF st \in DOMAIN s.cells THEN s.cells[st] ELSE scores[sec][st]]
  <2>1. /\ Close(p) /\ WriteScores(sec, row)
        /\ WriteBreakdown(sec, breakdown[sec].version, breakdown[sec].locked \/ s.flip,
                          breakdown[sec].whole)
        /\ UNCHANGED <<roster, batch, grades, reviews, decisions>>
    BY <1>5 DEF UpsertScoresCommit
  <2>2. breakdown' \in [Sections -> BreakdownRow]
    <3> DEFINE locked == breakdown[sec].locked \/ s.flip
    <3>1. locked \in BOOLEAN
      BY <1>1, <1>a, BusyTyped, RowTypes
    <3>2. WriteBreakdown(sec, breakdown[sec].version, locked, breakdown[sec].whole)
      BY <2>1
    <3> HIDE DEF locked
    <3> QED  BY <1>a, <3>1, <3>2, RowTypes, WriteBreakdownTyped
  <2>3. row \in [Students -> Totals \cup {Absent, Blank}]
    BY <1>1, <1>a, BusyTyped, RowTypes, CellValues
  <2>4. scores' \in [Sections -> [Students -> Totals \cup {Absent, Blank}]]
    BY <1>a, <2>1, <2>3, WriteScoresTyped
  <2> QED  BY <2>1, <2>2, <2>4, CloseTyped DEF Typed, TypeOK
<1>6. CASE DeleteAllScoresCommit(p)
  <2> DEFINE s   == session[p]
             row == [st \in Students |-> IF st \in s.selected THEN Absent ELSE scores[sec][st]]
  <2>1. /\ Close(p) /\ WriteScores(sec, row)
        /\ WriteBreakdown(sec, breakdown[sec].version, breakdown[sec].locked /\ ~s.flip,
                          breakdown[sec].whole)
        /\ UNCHANGED <<roster, batch, grades, reviews, decisions>>
    BY <1>6 DEF DeleteAllScoresCommit
  <2>2. breakdown' \in [Sections -> BreakdownRow]
    <3> DEFINE locked == breakdown[sec].locked /\ ~s.flip
    <3>1. locked \in BOOLEAN
      BY <1>1, <1>a, BusyTyped, RowTypes
    <3>2. WriteBreakdown(sec, breakdown[sec].version, locked, breakdown[sec].whole)
      BY <2>1
    <3> HIDE DEF locked
    <3> QED  BY <1>a, <3>1, <3>2, RowTypes, WriteBreakdownTyped
  <2>3. scores' \in [Sections -> [Students -> Totals \cup {Absent, Blank}]]
    BY <1>a, <2>1, RowTypes, WriteScoresTyped
  <2> QED  BY <2>1, <2>2, <2>3, CloseTyped DEF Typed, TypeOK
<1> QED  BY <1>2, <1>3, <1>4, <1>5, <1>6

\* The Grade row a submission writes is a row.
LEMMA SubmittedGradeTyped ==
    ASSUME Typed, NEW p \in Sessions, session[p].at # "idle",
           session[p].op = "submit_batch", NEW st \in DOMAIN session[p].cells
    PROVE  SubmittedGrade(st, NewGrade(session[p].section, session[p].cells[st]),
                          session[p].dirty) \in GradeRow
<1> DEFINE row   == NewGrade(session[p].section, session[p].cells[st])
           dirty == session[p].dirty
<1>1. session[p].cells[st] \in 0..100
  BY ConstantsAssumption DEF Typed, SessionTyped
<1>2. row \in GradeRow
  BY <1>1, BusyTyped, LetterIsNumeric DEF NewGrade, GradeRow, Statuses
<1>3. HasGrade(st) => grades[st] \in GradeRow
  BY BusyTyped, CellValues DEF HasGrade, Typed, TypeOK
<1> SUFFICES SubmittedGrade(st, row, dirty) \in GradeRow
  OBVIOUS
<1> HIDE DEF row, dirty
<1>4. CASE HasGrade(st)
  <2>1. SubmittedGrade(st, row, dirty) =
           [status  |-> IF <<st, "status">> \in dirty THEN row.status
                        ELSE grades[st].status,
            letter  |-> IF <<st, "letter">> \in dirty THEN row.letter
                        ELSE grades[st].letter,
            section |-> IF <<st, "section">> \in dirty THEN row.section
                        ELSE grades[st].section,
            stamped |-> grades[st].stamped]
    BY <1>4 DEF SubmittedGrade
  <2>2. /\ grades[st].status \in Statuses /\ grades[st].letter \in NumericLetters
        /\ grades[st].section \in Sections /\ grades[st].stamped \in BOOLEAN
        /\ row.status \in Statuses /\ row.letter \in NumericLetters
        /\ row.section \in Sections
    BY <1>2, <1>3, <1>4 DEF GradeRow
  <2> QED  BY <2>1, <2>2 DEF GradeRow
<1>5. CASE ~HasGrade(st)
  BY <1>2, <1>5 DEF SubmittedGrade
<1> QED  BY <1>4, <1>5

\* The commits that persist an agent review: submit_batch,
\* submit_justification and the two reruns.
LEMMA ReviewCommitsTyped ==
    ASSUME Typed, NEW p \in Sessions,
           SubmitCommit(p) \/ JustifyCommit(p) \/ RerunCommit(p) \/ DHRerunCommit(p)
    PROVE  Typed'
<1> DEFINE sec == session[p].section
<1>1. session[p].at # "idle"
  BY DEF SubmitCommit, JustifyCommit, RerunCommit, DHRerunCommit, At
<1>2. CASE SubmitCommit(p)
  <2>1. PICK verdict \in Verdicts :
           /\ PersistReview(sec, session[p].seen.iteration, verdict)
           /\ WriteBatch(sec, StatusFor(verdict), batch[sec].iteration, TRUE)
    BY <1>2 DEF SubmitCommit
  <2>2. reviews' \in Seq(ReviewRow)
    BY <1>1, <2>1, BusyTyped, PersistReviewTyped DEF Typed
  <2>3. batch' \in [Sections -> BatchRow]
    BY <1>1, <2>1, BusyTyped, RowTypes, VerdictStatus, WriteBatchTyped DEF Typed, Statuses
  <2>4. \A st \in DOMAIN session[p].cells :
           SubmittedGrade(st, NewGrade(sec, session[p].cells[st]), session[p].dirty)
              \in GradeRow
    BY <1>1, <1>2, SubmittedGradeTyped DEF SubmitCommit, At
  <2>5. grades' \in [Students -> GradeRow \cup {NoGrade}]
    BY <1>2, <2>4 DEF SubmitCommit, Typed, TypeOK
  <2> QED  BY <1>2, <2>2, <2>3, <2>5, CloseTyped DEF SubmitCommit, Typed, TypeOK
<1>3. CASE JustifyCommit(p)
  <2>1. PICK verdict \in Verdicts :
           /\ PersistReview(sec, session[p].seen.iteration + 1, verdict)
           /\ WriteBatch(sec, IF verdict = "FLAG" THEN batch[sec].status
                                                 ELSE StatusFor(verdict),
                         session[p].seen.iteration + 1, batch[sec].submitted)
    BY <1>3 DEF JustifyCommit
  <2>2. reviews' \in Seq(ReviewRow)
    BY <1>1, <2>1, BusyTyped, PersistReviewTyped DEF Typed
  <2>3. batch' \in [Sections -> BatchRow]
    BY <1>1, <2>1, BusyTyped, RowTypes, VerdictStatus, WriteBatchTyped DEF Typed, Statuses
  <2> QED  BY <1>3, <2>2, <2>3, CloseTyped DEF JustifyCommit, Typed, TypeOK
<1>4. CASE RerunCommit(p) \/ DHRerunCommit(p)
  <2>1. PICK verdict \in Verdicts : RerunVerdict(p, verdict)
    BY <1>4 DEF RerunCommit, DHRerunCommit
  <2>2. reviews' \in Seq(ReviewRow)
    BY <1>1, <2>1, BusyTyped, PersistReviewTyped DEF Typed, RerunVerdict
  <2>3. batch' \in [Sections -> BatchRow]
    <3>1. CASE batch' = batch  BY <3>1 DEF Typed, TypeOK
    <3>2. CASE WriteBatch(sec, StatusFor(verdict), batch[sec].iteration, batch[sec].submitted)
      <4>1. sec \in Sections /\ TypeOK  BY <1>1, BusyTyped DEF Typed
      <4> QED  BY <3>2, <4>1, RowTypes, VerdictStatus, WriteBatchTyped DEF Statuses
    <3> QED  BY <2>1, <3>1, <3>2 DEF RerunVerdict
  <2> QED  BY <2>1, <2>2, <2>3, CloseTyped DEF RerunVerdict, Typed, TypeOK
<1> QED  BY <1>2, <1>3, <1>4

\* The commit of reopen_batch.
LEMMA ReopenTyped ==
    ASSUME Typed, NEW p \in Sessions, ReopenCommit(p)
    PROVE  Typed'
<1> DEFINE sec == session[p].section
           submitted == batch[sec].submitted /\ ~session[p].seen.submitted
<1>1. session[p].at # "idle"
  BY DEF ReopenCommit, At
<1>2. sec \in Sections /\ TypeOK /\ session[p].seen.iteration + 1 \in Nat
  BY <1>1, BusyTyped DEF Typed
<1>3. submitted \in BOOLEAN
  OBVIOUS
<1>4. WriteBatch(sec, "DRAFT", session[p].seen.iteration + 1, submitted)
  BY DEF ReopenCommit
<1>5. batch' \in [Sections -> BatchRow]
  <2> HIDE DEF submitted
  <2> QED  BY <1>2, <1>3, <1>4, WriteBatchTyped DEF Statuses
<1> QED  BY <1>5, CloseTyped DEF ReopenCommit, Typed, TypeOK

\* The Grade rows a decision has selected exist: no request deletes one.
DecidesGraded(p) ==
    session[p].op \in {"authorise", "reject"} =>
        \A st \in session[p].selected : HasGrade(st)

\* The commits of authorise and reject.
LEMMA DecideTyped ==
    ASSUME Typed, NEW p \in Sessions, DecidesGraded(p),
           NEW op \in {"authorise", "reject"}, NEW target \in {"AUTHORISED", "REJECTED"},
           NEW decision \in Decisions, DecideCommit(p, op, target, decision)
    PROVE  Typed'
<1> DEFINE sec == session[p].section
<1>1. session[p].at # "idle" /\ session[p].op = op
  BY DEF DecideCommit, At
<1>2. sec \in Sections /\ TypeOK /\ session[p].seen.iteration \in Nat
  BY <1>1, BusyTyped DEF Typed
<1>3. batch' \in [Sections -> BatchRow]
  <2>1. WriteBatch(sec, target, batch[sec].iteration, batch[sec].submitted)
    BY DEF DecideCommit
  <2> QED  BY <1>2, <2>1, RowTypes, WriteBatchTyped DEF Statuses
<1>4. decisions' \in Seq(DecisionRow)
  <2>1. [section |-> sec, iteration |-> session[p].seen.iteration, decision |-> decision]
           \in DecisionRow
    BY <1>2 DEF DecisionRow
  <2>2. RecordDecision(sec, session[p].seen.iteration, decision)
    BY DEF DecideCommit
  <2> QED  BY <1>2, <2>1, <2>2 DEF RecordDecision, TypeOK
<1>5. grades' \in [Students -> GradeRow \cup {NoGrade}]
  <2>1. ASSUME NEW st \in Students, st \in session[p].selected
        PROVE  DecidedGrade(st, target) \in GradeRow
    <3>1. grades[st] \in GradeRow
      BY <1>1, <1>2, <2>1 DEF DecidesGraded, HasGrade, TypeOK
    <3> QED  BY <3>1 DEF DecidedGrade, GradeRow, Statuses
  <2> QED  BY <1>2, <2>1 DEF DecideCommit, TypeOK
<1> QED  BY <1>3, <1>4, <1>5, CloseTyped DEF DecideCommit, Typed, TypeOK

\* Every step of a request under way.
LEMMA StepTyped ==
    ASSUME Typed, NEW p \in Sessions, DecidesGraded(p), Step(p)
    PROVE  Typed'
<1>1. CASE SubmitFlush(p) \/ JustifyFlush(p)
  BY <1>1, RefuseTyped, FlushedTyped DEF SubmitFlush, JustifyFlush, At
<1>2. CASE AuthoriseCommit(p)
  BY <1>2, DecideTyped DEF AuthoriseCommit, Decisions
<1>3. CASE RejectCommit(p)
  BY <1>3, DecideTyped DEF RejectCommit, Decisions
<1> QED  BY <1>1, <1>2, <1>3, BreakdownAndScoreCommitsTyped, ReadStepsTyped,
            ReviewCommitsTyped, ReopenTyped DEF Step

\* Every step of the system.
LEMMA NextTyped ==
    ASSUME Typed, \A p \in Sessions : DecidesGraded(p), [Next]_vars
    PROVE  Typed'
<1>1. CASE UNCHANGED vars
  BY <1>1 DEF vars, Typed, TypeOK
<1>2. CASE RosterChange
  BY <1>2 DEF RosterChange, Typed, TypeOK
<1>3. ASSUME NEW p \in Sessions, Abort(p) PROVE Typed'
  BY <1>3, RefuseTyped DEF Abort
<1> QED  BY <1>1, <1>2, <1>3, StepTyped, LoadTyped DEF Next

-----------------------------------------------------------------------------
(***************************************************************************)
(* The inductive invariant.  Reviews are only appended and Grade rows only *)
(* rewritten, so what a session knows of them stays true while it waits.   *)
(***************************************************************************)
\* What the induction hypothesis gives the typing lemmas.
LEMMA IInvTyped ==
    ASSUME IInv
    PROVE  Typed /\ \A p \in Sessions : DecidesGraded(p)
  BY DEF IInv, SessionOK, Typed, SessionTyped, DecidesGraded

\* A student who has a Grade row keeps one.
LEMMA GradesKept ==
    ASSUME IInv, [Next]_vars, NEW st \in Students, HasGrade(st)
    PROVE  HasGrade(st)'
<1>1. Typed /\ \A p \in Sessions : DecidesGraded(p)
  BY IInvTyped
<1>2. ASSUME NEW p \in Sessions, SubmitCommit(p) PROVE HasGrade(st)'
  <2>1. st \in DOMAIN session[p].cells =>
           SubmittedGrade(st, NewGrade(session[p].section, session[p].cells[st]),
                          session[p].dirty) # NoGrade
    BY <1>1, <1>2, SubmittedGradeTyped, NoGradeAssumption DEF SubmitCommit, At
  <2> QED  BY <1>2, <2>1 DEF SubmitCommit, HasGrade
<1>3. ASSUME NEW p \in Sessions, NEW op \in {"authorise", "reject"},
             NEW target \in {"AUTHORISED", "REJECTED"}, NEW decision,
             DecideCommit(p, op, target, decision)
      PROVE  HasGrade(st)'
  <2>1. grades[st] \in GradeRow
    BY <1>1 DEF Typed, TypeOK, HasGrade
  <2>2. DecidedGrade(st, target) \in GradeRow
    BY <2>1 DEF DecidedGrade, GradeRow, Statuses
  <2> QED  BY <1>3, <2>2, NoGradeAssumption DEF DecideCommit, HasGrade
<1>4. ASSUME NEW p \in Sessions, AuthoriseCommit(p) \/ RejectCommit(p) PROVE HasGrade(st)'
  BY <1>3, <1>4 DEF AuthoriseCommit, RejectCommit
<1>5. ASSUME NEW p \in Sessions, Step(p), ~SubmitCommit(p),
             ~AuthoriseCommit(p), ~RejectCommit(p)
      PROVE  grades' = grades
  BY <1>5 DEF Step, UpsertBreakdownCommit, GetOrCreateBatchCommit, UpsertScoresRead,
     UpsertScoresCommit, DeleteAllScoresRead, DeleteAllScoresCommit, SubmitCompute,
     SubmitFlush, JustifyFlush, JustifyCommit, ReopenCommit, RerunCommit, DHRerunCommit,
     RerunVerdict, AuthoriseRead, RejectRead, DecideRead, Read, Flushed, Refuse, rows
<1>6. ASSUME NEW p \in Sessions, NEW sec \in Sections, Load(p, sec) PROVE grades' = grades
  BY <1>6 DEF Load, UpsertBreakdownLoad, GetOrCreateBatchLoad, UpsertScoresLoad,
      DeleteAllScoresLoad, SubmitLoad, JustifyLoad, ReopenLoad, RerunLoad,
      DHRerunLoad, DecideLoad, AuthoriseLoad, RejectLoad, Open, rows
<1>7. ASSUME UNCHANGED vars \/ RosterChange \/ \E p \in Sessions : Abort(p)
      PROVE  grades' = grades
  BY <1>7 DEF vars, RosterChange, Abort, Refuse, rows
<1> QED  BY <1>2, <1>4, <1>5, <1>6, <1>7 DEF Next, HasGrade

\* Reviews are append-only: the log keeps its rows and their places.
LEMMA ReviewsAppended ==
    ASSUME Typed, [Next]_vars
    PROVE  /\ DOMAIN reviews \subseteq DOMAIN reviews'
           /\ \A j \in DOMAIN reviews : reviews'[j] = reviews[j]
<1>1. ASSUME NEW p \in Sessions, NEW iteration, NEW verdict,
             PersistReview(session[p].section, iteration, verdict)
      PROVE  /\ DOMAIN reviews \subseteq DOMAIN reviews'
             /\ \A j \in DOMAIN reviews : reviews'[j] = reviews[j]
  BY <1>1 DEF PersistReview, Typed, TypeOK
<1>2. ASSUME NEW p \in Sessions,
             SubmitCommit(p) \/ JustifyCommit(p) \/ RerunCommit(p) \/ DHRerunCommit(p)
      PROVE  /\ DOMAIN reviews \subseteq DOMAIN reviews'
             /\ \A j \in DOMAIN reviews : reviews'[j] = reviews[j]
  BY <1>1, <1>2 DEF SubmitCommit, JustifyCommit, RerunCommit, DHRerunCommit, RerunVerdict
<1>3. ASSUME NEW p \in Sessions, Step(p),
             ~(SubmitCommit(p) \/ JustifyCommit(p) \/ RerunCommit(p) \/ DHRerunCommit(p))
      PROVE  reviews' = reviews
  BY <1>3 DEF Step, UpsertBreakdownCommit, GetOrCreateBatchCommit, UpsertScoresRead,
     UpsertScoresCommit, DeleteAllScoresRead, DeleteAllScoresCommit, SubmitCompute,
     SubmitFlush, JustifyFlush, ReopenCommit, AuthoriseRead, RejectRead, DecideRead,
     AuthoriseCommit, RejectCommit, DecideCommit, Read, Flushed, Refuse, rows
<1>4. ASSUME NEW p \in Sessions, NEW sec \in Sections, Load(p, sec) PROVE reviews' = reviews
  BY <1>4 DEF Load, UpsertBreakdownLoad, GetOrCreateBatchLoad, UpsertScoresLoad,
      DeleteAllScoresLoad, SubmitLoad, JustifyLoad, ReopenLoad, RerunLoad,
      DHRerunLoad, DecideLoad, AuthoriseLoad, RejectLoad, Open, rows
<1>5. ASSUME UNCHANGED vars \/ RosterChange \/ \E p \in Sessions : Abort(p)
      PROVE  reviews' = reviews
  BY <1>5 DEF vars, RosterChange, Abort, Refuse, rows
<1> QED  BY <1>2, <1>3, <1>4, <1>5 DEF Next

\* A verdict once given is still there after any step.
LEMMA ReviewedKept ==
    ASSUME Typed, [Next]_vars, NEW sec, NEW status, Reviewed(sec, status)
    PROVE  Reviewed(sec, status)'
  BY ReviewsAppended DEF Reviewed

\* A session that does not move stays consistent with the rows; an idle one is.
LEMMA SessionOKKept ==
    ASSUME IInv, [Next]_vars, NEW s \in SessionRow, SessionOK(s)
    PROVE  SessionOK(s)'
<1>1. Typed  BY IInvTyped
<1>2. s.selected \in SUBSET Students  BY DEF SessionRow
<1>3. Reviewed(s.section, s.seen.status) => Reviewed(s.section, s.seen.status)'
  BY <1>1, ReviewedKept
<1>4. \A st \in s.selected : HasGrade(st) => HasGrade(st)'
  BY <1>2, GradesKept
<1> QED  BY <1>3, <1>4 DEF SessionOK

\* An idle slot remembers nothing that could be stale.
LEMMA IdleOK == SessionOK(Idle)
  BY NoCellsType DEF SessionOK, Idle

\* A step that writes no review and no Grade row, and moves session p to a
\* consistent record, keeps every session consistent.
LEMMA SessionMoves ==
    ASSUME IInv, [Next]_vars, NEW p \in Sessions, NEW r \in SessionRow, SessionOK(r),
           session' = [session EXCEPT ![p] = r]
    PROVE  \A q \in Sessions : SessionOK(session[q])'
<1>1. SessionOK(r)'  BY SessionOKKept
<1>2. ASSUME NEW q \in Sessions, q # p PROVE SessionOK(session[q])'
  <2>1. session[q] \in SessionRow /\ SessionOK(session[q]) /\ session'[q] = session[q]
    BY <1>2 DEF IInv, TypeOK
  <2> DEFINE s == session[q]
  <2>2. ASSUME NEW s0 \in SessionRow, s0 = s PROVE SessionOK(s0)'
    BY <2>1, <2>2, SessionOKKept
  <2> QED  BY <2>1, <2>2
<1>3. session'[p] = r  BY DEF IInv, TypeOK
<1> QED  BY <1>1, <1>2, <1>3

\* A request that ends.
LEMMA CloseMoves ==
    ASSUME IInv, [Next]_vars, NEW p \in Sessions, Close(p)
    PROVE  \A q \in Sessions : SessionOK(session[q])'
  BY IdleOK, IdleTyped, SessionMoves DEF Close

\* A request that starts: what it loads of the batch row has its review.
LEMMA LoadMoves ==
    ASSUME IInv, [Next]_vars, NEW p \in Sessions, NEW sec \in Sections, Load(p, sec)
    PROVE  \A q \in Sessions : SessionOK(session[q])'
<1>1. PICK op \in Ops, bd \in BreakdownRow :
         /\ Open(p, op, sec, bd)
         /\ op \in {"authorise", "reject"} => batch[sec].status \in {"SUBMITTED", "FLAGGED"}
  <2>1. breakdown[sec] \in BreakdownRow
    BY DEF IInv, TypeOK
  <2> QED  BY <2>1, NoRowsTyped
    DEF Load, UpsertBreakdownLoad, GetOrCreateBatchLoad, UpsertScoresLoad,
        DeleteAllScoresLoad, SubmitLoad, JustifyLoad, ReopenLoad, RerunLoad,
        DHRerunLoad, DecideLoad, AuthoriseLoad, RejectLoad, Reviewable, Ops
<1> DEFINE r == [op |-> op, at |-> "loaded", section |-> sec, seen |-> batch[sec],
                 bd |-> bd, cells |-> NoCells, selected |-> {}, flip |-> FALSE, dirty |-> {}]
<1>2. r \in SessionRow
  BY NoCellsType DEF IInv, TypeOK, SessionRow
<1>3. SessionOK(r)
  BY <1>1, NoCellsType DEF SessionOK, IInv
<1>4. session' = [session EXCEPT ![p] = r]
  BY <1>1 DEF Open
<1> QED  BY <1>2, <1>3, <1>4, SessionMoves

\* Further reads: a decision selects rows that exist, a submission totals only.
LEMMA ReadMoves ==
    ASSUME IInv, [Next]_vars, NEW p \in Sessions, session[p].at # "idle",
           NEW bd \in BreakdownRow, NEW cells \in Cells,
           NEW selected \in SUBSET Students, NEW flip \in BOOLEAN,
           NEW dirty \in SUBSET (Students \X Attributes),
           Read(p, bd, cells, selected, flip, dirty),
           session[p].op = "submit_batch" => \A st \in DOMAIN cells : cells[st] \in Totals,
           session[p].op \in {"authorise", "reject"} => \A st \in selected : HasGrade(st)
    PROVE  \A q \in Sessions : SessionOK(session[q])'
<1> DEFINE r == [op |-> session[p].op, at |-> "read", section |-> session[p].section,
                 seen |-> session[p].seen, bd |-> bd, cells |-> cells,
                 selected |-> selected, flip |-> flip, dirty |-> dirty]
<1>1. r \in SessionRow
  BY DEF IInv, TypeOK, SessionRow
<1>2. SessionOK(r)
  BY DEF SessionOK, IInv
<1>3. session' = [session EXCEPT ![p] = r]
  BY DEF Read
<1> QED  BY <1>1, <1>2, <1>3, SessionMoves

\* A flush changes nothing of what the session remembers.
LEMMA FlushMoves ==
    ASSUME IInv, [Next]_vars, NEW p \in Sessions, session[p].at # "idle", Flushed(p)
    PROVE  \A q \in Sessions : SessionOK(session[q])'
<1> DEFINE r == [session[p] EXCEPT !.at = "flushed"]
<1>0. session[p] \in SessionRow
  BY DEF IInv, TypeOK
<1>1. r \in SessionRow
  BY <1>0, FlushedRow
<1>2. SessionOK(r)
  <2>1. /\ r.op = session[p].op /\ r.section = session[p].section
        /\ r.seen = session[p].seen /\ r.cells = session[p].cells
        /\ r.selected = session[p].selected
    BY <1>0, FlushedRow
  <2> HIDE DEF r
  <2> QED  BY <2>1 DEF IInv, SessionOK
<1>3. session' = [session EXCEPT ![p] = r]
  BY DEF Flushed
<1> QED  BY <1>1, <1>2, <1>3, SessionMoves

\* The second reads of the five endpoints that have them.
LEMMA ReadStepMoves ==
    ASSUME IInv, [Next]_vars, NEW p \in Sessions,
           \/ UpsertScoresRead(p) \/ DeleteAllScoresRead(p) \/ SubmitCompute(p)
           \/ AuthoriseRead(p) \/ RejectRead(p)
    PROVE  \A q \in Sessions : SessionOK(session[q])'
<1> DEFINE sec == session[p].section
<1>1. Typed /\ (session[p].at # "idle" => sec \in Sections)
  BY IInvTyped DEF IInv, SessionOK
<1>2. CASE Refuse(p)  BY <1>2, CloseMoves DEF Refuse
<1>3. CASE UpsertScoresRead(p) /\ ~Refuse(p)
  <2>0. PICK S \in SUBSET roster[sec] :
           \E cells \in [S -> Totals \cup {Blank}], any_non_null \in BOOLEAN :
              Read(p, breakdown[sec], cells, {st \in S : scores[sec][st] # Absent},
                   LocksBreakdown(sec, any_non_null), {})
    BY <1>3 DEF UpsertScoresRead
  <2>1. PICK cells \in [S -> Totals \cup {Blank}], any_non_null \in BOOLEAN :
           Read(p, breakdown[sec], cells, {st \in S : scores[sec][st] # Absent},
                LocksBreakdown(sec, any_non_null), {})
    BY <2>0
  <2>2. S \in SUBSET Students /\ breakdown[sec] \in BreakdownRow
    BY <1>1, <1>3, ConstantsAssumption DEF UpsertScoresRead, At, Typed, TypeOK
  <2>3. cells \in Cells  BY <2>2, CellsType
  <2>4. {st \in S : scores[sec][st] # Absent} \in SUBSET Students
    BY <2>2
  <2>5. /\ session[p].at # "idle" /\ session[p].op # "submit_batch"
        /\ session[p].op \notin {"authorise", "reject"}
        /\ {} \in SUBSET (Students \X Attributes)
        /\ LocksBreakdown(sec, any_non_null) \in BOOLEAN
    BY <1>3 DEF UpsertScoresRead, At, LocksBreakdown
  <2> DEFINE selected == {st \in S : scores[sec][st] # Absent}
             flip     == LocksBreakdown(sec, any_non_null)
  <2>6. Read(p, breakdown[sec], cells, selected, flip, {}) /\ flip \in BOOLEAN
    BY <2>1, <2>5
  <2>7. selected \in SUBSET Students
    BY <2>4
  <2> HIDE DEF selected, flip
  <2> QED  BY <2>2, <2>3, <2>5, <2>6, <2>7, ReadMoves
<1>4. CASE DeleteAllScoresRead(p)
  <2>1. breakdown[sec].locked \in BOOLEAN
    BY <1>1, <1>4 DEF DeleteAllScoresRead, At, Typed, TypeOK, BreakdownRow
  <2>2. /\ session[p].at # "idle" /\ session[p].op # "submit_batch"
        /\ session[p].op \notin {"authorise", "reject"}
        /\ {} \in SUBSET (Students \X Attributes)
        /\ {st \in Students : scores[sec][st] # Absent} \in SUBSET Students
        /\ Read(p, NoBreakdown, NoCells, {st \in Students : scores[sec][st] # Absent},
                breakdown[sec].locked, {})
    BY <1>4 DEF DeleteAllScoresRead, At
  <2> QED  BY <2>1, <2>2, NoRowsTyped, NoCellsType, ReadMoves
<1>5. CASE SubmitCompute(p) /\ ~Refuse(p)
  <2> DEFINE cells == [st \in roster[sec] |-> scores[sec][st]]
              dirty == {w \in roster[sec] \X Attributes :
                          Differs(w[1], w[2], NewGrade(sec, scores[sec][w[1]]))}
  <2>1. /\ Read(p, NoBreakdown, cells, {st \in roster[sec] : HasGrade(st)}, FALSE, dirty)
        /\ \A st \in roster[sec] : scores[sec][st] \in Totals
    BY <1>5 DEF SubmitCompute
  <2>2. roster[sec] \in SUBSET Students
    <3>1. sec \in Sections  BY <1>1, <1>5 DEF SubmitCompute, At
    <3> QED  BY <1>1, <3>1, ConstantsAssumption DEF Typed, TypeOK
  <2>3. cells \in Cells /\ \A st \in DOMAIN cells : cells[st] \in Totals
    BY <2>1, <2>2, CellsType
  <2>4. dirty \in SUBSET (Students \X Attributes)
    BY <2>2
  <2> HIDE DEF cells, dirty
  <2> QED  BY <1>5, <2>1, <2>2, <2>3, <2>4, NoRowsTyped, ReadMoves DEF SubmitCompute, At
<1>6. CASE AuthoriseRead(p) \/ RejectRead(p)
  BY <1>6, NoRowsTyped, NoCellsType, ReadMoves
  DEF AuthoriseRead, RejectRead, DecideRead, At
<1> QED  BY <1>2, <1>3, <1>4, <1>5, <1>6

\* Whatever step is taken, what the sessions remember stays backed by the
\* rows: the requests that overlap it included.
LEMMA SessionsOK ==
    ASSUME IInv, [Next]_vars
    PROVE  \A q \in Sessions : SessionOK(session[q])'
<1>1. ASSUME NEW p \in Sessions, Step(p)
      PROVE  \/ Close(p)
             \/ session[p].at # "idle" /\ Flushed(p)
             \/ UpsertScoresRead(p) \/ DeleteAllScoresRead(p) \/ SubmitCompute(p)
             \/ AuthoriseRead(p) \/ RejectRead(p)
  BY <1>1 DEF Step, UpsertBreakdownCommit, GetOrCreateBatchCommit, UpsertScoresCommit,
     DeleteAllScoresCommit, SubmitFlush, SubmitCommit, JustifyFlush, JustifyCommit,
     ReopenCommit, RerunCommit, DHRerunCommit, RerunVerdict, AuthoriseCommit,
     RejectCommit, DecideCommit, Refuse, At
<1>2. ASSUME NEW p \in Sessions, Step(p) PROVE \A q \in Sessions : SessionOK(session[q])'
  BY <1>1, <1>2, CloseMoves, FlushMoves, ReadStepMoves
<1>3. ASSUME NEW p \in Sessions, Abort(p) PROVE \A q \in Sessions : SessionOK(session[q])'
  BY <1>3, CloseMoves DEF Abort, Refuse
<1>4. CASE UNCHANGED vars \/ RosterChange
  <2>1. UNCHANGED <<session, reviews, grades>>
    BY <1>4 DEF vars, RosterChange
  <2> QED  BY <2>1 DEF IInv, SessionOK, Reviewed, HasGrade
<1> QED  BY <1>2, <1>3, <1>4, LoadMoves DEF Next

-----------------------------------------------------------------------------
(***************************************************************************)
(* What decisions rest on.                                                 *)
(***************************************************************************)
\* The verdict that sets a status is the last row of the log.
LEMMA NewReview ==
    ASSUME Typed, NEW sec \in Sections, NEW iteration \in Nat, NEW verdict \in Verdicts,
           PersistReview(sec, iteration, verdict)
    PROVE  Reviewed(sec, StatusFor(verdict))'
<1> DEFINE k == Len(reviews) + 1
<1>1. /\ reviews' = Append(reviews, [section |-> sec, iteration |-> iteration,
                                     verdict |-> verdict])
      /\ reviews \in Seq(ReviewRow)
  BY DEF PersistReview, Typed, TypeOK
<1>2. k \in DOMAIN reviews' /\ reviews'[k].section = sec /\ reviews'[k].verdict = verdict
  BY <1>1
<1> QED  BY <1>2 DEF Reviewed, StatusFor

\* A batch's status came from a review, and so did the status a session wrote.
LEMMA BatchReviewed ==
    ASSUME IInv, [Next]_vars
    PROVE  \A sec \in Sections : Reviewed(sec, batch[sec].status)'
<1>1. Typed  BY IInvTyped
<1> SUFFICES ASSUME NEW sec \in Sections
             PROVE  Reviewed(sec, batch[sec].status)'
  OBVIOUS
<1>2. ASSUME batch'[sec].status = batch[sec].status
      PROVE  Reviewed(sec, batch[sec].status)'
  <2>1. Reviewed(sec, batch[sec].status)  BY DEF IInv
  <2>2. ASSUME NEW status, status = batch[sec].status PROVE Reviewed(sec, status)'
    BY <1>1, <2>1, <2>2, ReviewedKept
  <2> QED  BY <1>2, <2>2
<1>3. ASSUME batch'[sec].status \notin {"SUBMITTED", "FLAGGED"}
      PROVE  Reviewed(sec, batch[sec].status)'
  BY <1>3 DEF Reviewed
<1>4. ASSUME NEW p \in Sessions, session[p].at # "idle", NEW verdict \in Verdicts,
             NEW iteration \in Nat, NEW status, NEW n, NEW submitted,
             PersistReview(session[p].section, iteration, verdict),
             WriteBatch(session[p].section, status, n, submitted),
             status \in {batch[session[p].section].status, StatusFor(verdict)}
      PROVE  Reviewed(sec, batch[sec].status)'
  <2>1. PICK own \in Sections : own = session[p].section
    BY <1>1, <1>4, BusyTyped
  <2>2. Reviewed(own, StatusFor(verdict))'
    BY <1>1, <1>4, <2>1, NewReview
  <2> DEFINE row == [status |-> status, iteration |-> n, submitted |-> submitted]
  <2>a. /\ batch' = [batch EXCEPT ![own] = row]
        /\ batch \in [Sections -> BatchRow] /\ row.status = status
    BY <1>1, <1>4, <2>1 DEF WriteBatch, Typed, TypeOK
  <2>b. batch'[sec] = IF sec = own THEN row ELSE batch[sec]
    <3> HIDE DEF row
    <3> QED  BY <2>1, <2>a
  <2>3. CASE sec = own /\ status = StatusFor(verdict)
    <3>1. batch'[sec].status = StatusFor(verdict)
      <4> HIDE DEF row
      <4> QED  BY <2>3, <2>a, <2>b
    <3>2. ASSUME NEW v, v = StatusFor(verdict), Reviewed(own, v)'
          PROVE  Reviewed(sec, batch[sec].status)'
      BY <2>3, <3>1, <3>2
    <3> QED  BY <2>2, <3>2
  <2>4. CASE ~(sec = own /\ status = StatusFor(verdict))
    <3>1. batch'[sec].status = batch[sec].status
      <4> HIDE DEF row
      <4> QED  BY <1>4, <2>1, <2>4, <2>a, <2>b
    <3> QED  BY <1>2, <3>1
  <2> QED  BY <2>3, <2>4
<1>5. ASSUME NEW p \in Sessions, SubmitCommit(p) PROVE Reviewed(sec, batch[sec].status)'
  <2>1. session[p].at # "idle" /\ session[p].seen.iteration \in Nat
    BY <1>1, <1>5, BusyTyped DEF SubmitCommit, At
  <2> QED  BY <1>4, <1>5, <2>1 DEF SubmitCommit
<1>6. ASSUME NEW p \in Sessions, JustifyCommit(p) PROVE Reviewed(sec, batch[sec].status)'
  <2>1. session[p].at # "idle" /\ session[p].seen.iteration + 1 \in Nat
    BY <1>1, <1>6, BusyTyped DEF JustifyCommit, At
  <2> QED  BY <1>4, <1>6, <2>1 DEF JustifyCommit
<1>7. ASSUME NEW p \in Sessions, RerunCommit(p) \/ DHRerunCommit(p)
      PROVE  Reviewed(sec, batch[sec].status)'
  <2>1. session[p].at # "idle" /\ session[p].seen.iteration \in Nat
    BY <1>1, <1>7, BusyTyped DEF RerunCommit, DHRerunCommit, At
  <2> QED  BY <1>2, <1>4, <1>7, <2>1 DEF RerunCommit, DHRerunCommit, RerunVerdict
<1>8. ASSUME NEW p \in Sessions, NEW op, NEW target \in {"AUTHORISED", "REJECTED"},
             NEW decision, DecideCommit(p, op, target, decision)
      PROVE  Reviewed(sec, batch[sec].status)'
  BY <1>1, <1>2, <1>3, <1>8 DEF DecideCommit, WriteBatch, Typed, TypeOK
<1>9. ASSUME NEW p \in Sessions, GetOrCreateBatchCommit(p) \/ ReopenCommit(p)
      PROVE  Reviewed(sec, batch[sec].status)'
  BY <1>1, <1>2, <1>3, <1>9 DEF GetOrCreateBatchCommit, ReopenCommit, Refuse, rows,
     WriteBatch, Typed, TypeOK
<1>10. ASSUME NEW p \in Sessions, Step(p) PROVE Reviewed(sec, batch[sec].status)'
  BY <1>2, <1>5, <1>6, <1>7, <1>8, <1>9, <1>10
  DEF Step, UpsertBreakdownCommit, UpsertScoresRead,
     UpsertScoresCommit, DeleteAllScoresRead, DeleteAllScoresCommit, SubmitCompute,
     SubmitFlush, JustifyFlush, AuthoriseRead, RejectRead, DecideRead,
     AuthoriseCommit, RejectCommit, Read, Flushed, Refuse, rows
<1>11. ASSUME NEW p \in Sessions, NEW s \in Sections, Load(p, s) PROVE batch' = batch
  BY <1>11 DEF Load, UpsertBreakdownLoad, GetOrCreateBatchLoad, UpsertScoresLoad,
      DeleteAllScoresLoad, SubmitLoad, JustifyLoad, ReopenLoad, RerunLoad,
      DHRerunLoad, DecideLoad, AuthoriseLoad, RejectLoad, Open, rows
<1>12. ASSUME UNCHANGED vars \/ RosterChange \/ \E p \in Sessions : Abort(p)
       PROVE  batch' = batch
  BY <1>12 DEF vars, RosterChange, Abort, Refuse, rows
<1> QED  BY <1>2, <1>10, <1>11, <1>12 DEF Next

\* A decision recorded from a stale status still names a verdict the agent
\* gave, because the status it was read from had been reviewed.
LEMMA DecisionsBacked ==
    ASSUME IInv, [Next]_vars
    PROVE  AgentBeforeOfficer'
<1>1. Typed  BY IInvTyped
<1>2. ASSUME decisions' = decisions PROVE AgentBeforeOfficer'
  BY <1>1, <1>2, ReviewsAppended DEF IInv, AgentBeforeOfficer
<1>3. ASSUME NEW p \in Sessions, NEW op \in {"authorise", "reject"}, NEW target,
             NEW decision, DecideCommit(p, op, target, decision),
             StatusFor(VerdictBehind(decision)) = session[p].seen.status
      PROVE  AgentBeforeOfficer'
  <2> DEFINE sec == session[p].section
             row == [section |-> sec, iteration |-> session[p].seen.iteration,
                     decision |-> decision]
  <2>1. /\ sec \in Sections
        /\ session[p].seen.status \in {"SUBMITTED", "FLAGGED"}
        /\ Reviewed(sec, session[p].seen.status)
    BY <1>3 DEF DecideCommit, At, IInv, SessionOK
  <2>2. PICK j \in DOMAIN reviews :
           reviews[j].section = sec /\ StatusFor(reviews[j].verdict) = session[p].seen.status
    BY <2>1 DEF Reviewed
  <2>3. reviews[j].verdict \in Verdicts
    <3>1. reviews[j] \in ReviewRow  BY <1>1, <2>2 DEF Typed, TypeOK
    <3> QED  BY <3>1 DEF ReviewRow
  <2>4. reviews[j].verdict = VerdictBehind(decision)
    BY <1>3, <2>2, <2>3, VerdictSet DEF StatusFor, VerdictBehind
  <2>5. /\ decisions' = Append(decisions, row)
        /\ decisions \in Seq(DecisionRow)
        /\ reviews' = reviews
    BY <1>1, <1>3 DEF DecideCommit, RecordDecision, Typed, TypeOK
  <2>6. ASSUME NEW i \in DOMAIN decisions'
        PROVE  \E k \in DOMAIN reviews :
                  /\ reviews[k].section = decisions'[i].section
                  /\ reviews[k].verdict = VerdictBehind(decisions'[i].decision)
    <3>1. CASE i = Len(decisions) + 1
      <4>1. decisions'[i].section = sec /\ decisions'[i].decision = decision
        BY <2>5, <3>1
      <4> QED  BY <2>2, <2>4, <4>1
    <3>2. CASE i # Len(decisions) + 1
      <4>1. i \in DOMAIN decisions /\ decisions'[i] = decisions[i]
        BY <2>5, <2>6, <3>2
      <4> QED  BY <4>1 DEF IInv, AgentBeforeOfficer
    <3> QED  BY <3>1, <3>2
  <2> QED  BY <2>5, <2>6 DEF AgentBeforeOfficer
<1>4. ASSUME NEW p \in Sessions, AuthoriseCommit(p) \/ RejectCommit(p)
      PROVE  AgentBeforeOfficer'
  <2>1. session[p].seen.status \in {"SUBMITTED", "FLAGGED"}
    BY <1>4 DEF AuthoriseCommit, RejectCommit, DecideCommit, At, IInv, SessionOK
  <2>2. /\ StatusFor(VerdictBehind("AUTHORISED")) = "SUBMITTED"
        /\ StatusFor(VerdictBehind("OVERRODE_AGENT_FLAG")) = "FLAGGED"
        /\ StatusFor(VerdictBehind("OVERRODE_AGENT_APPROVAL")) = "SUBMITTED"
        /\ StatusFor(VerdictBehind("REJECTED")) = "FLAGGED"
    BY DEF StatusFor, VerdictBehind
  <2>3. CASE AuthoriseCommit(p)  BY <1>3, <2>1, <2>2, <2>3 DEF AuthoriseCommit
  <2>4. CASE RejectCommit(p)     BY <1>3, <2>1, <2>2, <2>4 DEF RejectCommit
  <2> QED  BY <1>4, <2>3, <2>4
<1>5. ASSUME NEW p \in Sessions, Step(p), ~AuthoriseCommit(p), ~RejectCommit(p)
      PROVE  decisions' = decisions
  BY <1>5 DEF Step, UpsertBreakdownCommit, GetOrCreateBatchCommit, UpsertScoresRead,
     UpsertScoresCommit, DeleteAllScoresRead, DeleteAllScoresCommit, SubmitCompute,
     SubmitFlush, SubmitCommit, JustifyFlush, JustifyCommit, ReopenCommit, RerunCommit,
     DHRerunCommit, RerunVerdict, AuthoriseRead, RejectRead, DecideRead, Read, Flushed,
     Refuse, rows
<1>6. ASSUME NEW p \in Sessions, NEW s \in Sections, Load(p, s) PROVE decisions' = decisions
  BY <1>6 DEF Load, UpsertBreakdownLoad, GetOrCreateBatchLoad, UpsertScoresLoad,
      DeleteAllScoresLoad, SubmitLoad, JustifyLoad, ReopenLoad, RerunLoad,
      DHRerunLoad, DecideLoad, AuthoriseLoad, RejectLoad, Open, rows
<1>7. ASSUME UNCHANGED vars \/ RosterChange \/ \E p \in Sessions : Abort(p)
      PROVE  decisions' = decisions
  BY <1>7 DEF vars, RosterChange, Abort, Refuse, rows
<1> QED  BY <1>2, <1>4, <1>5, <1>6, <1>7 DEF Next

-----------------------------------------------------------------------------
(***************************************************************************)
(* The theorems.                                                           *)
(***************************************************************************)
\* The invariant holds of the empty tables.
LEMMA InitOK == Init => IInv
<1> SUFFICES ASSUME Init PROVE IInv
  OBVIOUS
<1>1. TypeOK  BY InitTyped DEF Typed
<1>2. \A p \in Sessions : session[p] = Idle /\ SessionOK(session[p])
  BY IdleOK DEF Init
<1>3. \A sec \in Sections : Reviewed(sec, batch[sec].status)
  BY DEF Init, NoBatch, Reviewed
<1>4. AgentBeforeOfficer  BY DEF Init, AgentBeforeOfficer
<1> QED  BY <1>1, <1>2, <1>3, <1>4 DEF IInv

\* The invariant is preserved by every step.
LEMMA NextOK == IInv /\ [Next]_vars => IInv'
<1> SUFFICES ASSUME IInv, [Next]_vars PROVE IInv'
  OBVIOUS
<1>1. TypeOK'  BY IInvTyped, NextTyped DEF Typed
<1> QED  BY <1>1, SessionsOK, BatchReviewed, DecisionsBacked DEF IInv

\* IInv is an inductive invariant of the overlapping requests.
THEOREM Invariant == Spec => []IInv
  BY InitOK, NextOK, PTL DEF Spec

\* Every row the two services read or write has its type.
THEOREM TypeCorrect == Spec => []TypeOK
<1>1. IInv => TypeOK  BY DEF IInv
<1> QED  BY <1>1, Invariant, PTL

\* authorise and reject act only on a batch the agent has reviewed, and the
\* decision they record names a verdict the agent has given on that section.
THEOREM AgentFirst == Spec => []AgentBeforeOfficer
<1>1. IInv => AgentBeforeOfficer  BY DEF IInv
<1> QED  BY <1>1, Invariant, PTL

-----------------------------------------------------------------------------
(***************************************************************************)
(* The refinement of the official record.                                  *)
(***************************************************************************)
letterBar == [st \in Students |-> IF HasGrade(st) THEN grades[st].letter ELSE NoGrade]
officialBar == {st \in Students : Official(st)}
logBar == [i \in DOMAIN decisions |-> decisions[i].decision \in Authorising]

\* No grade is official before the first decision.
LEMMA InitRefines == Init => Record!RecordInit
<1> SUFFICES ASSUME Init PROVE Record!RecordInit
  OBVIOUS
<1>1. letterBar = [st \in Students |-> NoGrade] /\ officialBar = {}
  BY DEF Init, letterBar, officialBar, Official, HasGrade
<1>2. logBar = << >>
  BY DEF Init, logBar
<1> QED  BY <1>1, <1>2 DEF Record!RecordInit, letterBar, officialBar, logBar

\* The log of a recorded decision is the abstract log with one more entry.
LEMMA LogGrows ==
    ASSUME Typed, NEW sec \in Sections, NEW iteration \in Nat, NEW decision,
           RecordDecision(sec, iteration, decision)
    PROVE  logBar' = Append(logBar, decision \in Authorising)
<1> DEFINE row == [section |-> sec, iteration |-> iteration, decision |-> decision]
           n   == Len(decisions)
<1>1. decisions \in Seq(DecisionRow) /\ decisions' = Append(decisions, row)
  BY DEF Typed, TypeOK, RecordDecision
<1>2. /\ DOMAIN decisions = 1..n /\ DOMAIN decisions' = 1..(n + 1) /\ n \in Nat
      /\ \A i \in 1..n : decisions'[i] = decisions[i]
      /\ decisions'[n + 1] = row
  BY <1>1
<1>3. logBar \in Seq(BOOLEAN) /\ Len(logBar) = n
  <2>1. \A i \in 1..n : (decisions[i].decision \in Authorising) \in BOOLEAN
    OBVIOUS
  <2>2. logBar \in [1..n -> BOOLEAN]
    BY <1>2, <2>1 DEF logBar
  <2> QED  BY <1>2, <2>2
<1>4. Append(logBar, decision \in Authorising) =
         [i \in 1..(n + 1) |-> IF i = n + 1 THEN decision \in Authorising ELSE logBar[i]]
  BY <1>2, <1>3
<1>5. row.decision = decision
  OBVIOUS
<1>6. logBar' = [i \in 1..(n + 1) |-> decisions'[i].decision \in Authorising]
  BY <1>2 DEF logBar
<1>7. \A i \in 1..(n + 1) :
         (decisions'[i].decision \in Authorising)
            = (IF i = n + 1 THEN decision \in Authorising ELSE logBar[i])
  <2> HIDE DEF row
  <2> QED  BY <1>2, <1>5 DEF logBar
<1> QED  BY <1>4, <1>6, <1>7

\* A submission makes no Grade row official, changes letters only of the rows it
\* writes and records nothing: the status it writes, or leaves, is never a new
\* AUTHORISED.
LEMMA SubmitRefines ==
    ASSUME IInv, NEW p \in Sessions, SubmitCommit(p)
    PROVE  Record!RecordNext
<1>1. PICK S \in SUBSET Students : S = DOMAIN session[p].cells
  BY IInvTyped, BusyTyped, CellValues DEF SubmitCommit, At
<1>2. ASSUME NEW st \in Students
      PROVE  /\ letterBar'[st] \in NumericLetters \cup {NoGrade}
             /\ st \in S => letterBar'[st] \in NumericLetters
             /\ st \notin S => letterBar'[st] = letterBar[st]
             /\ st \notin S => Official(st)' = Official(st)
             /\ Official(st)' => Official(st)
  <2>1. grades[st] \in GradeRow \cup {NoGrade}
    BY IInvTyped DEF Typed, TypeOK
  <2>2. CASE st \in S
    <3> DEFINE row == NewGrade(session[p].section, session[p].cells[st])
               new == SubmittedGrade(st, row, session[p].dirty)
    <3>1. grades'[st] = new
      BY <1>1, <2>2 DEF SubmitCommit
    <3>2. new \in GradeRow
      BY <1>1, <2>2, IInvTyped, SubmittedGradeTyped DEF SubmitCommit, At
    <3>3. new.status = "AUTHORISED" => Official(st)
      <4>1. row.status = "SUBMITTED"
        BY DEF NewGrade
      <4>2. HasGrade(st) => new.status \in {row.status, grades[st].status}
        <5> HIDE DEF row
        <5> QED  BY DEF SubmittedGrade
      <4>3. ~HasGrade(st) => new = row
        BY DEF SubmittedGrade
      <4> HIDE DEF row, new
      <4> QED  BY <4>1, <4>2, <4>3 DEF Official
    <3> HIDE DEF row, new
    <3>4. new.letter \in NumericLetters
      BY <3>2 DEF GradeRow
    <3>5. letterBar'[st] = new.letter /\ (Official(st)' => new.status = "AUTHORISED")
      BY <3>1, <3>2, NoGradeAssumption DEF letterBar, Official, HasGrade
    <3> QED  BY <2>2, <3>3, <3>4, <3>5
  <2>3. CASE st \notin S
    <3>1. grades'[st] = grades[st]
      BY <1>1, <2>3 DEF SubmitCommit
    <3>2. letterBar'[st] = letterBar[st] /\ Official(st)' = Official(st)
      BY <3>1 DEF letterBar, Official, HasGrade
    <3>3. letterBar[st] \in NumericLetters \cup {NoGrade}
      BY <2>1 DEF letterBar, HasGrade, GradeRow
    <3> QED  BY <2>3, <3>2, <3>3
  <2> QED  BY <2>2, <2>3
<1>3. letterBar' \in [Students -> NumericLetters \cup {NoGrade}]
  BY <1>2 DEF letterBar
<1>4. logBar' = logBar
  BY DEF SubmitCommit, logBar
<1>5. officialBar \ S \subseteq officialBar' /\ officialBar' \subseteq officialBar
  BY <1>2 DEF officialBar
<1>6. Record!Resubmit(S)
  BY <1>2, <1>3, <1>4, <1>5 DEF Record!Resubmit, letterBar, officialBar, logBar
<1> QED  BY <1>6 DEF Record!RecordNext

\* A decision writes the status of the rows it selected and no letter.
LEMMA DecisionKeepsLetters ==
    ASSUME Typed, NEW p \in Sessions, NEW op, NEW target \in {"AUTHORISED", "REJECTED"},
           NEW decision, DecideCommit(p, op, target, decision),
           \A st \in session[p].selected : HasGrade(st),
           session[p].selected \in SUBSET Students
    PROVE  /\ letterBar' = letterBar
           /\ officialBar' = IF target = "AUTHORISED"
                             THEN officialBar \cup session[p].selected
                             ELSE officialBar \ session[p].selected
<1>1. grades \in [Students -> GradeRow \cup {NoGrade}]
  BY DEF Typed, TypeOK
<1>2. ASSUME NEW st \in Students
      PROVE  /\ letterBar'[st] = letterBar[st]
             /\ Official(st)' = IF st \in session[p].selected THEN target = "AUTHORISED"
                                ELSE Official(st)
  <2>1. CASE st \in session[p].selected
    <3>1. grades'[st] = DecidedGrade(st, target)
      BY <2>1 DEF DecideCommit
    <3>2. grades'[st].letter = grades[st].letter /\ grades'[st].status = target
      BY <3>1 DEF DecidedGrade
    <3>3. grades[st] \in GradeRow
      BY <1>1, <2>1 DEF HasGrade
    <3>4. DecidedGrade(st, target) \in GradeRow
      BY <3>3 DEF DecidedGrade, GradeRow, Statuses
    <3>5. HasGrade(st) /\ HasGrade(st)'
      BY <2>1, <3>1, <3>4, NoGradeAssumption DEF HasGrade
    <3>6. letterBar'[st] = letterBar[st]
      BY <3>2, <3>5 DEF letterBar
    <3>7. Official(st)' = (target = "AUTHORISED")
      BY <3>2, <3>5 DEF Official
    <3> QED  BY <2>1, <3>6, <3>7
  <2>2. CASE st \notin session[p].selected
    <3>1. grades'[st] = grades[st]
      BY <2>2 DEF DecideCommit
    <3> QED  BY <2>2, <3>1 DEF letterBar, Official, HasGrade
  <2> QED  BY <2>1, <2>2
<1>3. letterBar' = letterBar
  BY <1>2 DEF letterBar
<1>4. CASE target = "AUTHORISED"
  BY <1>2, <1>3, <1>4 DEF officialBar
<1>5. CASE target # "AUTHORISED"
  BY <1>2, <1>3, <1>5 DEF officialBar
<1> QED  BY <1>4, <1>5

\* An authorisation makes the rows it selected official with the letters they
\* hold, and is logged as one.
LEMMA AuthoriseRefines ==
    ASSUME IInv, NEW p \in Sessions, AuthoriseCommit(p)
    PROVE  Record!RecordNext
<1> DEFINE sec == session[p].section
<1>1. PICK decision \in Authorising : DecideCommit(p, "authorise", "AUTHORISED", decision)
  BY DEF AuthoriseCommit, Authorising
<1>2. /\ session[p].selected \in SUBSET Students /\ sec \in Sections
      /\ session[p].seen.iteration \in Nat
      /\ grades \in [Students -> GradeRow \cup {NoGrade}]
      /\ \A st \in session[p].selected : HasGrade(st)
  BY <1>1, IInvTyped, BusyTyped DEF DecideCommit, At, DecidesGraded, Typed, TypeOK
<1>s. PICK S \in SUBSET Students : S = session[p].selected
  BY <1>2
<1>3. letterBar' = letterBar /\ officialBar' = officialBar \cup S
  BY <1>1, <1>2, <1>s, IInvTyped, DecisionKeepsLetters
<1>4. \A st \in S : letterBar[st] \in NumericLetters
  BY <1>2, <1>s DEF letterBar, HasGrade, GradeRow
<1>5. logBar' = Append(logBar, TRUE)
  <2>1. RecordDecision(sec, session[p].seen.iteration, decision)
    BY <1>1 DEF DecideCommit
  <2>2. logBar' = Append(logBar, decision \in Authorising)
    BY <1>2, <2>1, IInvTyped, LogGrows
  <2>3. (decision \in Authorising) = TRUE
    BY <1>1
  <2> QED  BY <2>2, <2>3
<1>6. Record!Authorise(S)
  BY <1>3, <1>4, <1>5 DEF Record!Authorise, letterBar, officialBar, logBar
<1> QED  BY <1>6 DEF Record!RecordNext

\* A rejection makes the rows it selected unofficial, and is logged as one.
LEMMA RejectRefines ==
    ASSUME IInv, NEW p \in Sessions, RejectCommit(p)
    PROVE  Record!RecordNext
<1> DEFINE sec == session[p].section
<1>1. PICK decision \in {"REJECTED", "OVERRODE_AGENT_APPROVAL"} :
         DecideCommit(p, "reject", "REJECTED", decision)
  BY DEF RejectCommit
<1>2. /\ session[p].selected \in SUBSET Students /\ sec \in Sections
      /\ session[p].seen.iteration \in Nat
      /\ \A st \in session[p].selected : HasGrade(st)
  BY <1>1, IInvTyped, BusyTyped DEF DecideCommit, At, DecidesGraded
<1>s. PICK S \in SUBSET Students : S = session[p].selected
  BY <1>2
<1>4. letterBar' = letterBar /\ officialBar' = officialBar \ S
  BY <1>1, <1>2, <1>s, IInvTyped, DecisionKeepsLetters
<1>5. logBar' = Append(logBar, FALSE)
  <2>1. RecordDecision(sec, session[p].seen.iteration, decision)
    BY <1>1 DEF DecideCommit
  <2>2. logBar' = Append(logBar, decision \in Authorising)
    BY <1>2, <2>1, IInvTyped, LogGrows
  <2>3. (decision \in Authorising) = FALSE
    BY <1>1 DEF Authorising
  <2> QED  BY <2>2, <2>3
<1>6. Record!Reject(S)
  BY <1>4, <1>5 DEF Record!Reject, letterBar, officialBar, logBar
<1> QED  BY <1>6 DEF Record!RecordNext

\* Every other step leaves the official record as it is.
LEMMA NextRefines ==
    ASSUME IInv, [Next]_vars
    PROVE  [Record!RecordNext]_(Record!recordVars)
<1>1. ASSUME UNCHANGED <<grades, decisions>>
      PROVE  UNCHANGED Record!recordVars
  BY <1>1 DEF Record!recordVars, Official, HasGrade
<1>2. ASSUME NEW p \in Sessions, Step(p), ~SubmitCommit(p), ~AuthoriseCommit(p),
             ~RejectCommit(p)
      PROVE  UNCHANGED <<grades, decisions>>
  BY <1>2 DEF Step, UpsertBreakdownCommit, GetOrCreateBatchCommit, UpsertScoresRead,
     UpsertScoresCommit, DeleteAllScoresRead, DeleteAllScoresCommit, SubmitCompute,
     SubmitFlush, JustifyFlush, JustifyCommit, ReopenCommit, RerunCommit, DHRerunCommit,
     RerunVerdict, AuthoriseRead, RejectRead, DecideRead, Read, Flushed, Refuse, rows
<1>3. ASSUME NEW p \in Sessions, NEW sec \in Sections, Load(p, sec)
      PROVE  UNCHANGED <<grades, decisions>>
  BY <1>3 DEF Load, UpsertBreakdownLoad, GetOrCreateBatchLoad, UpsertScoresLoad,
      DeleteAllScoresLoad, SubmitLoad, JustifyLoad, ReopenLoad, RerunLoad,
      DHRerunLoad, DecideLoad, AuthoriseLoad, RejectLoad, Open, rows
<1>4. ASSUME UNCHANGED vars \/ RosterChange \/ \E p \in Sessions : Abort(p)
      PROVE  UNCHANGED <<grades, decisions>>
  BY <1>4 DEF vars, RosterChange, Abort, Refuse, rows
<1> QED  BY <1>1, <1>2, <1>3, <1>4, SubmitRefines, AuthoriseRefines, RejectRefines DEF Next

\* The two services implement the official record: a grade becomes official only
\* in a step that records an officer's authorisation, and neither that step nor a
\* rejection changes any letter, whatever requests overlap or fail.
THEOREM Refinement == Spec => RefinesRecord
  BY Invariant, InitRefines, NextRefines, PTL DEF Spec, RefinesRecord, Record!RecordSpec

-----------------------------------------------------------------------------
(***************************************************************************)
(* The pages list a log in an order.                                       *)
(***************************************************************************)
\* A strict total order on S.
Orders(before, S) ==
    /\ \A i \in S : <<i, i>> \notin before
    /\ \A i, j, k \in S : <<i, j>> \in before /\ <<j, k>> \in before => <<i, k>> \in before
    /\ \A i, j \in S : i # j => <<i, j>> \in before \/ <<j, i>> \in before

\* The page has a place for each row, the one that the rows before it leave, and
\* nothing else.
LEMMA InOrderRows ==
    ASSUME NEW S, IsFiniteSet(S), NEW before, Orders(before, S)
    PROVE  /\ \A i \in S : /\ Cardinality({j \in S : <<j, i>> \in before}) + 1 \in 1..Cardinality(S)
                           /\ InOrder(S, before)
                                 [Cardinality({j \in S : <<j, i>> \in before}) + 1] = i
           /\ \A n \in 1..Cardinality(S) : InOrder(S, before)[n] \in S
<1> DEFINE prec(i) == {j \in S : <<j, i>> \in before}
           N == Cardinality(S)
           rank == [i \in S |-> Cardinality(prec(i))]
<1>1. N \in Nat
  BY FS_CardinalityType
<1>2. ASSUME NEW i \in S
      PROVE  /\ IsFiniteSet(prec(i)) /\ rank[i] \in Nat
             /\ rank[i] = Cardinality(prec(i)) /\ rank[i] \in 0..(N - 1)
  <2>1. prec(i) \in SUBSET S /\ prec(i) # S
    BY DEF Orders
  <2>2. IsFiniteSet(prec(i)) /\ Cardinality(prec(i)) <= N /\ Cardinality(prec(i)) # N
    BY <2>1, FS_Subset
  <2>3. Cardinality(prec(i)) \in Nat
    BY <2>2, FS_CardinalityType
  <2> QED  BY <1>1, <2>2, <2>3
<1>3. ASSUME NEW i \in S, NEW j \in S, <<i, j>> \in before
      PROVE  rank[i] # rank[j]
  <2>1. prec(i) \in SUBSET prec(j) /\ prec(i) # prec(j)
    BY <1>3 DEF Orders
  <2>2. IsFiniteSet(prec(j))
    BY <1>2
  <2>3. Cardinality(prec(i)) # Cardinality(prec(j))
    BY <2>1, <2>2, FS_Subset
  <2> QED  BY <2>3
<1> HIDE DEF prec
<1>4. \A i, j \in S : rank[i] = rank[j] => i = j
  BY <1>3 DEF Orders
<1>5. rank \in [S -> 0..(N - 1)]
  <2>1. \A i \in S : rank[i] \in 0..(N - 1)
    BY <1>2
  <2> QED  BY <2>1
<1>6. \A m \in 0..(N - 1) : \E i \in S : rank[i] = m
  <2> DEFINE T == 0..(N - 1)
  <2>1. IsFiniteSet(T) /\ Cardinality(T) = N
    <3>1. \A a, b \in Int : /\ IsFiniteSet(a..b)
                           /\ Cardinality(a..b) = IF a > b THEN 0 ELSE b - a + 1
      BY FS_Interval
    <3>2. Cardinality(T) = IF 0 > N - 1 THEN 0 ELSE (N - 1) - 0 + 1
      BY <1>1, <3>1
    <3> QED  BY <1>1, <3>1, <3>2
  <2> HIDE DEF T
  <2>2. rank \in Injection(S, T)
    BY <1>4, <1>5 DEF Injection, T, IsInjective
  <2>3. rank \in Surjection(S, T)
    BY <2>1, <2>2, FS_Injection
  <2> QED  BY <2>3 DEF Surjection, T
<1>7. \A i \in S : rank[i] = Cardinality(prec(i))
  BY <1>2
<1>8. ASSUME NEW n \in 1..N
      PROVE  InOrder(S, before)[n] = CHOOSE i \in S : rank[i] = n - 1
  <2>1. InOrder(S, before)[n] = CHOOSE i \in S : Cardinality(prec(i)) = n - 1
    BY DEF InOrder, prec
  <2> QED  BY <1>7, <2>1, Zenon
<1> HIDE DEF rank
<1>9. ASSUME NEW i \in S
      PROVE  rank[i] + 1 \in 1..N /\ InOrder(S, before)[rank[i] + 1] = i
  <2>1. rank[i] \in Nat /\ rank[i] + 1 \in 1..N
    BY <1>1, <1>2
  <2>2. rank[i] + 1 - 1 = rank[i]
    BY <2>1
  <2>3. InOrder(S, before)[rank[i] + 1] = CHOOSE k \in S : rank[k] = rank[i] + 1 - 1
    BY <1>8, <2>1
  <2>4. (CHOOSE k \in S : rank[k] = rank[i]) = i
    BY <1>4
  <2> QED  BY <2>1, <2>2, <2>3, <2>4
<1>10. ASSUME NEW n \in 1..N
       PROVE  InOrder(S, before)[n] \in S
  <2>1. n - 1 \in 0..(N - 1)
    BY <1>1
  <2>2. \E i \in S : rank[i] = n - 1
    BY <1>6, <2>1
  <2>3. (CHOOSE i \in S : rank[i] = n - 1) \in S
    BY <2>2
  <2> QED  BY <1>8, <2>3
<1> QED  BY <1>7, <1>9, <1>10 DEF prec

-----------------------------------------------------------------------------
(***************************************************************************)
(* Requests that take turns.                                               *)
(***************************************************************************)
\* Scores keep the breakdown locked, and once a submission is in, each student of
\* the roster has a Grade row with the letter of the total in the matrix.
SectionFits(sec) ==
    /\ (\E st \in Students : scores[sec][st] \in Totals) => breakdown[sec].locked
    /\ batch[sec].status = "NONE" => batch[sec].iteration = 0
    /\ batch[sec].status \notin {"NONE", "DRAFT"} =>
          /\ roster[sec] # {}
          /\ \A st \in roster[sec] :
                /\ HasGrade(st) /\ scores[sec][st] \in Totals
                /\ grades[st].letter = letter_for_numeric(scores[sec][st])

\* A Grade row is that of a student of the section it names, and official exactly
\* while that section's batch is authorised.
GradesFit ==
    \A st \in Students : HasGrade(st) =>
        /\ st \in roster[grades[st].section]
        /\ Official(st) <=> batch[grades[st].section].status = "AUTHORISED"

\* The runs of a batch have rising iterations, up to that of the batch.
ReviewsRise ==
    /\ \A i \in DOMAIN reviews : reviews[i].iteration <= batch[reviews[i].section].iteration
    /\ \A i, j \in DOMAIN reviews :
          i < j /\ reviews[i].section = reviews[j].section
          => reviews[i].iteration <= reviews[j].iteration

\* The last run of a pending batch gave its status in its iteration.
LastRun(sec, i) == i \in ReviewsOf(sec) /\ \A j \in ReviewsOf(sec) : j <= i
PendingOn(sec, i) ==
    /\ LastRun(sec, i)
    /\ batch[sec].status = StatusFor(reviews[i].verdict)
    /\ reviews[i].iteration = batch[sec].iteration
VerdictsFit ==
    \A sec \in Sections :
        batch[sec].status \in Pending => \E i \in DOMAIN reviews : PendingOn(sec, i)

\* A decision agreed with or overrode a run of the iteration it was taken in.
DecisionsFit ==
    \A i \in DOMAIN decisions : \E j \in ReviewsOf(decisions[i].section) :
        /\ reviews[j].iteration = decisions[i].iteration
        /\ reviews[j].verdict = VerdictBehind(decisions[i].decision)

\* The statuses in which a request may find its batch.
Expected(op) ==
    CASE op = "upsert_breakdown" -> {"NONE", "DRAFT"}
      [] op = "get_or_create_batch" -> {"NONE"}
      [] op \in {"upsert_scores", "delete_all_scores", "submit_batch"} -> {"DRAFT"}
      [] op = "submit_justification" -> {"FLAGGED"}
      [] op = "reopen_batch" -> {"FLAGGED", "REJECTED"}
      [] op \in {"rerun_agent", "dh_rerun_agent"} -> Pending
      [] op \in {"authorise", "reject"} -> {"SUBMITTED", "FLAGGED"}
      [] OTHER -> {}

\* The Grade rows of a section that a decision moves.
Undecided(sec, target) ==
    {st \in Students : /\ HasGrade(st) /\ grades[st].section = sec
                       /\ grades[st].status # target}

\* What a request has read still holds when it writes.
SubmissionFits(s) ==
    /\ s.cells = [st \in roster[s.section] |-> scores[s.section][st]]
    /\ roster[s.section] # {}
    /\ \A st \in roster[s.section] : scores[s.section][st] \in Totals
    /\ s.dirty = {w \in roster[s.section] \X Attributes :
                    Differs(w[1], w[2], NewGrade(s.section, scores[s.section][w[1]]))}
ReadFits(s) ==
    /\ /\ s.op = "upsert_scores" /\ s.at = "read"
       /\ \E st \in DOMAIN s.cells : s.cells[st] \in Totals
       => s.flip \/ breakdown[s.section].locked
    /\ s.op = "delete_all_scores" /\ s.at = "read" =>
          \A st \in Students : scores[s.section][st] # Absent => st \in s.selected
    /\ s.op = "submit_batch" /\ s.at \in {"read", "flushed"} => SubmissionFits(s)
    /\ s.op = "authorise" /\ s.at = "read" => s.selected = Undecided(s.section, "AUTHORISED")
    /\ s.op = "reject" /\ s.at = "read" => s.selected = Undecided(s.section, "REJECTED")
SessionFits(s) ==
    /\ s.seen = batch[s.section]
    /\ batch[s.section].status \in Expected(s.op)
    /\ ReadFits(s)
SessionsFit == \A p \in Busy : SessionFits(session[p])

RowsFit ==
    /\ Disjoint
    /\ \A sec \in Sections : SectionFits(sec)
    /\ GradesFit
    /\ ReviewsRise
    /\ VerdictsFit
    /\ DecisionsFit
Turns ==
    /\ OneAtATime
    /\ RowsFit
    /\ SessionsFit

LEMMA InitTurns == Init /\ Disjoint => Turns
<1> SUFFICES ASSUME Init, Disjoint PROVE Turns
  OBVIOUS
<1>1. OneAtATime /\ SessionsFit
  BY DEF Init, Idle, OneAtATime, SessionsFit, Busy
<1>2. \A sec \in Sections : SectionFits(sec)
  BY ConstantsAssumption DEF Init, NoBatch, NoBreakdown, SectionFits
<1>3. GradesFit
  BY DEF Init, HasGrade, GradesFit
<1>4. reviews = <<>> /\ decisions = <<>> /\ \A sec \in Sections : batch[sec].status = "NONE"
  BY DEF Init, NoBatch
<1>5. ReviewsRise /\ VerdictsFit /\ DecisionsFit
  BY <1>4 DEF ReviewsRise, VerdictsFit, DecisionsFit, Pending
<1> QED  BY <1>1, <1>2, <1>3, <1>5 DEF Turns, RowsFit

\* Rows that do not change keep fitting.
LEMMA RowsKept ==
    ASSUME RowsFit, UNCHANGED rows
    PROVE  RowsFit'
<1>1. Disjoint' /\ (\A sec \in Sections : SectionFits(sec)') /\ GradesFit'
  BY DEF RowsFit, rows, Disjoint, SectionFits, GradesFit, HasGrade, Official
<1>2. ReviewsRise' /\ VerdictsFit' /\ DecisionsFit'
  BY DEF RowsFit, rows, ReviewsRise, VerdictsFit, PendingOn, LastRun, ReviewsOf, DecisionsFit
<1> QED  BY <1>1, <1>2 DEF RowsFit

\* Who acts is the only one at work.
LEMMA OnlyOne ==
    ASSUME Typed, OneAtATime, NEW p \in Sessions, session[p].at # "idle", NEW r,
           session' = [session EXCEPT ![p] = r]
    PROVE  /\ session'[p] = r
           /\ \A q \in Sessions \ {p} : session'[q].at = "idle"
  BY DEF OneAtATime, Busy, Typed, TypeOK

LEMMA ClosedFits ==
    ASSUME Typed, OneAtATime, NEW p \in Sessions, session[p].at # "idle", Close(p)
    PROVE  OneAtATime' /\ SessionsFit'
<1>1. \A q \in Sessions : session'[q].at = "idle"
  <2>1. session' = [session EXCEPT ![p] = Idle] /\ Idle.at = "idle"
    BY DEF Close, Idle
  <2>2. /\ session'[p] = Idle
        /\ \A q \in Sessions \ {p} : session'[q].at = "idle"
    BY <2>1, OnlyOne, Zenon
  <2>3. \A q \in Sessions : q = p \/ q \in Sessions \ {p}
    OBVIOUS
  <2> QED  BY <2>1, <2>2, <2>3, Zenon
<1> QED  BY <1>1 DEF OneAtATime, SessionsFit, Busy

LEMMA RefusedFits ==
    ASSUME Typed, Turns, NEW p \in Sessions, session[p].at # "idle", Refuse(p)
    PROVE  Turns'
  BY ClosedFits, RowsKept DEF Turns, Refuse

\* A session that has read more, or begun.
LEMMA FitsKept ==
    ASSUME UNCHANGED rows, NEW p, SessionFits(session'[p])
    PROVE  SessionFits(session[p])'
<1> DEFINE r == session'[p]
<1>1. r.op = "submit_batch" /\ r.at \in {"read", "flushed"} => SubmissionFits(session[p])'
  BY DEF rows, SessionFits, ReadFits, SubmissionFits, Differs, HasGrade
<1> QED
  BY <1>1 DEF rows, SessionFits, ReadFits, Undecided, HasGrade

LEMMA MovedFits ==
    ASSUME Typed, Turns, UNCHANGED rows, NEW p \in Sessions, NEW r,
           session' = [session EXCEPT ![p] = r], SessionFits(r),
           \A q \in Sessions \ {p} : session[q].at = "idle"
    PROVE  Turns'
<1>1. session'[p] = r /\ \A q \in Sessions \ {p} : session'[q] = session[q]
  BY DEF Typed, TypeOK
<1>2. SessionFits(session[p])'
  BY <1>1, FitsKept
<1>3. OneAtATime' /\ SessionsFit'
  BY <1>1, <1>2 DEF OneAtATime, SessionsFit, Busy
<1> QED  BY <1>3, RowsKept DEF Turns

\* A request begins: it has loaded the batch row, and its guard has seen the status.
LEMMA LoadFits ==
    ASSUME Typed, Turns, OneAtATime', NEW p \in Sessions, NEW sec \in Sections, Load(p, sec)
    PROVE  Turns'
<1>1. PICK op, bd : /\ Open(p, op, sec, bd)
                    /\ batch[sec].status \in Expected(op)
  <2>1. UpsertBreakdownLoad(p, sec) => batch[sec].status \in {"NONE", "DRAFT"}
    <3>1. roster[sec] \subseteq Students
      BY ConstantsAssumption DEF Typed, TypeOK
    <3> QED  BY <3>1 DEF UpsertBreakdownLoad, Turns, RowsFit, SectionFits
  <2> QED
    BY <2>1 DEF Load, UpsertBreakdownLoad, GetOrCreateBatchLoad, UpsertScoresLoad,
       DeleteAllScoresLoad, SubmitLoad, JustifyLoad, ReopenLoad, RerunLoad, DHRerunLoad,
       DecideLoad, AuthoriseLoad, RejectLoad, Reviewable, Expected, Pending
<1> DEFINE r == [op |-> op, at |-> "loaded", section |-> sec, seen |-> batch[sec],
                 bd |-> bd, cells |-> NoCells, selected |-> {}, flip |-> FALSE, dirty |-> {}]
<1>2. session' = [session EXCEPT ![p] = r] /\ UNCHANGED rows
  BY <1>1 DEF Open
<1>3. r.op = op /\ r.at = "loaded" /\ r.section = sec /\ r.seen = batch[sec]
  OBVIOUS
<1> HIDE DEF r
<1>4. SessionFits(r)
  BY <1>1, <1>3 DEF SessionFits, ReadFits
<1>5. \A q \in Sessions \ {p} : session[q].at = "idle"
  <2>1. session'[p] = r /\ \A q \in Sessions \ {p} : session'[q] = session[q]
    BY <1>2 DEF Typed, TypeOK
  <2> QED  BY <2>1, <1>3 DEF OneAtATime, Busy
<1> QED  BY <1>2, <1>4, <1>5, MovedFits

LEMMA Alone ==
    ASSUME OneAtATime, NEW p \in Sessions, session[p].at # "idle"
    PROVE  \A q \in Sessions \ {p} : session[q].at = "idle"
  BY DEF OneAtATime, Busy

\* A session reads more rows.
LEMMA ReadKeeps ==
    ASSUME Typed, Turns, NEW p \in Sessions, session[p].at # "idle",
           NEW bd, NEW cells, NEW selected, NEW flip, NEW dirty,
           Read(p, bd, cells, selected, flip, dirty),
           ReadFits([op |-> session[p].op, at |-> "read", section |-> session[p].section,
                     seen |-> session[p].seen, bd |-> bd, cells |-> cells,
                     selected |-> selected, flip |-> flip, dirty |-> dirty])
    PROVE  Turns'
<1> DEFINE r == [op |-> session[p].op, at |-> "read", section |-> session[p].section,
                 seen |-> session[p].seen, bd |-> bd, cells |-> cells,
                 selected |-> selected, flip |-> flip, dirty |-> dirty]
<1>1. session' = [session EXCEPT ![p] = r] /\ UNCHANGED rows
  BY DEF Read
<1>2. SessionFits(session[p])
  BY DEF Turns, SessionsFit, Busy
<1>3. r.op = session[p].op /\ r.section = session[p].section /\ r.seen = session[p].seen
      /\ ReadFits(r)
  OBVIOUS
<1> HIDE DEF r
<1>4. SessionFits(r)
  BY <1>2, <1>3 DEF SessionFits
<1>5. \A q \in Sessions \ {p} : session[q].at = "idle"
  BY Alone DEF Turns
<1> QED  BY <1>1, <1>4, <1>5, MovedFits

LEMMA ScoresReadFits ==
    ASSUME Typed, Turns, NEW p \in Sessions, UpsertScoresRead(p)
    PROVE  Turns'
<1> DEFINE sec == session[p].section
<1>1. session[p].at # "idle" /\ session[p].op = "upsert_scores"
  BY DEF UpsertScoresRead, At
<1>2. CASE Refuse(p)
  BY <1>1, <1>2, RefusedFits
<1>3. CASE ~Refuse(p)
  <2>1. PICK S \in SUBSET roster[sec] :
           \E cells \in [S -> Totals \cup {Blank}], any_non_null \in BOOLEAN :
              /\ (\E st \in S : cells[st] # Blank) => any_non_null
              /\ Read(p, breakdown[sec], cells, {st \in S : scores[sec][st] # Absent},
                      LocksBreakdown(sec, any_non_null), {})
    BY <1>3 DEF UpsertScoresRead
  <2>2. PICK cells \in [S -> Totals \cup {Blank}], any_non_null \in BOOLEAN :
           /\ (\E st \in S : cells[st] # Blank) => any_non_null
           /\ Read(p, breakdown[sec], cells, {st \in S : scores[sec][st] # Absent},
                   LocksBreakdown(sec, any_non_null), {})
    BY <2>1
  <2>3. (\E st \in DOMAIN cells : cells[st] \in Totals)
           => LocksBreakdown(sec, any_non_null) \/ breakdown[sec].locked
    BY <2>2, ConstantsAssumption DEF LocksBreakdown
  <2> DEFINE selected == {st \in S : scores[sec][st] # Absent}
             flip == LocksBreakdown(sec, any_non_null)
             bd == breakdown[sec]
             r == [op |-> session[p].op, at |-> "read", section |-> session[p].section,
                   seen |-> session[p].seen, bd |-> bd, cells |-> cells,
                   selected |-> selected, flip |-> flip, dirty |-> {}]
  <2>4. Read(p, bd, cells, selected, flip, {})
    BY <2>2
  <2>5. r.op = "upsert_scores" /\ r.cells = cells /\ r.flip = flip /\ r.section = sec
    BY <1>1
  <2>6. ReadFits(r)
    <3> HIDE DEF r, flip
    <3> QED  BY <2>3, <2>5 DEF ReadFits, flip
  <2> HIDE DEF selected, flip, bd
  <2> QED  BY <1>1, <2>4, <2>6, ReadKeeps
<1> QED  BY <1>2, <1>3

LEMMA DeleteReadFits ==
    ASSUME Typed, Turns, NEW p \in Sessions, DeleteAllScoresRead(p)
    PROVE  Turns'
<1> DEFINE sec == session[p].section
           selected == {st \in Students : scores[sec][st] # Absent}
           flip == breakdown[sec].locked
           r == [op |-> session[p].op, at |-> "read", section |-> session[p].section,
                 seen |-> session[p].seen, bd |-> NoBreakdown, cells |-> NoCells,
                 selected |-> selected, flip |-> flip, dirty |-> {}]
<1>1. /\ session[p].at # "idle" /\ session[p].op = "delete_all_scores"
      /\ Read(p, NoBreakdown, NoCells, selected, flip, {})
  BY DEF DeleteAllScoresRead, At
<1>2. r.op = "delete_all_scores" /\ r.selected = selected /\ r.section = sec
  BY <1>1
<1>3. ReadFits(r)
  <2> HIDE DEF r
  <2> QED  BY <1>2 DEF ReadFits
<1> HIDE DEF selected, flip
<1> QED  BY <1>1, <1>3, ReadKeeps

LEMMA SubmitReadFits ==
    ASSUME Typed, Turns, NEW p \in Sessions, SubmitCompute(p)
    PROVE  Turns'
<1> DEFINE sec == session[p].section
           cells == [st \in roster[sec] |-> scores[sec][st]]
           selected == {st \in roster[sec] : HasGrade(st)}
           dirty == {w \in roster[sec] \X Attributes :
                       Differs(w[1], w[2], NewGrade(sec, scores[sec][w[1]]))}
           r == [op |-> session[p].op, at |-> "read", section |-> session[p].section,
                 seen |-> session[p].seen, bd |-> NoBreakdown, cells |-> cells,
                 selected |-> selected, flip |-> FALSE, dirty |-> dirty]
<1>1. session[p].at # "idle" /\ session[p].op = "submit_batch"
  BY DEF SubmitCompute, At
<1>2. CASE Refuse(p)
  BY <1>1, <1>2, RefusedFits
<1>3. CASE ~Refuse(p)
  <2>1. /\ Read(p, NoBreakdown, cells, selected, FALSE, dirty)
        /\ roster[sec] # {} /\ \A st \in roster[sec] : scores[sec][st] \in Totals
    BY <1>3 DEF SubmitCompute
  <2>2. r.op = "submit_batch" /\ r.cells = cells /\ r.dirty = dirty /\ r.section = sec
    BY <1>1
  <2>3. ReadFits(r)
    <3> HIDE DEF r
    <3> QED  BY <2>1, <2>2 DEF ReadFits, SubmissionFits
  <2> HIDE DEF cells, selected, dirty
  <2> QED  BY <1>1, <2>1, <2>3, ReadKeeps
<1> QED  BY <1>2, <1>3

LEMMA DecideReadFits ==
    ASSUME Typed, Turns, NEW p \in Sessions, AuthoriseRead(p) \/ RejectRead(p)
    PROVE  Turns'
<1> DEFINE sec == session[p].section
<1>1. PICK target \in {"AUTHORISED", "REJECTED"} :
         /\ session[p].op = IF target = "AUTHORISED" THEN "authorise" ELSE "reject"
         /\ session[p].at # "idle"
         /\ Read(p, NoBreakdown, NoCells, Undecided(sec, target), FALSE, {})
  BY DEF AuthoriseRead, RejectRead, DecideRead, At, Undecided
<1> DEFINE selected == Undecided(sec, target)
           r == [op |-> session[p].op, at |-> "read", section |-> session[p].section,
                 seen |-> session[p].seen, bd |-> NoBreakdown, cells |-> NoCells,
                 selected |-> selected, flip |-> FALSE, dirty |-> {}]
<1>2. r.op = session[p].op /\ r.selected = selected /\ r.section = sec
  OBVIOUS
<1>3. ReadFits(r)
  <2> HIDE DEF r
  <2> QED  BY <1>1, <1>2 DEF ReadFits
<1> HIDE DEF selected
<1>4. Read(p, NoBreakdown, NoCells, selected, FALSE, {})
  BY <1>1 DEF selected
<1> QED  BY <1>1, <1>3, <1>4, ReadKeeps

\* The flush of a submission or a justification: the session goes on to the agent.
LEMMA FlushFits ==
    ASSUME Typed, Turns, NEW p \in Sessions, SubmitFlush(p) \/ JustifyFlush(p)
    PROVE  Turns'
<1> DEFINE r == [session[p] EXCEPT !.at = "flushed"]
<1>1. session[p].at # "idle"
  BY DEF SubmitFlush, JustifyFlush, At
<1>2. CASE Refuse(p)
  BY <1>1, <1>2, RefusedFits
<1>3. CASE ~Refuse(p)
  <2>1. Flushed(p)
    BY <1>3 DEF SubmitFlush, JustifyFlush
  <2>2. session' = [session EXCEPT ![p] = r] /\ UNCHANGED rows
    BY <2>1 DEF Flushed
  <2>3. SessionFits(session[p]) /\ session[p] \in SessionRow
    BY <1>1 DEF Turns, SessionsFit, Busy, Typed, TypeOK
  <2>4. /\ r.op = session[p].op /\ r.section = session[p].section /\ r.seen = session[p].seen
        /\ r.cells = session[p].cells /\ r.dirty = session[p].dirty /\ r.at = "flushed"
    BY <2>3, FlushedRow
  <2>5. /\ session[p].op \in {"submit_batch", "submit_justification"}
        /\ session[p].op = "submit_batch" => session[p].at = "read"
    BY <1>3 DEF SubmitFlush, JustifyFlush, At
  <2> HIDE DEF r
  <2>6. SessionFits(r)
    BY <2>3, <2>4, <2>5 DEF SessionFits, ReadFits, SubmissionFits
  <2>7. \A q \in Sessions \ {p} : session[q].at = "idle"
    BY <1>1, Alone DEF Turns
  <2> QED  BY <2>2, <2>6, <2>7, MovedFits
<1> QED  BY <1>2, <1>3

\* What a commit finds: the request it serves is the only one, and what it has
\* loaded still holds.
LEMMA CommitFinds ==
    ASSUME Typed, Turns, NEW p \in Sessions, session[p].at # "idle"
    PROVE  /\ session[p].section \in Sections
           /\ session[p].seen = batch[session[p].section]
           /\ batch[session[p].section].status \in Expected(session[p].op)
           /\ ReadFits(session[p])
           /\ TypeOK /\ RowsFit
  BY BusyTyped DEF Turns, SessionsFit, Busy, SessionFits, Typed

LEMMA WrittenBatch ==
    ASSUME TypeOK, NEW sec \in Sections, NEW status, NEW iteration, NEW submitted,
           WriteBatch(sec, status, iteration, submitted)
    PROVE  /\ batch'[sec].status = status /\ batch'[sec].iteration = iteration
           /\ \A t \in Sections \ {sec} : batch'[t] = batch[t]
  BY DEF TypeOK, WriteBatch

\* Sections that a step leaves alone.
LEMMA OtherSections ==
    ASSUME Typed, RowsFit, NEW sec \in Sections, roster' = roster,
           \A t \in Sections \ {sec} : /\ batch'[t] = batch[t] /\ scores'[t] = scores[t]
                                       /\ breakdown'[t] = breakdown[t],
           \A st \in Students \ roster[sec] : grades'[st] = grades[st]
    PROVE  Disjoint' /\ \A t \in Sections \ {sec} : SectionFits(t)'
<1>1. Disjoint'
  BY DEF RowsFit, Disjoint
<1>2. ASSUME NEW t \in Sections \ {sec}
      PROVE  SectionFits(t)'
  <2>1. SectionFits(t) /\ \A st \in roster[t] : grades'[st] = grades[st]
    BY ConstantsAssumption DEF RowsFit, Disjoint, Typed, TypeOK
  <2> QED  BY <2>1 DEF SectionFits, HasGrade
<1> QED  BY <1>1, <1>2

\* A batch that moves with its Grade rows where they were.
LEMMA UndecidedGrades ==
    ASSUME Typed, RowsFit, NEW sec \in Sections, roster' = roster, grades' = grades,
           \A t \in Sections \ {sec} : batch'[t] = batch[t],
           batch'[sec].status = "AUTHORISED" <=> batch[sec].status = "AUTHORISED"
    PROVE  GradesFit'
<1>1. \A st \in Students : HasGrade(st) => grades[st].section \in Sections
  BY DEF Typed, TypeOK, GradeRow, HasGrade
<1> QED  BY <1>1 DEF RowsFit, GradesFit, HasGrade, Official

LEMMA ReviewRows ==
    ASSUME Typed
    PROVE  \A i \in DOMAIN reviews : /\ reviews[i].section \in Sections
                                     /\ reviews[i].iteration \in Nat
                                     /\ reviews[i].verdict \in Verdicts
<1>1. reviews \in Seq(ReviewRow)
  BY DEF Typed, TypeOK
<1>2. \A i \in DOMAIN reviews : reviews[i] \in ReviewRow
  BY <1>1
<1> QED  BY <1>2 DEF ReviewRow

\* Commits that log nothing.
LEMMA NothingLogged ==
    ASSUME Typed, RowsFit, reviews' = reviews, decisions' = decisions,
           \A t \in Sections : /\ batch'[t].iteration >= batch[t].iteration
                               /\ batch'[t].iteration \in Nat
                               /\ batch'[t].status \in Pending => batch'[t] = batch[t]
    PROVE  ReviewsRise' /\ VerdictsFit' /\ DecisionsFit'
<1>1. \A i \in DOMAIN reviews : /\ reviews[i].section \in Sections
                                /\ reviews[i].iteration \in Nat
  BY ReviewRows
<1>2. \A t \in Sections : batch[t].iteration \in Nat
  BY RowTypes DEF Typed
<1>3. ReviewsRise'
  BY <1>1, <1>2 DEF RowsFit, ReviewsRise
<1>4. VerdictsFit'
  BY DEF RowsFit, VerdictsFit, PendingOn, LastRun, ReviewsOf
<1>5. DecisionsFit'
  BY DEF RowsFit, DecisionsFit, ReviewsOf
<1> QED  BY <1>3, <1>4, <1>5

\* A run of the agent is logged with the status and the iteration it gives.
LEMMA RunLogged ==
    ASSUME Typed, RowsFit, NEW sec \in Sections, NEW iteration \in Nat,
           NEW verdict \in Verdicts, PersistReview(sec, iteration, verdict),
           batch[sec].iteration <= iteration, decisions' = decisions,
           batch'[sec].iteration = iteration, batch'[sec].status = StatusFor(verdict),
           \A t \in Sections \ {sec} : batch'[t] = batch[t]
    PROVE  ReviewsRise' /\ VerdictsFit' /\ DecisionsFit'
<1> DEFINE new == [section |-> sec, iteration |-> iteration, verdict |-> verdict]
<1>0. PICK n \in Nat : n = Len(reviews)
  BY DEF Typed, TypeOK
<1>1. /\ n \in Nat /\ DOMAIN reviews = 1..n /\ DOMAIN reviews' = 1..(n + 1)
      /\ \A i \in 1..n : reviews'[i] = reviews[i]
      /\ reviews'[n + 1] = new
  BY <1>0 DEF PersistReview, Typed, TypeOK
<1>2. \A i \in 1..n : reviews[i].section \in Sections /\ reviews[i].iteration \in Nat
  BY <1>1, ReviewRows
<1>3. \A t \in Sections : batch[t].iteration \in Nat
  BY RowTypes DEF Typed
<1>4. new.section = sec /\ new.iteration = iteration /\ new.verdict = verdict
  OBVIOUS
<1> HIDE DEF new
<1>5. \A i \in 1..(n + 1) : i \in 1..n \/ i = n + 1
  BY <1>1
<1>6. ReviewsRise'
  <2>1. \A i \in 1..n : reviews[i].section = sec => reviews[i].iteration <= iteration
    <3> SUFFICES ASSUME NEW i \in 1..n, reviews[i].section = sec
                 PROVE  reviews[i].iteration <= iteration
      OBVIOUS
    <3>1. reviews[i].iteration <= batch[sec].iteration
      BY <1>1 DEF RowsFit, ReviewsRise
    <3> QED  BY <1>2, <1>3, <3>1
  <2>2. \A i \in DOMAIN reviews' :
           reviews'[i].iteration <= batch'[reviews'[i].section].iteration
    BY <1>1, <1>2, <1>3, <1>4, <1>5, <2>1 DEF RowsFit, ReviewsRise
  <2>3. \A i, j \in DOMAIN reviews' :
           i < j /\ reviews'[i].section = reviews'[j].section
           => reviews'[i].iteration <= reviews'[j].iteration
    <3> SUFFICES ASSUME NEW i \in 1..(n + 1), NEW j \in 1..(n + 1), i < j,
                        reviews'[i].section = reviews'[j].section
                 PROVE  reviews'[i].iteration <= reviews'[j].iteration
      BY <1>1
    <3>1. i \in 1..n
      BY <1>1
    <3>2. CASE j \in 1..n
      BY <1>1, <3>1, <3>2 DEF RowsFit, ReviewsRise
    <3>3. CASE j = n + 1
      BY <1>1, <1>4, <2>1, <3>1, <3>3
    <3> QED  BY <1>5, <3>2, <3>3
  <2> QED  BY <2>2, <2>3 DEF ReviewsRise
<1>7. VerdictsFit'
  <2> SUFFICES ASSUME NEW t \in Sections, batch'[t].status \in Pending
               PROVE  \E i \in DOMAIN reviews' : PendingOn(t, i)'
    BY DEF VerdictsFit
  <2>1. CASE t = sec
    <3>1. LastRun(sec, n + 1)'
      BY <1>1, <1>4 DEF LastRun, ReviewsOf
    <3> QED  BY <1>1, <1>4, <2>1, <3>1 DEF PendingOn
  <2>2. CASE t # sec
    <3>1. batch'[t] = batch[t]
      BY <2>2
    <3>2. PICK i \in DOMAIN reviews : PendingOn(t, i)
      BY <3>1 DEF RowsFit, VerdictsFit
    <3>3. i \in 1..n /\ i \in 1..(n + 1) /\ reviews'[i] = reviews[i]
      BY <1>1
    <3>4. ReviewsOf(t)' = ReviewsOf(t)
      BY <1>1, <1>4, <1>5, <2>2 DEF ReviewsOf
    <3> QED  BY <1>1, <3>1, <3>2, <3>3, <3>4 DEF PendingOn, LastRun
  <2> QED  BY <2>1, <2>2
<1>8. DecisionsFit'
  <2> SUFFICES ASSUME NEW i \in DOMAIN decisions
               PROVE  \E j \in ReviewsOf(decisions[i].section)' :
                         /\ reviews'[j].iteration = decisions[i].iteration
                         /\ reviews'[j].verdict = VerdictBehind(decisions[i].decision)
    BY DEF DecisionsFit, VerdictBehind
  <2>1. PICK j \in ReviewsOf(decisions[i].section) :
           /\ reviews[j].iteration = decisions[i].iteration
           /\ reviews[j].verdict = VerdictBehind(decisions[i].decision)
    BY DEF RowsFit, DecisionsFit
  <2>2. j \in 1..n /\ j \in 1..(n + 1) /\ reviews'[j] = reviews[j]
    BY <1>1, <2>1 DEF ReviewsOf
  <2>3. j \in ReviewsOf(decisions[i].section)'
    BY <1>1, <2>1, <2>2 DEF ReviewsOf
  <2> QED  BY <2>1, <2>2, <2>3
<1> QED  BY <1>6, <1>7, <1>8

\* Assembling a commit.
LEMMA CommitFits ==
    ASSUME Typed, Turns, NEW p \in Sessions, session[p].at # "idle", Close(p), RowsFit'
    PROVE  Turns'
  BY ClosedFits DEF Turns

-----------------------------------------------------------------------------
\* The breakdown, the batch and the scores.

LEMMA ScoreCommitFits ==
    ASSUME Typed, Turns, NEW p \in Sessions,
           UpsertBreakdownCommit(p) \/ UpsertScoresCommit(p) \/ DeleteAllScoresCommit(p)
    PROVE  Turns'
<1>1. session[p].at # "idle"
  BY DEF UpsertBreakdownCommit, UpsertScoresCommit, DeleteAllScoresCommit, At
<1>0. PICK sec \in Sections : sec = session[p].section
  BY <1>1, CommitFinds
<1>2. CASE Refuse(p)
  BY <1>1, <1>2, RefusedFits
<1>3. CASE ~Refuse(p)
  <2>1. /\ sec \in Sections /\ batch[sec].status \in {"NONE", "DRAFT"}
        /\ ReadFits(session[p]) /\ RowsFit
    BY <1>0, <1>1, CommitFinds DEF UpsertBreakdownCommit, UpsertScoresCommit,
       DeleteAllScoresCommit, At, Expected
  <2>b. breakdown[sec].locked \in BOOLEAN /\ session[p].flip \in BOOLEAN
    BY <1>0, <1>1, BusyTyped, RowTypes DEF Typed
  <2>2. PICK locked \in BOOLEAN : \E version, whole, row :
           /\ WriteBreakdown(sec, version, locked, whole) /\ WriteScores(sec, row)
           /\ (\E st \in Students : row[st] \in Totals) => locked
           /\ Close(p) /\ UNCHANGED <<roster, batch, grades, reviews, decisions>>
    <3>1. CASE UpsertBreakdownCommit(p)
      <4> DEFINE same == breakdown[sec].version = session[p].bd.version
                 row == [st \in Students |->
                           IF same \/ scores[sec][st] = Absent THEN Absent ELSE Blank]
                 version == session[p].bd.version + 1
                 locked == breakdown[sec].locked
      <4>1. /\ WriteBreakdown(sec, version, locked, same) /\ WriteScores(sec, row)
            /\ Close(p) /\ UNCHANGED <<roster, batch, grades, reviews, decisions>>
        BY <1>0, <1>3, <3>1 DEF UpsertBreakdownCommit
      <4>2. \A st \in Students : row[st] \notin Totals
        BY ConstantsAssumption
      <4>3. locked \in BOOLEAN
        BY <2>b
      <4> HIDE DEF same, row, version, locked
      <4> QED  BY <4>1, <4>2, <4>3
    <3>2. CASE UpsertScoresCommit(p)
      <4> DEFINE row == [st \in Students |-> IF st \in DOMAIN session[p].cells
                                             THEN session[p].cells[st] ELSE scores[sec][st]]
                 locked == breakdown[sec].locked \/ session[p].flip
      <4>1. /\ WriteBreakdown(sec, breakdown[sec].version, locked, breakdown[sec].whole)
            /\ WriteScores(sec, row)
            /\ Close(p) /\ UNCHANGED <<roster, batch, grades, reviews, decisions>>
            /\ session[p].op = "upsert_scores" /\ session[p].at = "read"
        BY <1>0, <1>3, <3>2 DEF UpsertScoresCommit, At
      <4>2. (\E st \in Students : row[st] \in Totals) => locked
        BY <1>0, <2>1, <4>1 DEF ReadFits, RowsFit, SectionFits
      <4>3. locked \in BOOLEAN
        BY <2>b
      <4> HIDE DEF row, locked
      <4> QED  BY <4>1, <4>2, <4>3
    <3>3. CASE DeleteAllScoresCommit(p)
      <4> DEFINE row == [st \in Students |-> IF st \in session[p].selected
                                             THEN Absent ELSE scores[sec][st]]
                 locked == breakdown[sec].locked /\ ~session[p].flip
      <4>1. /\ WriteBreakdown(sec, breakdown[sec].version, locked, breakdown[sec].whole)
            /\ WriteScores(sec, row)
            /\ Close(p) /\ UNCHANGED <<roster, batch, grades, reviews, decisions>>
            /\ session[p].op = "delete_all_scores" /\ session[p].at = "read"
        BY <1>0, <3>3 DEF DeleteAllScoresCommit, At
      <4>2. \A st \in Students : row[st] = Absent
        BY <1>0, <2>1, <4>1 DEF ReadFits
      <4>3. locked \in BOOLEAN
        BY <2>b
      <4> HIDE DEF row, locked
      <4> QED  BY <4>1, <4>2, <4>3, ConstantsAssumption
    <3> QED  BY <3>1, <3>2, <3>3
  <2>c. PICK version, whole, row :
           /\ WriteBreakdown(sec, version, locked, whole) /\ WriteScores(sec, row)
           /\ (\E st \in Students : row[st] \in Totals) => locked
           /\ Close(p) /\ UNCHANGED <<roster, batch, grades, reviews, decisions>>
    BY <2>2
  <2>3. /\ scores'[sec] = row /\ breakdown'[sec].locked = locked
        /\ \A t \in Sections \ {sec} : scores'[t] = scores[t] /\ breakdown'[t] = breakdown[t]
    BY <2>1, <2>c DEF WriteScores, WriteBreakdown, Typed, TypeOK
  <2>4. Disjoint' /\ \A t \in Sections \ {sec} : SectionFits(t)'
    BY <2>1, <2>c, <2>3, OtherSections
  <2>5. SectionFits(sec)'
    BY <2>1, <2>c, <2>3 DEF RowsFit, SectionFits
  <2>6. GradesFit' /\ ReviewsRise' /\ VerdictsFit' /\ DecisionsFit'
    BY <2>1, <2>c DEF RowsFit, GradesFit, HasGrade, Official, ReviewsRise, VerdictsFit,
       PendingOn, LastRun, ReviewsOf, DecisionsFit
  <2> QED  BY <1>1, <2>c, <2>4, <2>5, <2>6, CommitFits DEF RowsFit
<1> QED  BY <1>2, <1>3

LEMMA CreateFits ==
    ASSUME Typed, Turns, NEW p \in Sessions, GetOrCreateBatchCommit(p) \/ ReopenCommit(p)
    PROVE  Turns'
<1>1. session[p].at # "idle"
  BY DEF GetOrCreateBatchCommit, ReopenCommit, At
<1>0. PICK sec \in Sections : sec = session[p].section
  BY <1>1, CommitFinds
<1>2. CASE Refuse(p)
  BY <1>1, <1>2, RefusedFits
<1>3. CASE ~Refuse(p)
  <2>1. /\ sec \in Sections /\ batch[sec].status \in {"NONE", "FLAGGED", "REJECTED"}
        /\ session[p].seen = batch[sec] /\ TypeOK /\ RowsFit
    BY <1>0, <1>1, CommitFinds DEF GetOrCreateBatchCommit, ReopenCommit, At, Expected
  <2>2. batch[sec].iteration \in Nat
    BY <2>1, RowTypes
  <2>3. PICK iteration, submitted :
           /\ iteration \in Nat
           /\ iteration > batch[sec].iteration
           /\ WriteBatch(sec, "DRAFT", iteration, submitted) /\ Close(p)
           /\ UNCHANGED <<roster, breakdown, scores, grades, reviews, decisions>>
    <3>1. CASE GetOrCreateBatchCommit(p)
      <4>1. batch[sec].status = "NONE" => batch[sec].iteration = 0
        BY <2>1 DEF RowsFit, SectionFits
      <4>a. batch[sec].status = "NONE"
        BY <1>0, <1>3, <3>1 DEF GetOrCreateBatchCommit
      <4>2. 1 \in Nat /\ 1 > batch[sec].iteration
        BY <4>1, <4>a
      <4>3. /\ WriteBatch(sec, "DRAFT", 1, FALSE) /\ Close(p)
            /\ UNCHANGED <<roster, breakdown, scores, grades, reviews, decisions>>
        BY <1>0, <1>3, <3>1 DEF GetOrCreateBatchCommit
      <4> QED  BY <4>2, <4>3
    <3>2. CASE ReopenCommit(p)
      <4>1. session[p].seen.iteration + 1 \in Nat
            /\ session[p].seen.iteration + 1 > batch[sec].iteration
        BY <2>1, <2>2
      <4>2. \E submitted : /\ WriteBatch(sec, "DRAFT", session[p].seen.iteration + 1, submitted)
                           /\ Close(p)
                           /\ UNCHANGED <<roster, breakdown, scores, grades, reviews, decisions>>
        BY <1>0, <3>2 DEF ReopenCommit
      <4> QED  BY <4>1, <4>2
    <3> QED  BY <3>1, <3>2
  <2>4. /\ batch'[sec].status = "DRAFT" /\ batch'[sec].iteration = iteration
        /\ \A t \in Sections \ {sec} : batch'[t] = batch[t]
    BY <2>1, <2>3, WrittenBatch
  <2>5. Disjoint' /\ \A t \in Sections \ {sec} : SectionFits(t)'
    BY <2>1, <2>3, <2>4, OtherSections
  <2>6. SectionFits(sec)'
    BY <2>1, <2>3, <2>4 DEF RowsFit, SectionFits
  <2>7. GradesFit'
    BY <2>1, <2>3, <2>4, UndecidedGrades
  <2>8. ReviewsRise' /\ VerdictsFit' /\ DecisionsFit'
    <3>1. \A t \in Sections : batch[t].iteration \in Nat
      BY <2>1, RowTypes
    <3>2. \A t \in Sections : /\ batch'[t].iteration >= batch[t].iteration
                              /\ batch'[t].iteration \in Nat
                              /\ batch'[t].status \in Pending => batch'[t] = batch[t]
      BY <2>3, <2>4, <3>1 DEF Pending
    <3> QED  BY <2>1, <2>3, <3>2, NothingLogged
  <2> QED  BY <1>1, <2>3, <2>5, <2>6, <2>7, <2>8, CommitFits DEF RowsFit
<1> QED  BY <1>2, <1>3

-----------------------------------------------------------------------------
\* Submissions and the runs of the agent.

\* The Grade row a submission leaves: the ORM writes what differs, so the row ends
\* up as the outcome.
LEMMA SubmittedRow ==
    ASSUME NEW sec, NEW st, NEW total, NEW dirty,
           \A a \in Attributes : <<st, a>> \in dirty <=> Differs(st, a, NewGrade(sec, total))
    PROVE  LET row == SubmittedGrade(st, NewGrade(sec, total), dirty)
           IN  /\ row.status = "SUBMITTED" /\ row.section = sec
               /\ row.letter = letter_for_numeric(total)
<1> DEFINE new == NewGrade(sec, total)
           row == SubmittedGrade(st, new, dirty)
<1>1. /\ new.status = "SUBMITTED" /\ new.section = sec
      /\ new.letter = letter_for_numeric(total)
  BY DEF NewGrade
<1>2. \A a \in Attributes : <<st, a>> \in dirty <=> HasGrade(st) /\ grades[st][a] # new[a]
  BY DEF Differs
<1> HIDE DEF new
<1>3. row.status = new.status /\ row.letter = new.letter /\ row.section = new.section
  BY <1>2 DEF SubmittedGrade, Attributes
<1> QED  BY <1>1, <1>3 DEF new

LEMMA SubmitCommitFits ==
    ASSUME Typed, Turns, NEW p \in Sessions, SubmitCommit(p)
    PROVE  /\ Turns'
           /\ KeepsOfficial
<1>1. session[p].at = "flushed" /\ session[p].at # "idle" /\ session[p].op = "submit_batch"
  BY DEF SubmitCommit, At
<1>0. PICK sec \in Sections : sec = session[p].section
  BY <1>1, CommitFinds
<1>2. /\ TypeOK /\ RowsFit /\ session[p].seen = batch[sec] /\ batch[sec].status = "DRAFT"
      /\ SubmissionFits(session[p])
  BY <1>0, <1>1, CommitFinds DEF Expected, ReadFits
<1>3. PICK verdict \in Verdicts :
         /\ PersistReview(sec, batch[sec].iteration, verdict)
         /\ WriteBatch(sec, StatusFor(verdict), batch[sec].iteration, TRUE)
  BY <1>0, <1>2 DEF SubmitCommit
<1>4. Close(p) /\ UNCHANGED <<roster, breakdown, scores, decisions>>
  BY DEF SubmitCommit
<1>5. StatusFor(verdict) \in Pending
  BY VerdictStatus DEF Pending
<1>6. /\ batch'[sec].status = StatusFor(verdict) /\ batch'[sec].iteration = batch[sec].iteration
      /\ \A t \in Sections \ {sec} : batch'[t] = batch[t]
  BY <1>2, <1>3, WrittenBatch
<1>7. batch[sec].iteration \in Nat /\ roster[sec] \subseteq Students
  BY <1>2, RowTypes, ConstantsAssumption DEF TypeOK
<1>8. /\ \A st \in Students \ roster[sec] : grades'[st] = grades[st]
      /\ \A st \in roster[sec] : /\ scores[sec][st] \in Totals
                                 /\ grades'[st].status = "SUBMITTED" /\ grades'[st].section = sec
                                 /\ grades'[st].letter = letter_for_numeric(scores[sec][st])
                                 /\ HasGrade(st)'
  <2>1. /\ DOMAIN session[p].cells = roster[sec]
        /\ \A st \in roster[sec] : /\ session[p].cells[st] = scores[sec][st]
                                   /\ scores[sec][st] \in Totals
    BY <1>0, <1>2 DEF SubmissionFits
  <2>2. \A st \in Students :
           grades'[st] = IF st \in roster[sec]
                         THEN SubmittedGrade(st, NewGrade(sec, session[p].cells[st]),
                                             session[p].dirty)
                         ELSE grades[st]
    BY <1>0, <2>1 DEF SubmitCommit
  <2>3. ASSUME NEW st \in roster[sec]
        PROVE  /\ grades'[st].status = "SUBMITTED" /\ grades'[st].section = sec
               /\ grades'[st].letter = letter_for_numeric(scores[sec][st])
               /\ HasGrade(st)'
    <3> DEFINE row == SubmittedGrade(st, NewGrade(sec, session[p].cells[st]), session[p].dirty)
    <3>1. row \in GradeRow
      BY <1>0, <1>1, <2>1, SubmittedGradeTyped
    <3>2. \A a \in Attributes : <<st, a>> \in session[p].dirty
             <=> Differs(st, a, NewGrade(sec, session[p].cells[st]))
      BY <1>0, <1>2, <2>1 DEF SubmissionFits
    <3>3. /\ row.status = "SUBMITTED" /\ row.section = sec
          /\ row.letter = letter_for_numeric(session[p].cells[st])
      BY <3>2, SubmittedRow
    <3>4. grades'[st] = row
      BY <1>7, <2>2
    <3> HIDE DEF row
    <3> QED  BY <2>1, <3>1, <3>3, <3>4, NoGradeAssumption DEF HasGrade
  <2> QED  BY <2>1, <2>2, <2>3
<1>9. Disjoint' /\ \A t \in Sections \ {sec} : SectionFits(t)'
  BY <1>2, <1>4, <1>6, <1>8, OtherSections
<1>10. SectionFits(sec)'
  BY <1>0, <1>2, <1>4, <1>5, <1>6, <1>8 DEF SectionFits, SubmissionFits, RowsFit, Pending
<1>11. \A st \in Students : HasGrade(st) => grades[st].section \in Sections
  BY DEF Typed, TypeOK, GradeRow, HasGrade
<1>12. GradesFit'
  <2> SUFFICES ASSUME NEW st \in Students, HasGrade(st)'
               PROVE  /\ st \in roster'[grades'[st].section]
                      /\ Official(st)' <=> batch'[grades'[st].section].status = "AUTHORISED"
    BY DEF GradesFit
  <2>1. CASE st \in roster[sec]
    <3>1. grades'[st].status = "SUBMITTED" /\ grades'[st].section = sec
      BY <1>8, <2>1
    <3>2. ~Official(st)' /\ batch'[sec].status # "AUTHORISED"
      BY <1>5, <1>6, <3>1 DEF Official, Pending
    <3> QED  BY <1>4, <2>1, <3>1, <3>2
  <2>2. CASE st \notin roster[sec]
    <3>1. grades'[st] = grades[st] /\ HasGrade(st)
      BY <1>8, <2>2 DEF HasGrade
    <3>2. /\ st \in roster[grades[st].section]
          /\ Official(st) <=> batch[grades[st].section].status = "AUTHORISED"
      BY <1>2, <3>1 DEF RowsFit, GradesFit
    <3>3. batch'[grades[st].section] = batch[grades[st].section]
      BY <1>6, <1>11, <2>2, <3>1, <3>2
    <3> QED  BY <1>4, <3>1, <3>2, <3>3 DEF Official, HasGrade
  <2> QED  BY <2>1, <2>2
<1>13. ReviewsRise' /\ VerdictsFit' /\ DecisionsFit'
  BY <1>2, <1>3, <1>4, <1>6, <1>7, RunLogged
<1>14. RowsFit'
  BY <1>9, <1>10, <1>12, <1>13 DEF RowsFit
<1>15. KeepsOfficial
  <2> SUFFICES ASSUME NEW st \in Students, Official(st) PROVE grades'[st] = grades[st]
    BY DEF KeepsOfficial
  <2>1. st \in roster[grades[st].section] /\ batch[grades[st].section].status = "AUTHORISED"
    BY <1>2 DEF RowsFit, GradesFit, Official
  <2>2. st \notin roster[sec]
    BY <1>2, <1>11, <2>1 DEF RowsFit, Disjoint, Official
  <2> QED  BY <1>8, <2>2
<1> QED  BY <1>1, <1>4, <1>14, <1>15, CommitFits

LEMMA RunCommitFits ==
    ASSUME Typed, Turns, NEW p \in Sessions,
           JustifyCommit(p) \/ RerunCommit(p) \/ DHRerunCommit(p)
    PROVE  Turns'
<1>1. session[p].at # "idle"
  BY DEF JustifyCommit, RerunCommit, DHRerunCommit, At
<1>0. PICK sec \in Sections : sec = session[p].section
  BY <1>1, CommitFinds
<1>2. /\ TypeOK /\ RowsFit /\ session[p].seen = batch[sec]
      /\ batch[sec].status \in Expected(session[p].op)
  BY <1>0, <1>1, CommitFinds
<1>3. batch[sec].iteration \in Nat
  BY <1>2, RowTypes
<1>4. Close(p) /\ UNCHANGED <<roster, breakdown, scores, grades, decisions>>
  BY DEF JustifyCommit, RerunCommit, DHRerunCommit, RerunVerdict
<1>5. PICK verdict \in Verdicts, iteration \in Nat :
         /\ batch[sec].status \in Pending /\ batch[sec].iteration <= iteration
         /\ PersistReview(sec, iteration, verdict)
         /\ batch'[sec].status = StatusFor(verdict) /\ batch'[sec].iteration = iteration
         /\ \A t \in Sections \ {sec} : batch'[t] = batch[t]
  <2>1. CASE JustifyCommit(p)
    <3>1. batch[sec].status = "FLAGGED"
      BY <1>2, <2>1 DEF JustifyCommit, At, Expected
    <3>2. PICK verdict \in Verdicts :
             /\ PersistReview(sec, batch[sec].iteration + 1, verdict)
             /\ WriteBatch(sec, IF verdict = "FLAG" THEN batch[sec].status
                                ELSE StatusFor(verdict),
                           batch[sec].iteration + 1, batch[sec].submitted)
      BY <1>0, <1>2, <2>1 DEF JustifyCommit
    <3>3. (IF verdict = "FLAG" THEN batch[sec].status ELSE StatusFor(verdict))
             = StatusFor(verdict)
      BY <3>1 DEF StatusFor
    <3>4. /\ batch'[sec].status = StatusFor(verdict)
          /\ batch'[sec].iteration = batch[sec].iteration + 1
          /\ \A t \in Sections \ {sec} : batch'[t] = batch[t]
      BY <1>2, <3>2, <3>3, WrittenBatch
    <3>5. batch[sec].iteration + 1 \in Nat /\ batch[sec].iteration <= batch[sec].iteration + 1
      BY <1>3
    <3> QED  BY <3>1, <3>2, <3>4, <3>5 DEF Pending
  <2>2. CASE RerunCommit(p) \/ DHRerunCommit(p)
    <3>1. batch[sec].status \in Pending
      BY <1>2, <2>2 DEF RerunCommit, DHRerunCommit, At, Expected
    <3>2. PICK verdict \in Verdicts : RerunVerdict(p, verdict)
      BY <2>2 DEF RerunCommit, DHRerunCommit
    <3>3. PersistReview(sec, batch[sec].iteration, verdict)
      BY <1>0, <1>2, <3>2 DEF RerunVerdict
    <3>4. /\ batch'[sec].status = StatusFor(verdict)
          /\ batch'[sec].iteration = batch[sec].iteration
          /\ \A t \in Sections \ {sec} : batch'[t] = batch[t]
      <4>1. CASE ~StatusDirty(p, verdict) /\ batch' = batch
        BY <1>0, <1>2, <4>1 DEF StatusDirty
      <4>2. CASE WriteBatch(sec, StatusFor(verdict), batch[sec].iteration, batch[sec].submitted)
        BY <1>2, <4>2, WrittenBatch
      <4> QED  BY <1>0, <3>2, <4>1, <4>2 DEF RerunVerdict
    <3>5. batch[sec].iteration <= batch[sec].iteration
      BY <1>3
    <3> QED  BY <1>3, <3>1, <3>3, <3>4, <3>5
  <2> QED  BY <2>1, <2>2
<1>6. StatusFor(verdict) \in Pending
  BY VerdictStatus DEF Pending
<1>7. Disjoint' /\ \A t \in Sections \ {sec} : SectionFits(t)'
  BY <1>2, <1>4, <1>5, OtherSections
<1>8. SectionFits(sec)'
  BY <1>2, <1>4, <1>5, <1>6 DEF RowsFit, SectionFits, Pending, HasGrade
<1>9. GradesFit'
  BY <1>2, <1>4, <1>5, <1>6, UndecidedGrades DEF Pending
<1>10. ReviewsRise' /\ VerdictsFit' /\ DecisionsFit'
  BY <1>2, <1>4, <1>5, RunLogged
<1>11. RowsFit'
  BY <1>7, <1>8, <1>9, <1>10 DEF RowsFit
<1> QED  BY <1>1, <1>4, <1>11, CommitFits

-----------------------------------------------------------------------------
\* Decisions.

LEMMA DecideCommitFits ==
    ASSUME Typed, Turns, NEW p \in Sessions, AuthoriseCommit(p) \/ RejectCommit(p)
    PROVE  Turns' /\ KeepsOfficial
<1>1. session[p].at # "idle"
  BY DEF AuthoriseCommit, RejectCommit, DecideCommit, At
<1>0. PICK sec \in Sections : sec = session[p].section
  BY <1>1, CommitFinds
<1>2. /\ TypeOK /\ RowsFit /\ session[p].seen = batch[sec]
      /\ batch[sec].status \in {"SUBMITTED", "FLAGGED"}
  BY <1>0, <1>1, CommitFinds DEF AuthoriseCommit, RejectCommit, DecideCommit, At, Expected
<1>3. PICK target, decision :
         /\ target \in {"AUTHORISED", "REJECTED"}
         /\ grades' = [st \in Students |-> IF st \in Undecided(sec, target)
                                           THEN DecidedGrade(st, target) ELSE grades[st]]
         /\ WriteBatch(sec, target, batch[sec].iteration, batch[sec].submitted)
         /\ RecordDecision(sec, batch[sec].iteration, decision)
         /\ VerdictBehind(decision) = IF batch[sec].status = "FLAGGED" THEN "FLAG" ELSE "APPROVE"
  <2>1. ReadFits(session[p])
    BY <1>1, CommitFinds
  <2>2. CASE AuthoriseCommit(p)
    <3> DEFINE decision == IF batch[sec].status = "FLAGGED" THEN "OVERRODE_AGENT_FLAG"
                           ELSE "AUTHORISED"
    <3>1. DecideCommit(p, "authorise", "AUTHORISED", decision)
      BY <1>0, <1>2, <2>2 DEF AuthoriseCommit
    <3>2. session[p].selected = Undecided(sec, "AUTHORISED")
      BY <1>0, <2>1, <3>1 DEF DecideCommit, At, ReadFits
    <3>3. VerdictBehind(decision) = IF batch[sec].status = "FLAGGED" THEN "FLAG" ELSE "APPROVE"
      BY DEF VerdictBehind
    <3> HIDE DEF decision
    <3> QED  BY <1>0, <1>2, <3>1, <3>2, <3>3 DEF DecideCommit
  <2>3. CASE RejectCommit(p)
    <3> DEFINE decision == IF batch[sec].status = "FLAGGED" THEN "REJECTED"
                           ELSE "OVERRODE_AGENT_APPROVAL"
    <3>1. DecideCommit(p, "reject", "REJECTED", decision)
      BY <1>0, <1>2, <2>3 DEF RejectCommit
    <3>2. session[p].selected = Undecided(sec, "REJECTED")
      BY <1>0, <2>1, <3>1 DEF DecideCommit, At, ReadFits
    <3>3. VerdictBehind(decision) = IF batch[sec].status = "FLAGGED" THEN "FLAG" ELSE "APPROVE"
      BY DEF VerdictBehind
    <3> HIDE DEF decision
    <3> QED  BY <1>0, <1>2, <3>1, <3>2, <3>3 DEF DecideCommit
  <2> QED  BY <2>2, <2>3
<1>4. Close(p) /\ UNCHANGED <<roster, breakdown, scores, reviews>>
  BY DEF AuthoriseCommit, RejectCommit, DecideCommit
<1>5. /\ batch'[sec].status = target /\ batch'[sec].iteration = batch[sec].iteration
      /\ \A t \in Sections \ {sec} : batch'[t] = batch[t]
  BY <1>2, <1>3, WrittenBatch
<1>6. /\ batch[sec].iteration \in Nat /\ roster[sec] \subseteq Students
      /\ \A t \in Sections : batch[t].iteration \in Nat
  BY <1>2, RowTypes, ConstantsAssumption DEF TypeOK
<1>7. \A st \in Students : HasGrade(st) => grades[st] \in GradeRow
  BY DEF Typed, TypeOK, HasGrade
\* Each row keeps its student, its section and its letter; those of the section take
\* the status decided.
<1>8. ASSUME NEW st \in Students
      PROVE  /\ HasGrade(st)' <=> HasGrade(st)
             /\ HasGrade(st) => /\ grades'[st].section = grades[st].section
                                /\ grades'[st].letter = grades[st].letter
                                /\ grades[st].section = sec => grades'[st].status = target
                                /\ grades[st].section # sec => grades'[st] = grades[st]
  <2>1. CASE st \in Undecided(sec, target)
    <3>1. grades'[st] = DecidedGrade(st, target) /\ HasGrade(st) /\ grades[st].section = sec
      BY <1>3, <2>1 DEF Undecided
    <3>2. DecidedGrade(st, target) \in GradeRow
      BY <1>3, <1>7, <3>1 DEF DecidedGrade, GradeRow, Statuses
    <3>3. /\ DecidedGrade(st, target).section = grades[st].section
          /\ DecidedGrade(st, target).letter = grades[st].letter
          /\ DecidedGrade(st, target).status = target
      BY DEF DecidedGrade
    <3> QED  BY <3>1, <3>2, <3>3, NoGradeAssumption DEF HasGrade
  <2>2. CASE st \notin Undecided(sec, target)
    <3>1. grades'[st] = grades[st]
      BY <1>3, <2>2
    <3> QED  BY <2>2, <3>1 DEF Undecided, HasGrade
  <2> QED  BY <2>1, <2>2
<1>9. \A st \in Students : HasGrade(st) => grades[st].section \in Sections
  BY <1>7 DEF GradeRow
<1>10. \A st \in Students \ roster[sec] : grades'[st] = grades[st]
  <2> SUFFICES ASSUME NEW st \in Students \ roster[sec] PROVE grades'[st] = grades[st]
    OBVIOUS
  <2>1. CASE HasGrade(st)
    BY <1>2, <1>8, <2>1 DEF RowsFit, GradesFit
  <2>2. CASE ~HasGrade(st)
    BY <1>8, <2>2 DEF HasGrade
  <2> QED  BY <2>1, <2>2
<1>11. Disjoint' /\ \A t \in Sections \ {sec} : SectionFits(t)'
  BY <1>2, <1>4, <1>5, <1>10, OtherSections
<1>12. SectionFits(sec)'
  <2>1. SectionFits(sec)
    BY <1>2 DEF RowsFit
  <2>2. /\ roster[sec] # {}
        /\ \A st \in roster[sec] : /\ HasGrade(st)' /\ scores[sec][st] \in Totals
                                   /\ grades'[st].letter = letter_for_numeric(scores[sec][st])
    BY <1>2, <1>6, <1>8, <2>1 DEF SectionFits
  <2> QED  BY <1>3, <1>4, <1>5, <2>1, <2>2 DEF SectionFits
<1>13. GradesFit'
  <2> SUFFICES ASSUME NEW st \in Students, HasGrade(st)'
               PROVE  /\ st \in roster'[grades'[st].section]
                      /\ Official(st)' <=> batch'[grades'[st].section].status = "AUTHORISED"
    BY DEF GradesFit
  <2>1. HasGrade(st) /\ grades'[st].section = grades[st].section
    BY <1>8
  <2>2. /\ st \in roster[grades[st].section]
        /\ Official(st) <=> batch[grades[st].section].status = "AUTHORISED"
    BY <1>2, <2>1 DEF RowsFit, GradesFit
  <2>3. CASE grades[st].section = sec
    BY <1>4, <1>5, <1>8, <2>1, <2>2, <2>3 DEF Official
  <2>4. CASE grades[st].section # sec
    <3>1. grades'[st] = grades[st] /\ batch'[grades[st].section] = batch[grades[st].section]
      BY <1>5, <1>8, <1>9, <2>1, <2>4
    <3> QED  BY <1>4, <2>1, <2>2, <3>1 DEF Official, HasGrade
  <2> QED  BY <2>3, <2>4
<1>14. ReviewsRise' /\ VerdictsFit'
  <2>1. ReviewsRise'
    BY <1>2, <1>4, <1>5, <1>6, ReviewRows DEF RowsFit, ReviewsRise
  <2>2. VerdictsFit'
    BY <1>2, <1>3, <1>4, <1>5 DEF RowsFit, VerdictsFit, PendingOn, LastRun, ReviewsOf, Pending
  <2> QED  BY <2>1, <2>2
<1>15. DecisionsFit'
  <2>1. PICK n \in Nat : n = Len(decisions)
    <3>1. decisions \in Seq(DecisionRow)
      BY <1>2 DEF TypeOK
    <3> QED  BY <3>1
  <2> DEFINE new == [section |-> sec, iteration |-> batch[sec].iteration, decision |-> decision]
  <2>2. /\ DOMAIN decisions = 1..n /\ DOMAIN decisions' = 1..(n + 1)
        /\ \A i \in 1..n : decisions'[i] = decisions[i]
        /\ decisions'[n + 1] = new
    BY <1>2, <1>3, <2>1 DEF RecordDecision, TypeOK
  <2>3. new.section = sec /\ new.iteration = batch[sec].iteration /\ new.decision = decision
    OBVIOUS
  <2> HIDE DEF new
  <2>4. PICK j \in DOMAIN reviews : PendingOn(sec, j)
    BY <1>2 DEF RowsFit, VerdictsFit, Pending
  <2>5. reviews[j].verdict = VerdictBehind(decision)
    <3>1. reviews[j].verdict \in {"APPROVE", "FLAG", "PENDING"}
      BY <2>4, ReviewRows, VerdictSet
    <3> QED  BY <1>2, <1>3, <2>4, <3>1 DEF PendingOn, StatusFor
  <2>6. j \in ReviewsOf(sec) /\ reviews[j].iteration = batch[sec].iteration
    BY <2>4 DEF PendingOn, LastRun
  <2> SUFFICES ASSUME NEW i \in 1..(n + 1)
               PROVE  \E k \in ReviewsOf(decisions'[i].section) :
                         /\ reviews[k].iteration = decisions'[i].iteration
                         /\ reviews[k].verdict = VerdictBehind(decisions'[i].decision)
    BY <1>4, <2>2 DEF DecisionsFit, ReviewsOf, VerdictBehind
  <2>7. CASE i = n + 1
    BY <2>2, <2>3, <2>5, <2>6, <2>7
  <2>8. CASE i \in 1..n
    BY <1>2, <2>2, <2>8 DEF RowsFit, DecisionsFit
  <2> QED  BY <2>1, <2>7, <2>8
<1>16. RowsFit'
  BY <1>11, <1>12, <1>13, <1>14, <1>15 DEF RowsFit
<1>17. KeepsOfficial
  <2> SUFFICES ASSUME NEW st \in Students, Official(st) PROVE grades'[st] = grades[st]
    BY DEF KeepsOfficial
  <2>1. HasGrade(st) /\ batch[grades[st].section].status = "AUTHORISED"
    BY <1>2 DEF RowsFit, GradesFit, Official
  <2> QED  BY <1>2, <1>8, <2>1
<1> QED  BY <1>1, <1>4, <1>16, <1>17, CommitFits

-----------------------------------------------------------------------------
\* Every step.

LEMMA NextTurns ==
    ASSUME IInv, Turns, OneAtATime', roster' = roster, [Next]_vars
    PROVE  Turns' /\ KeepsOfficial
<1>1. Typed
  BY IInvTyped
<1>2. ASSUME NEW p \in Sessions, SubmitCommit(p) \/ AuthoriseCommit(p) \/ RejectCommit(p)
      PROVE  Turns' /\ KeepsOfficial
  BY <1>1, <1>2, SubmitCommitFits, DecideCommitFits
<1>3. ASSUME NEW p \in Sessions, Step(p),
             ~(SubmitCommit(p) \/ AuthoriseCommit(p) \/ RejectCommit(p))
      PROVE  Turns' /\ grades' = grades
  <2>1. Turns'
    BY <1>1, <1>3, ScoreCommitFits, CreateFits, ScoresReadFits, DeleteReadFits, SubmitReadFits,
       FlushFits, RunCommitFits, DecideReadFits DEF Step
  <2>2. grades' = grades
    BY <1>3 DEF Step, UpsertBreakdownCommit, GetOrCreateBatchCommit, UpsertScoresRead,
       UpsertScoresCommit, DeleteAllScoresRead, DeleteAllScoresCommit, SubmitCompute,
       SubmitFlush, JustifyFlush, JustifyCommit, ReopenCommit, RerunCommit, DHRerunCommit,
       RerunVerdict, AuthoriseRead, RejectRead, DecideRead, Read, Flushed, Refuse, rows
  <2> QED  BY <2>1, <2>2
<1>4. ASSUME NEW p \in Sessions, Abort(p) PROVE Turns' /\ grades' = grades
  BY <1>1, <1>4, RefusedFits DEF Abort, Refuse, rows
<1>5. ASSUME NEW p \in Sessions, NEW sec \in Sections, Load(p, sec)
      PROVE  Turns' /\ grades' = grades
  <2>1. grades' = grades
    BY <1>5 DEF Load, UpsertBreakdownLoad, GetOrCreateBatchLoad, UpsertScoresLoad,
       DeleteAllScoresLoad, SubmitLoad, JustifyLoad, ReopenLoad, RerunLoad, DHRerunLoad,
       DecideLoad, AuthoriseLoad, RejectLoad, Open, rows
  <2> QED  BY <1>1, <1>5, <2>1, LoadFits
<1>6. CASE UNCHANGED vars
  <2>1. UNCHANGED rows /\ session' = session
    BY <1>6 DEF vars, rows
  <2>2. SessionsFit'
    BY <2>1, FitsKept DEF Turns, SessionsFit, Busy
  <2>3. OneAtATime' /\ RowsFit'
    BY <2>1, RowsKept DEF Turns, OneAtATime, Busy
  <2> QED  BY <2>1, <2>2, <2>3 DEF Turns, KeepsOfficial, rows
<1>7. ASSUME RosterChange PROVE FALSE
  BY <1>7 DEF RosterChange
<1> QED
  BY <1>2, <1>3, <1>4, <1>5, <1>6, <1>7 DEF Next, KeepsOfficial

\* The inductive invariant of requests that take turns.
LEMMA TurnsInvariant == TurnsSpec => [](IInv /\ (turns => Turns))
<1> DEFINE Inv == turns => Turns
<1>1. TurnsInit => Inv
  BY InitTurns DEF TurnsInit
<1>2. IInv /\ Inv /\ [TurnsNext]_<<vars, turns>> => Inv'
  <2> SUFFICES ASSUME IInv, Inv, [TurnsNext]_<<vars, turns>>, turns' PROVE Turns'
    OBVIOUS
  <2>1. [Next]_vars /\ turns
    BY DEF TurnsNext
  <2>2. OneAtATime' /\ roster' = roster
    BY <2>1 DEF TurnsNext, vars, Turns, OneAtATime, Busy
  <2> QED  BY <2>1, <2>2, NextTurns
<1>3. TurnsInit => Init
  BY DEF TurnsInit
<1>4. [TurnsNext]_<<vars, turns>> => [Next]_vars
  BY DEF TurnsNext
<1>5. TurnsSpec => []IInv
  BY <1>3, <1>4, Invariant, PTL DEF TurnsSpec, Spec
<1> HIDE DEF Inv
<1>6. TurnsSpec => []Inv
  BY <1>1, <1>2, <1>5, PTL DEF TurnsSpec
<1> QED  BY <1>5, <1>6, PTL DEF Inv

-----------------------------------------------------------------------------
\* What the pages show while requests take turns.

\* Whose Grade rows a section has once it has submitted.
LEMMA GradedRoster ==
    ASSUME Typed, RowsFit, NEW sec \in Sections, batch[sec].status \notin {"NONE", "DRAFT"}
    PROVE  /\ {st \in Students : HasGrade(st) /\ grades[st].section = sec} = roster[sec]
           /\ \A st \in roster[sec] :
                 /\ scores[sec][st] \in Totals
                 /\ grades[st].letter = letter_for_numeric(scores[sec][st])
<1>1. roster[sec] \subseteq Students
  BY ConstantsAssumption DEF Typed, TypeOK
<1>2. \A st \in roster[sec] :
         /\ HasGrade(st) /\ scores[sec][st] \in Totals
         /\ grades[st].letter = letter_for_numeric(scores[sec][st])
  BY DEF RowsFit, SectionFits
<1>3. \A st \in Students : HasGrade(st) =>
         grades[st].section \in Sections /\ st \in roster[grades[st].section]
  BY DEF Typed, TypeOK, GradeRow, HasGrade, RowsFit, GradesFit
<1>4. \A st \in roster[sec] : grades[st].section = sec
  BY <1>1, <1>2, <1>3 DEF RowsFit, Disjoint
<1> QED  BY <1>1, <1>2, <1>3, <1>4

LEMMA TurnsPacket == Typed /\ RowsFit => PacketFits
<1> SUFFICES ASSUME Typed, RowsFit, NEW sec \in Sections,
                    batch[sec].status \notin {"NONE", "DRAFT"}
             PROVE  /\ per_student_grades(sec) =
                          [st \in {st \in Students : HasGrade(st) /\ grades[st].section = sec} |->
                              grades[st].letter]
                    /\ \A st \in DOMAIN batch_response(sec) : batch_response(sec)[st]
  BY DEF PacketFits, get_review_packet
<1>1. {st \in roster[sec] : scores[sec][st] \in Totals} = roster[sec]
  BY GradedRoster
<1>2. per_student_grades(sec) = [st \in roster[sec] |-> letter_for_numeric(scores[sec][st])]
  BY <1>1 DEF per_student_grades
<1>3. per_student_grades(sec) = [st \in roster[sec] |-> grades[st].letter]
  BY <1>2, GradedRoster
<1>4. \A st \in DOMAIN batch_response(sec) : batch_response(sec)[st]
  BY GradedRoster DEF batch_response
<1> QED  BY <1>3, <1>4, GradedRoster

\* The pages list the runs and the decisions in an order.
LEMMA LogsListed ==
    ASSUME Typed, NEW sec
    PROVE  /\ IsFiniteSet(ReviewsOf(sec)) /\ Orders(NewerRuns(sec), ReviewsOf(sec))
           /\ \A n \in DOMAIN list_decisions(sec) :
                 \E i \in DecisionsOf(sec) : list_decisions(sec)[n] = decisions[i]
<1>1. IsFiniteSet(DOMAIN reviews) /\ IsFiniteSet(DOMAIN decisions)
  <2>1. Len(reviews) \in Nat /\ Len(decisions) \in Nat
        /\ DOMAIN reviews = 1..Len(reviews) /\ DOMAIN decisions = 1..Len(decisions)
    BY DEF Typed, TypeOK
  <2> QED  BY <2>1, FS_Interval
<1>2. IsFiniteSet(ReviewsOf(sec)) /\ IsFiniteSet(DecisionsOf(sec))
  BY <1>1, FS_Subset DEF ReviewsOf, DecisionsOf
<1>3. \A i \in ReviewsOf(sec) : i \in Nat /\ reviews[i].iteration \in Nat
  <2>1. \A i \in DOMAIN reviews : i \in Nat
    BY DEF Typed, TypeOK
  <2> QED  BY <2>1, ReviewRows DEF ReviewsOf
<1>4. Orders(NewerRuns(sec), ReviewsOf(sec))
  BY <1>3 DEF Orders, NewerRuns
<1> DEFINE later == {w \in DecisionsOf(sec) \X DecisionsOf(sec) : w[1] > w[2]}
<1>5. \A i \in DecisionsOf(sec) : i \in Nat
  BY DEF Typed, TypeOK, DecisionsOf
<1>6. Orders(later, DecisionsOf(sec))
  BY <1>5 DEF Orders
<1>7. list_decisions(sec) = [n \in DOMAIN InOrder(DecisionsOf(sec), later) |->
                               decisions[InOrder(DecisionsOf(sec), later)[n]]]
  BY DEF list_decisions
<1> HIDE DEF later
<1>8. DOMAIN InOrder(DecisionsOf(sec), later) = 1..Cardinality(DecisionsOf(sec))
  BY DEF InOrder
<1>9. \A n \in 1..Cardinality(DecisionsOf(sec)) :
         InOrder(DecisionsOf(sec), later)[n] \in DecisionsOf(sec)
  BY <1>2, <1>6, InOrderRows
<1> QED  BY <1>2, <1>4, <1>7, <1>8, <1>9

\* The last run of a pending batch heads the list; every run is listed.
LEMMA RunsListed ==
    ASSUME Typed, RowsFit, NEW sec \in Sections
    PROVE  /\ \A i \in ReviewsOf(sec) : \E n \in DOMAIN list_agent_reviews(sec) :
                 list_agent_reviews(sec)[n] = reviews[i]
           /\ \A i : LastRun(sec, i) => /\ 1 \in DOMAIN list_agent_reviews(sec)
                                        /\ list_agent_reviews(sec)[1] = reviews[i]
<1> DEFINE S == ReviewsOf(sec)
           before == NewerRuns(sec)
           order == InOrder(S, before)
<1>1. IsFiniteSet(S) /\ Orders(before, S)
  BY LogsListed
<1>2. list_agent_reviews(sec) = [n \in DOMAIN order |-> reviews[order[n]]]
  BY DEF list_agent_reviews
<1>3. DOMAIN order = 1..Cardinality(S)
  BY DEF InOrder
<1> HIDE DEF S, before, order
<1>4. \A i \in S : /\ Cardinality({j \in S : <<j, i>> \in before}) + 1 \in 1..Cardinality(S)
                   /\ order[Cardinality({j \in S : <<j, i>> \in before}) + 1] = i
  BY <1>1, InOrderRows DEF order
<1>5. \A i \in S : \E n \in DOMAIN order : order[n] = i
  BY <1>3, <1>4
<1>6. ASSUME NEW i, LastRun(sec, i)
      PROVE  1 \in DOMAIN order /\ order[1] = i
  <2>1. i \in S /\ \A j \in S : j <= i
    BY <1>6 DEF LastRun, S
  <2>2. \A j \in S : j # i => reviews[j].iteration <= reviews[i].iteration
    <3> SUFFICES ASSUME NEW j \in S, j # i
                 PROVE  reviews[j].iteration <= reviews[i].iteration
      OBVIOUS
    <3>1. /\ i \in DOMAIN reviews /\ j \in DOMAIN reviews
          /\ reviews[i].section = reviews[j].section
      BY <2>1 DEF S, ReviewsOf
    <3>2. i \in Nat /\ j \in Nat
      BY <3>1 DEF Typed, TypeOK
    <3>3. j < i
      BY <2>1, <3>2
    <3> QED  BY <3>1, <3>3 DEF RowsFit, ReviewsRise
  <2>3. \A j \in S : <<j, i>> \notin before
    <3> SUFFICES ASSUME NEW j \in S, <<j, i>> \in before PROVE FALSE
      OBVIOUS
    <3>1. /\ i \in DOMAIN reviews /\ j \in DOMAIN reviews
      BY <2>1 DEF S, ReviewsOf
    <3>2. /\ i \in Nat /\ j \in Nat
          /\ reviews[i].iteration \in Nat /\ reviews[j].iteration \in Nat
      BY <3>1, ReviewRows DEF Typed, TypeOK
    <3>3. j # i
      BY <2>1, <1>1 DEF Orders
    <3>4. reviews[j].iteration <= reviews[i].iteration /\ j <= i
      BY <2>1, <2>2, <3>3
    <3>5. reviews[j].iteration > reviews[i].iteration \/ j > i
      BY DEF before, NewerRuns
    <3> QED  BY <3>2, <3>4, <3>5
  <2>4. Cardinality({j \in S : <<j, i>> \in before}) = 0
    <3>1. {j \in S : <<j, i>> \in before} = {}
      BY <2>3
    <3> QED  BY <3>1, FS_EmptySet
  <2>5. 0 + 1 \in 1..Cardinality(S) /\ order[0 + 1] = i
    BY <1>4, <2>1, <2>4
  <2> QED  BY <1>3, <2>5
<1> QED  BY <1>2, <1>5, <1>6 DEF S

LEMMA TurnsQueue == Typed /\ RowsFit => QueueFits
<1> SUFFICES ASSUME Typed, RowsFit PROVE QueueFits
  OBVIOUS
<1>1. grading_exceptions \subseteq list_queue
  BY DEF grading_exceptions, list_queue, Pending
<1>2. ASSUME NEW sec \in Sections, sec \in list_queue
      PROVE  LET entry == queue_entry(sec)
                 runs  == list_agent_reviews(sec)
             IN  /\ runs # <<>> /\ runs[1] = LastOf(reviews, sec)
                 /\ entry.status = StatusFor(entry.latest_agent_verdict)
                 /\ Reviewable(sec) <=> entry.latest_agent_verdict # "PENDING"
  <2> DEFINE runs == list_agent_reviews(sec)
  <2>1. PICK i \in DOMAIN reviews : PendingOn(sec, i)
    BY <1>2 DEF RowsFit, VerdictsFit, list_queue
  <2>2. 1 \in DOMAIN runs /\ runs[1] = reviews[i]
    BY <2>1, RunsListed DEF PendingOn
  <2>3. runs # <<>>
    BY <2>2
  <2>4. LastOf(reviews, sec) = reviews[i]
    <3>1. \A j \in ReviewsOf(sec) : j \in Nat
      BY DEF Typed, TypeOK, ReviewsOf
    <3>2. i \in ReviewsOf(sec) /\ \A j \in ReviewsOf(sec) : j <= i
      BY <2>1 DEF PendingOn, LastRun
    <3>3. (CHOOSE k \in ReviewsOf(sec) : \A j \in ReviewsOf(sec) : j <= k) = i
      BY <3>1, <3>2
    <3> QED  BY <3>3 DEF LastOf, ReviewsOf
  <2>5. /\ queue_entry(sec).status = batch[sec].status
        /\ queue_entry(sec).latest_agent_verdict = reviews[i].verdict
    BY <2>2, <2>3 DEF queue_entry
  <2>6. batch[sec].status = StatusFor(reviews[i].verdict)
    BY <2>1 DEF PendingOn
  <2>7. reviews[i].verdict \in {"APPROVE", "FLAG", "PENDING"}
    BY <2>1, ReviewRows, VerdictSet
  <2>8. Reviewable(sec) <=> reviews[i].verdict # "PENDING"
    BY <2>6, <2>7 DEF Reviewable, StatusFor
  <2> QED  BY <2>2, <2>3, <2>4, <2>5, <2>6, <2>8
<1>3. ASSUME NEW sec \in Sections, NEW n \in DOMAIN list_decisions(sec)
      PROVE  \E j \in DOMAIN list_agent_reviews(sec) :
                /\ list_agent_reviews(sec)[j].iteration = list_decisions(sec)[n].iteration
                /\ list_agent_reviews(sec)[j].verdict =
                      VerdictBehind(list_decisions(sec)[n].decision)
  <2>1. PICK i \in DecisionsOf(sec) : list_decisions(sec)[n] = decisions[i]
    BY LogsListed
  <2>2. PICK k \in ReviewsOf(sec) : /\ reviews[k].iteration = decisions[i].iteration
                                    /\ reviews[k].verdict = VerdictBehind(decisions[i].decision)
    BY DEF RowsFit, DecisionsFit, DecisionsOf
  <2>3. PICK j \in DOMAIN list_agent_reviews(sec) : list_agent_reviews(sec)[j] = reviews[k]
    BY RunsListed
  <2> QED  BY <2>1, <2>2, <2>3
<1> QED  BY <1>1, <1>2, <1>3 DEF QueueFits

LEMMA TurnsVerdict == Typed /\ RowsFit => StatusFollowsVerdict
<1> SUFFICES ASSUME Typed, RowsFit, NEW sec \in Sections, batch[sec].status \in Pending
             PROVE  /\ Logged(reviews, sec)
                    /\ batch[sec].status = StatusFor(LastOf(reviews, sec).verdict)
  BY DEF StatusFollowsVerdict, Pending
<1>1. PICK i \in DOMAIN reviews : PendingOn(sec, i)
  BY DEF RowsFit, VerdictsFit
<1>2. i \in ReviewsOf(sec) /\ \A j \in ReviewsOf(sec) : j <= i
  BY <1>1 DEF PendingOn, LastRun
<1>3. \A j \in ReviewsOf(sec) : j \in Nat
  BY DEF Typed, TypeOK, ReviewsOf
<1>4. (CHOOSE k \in ReviewsOf(sec) : \A j \in ReviewsOf(sec) : j <= k) = i
  BY <1>2, <1>3
<1>5. LastOf(reviews, sec) = reviews[i]
  BY <1>4 DEF LastOf, ReviewsOf
<1> QED  BY <1>1, <1>2, <1>5 DEF PendingOn, Logged, ReviewsOf

-----------------------------------------------------------------------------
\* While requests take turns, the Grade rows of a section are official exactly while
\* its batch is authorised, an official letter is that of the total in the matrix,
\* and the packet the department head decides on is what the decision moves.
THEOREM Officially == TurnsSpec => []TurnsOfficial
<1>1. IInv /\ (turns => Turns) => TurnsOfficial
  <2> SUFFICES ASSUME IInv, Turns
               PROVE  OfficialIffAuthorised /\ OfficialFromScores /\ PacketFits
    BY DEF TurnsOfficial
  <2>1. Typed /\ RowsFit
    BY IInvTyped DEF Turns
  <2>2. OfficialIffAuthorised
    BY <2>1 DEF RowsFit, GradesFit, OfficialIffAuthorised
  <2>3. OfficialFromScores
    <3> SUFFICES ASSUME NEW st \in Students, Official(st)
                 PROVE  /\ scores[grades[st].section][st] \in Totals
                        /\ grades[st].letter =
                              letter_for_numeric(scores[grades[st].section][st])
      BY DEF OfficialFromScores
    <3>1. /\ HasGrade(st) /\ st \in roster[grades[st].section]
          /\ batch[grades[st].section].status = "AUTHORISED"
      BY <2>1 DEF RowsFit, GradesFit, Official
    <3>2. grades[st].section \in Sections
      BY <2>1, <3>1 DEF Typed, TypeOK, GradeRow, HasGrade
    <3> QED  BY <2>1, <3>1, <3>2 DEF RowsFit, SectionFits
  <2>4. PacketFits
    BY <2>1, TurnsPacket
  <2> QED  BY <2>2, <2>3, <2>4
<1> QED  BY <1>1, TurnsInvariant, PTL

\* While requests take turns, the status of a batch is the agent's last verdict, the
\* score rows keep the breakdown locked, and the department head's queue and packet
\* show the run behind each status and each decision.
THEOREM Workflow == TurnsSpec => []TurnsWorkflow
<1>1. IInv /\ (turns => Turns) => TurnsWorkflow
  <2> SUFFICES ASSUME IInv, Turns
               PROVE  StatusFollowsVerdict /\ LockedWhileScored /\ QueueFits
    BY DEF TurnsWorkflow
  <2>1. Typed /\ RowsFit
    BY IInvTyped DEF Turns
  <2>2. LockedWhileScored
    BY <2>1 DEF RowsFit, SectionFits, LockedWhileScored
  <2> QED  BY <2>1, <2>2, TurnsVerdict, TurnsQueue
<1> QED  BY <1>1, TurnsInvariant, PTL

\* While requests take turns, no step changes an official Grade row.
THEOREM Locked == TurnsSpec => TurnsLocked
<1> DEFINE Inv == IInv /\ (turns => Turns)
           Keeps == turns => KeepsOfficial
<1>1. Inv /\ [TurnsNext]_<<vars, turns>> => [Keeps]_<<vars, turns>>
  <2> SUFFICES ASSUME IInv, Turns, turns, TurnsNext PROVE KeepsOfficial
    OBVIOUS
  <2>1. Next /\ OneAtATime' /\ roster' = roster
    BY DEF TurnsNext
  <2> QED  BY <2>1, NextTurns
<1>2. TurnsSpec => []Inv
  BY TurnsInvariant
<1> HIDE DEF Inv, Keeps
<1>3. TurnsSpec => [][Keeps]_<<vars, turns>>
  BY <1>1, <1>2, PTL DEF TurnsSpec
<1> QED  BY <1>3 DEF TurnsLocked, Keeps

-----------------------------------------------------------------------------
(***************************************************************************)
(* The evidence of the grading monitor (GradeEvidence, GradeClass): totals *)
(* and letters, sums and counts, outliers, and the roster that moves.      *)
(***************************************************************************)
\* A whole number of parts of a percent goes to each point of a component.
LEMMA ComponentTypes ==
    /\ IsFiniteSet(DOMAIN Components)
    /\ \A i \in DOMAIN Components :
          /\ Components[i].weight \in Nat \ {0} /\ Components[i].max \in Nat \ {0}
          /\ Unit \div Components[i].max \in Nat
          /\ (Unit \div Components[i].max) * Components[i].max = Unit
<1>1. IsFiniteSet(DOMAIN Components)
  <2>1. DOMAIN Components = 1..Len(Components) /\ Len(Components) \in Nat
    BY GradeEvidenceAssumption
  <2> QED  BY <2>1, FS_Interval
<1>2. SUFFICES ASSUME NEW i \in DOMAIN Components
               PROVE  /\ Components[i].weight \in Nat \ {0} /\ Components[i].max \in Nat \ {0}
                      /\ Unit \div Components[i].max \in Nat
                      /\ (Unit \div Components[i].max) * Components[i].max = Unit
  BY <1>1
<1>3. Components[i] \in [weight : Nat \ {0}, max : Nat \ {0}]
  <2> DEFINE R == [weight : Nat \ {0}, max : Nat \ {0}]
  <2>1. Components \in Seq(R)
    BY GradeEvidenceAssumption
  <2> HIDE DEF R
  <2>2. Components[i] \in R
    BY <2>1
  <2> QED  BY <2>2 DEF R
<1>4. PICK k \in 1..Unit : Unit = k * Components[i].max
  BY GradeEvidenceAssumption
<1>5. \A m \in Nat \ {0}, j \in Nat : (j * m) \div m = j
  OBVIOUS
<1>6. Unit \div Components[i].max = k
  BY <1>3, <1>4, <1>5
<1> QED
  BY <1>3, <1>4, <1>6, GradeEvidenceAssumption

\* A cell is worth at most the weight of its component.
LEMMA ShareTypes ==
    ASSUME NEW cl, IsClass(cl), NEW s, NEW i \in Filled(cl, s)
    PROVE  /\ i \in DOMAIN Components
           /\ Share(cl, s, i) \in Nat /\ Share(cl, s, i) <= Unit
           /\ Components[i].weight * Share(cl, s, i) \in Nat
           /\ Components[i].weight * Share(cl, s, i) <= Components[i].weight * Unit
<1> DEFINE r == cl.raw[s][i]
           u == Unit \div Components[i].max
           m == Components[i].max
           w == Components[i].weight
<1>1. i \in DOMAIN Components /\ s \in DOMAIN cl.raw /\ r # Empty
  BY DEF Filled
<1>2. r \in Nat /\ r <= m
  BY <1>1 DEF IsClass, IsRow
<1>3. m \in Nat /\ w \in Nat /\ u \in Nat /\ u * m = Unit
  BY <1>1, ComponentTypes
<1>4. Share(cl, s, i) = r * u
  BY DEF Share
<1> HIDE DEF r, u, m, w
<1>5. \A p, q, t \in Nat : p <= q => p * t \in Nat /\ t * p \in Nat /\ p * t <= t * q /\ t * p <= t * q
  OBVIOUS
<1>6. r * u \in Nat /\ r * u <= Unit
  BY <1>2, <1>3, <1>5
<1>7. Unit \in Nat
  BY GradeEvidenceAssumption
<1>8. w * (r * u) \in Nat /\ w * (r * u) <= w * Unit
  BY <1>3, <1>5, <1>6, <1>7
<1> QED
  BY <1>1, <1>4, <1>6, <1>8 DEF w

\* A total lies between 0 and 100 percent.
LEMMA ScoreTypes ==
    ASSUME NEW cl, IsClass(cl), NEW s
    PROVE  /\ Weighted(cl, s) \in Nat
           /\ numeric_score(cl, s) \in Nat /\ numeric_score(cl, s) <= 100 * Unit
<1> DEFINE S == Filled(cl, s)
           f == [i \in S |-> Components[i].weight * Share(cl, s, i)]
<1>1. IsFiniteSet(S)
  BY ComponentTypes, FS_Subset DEF Filled
<1>2. \A i \in S : f[i] \in Nat
  BY ShareTypes
<1>3. Weighted(cl, s) = SumFunctionOnSet(f, S)
  BY DEF Weighted, SumFunction
<1> HIDE DEF f, S
<1>4. Weighted(cl, s) \in Nat
  BY <1>1, <1>2, <1>3, SumNat
<1> QED
  BY <1>4, GradeEvidenceAssumption DEF numeric_score

\* The letter of a whole percent and of the one below differ at a bound only.
LEMMA NextRow ==
    ASSUME NEW n \in Int, Rung(n) # Rung(n - 1)
    PROVE  \E i \in 1..(Len(LETTER_CUTOFFS) - 1) :
              n = LETTER_CUTOFFS[i][1] /\ Rung(n - 1) = LETTER_CUTOFFS[i + 1][2]
<1>0. n \in {90, 83, 80, 75, 68, 65, 60, 50, 45, 40}
  <2> SUFFICES ASSUME n \notin {90, 83, 80, 75, 68, 65, 60, 50, 45, 40} PROVE FALSE
    OBVIOUS
  <2>1. \A b \in {90, 83, 80, 75, 68, 65, 60, 50, 45, 40} : n >= b <=> n - 1 >= b
    OBVIOUS
  <2> QED  BY <2>1 DEF Rung
<1>1. \/ n = 90 /\ Rung(n - 1) = "A"
      \/ n = 83 /\ Rung(n - 1) = "A-"
      \/ n = 80 /\ Rung(n - 1) = "B+"
      \/ n = 75 /\ Rung(n - 1) = "B"
      \/ n = 68 /\ Rung(n - 1) = "B-"
      \/ n = 65 /\ Rung(n - 1) = "C+"
      \/ n = 60 /\ Rung(n - 1) = "C"
      \/ n = 50 /\ Rung(n - 1) = "C-"
      \/ n = 45 /\ Rung(n - 1) = "D"
      \/ n = 40 /\ Rung(n - 1) = "F"
  BY <1>0 DEF Rung
<1>2. Len(LETTER_CUTOFFS) = 11
  BY DEF LETTER_CUTOFFS
<1>3. \E i \in 1..10 : n = LETTER_CUTOFFS[i][1] /\ Rung(n - 1) = LETTER_CUTOFFS[i + 1][2]
  BY <1>1 DEF LETTER_CUTOFFS
<1> QED  BY <1>2, <1>3

\* The sum that falls short of its total costs a letter on a bound only.
LEMMA FromTable ==
    ASSUME NEW cl, IsClass(cl), NEW stored,
           \A s \in DOMAIN stored : stored[s] = Outcome(cl, s)
    PROVE  LettersFromTable(cl, stored)
<1> SUFFICES ASSUME NEW s \in DOMAIN stored,
                    stored[s].letter # letter_for_numeric(stored[s].numeric \div Unit)
             PROVE  /\ s \in cl.short
                    /\ \E i \in 1..(Len(LETTER_CUTOFFS) - 1) :
                          /\ stored[s].numeric = LETTER_CUTOFFS[i][1] * Unit
                          /\ stored[s].letter = LETTER_CUTOFFS[i + 1][2]
  BY DEF LettersFromTable
<1> DEFINE n == numeric_score(cl, s)
           q == n \div Unit
           p == (n - 1) \div Unit
<1>1. n \in Nat /\ Unit \in Nat \ {0}
  BY ScoreTypes, GradeEvidenceAssumption
<1>2. q \in Int /\ p \in Int
  BY <1>1
<1>3. p = q \/ (p = q - 1 /\ n = q * Unit)
  <2>1. \A k \in Nat, u \in Nat \ {0} :
           \/ (k - 1) \div u = k \div u
           \/ (k - 1) \div u = k \div u - 1 /\ k = (k \div u) * u
    <3> TAKE k \in Nat, u \in Nat \ {0}
    <3>1. PICK m \in Int, r \in 0..(u - 1) : k = u * m + r /\ m = k \div u
      OBVIOUS
    <3>2. ASSUME NEW a \in Int, NEW b \in Int, NEW c \in 0..(u - 1), a = u * b + c
          PROVE  a \div u = b
      BY <3>2
    <3>3. CASE r = 0
      <4>1. k - 1 = u * (m - 1) + (u - 1)
        BY <3>1, <3>3
      <4>2. (k - 1) \div u = m - 1
        BY <3>2, <4>1
      <4>3. k = m * u
        BY <3>1, <3>3
      <4> QED  BY <3>1, <4>2, <4>3
    <3>4. CASE r # 0
      <4>1. k - 1 = u * m + (r - 1) /\ r - 1 \in 0..(u - 1)
        BY <3>1, <3>4
      <4>2. (k - 1) \div u = m
        BY <3>2, <4>1
      <4>3. m = k \div u
        BY <3>1
      <4> QED  BY <4>2, <4>3
    <3> QED  BY <3>3, <3>4
  <2> QED  BY <1>1, <2>1
<1>4. /\ stored[s].numeric = n
      /\ stored[s].letter = IF s \in cl.short THEN letter_for_numeric(p) ELSE letter_for_numeric(q)
  <2>1. n - 0 = n
    BY <1>1
  <2> QED  BY <2>1 DEF Outcome, letter_grade
<1> HIDE DEF n, p, q
<1>5. letter_for_numeric(p) = Rung(p) /\ letter_for_numeric(q) = Rung(q)
  BY <1>2, LetterIsRung
<1>6. s \in cl.short /\ stored[s].letter = Rung(p) /\ Rung(p) # Rung(q)
  BY <1>4, <1>5 DEF q
<1>7. p = q - 1 /\ n = q * Unit
  BY <1>3, <1>6
<1>8. PICK i \in 1..(Len(LETTER_CUTOFFS) - 1) :
         q = LETTER_CUTOFFS[i][1] /\ Rung(q - 1) = LETTER_CUTOFFS[i + 1][2]
  BY <1>2, <1>6, <1>7, NextRow
<1> QED  BY <1>4, <1>6, <1>7, <1>8

\* The evidence has a row for whoever is on the roster with a full set of cells.
LEMMA PerStudent ==
    ASSUME NEW cl, IsClass(cl)
    PROVE  /\ DOMAIN per_student(cl) = {m \in cl.roster : Complete(cl, m)}
           /\ IsFiniteSet(DOMAIN per_student(cl)) /\ IsFiniteSet(cl.roster)
           /\ \A s \in DOMAIN per_student(cl) :
                 /\ per_student(cl)[s] = Outcome(cl, s)
                 /\ per_student(cl)[s].numeric = numeric_score(cl, s)
                 /\ per_student(cl)[s].numeric \in Nat
                 /\ per_student(cl)[s].numeric <= 100 * Unit
<1>1. DOMAIN per_student(cl) = {m \in cl.roster : Complete(cl, m)}
  BY DEF per_student
<1>2. IsFiniteSet(cl.roster)
  BY DEF IsClass
<1>3. IsFiniteSet(DOMAIN per_student(cl))
  BY <1>1, <1>2, FS_Subset
<1>4. \A s \in DOMAIN per_student(cl) : per_student(cl)[s] = Outcome(cl, s)
  BY <1>1 DEF per_student
<1>5. \A s : Outcome(cl, s).numeric = numeric_score(cl, s)
  BY DEF Outcome
<1> QED
  BY <1>1, <1>2, <1>3, <1>4, <1>5, ScoreTypes

\* Grade rows that are the outcomes of full sets of cells are what is shown of
\* their students.
LEMMA StoredIsShown ==
    ASSUME NEW cl, IsClass(cl), NEW stored,
           \A s \in DOMAIN stored : Complete(cl, s) /\ stored[s] = Outcome(cl, s)
    PROVE  EvidenceIsStored(cl, stored)
<1>1. DOMAIN list_missing_entries(cl) = {m \in cl.roster : ~Complete(cl, m)}
  BY DEF list_missing_entries
<1>2. /\ compile_context(cl).per_student = per_student(cl)
      /\ compile_context(cl).missing = list_missing_entries(cl)
  BY DEF compile_context
<1> QED
  BY <1>1, <1>2, PerStudent DEF EvidenceIsStored

\* Everybody of the roster is either in the statistics or reported as missing.
LEMMA RosterCounted ==
    ASSUME NEW cl, IsClass(cl)
    PROVE  Cardinality(DOMAIN per_student(cl)) + Cardinality(DOMAIN list_missing_entries(cl))
             = Cardinality(cl.roster)
<1> DEFINE P == DOMAIN per_student(cl)
           M == DOMAIN list_missing_entries(cl)
<1>1. P \cap M = {} /\ P \cup M = cl.roster
  BY PerStudent DEF list_missing_entries
<1>2. IsFiniteSet(P) /\ IsFiniteSet(M)
  <2>1. M \in SUBSET cl.roster
    BY <1>1
  <2> QED  BY <2>1, PerStudent, FS_Subset
<1> HIDE DEF P, M
<1>3. Cardinality(P \cup M) = Cardinality(P) + Cardinality(M) - Cardinality(P \cap M)
  BY <1>2, FS_Union
<1>4. Cardinality(P) \in Nat /\ Cardinality(M) \in Nat /\ Cardinality(P \cap M) = 0
  BY <1>1, <1>2, FS_CardinalityType, FS_EmptySet
<1>5. Cardinality(P \cup M) = Cardinality(cl.roster)
  BY <1>1
<1>6. Cardinality(P) + Cardinality(M) = Cardinality(cl.roster)
  BY <1>3, <1>4, <1>5
<1> QED
  BY <1>6 DEF P, M

\* There are as many letters as the table has rows.
LEMMA LettersFinite == \A L \in SUBSET NumericLetters : IsFiniteSet(L)
<1> DEFINE f == [i \in 1..11 |-> LETTER_CUTOFFS[i][2]]
<1>1. f \in [1..11 -> NumericLetters] /\ \A l \in NumericLetters : \E i \in 1..11 : f[i] = l
  <2>1. \A i \in 1..11 : f[i] \in NumericLetters
    BY DEF LETTER_CUTOFFS, NumericLetters
  <2>2. \A l \in NumericLetters : \E i \in 1..11 : LETTER_CUTOFFS[i][2] = l
    BY DEF LETTER_CUTOFFS, NumericLetters
  <2> QED  BY <2>1, <2>2
<1>2. IsFiniteSet(1..11)
  <2>1. \A n \in Int : IsFiniteSet(1..n)
    BY FS_Interval
  <2>2. 11 \in Int
    OBVIOUS
  <2> QED  BY <2>1, <2>2, Zenon
<1> HIDE DEF f
<1>3. IsFiniteSet(NumericLetters)
  BY <1>1, <1>2, Images
<1> QED
  BY <1>3, FS_Subset

\* The bars of some letters hold whoever has one of them, each once.
LEMMA Histogram ==
    ASSUME NEW cl, IsClass(cl), NEW L \in SUBSET NumericLetters
    PROVE  SumFunctionOnSet(compute_letter_distribution(per_student(cl)), L) =
             Cardinality({s \in DOMAIN per_student(cl) :
                             Rung(per_student(cl)[s].numeric \div Unit) \in L})
<1> DEFINE P == DOMAIN per_student(cl)
           q(s) == per_student(cl)[s].numeric \div Unit
           f == [s \in P |-> Rung(q(s))]
           g == compute_letter_distribution(per_student(cl))
<1>1. \A s \in P : q(s) \in Int
  <2>1. \A n \in Nat, u \in Nat \ {0} : n \div u \in Int
    OBVIOUS
  <2> QED  BY <2>1, PerStudent, GradeEvidenceAssumption
<1>2. \A s \in P : letter_for_numeric(q(s)) = Rung(q(s))
  BY <1>1, LetterIsRung
<1>3. \A l \in L : Fibre(P, f, l) = {s \in P : letter_for_numeric(q(s)) = l}
  BY <1>2 DEF Fibre
<1>4. \A l \in L : g[l] = Cardinality({s \in P : letter_for_numeric(q(s)) = l})
  BY DEF compute_letter_distribution
<1>5. \A l \in L : g[l] = Cardinality(Fibre(P, f, l))
  BY <1>3, <1>4
<1>6. Over(P, f, L) = {s \in P : Rung(q(s)) \in L}
  BY DEF Over
<1>7. IsFiniteSet(P) /\ IsFiniteSet(L)
  BY PerStudent, LettersFinite
<1>8. SumFunctionOnSet(g, L) = Cardinality(Over(P, f, L))
  <2> HIDE DEF P, f, g
  <2> QED  BY <1>5, <1>7, SumFibres
<1> QED
  BY <1>6, <1>8

\* The histogram holds every student of the statistics, its bars from C on those
\* who have passed: the pass mark of 50 percent is the cut-off of the C.
LEMMA HistogramAgrees ==
    ASSUME NEW cl, IsClass(cl)
    PROVE  LET ps == per_student(cl)
               d  == compute_letter_distribution(ps)
           IN  /\ SumFunctionOnSet(d, NumericLetters) = Cardinality(DOMAIN ps)
               /\ pass_count(ps) = SumFunctionOnSet(d, NumericLetters \ {"C-", "D", "F"})
<1> DEFINE ps == per_student(cl)
           d == compute_letter_distribution(ps)
           q(s) == ps[s].numeric \div Unit
           passing == NumericLetters \ {"C-", "D", "F"}
<1>1. \A s \in DOMAIN ps : /\ ps[s].numeric \in Nat /\ q(s) \in Int
                           /\ (q(s) >= 50) <=> ps[s].numeric >= 50 * Unit
  <2>1. \A n \in Nat, u \in Nat \ {0} : n \div u \in Int /\ ((n \div u >= 50) <=> n >= 50 * u)
    OBVIOUS
  <2> QED  BY <2>1, PerStudent, GradeEvidenceAssumption
<1>2. \A s \in DOMAIN ps : /\ Rung(q(s)) \in NumericLetters
                           /\ (Rung(q(s)) \in passing) <=> (q(s) >= 50)
  BY <1>1, RungIsLetter
<1>3. SumFunctionOnSet(d, NumericLetters) =
        Cardinality({s \in DOMAIN ps : Rung(q(s)) \in NumericLetters})
  BY Histogram
<1>4. SumFunctionOnSet(d, passing) = Cardinality({s \in DOMAIN ps : Rung(q(s)) \in passing})
  <2>1. passing \in SUBSET NumericLetters
    OBVIOUS
  <2> HIDE DEF passing
  <2> QED  BY <2>1, Histogram
<1>5. {s \in DOMAIN ps : Rung(q(s)) \in NumericLetters} = DOMAIN ps
  BY <1>2
<1>6. {s \in DOMAIN ps : Rung(q(s)) \in passing} = {s \in DOMAIN ps : ps[s].numeric >= 50 * Unit}
  BY <1>1, <1>2
<1> QED
  BY <1>3, <1>4, <1>5, <1>6 DEF pass_count

\* Weights that sum to 100 keep a full set of cells within 100 percent: the clamp
\* never cuts a score.
LEMMA FullScore ==
    ASSUME NEW cl, IsClass(cl), NEW s, Complete(cl, s), check_breakdown_integrity
    PROVE  numeric_score(cl, s) =
             SumFunctionOnSet([i \in DOMAIN Components |-> Components[i].weight * Share(cl, s, i)],
                              DOMAIN Components)
<1> DEFINE C == DOMAIN Components
           f == [i \in C |-> Components[i].weight * Share(cl, s, i)]
           g == [i \in C |-> Components[i].weight * Unit]
           w == [i \in C |-> Components[i].weight]
<1>1. Weighted(cl, s) = SumFunctionOnSet(f, C)
  BY DEF Weighted, SumFunction, Complete
<1>2. \A i \in C : /\ f[i] \in Int /\ g[i] \in Int /\ f[i] <= g[i]
                   /\ w[i] \in Int /\ g[i] = Unit * w[i]
  <2> TAKE i \in C
  <2>1. i \in Filled(cl, s)
    BY DEF Complete
  <2>2. f[i] \in Nat /\ f[i] <= g[i]
    BY <2>1, ShareTypes
  <2>3. w[i] \in Int /\ Unit \in Int
    BY ComponentTypes, GradeEvidenceAssumption
  <2>4. g[i] \in Int /\ g[i] = Unit * w[i]
    BY <2>3
  <2> QED  BY <2>2, <2>3, <2>4
<1>3. SumFunctionOnSet(w, C) = 100
  BY DEF check_breakdown_integrity, SumFunction
<1>4. IsFiniteSet(C) /\ Unit \in Int
  BY ComponentTypes, GradeEvidenceAssumption
<1> HIDE DEF f, g, w, C
<1>5. SumFunctionOnSet(f, C) <= SumFunctionOnSet(g, C)
  BY <1>2, <1>4, SumMonotone
<1>6. SumFunctionOnSet(g, C) = Unit * SumFunctionOnSet(w, C)
  BY <1>2, <1>4, SumScale
<1>7. SumFunctionOnSet(g, C) = 100 * Unit
  BY <1>3, <1>4, <1>6
<1>8. Weighted(cl, s) \in Nat /\ Weighted(cl, s) <= 100 * Unit
  BY <1>1, <1>5, <1>7, ScoreTypes
<1>9. numeric_score(cl, s) = SumFunctionOnSet(f, C)
  BY <1>1, <1>8, <1>4 DEF numeric_score
<1> QED
  BY <1>9 DEF f, C

\* Added up by student or by component: the same total.
LEMMA ComponentsMakeUp ==
    ASSUME NEW cl, IsClass(cl), \A s \in cl.roster : Complete(cl, s), check_breakdown_integrity
    PROVE  100 * compute_class_statistics(per_student(cl)).total =
             SumFunction([i \in DOMAIN Components |->
                             Components[i].weight * compute_component_statistics(cl, i).total])
<1> DEFINE C == DOMAIN Components
           R == cl.roster
           w(i) == Components[i].weight
           f == [p \in R \X C |-> w(p[2]) * Share(cl, p[1], p[2])]
           total == [s \in R |-> numeric_score(cl, s)]
           share(i) == [s \in R |-> Share(cl, s, i)]
           hundred(i) == [s \in R |-> 100 * Share(cl, s, i)]
           of == [i \in C |-> w(i) * compute_component_statistics(cl, i).total]
<1>1. IsFiniteSet(R) /\ IsFiniteSet(C) /\ DOMAIN per_student(cl) = R
  BY PerStudent, ComponentTypes
<1>2. \A s \in R, i \in C : /\ i \in Filled(cl, s) /\ Share(cl, s, i) \in Int
                            /\ f[<<s, i>>] = w(i) * Share(cl, s, i) /\ f[<<s, i>>] \in Int
  <2> TAKE s \in R, i \in C
  <2>1. i \in Filled(cl, s)
    BY DEF Complete
  <2>2. Share(cl, s, i) \in Nat /\ w(i) * Share(cl, s, i) \in Nat
    BY <2>1, ShareTypes
  <2>3. f[<<s, i>>] = w(i) * Share(cl, s, i)
    OBVIOUS
  <2> QED  BY <2>1, <2>2, <2>3
<1>3. \A i \in C : w(i) \in Int
  BY ComponentTypes
<1>4. \A s \in R : total[s] = SumFunctionOnSet(Row(f, s, C), C)
  <2> TAKE s \in R
  <2>1. Row(f, s, C) = [i \in C |-> Components[i].weight * Share(cl, s, i)]
    BY <1>2 DEF Row
  <2>2. Complete(cl, s)
    OBVIOUS
  <2>3. numeric_score(cl, s) =
          SumFunctionOnSet([i \in C |-> Components[i].weight * Share(cl, s, i)], C)
    BY <2>2, FullScore
  <2>4. total[s] = numeric_score(cl, s)
    OBVIOUS
  <2> HIDE DEF f, total
  <2> QED  BY <2>1, <2>3, <2>4
<1>5. SumFunctionOnSet(total, R) = SumFunctionOnSet(Columns(f, R, C, R), C)
  <2> HIDE DEF f, total, R, C
  <2> QED  BY <1>1, <1>2, <1>4, SumSwap
<1>6. compute_class_statistics(per_student(cl)).total = SumFunctionOnSet(total, R)
  <2>1. [s \in R |-> per_student(cl)[s].numeric] = total
    BY <1>1, PerStudent
  <2>2. compute_class_statistics(per_student(cl)).total
          = SumFunction([s \in R |-> per_student(cl)[s].numeric])
    BY <1>1 DEF compute_class_statistics, Describe
  <2> HIDE DEF R
  <2>3. SumFunction(total) = SumFunctionOnSet(total, R)
    BY DEF SumFunction
  <2> QED  BY <2>1, <2>2, <2>3
<1>7. \A i \in C : of[i] = 100 * Columns(f, R, C, R)[i] /\ Columns(f, R, C, R)[i] \in Int
  <2> TAKE i \in C
  <2>1. {m \in cl.roster : i \in Filled(cl, m)} = R
    BY <1>2
  <2>2. compute_component_statistics(cl, i).total = SumFunctionOnSet(hundred(i), R)
    BY <2>1 DEF compute_component_statistics, Describe, SumFunction
  <2>3. \A s \in R : /\ share(i)[s] \in Int /\ hundred(i)[s] = 100 * share(i)[s]
                     /\ Column(f, i, R)[s] = w(i) * share(i)[s]
    BY <1>2 DEF Column
  <2>4. Columns(f, R, C, R)[i] = SumFunctionOnSet(Column(f, i, R), R)
    BY DEF Columns
  <2>5. of[i] = w(i) * compute_component_statistics(cl, i).total
    OBVIOUS
  <2>6. w(i) \in Int /\ 100 \in Int
    BY <1>3
  <2> HIDE DEF share, hundred, w, of, f, R, C
  <2>7. SumFunctionOnSet(hundred(i), R) = 100 * SumFunctionOnSet(share(i), R)
    BY <1>1, <2>3, <2>6, SumScale
  <2>8. SumFunctionOnSet(Column(f, i, R), R) = w(i) * SumFunctionOnSet(share(i), R)
    BY <1>1, <2>3, <2>6, SumScale
  <2>9. SumFunctionOnSet(share(i), R) \in Int
    BY <1>1, <2>3, SumType
  <2>10. \A p, q \in Int : p * q \in Int /\ p * (100 * q) = 100 * (p * q)
    OBVIOUS
  <2> QED  BY <2>2, <2>4, <2>5, <2>6, <2>7, <2>8, <2>9, <2>10
<1>8. SumFunctionOnSet(of, C) = 100 * SumFunctionOnSet(Columns(f, R, C, R), C)
  <2> DEFINE cols == Columns(f, R, C, R)
  <2>1. \A i \in C : cols[i] \in Int /\ of[i] = 100 * cols[i]
    BY <1>7
  <2>2. 100 \in Int
    OBVIOUS
  <2> HIDE DEF cols, of, C
  <2>3. SumFunctionOnSet(of, C) = 100 * SumFunctionOnSet(cols, C)
    BY <1>1, <2>1, <2>2, SumScale
  <2> QED  BY <2>3 DEF cols
<1>9. SumFunction(of) = SumFunctionOnSet(of, C)
  <2> HIDE DEF C
  <2> QED  BY DEF SumFunction
<1> QED
  BY <1>5, <1>6, <1>8, <1>9

\* The clusters hold whoever shares a score with somebody, each once.
LEMMA ClustersCount ==
    ASSUME NEW ps, IsFiniteSet(DOMAIN ps)
    PROVE  SumFunction([c \in find_identical_score_clusters(ps) |-> c.count]) =
             Cardinality({s \in DOMAIN ps : \E t \in DOMAIN ps \ {s} : ps[t].numeric = ps[s].numeric})
<1> DEFINE P == DOMAIN ps
           C == find_identical_score_clusters(ps)
           of(v) == {s \in P : ps[s].numeric = v}
           record(v) == [score |-> v, count |-> Cardinality(of(v))]
           f == [s \in P |-> record(ps[s].numeric)]
           shared == {s \in P : f[s] \in C}
           g == [c \in C |-> c.count]
<1>1. C = {c \in {record(v) : v \in {ps[s].numeric : s \in P}} : c.count >= 2}
  BY DEF find_identical_score_clusters
<1>2. C \in SUBSET {f[s] : s \in P}
  <2> SUFFICES ASSUME NEW c \in C PROVE \E s \in P : c = f[s]
    OBVIOUS
  <2>1. PICK s \in P : c = record(ps[s].numeric)
    BY <1>1
  <2> QED  BY <2>1
<1>3. \A v, u : record(v) = record(u) => v = u
  OBVIOUS
<1>4. IsFiniteSet(C)
  <2> DEFINE T == {f[s] : s \in P}
  <2>1. f \in [P -> T] /\ \A y \in T : \E s \in P : f[s] = y
    OBVIOUS
  <2>2. IsFiniteSet(T)
    <3>1. IsFiniteSet(P)
      OBVIOUS
    <3> HIDE DEF f, T, P
    <3> QED  BY <2>1, <3>1, Images
  <2> QED  BY <1>2, <2>2, FS_Subset
<1>5. \A c \in C : g[c] = Cardinality(Fibre(P, f, c))
  <2> TAKE c \in C
  <2>1. PICK v \in {ps[s].numeric : s \in P} : c = record(v)
    BY <1>1
  <2>2. Fibre(P, f, c) = of(v)
    BY <2>1, <1>3 DEF Fibre
  <2>3. g[c] = Cardinality(of(v))
    BY <2>1
  <2> QED  BY <2>2, <2>3
<1>6. SumFunctionOnSet(g, C) = Cardinality(Over(P, f, C))
  <2>1. IsFiniteSet(P)
    OBVIOUS
  <2> HIDE DEF P, C, f, g
  <2> QED  BY <1>4, <1>5, <2>1, SumFibres
<1>7. Over(P, f, C) = shared
  BY DEF Over
<1>8. \A s \in P : f[s] \in C <=> \E t \in P \ {s} : ps[t].numeric = ps[s].numeric
  <2> TAKE s \in P
  <2> DEFINE S == of(ps[s].numeric)
  <2>1. f[s] = record(ps[s].numeric) /\ f[s] \in {record(v) : v \in {ps[t].numeric : t \in P}}
    OBVIOUS
  <2>2. f[s] \in C <=> Cardinality(S) >= 2
    BY <2>1, <1>1
  <2>3. s \in S /\ IsFiniteSet(S)
    BY FS_Subset
  <2>4. (\E t \in P \ {s} : ps[t].numeric = ps[s].numeric) <=> S # {s}
    OBVIOUS
  <2> HIDE DEF S
  <2>5. Cardinality(S) \in Nat /\ (Cardinality(S) = 1 <=> \E x : S = {x}) /\ (Cardinality(S) = 0 <=> S = {})
    BY <2>3, FS_CardinalityType, FS_Singleton, FS_EmptySet
  <2>6. (Cardinality(S) >= 2) <=> S # {s}
    BY <2>3, <2>5
  <2> QED  BY <2>2, <2>4, <2>6
<1>9. shared = {s \in P : \E t \in P \ {s} : ps[t].numeric = ps[s].numeric}
  BY <1>8
<1>10. SumFunction(g) = SumFunctionOnSet(g, C)
  <2> HIDE DEF C
  <2> QED  BY DEF SumFunction
<1> QED
  BY <1>6, <1>7, <1>9, <1>10

\* The parts of the evidence are about the same students.
LEMMA EvidenceAdds ==
    ASSUME NEW cl, IsClass(cl)
    PROVE  EvidenceAddsUp(cl)
<1> DEFINE ctx == compile_context(cl)
           ps == per_student(cl)
<1>1. /\ ctx.per_student = ps
      /\ ctx.missing = list_missing_entries(cl)
      /\ ctx.roster = summarize_roster(cl)
      /\ ctx.sums_to_100 = check_breakdown_integrity
      /\ ctx.class_stats = compute_class_statistics(ps)
      /\ ctx.pass_count = pass_count(ps)
      /\ ctx.distribution = compute_letter_distribution(ps)
      /\ ctx.components = [i \in DOMAIN Components |-> compute_component_statistics(cl, i)]
      /\ ctx.identical_clusters = find_identical_score_clusters(ps)
  BY DEF compile_context
<1>2. /\ ctx.class_stats.n = Cardinality(DOMAIN ps)
      /\ ctx.roster.total = Cardinality(cl.roster)
  BY <1>1 DEF compute_class_statistics, Describe, summarize_roster
<1>3. ctx.class_stats.n + Cardinality(DOMAIN ctx.missing) = ctx.roster.total
  <2> HIDE DEF ctx, ps
  <2> QED  BY <1>1, <1>2, RosterCounted DEF ps
<1>4. /\ SumFunctionOnSet(ctx.distribution, NumericLetters) = ctx.class_stats.n
      /\ ctx.pass_count = SumFunctionOnSet(ctx.distribution, NumericLetters \ {"C-", "D", "F"})
  <2> HIDE DEF ctx
  <2> QED  BY <1>1, <1>2, HistogramAgrees
<1>5. ASSUME DOMAIN ctx.missing = {}, ctx.sums_to_100
      PROVE  100 * ctx.class_stats.total =
               SumFunction([i \in DOMAIN Components |->
                               Components[i].weight * ctx.components[i].total])
  <2>1. \A s \in cl.roster : Complete(cl, s)
    BY <1>1, <1>5 DEF list_missing_entries
  <2>2. [i \in DOMAIN Components |-> Components[i].weight * ctx.components[i].total]
          = [i \in DOMAIN Components |->
               Components[i].weight * compute_component_statistics(cl, i).total]
    BY <1>1
  <2> HIDE DEF ctx
  <2> QED  BY <1>1, <1>5, <2>1, <2>2, ComponentsMakeUp
<1>6. SumFunction([c \in ctx.identical_clusters |-> c.count]) =
        Cardinality({s \in DOMAIN ps : \E t \in DOMAIN ps \ {s} : ps[t].numeric = ps[s].numeric})
  <2>1. IsFiniteSet(DOMAIN ps)
    BY PerStudent
  <2> HIDE DEF ctx, ps
  <2> QED  BY <1>1, <2>1, ClustersCount
<1> HIDE DEF ctx, ps
<1> QED
  BY <1>1, <1>3, <1>4, <1>5, <1>6 DEF EvidenceAddsUp, ctx

\* A square is not negative.
LEMMA SquareExpands ==
    ASSUME NEW m \in Int, NEW x \in Int, NEW T \in Int
    PROVE  2 * m * T * x <= m * m * (x * x) + T * T * 1
<1> DEFINE d == m * x - T
<1>1. d * d = m * m * (x * x) - 2 * m * T * x + T * T
  OBVIOUS
<1>2. d * d >= 0
  <2>1. d \in Int
    OBVIOUS
  <2>2. \A e \in Int : e * e >= 0
    OBVIOUS
  <2> QED  BY <2>1, <2>2
<1> QED
  BY <1>1, <1>2

\* A positive factor on both sides cancels.
LEMMA FactorCancels ==
    ASSUME NEW m \in Nat \ {0}, NEW T \in Int, NEW Q \in Int,
           2 * m * T * T <= m * m * Q + T * T * m
    PROVE  T * T <= m * Q
<1> DEFINE p == T * T
           r == m * Q
<1>1. p \in Int /\ r \in Int /\ 2 * m * T * T = 2 * (m * p) /\ m * m * Q = m * r /\ T * T * m = m * p
  OBVIOUS
<1>2. m * p <= m * r
  BY <1>1
<1> HIDE DEF p, r
<1>3. \A k \in Nat \ {0}, a, b \in Int : k * a <= k * b => a <= b
  OBVIOUS
<1>4. p <= r
  BY <1>1, <1>2, <1>3
<1> QED
  BY <1>4 DEF p, r

\* One number x and m others, which sum to T and whose squares sum to Q: from the
\* mean inequality of the others, a bound for the distance of the one.
LEMMA Farthest ==
    ASSUME NEW m \in Nat, NEW x \in Int, NEW T \in Int, NEW Q \in Int, T * T <= m * Q
    PROVE  (m * x - T) * (m * x - T) <= m * ((m + 1) * (Q + x * x) - (T + x) * (T + x))
<1>1. m * ((m + 1) * (Q + x * x) - (T + x) * (T + x)) - (m * x - T) * (m * x - T)
        = (m + 1) * (m * Q - T * T)
  OBVIOUS
<1>2. \A k \in Nat, e \in Nat : k * e >= 0
  OBVIOUS
<1>3. m + 1 \in Nat /\ m * Q - T * T \in Nat
  OBVIOUS
<1>4. (m + 1) * (m * Q - T * T) >= 0
  BY <1>2, <1>3
<1> QED
  BY <1>1, <1>4

\* One of a set, and the others.
LEMMA SumApart ==
    ASSUME NEW f, NEW D, IsFiniteSet(D), \A t \in D : f[t] \in Int, NEW s \in D
    PROVE  SumFunctionOnSet(f, D) = f[s] + SumFunctionOnSet(f, D \ {s})
<1>1. D \in SUBSET D
  OBVIOUS
<1> QED
  BY <1>1, SumRemove

\* Nobody is farther from the mean than the root of n - 1 standard deviations
\* (Samuelson's inequality), counted as list_score_outliers counts.
LEMMA Deviation ==
    ASSUME NEW f, NEW D, IsFiniteSet(D), NEW s \in D, \A t \in D : f[t] \in Int,
           NEW sq, \A t \in D : sq[t] = f[t] * f[t], Cardinality(D) >= 2
    PROVE  LET n == Cardinality(D)
               sum == SumFunctionOnSet(f, D)
               spread == n * SumFunctionOnSet(sq, D) - sum * sum
               dist == n * f[s] - sum
           IN  dist * dist <= (n - 1) * spread
<1> DEFINE R == D \ {s}
           m == Cardinality(R)
           T == SumFunctionOnSet(f, R)
           Q == SumFunctionOnSet(sq, R)
           x == f[s]
           one == [t \in D |-> 1]
<1>1. IsFiniteSet(R) /\ Cardinality(D) \in Nat /\ m \in Nat \ {0} /\ Cardinality(D) = m + 1
  <2>1. Cardinality(R) = Cardinality(D) - 1 /\ IsFiniteSet(R)
    BY FS_RemoveElement
  <2>2. Cardinality(D) \in Nat
    BY FS_CardinalityType
  <2>3. \A c, d \in Nat : c >= 2 /\ d = c - 1 => d \in Nat \ {0} /\ c = d + 1
    OBVIOUS
  <2>4. Cardinality(R) \in Nat
    BY <2>1, FS_CardinalityType
  <2> HIDE DEF R
  <2> QED  BY <2>1, <2>2, <2>3, <2>4
<1>2. \A t \in D : sq[t] \in Int
  OBVIOUS
<1>3. T \in Int /\ Q \in Int /\ x \in Int
  BY <1>2, SumType
<1>4. SumFunctionOnSet(f, D) = x + T /\ SumFunctionOnSet(sq, D) = x * x + Q
  <2>1. SumFunctionOnSet(f, D) = f[s] + SumFunctionOnSet(f, D \ {s})
    BY SumApart
  <2> DEFINE g == sq
  <2>2. \A t \in D : g[t] \in Int
    BY <1>2
  <2> HIDE DEF g
  <2>3. SumFunctionOnSet(g, D) = g[s] + SumFunctionOnSet(g, D \ {s})
    BY <2>2, SumApart
  <2> QED  BY <2>1, <2>3 DEF g
<1>5. SumFunctionOnSet(one, R) = m
  <2>1. \A t \in R : one[t] = 1
    OBVIOUS
  <2>2. 1 \in Int
    OBVIOUS
  <2>3. SumFunctionOnSet(one, R) = 1 * Cardinality(R)
    <3> HIDE DEF one, R
    <3> QED  BY <1>1, <2>1, <2>2, SumOnes
  <2> QED  BY <2>3, <1>1
<1>6. (2 * m * T) * T <= (m * m) * Q + (T * T) * m
  <2>1. 2 * m * T \in Int /\ m * m \in Int /\ T * T \in Int
    BY <1>1, <1>3
  <2>2. \A t \in R : /\ f[t] \in Int /\ sq[t] \in Int /\ one[t] \in Int
                     /\ (2 * m * T) * f[t] <= (m * m) * sq[t] + (T * T) * one[t]
    <3> TAKE t \in R
    <3>1. f[t] \in Int /\ sq[t] = f[t] * f[t] /\ one[t] = 1 /\ m \in Int
      BY <1>1
    <3> HIDE DEF m, T, one
    <3>2. 2 * m * T * f[t] <= m * m * (f[t] * f[t]) + T * T * 1
      BY <3>1, <1>3, SquareExpands
    <3> QED  BY <3>1, <3>2
  <2>3. (2 * m * T) * SumFunctionOnSet(f, R)
          <= (m * m) * SumFunctionOnSet(sq, R) + (T * T) * SumFunctionOnSet(one, R)
    <3> DEFINE a == 2 * m * T
               b == m * m
               c == T * T
    <3>1. \A t \in R : /\ f[t] \in Int /\ sq[t] \in Int /\ one[t] \in Int
                       /\ a * f[t] <= b * sq[t] + c * one[t]
      BY <2>2
    <3>2. a \in Int /\ b \in Int /\ c \in Int
      BY <2>1
    <3> HIDE DEF a, b, c, one, R
    <3>3. a * SumFunctionOnSet(f, R) <= b * SumFunctionOnSet(sq, R) + c * SumFunctionOnSet(one, R)
      BY <1>1, <3>1, <3>2, SumLinear
    <3> QED  BY <3>3 DEF a, b, c
  <2> QED  BY <1>5, <2>3
<1>7. T * T <= m * Q
  <2> HIDE DEF m, T, Q
  <2> QED  BY <1>1, <1>3, <1>6, FactorCancels
<1>8. (m * x - T) * (m * x - T) <= m * ((m + 1) * (Q + x * x) - (T + x) * (T + x))
  <2> HIDE DEF m, T, Q, x
  <2> QED  BY <1>1, <1>3, <1>7, Farthest
<1>9. (m + 1) * x - (x + T) = m * x - T /\ (m + 1) - 1 = m /\ x * x + Q = Q + x * x /\ x + T = T + x
  <2> HIDE DEF m, T, Q, x
  <2> QED  BY <1>1, <1>3
<1> HIDE DEF m, T, Q, x
<1> QED
  BY <1>1, <1>4, <1>8, <1>9 DEF x

\* Of two numbers, the one above a mean is larger than the one below it.
LEMMA Ahead ==
    ASSUME NEW k \in Nat, NEW p \in Int, NEW q \in Int, NEW c \in Int,
           k * p - c < 0, k * q - c > 0
    PROVE  p < q
<1>1. k * p \in Int /\ k * q \in Int
  OBVIOUS
<1>2. k * p < k * q
  BY <1>1
<1>3. q <= p => k * q <= k * p
  OBVIOUS
<1> QED
  BY <1>2, <1>3

\* At 2.5 standard deviations an outlier needs a class of eight; one below the mean
\* has a lower score than one above.
LEMMA OutliersFollow ==
    ASSUME NEW cl, IsClass(cl)
    PROVE  OutliersPlausible(cl)
<1> DEFINE ps == per_student(cl)
           D == DOMAIN ps
           n == Cardinality(D)
           f == [s \in D |-> ps[s].numeric]
           sq == [s \in D |-> ps[s].numeric * ps[s].numeric]
           sum == SumFunctionOnSet(f, D)
           spread == n * SumFunctionOnSet(sq, D) - sum * sum
           dist == [s \in D |-> n * f[s] - sum]
           far == list_score_outliers(ps)
<1>1. IsFiniteSet(D) /\ n \in Nat /\ \A s \in D : /\ f[s] \in Int /\ ps[s].numeric = f[s]
                                                  /\ sq[s] = f[s] * f[s] /\ sq[s] \in Int
  <2>1. IsFiniteSet(D) /\ \A s \in D : ps[s].numeric \in Nat
    BY PerStudent
  <2>2. n \in Nat
    BY <2>1, FS_CardinalityType
  <2>3. \A k \in Nat : k * k \in Int
    OBVIOUS
  <2> HIDE DEF ps
  <2> QED  BY <2>1, <2>2, <2>3
<1>2. sum \in Int /\ spread \in Int /\ \A s \in D : dist[s] \in Int
  <2>1. sum \in Int /\ SumFunctionOnSet(sq, D) \in Int
    <3> HIDE DEF f, sq, D
    <3> QED  BY <1>1, SumType
  <2> HIDE DEF sum, f, sq
  <2> QED  BY <1>1, <2>1
<1>3. /\ far.below \subseteq {s \in D : /\ n >= 3 /\ spread # 0
                                        /\ 4 * dist[s] * dist[s] >= 25 * spread /\ dist[s] < 0}
      /\ far.above \subseteq {s \in D : /\ n >= 3 /\ spread # 0
                                        /\ 4 * dist[s] * dist[s] >= 25 * spread /\ dist[s] > 0}
  <2> DEFINE away == {s \in D : 4 * dist[s] * dist[s] >= 25 * spread}
  <2>1. far = IF n < 3 \/ spread = 0 THEN [below |-> {}, above |-> {}]
              ELSE [below |-> {s \in away : dist[s] < 0}, above |-> {s \in away : dist[s] > 0}]
    <3>1. SumFunction(f) = sum /\ SumFunction(sq) = SumFunctionOnSet(sq, D)
      BY DEF SumFunction
    <3>2. \A s \in D : n * ps[s].numeric = n * f[s]
      OBVIOUS
    <3>3. dist = [s \in D |-> n * ps[s].numeric - SumFunction([t \in D |-> ps[t].numeric])]
      BY <3>1, <3>2
    <3> QED  BY <3>1, <3>3 DEF list_score_outliers
  <2> HIDE DEF far, n, spread, dist, D
  <2> QED  BY <1>1, <2>1
<1>4. \A s \in D : n >= 2 => dist[s] * dist[s] <= (n - 1) * spread
  <2> SUFFICES ASSUME NEW s \in D, n >= 2 PROVE dist[s] * dist[s] <= (n - 1) * spread
    OBVIOUS
  <2>1. dist[s] = n * f[s] - sum
    OBVIOUS
  <2> HIDE DEF D, f, sq, dist
  <2> QED  BY <1>1, <2>1, Deviation
<1> HIDE DEF far, n, spread, dist, D, f, sq, sum
<1>5. ASSUME NEW s \in far.below \cup far.above
      PROVE  n >= 8
  <2>1. s \in D /\ n >= 3 /\ spread # 0 /\ 4 * dist[s] * dist[s] >= 25 * spread
    BY <1>3
  <2>2. dist[s] * dist[s] <= (n - 1) * spread /\ dist[s] \in Int
    BY <1>1, <1>2, <1>4, <2>1
  <2>3. \A k, e, d \in Int : k >= 2 /\ e # 0 /\ 4 * d * d >= 25 * e /\ d * d <= k * e => k >= 7
    <3> SUFFICES ASSUME NEW k \in Int, NEW e \in Int, NEW d \in Int,
                        k >= 2, e # 0, 4 * d * d >= 25 * e, d * d <= k * e, k <= 6
                 PROVE  FALSE
      OBVIOUS
    <3>1. d * d >= 0
      OBVIOUS
    <3>2. e > 0
      <4>1. \A p, q \in Int : p >= 2 /\ q < 0 => p * q < 0
        OBVIOUS
      <4> QED  BY <3>1, <4>1
    <3>3. k * e <= 6 * e
      <4>1. \A p, q \in Int : p <= 6 /\ q > 0 => p * q <= 6 * q
        OBVIOUS
      <4> QED  BY <3>2, <4>1
    <3>4. 4 * d * d = 4 * (d * d) /\ d * d \in Int /\ k * e \in Int
      OBVIOUS
    <3> QED  BY <3>1, <3>2, <3>3, <3>4
  <2>4. n - 1 >= 7
    <3>1. n - 1 \in Int /\ n - 1 >= 2
      BY <1>1, <2>1
    <3> QED  BY <1>2, <2>1, <2>2, <2>3, <3>1
  <2> QED  BY <1>1, <2>4
<1>6. ASSUME NEW s \in far.below, NEW t \in far.above
      PROVE  ps[s].numeric < ps[t].numeric
  <2>1. s \in D /\ t \in D /\ dist[s] < 0 /\ dist[t] > 0 /\ n >= 3
    BY <1>3
  <2>2. dist[s] = n * f[s] - sum /\ dist[t] = n * f[t] - sum
    BY <2>1 DEF dist
  <2>3. n * f[s] - sum < 0 /\ n * f[t] - sum > 0 /\ f[s] \in Int /\ f[t] \in Int
    BY <1>1, <2>1, <2>2
  <2>4. f[s] < f[t]
    BY <1>1, <1>2, <2>3, Ahead
  <2> QED  BY <1>1, <2>1, <2>4
<1> QED
  BY <1>5, <1>6 DEF OutliersPlausible, far, n, D

\* The inductive invariant: the stored rows are the outcomes of full sets of cells,
\* whoever is on the roster.
ClassInv ==
    /\ IsClass(class)
    /\ \A s \in DOMAIN outcomes : Complete(class, s) /\ outcomes[s] = Outcome(class, s)

\* Nothing of a student's total depends on who is on the roster.
LEMMA RosterAside ==
    ASSUME NEW cl, NEW dl, dl.raw = cl.raw, dl.short = cl.short, NEW s
    PROVE  (Complete(dl, s) <=> Complete(cl, s)) /\ Outcome(dl, s) = Outcome(cl, s)
<1>1. Filled(dl, s) = Filled(cl, s)
  BY DEF Filled
<1>2. \A i : Share(dl, s, i) = Share(cl, s, i)
  BY DEF Share
<1>3. Weighted(dl, s) = Weighted(cl, s)
  BY <1>1, <1>2 DEF Weighted
<1>4. numeric_score(dl, s) = numeric_score(cl, s)
  BY <1>3 DEF numeric_score
<1> QED
  BY <1>1, <1>4 DEF Complete, Outcome, letter_grade

\* The submission stores the outcome of every full set of cells.
LEMMA SubmittedClass == ClassInit => ClassInv
  BY DEF ClassInit, ClassInv, compute_outcomes

\* Leaving and joining change the roster and nothing of the cells.
LEMMA RosterMoves ==
    ASSUME ClassInv, NEW s, (s \in Enrolled /\ \E by_drop \in BOOLEAN : join(s, by_drop)) \/ leave(s)
    PROVE  IsClass(class') /\ class'.raw = class.raw /\ class'.short = class.short
<1>1. /\ class = [roster |-> class.roster, added |-> class.added, raw |-> class.raw, short |-> class.short]
      /\ class.roster \subseteq Enrolled /\ IsFiniteSet(class.roster)
      /\ class.added \subseteq class.roster
      /\ \A m \in DOMAIN class.raw : IsRow(class.raw[m])
  BY DEF ClassInv, IsClass
<1>2. CASE leave(s)
  <2>1. class' = [roster |-> class.roster \ {s}, added |-> class.added \ {s},
                  raw |-> class.raw, short |-> class.short]
    <3> DEFINE left == [class EXCEPT !.roster = class.roster \ {s}]
    <3>1. left = [roster |-> class.roster \ {s}, added |-> class.added,
                  raw |-> class.raw, short |-> class.short]
      BY <1>1
    <3>2. class' = [left EXCEPT !.added = left.added \ {s}]
      BY <1>2 DEF leave
    <3> HIDE DEF left
    <3> QED  BY <3>1, <3>2
  <2>2. IsFiniteSet(class.roster \ {s})
    BY <1>1, FS_RemoveElement
  <2> QED  BY <1>1, <2>1, <2>2 DEF IsClass
<1>3. ASSUME s \in Enrolled, NEW by_drop \in BOOLEAN, join(s, by_drop)
      PROVE  IsClass(class') /\ class'.raw = class.raw /\ class'.short = class.short
  <2> DEFINE now == IF by_drop THEN class.added \cup {s} ELSE class.added
  <2>1. class' = [roster |-> class.roster \cup {s}, added |-> now,
                  raw |-> class.raw, short |-> class.short]
    <3> DEFINE come == [class EXCEPT !.roster = class.roster \cup {s}]
    <3>1. come = [roster |-> class.roster \cup {s}, added |-> class.added,
                  raw |-> class.raw, short |-> class.short]
      BY <1>1
    <3>2. class' = [come EXCEPT !.added = IF by_drop THEN come.added \cup {s} ELSE come.added]
      BY <1>3 DEF join
    <3> HIDE DEF come
    <3> QED  BY <3>1, <3>2
  <2>2. IsFiniteSet(class.roster \cup {s})
    BY <1>1, FS_AddElement
  <2>3. now \subseteq class.roster \cup {s}
    BY <1>1
  <2> HIDE DEF now
  <2> QED  BY <1>1, <1>3, <2>1, <2>2, <2>3 DEF IsClass
<1> QED
  BY <1>2, <1>3

\* The stored outcomes stay what the locked cells make of them.
LEMMA ClassStep == ClassInv /\ [ClassNext]_classVars => ClassInv'
<1> SUFFICES ASSUME ClassInv, [ClassNext]_classVars PROVE ClassInv'
  OBVIOUS
<1>1. CASE UNCHANGED classVars
  BY <1>1 DEF ClassInv, classVars
<1>2. CASE ClassNext
  <2>1. UNCHANGED outcomes
    BY <1>2 DEF ClassNext
  <2>2. IsClass(class') /\ class'.raw = class.raw /\ class'.short = class.short
    BY <1>2, RosterMoves DEF ClassNext
  <2>3. \A s : (Complete(class', s) <=> Complete(class, s)) /\ Outcome(class', s) = Outcome(class, s)
    BY <2>2, RosterAside
  <2> QED  BY <2>1, <2>2, <2>3 DEF ClassInv
<1> QED
  BY <1>1, <1>2

\* What the monitor compiles from such a class is sound.
LEMMA EvidenceFollows == ClassInv => EvidenceSound
<1> SUFFICES ASSUME ClassInv PROVE EvidenceHonest(class, outcomes)
  BY DEF EvidenceSound
<1>1. IsClass(class) /\ \A s \in DOMAIN outcomes : Complete(class, s) /\ outcomes[s] = Outcome(class, s)
  BY DEF ClassInv
<1>2. LettersFromTable(class, outcomes)
  BY <1>1, FromTable
<1> QED
  BY <1>1, <1>2, StoredIsShown, EvidenceAdds, OutliersFollow DEF EvidenceHonest

\* However many students leave and join between the submission and the look of the
\* monitor: the evidence about a student of the submission is the stored Grade row,
\* its parts agree with each other, no outlier is one of a small class, and a letter
\* is off the table only where the sum of the doubles fell short of a bound.
THEOREM Evidence == ClassSpec => []EvidenceSound
<1>1. ClassSpec => []ClassInv
  BY SubmittedClass, ClassStep, PTL DEF ClassSpec
<1> QED
  BY <1>1, EvidenceFollows, PTL
=============================================================================
