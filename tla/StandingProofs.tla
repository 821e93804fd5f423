---------------------------- MODULE StandingProofs ----------------------------
(***************************************************************************)
(* Theorems about the rules engine and about the standing workflow, for    *)
(* any number of terms, courses and sessions, whatever requests overlap or *)
(* fail; about requests that take turns; about the documents that average  *)
(* the ledger of authorised grades; and about the advisor, who reads it.   *)
(***************************************************************************)
EXTENDS StandingTurns, AdvisoryTurns, SumLemmas, TLAPS

(***************************************************************************)
(* The rules.                                                              *)
(***************************************************************************)
\* evaluate_status returns one of the four statuses, whatever its input.
LEMMA VerdictType == ASSUME NEW ctx PROVE evaluate_status(ctx) \in Statuses
<1>1. CASE Held(ctx)
  BY <1>1 DEF evaluate_status, Statuses
<1>2. CASE ~Held(ctx) /\ Dismissed(ctx)
  BY <1>2 DEF evaluate_status, Statuses
<1>3. CASE ~Held(ctx) /\ ~Dismissed(ctx) /\ Warned(ctx)
  BY <1>3 DEF evaluate_status, Statuses
<1>4. CASE ~Held(ctx) /\ ~Dismissed(ctx) /\ ~Warned(ctx)
  BY <1>4 DEF evaluate_status, Statuses
<1> QED  BY <1>1, <1>2, <1>3, <1>4

\* Contexts of which the second has averages that are not lower and Fs that are
\* not more.
NoWorse(low, high) ==
    /\ low.held = high.held
    /\ low.term_credit_hours = high.term_credit_hours
    /\ low.is_first_semester = high.is_first_semester
    /\ low.is_first_year = high.is_first_year
    /\ low.prior_status = high.prior_status
    /\ low.sgpa <= high.sgpa /\ (low.sgpa = NoGPA <=> high.sgpa = NoGPA)
    /\ low.cgpa <= high.cgpa /\ (low.cgpa = NoGPA <=> high.cgpa = NoGPA)
    /\ high.f_count <= low.f_count /\ high.f_credit_total <= low.f_credit_total

ContextType(ctx) ==
    /\ ctx.sgpa \in Nat \cup {NoGPA} /\ ctx.cgpa \in Nat \cup {NoGPA}
    /\ ctx.f_count \in Nat /\ ctx.f_credit_total \in Nat /\ ctx.term_credit_hours \in Nat

\* Of two students the one with the averages that are not lower and the Fs that
\* are not more never gets the heavier verdict, in the same circumstances: the
\* first-match order of the overlapping thresholds of evaluate_status is sound.
THEOREM BetterRecordNeverHurts ==
  ASSUME NEW low, NEW high, NoWorse(low, high), ContextType(low), ContextType(high)
  PROVE  Severity(evaluate_status(high)) <= Severity(evaluate_status(low))
<1>1. Held(low) <=> Held(high)
  BY DEF Held, NoWorse
<1>2. Dismissed(high) => Dismissed(low)
  BY DEF Dismissed, NoWorse, ContextType, NoGPA
<1>3. Warned(high) => Warned(low) \/ Dismissed(low)
  <2>1. Warned(high) => \/ high.sgpa < 17500 \/ high.cgpa < 20000
                        \/ high.f_count \in 1..3 /\ high.term_credit_hours <= 15
    BY DEF Warned
  <2>2. high.sgpa < 17500 \/ high.cgpa < 20000 => low.sgpa < 17500 \/ low.cgpa < 20000
    BY DEF NoWorse, ContextType, NoGPA
  <2>3. high.f_count \in 1..3 /\ high.term_credit_hours <= 15
        => \/ low.f_count \in 1..3 /\ low.term_credit_hours <= 15
           \/ low.f_count > 3
    BY DEF NoWorse, ContextType
  <2>4. low.f_count > 3 => Dismissed(low)
    BY DEF Dismissed
  <2> QED  BY <2>1, <2>2, <2>3, <2>4 DEF Warned
<1> HIDE DEF Held, Dismissed, Warned
<1>4. CASE Held(low)
  BY <1>1, <1>4 DEF evaluate_status, Severity
<1>5. CASE ~Held(low) /\ Dismissed(low)
  <2>1. Severity(evaluate_status(low)) = 2
    BY <1>5 DEF evaluate_status, Severity
  <2>2. Severity(evaluate_status(high)) \in 0..2
    BY VerdictType DEF Severity, Statuses
  <2> QED  BY <2>1, <2>2
<1>6. CASE ~Held(low) /\ ~Dismissed(low) /\ Warned(low)
  <2>1. Severity(evaluate_status(low)) = 1
    BY <1>6 DEF evaluate_status, Severity
  <2>2. evaluate_status(high) # "DISMISSED"
    BY <1>1, <1>2, <1>6 DEF evaluate_status
  <2>3. Severity(evaluate_status(high)) \in 0..1
    BY <2>2, VerdictType DEF Severity, Statuses
  <2> QED  BY <2>1, <2>3
<1>7. CASE ~Held(low) /\ ~Dismissed(low) /\ ~Warned(low)
  <2>1. evaluate_status(low) = "PROMOTED"
    BY <1>7 DEF evaluate_status
  <2>2. evaluate_status(high) = "PROMOTED"
    BY <1>1, <1>2, <1>3, <1>7 DEF evaluate_status
  <2> QED  BY <2>1, <2>2 DEF Severity
<1> QED  BY <1>4, <1>5, <1>6, <1>7

-----------------------------------------------------------------------------
(***************************************************************************)
(* What a session reads.                                                   *)
(***************************************************************************)
\* The prior status is one of the statuses that are final, or none.
LEMMA PriorType ==
    ASSUME TypeOK, NEW t
    PROVE  PriorStatuses(t) \subseteq Statuses \cup {NoStatus}
  BY DEF PriorStatuses, TypeOK, StandingRow

\* A session that works on terms has one.
LEMMA TermOfType ==
    ASSUME IInv, NEW p \in Sessions, session[p].at # "idle"
    PROVE  TermOf(p) \in Terms /\ TermOf(p) \in session[p].terms
  BY DEF IInv, TypeOK, SessionRow, SessionOK, TermOf

\* An idle slot remembers nothing, which is consistent with any history.
LEMMA IdleType == Idle \in SessionRow
  BY RulesAssumption DEF Idle, SessionRow, NoRows, NoRow, NoGrades, StandingRow, Ledgers, Ops

-----------------------------------------------------------------------------
(***************************************************************************)
(* The inductive invariant.                                                *)
(***************************************************************************)
\* Appending to the histories of S an entry that sets a status: what was told is
\* still told, and the new statuses are told.
LEMMA AppendTells ==
    ASSUME TypeOK, NEW S \in SUBSET Terms, NEW entry,
           \A t \in S : entry[t] \in HistoryRow,
           RecordEvents(S, entry)
    PROVE  /\ history' \in [Terms -> Seq(HistoryRow)]
           /\ \A t \in Terms : \A status : Told(t, status) => Told(t, status)'
           /\ \A t \in S : Told(t, entry[t].new)' /\ history'[t] # <<>>
           /\ \A t \in Terms \ S : history'[t] = history[t]
<1>1. \A t \in Terms : history[t] \in Seq(HistoryRow)
  BY DEF TypeOK
<1>2. \A t \in S : /\ history'[t] = Append(history[t], entry[t])
                   /\ Len(history'[t]) = Len(history[t]) + 1
                   /\ \A i \in 1..Len(history[t]) : history'[t][i] = history[t][i]
                   /\ history'[t][Len(history[t]) + 1] = entry[t]
                   /\ DOMAIN history'[t] = 1..(Len(history[t]) + 1)
  BY <1>1 DEF RecordEvents
<1>3. history' \in [Terms -> Seq(HistoryRow)]
  BY <1>1, <1>2 DEF RecordEvents
<1>4. \A t \in Terms \ S : history'[t] = history[t]
  BY DEF RecordEvents
<1>5. \A t \in Terms : \A status : Told(t, status) => Told(t, status)'
  <2> SUFFICES ASSUME NEW t \in Terms, NEW status, Told(t, status)
               PROVE  Told(t, status)'
    OBVIOUS
  <2>1. PICK i \in DOMAIN history[t] : history[t][i].new = status
    BY DEF Told
  <2>2. CASE t \in S
    <3>1. i \in 1..Len(history[t])
      BY <1>1, <2>1
    <3>2. i \in DOMAIN history'[t] /\ history'[t][i].new = status
      BY <1>1, <1>2, <2>1, <2>2, <3>1
    <3> QED  BY <3>2 DEF Told
  <2>3. CASE t \notin S
    BY <1>4, <2>1, <2>3 DEF Told
  <2> QED  BY <2>2, <2>3
<1>6. \A t \in S : Told(t, entry[t].new)' /\ history'[t] # <<>>
  <2> SUFFICES ASSUME NEW t \in S PROVE Told(t, entry[t].new)' /\ history'[t] # <<>>
    OBVIOUS
  <2>1. Len(history[t]) + 1 \in DOMAIN history'[t]
    BY <1>1, <1>2
  <2> QED  BY <1>1, <1>2, <2>1 DEF Told
<1> QED  BY <1>3, <1>4, <1>5, <1>6

\* An appended entry that starts an empty history with PROPOSED, or that names a
\* told status as its previous one, keeps the history grounded.
LEMMA AppendGrounds ==
    ASSUME TypeOK, HistoryGrounded, NEW S \in SUBSET Terms, NEW entry,
           \A t \in S : entry[t] \in HistoryRow,
           \A t \in S : /\ entry[t].event = "PROPOSED" <=> history[t] = <<>>
                        /\ history[t] # <<>> => Told(t, entry[t].previous),
           RecordEvents(S, entry)
    PROVE  HistoryGrounded'
<1> SUFFICES ASSUME NEW t \in Terms, NEW i \in DOMAIN history'[t]
             PROVE  /\ history'[t][i].event = "PROPOSED" <=> i = 1
                    /\ i > 1 => \E j \in 1..(i - 1) :
                                    history'[t][i].previous = history'[t][j].new
  BY DEF HistoryGrounded
<1>1. history[t] \in Seq(HistoryRow)
  BY DEF TypeOK
<1>2. CASE t \notin S
  <2>1. history'[t] = history[t]
    BY <1>2 DEF RecordEvents
  <2> QED  BY <2>1 DEF HistoryGrounded
<1>3. CASE t \in S
  <2> DEFINE n == Len(history[t])
  <2>1. n \in Nat /\ DOMAIN history[t] = 1..n /\ (history[t] = <<>> <=> n = 0)
    BY <1>1
  <2>2. /\ DOMAIN history'[t] = 1..(n + 1)
        /\ history'[t][n + 1] = entry[t]
        /\ \A k \in 1..n : history'[t][k] = history[t][k]
    BY <1>1, <1>3 DEF RecordEvents
  <2> HIDE DEF n
  <2>3. CASE i \in 1..n
    <3>1. /\ history[t][i].event = "PROPOSED" <=> i = 1
          /\ i > 1 => \E j \in 1..(i - 1) : history[t][i].previous = history[t][j].new
      BY <2>1, <2>3 DEF HistoryGrounded
    <3>2. \A j \in 1..(i - 1) : j \in 1..n
      BY <2>1, <2>3
    <3> QED  BY <2>2, <2>3, <3>1, <3>2
  <2>4. CASE i = n + 1
    <3>1. history'[t][i].event = "PROPOSED" <=> i = 1
      BY <1>3, <2>1, <2>2, <2>4
    <3>2. ASSUME i > 1
          PROVE  \E j \in 1..(i - 1) : history'[t][i].previous = history'[t][j].new
      <4>1. PICK j \in 1..n : history[t][j].new = entry[t].previous
        BY <1>3, <2>1, <2>4, <3>2 DEF Told
      <4> QED  BY <2>1, <2>2, <2>4, <4>1
    <3> QED  BY <3>1, <3>2
  <2> QED  BY <2>1, <2>2, <2>3, <2>4
<1> QED  BY <1>2, <1>3

\* What a step must keep for the rows a session loaded to stay consistent with
\* the tables.
TablesGrow ==
    /\ \A t \in Terms : \A status : Told(t, status) => Told(t, status)'
    /\ \A t \in Terms : standing[t].final # NoStatus => standing'[t].final # NoStatus
    /\ \A t \in Terms : Exists(standing[t]) => Exists(standing'[t])

\* An idle slot is consistent with any tables.
LEMMA IdleOK == ASSUME NEW p \in Sessions, session'[p] = Idle PROVE SessionOK(p)'
  BY DEF SessionOK, Idle, NoRows, NoRow, RowGrounded, Exists

\* A session that a step leaves alone stays consistent.
LEMMA OtherOK ==
    ASSUME NEW p \in Sessions, SessionOK(p), session'[p] = session[p], TablesGrow
    PROVE  SessionOK(p)'
  BY DEF SessionOK, RowGrounded, TablesGrow

\* A request that ends keeps every session consistent.
LEMMA CloseOK ==
    ASSUME IInv, NEW p \in Sessions, Close(p), TablesGrow
    PROVE  session' \in [Sessions -> SessionRow] /\ \A q \in Sessions : SessionOK(q)'
<1>1. session' \in [Sessions -> SessionRow]
  BY IdleType DEF IInv, TypeOK, Close
<1>2. ASSUME NEW q \in Sessions PROVE SessionOK(q)'
  <2>1. CASE q = p
    <3>1. session'[q] = Idle
      BY <2>1 DEF IInv, TypeOK, Close
    <3> QED  BY <3>1, IdleOK
  <2>2. CASE q # p
    <3>1. session'[q] = session[q]
      BY <2>2 DEF IInv, TypeOK, Close
    <3>2. SessionOK(q)
      BY DEF IInv
    <3> QED  BY <3>1, <3>2, OtherOK
  <2> QED  BY <2>1, <2>2
<1> QED  BY <1>1, <1>2

\* A step that leaves the tables of standings alone, and all sessions but p,
\* keeps the invariant when p's session stays consistent.
LEMMA QuietStep ==
    ASSUME IInv, NEW p \in Sessions, NEW row \in SessionRow,
           session' = [session EXCEPT ![p] = row], UNCHANGED rows,
           SessionOK(p)'
    PROVE  IInv'
<1>1. TablesGrow
  BY DEF TablesGrow, rows, Told
<1>2. TypeOK'
  BY DEF IInv, TypeOK, rows
<1>3. \A q \in Sessions : SessionOK(q)'
  <2> SUFFICES ASSUME NEW q \in Sessions, q # p PROVE SessionOK(q)'
    OBVIOUS
  <2>1. session'[q] = session[q]
    BY DEF IInv, TypeOK
  <2> QED  BY <1>1, <2>1, OtherOK DEF IInv
<1>4. \A t \in Terms : /\ RowGrounded(t, standing[t])'
                       /\ (Exists(standing[t]) <=> history[t] # <<>>)'
                       /\ (standing[t].final # NoStatus => Exists(standing[t]))'
  BY DEF IInv, rows, RowGrounded, Told
<1>5. HistoryGrounded'
  BY DEF IInv, rows, HistoryGrounded
<1> QED  BY <1>2, <1>3, <1>4, <1>5 DEF IInv

\* A step that writes rows and history, grows the tables and ends a request
\* keeps the invariant.
LEMMA WritingStep ==
    ASSUME IInv, NEW p \in Sessions, Close(p), TablesGrow,
           ledger' = ledger, clock' \in Nat,
           standing' \in [Terms -> StandingRow],
           history' \in [Terms -> Seq(HistoryRow)],
           HistoryGrounded',
           \A t \in Terms : /\ RowGrounded(t, standing[t])'
                            /\ (Exists(standing[t]) <=> history[t] # <<>>)'
                            /\ (standing[t].final # NoStatus => Exists(standing[t]))'
    PROVE  IInv'
<1>1. TypeOK'
  BY CloseOK DEF IInv, TypeOK
<1> QED  BY <1>1, CloseOK DEF IInv

\* A row that is not rewritten stays consistent with a history that grew.
LEMMA RowKept ==
    ASSUME IInv, TablesGrow, NEW t \in Terms,
           standing'[t] = standing[t], history'[t] = history[t]
    PROVE  /\ RowGrounded(t, standing[t])'
           /\ (Exists(standing[t]) <=> history[t] # <<>>)'
           /\ (standing[t].final # NoStatus => Exists(standing[t]))'
  BY DEF IInv, RowGrounded, TablesGrow

LEMMA InitIInv == Init => IInv
<1> SUFFICES ASSUME Init PROVE IInv
  OBVIOUS
<1>1. TypeOK
  BY IdleType, RulesAssumption
  DEF Init, TypeOK, NoRows, NoRow, NoGrades, Ledgers, StandingRow
<1>2. \A t \in Terms : standing[t] = NoRow /\ history[t] = <<>>
  BY DEF Init, NoRows
<1>3. \A t \in Terms : /\ RowGrounded(t, standing[t])
                       /\ Exists(standing[t]) <=> history[t] # <<>>
                       /\ standing[t].final # NoStatus => Exists(standing[t])
  BY <1>2 DEF RowGrounded, Exists, NoRow
<1>4. \A p \in Sessions : SessionOK(p)
  BY <1>2 DEF Init, SessionOK, Idle, NoRows, NoRow, RowGrounded, Exists
<1>5. HistoryGrounded
  BY <1>2 DEF HistoryGrounded
<1> QED  BY <1>1, <1>3, <1>4, <1>5 DEF IInv

\* The steps that only read.
LEMMA ReadingSteps ==
    ASSUME IInv, NEW p \in Sessions,
           \/ Load(p) \/ ComputeRead(p) \/ ComputePrior(p) \/ Refuse(p)
    PROVE  IInv'
<1>s. session[p] \in SessionRow /\ SessionOK(p) /\ standing \in [Terms -> StandingRow]
      /\ ledger \in Ledgers
  BY DEF IInv, TypeOK
<1>r. \A t \in Terms : /\ RowGrounded(t, standing[t])
                       /\ standing[t].final # NoStatus => Exists(standing[t])
  BY DEF IInv
<1>u. (UNCHANGED rows) => \A t \in Terms : \A row : RowGrounded(t, row) => RowGrounded(t, row)'
  BY DEF rows, RowGrounded, Told
<1>1. ASSUME NEW t \in Terms, ComputeLoad(p, t) PROVE IInv'
  <2> DEFINE row == [Idle EXCEPT !.op = "compute", !.at = "loaded", !.terms = {t},
                                 !.grades = ledger]
  <2>1. row \in SessionRow
    BY <1>s, IdleType DEF SessionRow, Idle, Ops
  <2>2. session'[p] = row
    BY <1>1 DEF IInv, TypeOK, ComputeLoad
  <2>3. SessionOK(p)'
    BY <2>2 DEF SessionOK, Idle, NoRows, NoRow, RowGrounded, Exists
  <2> QED  BY <1>1, <2>1, <2>3, QuietStep DEF ComputeLoad
<1>2. ASSUME NEW t \in Terms, NEW reason \in BOOLEAN, AuthoriseLoad(p, t, reason)
      PROVE  IInv'
  <2> DEFINE row == [Idle EXCEPT !.op = "authorise", !.at = "loaded", !.terms = {t},
                                 !.seen = standing, !.reason = reason]
  <2>1. row \in SessionRow
    BY <1>s, IdleType DEF SessionRow, Idle, Ops
  <2>2. session'[p] = row
    BY <1>2 DEF IInv, TypeOK, AuthoriseLoad
  <2>3. Exists(standing[t])
    BY <1>2 DEF AuthoriseLoad, Authorisable
  <2>4. row.terms = {t} /\ row.seen = standing /\ row.op = "authorise"
    BY DEF Idle
  <2> HIDE DEF row
  <2>5. SessionOK(p)'
    BY <1>2, <1>r, <1>u, <2>2, <2>3, <2>4 DEF SessionOK, AuthoriseLoad, rows
  <2> QED  BY <1>2, <2>1, <2>5, QuietStep DEF AuthoriseLoad, row
<1>3. ASSUME NEW S \in SUBSET Terms, NEW reason \in BOOLEAN, BatchAuthoriseLoad(p, S, reason)
      PROVE  IInv'
  <2> DEFINE T == {t \in S : Authorisable(standing[t], reason)}
             row == [Idle EXCEPT !.op = "batch_authorise", !.at = "loaded",
                                 !.terms = T, !.seen = standing, !.reason = reason]
  <2>1. row \in SessionRow
    BY <1>s, IdleType DEF SessionRow, Idle, Ops
  <2>2. session'[p] = row
    BY <1>3 DEF IInv, TypeOK, BatchAuthoriseLoad
  <2>3. T # {} /\ \A t \in T : t \in Terms /\ Exists(standing[t])
    BY <1>3 DEF BatchAuthoriseLoad, Authorisable
  <2>4. row.terms = T /\ row.seen = standing /\ row.op = "batch_authorise"
    BY DEF Idle
  <2> HIDE DEF T, row
  <2>5. SessionOK(p)'
    BY <1>3, <1>r, <1>u, <2>2, <2>3, <2>4 DEF SessionOK, BatchAuthoriseLoad, rows
  <2> QED  BY <1>3, <2>1, <2>5, QuietStep DEF BatchAuthoriseLoad, row, T
<1>4. ASSUME NEW t \in Terms, NEW new_status \in Chosen, OverrideLoad(p, t, new_status)
      PROVE  IInv'
  <2> DEFINE row == [Idle EXCEPT !.op = "override", !.at = "loaded", !.terms = {t},
                                 !.seen = standing, !.target = new_status, !.reason = TRUE]
  <2>0. new_status \in Statuses
    BY StandingAssumption
  <2>1. row \in SessionRow
    BY <1>s, <2>0, IdleType DEF SessionRow, Idle, Ops
  <2>2. session'[p] = row
    BY <1>4 DEF IInv, TypeOK, OverrideLoad
  <2>3. Exists(standing[t])
    BY <1>4 DEF OverrideLoad
  <2>4. /\ row.terms = {t} /\ row.seen = standing
        /\ row.op = "override" /\ row.target = new_status
    BY DEF Idle
  <2> HIDE DEF row
  <2>5. SessionOK(p)'
    BY <1>4, <1>r, <1>u, <2>0, <2>2, <2>3, <2>4 DEF SessionOK, OverrideLoad, rows
  <2> QED  BY <1>4, <2>1, <2>5, QuietStep DEF OverrideLoad, row
<1>5. CASE Refuse(p)
  <2>1. session'[p] = Idle
    BY <1>5 DEF IInv, TypeOK, Refuse, Close
  <2> QED  BY <1>5, <2>1, IdleType, IdleOK, QuietStep DEF Refuse, Close
<1>6. CASE ComputeRead(p)
  <2>1. CASE ~Refuse(p)
    <3> DEFINE row == [session[p] EXCEPT !.at = "read", !.seen = standing]
    <3>1. row \in SessionRow
      BY <1>s DEF SessionRow
    <3>2. session' = [session EXCEPT ![p] = row] /\ UNCHANGED rows
      BY <1>6, <2>1 DEF ComputeRead, IInv, TypeOK
    <3>3. session'[p] = row
      BY <3>2 DEF IInv, TypeOK
    <3>4. row.op = "compute" /\ row.terms # {} /\ row.seen = standing
      BY <1>6, <1>s DEF ComputeRead, At, SessionOK, SessionRow
    <3> HIDE DEF row
    <3>5. SessionOK(p)'
      BY <1>r, <1>u, <3>2, <3>3, <3>4 DEF SessionOK, rows
    <3> QED  BY <3>1, <3>2, <3>5, QuietStep
  <2> QED  BY <1>5, <2>1
<1>7. CASE ComputePrior(p)
  <2>0. session[p].at # "idle"
    BY <1>7 DEF ComputePrior, At
  <2>1. PICK prior \in PriorStatuses(TermOf(p)) :
            session' = [session EXCEPT ![p].at = "proposed", ![p].prior = prior]
    BY <1>7 DEF ComputePrior
  <2> DEFINE row == [session[p] EXCEPT !.at = "proposed", !.prior = prior]
  <2>2. prior \in Statuses \cup {NoStatus}
    BY PriorType DEF IInv
  <2>3. row \in SessionRow
    BY <1>s, <2>2 DEF SessionRow
  <2>4. session' = [session EXCEPT ![p] = row] /\ UNCHANGED rows
    BY <1>7, <2>1 DEF ComputePrior, IInv, TypeOK
  <2>5. session'[p] = row
    BY <2>4 DEF IInv, TypeOK
  <2>6. /\ row.op = session[p].op /\ row.terms = session[p].terms
        /\ row.seen = session[p].seen /\ row.target = session[p].target
    BY <1>s DEF SessionRow
  <2> HIDE DEF row
  <2>7. SessionOK(p)'
    BY <1>s, <1>u, <2>0, <2>4, <2>5, <2>6 DEF SessionOK, rows
  <2> QED  BY <2>3, <2>4, <2>7, QuietStep
<1> QED  BY <1>1, <1>2, <1>3, <1>4, <1>5, <1>6, <1>7 DEF Load

\* A computed proposal: it inserts the row, or rewrites it and leaves the
\* decision alone.
LEMMA ComputeStep ==
    ASSUME IInv, NEW p \in Sessions, ComputeCommit(p), ~Refuse(p)
    PROVE  IInv'
<1>1. session[p].at # "idle"
  BY DEF ComputeCommit, At
<1>2. PICK t \in Terms : t = TermOf(p)
  BY <1>1, TermOfType
<1> DEFINE ctx == build_compute_input(session[p].grades, t, session[p].prior)
<1>0. PICK old, row, new, flag, prior :
          /\ old = session[p].seen[t] /\ row = standing[t]
          /\ new = evaluate_status(ctx) /\ flag = requires_review(ctx)
          /\ prior = session[p].prior
  OBVIOUS
<1>a. PICK entry, put :
          /\ entry = [event |-> IF Exists(old) THEN "RE_COMPUTED" ELSE "PROPOSED",
                      previous |-> old.proposed, new |-> new, reason |-> TRUE]
          /\ put = [proposed |-> Orm(old.proposed, new, row.proposed),
                    final    |-> row.final,
                    review   |-> Orm(old.review, flag, row.review),
                    prior    |-> Orm(old.prior, prior, row.prior),
                    computed |-> clock + 1]
  OBVIOUS
<1>b. /\ Insertable(old, row)
      /\ standing' = [standing EXCEPT ![t] = put]
      /\ clock' = clock + 1 /\ ledger' = ledger /\ Close(p)
      /\ RecordEvents({t}, [u \in {t} |-> entry])
  BY <1>2, <1>0, <1>a DEF ComputeCommit, Proposal, propose_standing
<1>c. /\ session[p] \in SessionRow /\ old \in StandingRow
      /\ row \in StandingRow /\ prior \in Statuses \cup {NoStatus}
      /\ clock \in Nat
  BY <1>0 DEF IInv, TypeOK, SessionRow
<1>3. new \in Statuses /\ new # NoStatus /\ flag \in BOOLEAN
  BY <1>0, VerdictType, RulesAssumption DEF requires_review, Statuses
<1>4. /\ RowGrounded(t, old) /\ RowGrounded(t, row)
      /\ Exists(old) => Exists(row)
      /\ Exists(row) <=> history[t] # <<>>
      /\ row.final # NoStatus => Exists(row)
  BY <1>0 DEF IInv, SessionOK
<1>5. Exists(old) <=> Exists(row)
  BY <1>b, <1>4 DEF Insertable
<1> HIDE DEF ctx
<1>6. entry \in HistoryRow
  BY <1>a, <1>c, <1>3 DEF HistoryRow, Events, StandingRow
<1>7. /\ entry.event = "PROPOSED" <=> history[t] = <<>>
      /\ history[t] # <<>> => Told(t, entry.previous)
  BY <1>a, <1>4, <1>5 DEF RowGrounded
<1>8. /\ put \in StandingRow
      /\ put.final = row.final
      /\ put.proposed = row.proposed \/ put.proposed = new
      /\ Exists(put)
  <2>1. put.proposed \in Statuses \cup {NoStatus} /\ put.review \in BOOLEAN
        /\ put.prior \in Statuses \cup {NoStatus}
    BY <1>a, <1>c, <1>3 DEF Orm, StandingRow
  <2>2. put \in StandingRow
    BY <1>a, <1>c, <2>1 DEF StandingRow
  <2>3. put.proposed = row.proposed \/ put.proposed = new
    BY <1>a DEF Orm
  <2>4. put.proposed # NoStatus
    BY <1>a, <1>3, <1>5 DEF Orm, Exists
  <2> QED  BY <1>a, <2>2, <2>3, <2>4 DEF Exists
<1>9. standing'[t] = put /\ standing' \in [Terms -> StandingRow]
      /\ \A u \in Terms \ {t} : standing'[u] = standing[u]
  BY <1>b, <1>8 DEF IInv, TypeOK
<1>10. /\ history' \in [Terms -> Seq(HistoryRow)]
       /\ \A u \in Terms : \A status : Told(u, status) => Told(u, status)'
       /\ Told(t, new)' /\ history'[t] # <<>>
       /\ \A u \in Terms \ {t} : history'[u] = history[u]
  <2> DEFINE e == [u \in {t} |-> entry]
  <2>1. e[t] = entry /\ \A u \in {t} : e[u] \in HistoryRow
    BY <1>6
  <2>2. RecordEvents({t}, e)
    BY <1>b
  <2> HIDE DEF e
  <2>3. /\ history' \in [Terms -> Seq(HistoryRow)]
        /\ \A u \in Terms : \A status : Told(u, status) => Told(u, status)'
        /\ \A u \in {t} : Told(u, e[u].new)' /\ history'[u] # <<>>
        /\ \A u \in Terms \ {t} : history'[u] = history[u]
    BY <2>1, <2>2, AppendTells DEF IInv
  <2> QED  BY <1>a, <2>1, <2>3
<1>11. HistoryGrounded'
  <2> DEFINE e == [u \in {t} |-> entry]
  <2>1. \A u \in {t} : /\ e[u] \in HistoryRow
                       /\ e[u].event = "PROPOSED" <=> history[u] = <<>>
                       /\ history[u] # <<>> => Told(u, e[u].previous)
    BY <1>6, <1>7
  <2>2. RecordEvents({t}, e)
    BY <1>b
  <2> HIDE DEF e
  <2>3. TypeOK /\ HistoryGrounded /\ {t} \in SUBSET Terms
    BY DEF IInv
  <2>4. \A u \in {t} : e[u] \in HistoryRow
    BY <2>1
  <2>5. \A u \in {t} : /\ e[u].event = "PROPOSED" <=> history[u] = <<>>
                       /\ history[u] # <<>> => Told(u, e[u].previous)
    BY <2>1
  <2> QED  BY <2>2, <2>3, <2>4, <2>5, AppendGrounds
<1>12. TablesGrow
  BY <1>0, <1>8, <1>9, <1>10 DEF TablesGrow
<1>13. /\ RowGrounded(t, standing[t])'
       /\ (Exists(standing[t]) <=> history[t] # <<>>)'
       /\ (standing[t].final # NoStatus => Exists(standing[t]))'
  <2>2. row.final # NoStatus => Told(t, row.final)'
    BY <1>4, <1>10 DEF RowGrounded
  <2>3. Told(t, put.proposed)'
    <3>1. CASE put.proposed = new
      BY <1>10, <3>1
    <3>2. CASE put.proposed = row.proposed
      BY <1>0, <1>4, <1>5, <1>8, <1>10, <3>2, <1>3 DEF RowGrounded, Exists
    <3> QED  BY <1>8, <3>1, <3>2
  <2>4. RowGrounded(t, put)'
    BY <1>8, <1>10, <2>2, <2>3 DEF RowGrounded
  <2> QED  BY <1>8, <1>9, <1>10, <2>4 DEF RowGrounded
<1>14. \A u \in Terms : /\ RowGrounded(u, standing[u])'
                        /\ (Exists(standing[u]) <=> history[u] # <<>>)'
                        /\ (standing[u].final # NoStatus => Exists(standing[u]))'
  BY <1>9, <1>10, <1>12, <1>13, RowKept
<1>15. clock' \in Nat
  BY <1>b, <1>c
<1> QED  BY <1>b, <1>9, <1>10, <1>11, <1>12, <1>14, <1>15, WritingStep

\* What a decision of the department head does to the tables: the terms of S get
\* an officer's entry each; their row keeps its proposal and gets the status
\* decided, or keeps the one it has.
DecidesTerms(p, S, entry) ==
    /\ RecordEvents(S, entry)
    /\ \A t \in S :
          /\ entry[t] \in HistoryRow /\ entry[t].event \in OfficerEvents
          /\ history[t] # <<>> /\ Told(t, entry[t].previous)
          /\ Exists(standing[t]) /\ Exists(standing'[t])
          /\ standing'[t].proposed = standing[t].proposed
          /\ standing'[t].final # NoStatus
          /\ standing'[t].final \in {entry[t].new, standing[t].final}
    /\ \A t \in Terms \ S : standing'[t] = standing[t]
    /\ standing' \in [Terms -> StandingRow]
    /\ Close(p) /\ ledger' = ledger /\ clock' = clock

\* authorise and batch_authorise decide the terms of the request.
LEMMA AuthoriseDecides ==
    ASSUME IInv, NEW p \in Sessions, AuthoriseCommit(p) \/ BatchAuthoriseCommit(p)
    PROVE  \E S \in SUBSET Terms : \E entry : DecidesTerms(p, S, entry)
<1> DEFINE S == session[p].terms
           seen == session[p].seen
           entry == [t \in S |->
               [event |-> "AUTHORISED", previous |-> seen[t].proposed,
                new |-> seen[t].proposed,
                reason |-> session[p].reason
                           /\ (session[p].op = "batch_authorise" => seen[t].review)]]
<1>0. standing' = [t \in Terms |->
             IF t \in S THEN [standing[t] EXCEPT !.final = seen[t].proposed]
             ELSE standing[t]]
  BY DEF AuthoriseCommit, BatchAuthoriseCommit, Authorise
<1>1. /\ RecordEvents(S, entry)
      /\ Close(p) /\ ledger' = ledger /\ clock' = clock
      /\ session[p].op \in {"authorise", "batch_authorise"}
  BY DEF AuthoriseCommit, BatchAuthoriseCommit, Authorise, At
<1>2. /\ S \subseteq Terms /\ seen \in [Terms -> StandingRow]
      /\ session[p].reason \in BOOLEAN
      /\ \A t \in S : Exists(seen[t])
      /\ \A t \in Terms : RowGrounded(t, seen[t]) /\ (Exists(seen[t]) => Exists(standing[t]))
  BY <1>1 DEF IInv, TypeOK, SessionRow, SessionOK
<1>3. standing \in [Terms -> StandingRow]
      /\ \A t \in Terms : Exists(standing[t]) <=> history[t] # <<>>
  BY DEF IInv, TypeOK
<1> HIDE DEF S, seen
<1>4. \A t \in S : /\ seen[t].proposed \in Statuses /\ seen[t].proposed # NoStatus
                   /\ seen[t].review \in BOOLEAN
                   /\ Told(t, seen[t].proposed)
  BY <1>2, RulesAssumption DEF StandingRow, Exists, RowGrounded, Statuses
<1>5. \A t \in S : /\ entry[t] \in HistoryRow
                   /\ entry[t].event \in OfficerEvents
                   /\ entry[t].previous = seen[t].proposed
                   /\ entry[t].new = seen[t].proposed
  BY <1>2, <1>4 DEF HistoryRow, Events, OfficerEvents
<1>6. /\ standing' \in [Terms -> StandingRow]
      /\ \A t \in S : /\ standing'[t].final = seen[t].proposed
                      /\ standing'[t].proposed = standing[t].proposed
      /\ \A t \in Terms \ S : standing'[t] = standing[t]
  <2> DEFINE put(t) == [standing[t] EXCEPT !.final = seen[t].proposed]
  <2>1. ASSUME NEW t \in S
        PROVE  /\ put(t) \in StandingRow
               /\ put(t).final = seen[t].proposed
               /\ put(t).proposed = standing[t].proposed
    <3>1. standing[t] \in StandingRow /\ seen[t].proposed \in Statuses
      BY <1>2, <1>3, <1>4
    <3> QED  BY <3>1 DEF StandingRow
  <2>2. standing' = [t \in Terms |-> IF t \in S THEN put(t) ELSE standing[t]]
    BY <1>0
  <2> HIDE DEF put
  <2> QED  BY <1>2, <1>3, <2>1, <2>2
<1> HIDE DEF entry
<1>7. \A t \in S : Exists(standing[t]) /\ Exists(standing'[t]) /\ history[t] # <<>>
  BY <1>2, <1>3, <1>6 DEF Exists
<1>8. DecidesTerms(p, S, entry)
  BY <1>1, <1>4, <1>5, <1>6, <1>7 DEF DecidesTerms
<1> QED  BY <1>2, <1>8

\* override decides its term.
LEMMA OverrideDecides ==
    ASSUME IInv, NEW p \in Sessions, OverrideCommit(p)
    PROVE  \E S \in SUBSET Terms : \E entry : DecidesTerms(p, S, entry)
<1>1. session[p].at # "idle" /\ session[p].op = "override"
  BY DEF OverrideCommit, At
<1>2. PICK t \in Terms : t = TermOf(p) /\ t \in session[p].terms
  BY <1>1, TermOfType
<1>3. PICK old, target : old = session[p].seen[t] /\ target = session[p].target
  OBVIOUS
<1>4. PICK event : event =
          [event |-> "OVERRIDDEN",
           previous |-> IF old.final # NoStatus THEN old.final ELSE old.proposed,
           new |-> target, reason |-> TRUE]
  OBVIOUS
<1>5. /\ standing' = [standing EXCEPT ![t].final = Orm(old.final, target, @)]
      /\ RecordEvents({t}, [u \in {t} |-> event])
      /\ Close(p) /\ ledger' = ledger /\ clock' = clock
  BY <1>2, <1>3, <1>4 DEF OverrideCommit
<1>6. /\ old \in StandingRow /\ target \in Statuses /\ target # NoStatus
      /\ Exists(old) /\ RowGrounded(t, old) /\ Exists(standing[t])
      /\ old.final # NoStatus => standing[t].final # NoStatus
  BY <1>1, <1>2, <1>3, RulesAssumption DEF IInv, TypeOK, SessionRow, SessionOK, Statuses
<1>7. standing \in [Terms -> StandingRow] /\ history[t] # <<>>
  BY <1>6 DEF IInv, TypeOK
<1>8. /\ event \in HistoryRow /\ event.event \in OfficerEvents /\ event.new = target
      /\ Told(t, event.previous)
  BY <1>4, <1>6 DEF HistoryRow, Events, OfficerEvents, StandingRow, RowGrounded, Exists
<1>9. PICK f : f = Orm(old.final, target, standing[t].final)
  OBVIOUS
<1>10. f \in Statuses \cup {NoStatus} /\ f # NoStatus /\ f \in {target, standing[t].final}
  BY <1>6, <1>7, <1>9 DEF Orm, StandingRow
<1>11. /\ standing' \in [Terms -> StandingRow]
       /\ standing'[t].final = f
       /\ standing'[t].proposed = standing[t].proposed
       /\ \A u \in Terms \ {t} : standing'[u] = standing[u]
  BY <1>5, <1>7, <1>9, <1>10 DEF StandingRow
<1>12. Exists(standing'[t])
  BY <1>6, <1>11 DEF Exists
<1>13. DecidesTerms(p, {t}, [u \in {t} |-> event])
  BY <1>5, <1>6, <1>7, <1>8, <1>10, <1>11, <1>12 DEF DecidesTerms
<1> QED  BY <1>13

\* A decision keeps the invariant.
LEMMA DecisionStep ==
    ASSUME IInv, NEW p \in Sessions, NEW S \in SUBSET Terms, NEW entry,
           DecidesTerms(p, S, entry)
    PROVE  IInv'
<1>1. TypeOK /\ HistoryGrounded
  BY DEF IInv
<1>2. RecordEvents(S, entry) /\ \A t \in S : entry[t] \in HistoryRow
  BY DEF DecidesTerms
<1>3. /\ history' \in [Terms -> Seq(HistoryRow)]
      /\ \A t \in Terms : \A status : Told(t, status) => Told(t, status)'
      /\ \A t \in S : Told(t, entry[t].new)' /\ history'[t] # <<>>
      /\ \A t \in Terms \ S : history'[t] = history[t]
  BY <1>1, <1>2, AppendTells
<1>4. \A t \in S : /\ entry[t].event = "PROPOSED" <=> history[t] = <<>>
                   /\ history[t] # <<>> => Told(t, entry[t].previous)
  BY DEF DecidesTerms, OfficerEvents
<1>5. HistoryGrounded'
  BY <1>1, <1>2, <1>4, AppendGrounds
<1>6. TablesGrow
  BY <1>3 DEF TablesGrow, DecidesTerms
<1>7. \A t \in Terms : /\ RowGrounded(t, standing[t])'
                       /\ (Exists(standing[t]) <=> history[t] # <<>>)'
                       /\ (standing[t].final # NoStatus => Exists(standing[t]))'
  <2> SUFFICES ASSUME NEW t \in Terms
               PROVE  /\ RowGrounded(t, standing[t])'
                      /\ (Exists(standing[t]) <=> history[t] # <<>>)'
                      /\ (standing[t].final # NoStatus => Exists(standing[t]))'
    OBVIOUS
  <2>1. CASE t \in S
    <3>1. RowGrounded(t, standing[t])
      BY DEF IInv
    <3>2. /\ Exists(standing[t]) /\ Exists(standing'[t])
          /\ standing'[t].proposed = standing[t].proposed
          /\ standing'[t].final \in {entry[t].new, standing[t].final}
      BY <2>1 DEF DecidesTerms
    <3> QED  BY <1>3, <2>1, <3>1, <3>2 DEF RowGrounded
  <2>2. CASE t \notin S
    BY <1>3, <1>6, <2>2, RowKept DEF DecidesTerms
  <2> QED  BY <2>1, <2>2
<1>8. clock' \in Nat /\ ledger' = ledger /\ Close(p) /\ standing' \in [Terms -> StandingRow]
  BY <1>1 DEF TypeOK, DecidesTerms
<1> QED  BY <1>3, <1>5, <1>6, <1>7, <1>8, WritingStep

\* A grade that becomes official.
LEMMA GradeStep ==
    ASSUME IInv, NEW t \in Terms, NEW c \in Courses, GradeAuthorised(t, c)
    PROVE  IInv'
<1>1. PICK letter \in Marks : ledger' = [ledger EXCEPT ![t][c] = letter]
  BY DEF GradeAuthorised
<1>2. ledger' \in Ledgers
  BY <1>1, StandingAssumption DEF IInv, TypeOK, Ledgers
<1>3. UNCHANGED <<standing, history, clock, session>>
  BY DEF GradeAuthorised
<1> QED  BY <1>2, <1>3
         DEF IInv, TypeOK, RowGrounded, Told, SessionOK, HistoryGrounded

LEMMA NextIInv == IInv /\ [Next]_vars => IInv'
<1> SUFFICES ASSUME IInv, [Next]_vars PROVE IInv'
  OBVIOUS
<1>1. CASE UNCHANGED vars
  BY <1>1 DEF IInv, TypeOK, vars, RowGrounded, Told, SessionOK, HistoryGrounded
<1>2. ASSUME NEW p \in Sessions, Load(p) \/ Abort(p) PROVE IInv'
  BY <1>2, ReadingSteps DEF Abort
<1>3. ASSUME NEW p \in Sessions, Step(p) PROVE IInv'
  <2>1. CASE ComputeRead(p) \/ ComputePrior(p)
    BY <2>1, ReadingSteps
  <2>2. CASE ComputeCommit(p)
    BY <2>2, ReadingSteps, ComputeStep
  <2>3. CASE AuthoriseCommit(p) \/ BatchAuthoriseCommit(p)
    BY <2>3, AuthoriseDecides, DecisionStep
  <2>4. CASE OverrideCommit(p)
    BY <2>4, OverrideDecides, DecisionStep
  <2> QED  BY <1>3, <2>1, <2>2, <2>3, <2>4 DEF Step
<1> QED  BY <1>1, <1>2, <1>3, GradeStep DEF Next

\* The invariant that ties rows, loaded rows and history holds however requests
\* overlap or fail.
THEOREM Invariant == Spec => []IInv
  BY InitIInv, NextIInv, PTL DEF Spec

\* Every table and every session keeps its type.
THEOREM TypeCorrect == Spec => []TypeOK
<1>1. IInv => TypeOK
  BY DEF IInv
<1> QED  BY <1>1, Invariant, PTL

\* The audit trail of a standing is grounded (academic_standing_history): one
\* proposal first, and every later event starts from a status an earlier one set.
THEOREM Grounded == Spec => []HistoryGrounded
<1>1. IInv => HistoryGrounded
  BY DEF IInv
<1> QED  BY <1>1, Invariant, PTL

-----------------------------------------------------------------------------
(***************************************************************************)
(* The workflow implements the abstract record.                            *)
(***************************************************************************)
finalBar == [t \in Terms |-> standing[t].final]
logBar   == [t \in Terms |-> Logged(t)]

\* Appending an event to a history appends what the record sees of it.
LEMMA LoggedAppend ==
    ASSUME TypeOK, NEW t \in Terms, NEW e \in HistoryRow,
           history'[t] = Append(history[t], e)
    PROVE  Logged(t)' =
             Append(Logged(t), IF e.event \in OfficerEvents THEN e.new ELSE NoStatus)
<1> DEFINE h == history[t]
           g == history'[t]
           n == Len(h)
           x == IF e.event \in OfficerEvents THEN e.new ELSE NoStatus
<1>1. /\ h \in Seq(HistoryRow) /\ n \in Nat /\ DOMAIN h = 1..n
      /\ \A i \in 1..n : h[i] \in HistoryRow
  BY DEF TypeOK
<1>2. /\ g = Append(h, e) /\ DOMAIN g = 1..(n + 1)
      /\ \A i \in 1..n : g[i] = h[i]
      /\ g[n + 1] = e
  BY <1>1
<1>3. Logged(t) = [i \in 1..n |-> IF h[i].event \in OfficerEvents THEN h[i].new ELSE NoStatus]
  BY <1>1 DEF Logged
<1>4. Logged(t)' = [i \in 1..(n + 1) |->
                       IF g[i].event \in OfficerEvents THEN g[i].new ELSE NoStatus]
  BY <1>2 DEF Logged
<1> HIDE DEF h, g, n
<1>5. Append(Logged(t), x) = [i \in 1..(n + 1) |-> IF i = n + 1 THEN x ELSE Logged(t)[i]]
  <2>1. Logged(t) \in Seq(Statuses \cup {NoStatus}) /\ Len(Logged(t)) = n
    <3>1. \A i \in 1..n : (IF h[i].event \in OfficerEvents THEN h[i].new ELSE NoStatus)
                              \in Statuses \cup {NoStatus}
      BY <1>1 DEF HistoryRow
    <3> QED  BY <1>1, <1>3, <3>1
  <2> QED  BY <1>1, <2>1
<1>6. \A i \in 1..(n + 1) :
          Logged(t)'[i] = (IF i = n + 1 THEN x ELSE Logged(t)[i])
  BY <1>1, <1>2, <1>3, <1>4
<1> QED  BY <1>4, <1>5, <1>6

LEMMA InitRefines == Init => Record!RecordInit
<1> SUFFICES ASSUME Init PROVE Record!RecordInit
  OBVIOUS
<1>1. \A t \in Terms : standing[t].final = NoStatus /\ history[t] = <<>>
  BY DEF Init, NoRows, NoRow
<1>2. \A t \in Terms : Logged(t) = <<>>
  BY <1>1 DEF Logged
<1> QED  BY <1>1, <1>2 DEF Record!RecordInit

\* A step that leaves history and official statuses alone stutters.
LEMMA QuietRefines ==
    ASSUME history' = history, standing' = standing
    PROVE  UNCHANGED Record!record
  BY DEF Record!record, Logged

\* A decision is a decision of the record.
LEMMA DecisionRefines ==
    ASSUME IInv, NEW p \in Sessions, NEW S \in SUBSET Terms, NEW entry,
           DecidesTerms(p, S, entry)
    PROVE  Record!RecordNext
<1> DEFINE choice == [t \in S |-> entry[t].new]
<1>1. /\ standing \in [Terms -> StandingRow] /\ standing' \in [Terms -> StandingRow]
      /\ \A t \in S : /\ entry[t] \in HistoryRow /\ entry[t].event \in OfficerEvents
                      /\ standing'[t].final # NoStatus
                      /\ standing'[t].final \in {entry[t].new, standing[t].final}
      /\ \A t \in Terms \ S : standing'[t] = standing[t]
  BY DEF DecidesTerms, IInv, TypeOK
<1>2. choice \in [S -> Statuses]
  BY <1>1 DEF HistoryRow
<1>3. \A t \in S : Logged(t)' = Append(Logged(t), choice[t])
  <2> SUFFICES ASSUME NEW t \in S PROVE Logged(t)' = Append(Logged(t), choice[t])
    OBVIOUS
  <2>1. history'[t] = Append(history[t], entry[t])
    BY DEF DecidesTerms, RecordEvents
  <2> QED  BY <1>1, <2>1, LoggedAppend DEF IInv
<1>4. \A t \in Terms \ S : Logged(t)' = Logged(t)
  BY DEF DecidesTerms, RecordEvents, Logged
<1>5. logBar' = [t \in Terms |-> IF t \in S THEN Append(logBar[t], choice[t]) ELSE logBar[t]]
  BY <1>3, <1>4 DEF logBar
<1>6. /\ finalBar' \in [Terms -> Statuses \cup {NoStatus}]
      /\ \A t \in S : finalBar'[t] # NoStatus /\ finalBar'[t] \in {choice[t], finalBar[t]}
      /\ \A t \in Terms \ S : finalBar'[t] = finalBar[t]
  BY <1>1 DEF finalBar, StandingRow
<1>7. Record!Decide(S, choice)
  BY <1>5, <1>6 DEF Record!Decide, finalBar, logBar
<1> QED  BY <1>2, <1>7 DEF Record!RecordNext

\* A computed proposal is a proposal of the record.
LEMMA ComputeRefines ==
    ASSUME IInv, NEW p \in Sessions, ComputeCommit(p), ~Refuse(p)
    PROVE  Record!RecordNext
<1>1. session[p].at # "idle"
  BY DEF ComputeCommit, At
<1>2. PICK t \in Terms : t = TermOf(p)
  BY <1>1, TermOfType
<1>3. PICK old, ctx : /\ old = session[p].seen[t]
                      /\ ctx = build_compute_input(session[p].grades, t, session[p].prior)
  OBVIOUS
<1>a. PICK entry, put :
          /\ entry = [event |-> IF Exists(old) THEN "RE_COMPUTED" ELSE "PROPOSED",
                      previous |-> old.proposed, new |-> evaluate_status(ctx),
                      reason |-> TRUE]
          /\ put = Proposal(old, standing[t], evaluate_status(ctx), requires_review(ctx),
                            session[p].prior)
  OBVIOUS
<1>b. /\ standing' = [standing EXCEPT ![t] = put]
      /\ RecordEvents({t}, [u \in {t} |-> entry])
  BY <1>2, <1>3, <1>a DEF ComputeCommit, propose_standing
<1>c. put.final = standing[t].final
  BY <1>a DEF Proposal
<1>4. entry \in HistoryRow /\ entry.event \notin OfficerEvents
  <2>1. old.proposed \in Statuses \cup {NoStatus}
    BY <1>3 DEF IInv, TypeOK, SessionRow, StandingRow
  <2> QED  BY <1>a, <2>1, VerdictType DEF HistoryRow, Events, OfficerEvents
<1>5. Logged(t)' = Append(Logged(t), NoStatus)
  <2>1. history'[t] = Append(history[t], entry)
    BY <1>b DEF RecordEvents
  <2> QED  BY <1>4, <2>1, LoggedAppend DEF IInv
<1>6. \A u \in Terms \ {t} : Logged(u)' = Logged(u)
  BY <1>b DEF RecordEvents, Logged
<1>7. logBar' = [logBar EXCEPT ![t] = Append(@, NoStatus)]
  BY <1>5, <1>6 DEF logBar
<1>8. finalBar' = finalBar
  BY <1>b, <1>c DEF finalBar, IInv, TypeOK
<1>9. Record!Propose(t)
  BY <1>7, <1>8 DEF Record!Propose, finalBar, logBar
<1> QED  BY <1>9 DEF Record!RecordNext

LEMMA NextRefines == IInv /\ [Next]_vars => [Record!RecordNext]_(Record!record)
<1> SUFFICES ASSUME IInv, [Next]_vars
             PROVE  Record!RecordNext \/ UNCHANGED Record!record
  OBVIOUS
<1>1. CASE UNCHANGED vars
  BY <1>1, QuietRefines DEF vars
<1>2. ASSUME NEW p \in Sessions, Load(p) \/ ComputeRead(p) \/ ComputePrior(p) \/ Refuse(p)
      PROVE  UNCHANGED Record!record
  BY <1>2, QuietRefines
  DEF Load, ComputeLoad, AuthoriseLoad, BatchAuthoriseLoad, OverrideLoad,
      ComputeRead, ComputePrior, Refuse, rows
<1>3. ASSUME NEW p \in Sessions, Step(p)
      PROVE  Record!RecordNext \/ UNCHANGED Record!record
  <2>1. CASE ComputeRead(p) \/ ComputePrior(p)
    BY <1>2, <2>1
  <2>2. CASE ComputeCommit(p)
    BY <1>2, <2>2, ComputeRefines
  <2>3. CASE AuthoriseCommit(p) \/ BatchAuthoriseCommit(p)
    BY <2>3, AuthoriseDecides, DecisionRefines
  <2>4. CASE OverrideCommit(p)
    BY <2>4, OverrideDecides, DecisionRefines
  <2> QED  BY <1>3, <2>1, <2>2, <2>3, <2>4 DEF Step
<1>4. ASSUME NEW t \in Terms, NEW c \in Courses, GradeAuthorised(t, c)
      PROVE  UNCHANGED Record!record
  BY <1>4, QuietRefines DEF GradeAuthorised
<1> QED  BY <1>1, <1>2, <1>3, <1>4 DEF Next, Abort

\* However requests overlap or fail, an official status appears or changes only
\* in a step that records a decision, takes the status decided or keeps its own,
\* and is never withdrawn.
THEOREM Refinement == Spec => RefinesRecord
  BY Invariant, InitRefines, NextRefines, PTL DEF Spec, RefinesRecord, Record!RecordSpec

-----------------------------------------------------------------------------
(***************************************************************************)
(* Requests that take turns.                                               *)
(***************************************************************************)
\* The i-th event of the history is the last of those of E.
IsLast(t, E, i) ==
    /\ history[t][i].event \in E
    /\ \A j \in DOMAIN history[t] : history[t][j].event \in E => j <= i

LastSays(t, E, status) ==
    \E i \in DOMAIN history[t] : IsLast(t, E, i) /\ history[t][i].new = status

\* The last event with words for the student gives status.
WordSays(t, status) ==
    \E i \in worded(t) : (\A j \in worded(t) : j <= i) /\ history[t][i].new = status

AgentEvents == Events \ OfficerEvents

\* A row is what its history says, the words for a decision are known, and there
\* is a proposal only when the term is graded.
RowReplays(t) ==
    /\ Exists(standing[t]) =>
          /\ LastSays(t, AgentEvents, standing[t].proposed)
          /\ standing[t].review <=> standing[t].proposed = "INCOMPLETE"
          /\ Expected[t] \subseteq Graded(ledger, t)
    /\ Decided(standing[t]) =>
          /\ LastSays(t, OfficerEvents, standing[t].final)
          /\ \/ WordSays(t, standing[t].final)
             \/ worded(t) = {} /\ standing[t].final = standing[t].proposed
    /\ ~Decided(standing[t]) => ~HasLast(t, OfficerEvents)

\* What a request has read still holds.
SessionFresh(s) ==
    s.at # "idle" =>
        /\ s.at # "loaded" \/ s.op # "compute" => s.seen = standing
        /\ s.op = "compute" =>
              /\ \A t, u \in s.terms : t = u
              /\ s.at # "loaded" => \A t \in s.terms : ~Skips(standing[t], s.grades, t)
              /\ \A t \in Terms : Graded(s.grades, t) \subseteq Graded(ledger, t)
        /\ s.op \in {"authorise", "batch_authorise"} =>
              \A t \in s.terms : ~Decided(standing[t])

InTurn ==
    /\ OneAtATime
    /\ \A t \in Terms : RowReplays(t)
    /\ \A p \in Sessions : SessionFresh(session[p])

\* What appending an event does to the last events of each kind.
LEMMA LastAppended ==
    ASSUME TypeOK, NEW t \in Terms, NEW e \in HistoryRow,
           history'[t] = Append(history[t], e), NEW E
    PROVE  /\ e.event \in E => LastSays(t, E, e.new)'
           /\ e.event \notin E =>
                 /\ \A status : LastSays(t, E, status) => LastSays(t, E, status)'
                 /\ ~HasLast(t, E) => ~HasLast(t, E)'
<1>1. history[t] \in Seq(HistoryRow)
  BY DEF TypeOK
<1>0. PICK n \in Nat : n = Len(history[t])
  BY <1>1
<1>2. n \in Nat /\ DOMAIN history[t] = 1..n
  BY <1>0, <1>1
<1>3. /\ DOMAIN history'[t] = 1..(n + 1)
      /\ history'[t][n + 1] = e
      /\ \A k \in 1..n : history'[t][k] = history[t][k]
  BY <1>0, <1>1
<1>4. ASSUME e.event \in E PROVE LastSays(t, E, e.new)'
  <2>1. n + 1 \in DOMAIN history'[t] /\ \A j \in DOMAIN history'[t] : j <= n + 1
    BY <1>2, <1>3
  <2>2. IsLast(t, E, n + 1)'
    BY <1>3, <1>4, <2>1 DEF IsLast
  <2> QED  BY <1>3, <2>1, <2>2 DEF LastSays
<1>5. ASSUME e.event \notin E, NEW status, LastSays(t, E, status)
      PROVE  LastSays(t, E, status)'
  <2>1. PICK i \in 1..n : IsLast(t, E, i) /\ history[t][i].new = status
    BY <1>2, <1>5 DEF LastSays
  <2>2. i \in DOMAIN history'[t] /\ history'[t][i] = history[t][i]
    BY <1>2, <1>3, <2>1
  <2>3. ASSUME NEW j \in DOMAIN history'[t], history'[t][j].event \in E PROVE j <= i
    <3>1. j \in 1..n
      BY <1>2, <1>3, <1>5, <2>3
    <3> QED  BY <1>2, <1>3, <2>1, <2>3, <3>1 DEF IsLast
  <2>4. IsLast(t, E, i)'
    BY <2>1, <2>2, <2>3 DEF IsLast
  <2> QED  BY <2>1, <2>2, <2>4 DEF LastSays
<1>6. ASSUME e.event \notin E, ~HasLast(t, E) PROVE ~HasLast(t, E)'
  <2>1. \A j \in 1..(n + 1) : j \in 1..n \/ j = n + 1
    BY <1>2
  <2> QED  BY <1>2, <1>3, <1>6, <2>1 DEF HasLast
<1> QED  BY <1>4, <1>5, <1>6

\* The last event is the one the pages and the replay look up.
LEMMA LastIsIt ==
    ASSUME TypeOK, NEW t \in Terms, NEW E, NEW status, LastSays(t, E, status)
    PROVE  HasLast(t, E) /\ LastEvent(t, E).new = status
<1> DEFINE mine == {i \in DOMAIN history[t] : history[t][i].event \in E}
<1>1. PICK i \in DOMAIN history[t] : IsLast(t, E, i) /\ history[t][i].new = status
  BY DEF LastSays
<1>2. DOMAIN history[t] \subseteq Nat
  BY DEF TypeOK
<1>3. i \in mine /\ \A j \in mine : j <= i
  BY <1>1 DEF IsLast
<1>4. \A k \in mine : (\A j \in mine : j <= k) => k = i
  BY <1>2, <1>3
<1>5. (CHOOSE k \in mine : \A j \in mine : j <= k) = i
  BY <1>3, <1>4
<1> QED  BY <1>1, <1>3, <1>5 DEF HasLast, LastEvent

\* What appending an event does to the words.
LEMMA WordAppended ==
    ASSUME TypeOK, NEW t \in Terms, NEW e \in HistoryRow,
           history'[t] = Append(history[t], e)
    PROVE  /\ e.event \in OfficerEvents /\ e.reason => WordSays(t, e.new)'
           /\ ~(e.event \in OfficerEvents /\ e.reason) /\ worded(t) = {} => worded(t)' = {}
<1>0. PICK n \in Nat : n = Len(history[t])
  BY DEF TypeOK
<1>1. /\ DOMAIN history[t] = 1..n /\ DOMAIN history'[t] = 1..(n + 1)
      /\ history'[t][n + 1] = e
      /\ \A k \in 1..n : history'[t][k] = history[t][k]
  BY <1>0 DEF TypeOK
<1>2. ASSUME e.event \in OfficerEvents, e.reason PROVE WordSays(t, e.new)'
  <2>1. n + 1 \in worded(t)' /\ \A j \in worded(t)' : j <= n + 1
    BY <1>1, <1>2 DEF worded
  <2> QED  BY <1>1, <2>1 DEF WordSays
<1>3. ASSUME ~(e.event \in OfficerEvents /\ e.reason), worded(t) = {}
      PROVE  worded(t)' = {}
  <2>1. \A j \in 1..(n + 1) : j \in 1..n \/ j = n + 1
    OBVIOUS
  <2> QED  BY <1>1, <1>3, <2>1 DEF worded
<1> QED  BY <1>2, <1>3

\* The words are those the student's page looks up.
LEMMA WordIsIt ==
    ASSUME TypeOK, NEW t \in Terms, NEW status, WordSays(t, status)
    PROVE  explanation(t).new = status
<1>1. PICK i \in worded(t) : (\A j \in worded(t) : j <= i) /\ history[t][i].new = status
  BY DEF WordSays
<1>2. worded(t) \subseteq Nat
  BY DEF TypeOK, worded
<1>3. \A k \in worded(t) : (\A j \in worded(t) : j <= k) => k = i
  BY <1>1, <1>2
<1>4. Latest(worded(t)) = i
  BY <1>1, <1>3 DEF Latest
<1> QED  BY <1>1, <1>4 DEF explanation

\* A row that keeps its history.
LEMMA RowStays ==
    ASSUME NEW t \in Terms, RowReplays(t), standing'[t] = standing[t],
           history'[t] = history[t], Graded(ledger, t) \subseteq Graded(ledger', t)
    PROVE  RowReplays(t)'
<1>1. \A E, status : LastSays(t, E, status)' = LastSays(t, E, status)
  BY DEF LastSays, IsLast
<1>2. \A E : HasLast(t, E)' = HasLast(t, E)
  BY DEF HasLast
<1>3. Graded(ledger, t)' = Graded(ledger', t)
  BY DEF Graded
<1>4. worded(t)' = worded(t) /\ \A status : WordSays(t, status)' = WordSays(t, status)
  BY DEF worded, WordSays
<1> QED  BY <1>1, <1>2, <1>3, <1>4 DEF RowReplays, Exists, Decided

-----------------------------------------------------------------------------
(* The sessions.                                                           *)

\* A session that goes on, while the rows stay as they are.
LEMMA SessionMoves ==
    ASSUME TypeOK, InTurn, OneAtATime', UNCHANGED rows, NEW p \in Sessions, NEW r,
           session' = [session EXCEPT ![p] = r], SessionFresh(r)
    PROVE  InTurn'
<1>1. \A t \in Terms : RowReplays(t)'
  BY RowStays DEF InTurn, rows
<1>2. ASSUME NEW q \in Sessions PROVE SessionFresh(session[q])'
  <2>1. PICK s : s = session'[q]
    OBVIOUS
  <2>2. SessionFresh(s)
    BY <2>1 DEF InTurn, TypeOK
  <2>3. SessionFresh(s)'
    BY <2>2 DEF SessionFresh, rows, Decided, Skips, Graded
  <2> QED  BY <2>1, <2>3 DEF SessionFresh, Skips, Graded
<1> QED  BY <1>1, <1>2 DEF InTurn

\* When the request that is at work ends, nobody is at work.
LEMMA AllIdle ==
    ASSUME TypeOK, OneAtATime, NEW p \in Sessions, session[p].at # "idle", Close(p)
    PROVE  OneAtATime' /\ \A q \in Sessions : SessionFresh(session[q])'
<1>1. ASSUME NEW q \in Sessions PROVE session'[q].at = "idle"
  <2>1. CASE q = p
    BY <2>1 DEF Close, Idle, TypeOK
  <2>2. CASE q # p
    <3>1. session'[q] = session[q]
      BY <2>2 DEF Close, TypeOK
    <3>2. session[q].at = "idle"
      BY <2>2 DEF OneAtATime, Busy
    <3> QED  BY <3>1, <3>2
  <2> QED  BY <2>1, <2>2
<1> QED  BY <1>1 DEF OneAtATime, Busy, SessionFresh

LEMMA RefusalInTurn ==
    ASSUME TypeOK, InTurn, NEW p \in Sessions, session[p].at # "idle", Refuse(p)
    PROVE  InTurn'
<1>1. \A t \in Terms : RowReplays(t)'
  BY RowStays DEF InTurn, Refuse, rows
<1> QED  BY <1>1, AllIdle DEF InTurn, Refuse

\* A request that begins reads the rows as they are.
LEMMA LoadInTurn ==
    ASSUME IInv, InTurn, OneAtATime', NEW p \in Sessions, Load(p)
    PROVE  InTurn'
<1>t. TypeOK
  BY DEF IInv
<1>1. ASSUME NEW t \in Terms, ComputeLoad(p, t) PROVE InTurn'
  <2>1. PICK r : r = [Idle EXCEPT !.op = "compute", !.at = "loaded", !.terms = {t},
                                  !.grades = ledger]
    OBVIOUS
  <2>2. r.op = "compute" /\ r.at = "loaded" /\ r.terms = {t} /\ r.grades = ledger
    BY <2>1 DEF Idle
  <2>3. SessionFresh(r)
    BY <2>2 DEF SessionFresh
  <2>4. session' = [session EXCEPT ![p] = r] /\ UNCHANGED rows
    BY <1>1, <2>1 DEF ComputeLoad
  <2> QED  BY <1>t, <2>3, <2>4, SessionMoves
<1>2. ASSUME NEW t \in Terms, NEW reason \in BOOLEAN, AuthoriseLoad(p, t, reason)
      PROVE  InTurn'
  <2>1. PICK r : r = [Idle EXCEPT !.op = "authorise", !.at = "loaded", !.terms = {t},
                                  !.seen = standing, !.reason = reason]
    OBVIOUS
  <2>2. r.op = "authorise" /\ r.terms = {t} /\ r.seen = standing
    BY <2>1 DEF Idle
  <2>3. SessionFresh(r)
    BY <1>2, <2>2 DEF SessionFresh, AuthoriseLoad, Authorisable, Decided
  <2>4. session' = [session EXCEPT ![p] = r] /\ UNCHANGED rows
    BY <1>2, <2>1 DEF AuthoriseLoad
  <2> QED  BY <1>t, <2>3, <2>4, SessionMoves
<1>3. ASSUME NEW S \in SUBSET Terms, NEW reason \in BOOLEAN, BatchAuthoriseLoad(p, S, reason)
      PROVE  InTurn'
  <2>0. PICK T : T = {t \in S : Authorisable(standing[t], reason)}
    OBVIOUS
  <2>1. PICK r : r = [Idle EXCEPT !.op = "batch_authorise", !.at = "loaded",
                                  !.terms = T, !.seen = standing, !.reason = reason]
    OBVIOUS
  <2>2. r.op = "batch_authorise" /\ r.terms = T /\ r.seen = standing
    BY <2>1 DEF Idle
  <2>3. SessionFresh(r)
    BY <2>0, <2>2 DEF SessionFresh, Authorisable, Decided
  <2>4. session' = [session EXCEPT ![p] = r] /\ UNCHANGED rows
    BY <1>3, <2>0, <2>1 DEF BatchAuthoriseLoad
  <2> QED  BY <1>t, <2>3, <2>4, SessionMoves
<1>4. ASSUME NEW t \in Terms, NEW new_status \in Chosen, OverrideLoad(p, t, new_status)
      PROVE  InTurn'
  <2>1. PICK r : r = [Idle EXCEPT !.op = "override", !.at = "loaded", !.terms = {t},
                                  !.seen = standing, !.target = new_status, !.reason = TRUE]
    OBVIOUS
  <2>2. r.op = "override" /\ r.terms = {t} /\ r.seen = standing
    BY <2>1 DEF Idle
  <2>3. SessionFresh(r)
    BY <2>2 DEF SessionFresh
  <2>4. session' = [session EXCEPT ![p] = r] /\ UNCHANGED rows
    BY <1>4, <2>1 DEF OverrideLoad
  <2> QED  BY <1>t, <2>3, <2>4, SessionMoves
<1> QED  BY <1>1, <1>2, <1>3, <1>4 DEF Load

\* The reads of the computation.
LEMMA ReadInTurn ==
    ASSUME IInv, InTurn, OneAtATime', NEW p \in Sessions, ComputeRead(p) \/ ComputePrior(p)
    PROVE  InTurn'
<1>1. /\ TypeOK /\ session[p] \in SessionRow /\ SessionFresh(session[p])
      /\ session[p].op = "compute" /\ session[p].at # "idle"
  BY DEF IInv, TypeOK, InTurn, ComputeRead, ComputePrior, At
<1>2. /\ \A t, u \in session[p].terms : t = u
      /\ \A t \in Terms : Graded(session[p].grades, t) \subseteq Graded(ledger, t)
  BY <1>1 DEF SessionFresh
<1>3. CASE Refuse(p)
  BY <1>1, <1>3, RefusalInTurn
<1>4. CASE ComputeRead(p) /\ ~Refuse(p)
  <2>1. PICK r : r = [session[p] EXCEPT !.at = "read", !.seen = standing]
    OBVIOUS
  <2>2. session' = [session EXCEPT ![p] = r] /\ UNCHANGED rows
    BY <1>1, <1>4, <2>1 DEF ComputeRead, TypeOK
  <2>3. /\ r.op = "compute" /\ r.at = "read" /\ r.seen = standing
        /\ r.terms = session[p].terms /\ r.grades = session[p].grades
    BY <1>1, <2>1 DEF SessionRow
  <2>4. TermOf(p) \in r.terms /\ ~Skips(standing[TermOf(p)], r.grades, TermOf(p))
    BY <1>1, <1>4, <2>3, TermOfType DEF ComputeRead
  <2>5. \A t \in r.terms : ~Skips(standing[t], r.grades, t)
    BY <1>2, <2>3, <2>4
  <2>6. SessionFresh(r)
    BY <1>2, <2>3, <2>5 DEF SessionFresh
  <2> QED  BY <1>1, <2>2, <2>6, SessionMoves
<1>5. CASE ComputePrior(p)
  <2>1. PICK prior : session' = [session EXCEPT ![p].at = "proposed", ![p].prior = prior]
    BY <1>5 DEF ComputePrior
  <2>2. PICK r : r = [session[p] EXCEPT !.at = "proposed", !.prior = prior]
    OBVIOUS
  <2>3. session' = [session EXCEPT ![p] = r] /\ UNCHANGED rows
    BY <1>1, <1>5, <2>1, <2>2 DEF ComputePrior, TypeOK
  <2>4. /\ r.op = "compute" /\ r.at = "proposed" /\ r.seen = session[p].seen
        /\ r.terms = session[p].terms /\ r.grades = session[p].grades
    BY <1>1, <2>2 DEF SessionRow
  <2>5. session[p].at = "read"
    BY <1>5 DEF ComputePrior, At
  <2>6. SessionFresh(r)
    BY <1>1, <1>2, <2>4, <2>5 DEF SessionFresh
  <2> QED  BY <1>1, <2>3, <2>6, SessionMoves
<1> QED  BY <1>3, <1>4, <1>5

\* A term whose row and history a step leaves alone, and whose ledger does not
\* change, keeps replaying.
LEMMA RowLeft ==
    ASSUME InTurn, NEW t \in Terms, standing'[t] = standing[t],
           history'[t] = history[t], ledger' = ledger
    PROVE  RowReplays(t)'
  BY RowStays DEF InTurn

\* A proposal in turn rewrites an undecided row of a graded term.
LEMMA ComputeInTurn ==
    ASSUME IInv, InTurn, NEW p \in Sessions, ComputeCommit(p), ~Refuse(p)
    PROVE  InTurn' /\ KeepsDecided
<1>1. /\ session[p].at = "proposed" /\ session[p].op = "compute"
      /\ TypeOK /\ SessionFresh(session[p])
  BY DEF ComputeCommit, At, IInv, InTurn
<1>2. PICK t \in Terms : t = TermOf(p) /\ t \in session[p].terms
  BY <1>1, TermOfType
<1>3. PICK row, v, prior :
          /\ row = standing[t] /\ prior = session[p].prior
          /\ v = evaluate_status(build_compute_input(session[p].grades, t, session[p].prior))
  OBVIOUS
<1>4. /\ session[p].seen[t] = row
      /\ ~Skips(row, session[p].grades, t)
      /\ Graded(session[p].grades, t) \subseteq Graded(ledger, t)
  BY <1>1, <1>2, <1>3 DEF SessionFresh
<1>5. row \in StandingRow /\ prior \in Statuses \cup {NoStatus}
  BY <1>1, <1>3 DEF TypeOK, SessionRow
<1>6. v \in Statuses /\ v # NoStatus
  BY <1>3, VerdictType, RulesAssumption DEF Statuses
<1>7. row.final = NoStatus /\ Expected[t] \subseteq Graded(ledger, t)
  BY <1>4 DEF Skips
<1>8. PICK entry, put :
          /\ entry = [event |-> IF Exists(row) THEN "RE_COMPUTED" ELSE "PROPOSED",
                      previous |-> row.proposed, new |-> v, reason |-> TRUE]
          /\ put = [proposed |-> Orm(row.proposed, v, row.proposed),
                    final    |-> row.final,
                    review   |-> Orm(row.review, v = "INCOMPLETE", row.review),
                    prior    |-> Orm(row.prior, prior, row.prior),
                    computed |-> clock + 1]
  OBVIOUS
<1>9. /\ standing' = [standing EXCEPT ![t] = put]
      /\ ledger' = ledger /\ Close(p)
      /\ RecordEvents({t}, [u \in {t} |-> entry])
  BY <1>2, <1>3, <1>4, <1>8 DEF ComputeCommit, Proposal, propose_standing, requires_review
<1>10. /\ standing'[t] = put /\ history'[t] = Append(history[t], entry)
       /\ \A u \in Terms \ {t} : standing'[u] = standing[u] /\ history'[u] = history[u]
  BY <1>1, <1>9 DEF TypeOK, RecordEvents
<1>11. /\ entry \in HistoryRow /\ entry.new = v
       /\ entry.event \in AgentEvents
       /\ entry.event \notin OfficerEvents
  BY <1>5, <1>6, <1>8 DEF HistoryRow, Events, AgentEvents, OfficerEvents, StandingRow
<1>12. /\ put.final = NoStatus /\ put.proposed = v
       /\ put.review <=> v = "INCOMPLETE"
  <2>1. put.proposed = v
    BY <1>8 DEF Orm
  <2>2. put.review = Orm(row.review, v = "INCOMPLETE", row.review)
    BY <1>8
  <2>3. row.review \in BOOLEAN
    BY <1>5 DEF StandingRow
  <2>4. put.review <=> v = "INCOMPLETE"
    BY <2>2, <2>3 DEF Orm
  <2> QED  BY <1>7, <1>8, <2>1, <2>4
<1>13. RowReplays(t)'
  <2>1. ~HasLast(t, OfficerEvents)
    BY <1>3, <1>7 DEF InTurn, RowReplays, Decided
  <2>2. ~HasLast(t, OfficerEvents)'
    BY <1>1, <1>10, <1>11, <2>1, LastAppended
  <2>3. LastSays(t, AgentEvents, v)'
    BY <1>1, <1>10, <1>11, LastAppended
  <2>4. /\ standing'[t].final = NoStatus /\ standing'[t].proposed = v
        /\ standing'[t].review <=> v = "INCOMPLETE"
    BY <1>10, <1>12
  <2>5. Expected[t] \subseteq Graded(ledger, t)'
    BY <1>7, <1>9 DEF Graded
  <2> QED  BY <2>2, <2>3, <2>4, <2>5 DEF RowReplays, Decided, Exists
<1>14. \A u \in Terms : RowReplays(u)'
  BY <1>9, <1>10, <1>13, RowLeft
<1>15. InTurn'
  BY <1>1, <1>9, <1>14, AllIdle DEF InTurn
<1>16. KeepsDecided
  BY <1>3, <1>7, <1>10 DEF KeepsDecided
<1> QED  BY <1>15, <1>16

\* A decision in turn accepts the proposals as they stand, of undecided rows.
LEMMA AuthoriseInTurn ==
    ASSUME IInv, InTurn, NEW p \in Sessions, AuthoriseCommit(p) \/ BatchAuthoriseCommit(p)
    PROVE  InTurn' /\ KeepsDecided
<1>1. /\ session[p].at = "loaded" /\ session[p].op \in {"authorise", "batch_authorise"}
      /\ TypeOK /\ SessionFresh(session[p]) /\ SessionOK(p)
  BY DEF AuthoriseCommit, BatchAuthoriseCommit, At, IInv, InTurn
<1>2. PICK S, batch, reason : /\ S = session[p].terms /\ reason = session[p].reason
                              /\ batch = (session[p].op = "batch_authorise")
  OBVIOUS
<1>3. /\ session[p].seen = standing /\ S \subseteq Terms
      /\ \A t \in S : Exists(standing[t]) /\ ~Decided(standing[t])
      /\ reason \in BOOLEAN /\ standing \in [Terms -> StandingRow]
  BY <1>1, <1>2 DEF SessionFresh, SessionOK, TypeOK, SessionRow
<1>4. PICK entry : entry =
          [t \in S |-> [event |-> "AUTHORISED", previous |-> standing[t].proposed,
                        new |-> standing[t].proposed,
                        reason |-> reason /\ (batch => standing[t].review)]]
  OBVIOUS
<1>5. /\ standing' = [t \in Terms |->
             IF t \in S THEN [standing[t] EXCEPT !.final = standing[t].proposed]
             ELSE standing[t]]
      /\ RecordEvents(S, entry) /\ Close(p) /\ ledger' = ledger
  BY <1>2, <1>3, <1>4 DEF AuthoriseCommit, BatchAuthoriseCommit, Authorise
<1>6. ASSUME NEW t \in S
      PROVE  /\ standing'[t].final = standing[t].proposed
             /\ standing'[t].proposed = standing[t].proposed
             /\ standing'[t].review = standing[t].review
             /\ standing[t].proposed \in Statuses
             /\ standing[t].review \in BOOLEAN
  <2>1. standing[t] \in StandingRow
    BY <1>3
  <2>2. standing'[t] = [standing[t] EXCEPT !.final = standing[t].proposed]
    BY <1>3, <1>5
  <2> QED  BY <1>3, <2>1, <2>2 DEF StandingRow, Exists
<1>7. \A t \in Terms \ S : standing'[t] = standing[t] /\ history'[t] = history[t]
  BY <1>3, <1>5 DEF RecordEvents
<1>8. ASSUME NEW t \in S PROVE RowReplays(t)'
  <2>1. PICK e : e = entry[t]
    OBVIOUS
  <2>2. history'[t] = Append(history[t], e)
    BY <1>3, <1>5, <2>1 DEF RecordEvents
  <2>3. /\ e \in HistoryRow /\ e.new = standing[t].proposed
        /\ e.event \in OfficerEvents /\ e.event \notin AgentEvents
    <3>1. e = [event |-> "AUTHORISED", previous |-> standing[t].proposed,
               new |-> standing[t].proposed,
               reason |-> reason /\ (batch => standing[t].review)]
      BY <1>4, <2>1
    <3>2. (reason /\ (batch => standing[t].review)) \in BOOLEAN
      OBVIOUS
    <3> QED  BY <1>6, <3>1, <3>2 DEF HistoryRow, Events, OfficerEvents, AgentEvents
  <2>4. /\ RowReplays(t) /\ t \in Terms /\ Exists(standing[t]) /\ ~Decided(standing[t])
    BY <1>3 DEF InTurn
  <2>5. worded(t) = {}
    BY <2>4 DEF RowReplays, HasLast, worded
  <2>6. WordSays(t, e.new)' \/ worded(t)' = {}
    BY <1>1, <2>2, <2>3, <2>4, <2>5, WordAppended
  <2>7. LastSays(t, OfficerEvents, e.new)'
    BY <1>1, <2>2, <2>3, <2>4, LastAppended
  <2>8. LastSays(t, AgentEvents, e.new)'
    <3>1. LastSays(t, AgentEvents, e.new)
      BY <2>3, <2>4 DEF RowReplays
    <3> QED  BY <1>1, <2>2, <2>3, <2>4, <3>1, LastAppended
  <2>9. /\ standing'[t].final = e.new /\ standing'[t].proposed = e.new
        /\ standing'[t].review <=> e.new = "INCOMPLETE"
    <3>1. standing[t].review <=> standing[t].proposed = "INCOMPLETE"
      BY <2>4 DEF RowReplays
    <3> QED  BY <1>6, <2>3, <3>1
  <2>10. (Expected[t] \subseteq Graded(ledger, t))'
    BY <1>5, <2>4 DEF RowReplays, Graded
  <2>11. e.new # NoStatus
    BY <1>6, <2>3, RulesAssumption DEF Statuses
  <2>12. Decided(standing[t])'
    BY <2>9, <2>11 DEF Decided
  <2>13. (Exists(standing[t]) => LastSays(t, AgentEvents, standing[t].proposed))'
    BY <2>8, <2>9
  <2>14. /\ LastSays(t, OfficerEvents, standing[t].final)'
         /\ (standing[t].final = standing[t].proposed)'
    BY <2>7, <2>9
  <2>15. (WordSays(t, standing[t].final) \/ worded(t) = {})'
    BY <2>6, <2>9 DEF WordSays, worded
  <2> QED  BY <2>9, <2>10, <2>12, <2>13, <2>14, <2>15 DEF RowReplays
<1>9. \A t \in Terms : RowReplays(t)'
  BY <1>5, <1>7, <1>8, RowLeft
<1>10. InTurn'
  BY <1>1, <1>5, <1>9, AllIdle DEF InTurn
<1>11. KeepsDecided
  BY <1>6, <1>7 DEF KeepsDecided
<1> QED  BY <1>10, <1>11

\* An override in turn replaces the status that is final.
LEMMA OverrideInTurn ==
    ASSUME IInv, InTurn, NEW p \in Sessions, OverrideCommit(p)
    PROVE  InTurn' /\ KeepsDecided
<1>1. /\ session[p].at = "loaded" /\ session[p].op = "override"
      /\ TypeOK /\ SessionFresh(session[p]) /\ SessionOK(p)
  BY DEF OverrideCommit, At, IInv, InTurn
<1>2. PICK t \in Terms : t = TermOf(p) /\ t \in session[p].terms
  BY <1>1, TermOfType
<1>3. PICK row, target : row = standing[t] /\ target = session[p].target
  OBVIOUS
<1>4. /\ session[p].seen[t] = row /\ Exists(row)
      /\ target \in Statuses /\ target # NoStatus /\ row \in StandingRow
  BY <1>1, <1>2, <1>3, RulesAssumption DEF SessionFresh, SessionOK, TypeOK, Statuses
<1>5. PICK e : e =
          [event |-> "OVERRIDDEN",
           previous |-> IF row.final # NoStatus THEN row.final ELSE row.proposed,
           new |-> target, reason |-> TRUE]
  OBVIOUS
<1>6. /\ standing' = [standing EXCEPT ![t].final = Orm(row.final, target, @)]
      /\ RecordEvents({t}, [u \in {t} |-> e])
      /\ Close(p) /\ ledger' = ledger
  BY <1>2, <1>3, <1>4, <1>5 DEF OverrideCommit
<1>7. /\ standing'[t].final = target
      /\ standing'[t].proposed = row.proposed
      /\ standing'[t].review = row.review
      /\ history'[t] = Append(history[t], e)
      /\ \A u \in Terms \ {t} : standing'[u] = standing[u] /\ history'[u] = history[u]
  <2>1. Orm(row.final, target, row.final) = target
    BY DEF Orm
  <2>2. standing' = [standing EXCEPT ![t] = [row EXCEPT !.final = target]]
    BY <1>1, <1>3, <1>6, <2>1 DEF TypeOK
  <2>3. standing'[t] = [row EXCEPT !.final = target]
    BY <1>1, <2>2 DEF TypeOK
  <2>4. /\ [row EXCEPT !.final = target].final = target
        /\ [row EXCEPT !.final = target].proposed = row.proposed
        /\ [row EXCEPT !.final = target].review = row.review
    BY <1>4 DEF StandingRow
  <2> QED  BY <1>1, <1>6, <2>2, <2>3, <2>4 DEF TypeOK, RecordEvents
<1>8. /\ e \in HistoryRow /\ e.new = target
      /\ e.event \in OfficerEvents /\ e.event \notin AgentEvents /\ e.reason
  BY <1>4, <1>5 DEF HistoryRow, Events, OfficerEvents, AgentEvents, StandingRow, Exists
<1>9. RowReplays(t)'
  <2>1. RowReplays(t)
    BY DEF InTurn
  <2>2. LastSays(t, OfficerEvents, target)' /\ WordSays(t, target)'
    BY <1>1, <1>7, <1>8, LastAppended, WordAppended
  <2>3. LastSays(t, AgentEvents, row.proposed)'
    <3>1. LastSays(t, AgentEvents, row.proposed)
      BY <1>3, <1>4, <2>1 DEF RowReplays
    <3>2. PICK status : status = row.proposed
      OBVIOUS
    <3>3. LastSays(t, AgentEvents, status)'
      BY <1>1, <1>7, <1>8, <3>1, <3>2, LastAppended
    <3> QED  BY <1>3, <3>2, <3>3 DEF LastSays, IsLast
  <2>4. (standing[t].review <=> standing[t].proposed = "INCOMPLETE")'
    BY <1>3, <1>4, <1>7, <2>1 DEF RowReplays
  <2>5. (Expected[t] \subseteq Graded(ledger, t))'
    BY <1>3, <1>4, <1>6, <2>1 DEF RowReplays, Graded
  <2>6. Decided(standing[t])'
    BY <1>4, <1>7 DEF Decided
  <2>7. LastSays(t, AgentEvents, standing[t].proposed)'
    BY <1>7, <2>3 DEF LastSays, IsLast
  <2>8. /\ LastSays(t, OfficerEvents, standing[t].final)'
        /\ WordSays(t, standing[t].final)'
    BY <1>7, <2>2 DEF LastSays, IsLast, WordSays, worded
  <2> QED  BY <2>4, <2>5, <2>6, <2>7, <2>8 DEF RowReplays
<1>10. \A u \in Terms : RowReplays(u)'
  BY <1>6, <1>7, <1>9, RowLeft
<1>11. InTurn'
  BY <1>1, <1>6, <1>10, AllIdle DEF InTurn
<1>12. KeepsDecided
  BY <1>3, <1>7 DEF KeepsDecided
<1> QED  BY <1>11, <1>12

\* A grade that becomes official only adds to the graded courses.
LEMMA GradeInTurn ==
    ASSUME IInv, InTurn, NEW t \in Terms, NEW c \in Courses, GradeAuthorised(t, c)
    PROVE  InTurn'
<1>1. PICK letter \in Marks : ledger' = [ledger EXCEPT ![t][c] = letter]
  BY DEF GradeAuthorised
<1>2. /\ UNCHANGED <<standing, history, session>> /\ ledger[t][c] = NoLetter
      /\ ledger \in Ledgers
  BY DEF GradeAuthorised, IInv, TypeOK
<1>3. \A u \in Terms, d \in Courses : ledger[u][d] # NoLetter => ledger'[u][d] = ledger[u][d]
  BY <1>1, <1>2 DEF Ledgers
<1>4. \A u \in Terms : Graded(ledger, u) \subseteq Graded(ledger', u)
  BY <1>3 DEF Graded
<1>5. \A u \in Terms : RowReplays(u)'
  BY <1>2, <1>4, RowStays DEF InTurn
<1>6. \A q \in Sessions : SessionFresh(session[q])'
  <2> SUFFICES ASSUME NEW q \in Sessions PROVE SessionFresh(session[q])'
    OBVIOUS
  <2>1. PICK s : s = session[q]
    OBVIOUS
  <2>2. SessionFresh(s)
    BY <2>1 DEF InTurn
  <2>3. \A u \in Terms : Graded(ledger, u) \subseteq Graded(ledger, u)'
    BY <1>4 DEF Graded
  <2>4. SessionFresh(s)'
    BY <1>2, <2>2, <2>3 DEF SessionFresh, Decided, Skips, Graded
  <2> QED  BY <1>2, <2>1, <2>4 DEF SessionFresh, Skips, Graded
<1>7. OneAtATime'
  BY <1>2 DEF InTurn, OneAtATime, Busy
<1> QED  BY <1>5, <1>6, <1>7 DEF InTurn

LEMMA NextInTurn ==
    ASSUME IInv, InTurn, OneAtATime', Next
    PROVE  InTurn' /\ KeepsDecided
<1>0. (standing' = standing) => KeepsDecided
  BY DEF KeepsDecided
<1>1. ASSUME NEW p \in Sessions, Load(p) PROVE InTurn' /\ KeepsDecided
  <2>1. standing' = standing
    BY <1>1 DEF Load, ComputeLoad, AuthoriseLoad, BatchAuthoriseLoad, OverrideLoad, rows
  <2> QED  BY <1>0, <1>1, <2>1, LoadInTurn
<1>2. ASSUME NEW p \in Sessions, session[p].at # "idle", Refuse(p)
      PROVE  InTurn' /\ KeepsDecided
  BY <1>0, <1>2, RefusalInTurn DEF Refuse, rows, IInv
<1>3. ASSUME NEW p \in Sessions, Step(p) PROVE InTurn' /\ KeepsDecided
  <2>1. CASE ComputeRead(p) \/ ComputePrior(p)
    <3>1. standing' = standing
      BY <2>1 DEF ComputeRead, ComputePrior, Refuse, rows
    <3> QED  BY <1>0, <2>1, <3>1, ReadInTurn
  <2>2. CASE ComputeCommit(p)
    <3>1. session[p].at # "idle"
      BY <2>2 DEF ComputeCommit, At
    <3> QED  BY <1>2, <2>2, <3>1, ComputeInTurn
  <2>3. CASE AuthoriseCommit(p) \/ BatchAuthoriseCommit(p)
    BY <2>3, AuthoriseInTurn
  <2>4. CASE OverrideCommit(p)
    BY <2>4, OverrideInTurn
  <2> QED  BY <1>3, <2>1, <2>2, <2>3, <2>4 DEF Step
<1>4. ASSUME NEW t \in Terms, NEW c \in Courses, GradeAuthorised(t, c)
      PROVE  InTurn' /\ KeepsDecided
  BY <1>0, <1>4, GradeInTurn DEF GradeAuthorised
<1> QED  BY <1>1, <1>2, <1>3, <1>4 DEF Next, Abort

LEMMA InitInTurn == Init => InTurn
<1> SUFFICES ASSUME Init PROVE InTurn
  OBVIOUS
<1>1. \A t \in Terms : standing[t] = NoRow /\ history[t] = <<>>
  BY DEF Init, NoRows
<1>2. \A t \in Terms : RowReplays(t)
  BY <1>1 DEF RowReplays, NoRow, Exists, Decided, HasLast
<1>3. \A p \in Sessions : session[p].at = "idle"
  BY DEF Init, Idle
<1> QED  BY <1>2, <1>3 DEF InTurn, OneAtATime, Busy, SessionFresh

\* Both invariants hold while requests take turns; the first one always.
LEMMA TurnsInvariant == TurnsSpec => [](IInv /\ (turns => InTurn))
<1> DEFINE Inv == IInv /\ (turns => InTurn)
<1>1. TurnsInit => Inv
  BY InitIInv, InitInTurn DEF TurnsInit
<1>2. Inv /\ [TurnsNext]_<<vars, turns>> => Inv'
  <2> SUFFICES ASSUME Inv, [TurnsNext]_<<vars, turns>> PROVE Inv'
    OBVIOUS
  <2>1. IInv'
    BY NextIInv DEF TurnsNext
  <2>2. CASE TurnsNext
    BY <2>1, <2>2, NextInTurn DEF TurnsNext
  <2>3. CASE UNCHANGED <<vars, turns>>
    <3>1. UNCHANGED rows /\ UNCHANGED <<session, turns>>
      BY <2>3 DEF vars, rows
    <3>2. InTurn => InTurn'
      BY <3>1 DEF rows, InTurn, OneAtATime, Busy, SessionFresh, RowReplays, LastSays, IsLast,
                  HasLast, WordSays, worded, Exists, Decided, Graded, Skips
    <3> QED  BY <2>1, <3>1, <3>2
  <2> QED  BY <2>2, <2>3
<1> HIDE DEF Inv
<1>3. TurnsSpec => []Inv
  BY <1>1, <1>2, PTL DEF TurnsSpec
<1> QED  BY <1>3 DEF Inv

-----------------------------------------------------------------------------
(* What the readers of the rows see.                                       *)

LEMMA RowsReplay == ASSUME IInv, InTurn PROVE HistoryReplays
<1> SUFFICES ASSUME NEW t \in Terms, Exists(standing[t])
             PROVE  /\ HasLast(t, AgentEvents)
                    /\ standing[t].proposed = LastEvent(t, AgentEvents).new
                    /\ standing[t].final =
                           IF HasLast(t, OfficerEvents) THEN LastEvent(t, OfficerEvents).new
                           ELSE NoStatus
  BY DEF HistoryReplays, AgentEvents
<1>1. TypeOK /\ RowReplays(t)
  BY DEF IInv, InTurn
<1>2. LastSays(t, AgentEvents, standing[t].proposed)
  BY <1>1 DEF RowReplays
<1>3. HasLast(t, AgentEvents) /\ LastEvent(t, AgentEvents).new = standing[t].proposed
  BY <1>1, <1>2, LastIsIt
<1>4. CASE Decided(standing[t])
  <2>1. LastSays(t, OfficerEvents, standing[t].final)
    BY <1>1, <1>4 DEF RowReplays
  <2>2. HasLast(t, OfficerEvents) /\ LastEvent(t, OfficerEvents).new = standing[t].final
    BY <1>1, <2>1, LastIsIt
  <2> QED  BY <1>3, <2>2
<1>5. CASE ~Decided(standing[t])
  <2>1. ~HasLast(t, OfficerEvents) /\ standing[t].final = NoStatus
    BY <1>1, <1>5 DEF RowReplays, Decided
  <2> QED  BY <1>3, <2>1
<1> QED  BY <1>4, <1>5

LEMMA WordsFit == ASSUME IInv, InTurn PROVE ExplanationFits
<1> SUFFICES ASSUME NEW t \in Terms, Decided(standing[t])
             PROVE  explanation(t).new = standing[t].final
  BY DEF ExplanationFits, get_my_standings
<1>1. TypeOK /\ RowReplays(t) /\ Exists(standing[t])
  BY DEF IInv, InTurn, Decided
<1>2. CASE WordSays(t, standing[t].final)
  BY <1>1, <1>2, WordIsIt
<1>3. CASE worded(t) = {} /\ standing[t].final = standing[t].proposed
  <2>1. LastSays(t, AgentEvents, standing[t].proposed)
    BY <1>1 DEF RowReplays
  <2>2. LastEvent(t, AgentEvents).new = standing[t].proposed
    BY <1>1, <2>1, LastIsIt
  <2> QED  BY <1>3, <2>2 DEF explanation, AgentEvents
<1> QED  BY <1>1, <1>2, <1>3 DEF RowReplays

\* A nonempty set of terms has one latest term.
LEMMA LatestIsLargest ==
    ASSUME NEW n \in Nat, NEW T, T \subseteq 1..n, T # {}
    PROVE  /\ Latest(T) \in T /\ \A u \in T : u <= Latest(T)
           /\ \A t \in T : (\A u \in T : u <= t) => t = Latest(T)
<1> DEFINE D == {n - u : u \in T}
<1>1. D \subseteq Nat /\ D # {}
  <2>1. \A u \in T : n - u \in Nat
    <3> SUFFICES ASSUME NEW u \in T PROVE n - u \in Nat
      OBVIOUS
    <3>1. u \in 1..n
      OBVIOUS
    <3> QED  BY <3>1
  <2>2. PICK u \in T : TRUE
    OBVIOUS
  <2>3. n - u \in D
    BY Zenon
  <2> QED  BY <2>1, <2>3, Zenon
<1> HIDE DEF D
<1>2. PICK d \in D : \A e \in D : ~(<<e, d>> \in OpToRel(<, Nat))
  BY <1>1, NatLessThanWellFounded, WFMin, Zenon
<1>3. \A e \in D : ~(e < d)
  BY <1>1, <1>2 DEF OpToRel
<1>4. PICK t \in T : d = n - t
  BY <1>2 DEF D
<1>5. \A u \in T : n - u \in D
  BY DEF D
<1>6. \A u \in T : u <= t
  BY <1>3, <1>4, <1>5
<1>7. Latest(T) \in T /\ \A u \in T : u <= Latest(T)
  BY <1>6 DEF Latest
<1>8. ASSUME NEW s \in T, \A u \in T : u <= s PROVE s = Latest(T)
  <2>1. PICK m \in T : m = Latest(T)
    BY <1>7
  <2>2. s \in Nat /\ m \in Nat /\ s <= m /\ m <= s
    BY <1>7, <1>8, <2>1
  <2> QED  BY <2>1, <2>2
<1> QED  BY <1>7, <1>8

\* The last earlier row, when it is decided, is the last earlier decision.
LEMMA SlipFits == ASSUME IInv PROVE CarryFits
<1> SUFFICES ASSUME NEW t \in Terms, Decided(prior_standing(t))
             PROVE  carry(t) = prior_standing(t).final
  BY DEF CarryFits
<1> DEFINE E == {u \in 1..(t - 1) : Exists(standing[u])}
           D == {u \in 1..(t - 1) : Decided(standing[u])}
<1>1. t - 1 \in Nat /\ 1..(t - 1) \subseteq Terms
  BY RulesAssumption DEF Terms
<1>2. E # {}
  BY DEF prior_standing, Decided, NoRow
<1>3. prior_standing(t) = standing[Latest(E)]
  BY <1>2 DEF prior_standing
<1>4. Latest(E) \in E /\ \A u \in E : u <= Latest(E)
  BY <1>1, <1>2, LatestIsLargest
<1>5. D \subseteq E
  BY <1>1 DEF IInv, Decided
<1>6. Latest(E) \in D
  BY <1>3, <1>4
<1>7. carry(t) = standing[Latest(D)].final
  BY <1>6 DEF carry
<1> HIDE DEF D, E
<1>8. Latest(E) = Latest(D)
  <2>1. D \subseteq 1..(t - 1)
    BY DEF D
  <2> QED  BY <1>1, <1>4, <1>5, <1>6, <2>1, LatestIsLargest
<1> QED  BY <1>3, <1>7, <1>8

\* The preview counts every other graded term, the rules the earlier ones: it
\* never counts fewer.
LEMMA TermsBefore ==
    ASSUME NEW t \in Terms
    PROVE  LET others == {u \in Terms \ {t} : Graded(ledger, u) # {}}
           IN  /\ EarlierOnly(ledger, t) \subseteq others
               /\ Cardinality(others) <= 1 => Cardinality(EarlierOnly(ledger, t)) <= 1
<1> DEFINE others == {u \in Terms \ {t} : Graded(ledger, u) # {}}
           before == EarlierOnly(ledger, t)
<1>1. before \subseteq others /\ others \subseteq Terms
  BY RulesAssumption DEF EarlierOnly, Terms
<1>2. IsFiniteSet(Terms)
  BY FS_Interval, RulesAssumption DEF Terms
<1> HIDE DEF others, before
<1>3. IsFiniteSet(others)
  BY <1>1, <1>2, FS_Subset
<1>4. /\ IsFiniteSet(before) /\ Cardinality(before) <= Cardinality(others)
  BY <1>1, <1>3, FS_Subset
<1>5. Cardinality(before) \in Nat /\ Cardinality(others) \in Nat
  BY <1>3, <1>4, FS_CardinalityType
<1> QED  BY <1>1, <1>4, <1>5 DEF others, before

LEMMA LinesFit ==
    ASSUME IInv, InTurn, NEW t \in Terms, NEW original, NEW dropped, NEW added,
           expected_courses(original, dropped, added) = Expected[t],
           Expected[t] \subseteq Courses
    PROVE  PreviewFits(t, original, dropped, added)
<1> DEFINE preview == compose_student_preview(t, original, dropped, added)
           ctx == build_compute_input(ledger, t, NoStatus)
           others == {u \in Terms \ {t} : Graded(ledger, u) # {}}
<1>1. /\ preview.ungraded = (Expected[t] \ dropped) \ Graded(ledger, t)
      /\ preview.existing = standing[t]
      /\ preview.is_first_semester <=> others = {}
      /\ preview.is_first_year <=> Cardinality(others) <= 1
  BY DEF compose_student_preview
<1>2. /\ ctx.is_first_semester <=> EarlierOnly(ledger, t) = {}
      /\ ctx.is_first_year <=> Cardinality(EarlierOnly(ledger, t)) <= 1
  BY DEF build_compute_input
<1>3. Skips(NoRow, ledger, t) <=> ~(Expected[t] \subseteq Graded(ledger, t))
  BY DEF Skips, NoRow
<1> HIDE DEF preview, ctx, others
<1>4. preview.ungraded # {} => Skips(NoRow, ledger, t)
  BY <1>1, <1>3
<1>5. Skips(NoRow, ledger, t) /\ dropped \cap added = {} => preview.ungraded # {}
  <2>1. Expected[t] = (original \ dropped) \cup added
    BY DEF expected_courses
  <2> QED  BY <1>1, <1>3, <2>1
<1>6. Exists(preview.existing) => preview.ungraded = {}
  BY <1>1 DEF InTurn, RowReplays
<1>7. EarlierOnly(ledger, t) \subseteq others
      /\ (Cardinality(others) <= 1 => Cardinality(EarlierOnly(ledger, t)) <= 1)
  BY TermsBefore DEF others
<1>8. /\ preview.is_first_semester => ctx.is_first_semester
      /\ preview.is_first_year => ctx.is_first_year
  BY <1>1, <1>2, <1>7
<1> QED  BY <1>4, <1>5, <1>6, <1>8 DEF PreviewFits, preview, ctx

LEMMA ReadersSee == ASSUME IInv, InTurn PROVE ViewsFit
<1>1. HeldInQueue
  <2> SUFFICES ASSUME NEW t \in Terms, Exists(standing[t]), ~Decided(standing[t])
               PROVE  standing[t].proposed = "INCOMPLETE" <=> t \in exceptions
    BY DEF HeldInQueue, list_standings
  <2>1. standing[t].review <=> standing[t].proposed = "INCOMPLETE"
    BY DEF InTurn, RowReplays
  <2>2. t \in exceptions <=> standing[t].review
    BY DEF exceptions, Undecided, Decided
  <2> QED  BY <2>1, <2>2
<1>2. \A t \in Terms, original, dropped, added \in SUBSET Courses :
          /\ dropped \subseteq original
          /\ expected_courses(original, dropped, added) = Expected[t]
          => PreviewFits(t, original, dropped, added)
  BY LinesFit, StandingAssumption
<1> QED  BY <1>1, <1>2, SlipFits DEF ViewsFit

\* While requests take turns a standing row is what its history says
\* (academic_standing_history), no proposal exists for a term with an ungraded
\* course, and the roster preview, the queue of exceptions and the filing slip
\* agree with it.
THEOREM RecordsInTurn == TurnsSpec => []TurnsRecords
<1>1. IInv /\ (turns => InTurn) => TurnsRecords
  <2>1. IInv /\ InTurn => ProposedWhenGraded
    BY DEF ProposedWhenGraded, InTurn, RowReplays
  <2> QED  BY <2>1, RowsReplay, ReadersSee DEF TurnsRecords
<1> QED  BY <1>1, TurnsInvariant, PTL

\* While requests take turns the agent never proposes anew over a decision
\* (compute_term_standing skips decided rows), and the words the student reads
\* next to a decision are those of an event that states that status.
THEOREM DecidedStays == TurnsSpec => TurnsSkipDecided
<1> DEFINE Inv == IInv /\ (turns => InTurn)
           Words == turns => ExplanationFits
           Kept == turns => KeepsDecided /\ ExplanationFits'
<1>1. Inv => Words
  BY WordsFit
<1>2. Inv /\ Words' /\ [TurnsNext]_<<vars, turns>> => [Kept]_<<vars, turns>>
  <2> SUFFICES ASSUME Inv, Words', TurnsNext, turns PROVE KeepsDecided /\ ExplanationFits'
    BY DEF Kept
  <2>1. KeepsDecided
    BY NextInTurn DEF TurnsNext
  <2>2. turns'
    BY DEF TurnsNext
  <2> QED  BY <2>1, <2>2
<1>3. TurnsSpec => []Inv
  BY TurnsInvariant
<1>4. TurnsSpec => [][TurnsNext]_<<vars, turns>>
  BY PTL DEF TurnsSpec
<1> HIDE DEF Inv, Words, Kept
<1>5. TurnsSpec => [][Kept]_<<vars, turns>>
  BY <1>1, <1>2, <1>3, <1>4, PTL
<1> QED  BY <1>5 DEF Kept, TurnsSkipDecided
-----------------------------------------------------------------------------
(***************************************************************************)
(* The ledger.                                                             *)
(***************************************************************************)
LEMMA Division ==
  ASSUME NEW n \in Nat, NEW d \in Nat \ {0},
         NEW q, q = n \div d, NEW r, r = n % d
  PROVE  q \in Nat /\ r \in Nat /\ n = d * q + r /\ r < d
<1>1. q \in Int /\ r \in Int
  OBVIOUS
<1>2. q >= 0 /\ r >= 0 /\ r < d
  OBVIOUS
<1>3. n = d * q + r
  OBVIOUS
<1> QED
  BY <1>1, <1>2, <1>3

\* Twice what the rounding takes away or adds is at most the divisor.
LEMMA RoundedNear ==
  ASSUME NEW n \in Nat, NEW d \in Nat \ {0}
  PROVE  /\ Rounded(n, d) \in Nat
         /\ 2 * (d * Rounded(n, d)) <= 2 * n + d
         /\ 2 * n <= 2 * (d * Rounded(n, d)) + d
<1> DEFINE q == n \div d
           r == n % d
<1>1. q \in Nat /\ r \in Nat /\ n = d * q + r /\ r < d
  BY Division
<1>2. Rounded(n, d) = IF 2 * r > d \/ (2 * r = d /\ q % 2 = 1) THEN q + 1 ELSE q
  BY DEF Rounded
<1> HIDE DEF q, r
<1>3. CASE Rounded(n, d) = q /\ 2 * r <= d
  BY <1>1, <1>3
<1>4. CASE Rounded(n, d) = q + 1 /\ 2 * r >= d
  <2>1. d * (q + 1) = d * q + d
    BY <1>1
  <2> QED  BY <1>1, <1>4, <2>1
<1>5. 2 * r <= d \/ 2 * r >= d
  BY <1>1
<1>6. Rounded(n, d) = q \/ Rounded(n, d) = q + 1
  BY <1>2
<1>7. Rounded(n, d) = q => 2 * r <= d
  BY <1>1, <1>2
<1>8. Rounded(n, d) = q + 1 => 2 * r >= d
  BY <1>1, <1>2
<1> QED
  BY <1>3, <1>4, <1>6, <1>7, <1>8

\* More is never rounded to less.
LEMMA RoundedMonotone ==
  ASSUME NEW n \in Nat, NEW m \in Nat, NEW d \in Nat \ {0}, n <= m
  PROVE  Rounded(n, d) <= Rounded(m, d)
<1> DEFINE q == n \div d
           r == n % d
           p == m \div d
           s == m % d
<1>1. q \in Nat /\ r \in Nat /\ n = d * q + r /\ r < d
  BY Division
<1>2. p \in Nat /\ s \in Nat /\ m = d * p + s /\ s < d
  BY Division
<1>3. Rounded(n, d) = IF 2 * r > d \/ (2 * r = d /\ q % 2 = 1) THEN q + 1 ELSE q
  BY DEF Rounded
<1>4. Rounded(m, d) = IF 2 * s > d \/ (2 * s = d /\ p % 2 = 1) THEN p + 1 ELSE p
  BY DEF Rounded
<1> HIDE DEF q, r, p, s
<1>5. q <= p
  <2> SUFFICES ASSUME p + 1 <= q PROVE FALSE
    BY <1>1, <1>2
  <2>1. d * (p + 1) <= d * q
    BY <1>1, <1>2
  <2>2. d * (p + 1) = d * p + d
    BY <1>2
  <2> QED  BY <1>1, <1>2, <2>1, <2>2
<1>6. CASE q = p
  <2>1. r <= s
    BY <1>1, <1>2, <1>6
  <2> QED  BY <1>1, <1>2, <1>3, <1>4, <1>6, <2>1
<1>7. CASE q < p
  BY <1>1, <1>2, <1>3, <1>4, <1>7
<1> QED
  BY <1>1, <1>2, <1>5, <1>6, <1>7

\* The same points over more hours are not rounded to more.
LEMMA RoundedAntitone ==
  ASSUME NEW n \in Nat, NEW d \in Nat \ {0}, NEW e \in Nat \ {0}, d <= e
  PROVE  Rounded(n, e) <= Rounded(n, d)
<1> DEFINE q == n \div d
           r == n % d
           p == n \div e
           s == n % e
<1>1. q \in Nat /\ r \in Nat /\ n = d * q + r /\ r < d
  BY Division
<1>2. p \in Nat /\ s \in Nat /\ n = e * p + s /\ s < e
  BY Division
<1>3. Rounded(n, d) = IF 2 * r > d \/ (2 * r = d /\ q % 2 = 1) THEN q + 1 ELSE q
  BY DEF Rounded
<1>4. Rounded(n, e) = IF 2 * s > e \/ (2 * s = e /\ p % 2 = 1) THEN p + 1 ELSE p
  BY DEF Rounded
<1> HIDE DEF q, r, p, s
<1>5. d * p <= e * p
  BY <1>2
<1>6. p <= q
  <2> SUFFICES ASSUME q + 1 <= p PROVE FALSE
    BY <1>1, <1>2
  <2>1. d * (q + 1) <= d * p
    BY <1>1, <1>2
  <2>2. d * (q + 1) = d * q + d
    BY <1>1
  <2> QED  BY <1>1, <1>2, <1>5, <2>1, <2>2
<1>7. CASE p = q
  <2>1. s <= r
    <3>1. d * q <= e * p
      BY <1>5, <1>7
    <3>2. d * q \in Int /\ e * p \in Int
      BY <1>1, <1>2
    <3> QED  BY <1>1, <1>2, <3>1, <3>2
  <2> QED  BY <1>1, <1>2, <1>3, <1>4, <1>7, <2>1
<1>8. CASE p < q
  BY <1>1, <1>2, <1>3, <1>4, <1>8
<1> QED
  BY <1>1, <1>2, <1>6, <1>7, <1>8

\* What the averages are made of.
LEMMA PointsType ==
  /\ \A l \in NumericLetters : GRADE_POINTS[l] \in Nat
  /\ DOMAIN GRADE_POINTS = NumericLetters
  /\ GRADE_POINTS["F"] = 0
  BY DEF GRADE_POINTS, NumericLetters

LEMMA CourseSets ==
  ASSUME NEW C \in SUBSET Courses
  PROVE  IsFiniteSet(C) /\ \A c \in C : Credits[c] \in Nat \ {0}
  BY RulesAssumption, FS_Subset

LEMMA CreditSums ==
  ASSUME NEW C \in SUBSET Courses
  PROVE  CreditSum(C) \in Nat /\ (C # {} => CreditSum(C) > 0)
         /\ \A D \in SUBSET C : CreditSum(D) <= CreditSum(C)
<1>1. IsFiniteSet(C) /\ \A c \in C : Credits[c] \in Nat \ {0}
  BY CourseSets
<1>2. \A D \in SUBSET C : SumFunctionOnSet(Credits, D) \in Nat
  BY <1>1, SumNat
<1>3. \A D \in SUBSET C : SumFunctionOnSet(Credits, C)
                            = SumFunctionOnSet(Credits, D) + SumFunctionOnSet(Credits, C \ D)
  BY <1>1, SumPart
<1>4. \A D \in SUBSET C : SumFunctionOnSet(Credits, D) <= SumFunctionOnSet(Credits, C)
  <2> TAKE D \in SUBSET C
  <2>1. SumFunctionOnSet(Credits, D) \in Nat /\ SumFunctionOnSet(Credits, C \ D) \in Nat
    BY <1>2
  <2>2. SumFunctionOnSet(Credits, C)
          = SumFunctionOnSet(Credits, D) + SumFunctionOnSet(Credits, C \ D)
    BY <1>3
  <2> QED  BY <2>1, <2>2
<1>5. ASSUME C # {} PROVE SumFunctionOnSet(Credits, C) > 0
  <2>1. PICK c \in C : TRUE
    BY <1>5
  <2>2. SumFunctionOnSet(Credits, C) = Credits[c] + SumFunctionOnSet(Credits, C \ {c})
    BY <1>1, SumRemove
  <2>3. Credits[c] \in Nat \ {0} /\ SumFunctionOnSet(Credits, C \ {c}) \in Nat
    BY <1>1, <1>2
  <2> QED  BY <2>2, <2>3
<1> QED
  BY <1>2, <1>4, <1>5 DEF CreditSum

LetterPoints(l, t) == [c \in Counting(l, t) |-> GRADE_POINTS[l[t][c]] * Credits[c]]

LEMMA LetterPointsType ==
  ASSUME NEW l, NEW t, NEW c \in Counting(l, t)
  PROVE  /\ LetterPoints(l, t)[c] = GRADE_POINTS[l[t][c]] * Credits[c]
         /\ LetterPoints(l, t)[c] \in Nat
         /\ l[t][c] \in NumericLetters
<1>1. l[t][c] \in NumericLetters /\ c \in Courses
  BY PointsType DEF Counting, counts_toward_cgpa
<1>2. GRADE_POINTS[l[t][c]] \in Nat /\ Credits[c] \in Nat
  BY <1>1, PointsType, RulesAssumption
<1> QED
  BY <1>1, <1>2 DEF LetterPoints

LEMMA PointSums ==
  ASSUME NEW l, NEW t
  PROVE  /\ IsFiniteSet(Counting(l, t))
         /\ PointSum(l, t) = SumFunctionOnSet(LetterPoints(l, t), Counting(l, t))
         /\ PointSum(l, t) \in Nat
<1>1. Counting(l, t) \in SUBSET Courses
  BY DEF Counting
<1>2. IsFiniteSet(Counting(l, t))
  BY <1>1, CourseSets
<1>3. PointSum(l, t) = SumFunctionOnSet(LetterPoints(l, t), Counting(l, t))
  BY DEF PointSum, SumFunction, LetterPoints
<1>4. \A c \in Counting(l, t) : LetterPoints(l, t)[c] \in Nat
  BY LetterPointsType
<1> HIDE DEF PointSum
<1> QED
  BY <1>2, <1>3, <1>4, SumNat

\* The average of a term, and the one over all terms up to it.
UpTo(l, t) == EarlierOnly(l, t) \cup {t}
TermPoints(l, t) == [u \in UpTo(l, t) |-> PointSum(l, u)]
TermCredits(l, t) == [u \in UpTo(l, t) |-> CreditSum(Counting(l, u))]

LEMMA UpToTerms ==
  ASSUME NEW l, NEW t \in Terms
  PROVE  UpTo(l, t) \subseteq Terms /\ IsFiniteSet(UpTo(l, t)) /\ t \in UpTo(l, t)
<1>1. UpTo(l, t) \subseteq Terms /\ t \in UpTo(l, t)
  BY RulesAssumption DEF UpTo, EarlierOnly, Terms
<1>2. IsFiniteSet(Terms)
  BY FS_Interval, RulesAssumption DEF Terms
<1> QED
  BY <1>1, <1>2, FS_Subset

LEMMA CumulativeSums ==
  ASSUME NEW l, NEW t \in Terms
  PROVE  LET ctx == build_compute_input(l, t, NoStatus)
             points  == SumFunctionOnSet(TermPoints(l, t), UpTo(l, t))
             credits == SumFunctionOnSet(TermCredits(l, t), UpTo(l, t))
         IN  /\ ctx.cgpa = GPA(points, credits)
             /\ points \in Nat /\ credits \in Nat
             /\ \A u \in UpTo(l, t) : /\ TermPoints(l, t)[u] = PointSum(l, u)
                                      /\ TermPoints(l, t)[u] \in Nat
                                      /\ TermCredits(l, t)[u] = CreditSum(Counting(l, u))
                                      /\ TermCredits(l, t)[u] \in Nat
<1>1. build_compute_input(l, t, NoStatus).cgpa
        = GPA(SumFunctionOnSet(TermPoints(l, t), UpTo(l, t)),
              SumFunctionOnSet(TermCredits(l, t), UpTo(l, t)))
  BY DEF build_compute_input, SumFunction, TermPoints, TermCredits, UpTo
<1>2. \A u \in UpTo(l, t) : /\ TermPoints(l, t)[u] = PointSum(l, u)
                            /\ TermPoints(l, t)[u] \in Nat
  BY PointSums DEF TermPoints
<1>3. \A u \in UpTo(l, t) : /\ TermCredits(l, t)[u] = CreditSum(Counting(l, u))
                            /\ TermCredits(l, t)[u] \in Nat
  <2> TAKE u \in UpTo(l, t)
  <2>1. Counting(l, u) \in SUBSET Courses
    BY DEF Counting
  <2> QED  BY <2>1, CreditSums DEF TermCredits
<1>4. IsFiniteSet(UpTo(l, t))
  BY UpToTerms
<1>5. SumFunctionOnSet(TermPoints(l, t), UpTo(l, t)) \in Nat
  BY <1>2, <1>4, SumNat
<1>6. SumFunctionOnSet(TermCredits(l, t), UpTo(l, t)) \in Nat
  BY <1>3, <1>4, SumNat
<1> QED
  BY <1>1, <1>2, <1>3, <1>5, <1>6

\* The two averages of a context, whatever the prior status.
LEMMA GPAType ==
  ASSUME NEW points \in Nat, NEW credit \in Nat
  PROVE  /\ GPA(points, credit) \in Nat \cup {NoGPA}
         /\ GPA(points, credit) = NoGPA <=> credit = 0
         /\ credit # 0 => GPA(points, credit) = Rounded(100 * points, credit)
<1>1. CASE credit = 0
  BY <1>1 DEF GPA
<1>2. CASE credit # 0
  <2>1. GPA(points, credit) = Rounded(100 * points, credit)
    BY <1>2 DEF GPA
  <2>2. 100 * points \in Nat /\ credit \in Nat \ {0}
    BY <1>2
  <2>3. GPA(points, credit) \in Nat
    BY <2>1, <2>2, RoundedNear
  <2> QED  BY <1>2, <2>1, <2>3 DEF NoGPA
<1> QED
  BY <1>1, <1>2

LEMMA GPAMonotone ==
  ASSUME NEW fewer \in Nat, NEW more \in Nat, fewer <= more, NEW credit \in Nat
  PROVE  GPA(fewer, credit) <= GPA(more, credit)
<1>1. CASE credit = 0
  BY <1>1 DEF GPA, NoGPA
<1>2. CASE credit # 0
  <2>1. 100 * fewer \in Nat /\ 100 * more \in Nat /\ 100 * fewer <= 100 * more
    OBVIOUS
  <2>2. Rounded(100 * fewer, credit) <= Rounded(100 * more, credit)
    BY <1>2, <2>1, RoundedMonotone
  <2> QED  BY <1>2, <2>2 DEF GPA
<1> QED
  BY <1>1, <1>2

LEMMA ContextTyped ==
  ASSUME NEW l, NEW t \in Terms
  PROVE  LET ctx == build_compute_input(l, t, NoStatus)
         IN  /\ ContextType(ctx)
             /\ ctx.sgpa = GPA(PointSum(l, t), CreditSum(Counting(l, t)))
<1> DEFINE ctx == build_compute_input(l, t, NoStatus)
<1>1. /\ ctx.sgpa = GPA(PointSum(l, t), CreditSum(Counting(l, t)))
      /\ ctx.term_credit_hours = CreditSum(Counting(l, t))
      /\ ctx.f_count = Cardinality(Failed(l, t))
      /\ ctx.f_credit_total = CreditSum(Failed(l, t))
  BY DEF build_compute_input
<1>2. Counting(l, t) \in SUBSET Courses /\ Failed(l, t) \in SUBSET Courses
  BY DEF Counting, Failed
<1>3. CreditSum(Counting(l, t)) \in Nat /\ CreditSum(Failed(l, t)) \in Nat
  BY <1>2, CreditSums
<1>4. Cardinality(Failed(l, t)) \in Nat
  BY <1>2, CourseSets, FS_CardinalityType
<1>5. ctx.sgpa \in Nat \cup {NoGPA}
  BY <1>1, <1>3, PointSums, GPAType
<1>6. ctx.cgpa \in Nat \cup {NoGPA}
  <2> HIDE DEF ctx
  <2>1. PICK p \in Nat, c \in Nat : ctx.cgpa = GPA(p, c)
    BY CumulativeSums DEF ctx
  <2> QED  BY <2>1, GPAType
<1> HIDE DEF ctx
<1>7. ContextType(ctx)
  BY <1>1, <1>3, <1>4, <1>5, <1>6 DEF ContextType
<1> QED
  BY <1>1, <1>7 DEF ctx

\* What a better letter changes in the ledger.
Improved(l, u, k, letter) == [l EXCEPT ![u][k] = letter]
Improves(l, u, k, letter) ==
    /\ u \in Terms /\ k \in Courses /\ letter \in NumericLetters
    /\ l[u][k] \in NumericLetters
    /\ GRADE_POINTS[letter] > GRADE_POINTS[l[u][k]]

LEMMA ImprovedLetters ==
  ASSUME NEW l \in Ledgers, NEW u, NEW k, NEW letter, Improves(l, u, k, letter)
  PROVE  \A v \in Terms, c \in Courses :
           /\ Improved(l, u, k, letter)[v][c] = IF v = u /\ c = k THEN letter ELSE l[v][c]
           /\ l[v][c] \in Letters \cup {NoLetter}
  BY DEF Improved, Improves, Ledgers

LEMMA ImprovedSets ==
  ASSUME NEW l \in Ledgers, NEW u, NEW k, NEW letter, Improves(l, u, k, letter), NEW v \in Terms
  PROVE  LET m == Improved(l, u, k, letter)
         IN  /\ Graded(m, v) = Graded(l, v)
             /\ Counting(m, v) = Counting(l, v)
             /\ Failed(m, v) \subseteq Failed(l, v)
             /\ \A c \in Courses : m[v][c] \in HOLD_LETTERS <=> l[v][c] \in HOLD_LETTERS
<1> DEFINE m == Improved(l, u, k, letter)
<1>1. \A c \in Courses : m[v][c] = IF v = u /\ c = k THEN letter ELSE l[v][c]
  BY ImprovedLetters
<1>2. letter \in NumericLetters /\ l[u][k] \in NumericLetters
  BY DEF Improves
<1>3. letter # NoLetter /\ l[u][k] # NoLetter
  BY <1>2, RulesAssumption
<1>4. letter # "F"
  BY PointsType DEF Improves
<1>5. letter \notin HOLD_LETTERS /\ l[u][k] \notin HOLD_LETTERS
  BY <1>2 DEF HOLD_LETTERS, NumericLetters
<1> HIDE DEF m
<1>6. Graded(m, v) = Graded(l, v)
  BY <1>1, <1>3 DEF Graded
<1>7. Counting(m, v) = Counting(l, v)
  BY <1>1, <1>2, PointsType DEF Counting, counts_toward_cgpa
<1>8. Failed(m, v) \subseteq Failed(l, v)
  BY <1>1, <1>4 DEF Failed
<1>9. \A c \in Courses : m[v][c] \in HOLD_LETTERS <=> l[v][c] \in HOLD_LETTERS
  BY <1>1, <1>5
<1> QED
  BY <1>6, <1>7, <1>8, <1>9 DEF m

LEMMA ImprovedPoints ==
  ASSUME NEW l \in Ledgers, NEW u, NEW k, NEW letter, Improves(l, u, k, letter), NEW v \in Terms
  PROVE  PointSum(l, v) <= PointSum(Improved(l, u, k, letter), v)
<1> DEFINE m == Improved(l, u, k, letter)
           C == Counting(l, v)
<1>1. Counting(m, v) = C
  BY ImprovedSets
<1>2. \A c \in C : m[v][c] = IF v = u /\ c = k THEN letter ELSE l[v][c]
  BY ImprovedLetters DEF Counting
<1>3. GRADE_POINTS[letter] > GRADE_POINTS[l[u][k]]
  BY DEF Improves
<1>4. \A c \in C : /\ LetterPoints(l, v)[c] = GRADE_POINTS[l[v][c]] * Credits[c]
                   /\ LetterPoints(l, v)[c] \in Nat /\ l[v][c] \in NumericLetters
  BY LetterPointsType
<1>5. \A c \in C : /\ LetterPoints(m, v)[c] = GRADE_POINTS[m[v][c]] * Credits[c]
                   /\ LetterPoints(m, v)[c] \in Nat /\ m[v][c] \in NumericLetters
  BY <1>1, LetterPointsType
<1>6. \A c \in C : LetterPoints(l, v)[c] <= LetterPoints(m, v)[c]
  <2> TAKE c \in C
  <2> DEFINE x == GRADE_POINTS[l[v][c]]
             y == GRADE_POINTS[m[v][c]]
  <2>1. x \in Nat /\ y \in Nat /\ Credits[c] \in Nat
    BY <1>4, <1>5, PointsType, RulesAssumption DEF Counting
  <2>2. x <= y
    <3>1. CASE v = u /\ c = k
      BY <3>1, <1>2, <1>3, <2>1
    <3>2. CASE ~(v = u /\ c = k)
      BY <3>2, <1>2, <2>1
    <3> QED  BY <3>1, <3>2
  <2>3. LetterPoints(l, v)[c] = x * Credits[c] /\ LetterPoints(m, v)[c] = y * Credits[c]
    BY <1>4, <1>5
  <2> HIDE DEF x, y
  <2>4. x * Credits[c] <= y * Credits[c]
    BY <2>1, <2>2
  <2> QED  BY <2>3, <2>4
<1>7. IsFiniteSet(C) /\ PointSum(l, v) = SumFunctionOnSet(LetterPoints(l, v), C)
  BY PointSums
<1>8. PointSum(m, v) = SumFunctionOnSet(LetterPoints(m, v), C)
  BY <1>1, PointSums
<1> HIDE DEF C, m
<1>9. \A c \in C : /\ LetterPoints(l, v)[c] \in Int /\ LetterPoints(m, v)[c] \in Int
                   /\ LetterPoints(l, v)[c] <= LetterPoints(m, v)[c]
  BY <1>4, <1>5, <1>6
<1>10. SumFunctionOnSet(LetterPoints(l, v), C) <= SumFunctionOnSet(LetterPoints(m, v), C)
  BY <1>7, <1>9, SumMonotone
<1> QED
  BY <1>7, <1>8, <1>10 DEF m

\* So the context of any term gets no worse.
LEMMA ImprovedContext ==
  ASSUME NEW l \in Ledgers, NEW u, NEW k, NEW letter, Improves(l, u, k, letter), NEW t \in Terms
  PROVE  NoWorse(build_compute_input(l, t, NoStatus),
                 build_compute_input(Improved(l, u, k, letter), t, NoStatus))
<1> DEFINE m == Improved(l, u, k, letter)
           low  == build_compute_input(l, t, NoStatus)
           high == build_compute_input(m, t, NoStatus)
<1>0. \A v \in Terms : /\ Graded(m, v) = Graded(l, v) /\ Counting(m, v) = Counting(l, v)
                       /\ Failed(m, v) \subseteq Failed(l, v)
                       /\ \A c \in Courses : m[v][c] \in HOLD_LETTERS <=> l[v][c] \in HOLD_LETTERS
                       /\ PointSum(l, v) <= PointSum(m, v)
  BY ImprovedSets, ImprovedPoints
<1> HIDE DEF m
<1>1. EarlierOnly(m, t) = EarlierOnly(l, t)
  <2>1. \A v \in 1..(t - 1) : v \in Terms
    BY RulesAssumption DEF Terms
  <2> QED  BY <1>0, <2>1 DEF EarlierOnly
<1>2. /\ low.held = high.held
      /\ low.term_credit_hours = high.term_credit_hours
      /\ low.is_first_semester = high.is_first_semester
      /\ low.is_first_year = high.is_first_year
      /\ low.prior_status = high.prior_status
  <2>1. (\E c \in Courses : l[t][c] \in HOLD_LETTERS) = (\E c \in Courses : m[t][c] \in HOLD_LETTERS)
    BY <1>0
  <2> QED  BY <1>0, <1>1, <2>1, Zenon DEF build_compute_input
<1>3. high.f_count <= low.f_count /\ high.f_credit_total <= low.f_credit_total
  <2>1. /\ low.f_count = Cardinality(Failed(l, t)) /\ high.f_count = Cardinality(Failed(m, t))
        /\ low.f_credit_total = CreditSum(Failed(l, t))
        /\ high.f_credit_total = CreditSum(Failed(m, t))
    BY DEF build_compute_input
  <2>2. Failed(l, t) \in SUBSET Courses
    BY DEF Failed
  <2>3. Cardinality(Failed(m, t)) <= Cardinality(Failed(l, t))
    BY <1>0, <2>2, CourseSets, FS_Subset
  <2>4. CreditSum(Failed(m, t)) <= CreditSum(Failed(l, t))
    BY <1>0, <2>2, CreditSums
  <2> QED  BY <2>1, <2>3, <2>4
<1>4. low.sgpa <= high.sgpa /\ (low.sgpa = NoGPA <=> high.sgpa = NoGPA)
  <2> DEFINE hours == CreditSum(Counting(l, t))
  <2>1. hours \in Nat
    BY CreditSums DEF Counting
  <2>2. low.sgpa = GPA(PointSum(l, t), hours)
    BY ContextTyped
  <2>3. high.sgpa = GPA(PointSum(m, t), hours)
    BY <1>0, ContextTyped
  <2>4. PointSum(l, t) \in Nat /\ PointSum(m, t) \in Nat /\ PointSum(l, t) <= PointSum(m, t)
    BY <1>0, PointSums
  <2> HIDE DEF hours, low, high
  <2> QED  BY <2>1, <2>2, <2>3, <2>4, GPAType, GPAMonotone
<1>5. low.cgpa <= high.cgpa /\ (low.cgpa = NoGPA <=> high.cgpa = NoGPA)
  <2> DEFINE before == UpTo(l, t)
             p == SumFunctionOnSet(TermPoints(l, t), before)
             r == SumFunctionOnSet(TermPoints(m, t), before)
             h == SumFunctionOnSet(TermCredits(l, t), before)
             g == SumFunctionOnSet(TermCredits(m, t), before)
  <2>1. UpTo(m, t) = before
    BY <1>1 DEF UpTo
  <2>2. before \subseteq Terms /\ IsFiniteSet(before)
    BY UpToTerms
  <2>3. /\ low.cgpa = GPA(p, h) /\ p \in Nat /\ h \in Nat
        /\ \A v \in before : /\ TermPoints(l, t)[v] = PointSum(l, v) /\ TermPoints(l, t)[v] \in Nat
                             /\ TermCredits(l, t)[v] = CreditSum(Counting(l, v))
                             /\ TermCredits(l, t)[v] \in Nat
    BY CumulativeSums
  <2>4. /\ high.cgpa = GPA(r, g) /\ r \in Nat /\ g \in Nat
        /\ \A v \in before : /\ TermPoints(m, t)[v] = PointSum(m, v) /\ TermPoints(m, t)[v] \in Nat
                             /\ TermCredits(m, t)[v] = CreditSum(Counting(m, v))
                             /\ TermCredits(m, t)[v] \in Nat
    BY <2>1, CumulativeSums
  <2> HIDE DEF before, low, high
  <2>5. p <= r
    <3>1. \A v \in before : /\ TermPoints(l, t)[v] \in Int /\ TermPoints(m, t)[v] \in Int
                            /\ TermPoints(l, t)[v] <= TermPoints(m, t)[v]
      BY <1>0, <2>2, <2>3, <2>4
    <3> QED  BY <2>2, <3>1, SumMonotone
  <2>6. h = g
    <3>1. \A v \in before : /\ TermCredits(l, t)[v] \in Int
                            /\ TermCredits(l, t)[v] = TermCredits(m, t)[v]
      BY <1>0, <2>2, <2>3, <2>4
    <3> QED  BY <2>2, <3>1, SumAgree
  <2> HIDE DEF p, r, h, g
  <2> QED  BY <2>3, <2>4, <2>5, <2>6, GPAType, GPAMonotone
<1> HIDE DEF low, high
<1>6. NoWorse(low, high)
  BY <1>2, <1>3, <1>4, <1>5 DEF NoWorse
<1> QED
  BY <1>6 DEF low, high, m

LEMMA PriorOnly ==
  ASSUME NEW l, NEW t, NEW prior
  PROVE  LET ctx == build_compute_input(l, t, NoStatus)
             was == [ctx EXCEPT !.prior_status = prior]
         IN  /\ was.prior_status = prior
             /\ was.held = ctx.held /\ was.sgpa = ctx.sgpa /\ was.cgpa = ctx.cgpa
             /\ was.term_credit_hours = ctx.term_credit_hours
             /\ was.f_count = ctx.f_count /\ was.f_credit_total = ctx.f_credit_total
             /\ was.is_first_semester = ctx.is_first_semester
             /\ was.is_first_year = ctx.is_first_year
  BY DEF build_compute_input

\* The property of the rules, on every ledger.
LEMMA GradesOnlyHelp ==
  ASSUME ledger \in Ledgers
  PROVE  BetterGradeNeverHurts
<1> SUFFICES ASSUME NEW t \in Terms, NEW u \in 1..t, NEW k \in Courses,
                    NEW letter \in NumericLetters,
                    ledger[u][k] \in NumericLetters,
                    GRADE_POINTS[letter] > GRADE_POINTS[ledger[u][k]],
                    NEW prior \in Priors
             PROVE  Severity(Verdicts(Improved(ledger, u, k, letter), t)[prior])
                      <= Severity(Verdicts(ledger, t)[prior])
  BY DEF BetterGradeNeverHurts, Improved
<1> DEFINE m == Improved(ledger, u, k, letter)
           low  == build_compute_input(ledger, t, NoStatus)
           high == build_compute_input(m, t, NoStatus)
           was == [low EXCEPT !.prior_status = prior]
           now == [high EXCEPT !.prior_status = prior]
<1>1. Improves(ledger, u, k, letter)
  BY RulesAssumption DEF Improves, Terms
<1>2. NoWorse(low, high)
  BY <1>1, ImprovedContext
<1>3. ContextType(low) /\ ContextType(high)
  BY ContextTyped
<1>4. /\ was.prior_status = prior
      /\ was.held = low.held /\ was.sgpa = low.sgpa /\ was.cgpa = low.cgpa
      /\ was.term_credit_hours = low.term_credit_hours
      /\ was.f_count = low.f_count /\ was.f_credit_total = low.f_credit_total
      /\ was.is_first_semester = low.is_first_semester
      /\ was.is_first_year = low.is_first_year
  BY PriorOnly
<1>5. /\ now.prior_status = prior
      /\ now.held = high.held /\ now.sgpa = high.sgpa /\ now.cgpa = high.cgpa
      /\ now.term_credit_hours = high.term_credit_hours
      /\ now.f_count = high.f_count /\ now.f_credit_total = high.f_credit_total
      /\ now.is_first_semester = high.is_first_semester
      /\ now.is_first_year = high.is_first_year
  BY PriorOnly
<1>6. /\ Verdicts(m, t)[prior] = evaluate_status(now)
      /\ Verdicts(ledger, t)[prior] = evaluate_status(was)
  BY DEF Verdicts
<1> HIDE DEF low, high, was, now
<1>7. NoWorse(was, now) /\ ContextType(was) /\ ContextType(now)
  BY <1>2, <1>3, <1>4, <1>5 DEF NoWorse, ContextType
<1>8. Severity(evaluate_status(now)) <= Severity(evaluate_status(was))
  BY <1>7, BetterRecordNeverHurts
<1> QED
  BY <1>6, <1>8

\* In a first semester the two averages are one.
LEMMA FirstAverages ==
  ASSUME NEW l, NEW t \in Terms, build_compute_input(l, t, NoStatus).is_first_semester
  PROVE  build_compute_input(l, t, NoStatus).cgpa = build_compute_input(l, t, NoStatus).sgpa
<1> DEFINE ctx == build_compute_input(l, t, NoStatus)
           p == SumFunctionOnSet(TermPoints(l, t), UpTo(l, t))
           h == SumFunctionOnSet(TermCredits(l, t), UpTo(l, t))
<1>1. EarlierOnly(l, t) = {}
  BY DEF build_compute_input
<1>2. UpTo(l, t) = {t}
  BY <1>1 DEF UpTo
<1>3. /\ ctx.cgpa = GPA(p, h)
      /\ TermPoints(l, t)[t] = PointSum(l, t) /\ TermPoints(l, t)[t] \in Nat
      /\ TermCredits(l, t)[t] = CreditSum(Counting(l, t)) /\ TermCredits(l, t)[t] \in Nat
  BY <1>2, CumulativeSums
<1>4. p = TermPoints(l, t)[t]
  BY <1>2, <1>3, SumSingle
<1>5. h = TermCredits(l, t)[t]
  BY <1>2, <1>3, SumSingle
<1>6. p = PointSum(l, t) /\ h = CreditSum(Counting(l, t))
  BY <1>3, <1>4, <1>5
<1>7. ctx.sgpa = GPA(PointSum(l, t), CreditSum(Counting(l, t)))
  BY ContextTyped
<1> QED
  BY <1>3, <1>6, <1>7

LEMMA DismissalsGrounded == DismissalHasGround
<1> SUFFICES ASSUME NEW t \in Terms, NEW prior \in Priors,
                    Verdicts(ledger, t)[prior] = "DISMISSED"
             PROVE  LET ctx == build_compute_input(ledger, t, NoStatus)
                    IN  ctx.cgpa < 20000 \/ ctx.f_count >= 3
  BY DEF DismissalHasGround
<1> DEFINE ctx == build_compute_input(ledger, t, NoStatus)
           was == [ctx EXCEPT !.prior_status = prior]
<1>1. /\ was.sgpa = ctx.sgpa /\ was.cgpa = ctx.cgpa
      /\ was.f_count = ctx.f_count /\ was.f_credit_total = ctx.f_credit_total
      /\ was.is_first_semester = ctx.is_first_semester
      /\ was.is_first_year = ctx.is_first_year
  BY PriorOnly
<1>2. evaluate_status(was) = "DISMISSED"
  BY DEF Verdicts
<1>3. ContextType(ctx)
  BY ContextTyped
<1>4. ctx.is_first_semester => ctx.cgpa = ctx.sgpa
  BY FirstAverages
<1> HIDE DEF ctx, was
<1>5. Dismissed(was)
  <2> HIDE DEF Held, Dismissed, Warned
  <2> QED  BY <1>2 DEF evaluate_status
<1>6. \/ ctx.cgpa < 20000 \/ ctx.f_count >= 3 \/ ctx.f_count > 3
      \/ ctx.is_first_semester /\ ctx.sgpa < 15000
      \/ ctx.cgpa < 17500
  BY <1>1, <1>5 DEF Dismissed
<1>7. ctx.cgpa < 20000 \/ ctx.f_count >= 3
  BY <1>3, <1>4, <1>6 DEF ContextType, NoGPA
<1> QED
  BY <1>7 DEF ctx

-----------------------------------------------------------------------------
(* The documents.  Every sum over some terms is one over all of them: a    *)
(* term without grades adds nothing.                                       *)

Points(l)   == [t \in Terms |-> PointSum(l, t)]
Hours(l)    == [t \in Terms |-> CreditSum(Counting(l, t))]
AllHours(l) == [t \in Terms |-> total_credit_hours(l, t)]
Weighted(l) == [t \in Terms |-> term_gpa(l, t) * total_credit_hours(l, t)]

LEMMA TermsFinite == IsFiniteSet(Terms)
  BY FS_Interval, RulesAssumption DEF Terms

\* Lines without points add none.
LEMMA LinesAreLetters ==
  ASSUME NEW l \in Ledgers, NEW t \in Terms
  PROVE  /\ term_gpa(l, t) = GPA(PointSum(l, t), total_credit_hours(l, t))
         /\ Counting(l, t) \subseteq Graded(l, t)
<1> DEFINE G == Graded(l, t)
           C == Counting(l, t)
           lines == [c \in G |-> LinePoints(l[t][c], c)]
<1>1. C \subseteq G /\ G \in SUBSET Courses
  BY PointsType, RulesAssumption DEF Counting, counts_toward_cgpa, Graded
<1>2. IsFiniteSet(G)
  BY <1>1, CourseSets
<1>3. \A c \in C : lines[c] = LetterPoints(l, t)[c] /\ lines[c] \in Nat
  <2> TAKE c \in C
  <2>1. lines[c] = GRADE_POINTS[l[t][c]] * Credits[c]
    BY <1>1 DEF LinePoints, Counting
  <2> QED  BY <2>1, LetterPointsType
<1>4. \A c \in G \ C : lines[c] = 0
  BY <1>1 DEF LinePoints, Counting
<1>5. \A c \in G : lines[c] \in Int
  <2> HIDE DEF lines, G, C
  <2> QED  BY <1>3, <1>4
<1>6. SumFunction(lines) = SumFunctionOnSet(lines, G)
  BY DEF SumFunction
<1>7. term_gpa(l, t) = GPA(SumFunction(lines), total_credit_hours(l, t))
  BY DEF term_gpa
<1>8. PointSum(l, t) = SumFunctionOnSet(LetterPoints(l, t), C) /\ IsFiniteSet(C)
  BY PointSums
<1> HIDE DEF lines, G, C
<1>9. SumFunctionOnSet(lines, G) = SumFunctionOnSet(lines, C)
  BY <1>1, <1>2, <1>4, <1>5, SumSupport
<1>10. SumFunctionOnSet(lines, C) = SumFunctionOnSet(LetterPoints(l, t), C)
  <2>1. \A c \in C : lines[c] \in Int /\ lines[c] = LetterPoints(l, t)[c]
    BY <1>3
  <2> QED  BY <1>8, <2>1, SumAgree
<1> QED
  BY <1>1, <1>6, <1>7, <1>8, <1>9, <1>10 DEF C, G

\* The numbers of a term.
LEMMA TermNumbers ==
  ASSUME NEW l \in Ledgers, NEW t \in Terms
  PROVE  /\ Points(l)[t] = PointSum(l, t) /\ Points(l)[t] \in Nat
         /\ Hours(l)[t] = CreditSum(Counting(l, t)) /\ Hours(l)[t] \in Nat
         /\ AllHours(l)[t] = total_credit_hours(l, t) /\ AllHours(l)[t] \in Nat
         /\ Hours(l)[t] <= AllHours(l)[t]
         /\ Hours(l)[t] = 0 <=> Counting(l, t) = {}
         /\ AllHours(l)[t] = 0 <=> Graded(l, t) = {}
         /\ Graded(l, t) = {} => Points(l)[t] = 0 /\ Hours(l)[t] = 0
         /\ Unmarked(l, t) => Counting(l, t) = Graded(l, t)
<1>1. Counting(l, t) \in SUBSET Graded(l, t) /\ Graded(l, t) \in SUBSET Courses
  BY LinesAreLetters DEF Graded
<1>2. /\ CreditSum(Graded(l, t)) \in Nat /\ (Graded(l, t) # {} => CreditSum(Graded(l, t)) > 0)
      /\ CreditSum(Counting(l, t)) <= CreditSum(Graded(l, t))
  BY <1>1, CreditSums
<1>3. /\ CreditSum(Counting(l, t)) \in Nat
      /\ Counting(l, t) # {} => CreditSum(Counting(l, t)) > 0
  <2>1. Counting(l, t) \in SUBSET Courses
    BY <1>1
  <2> QED  BY <2>1, CreditSums
<1>4. CreditSum({}) = 0
  BY SumEmpty DEF CreditSum
<1>5. PointSum(l, t) \in Nat /\ (Counting(l, t) = {} => PointSum(l, t) = 0)
  BY PointSums, SumEmpty
<1>6. Unmarked(l, t) => Counting(l, t) = Graded(l, t)
  <2>1. \A c \in Courses : l[t][c] \in Letters \cup {NoLetter}
    BY DEF Ledgers
  <2> QED  BY <1>1, <2>1, PointsType
           DEF Unmarked, Counting, Graded, counts_toward_cgpa, Letters
<1>7. Graded(l, t) = {} => Counting(l, t) = {}
  BY <1>1
<1> QED
  BY <1>2, <1>3, <1>4, <1>5, <1>6, <1>7 DEF Points, Hours, AllHours, total_credit_hours

\* The term averages of the transcript and of the standing row.
LEMMA TermAverages ==
  ASSUME NEW l \in Ledgers, NEW t \in Terms
  PROVE  LET sgpa == build_compute_input(l, t, NoStatus).sgpa
         IN  /\ Unmarked(l, t) => term_gpa(l, t) = sgpa
             /\ sgpa # NoGPA => term_gpa(l, t) <= sgpa
<1> DEFINE p == Points(l)[t]
           h == Hours(l)[t]
           d == AllHours(l)[t]
           sgpa == build_compute_input(l, t, NoStatus).sgpa
<1>1. sgpa = GPA(p, h)
  BY ContextTyped, TermNumbers
<1>2. term_gpa(l, t) = GPA(p, d)
  BY LinesAreLetters, TermNumbers
<1>3. p \in Nat /\ h \in Nat /\ d \in Nat /\ h <= d
  BY TermNumbers
<1>4. ASSUME Unmarked(l, t) PROVE h = d
  BY <1>4, TermNumbers DEF total_credit_hours
<1> HIDE DEF p, h, d, sgpa
<1>5. ASSUME sgpa # NoGPA PROVE term_gpa(l, t) <= sgpa
  <2>1. h # 0 /\ d # 0
    BY <1>1, <1>3, <1>5, GPAType
  <2>2. sgpa = Rounded(100 * p, h) /\ term_gpa(l, t) = Rounded(100 * p, d)
    BY <1>1, <1>2, <1>3, <2>1, GPAType
  <2>3. 100 * p \in Nat
    BY <1>3
  <2>4. h \in Nat \ {0} /\ d \in Nat \ {0}
    BY <1>3, <2>1
  <2> QED  BY <1>3, <2>2, <2>3, <2>4, RoundedAntitone
<1> QED
  BY <1>1, <1>2, <1>4, <1>5 DEF sgpa

\* Sums over all terms.
LEMMA LedgerSums ==
  ASSUME NEW l \in Ledgers
  PROVE  /\ SumFunctionOnSet(Points(l), Terms) \in Nat
         /\ SumFunctionOnSet(Hours(l), Terms) \in Nat
         /\ SumFunctionOnSet(AllHours(l), Terms) \in Nat
         /\ SumFunctionOnSet(Hours(l), Terms) <= SumFunctionOnSet(AllHours(l), Terms)
         /\ (\A t \in Terms : Unmarked(l, t)) =>
               SumFunctionOnSet(Hours(l), Terms) = SumFunctionOnSet(AllHours(l), Terms)
<1>1. \A t \in Terms : /\ Points(l)[t] \in Nat /\ Hours(l)[t] \in Nat /\ AllHours(l)[t] \in Nat
                       /\ Hours(l)[t] <= AllHours(l)[t]
                       /\ Unmarked(l, t) => Hours(l)[t] = AllHours(l)[t]
  <2> TAKE t \in Terms
  <2>1. Unmarked(l, t) => Hours(l)[t] = AllHours(l)[t]
    BY TermNumbers DEF total_credit_hours
  <2> QED  BY <2>1, TermNumbers
<1>2. \A t \in Terms : Hours(l)[t] \in Int /\ AllHours(l)[t] \in Int /\ Hours(l)[t] <= AllHours(l)[t]
  BY <1>1
<1>3. SumFunctionOnSet(Points(l), Terms) \in Nat
  BY <1>1, TermsFinite, SumNat
<1>4. SumFunctionOnSet(Hours(l), Terms) \in Nat
  BY <1>1, TermsFinite, SumNat
<1>5. SumFunctionOnSet(AllHours(l), Terms) \in Nat
  BY <1>1, TermsFinite, SumNat
<1>6. SumFunctionOnSet(Hours(l), Terms) <= SumFunctionOnSet(AllHours(l), Terms)
  BY <1>2, TermsFinite, SumMonotone
<1>7. ASSUME \A t \in Terms : Unmarked(l, t)
      PROVE  SumFunctionOnSet(Hours(l), Terms) = SumFunctionOnSet(AllHours(l), Terms)
  <2>1. \A t \in Terms : Hours(l)[t] \in Int /\ Hours(l)[t] = AllHours(l)[t]
    BY <1>1, <1>7
  <2> QED  BY <2>1, TermsFinite, SumAgree
<1> QED
  BY <1>3, <1>4, <1>5, <1>6, <1>7

\* The average of the standing row of the last term is that of all terms.
LEMMA StandingAverage ==
  ASSUME NEW l \in Ledgers, LastTerm > 0
  PROVE  build_compute_input(l, LastTerm, NoStatus).cgpa
           = GPA(SumFunctionOnSet(Points(l), Terms), SumFunctionOnSet(Hours(l), Terms))
<1> DEFINE upto == UpTo(l, LastTerm)
<1>1. LastTerm \in Terms
  BY RulesAssumption DEF Terms
<1>2. upto \in SUBSET Terms /\ IsFiniteSet(upto)
  BY <1>1, UpToTerms
<1>3. \A t \in Terms \ upto : Graded(l, t) = {}
  BY <1>1, RulesAssumption DEF UpTo, EarlierOnly, Terms
<1>4. \A t \in Terms : /\ Points(l)[t] \in Nat /\ Hours(l)[t] \in Nat
                       /\ Graded(l, t) = {} => Points(l)[t] = 0 /\ Hours(l)[t] = 0
                       /\ Points(l)[t] = PointSum(l, t)
                       /\ Hours(l)[t] = CreditSum(Counting(l, t))
  BY TermNumbers
<1>5. /\ build_compute_input(l, LastTerm, NoStatus).cgpa
           = GPA(SumFunctionOnSet(TermPoints(l, LastTerm), upto),
                 SumFunctionOnSet(TermCredits(l, LastTerm), upto))
      /\ \A t \in upto : /\ TermPoints(l, LastTerm)[t] = PointSum(l, t)
                         /\ TermCredits(l, LastTerm)[t] = CreditSum(Counting(l, t))
  BY <1>1, CumulativeSums
<1> HIDE DEF upto
<1>6. SumFunctionOnSet(TermPoints(l, LastTerm), upto) = SumFunctionOnSet(Points(l), upto)
  <2>1. \A t \in upto : /\ TermPoints(l, LastTerm)[t] \in Int
                        /\ TermPoints(l, LastTerm)[t] = Points(l)[t]
    BY <1>2, <1>4, <1>5
  <2> QED  BY <1>2, <2>1, SumAgree
<1>7. SumFunctionOnSet(TermCredits(l, LastTerm), upto) = SumFunctionOnSet(Hours(l), upto)
  <2>1. \A t \in upto : /\ TermCredits(l, LastTerm)[t] \in Int
                        /\ TermCredits(l, LastTerm)[t] = Hours(l)[t]
    BY <1>2, <1>4, <1>5
  <2> QED  BY <1>2, <2>1, SumAgree
<1>8. SumFunctionOnSet(Points(l), Terms) = SumFunctionOnSet(Points(l), upto)
  <2>1. \A t \in Terms : Points(l)[t] \in Int
    BY <1>4
  <2>2. \A t \in Terms \ upto : Points(l)[t] = 0
    BY <1>3, <1>4
  <2> QED  BY <1>2, <2>1, <2>2, TermsFinite, SumSupport
<1>9. SumFunctionOnSet(Hours(l), Terms) = SumFunctionOnSet(Hours(l), upto)
  <2>1. \A t \in Terms : Hours(l)[t] \in Int
    BY <1>4
  <2>2. \A t \in Terms \ upto : Hours(l)[t] = 0
    BY <1>3, <1>4
  <2> QED  BY <1>2, <2>1, <2>2, TermsFinite, SumSupport
<1> QED
  BY <1>5, <1>6, <1>7, <1>8, <1>9

\* So is that of the transcript, of averages that are rounded once more.
LEMMA TranscriptAverage ==
  ASSUME NEW l \in Ledgers
  PROVE  LET all    == SumFunctionOnSet(AllHours(l), Terms)
             points == SumFunctionOnSet(Points(l), Terms)
             sum    == SumFunctionOnSet(Weighted(l), Terms)
         IN  /\ transcript_cgpa(l) = IF all = 0 THEN NoGPA ELSE Rounded(sum, all)
             /\ sum \in Nat
             /\ 2 * sum <= 200 * points + all
             /\ 200 * points <= 2 * sum + all
<1> DEFINE some == transcript_terms(l)
<1>1. some \in SUBSET Terms /\ \A t \in Terms \ some : Graded(l, t) = {}
  BY DEF transcript_terms
<1>2. IsFiniteSet(some)
  BY <1>1, TermsFinite, FS_Subset
<1>3. \A t \in Terms : /\ AllHours(l)[t] = total_credit_hours(l, t) /\ AllHours(l)[t] \in Nat
                       /\ Points(l)[t] = PointSum(l, t) /\ Points(l)[t] \in Nat
                       /\ AllHours(l)[t] = 0 <=> Graded(l, t) = {}
                       /\ Graded(l, t) = {} => Points(l)[t] = 0
                       /\ term_gpa(l, t) = GPA(Points(l)[t], AllHours(l)[t])
                       /\ Weighted(l)[t] = term_gpa(l, t) * AllHours(l)[t]
  <2> TAKE t \in Terms
  <2>1. term_gpa(l, t) = GPA(PointSum(l, t), total_credit_hours(l, t))
    BY LinesAreLetters
  <2>2. Weighted(l)[t] = term_gpa(l, t) * total_credit_hours(l, t)
    BY DEF Weighted
  <2> QED  BY <2>1, <2>2, TermNumbers
<1>4. \A t \in Terms : /\ Weighted(l)[t] \in Nat
                       /\ 2 * Weighted(l)[t] <= 200 * Points(l)[t] + 1 * AllHours(l)[t]
                       /\ 200 * Points(l)[t] <= 2 * Weighted(l)[t] + 1 * AllHours(l)[t]
                       /\ AllHours(l)[t] = 0 => Weighted(l)[t] = 0
  <2> TAKE t \in Terms
  <2> DEFINE p == Points(l)[t]
             d == AllHours(l)[t]
             g == term_gpa(l, t)
             w == Weighted(l)[t]
  <2>1. /\ p \in Nat /\ d \in Nat /\ (d = 0 => p = 0) /\ g = GPA(p, d) /\ w = g * d
    BY <1>3
  <2> HIDE DEF p, d, g, w
  <2>2. CASE d = 0
    <3>1. g \in Int
      BY <2>1, <2>2 DEF GPA, NoGPA
    <3>2. w = 0
      BY <2>1, <2>2, <3>1
    <3>3. w \in Nat /\ 2 * w <= 200 * p + 1 * d /\ 200 * p <= 2 * w + 1 * d
      BY <2>1, <2>2, <3>2
    <3> QED  BY <3>2, <3>3 DEF p, d, w
  <2>3. CASE d # 0
    <3> DEFINE n == 100 * p
    <3>1. n \in Nat /\ d \in Nat \ {0}
      BY <2>1, <2>3
    <3>2. g = Rounded(n, d)
      BY <2>1, <2>3 DEF GPA
    <3>3. g \in Nat /\ 2 * (d * g) <= 2 * n + d /\ 2 * n <= 2 * (d * g) + d
      <4> HIDE DEF n
      <4> QED  BY <3>1, <3>2, RoundedNear
    <3>4. w = d * g /\ w \in Nat
      BY <2>1, <3>3
    <3>5. w \in Nat /\ 2 * w <= 200 * p + 1 * d /\ 200 * p <= 2 * w + 1 * d
      BY <2>1, <3>3, <3>4
    <3> QED  BY <2>3, <3>5 DEF p, d, w
  <2> QED  BY <2>2, <2>3
<1>5. SumFunctionOnSet(Weighted(l), Terms) \in Nat
  BY <1>4, TermsFinite, SumNat
<1>6. 2 * SumFunctionOnSet(Weighted(l), Terms)
        <= 200 * SumFunctionOnSet(Points(l), Terms) + 1 * SumFunctionOnSet(AllHours(l), Terms)
  <2>1. \A t \in Terms : /\ Weighted(l)[t] \in Int /\ Points(l)[t] \in Int /\ AllHours(l)[t] \in Int
                         /\ 2 * Weighted(l)[t] <= 200 * Points(l)[t] + 1 * AllHours(l)[t]
    BY <1>3, <1>4
  <2>2. 2 \in Int /\ 200 \in Int /\ 1 \in Int
    OBVIOUS
  <2> QED  BY <2>1, <2>2, TermsFinite, SumLinear, Zenon
<1>7. 200 * SumFunctionOnSet(Points(l), Terms)
        <= 2 * SumFunctionOnSet(Weighted(l), Terms) + 1 * SumFunctionOnSet(AllHours(l), Terms)
  <2>1. \A t \in Terms : /\ Weighted(l)[t] \in Int /\ Points(l)[t] \in Int /\ AllHours(l)[t] \in Int
                         /\ 200 * Points(l)[t] <= 2 * Weighted(l)[t] + 1 * AllHours(l)[t]
    BY <1>3, <1>4
  <2>2. 200 \in Int /\ 2 \in Int /\ 1 \in Int
    OBVIOUS
  <2> QED  BY <2>1, <2>2, TermsFinite, SumLinear, Zenon
<1>8. transcript_credits(l) = SumFunctionOnSet(AllHours(l), Terms)
  <2> DEFINE hours == [t \in some |-> total_credit_hours(l, t)]
  <2>1. transcript_credits(l) = SumFunctionOnSet(hours, some)
    BY DEF transcript_credits, SumFunction
  <2>2. \A t \in some : hours[t] \in Int /\ hours[t] = AllHours(l)[t]
    BY <1>1, <1>3
  <2> HIDE DEF hours, some
  <2>3. SumFunctionOnSet(hours, some) = SumFunctionOnSet(AllHours(l), some)
    BY <1>2, <2>2, SumAgree
  <2>4. \A t \in Terms : AllHours(l)[t] \in Int
    BY <1>3
  <2>5. \A t \in Terms \ some : AllHours(l)[t] = 0
    BY <1>1, <1>3
  <2>6. SumFunctionOnSet(AllHours(l), Terms) = SumFunctionOnSet(AllHours(l), some)
    BY <1>1, <2>4, <2>5, TermsFinite, SumSupport
  <2> QED  BY <2>1, <2>3, <2>6
<1>9. SumFunction([t \in some |-> term_gpa(l, t) * total_credit_hours(l, t)])
        = SumFunctionOnSet(Weighted(l), Terms)
  <2> DEFINE weighted == [t \in some |-> term_gpa(l, t) * total_credit_hours(l, t)]
  <2>1. SumFunction(weighted) = SumFunctionOnSet(weighted, some)
    BY DEF SumFunction
  <2>2. \A t \in some : weighted[t] \in Int /\ weighted[t] = Weighted(l)[t]
    BY <1>1, <1>3, <1>4
  <2> HIDE DEF weighted, some
  <2>3. SumFunctionOnSet(weighted, some) = SumFunctionOnSet(Weighted(l), some)
    BY <1>2, <2>2, SumAgree
  <2>4. \A t \in Terms : Weighted(l)[t] \in Int
    BY <1>4
  <2>5. \A t \in Terms \ some : Weighted(l)[t] = 0
    BY <1>1, <1>3, <1>4
  <2>6. SumFunctionOnSet(Weighted(l), Terms) = SumFunctionOnSet(Weighted(l), some)
    BY <1>1, <2>4, <2>5, TermsFinite, SumSupport
  <2>7. SumFunction(weighted) = SumFunctionOnSet(Weighted(l), Terms)
    BY <2>1, <2>3, <2>6
  <2> QED  BY <2>7 DEF weighted
<1>10. transcript_cgpa(l) = IF SumFunctionOnSet(AllHours(l), Terms) = 0 THEN NoGPA
                            ELSE Rounded(SumFunctionOnSet(Weighted(l), Terms),
                                         SumFunctionOnSet(AllHours(l), Terms))
  BY <1>8, <1>9, Zenon DEF transcript_cgpa
<1>11. /\ 2 * SumFunctionOnSet(Weighted(l), Terms)
             <= 200 * SumFunctionOnSet(Points(l), Terms) + SumFunctionOnSet(AllHours(l), Terms)
       /\ 200 * SumFunctionOnSet(Points(l), Terms)
             <= 2 * SumFunctionOnSet(Weighted(l), Terms) + SumFunctionOnSet(AllHours(l), Terms)
  BY <1>5, <1>6, <1>7, LedgerSums
<1> QED
  BY <1>5, <1>10, <1>11

\* The advisor adds up lines of all terms at once.
LEMMA AdvisorAverage ==
  ASSUME NEW l \in Ledgers
  PROVE  LET points == SumFunctionOnSet(Points(l), Terms)
             hours  == SumFunctionOnSet(Hours(l), Terms)
         IN  compute_cgpa(l) = IF hours = 0 THEN NoGPA ELSE Rounded(points, hours)
<1> DEFINE E == [t \in Terms |-> Counting(l, t)]
           pairs == PairsIn(Terms, Courses, E)
           eligible == {g \in list_authorised_for_student(l) :
                           counts_toward_cgpa(l[g[1]][g[2]])}
           credit == [g \in Terms \X Courses |-> Credits[g[2]]]
           point  == [g \in Terms \X Courses |-> LinePoints(l[g[1]][g[2]], g[2])]
           credits == [g \in eligible |-> Credits[g[2]]]
           points  == [g \in eligible |-> LinePoints(l[g[1]][g[2]], g[2])]
<1>1. eligible = pairs
  <2>1. \A g \in Terms \X Courses : g[1] \in Terms /\ g[2] \in Courses
    OBVIOUS
  <2>2. \A g \in Terms \X Courses : g \in eligible <=> g \in pairs
    BY <2>1, PointsType, RulesAssumption
    DEF PairsIn, list_authorised_for_student, Counting, counts_toward_cgpa
  <2> QED  BY <2>2 DEF PairsIn, list_authorised_for_student
<1>2. pairs \in SUBSET (Terms \X Courses) /\ IsFiniteSet(Terms \X Courses) /\ IsFiniteSet(pairs)
  <2>1. pairs \in SUBSET (Terms \X Courses)
    BY DEF PairsIn
  <2>2. IsFiniteSet(Terms \X Courses)
    BY TermsFinite, RulesAssumption, FS_Product
  <2> QED  BY <2>1, <2>2, FS_Subset
<1>3. \A t \in Terms : E[t] \in SUBSET Courses /\ E[t] = Counting(l, t)
  BY DEF Counting
<1>4. \A t \in Terms, c \in Courses : /\ credit[<<t, c>>] = Credits[c]
                                      /\ credit[<<t, c>>] \in Nat \ {0}
  BY RulesAssumption
<1>5. \A t \in Terms, c \in Courses : /\ point[<<t, c>>] = LinePoints(l[t][c], c)
                                      /\ point[<<t, c>>] \in Int
  <2> TAKE t \in Terms, c \in Courses
  <2>1. point[<<t, c>>] = LinePoints(l[t][c], c)
    OBVIOUS
  <2>2. Credits[c] \in Nat
    BY RulesAssumption
  <2>3. CASE counts_toward_cgpa(l[t][c])
    <3>1. GRADE_POINTS[l[t][c]] \in Nat
      BY <2>3, PointsType DEF counts_toward_cgpa
    <3>2. LinePoints(l[t][c], c) = GRADE_POINTS[l[t][c]] * Credits[c]
      BY <2>3 DEF LinePoints
    <3>3. GRADE_POINTS[l[t][c]] * Credits[c] \in Int
      BY <2>2, <3>1
    <3> QED  BY <2>1, <3>2, <3>3
  <2>4. CASE ~counts_toward_cgpa(l[t][c])
    BY <2>1, <2>4 DEF LinePoints
  <2> QED  BY <2>3, <2>4
<1>6. \A t \in Terms : Hours(l)[t] = SumFunctionOnSet(Row(credit, t, Courses), E[t])
  <2> TAKE t \in Terms
  <2>1. Hours(l)[t] = SumFunctionOnSet(Credits, Counting(l, t))
    BY TermNumbers DEF CreditSum
  <2>2. \A c \in Counting(l, t) : /\ Credits[c] \in Int
                                  /\ Credits[c] = Row(credit, t, Courses)[c]
    BY <1>4 DEF Row, Counting
  <2>3. IsFiniteSet(Counting(l, t))
    BY PointSums
  <2> HIDE DEF credit
  <2>4. SumFunctionOnSet(Credits, Counting(l, t))
          = SumFunctionOnSet(Row(credit, t, Courses), Counting(l, t))
    BY <2>2, <2>3, SumAgree
  <2> QED  BY <1>3, <2>1, <2>4
<1>7. \A t \in Terms : Points(l)[t] = SumFunctionOnSet(Row(point, t, Courses), E[t])
  <2> TAKE t \in Terms
  <2>1. Points(l)[t] = SumFunctionOnSet(LetterPoints(l, t), Counting(l, t))
    BY TermNumbers, PointSums
  <2>2. \A c \in Counting(l, t) : /\ LetterPoints(l, t)[c] \in Int
                                  /\ LetterPoints(l, t)[c] = Row(point, t, Courses)[c]
    <3> TAKE c \in Counting(l, t)
    <3>1. c \in Courses /\ counts_toward_cgpa(l[t][c])
      BY DEF Counting
    <3>2. Row(point, t, Courses)[c] = GRADE_POINTS[l[t][c]] * Credits[c]
      BY <1>5, <3>1 DEF Row, LinePoints
    <3> HIDE DEF point
    <3> QED  BY <3>2, LetterPointsType
  <2>3. IsFiniteSet(Counting(l, t))
    BY PointSums
  <2> HIDE DEF point
  <2>4. SumFunctionOnSet(LetterPoints(l, t), Counting(l, t))
          = SumFunctionOnSet(Row(point, t, Courses), Counting(l, t))
    BY <2>2, <2>3, SumAgree
  <2> QED  BY <1>3, <2>1, <2>4
<1>8. \A g \in pairs : /\ credits[g] = credit[g] /\ points[g] = point[g]
                       /\ credits[g] \in Nat \ {0} /\ points[g] \in Int
  <2> TAKE g \in pairs
  <2>1. g \in Terms \X Courses /\ g = <<g[1], g[2]>> /\ g[1] \in Terms /\ g[2] \in Courses
    BY DEF PairsIn
  <2>2. credits[g] = credit[g] /\ points[g] = point[g]
    BY <1>1, <2>1
  <2>3. credit[g] \in Nat \ {0} /\ point[g] \in Int
    BY <1>4, <1>5, <2>1
  <2> QED  BY <2>2, <2>3
<1>9. /\ compute_cgpa(l) = IF eligible = {} THEN NoGPA
                           ELSE Rounded(SumFunction(points), SumFunction(credits))
      /\ SumFunction(points) = SumFunctionOnSet(points, eligible)
      /\ SumFunction(credits) = SumFunctionOnSet(credits, eligible)
  <2>1. SumFunction(points) = SumFunctionOnSet(points, eligible)
    BY DEF SumFunction
  <2>2. SumFunction(credits) = SumFunctionOnSet(credits, eligible)
    BY DEF SumFunction
  <2>3. compute_cgpa(l) = IF eligible = {} THEN NoGPA
                          ELSE Rounded(SumFunction(points), SumFunction(credits))
    BY Zenon DEF compute_cgpa
  <2> QED  BY <2>1, <2>2, <2>3
<1> HIDE DEF eligible, credit, point, credits, points
<1>10. SumFunctionOnSet(credits, pairs) = SumFunctionOnSet(credit, pairs)
  <2> HIDE DEF pairs
  <2>1. \A g \in pairs : credits[g] \in Int /\ credits[g] = credit[g]
    BY <1>8
  <2> QED  BY <1>2, <2>1, SumAgree
<1>11. SumFunctionOnSet(points, pairs) = SumFunctionOnSet(point, pairs)
  <2> HIDE DEF pairs
  <2>1. \A g \in pairs : points[g] \in Int /\ points[g] = point[g]
    BY <1>8
  <2> QED  BY <1>2, <2>1, SumAgree
<1> HIDE DEF E
<1>12. SumFunctionOnSet(credit, pairs) = SumFunctionOnSet(Hours(l), Terms)
  <2> DEFINE total == Hours(l)
  <2>0. \A t \in Terms : total[t] = SumFunctionOnSet(Row(credit, t, Courses), E[t])
    BY <1>6
  <2>1. \A t \in Terms, c \in Courses : credit[<<t, c>>] \in Int
    <3> TAKE t \in Terms, c \in Courses
    <3>1. credit[<<t, c>>] \in Nat \ {0}
      BY <1>4
    <3> QED  BY <3>1
  <2>2. \A t \in Terms : E[t] \in SUBSET Courses
    BY <1>3
  <2>3. IsFiniteSet(Terms) /\ IsFiniteSet(Courses)
    BY TermsFinite, RulesAssumption
  <2> HIDE DEF total, pairs
  <2>4. SumFunctionOnSet(credit, PairsIn(Terms, Courses, E)) = SumFunctionOnSet(total, Terms)
    BY <2>0, <2>1, <2>2, <2>3, SumPairs
<2> QED  BY <2>4 DEF total, pairs
<1>13. SumFunctionOnSet(point, pairs) = SumFunctionOnSet(Points(l), Terms)
  <2> DEFINE total == Points(l)
  <2>0. \A t \in Terms : total[t] = SumFunctionOnSet(Row(point, t, Courses), E[t])
    BY <1>7
  <2>1. \A t \in Terms, c \in Courses : point[<<t, c>>] \in Int
    BY <1>5
  <2>2. \A t \in Terms : E[t] \in SUBSET Courses
    BY <1>3
  <2>3. IsFiniteSet(Terms) /\ IsFiniteSet(Courses)
    BY TermsFinite, RulesAssumption
  <2> HIDE DEF total, pairs
  <2>4. SumFunctionOnSet(point, PairsIn(Terms, Courses, E)) = SumFunctionOnSet(total, Terms)
    BY <2>0, <2>1, <2>2, <2>3, SumPairs
<2> QED  BY <2>4 DEF total, pairs
<1> HIDE DEF pairs
<1>14. pairs = {} <=> SumFunctionOnSet(credits, pairs) = 0
  <2>1. CASE pairs = {}
    BY <2>1, SumEmpty
  <2>2. CASE pairs # {}
    <3>1. PICK g \in pairs : TRUE
      BY <2>2
    <3>2. \A h \in pairs : credits[h] \in Nat /\ credits[h] \in Int
      BY <1>8
    <3>3. SumFunctionOnSet(credits, pairs) = credits[g] + SumFunctionOnSet(credits, pairs \ {g})
      BY <1>2, <3>2, SumRemove
    <3>4. SumFunctionOnSet(credits, pairs \ {g}) \in Nat
      BY <1>2, <3>2, SumNat
    <3>5. credits[g] \in Nat \ {0}
      BY <1>8
    <3>6. SumFunctionOnSet(credits, pairs) # 0
      BY <3>3, <3>4, <3>5
    <3> QED  BY <2>2, <3>6
  <2> QED  BY <2>1, <2>2
<1> QED
  BY <1>1, <1>9, <1>10, <1>11, <1>12, <1>13, <1>14

\* Rounding once more, or over more hours, or to fewer decimals.
LEMMA RoundedTwice ==
  ASSUME NEW sum \in Nat, NEW points \in Nat, NEW hours \in Nat \ {0}, NEW all \in Nat \ {0},
         hours <= all,
         2 * sum <= 200 * points + all, 200 * points <= 2 * sum + all
  PROVE  LET x == Rounded(sum, all)
             y == Rounded(100 * points, hours)
             z == Rounded(points, hours)
         IN  /\ x \in Nat /\ y \in Nat /\ z \in Nat
             /\ x <= y + 1
             /\ hours = all => y <= x + 1
             /\ 100 * z <= y + 50 /\ y <= 100 * z + 50
<1> DEFINE n == 100 * points
           x == Rounded(sum, all)
           y == Rounded(n, hours)
           z == Rounded(points, hours)
<1>0. n \in Nat
  OBVIOUS
<1>1. x \in Nat /\ 2 * (all * x) <= 2 * sum + all /\ 2 * sum <= 2 * (all * x) + all
  BY RoundedNear
<1>2. y \in Nat /\ 2 * (hours * y) <= 2 * n + hours /\ 2 * n <= 2 * (hours * y) + hours
  <2> HIDE DEF n
  <2> QED  BY <1>0, RoundedNear
<1>3. z \in Nat /\ 2 * (hours * z) <= 2 * points + hours
      /\ 2 * points <= 2 * (hours * z) + hours
  BY RoundedNear
<1> HIDE DEF x, y, z
<1>4. hours * y <= all * y
  BY <1>2
<1>5. x <= y + 1
  <2> SUFFICES ASSUME y + 2 <= x PROVE FALSE
    BY <1>1, <1>2
  <2>1. all * (y + 2) <= all * x
    BY <1>1, <1>2
  <2>2. all * (y + 2) = all * y + 2 * all
    BY <1>2
  <2>3. all * x \in Int /\ all * y \in Int /\ hours * y \in Int
    BY <1>1, <1>2
  <2> QED  BY <1>1, <1>2, <1>4, <2>1, <2>2, <2>3
<1>6. ASSUME hours = all PROVE y <= x + 1
  <2> SUFFICES ASSUME x + 2 <= y PROVE FALSE
    BY <1>1, <1>2
  <2>1. hours * (x + 2) <= hours * y
    BY <1>1, <1>2
  <2>2. hours * (x + 2) = hours * x + 2 * hours
    BY <1>1
  <2>3. hours * x \in Int /\ hours * y \in Int /\ hours * x = all * x
    BY <1>1, <1>2, <1>6
  <2> QED  BY <1>1, <1>2, <1>6, <2>1, <2>2, <2>3
<1>7. hours * (100 * z) = 100 * (hours * z)
  BY <1>3
<1>8. 100 * z <= y + 50
  <2> SUFFICES ASSUME y + 51 <= 100 * z PROVE FALSE
    BY <1>2, <1>3
  <2>1. hours * (y + 51) <= hours * (100 * z)
    BY <1>2, <1>3
  <2>2. hours * (y + 51) = hours * y + 51 * hours
    BY <1>2
  <2>3. hours * y \in Int /\ hours * z \in Int
    BY <1>2, <1>3
  <2> QED  BY <1>2, <1>3, <1>7, <2>1, <2>2, <2>3
<1>9. y <= 100 * z + 50
  <2> SUFFICES ASSUME 100 * z + 51 <= y PROVE FALSE
    BY <1>2, <1>3
  <2>1. hours * (100 * z + 51) <= hours * y
    BY <1>2, <1>3
  <2>2. hours * (100 * z + 51) = 100 * (hours * z) + 51 * hours
    BY <1>3
  <2>3. hours * y \in Int /\ hours * z \in Int
    BY <1>2, <1>3
  <2> QED  BY <1>2, <1>3, <2>1, <2>2, <2>3
<1> QED
  BY <1>1, <1>2, <1>3, <1>5, <1>6, <1>8, <1>9 DEF x, y, z

LEMMA AveragesOfLedger ==
  ASSUME NEW l \in Ledgers, LastTerm > 0
  PROVE  DocumentsAgree(l)
<1> DEFINE cumulative == build_compute_input(l, LastTerm, NoStatus).cgpa
           report == get_grade_report(l, l, LastTerm)
           clean  == \A t \in Terms : Unmarked(l, t)
           all    == SumFunctionOnSet(AllHours(l), Terms)
           hours  == SumFunctionOnSet(Hours(l), Terms)
           points == SumFunctionOnSet(Points(l), Terms)
           sum    == SumFunctionOnSet(Weighted(l), Terms)
<1>1. report.cumulative_gpa = cumulative
  BY DEF get_grade_report
<1>2. /\ points \in Nat /\ hours \in Nat /\ all \in Nat /\ hours <= all
      /\ clean => hours = all
  BY LedgerSums
<1>3. cumulative = GPA(points, hours)
  BY StandingAverage
<1>4. /\ transcript_cgpa(l) = IF all = 0 THEN NoGPA ELSE Rounded(sum, all)
      /\ sum \in Nat
      /\ 2 * sum <= 200 * points + all
      /\ 200 * points <= 2 * sum + all
  BY TranscriptAverage
<1>5. compute_cgpa(l) = IF hours = 0 THEN NoGPA ELSE Rounded(points, hours)
  BY AdvisorAverage
<1>6. \A t \in Terms :
         LET sgpa == build_compute_input(l, t, NoStatus).sgpa
         IN  /\ Unmarked(l, t) => term_gpa(l, t) = sgpa
             /\ sgpa # NoGPA => term_gpa(l, t) <= sgpa
  BY TermAverages
<1> HIDE DEF cumulative, report, clean, all, hours, points, sum
<1>7. /\ clean => Near(transcript_cgpa(l), cumulative, 1)
      /\ cumulative = NoGPA <=> compute_cgpa(l) = NoGPA
      /\ cumulative # NoGPA =>
            /\ transcript_cgpa(l) <= cumulative + 1
            /\ Near(100 * compute_cgpa(l), cumulative, 51)
  <2>1. CASE hours = 0
    <3>1. cumulative = NoGPA /\ compute_cgpa(l) = NoGPA
      BY <2>1, <1>3, <1>5 DEF GPA
    <3>2. clean => transcript_cgpa(l) = NoGPA
      BY <2>1, <1>2, <1>4
    <3>3. Near(NoGPA, NoGPA, 1)
      BY DEF Near, NoGPA
    <3> QED  BY <3>1, <3>2, <3>3
  <2>2. CASE hours # 0
    <3> DEFINE x == Rounded(sum, all)
               y == Rounded(100 * points, hours)
               z == Rounded(points, hours)
    <3>1. hours \in Nat \ {0} /\ all \in Nat \ {0}
      BY <2>2, <1>2
    <3>2. /\ x \in Nat /\ y \in Nat /\ z \in Nat
          /\ x <= y + 1
          /\ hours = all => y <= x + 1
          /\ 100 * z <= y + 50 /\ y <= 100 * z + 50
      <4>1. /\ sum \in Nat /\ points \in Nat /\ hours <= all
            /\ 2 * sum <= 200 * points + all /\ 200 * points <= 2 * sum + all
        BY <1>2, <1>4
      <4> QED  BY <3>1, <4>1, RoundedTwice, ZenonT(30)
    <3>3. transcript_cgpa(l) = x /\ cumulative = y /\ compute_cgpa(l) = z
      BY <3>1, <1>3, <1>4, <1>5 DEF GPA
    <3> HIDE DEF x, y, z
    <3>4. cumulative # NoGPA /\ compute_cgpa(l) # NoGPA
      BY <3>2, <3>3 DEF NoGPA
    <3>5. hours = all => Near(x, y, 1)
      BY <3>2 DEF Near
    <3>6. Near(100 * z, y, 51)
      BY <3>2 DEF Near
    <3> QED  BY <1>2, <3>2, <3>3, <3>4, <3>5, <3>6
  <2> QED  BY <2>1, <2>2
<1>8. /\ clean => Near(transcript_cgpa(l), report.cumulative_gpa, 1)
      /\ report.cumulative_gpa = NoGPA <=> compute_cgpa(l) = NoGPA
      /\ report.cumulative_gpa # NoGPA =>
            /\ transcript_cgpa(l) <= report.cumulative_gpa + 1
            /\ Near(100 * compute_cgpa(l), report.cumulative_gpa, 51)
  BY <1>1, <1>7
<1> QED
  BY <1>6, <1>8 DEF DocumentsAgree, report, clean

-----------------------------------------------------------------------------
(* What the rules and the documents make of the ledger, whatever           *)
(* authorisations and corrections leave in it.                             *)

\* A better letter never brings a heavier verdict, on its term or a later one
\* (rules.py): points and hours are sums that a better letter does not lower,
\* rounding keeps their order, and so does the first-match list of rules.
THEOREM BetterGrades == Spec => []BetterGradeNeverHurts
<1>1. IInv => BetterGradeNeverHurts
  BY GradesOnlyHelp DEF IInv, TypeOK
<1> QED
  BY <1>1, Invariant, PTL

\* Nobody is dismissed with a CGPA of 2.00 and fewer than three Fs (rules.py).
THEOREM Dismissals == Spec => []DismissalHasGround
<1>1. DismissalHasGround
  BY DismissalsGrounded
<1> QED
  BY <1>1, PTL

\* Transcript, grade report and advisor average the same ledger to the same
\* number, up to the last decimal that they round to (transcript_service.py,
\* records/service.py, repository.py).
THEOREM Documents == ASSUME LastTerm > 0 PROVE Spec => []AveragesAgree
<1>1. IInv => AveragesAgree
  BY AveragesOfLedger DEF IInv, TypeOK, AveragesAgree
<1> QED
  BY <1>1, Invariant, PTL

-----------------------------------------------------------------------------
(***************************************************************************)
(* The advisor (AdvisoryTurns), who reads the same ledger.                 *)
(***************************************************************************)
\* Only a verdict of high risk waits for an officer, a slot that serves somebody
\* knows what it was asked, and what a consultation has read of the ledger, which
\* only grows, was there.  While sessions take turns, what one of them has read
\* still holds: the ledger, the attempts, the registration, and that the review is
\* open.
Escalated == \A i \in DOMAIN advice : advice[i].requires_officer_review => advice[i].risk = "HIGH"
KnowsMode == \A r \in Requests : request[r].at = "idle" <=> request[r].mode = "none"
WasRead(q) ==
    /\ q.at \in {"history", "asked"} => q.done \subseteq completed_course_ids(ledger)
    /\ q.at = "asked" => q.failed \subseteq failed_course_ids
StillRead(q) ==
    /\ q.at \in {"history", "asked"} => q.done = completed_course_ids(ledger)
    /\ q.at = "asked" => q.failed = failed_course_ids /\ q.dropped = dropped_course_ids
    /\ q.mode \in {"REGISTRATION_PLAN", "ADD_DROP"} => q.base = Active
StillOpen == \A o \in Reviewing : advice[review[o]].reviewed_by = 0
AInv ==
    /\ AdvisoryTypeOK
    /\ Escalated
    /\ KnowsMode
    /\ serial \in BOOLEAN
    /\ \A r \in Requests : WasRead(request[r])
    /\ serial => OneSession /\ (\A r \in Requests : StillRead(request[r])) /\ StillOpen

\* What was read of a ledger and a registration that stand still holds as it did.
LEMMA ReadsKept ==
    ASSUME UNCHANGED academic, NEW q
    PROVE  (WasRead(q) => WasRead(q)') /\ (StillRead(q) => StillRead(q)')
<1>1. completed_course_ids(ledger') = completed_course_ids(ledger)
  BY DEF academic
<1>2. /\ failed_course_ids' = failed_course_ids /\ dropped_course_ids' = dropped_course_ids
      /\ Active' = Active
  BY DEF academic, failed_course_ids, dropped_course_ids, Active
<1> QED  BY <1>1, <1>2 DEF WasRead, StillRead

\* A slot is idle or serves one question.
LEMMA QuestionType ==
    ASSUME NEW q \in Question, NEW f \in [Requests -> Question], NEW r \in Requests
    PROVE  /\ [f EXCEPT ![r] = q] \in [Requests -> Question]
           /\ [f EXCEPT ![r] = q][r] = q
           /\ \A s \in Requests \ {r} : [f EXCEPT ![r] = q][s] = f[s]
  OBVIOUS

LEMMA NoRequestType == NoRequest \in Question
  BY DEF NoRequest, Question

\* Adding a row leaves the ones there are.
LEMMA AdviceGrows ==
    ASSUME advice \in Seq(AdviceRow), NEW row \in AdviceRow, advice' = Append(advice, row)
    PROVE  /\ advice' \in Seq(AdviceRow)
           /\ DOMAIN advice \subseteq DOMAIN advice'
           /\ \A i \in DOMAIN advice : advice'[i] = advice[i]
           /\ \A i \in DOMAIN advice' \ DOMAIN advice : advice'[i] = row
<1>1. DOMAIN advice = 1..Len(advice) /\ Len(advice) \in Nat
  OBVIOUS
<1>2. advice' \in Seq(AdviceRow) /\ Len(advice') = Len(advice) + 1
  OBVIOUS
<1>3. DOMAIN advice' = 1..(Len(advice) + 1)
  BY <1>2
<1>4. \A i \in 1..Len(advice) : advice'[i] = advice[i]
  OBVIOUS
<1>5. advice'[Len(advice) + 1] = row
  OBVIOUS
<1>6. \A i \in DOMAIN advice' \ DOMAIN advice : i = Len(advice) + 1
  BY <1>1, <1>3
<1> QED  BY <1>1, <1>2, <1>3, <1>4, <1>5, <1>6

\* A step that adds a row, or none, and leaves the reviews alone.
LEMMA AppendingStep ==
    ASSUME AInv, UNCHANGED <<academic, review, serial>>, NEW row \in AdviceRow,
           advice' = Append(advice, row), row.requires_officer_review => row.risk = "HIGH"
    PROVE  /\ advice' \in Seq(AdviceRow) /\ review' \in [Reviews -> {0} \cup DOMAIN advice']
           /\ Escalated'
           /\ serial => StillOpen'
           /\ ReviewStands
<1>1. /\ advice' \in Seq(AdviceRow)
      /\ DOMAIN advice \subseteq DOMAIN advice'
      /\ \A i \in DOMAIN advice : advice'[i] = advice[i]
      /\ \A i \in DOMAIN advice' \ DOMAIN advice : advice'[i] = row
  BY AdviceGrows DEF AInv, AdvisoryTypeOK
<1>2. review' \in [Reviews -> {0} \cup DOMAIN advice']
  <2>1. review \in [Reviews -> {0} \cup DOMAIN advice]
    BY DEF AInv, AdvisoryTypeOK
  <2> QED  BY <1>1, <2>1
<1>3. Escalated'
  BY <1>1 DEF AInv, Escalated
<1>4. serial => StillOpen'
  <2>1. \A o \in Reviewing : review[o] \in DOMAIN advice
    BY DEF AInv, AdvisoryTypeOK, Reviewing
  <2> QED  BY <1>1, <2>1 DEF AInv, StillOpen, Reviewing
<1>5. load_advisory' = list_high_risk_open'
  BY <1>3 DEF Escalated, load_advisory, list_high_risk_open
<1>6. list_high_risk_open \subseteq list_high_risk_open'
  BY <1>1 DEF list_high_risk_open
<1> QED  BY <1>1, <1>2, <1>3, <1>4, <1>5, <1>6 DEF ReviewStands

\* A step that leaves the stored verdicts alone.
LEMMA AdviceKept ==
    ASSUME AInv, UNCHANGED advice
    PROVE  Escalated' /\ ReviewStands /\ AdviceSound
<1>1. Escalated'
  BY DEF AInv, Escalated
<1>2. load_advisory' = list_high_risk_open'
  BY <1>1 DEF Escalated, load_advisory, list_high_risk_open
<1>3. list_high_risk_open' = list_high_risk_open
  BY DEF list_high_risk_open
<1> QED  BY <1>1, <1>2, <1>3 DEF ReviewStands, AdviceSound

\* A step of one slot.
LEMMA SlotStep ==
    ASSUME AInv, UNCHANGED <<academic, serial>>, NEW r \in Requests, NEW q \in Question,
           request' = [request EXCEPT ![r] = q],
           q.at = "idle" <=> q.mode = "none", WasRead(q), serial => StillRead(q)
    PROVE  /\ request' \in [Requests -> Question]
           /\ KnowsMode'
           /\ \A s \in Requests : WasRead(request[s])'
           /\ serial => \A s \in Requests : StillRead(request[s])'
<1>1. request \in [Requests -> Question]
  BY DEF AInv, AdvisoryTypeOK
<1>2. /\ request' \in [Requests -> Question]
      /\ request'[r] = q
      /\ \A s \in Requests \ {r} : request'[s] = request[s]
  BY <1>1, QuestionType
<1>3. KnowsMode'
  BY <1>2 DEF AInv, KnowsMode
<1>4. ASSUME NEW s \in Requests
      PROVE  WasRead(request[s])' /\ (serial => StillRead(request[s])')
  <2>1. PICK now : now = request'[s]
    OBVIOUS
  <2>2. WasRead(now) /\ (serial => StillRead(now))
    BY <1>2, <2>1 DEF AInv
  <2>3. WasRead(now)' /\ (serial => StillRead(now)')
    BY <2>2, ReadsKept
  <2> QED  BY <2>1, <2>3 DEF WasRead, StillRead
<1> QED  BY <1>2, <1>3, <1>4

\* A step of no slot.
LEMMA SlotsKept ==
    ASSUME AInv, UNCHANGED <<academic, request>>
    PROVE  /\ KnowsMode' /\ \A s \in Requests : WasRead(request[s])'
           /\ serial => \A s \in Requests : StillRead(request[s])'
<1>1. KnowsMode'
  BY DEF AInv, KnowsMode
<1>2. ASSUME NEW s \in Requests
      PROVE  WasRead(request[s])' /\ (serial => StillRead(request[s])')
  <2>1. PICK now : now = request[s] /\ now = request'[s]
    OBVIOUS
  <2>2. WasRead(now)' /\ (serial => StillRead(now)')
    BY <2>1, ReadsKept DEF AInv
  <2> QED  BY <2>1, <2>2 DEF WasRead, StillRead
<1> QED  BY <1>1, <1>2

LEMMA EvaluateStep ==
    ASSUME AInv, UNCHANGED serial, serial => OneSession', NEW asked, evaluate_plan(asked)
    PROVE  AInv' /\ ReviewStands /\ AdviceSound
<1> DEFINE risk == flag_risk_level(asked.cgpa, CreditSum(asked.proposed))
<1>1. risk \in AnyRisk
  BY DEF flag_risk_level, AnyRisk
<1> HIDE DEF risk
<1>2. PICK department :
         advice' = Append(advice,
             Recommendation("EVALUATE", risk, provide_academic_guidance(department, asked.done), {},
                            ~approve_course_load(risk)))
  BY DEF evaluate_plan, risk
<1> DEFINE row == Recommendation("EVALUATE", risk,
                      provide_academic_guidance(department, asked.done), {},
                      ~approve_course_load(risk))
<1>3. row \in AdviceRow /\ row.mode = "EVALUATE"
  BY <1>1 DEF Recommendation, AdviceRow, provide_academic_guidance, approve_course_load
<1>4. row.requires_officer_review => row.risk = "HIGH"
  BY DEF Recommendation, approve_course_load
<1>5. UNCHANGED <<academic, request, review>>
  BY DEF evaluate_plan
<1>6. advice' = Append(advice, row)
  BY <1>2
<1> HIDE DEF row
<1>7. /\ advice' \in Seq(AdviceRow) /\ review' \in [Reviews -> {0} \cup DOMAIN advice']
      /\ Escalated' /\ (serial => StillOpen') /\ ReviewStands
  BY <1>3, <1>4, <1>5, <1>6, AppendingStep
<1>8. AdvisoryTypeOK'
  BY <1>5, <1>7 DEF AInv, AdvisoryTypeOK, academic
<1>9. /\ KnowsMode' /\ \A s \in Requests : WasRead(request[s])'
      /\ serial => \A s \in Requests : StillRead(request[s])'
  BY <1>5, SlotsKept
<1>10. AdviceSound
  <2>1. \A i \in DOMAIN advice' \ DOMAIN advice : advice'[i] = row
    BY <1>3, <1>6, AdviceGrows DEF AInv, AdvisoryTypeOK
  <2> QED  BY <1>3, <2>1 DEF AdviceSound
<1> QED  BY <1>7, <1>8, <1>9, <1>10 DEF AInv

\* A step of a consultation that stores nothing.
LEMMA AskingStep ==
    ASSUME AInv, UNCHANGED serial, serial => OneSession', NEW r \in Requests, NEW q \in Question,
           request' = [request EXCEPT ![r] = q], UNCHANGED <<academic, advice, review>>,
           q.at = "idle" <=> q.mode = "none", WasRead(q), serial => StillRead(q)
    PROVE  AInv' /\ ReviewStands /\ AdviceSound
<1>1. /\ request' \in [Requests -> Question]
      /\ KnowsMode' /\ \A s \in Requests : WasRead(request[s])'
      /\ serial => \A s \in Requests : StillRead(request[s])'
  BY SlotStep
<1>2. Escalated' /\ ReviewStands /\ AdviceSound
  BY AdviceKept
<1>3. AdvisoryTypeOK'
  BY <1>1 DEF AInv, AdvisoryTypeOK, academic
<1>4. serial => StillOpen'
  BY DEF AInv, StillOpen, Reviewing
<1> QED  BY <1>1, <1>2, <1>3, <1>4 DEF AInv

LEMMA ConsultStep ==
    ASSUME AInv, UNCHANGED serial, serial => OneSession', NEW r \in Requests,
           NEW mode \in AnyMode, NEW base \in SUBSET Courses,
           NEW add \in SUBSET Courses, NEW drop \in SUBSET Courses,
           mode # "PRE_REGISTRATION" => base = Active,
           Consult(r, mode, base, add, drop)
    PROVE  AInv' /\ ReviewStands /\ AdviceSound
<1> DEFINE q == [NoRequest EXCEPT !.at = "resolved", !.mode = mode, !.base = base,
                                  !.add = add, !.drop = drop]
<1>1. q \in Question /\ q.at = "resolved" /\ q.mode = mode /\ q.base = base
  BY DEF NoRequest, Question
<1>2. mode # "none"
  BY DEF AnyMode
<1>3. request' = [request EXCEPT ![r] = q] /\ UNCHANGED <<academic, advice, review>>
  BY DEF Consult
<1> HIDE DEF q
<1>4. WasRead(q) /\ StillRead(q)
  BY <1>1 DEF WasRead, StillRead
<1> QED  BY <1>1, <1>2, <1>3, <1>4, AskingStep

LEMMA CompletedType == completed_course_ids(ledger) \in SUBSET Courses
  BY DEF completed_course_ids, list_authorised_for_student

LEMMA FailedType == failed_course_ids \in SUBSET Courses
  BY DEF failed_course_ids

LEMMA AverageType == ASSUME ledger \in Ledgers PROVE compute_cgpa(ledger) \in Nat \cup {NoGPA}
<1> DEFINE points == SumFunctionOnSet(Points(ledger), Terms)
           hours  == SumFunctionOnSet(Hours(ledger), Terms)
<1>1. compute_cgpa(ledger) = IF hours = 0 THEN NoGPA ELSE Rounded(points, hours)
  BY AdvisorAverage
<1>2. points \in Nat /\ hours \in Nat
  BY LedgerSums
<1> HIDE DEF points, hours
<1>3. hours # 0 => Rounded(points, hours) \in Nat
  BY <1>2, RoundedNear
<1> QED  BY <1>1, <1>3

LEMMA HistoryStep ==
    ASSUME AInv, UNCHANGED serial, serial => OneSession', NEW r \in Requests,
           resolve_academic_history(r)
    PROVE  AInv' /\ ReviewStands /\ AdviceSound
<1> DEFINE q == [request[r] EXCEPT !.at = "history", !.cgpa = compute_cgpa(ledger),
                                   !.done = completed_course_ids(ledger)]
<1>1. request \in [Requests -> Question] /\ ledger \in Ledgers
  BY DEF AInv, AdvisoryTypeOK
<1>2. request[r].mode # "none"
  BY DEF AInv, KnowsMode, resolve_academic_history
<1>3. compute_cgpa(ledger) \in Nat \cup {NoGPA} /\ completed_course_ids(ledger) \in SUBSET Courses
  BY <1>1, AverageType, CompletedType
<1>4. /\ q \in Question /\ q.at = "history" /\ q.mode = request[r].mode
      /\ q.done = completed_course_ids(ledger) /\ q.base = request[r].base
  BY <1>1, <1>3 DEF Question
<1>5. request' = [request EXCEPT ![r] = q] /\ UNCHANGED <<academic, advice, review>>
  BY <1>1 DEF resolve_academic_history
<1> HIDE DEF q
<1>6. WasRead(q) /\ (serial => StillRead(q))
  BY <1>4 DEF AInv, WasRead, StillRead
<1> QED  BY <1>2, <1>4, <1>5, <1>6, AskingStep

LEMMA AskStep ==
    ASSUME AInv, UNCHANGED serial, serial => OneSession', NEW r \in Requests, ask_consult(r)
    PROVE  AInv' /\ ReviewStands /\ AdviceSound
<1> DEFINE dropped == dropped_course_ids
           q == [request[r] EXCEPT !.at = "asked", !.failed = failed_course_ids,
                                   !.dropped = dropped]
<1>1. request \in [Requests -> Question] /\ attempts \in SUBSET Courses
  BY DEF AInv, AdvisoryTypeOK
<1>2. request[r].mode # "none" /\ request[r].at = "history"
  BY DEF AInv, KnowsMode, ask_consult
<1>3. failed_course_ids \in SUBSET Courses /\ dropped \in SUBSET Courses
  BY <1>1, FailedType DEF dropped_course_ids
<1>5. request' = [request EXCEPT ![r] = q] /\ UNCHANGED <<academic, advice, review>>
  BY <1>1 DEF ask_consult
<1> HIDE DEF dropped
<1>4. /\ q \in Question /\ q.at = "asked" /\ q.mode = request[r].mode
      /\ q.done = request[r].done /\ q.base = request[r].base
      /\ q.failed = failed_course_ids /\ q.dropped = dropped
  BY <1>1, <1>3 DEF Question
<1> HIDE DEF q
<1>6. WasRead(q) /\ (serial => StillRead(q))
  BY <1>2, <1>4 DEF AInv, WasRead, StillRead, dropped
<1> QED  BY <1>2, <1>4, <1>5, <1>6, AskingStep

LEMMA UnavailableStep ==
    ASSUME AInv, UNCHANGED serial, serial => OneSession', NEW r \in Requests, llm_unavailable(r)
    PROVE  AInv' /\ ReviewStands /\ AdviceSound
<1>1. NoRequest \in Question /\ NoRequest.at = "idle" /\ NoRequest.mode = "none"
  BY NoRequestType DEF NoRequest
<1>2. request' = [request EXCEPT ![r] = NoRequest] /\ UNCHANGED <<academic, advice, review>>
  BY DEF llm_unavailable
<1>3. WasRead(NoRequest) /\ StillRead(NoRequest)
  BY <1>1 DEF WasRead, StillRead
<1> QED  BY <1>1, <1>2, <1>3, AskingStep

\* What a verdict recommends is of the student's curriculum and of this half of
\* the year, and was not passed when the history was read.
LEMMA VerdictKept ==
    ASSUME NEW q \in Question, q.mode # "none", NEW answer \in Answers,
           NEW row, row = postprocess_consultation(q, answer)
    PROVE  /\ row \in AdviceRow /\ row.requires_officer_review = FALSE
           /\ \A c \in row.recommended : c \in Curriculum /\ InParity(c) /\ c \notin q.done
           /\ answer.codes = row.recommended \cup row.filtered
<1>1. answer.codes \subseteq Courses \cup Invented
  BY AdvisoryAssumption
<1>2. /\ kept(q, answer.codes) \subseteq answer.codes
      /\ kept(q, answer.codes) \subseteq Courses
      /\ \A c \in kept(q, answer.codes) : c \in Curriculum /\ InParity(c) /\ c \notin q.done
  BY DEF kept, Curriculum
<1> DEFINE risk == IF answer.risk \in AnyRisk THEN answer.risk ELSE "MEDIUM"
<1>3. risk \in AnyRisk
  BY DEF AnyRisk
<1>4. q.mode \in AnyMode
  BY DEF Question
<1> HIDE DEF risk
<1>5. row = [mode |-> q.mode, risk |-> risk, recommended |-> kept(q, answer.codes),
             filtered |-> answer.codes \ kept(q, answer.codes),
             requires_officer_review |-> FALSE, reviewed_by |-> 0]
  BY DEF postprocess_consultation, Recommendation, risk
<1> QED  BY <1>1, <1>2, <1>3, <1>4, <1>5 DEF AdviceRow

\* Whoever is not among the completed courses was passed in no term.
LEMMA NeverPassed ==
    ASSUME NEW c \in Courses, c \notin completed_course_ids(ledger), NEW t \in Terms
    PROVE  ~is_passing(ledger[t][c])
<1> SUFFICES ASSUME is_passing(ledger[t][c]) PROVE FALSE
  OBVIOUS
<1>1. ledger[t][c] # NoLetter
  BY RulesAssumption DEF is_passing
<1>2. <<t, c>> \in list_authorised_for_student(ledger)
  BY <1>1 DEF list_authorised_for_student
<1> QED  BY <1>2 DEF completed_course_ids

LEMMA StoreStep ==
    ASSUME AInv, UNCHANGED serial, serial => OneSession', NEW r \in Requests,
           NEW answer \in Answers, store_consultation(r, answer)
    PROVE  AInv' /\ ReviewStands /\ (serial => AdviceSound)
<1> DEFINE q == request[r]
           row == postprocess_consultation(q, answer)
<1>1. q \in Question /\ q.at = "asked" /\ q.mode # "none"
  BY DEF AInv, AdvisoryTypeOK, KnowsMode, store_consultation
<1>2. /\ advice' = Append(advice, row) /\ request' = [request EXCEPT ![r] = NoRequest]
      /\ UNCHANGED <<academic, review>>
  BY DEF store_consultation
<1>3. serial => q.done = completed_course_ids(ledger)
  BY <1>1 DEF AInv, StillRead
<1> HIDE DEF row, q
<1>4. /\ row \in AdviceRow /\ row.requires_officer_review = FALSE
      /\ \A c \in row.recommended : c \in Curriculum /\ InParity(c) /\ c \notin q.done
      /\ answer.codes = row.recommended \cup row.filtered
  BY <1>1, VerdictKept DEF row
<1>5. /\ advice' \in Seq(AdviceRow) /\ review' \in [Reviews -> {0} \cup DOMAIN advice']
      /\ Escalated' /\ (serial => StillOpen') /\ ReviewStands
  BY <1>2, <1>4, AppendingStep
<1>6. NoRequest \in Question /\ NoRequest.at = "idle" /\ NoRequest.mode = "none"
  BY NoRequestType DEF NoRequest
<1>10. WasRead(NoRequest) /\ StillRead(NoRequest)
  BY <1>6 DEF WasRead, StillRead
<1>7. /\ request' \in [Requests -> Question]
      /\ KnowsMode' /\ \A s \in Requests : WasRead(request[s])'
      /\ serial => \A s \in Requests : StillRead(request[s])'
  BY <1>2, <1>6, <1>10, SlotStep
<1>8. AdvisoryTypeOK'
  BY <1>2, <1>5, <1>7 DEF AInv, AdvisoryTypeOK, academic
<1>9. serial => AdviceSound
  <2>1. \A i \in DOMAIN advice' \ DOMAIN advice : advice'[i] = row
    BY <1>2, <1>4, AdviceGrows DEF AInv, AdvisoryTypeOK
  <2>2. ledger' = ledger
    BY <1>2 DEF academic
  <2>3. ASSUME serial, NEW c \in row.recommended, NEW t \in Terms
        PROVE  ~is_passing(ledger'[t][c])
    <3>1. c \in Courses /\ c \notin completed_course_ids(ledger)
      BY <1>3, <1>4, <2>3 DEF Curriculum
    <3> QED  BY <2>2, <3>1, NeverPassed
  <2> QED  BY <1>4, <2>1, <2>3 DEF AdviceSound
<1> QED  BY <1>5, <1>7, <1>8, <1>9 DEF AInv

LEMMA CloseLoadStep ==
    ASSUME AInv, UNCHANGED serial, serial => OneSession', NEW o \in Reviews,
           NEW i \in DOMAIN advice, CloseLoad(o, i)
    PROVE  AInv' /\ ReviewStands /\ AdviceSound
<1>1. /\ review' = [review EXCEPT ![o] = i] /\ advice[i].reviewed_by = 0
      /\ UNCHANGED <<academic, advice, request>>
  BY DEF CloseLoad, Reviewable
<1>2. review \in [Reviews -> {0} \cup DOMAIN advice]
  BY DEF AInv, AdvisoryTypeOK
<1>3. Escalated' /\ ReviewStands /\ AdviceSound
  BY <1>1, AdviceKept
<1>4. AdvisoryTypeOK'
  BY <1>1, <1>2 DEF AInv, AdvisoryTypeOK, academic
<1>5. /\ KnowsMode' /\ \A s \in Requests : WasRead(request[s])'
      /\ serial => \A s \in Requests : StillRead(request[s])'
  BY <1>1, SlotsKept
<1>6. serial => StillOpen'
  BY <1>1, <1>2 DEF AInv, StillOpen, Reviewing
<1> QED  BY <1>3, <1>4, <1>5, <1>6 DEF AInv

LEMMA CloseCommitStep ==
    ASSUME AInv, UNCHANGED serial, serial => OneSession', NEW o \in Reviews, CloseCommit(o)
    PROVE  AInv' /\ (serial => ReviewStands) /\ AdviceSound
<1> DEFINE i == review[o]
<1>1. /\ advice' = [advice EXCEPT ![i].reviewed_by = o] /\ i # 0
      /\ review' = [review EXCEPT ![o] = 0]
      /\ UNCHANGED <<academic, request>>
  BY DEF CloseCommit
<1>2. advice \in Seq(AdviceRow) /\ review \in [Reviews -> {0} \cup DOMAIN advice]
  BY DEF AInv, AdvisoryTypeOK
<1>3. i \in DOMAIN advice /\ o \in Reviewing
  BY <1>1, <1>2 DEF Reviewing
<1>4. serial => advice[i].reviewed_by = 0
  BY <1>3 DEF AInv, StillOpen
<1> HIDE DEF i
<1>5. advice[i] \in AdviceRow
  BY <1>2, <1>3
<1>6. [advice[i] EXCEPT !.reviewed_by = o] \in AdviceRow
  BY <1>5 DEF AdviceRow
<1>7. /\ advice' \in Seq(AdviceRow) /\ DOMAIN advice' = DOMAIN advice
      /\ advice'[i] = [advice[i] EXCEPT !.reviewed_by = o]
      /\ \A j \in DOMAIN advice \ {i} : advice'[j] = advice[j]
  BY <1>1, <1>2, <1>3, <1>6
<1>8. advice'[i].reviewed_by = o /\ o # 0
      /\ advice'[i].requires_officer_review = advice[i].requires_officer_review
      /\ advice'[i].risk = advice[i].risk
  BY <1>5, <1>7, AdvisoryAssumption DEF AdviceRow
<1>9. Escalated'
  <2>1. \A j \in DOMAIN advice : /\ advice'[j].risk = advice[j].risk
                                 /\ advice'[j].requires_officer_review
                                       = advice[j].requires_officer_review
    BY <1>7, <1>8
  <2>2. Escalated
    BY DEF AInv
  <2> QED  BY <1>7, <2>1, <2>2 DEF Escalated
<1>10. AdvisoryTypeOK'
  BY <1>1, <1>2, <1>7 DEF AInv, AdvisoryTypeOK, academic
<1>11. /\ KnowsMode' /\ \A s \in Requests : WasRead(request[s])'
       /\ serial => \A s \in Requests : StillRead(request[s])'
  BY <1>1, SlotsKept
<1>12. serial => StillOpen'
  <2>1. \A p \in Reviewing' : p # o /\ p \in Reviewing
    BY <1>1, <1>2 DEF Reviewing
  <2> QED  BY <1>3, <2>1 DEF AInv, OneSession, StillOpen
<1>13. AdviceSound
  BY <1>7 DEF AdviceSound
<1>14. load_advisory' = list_high_risk_open'
  BY <1>9 DEF Escalated, load_advisory, list_high_risk_open
<1>15. serial => \A j \in DOMAIN advice : advice[j].reviewed_by # 0 =>
                     advice'[j].reviewed_by = advice[j].reviewed_by
  BY <1>4, <1>7
<1>16. \A j \in list_high_risk_open \ list_high_risk_open' : advice'[j].reviewed_by # 0
  BY <1>7, <1>8 DEF list_high_risk_open
<1> QED  BY <1>9, <1>10, <1>11, <1>12, <1>13, <1>14, <1>15, <1>16 DEF AInv, ReviewStands

\* A grade becomes official once: what was passed or failed stays so.
LEMMA LedgerGrows ==
    ASSUME AInv, Elsewhere
    PROVE  /\ completed_course_ids(ledger) \subseteq completed_course_ids(ledger')
           /\ failed_course_ids \subseteq failed_course_ids'
<1>1. \A t \in Terms, c \in Courses : ledger[t][c] # NoLetter => ledger'[t][c] = ledger[t][c]
  <2>1. ledger \in Ledgers
    BY DEF AInv, AdvisoryTypeOK
  <2>2. ASSUME NEW t \in Terms, NEW c \in Courses, NEW letter \in Letters,
               publish_grade(t, c, letter)
        PROVE  \A u \in Terms, d \in Courses :
                  ledger[u][d] # NoLetter => ledger'[u][d] = ledger[u][d]
    BY <2>1, <2>2 DEF publish_grade, Ledgers
  <2>3. CASE UNCHANGED ledger
    BY <2>3
  <2> QED
    BY <2>2, <2>3 DEF Elsewhere, edit_draft, finalise_registration, apply_add_drop
<1>2. completed_course_ids(ledger) \subseteq completed_course_ids(ledger')
  BY <1>1 DEF completed_course_ids, list_authorised_for_student
<1>3. failed_course_ids \subseteq failed_course_ids'
  <2>1. NoLetter # "F"
    BY RulesAssumption DEF NumericLetters
  <2> QED  BY <1>1, <2>1 DEF failed_course_ids
<1> QED  BY <1>2, <1>3

\* While sessions take turns nobody else writes during one of them.
LEMMA ElsewhereStep ==
    ASSUME AInv, UNCHANGED serial, Elsewhere, serial => ~Engaged
    PROVE  AInv' /\ ReviewStands /\ AdviceSound
<1>1. UNCHANGED <<advice, request, review, attempts>>
  BY DEF Elsewhere, publish_grade, edit_draft, finalise_registration, apply_add_drop
<1>2. ledger' \in Ledgers
  <2>1. ledger \in Ledgers
    BY DEF AInv, AdvisoryTypeOK
  <2>2. ASSUME NEW t \in Terms, NEW c \in Courses, NEW letter \in Letters,
               publish_grade(t, c, letter)
        PROVE  ledger' \in Ledgers
    BY <2>1, <2>2 DEF publish_grade, Ledgers
  <2> QED
    BY <2>1, <2>2 DEF Elsewhere, edit_draft, finalise_registration, apply_add_drop
<1>3. /\ plan' \in {"none", "draft", "active"}
      /\ link' \in [Courses -> {"none", "active", "dropped"}]
  BY DEF AInv, AdvisoryTypeOK, Elsewhere, publish_grade, edit_draft,
         finalise_registration, apply_add_drop
<1>4. AdvisoryTypeOK'
  BY <1>1, <1>2, <1>3 DEF AInv, AdvisoryTypeOK
<1>5. Escalated' /\ ReviewStands /\ AdviceSound
  BY <1>1, AdviceKept
<1>6. KnowsMode' /\ (serial => StillOpen')
  BY <1>1 DEF AInv, KnowsMode, StillOpen, Reviewing
<1>7. serial => OneSession'
  BY <1>1 DEF AInv, OneSession, Consulting, Reviewing
<1>8. serial => \A r \in Requests : StillRead(request[r])'
  <2>1. serial => \A r \in Requests : request[r].at = "idle" /\ request[r].mode = "none"
    BY DEF AInv, KnowsMode, Engaged, Consulting
  <2> QED  BY <1>1, <2>1 DEF StillRead
<1>9. \A r \in Requests : WasRead(request[r])'
  <2>1. \A r \in Requests : WasRead(request[r])
    BY DEF AInv
  <2>2. /\ completed_course_ids(ledger) \subseteq completed_course_ids(ledger')
        /\ failed_course_ids \subseteq failed_course_ids'
    BY LedgerGrows
  <2> QED  BY <1>1, <2>1, <2>2 DEF WasRead
<1> QED  BY <1>4, <1>5, <1>6, <1>7, <1>8, <1>9 DEF AInv

LEMMA AdvisorStep ==
    ASSUME AInv, UNCHANGED serial, serial => OneSession', AdvisoryNext
    PROVE  AInv' /\ (serial => ReviewStands) /\ (serial => AdviceSound)
<1>1. CASE \E asked \in Asked : evaluate_plan(asked)
  BY <1>1, EvaluateStep
<1>2. ASSUME NEW r \in Requests, consult_pre_registration(r)
      PROVE  AInv' /\ ReviewStands /\ AdviceSound
  <2>1. "PRE_REGISTRATION" \in AnyMode
    BY DEF AnyMode
  <2> QED  BY <1>2, <2>1, ConsultStep DEF consult_pre_registration
<1>3. ASSUME NEW r \in Requests, consult_registration_plan(r)
      PROVE  AInv' /\ ReviewStands /\ AdviceSound
  <2>1. "REGISTRATION_PLAN" \in AnyMode /\ Active \in SUBSET Courses
    BY DEF AnyMode, Active
  <2> QED  BY <1>3, <2>1, ConsultStep DEF consult_registration_plan
<1>4. ASSUME NEW r \in Requests, consult_add_drop(r)
      PROVE  AInv' /\ ReviewStands /\ AdviceSound
  <2>1. "ADD_DROP" \in AnyMode /\ Active \in SUBSET Courses
    BY DEF AnyMode, Active
  <2> QED  BY <1>4, <2>1, ConsultStep DEF consult_add_drop
<1>5. CASE \E r \in Requests : \/ resolve_academic_history(r) \/ ask_consult(r)
                               \/ llm_unavailable(r)
  BY <1>5, HistoryStep, AskStep, UnavailableStep
<1>6. CASE \E r \in Requests : \E answer \in Answers : store_consultation(r, answer)
  BY <1>6, StoreStep
<1>7. CASE \E o \in Reviews : \E i \in DOMAIN advice : CloseLoad(o, i)
  BY <1>7, CloseLoadStep
<1>8. CASE \E o \in Reviews : CloseCommit(o)
  BY <1>8, CloseCommitStep
<1> QED  BY <1>1, <1>2, <1>3, <1>4, <1>5, <1>6, <1>7, <1>8 DEF AdvisoryNext

LEMMA AdvisoryStarts == AdvisoryTurnsInit => AInv
<1> SUFFICES ASSUME AdvisoryTurnsInit PROVE AInv
  OBVIOUS
<1> USE DEF AdvisoryTurnsInit, AdvisoryInit
<1>1. AdvisoryTypeOK
  <2>1. NoGrades \in Ledgers
    BY DEF NoGrades, Ledgers
  <2> QED  BY <2>1, NoRequestType DEF AdvisoryTypeOK
<1>2. \A r \in Requests : request[r] = NoRequest
  OBVIOUS
<1>3. NoRequest.at = "idle" /\ NoRequest.mode = "none"
  BY DEF NoRequest
<1>4. /\ KnowsMode /\ Consulting = {}
      /\ \A r \in Requests : WasRead(request[r]) /\ StillRead(request[r])
  BY <1>2, <1>3 DEF KnowsMode, Consulting, WasRead, StillRead
<1>5. Escalated
  BY DEF Escalated
<1>6. Reviewing = {}
  BY DEF Reviewing
<1> QED  BY <1>1, <1>4, <1>5, <1>6 DEF AInv, StillOpen, OneSession

LEMMA AdvisoryStep ==
    ASSUME AInv, [AdvisoryTurnsNext]_<<advisory, serial>>
    PROVE  AInv' /\ (serial => ReviewStands) /\ (serial => AdviceSound)
<1>1. CASE AdvisoryTurnsNext
  BY <1>1, AdvisorStep, ElsewhereStep DEF AdvisoryTurnsNext
<1>2. CASE UNCHANGED <<advisory, serial>>
  <2>1. AdvisoryTypeOK'
    BY <1>2 DEF AInv, AdvisoryTypeOK, advisory
  <2>2. UNCHANGED <<academic, request, advice, review, serial>>
    BY <1>2 DEF advisory, academic
  <2>5. /\ KnowsMode' /\ \A s \in Requests : WasRead(request[s])'
        /\ serial => \A s \in Requests : StillRead(request[s])'
    BY <2>2, SlotsKept
  <2>3. serial' \in BOOLEAN /\ (serial' => OneSession' /\ StillOpen')
    BY <2>2 DEF AInv, OneSession, Consulting, Reviewing, StillOpen
  <2>4. Escalated' /\ ReviewStands /\ AdviceSound
    BY <1>2, AdviceKept DEF advisory
  <2> QED  BY <2>1, <2>2, <2>3, <2>4, <2>5 DEF AInv
<1> QED  BY <1>1, <1>2

\* The invariant of the advisor, for any slots, courses and answers.
THEOREM Advised == AdvisoryTurnsSpec => []AInv
  BY AdvisoryStarts, AdvisoryStep, PTL DEF AdvisoryTurnsSpec

\* Somebody who has passed a course has it among the completed ones.
LEMMA Passed ==
    ASSUME NEW c \in Courses, NEW t \in Terms, is_passing(ledger[t][c])
    PROVE  c \in completed_course_ids(ledger)
<1>1. ledger[t][c] # NoLetter
  BY RulesAssumption DEF is_passing
<1>2. <<t, c>> \in list_authorised_for_student(ledger)
  BY <1>1 DEF list_authorised_for_student
<1> QED  BY <1>2 DEF completed_course_ids

\* What was read of the ledger and the registration makes the three lists.
LEMMA ListsComplete == AInv => ChoicesComplete
<1> SUFFICES ASSUME AInv, NEW r \in Asking PROVE
      LET q == request[r]
          p == consultation_payload(q)
          offered == p.retake \cup p.again \cup p.first
          missing == Outstanding \ ((q.base \cup q.add) \ q.drop)
      IN  /\ missing \subseteq offered
          /\ p.retake \cap p.again = {} /\ (p.retake \cup p.again) \cap p.first = {}
          /\ p.retake \subseteq failed_course_ids
          /\ serial => /\ offered = missing
                       /\ p.retake = missing \cap failed_course_ids
                       /\ p.again = (missing \cap dropped_course_ids) \ failed_course_ids
                       /\ q.mode # "PRE_REGISTRATION" => q.base = Active
  BY DEF ChoicesComplete
<1> DEFINE q == request[r]
           p == consultation_payload(q)
           offered == p.retake \cup p.again \cup p.first
           missing == Outstanding \ ((q.base \cup q.add) \ q.drop)
<1>1. r \in Requests /\ q.at = "asked" /\ q \in Question
  BY DEF Asking, AInv, AdvisoryTypeOK
<1>2. /\ q.done \subseteq completed_course_ids(ledger) /\ q.failed \subseteq failed_course_ids
  BY <1>1 DEF AInv, WasRead
<1>3. serial => /\ q.done = completed_course_ids(ledger)
                /\ q.failed = failed_course_ids /\ q.dropped = dropped_course_ids
                /\ q.mode \in {"REGISTRATION_PLAN", "ADD_DROP"} => q.base = Active
  BY <1>1 DEF AInv, StillRead
<1>4. q.mode \in {"PRE_REGISTRATION", "REGISTRATION_PLAN", "ADD_DROP"}
  BY <1>1 DEF AInv, KnowsMode, Question, AnyMode
<1>5. /\ Outstanding = {c \in Curriculum \ completed_course_ids(ledger) : InParity(c)}
  <2>1. Curriculum \subseteq Courses
    BY DEF Curriculum
  <2>2. ASSUME NEW c \in Courses
        PROVE  c \in completed_course_ids(ledger) <=> \E t \in Terms : is_passing(ledger[t][c])
    <3>1. CASE c \in completed_course_ids(ledger)
      <4>1. \E t \in Terms : is_passing(ledger[t][c])
        BY <3>1 DEF completed_course_ids, list_authorised_for_student
      <4> QED  BY <3>1, <4>1
    <3>2. CASE c \notin completed_course_ids(ledger)
      BY <3>2, NeverPassed
    <3> QED  BY <3>1, <3>2
  <2> QED  BY <2>1, <2>2 DEF Outstanding
<1> HIDE DEF q
<1>6. /\ p.retake = Open(q) \cap q.failed
      /\ p.again = (Open(q) \cap q.dropped) \ q.failed
      /\ p.first = Open(q) \ (q.failed \cup q.dropped)
  BY DEF consultation_payload, failed_retakes, dropped_retakes, never_attempted
<1>7. Open(q) = {c \in Curriculum \ q.done : InParity(c)} \ ((q.base \cup q.add) \ q.drop)
  BY DEF Open, already_covered
<1> HIDE DEF p
<1>8. offered = Open(q)
  BY <1>6
<1>9. missing \subseteq Open(q) /\ (serial => missing = Open(q))
  BY <1>2, <1>3, <1>5, <1>7
<1> HIDE DEF offered, missing
<1>10. p.retake \cap p.again = {} /\ (p.retake \cup p.again) \cap p.first = {}
  BY <1>6
<1>11. p.retake \subseteq failed_course_ids
  BY <1>2, <1>6
<1>12. serial => /\ offered = missing
                 /\ p.retake = missing \cap failed_course_ids
                 /\ p.again = (missing \cap dropped_course_ids) \ failed_course_ids
                 /\ q.mode # "PRE_REGISTRATION" => q.base = Active
  BY <1>3, <1>4, <1>6, <1>8, <1>9
<1> QED  BY <1>8, <1>9, <1>10, <1>11, <1>12 DEF p, q, offered, missing

\* However the ledger and the registration move between the reads, what a question
\* offers leaves out no course the student still has to take; in turns it offers
\* just those, each in its list (academic_advisory_agent.py).
THEOREM Choices == AdvisoryTurnsSpec => []ChoicesComplete
  BY ListsComplete, Advised, PTL

\* In turns, a closed review is its officer's for good, and a verdict leaves the
\* queue by a review only (service.py, close_officer_review).
THEOREM ReviewsStand == AdvisoryTurnsSpec => TurnsReviewStands
<1>1. AInv /\ [AdvisoryTurnsNext]_<<advisory, serial>>
      => [serial => ReviewStands]_<<advisory, serial>>
  BY AdvisoryStep
<1> QED  BY <1>1, Advised, PTL DEF AdvisoryTurnsSpec, TurnsReviewStands

\* In turns, advice is for the ledger of the moment: nothing the student has
\* passed is recommended (academic_advisory_agent.py, _postprocess_consultation).
THEOREM AdviceStands == AdvisoryTurnsSpec => TurnsAdvice
<1>1. AInv /\ [AdvisoryTurnsNext]_<<advisory, serial>>
      => [serial => AdviceSound]_<<advisory, serial>>
  BY AdvisoryStep
<1> QED  BY <1>1, Advised, PTL DEF AdvisoryTurnsSpec, TurnsAdvice
=============================================================================
