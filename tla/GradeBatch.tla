------------------------------ MODULE GradeBatch ------------------------------
(***************************************************************************)
(* The grading workflow of one course in one term: the instructor's side   *)
(* (grading/service.py, InstructorGradingService) and the department       *)
(* head's side (grading/dh_service.py, DepartmentHeadGradingService) over  *)
(* the same rows.                                                          *)
(*                                                                         *)
(* A request is a database session of its own (database/session.py):       *)
(* READ COMMITTED, no version column, no SELECT ... FOR UPDATE.  It loads  *)
(* the rows its guard looks at, awaits further reads or the LLM, and       *)
(* writes at the end what it computed from the rows it loaded; the ORM     *)
(* only emits an UPDATE for an attribute that differs from its loaded      *)
(* value.  A row written by a flush stays locked until the commit.  Each   *)
(* request is therefore two or three actions of a session:                 *)
(*                                                                         *)
(*    idle --Load--> loaded --Read/Compute--> read --Flush--> flushed      *)
(*      ^                                                        |         *)
(*      +------------------------- Commit / Abort ---------------+         *)
(*                                                                         *)
(* Abstractions: a student has one score row, the weighted total when it   *)
(* is filled in, Blank when the row holds no score, Absent when there is   *)
(* none; timestamps and user ids are Booleans ("is set"); the LLM's        *)
(* verdict is any of the three.                                            *)
(***************************************************************************)
EXTENDS LetterScale

CONSTANTS
    Sections,       \* the sections that teach the course
    Students,
    Sessions,       \* request slots: one slot is a serial system
    Totals,         \* the weighted totals the instructor may enter
    Absent, Blank,  \* score rows missing / incomplete
    NoGrade,        \* the student has no Grade row
    NoSection,      \* an idle slot works on no section
    Rosters,        \* the rosters add/drop may produce, [Sections -> SUBSET Students]
    MaxVersion, MaxIteration, MaxReviews, MaxDecisions   \* bounds for TLC

ASSUME ConstantsAssumption ==
    /\ Totals \subseteq 0..100
    /\ Absent \notin Totals /\ Blank \notin Totals /\ Absent # Blank
    /\ Rosters \subseteq [Sections -> SUBSET Students]
    /\ NoSection \notin Sections
    /\ MaxVersion \in Nat /\ MaxIteration \in Nat
    /\ MaxReviews \in Nat /\ MaxDecisions \in Nat

VARIABLES
    roster,      \* live roster of each section (roster.py)
    breakdown,   \* assessment_breakdowns row of each section
    batch,       \* grade_batches row of each section
    scores,      \* student_component_scores of each section's batch
    grades,      \* grades row of each student for this course and term
    reviews,     \* grade_agent_reviews, in commit order
    decisions,   \* grade_authorisation_decisions, in commit order
    session      \* the request each slot is serving

vars == <<roster, breakdown, batch, scores, grades, reviews, decisions, session>>
rows == <<roster, breakdown, batch, scores, grades, reviews, decisions>>

-----------------------------------------------------------------------------
(* Rows.                                                                   *)

Statuses ==
    {"DRAFT", "SUBMITTED", "FLAGGED", "AI_UNAVAILABLE", "AUTHORISED", "REJECTED"}
\* What the language model comes back with: a verdict, an object without a
\* valid one, or nothing (no client, timeout, API error, empty or broken JSON).
Replies == {"APPROVE", "FLAG", "invalid", "unavailable"}
review_batch(reply) == IF reply \in {"APPROVE", "FLAG"} THEN reply ELSE "PENDING"
Verdicts == {review_batch(reply) : reply \in Replies}
Decisions ==
    {"AUTHORISED", "REJECTED", "OVERRODE_AGENT_APPROVAL", "OVERRODE_AGENT_FLAG"}
Authorising == {"AUTHORISED", "OVERRODE_AGENT_FLAG"}

BreakdownRow == [version : Nat, locked : BOOLEAN, whole : BOOLEAN]
NoBreakdown  == [version |-> 0, locked |-> FALSE, whole |-> TRUE]

BatchRow == [status : Statuses \cup {"NONE"}, iteration : Nat,
             submitted : BOOLEAN]
NoBatch  == [status |-> "NONE", iteration |-> 0, submitted |-> FALSE]

GradeRow == [status : Statuses, letter : NumericLetters, section : Sections,
             stamped : BOOLEAN]

ASSUME NoGradeAssumption == NoGrade \notin GradeRow /\ NoGrade \notin NumericLetters

ReviewRow   == [section : Sections, iteration : Nat, verdict : Verdicts]
DecisionRow == [section : Sections, iteration : Nat, decision : Decisions]

Ops == {"upsert_breakdown", "get_or_create_batch", "upsert_scores",
        "delete_all_scores", "submit_batch", "submit_justification",
        "reopen_batch", "rerun_agent", "dh_rerun_agent", "authorise", "reject"}

\* Score cells of some students: what upsert_scores writes, what submit read.
Cells == UNION {[S -> Totals \cup {Blank}] : S \in SUBSET Students}
NoCells == [st \in {} |-> Blank]

\* The attributes of a Grade row that a submission sets.
Attributes == {"status", "letter", "section"}

\* What a session remembers: the rows it loaded (seen, bd), the cells it works
\* on, the students whose score or Grade rows it selected, whether its flush
\* sets or clears the breakdown's locked_at, and which attributes of the Grade
\* rows it selected differ from what it sets them to.
SessionRow ==
    [op : Ops \cup {"none"}, at : {"idle", "loaded", "read", "flushed"},
     section : Sections \cup {NoSection}, seen : BatchRow, bd : BreakdownRow,
     cells : Cells, selected : SUBSET Students, flip : BOOLEAN,
     dirty : SUBSET (Students \X Attributes)]

Idle == [op |-> "none", at |-> "idle", section |-> NoSection, seen |-> NoBatch,
         bd |-> NoBreakdown, cells |-> NoCells, selected |-> {}, flip |-> FALSE,
         dirty |-> {}]

HasGrade(st) == grades[st] # NoGrade
Official(st) == HasGrade(st) /\ grades[st].status = "AUTHORISED"

TypeOK ==
    /\ roster \in Rosters
    /\ breakdown \in [Sections -> BreakdownRow]
    /\ batch \in [Sections -> BatchRow]
    /\ scores \in [Sections -> [Students -> Totals \cup {Absent, Blank}]]
    /\ grades \in [Students -> GradeRow \cup {NoGrade}]
    /\ reviews \in Seq(ReviewRow)
    /\ decisions \in Seq(DecisionRow)
    /\ session \in [Sessions -> SessionRow]

Init ==
    /\ roster \in Rosters
    /\ breakdown = [sec \in Sections |-> NoBreakdown]
    /\ batch = [sec \in Sections |-> NoBatch]
    /\ scores = [sec \in Sections |-> [st \in Students |-> Absent]]
    /\ grades = [st \in Students |-> NoGrade]
    /\ reviews = <<>>
    /\ decisions = <<>>
    /\ session = [p \in Sessions |-> Idle]

-----------------------------------------------------------------------------
(* Sessions and row locks.                                                 *)

At(p, op, at) == session[p].op = op /\ session[p].at = at

\* The first reads of a request: the batch row, and the breakdown row where
\* the request asks for it.
Open(p, op, sec, bd) ==
    /\ session[p].at = "idle"
    /\ session' = [session EXCEPT ![p] =
           [op |-> op, at |-> "loaded", section |-> sec, seen |-> batch[sec],
            bd |-> bd, cells |-> NoCells, selected |-> {}, flip |-> FALSE, dirty |-> {}]]
    /\ UNCHANGED rows

\* Further reads: what the session now remembers, nothing written.
Read(p, bd, cells, selected, flip, dirty) ==
    /\ session' = [session EXCEPT ![p] =
           [op |-> @.op, at |-> "read", section |-> @.section, seen |-> @.seen,
            bd |-> bd, cells |-> cells, selected |-> selected, flip |-> flip, dirty |-> dirty]]
    /\ UNCHANGED rows

\* The flush succeeds: the rows it wrote are locked.
Flushed(p) ==
    /\ session' = [session EXCEPT ![p].at = "flushed"]
    /\ UNCHANGED rows

Close(p) == session' = [session EXCEPT ![p] = Idle]

\* An error leaves the handler: get_db rolls back.
Refuse(p) == Close(p) /\ UNCHANGED rows

WriteBreakdown(sec, version, locked, whole) ==
    breakdown' = [breakdown EXCEPT ![sec] =
        [version |-> version, locked |-> locked, whole |-> whole]]

WriteScores(sec, row) == scores' = [scores EXCEPT ![sec] = row]

\* The batch row is locked from the flush of a request that awaits the LLM
\* with the row already written, until that request commits.
BatchFree(sec) ==
    \A q \in Sessions : ~(session[q].at = "flushed" /\ session[q].section = sec)

\* submit_batch also holds the Grade rows it has flushed.
GradesFree(S) ==
    \A q \in Sessions : session[q].at = "flushed" => S \cap DOMAIN session[q].cells = {}

\* The UPDATE of a section's batch row.
WriteBatch(sec, status, iteration, submitted) ==
    batch' = [batch EXCEPT ![sec] =
        [status |-> status, iteration |-> iteration, submitted |-> submitted]]

StatusForPending(verdict) ==     \* mutant: PENDING leaves the batch SUBMITTED
    IF verdict = "FLAG" THEN "FLAGGED" ELSE "SUBMITTED"
StatusFor(verdict) ==
    CASE verdict = "APPROVE" -> "SUBMITTED"
      [] verdict = "FLAG"    -> "FLAGGED"
      [] verdict = "PENDING" -> "AI_UNAVAILABLE"

\* Append-only: a review or a decision adds one row, with the iteration the
\* session has in memory.
PersistReview(sec, iteration, verdict) ==
    reviews' = Append(reviews,
        [section |-> sec, iteration |-> iteration, verdict |-> verdict])

RecordDecisionOverride(sec, iteration, decision) ==      \* mutant: agreeing leaves no row
    IF decision \in {"OVERRODE_AGENT_FLAG", "OVERRODE_AGENT_APPROVAL"}
    THEN decisions' = Append(decisions, [section |-> sec, iteration |-> iteration,
                                         decision |-> decision])
    ELSE decisions' = decisions
RecordDecision(sec, iteration, decision) ==
    decisions' = Append(decisions,
        [section |-> sec, iteration |-> iteration, decision |-> decision])

\* Bounds on the append-only tables: no further request of the kind starts.
ReviewBudget   == Len(reviews) < MaxReviews
DecisionBudget == Len(decisions) < MaxDecisions

-----------------------------------------------------------------------------
(* Breakdown and batch creation.                                           *)

UpsertBreakdownLoad(p, sec) ==
    /\ ~breakdown[sec].locked
    /\ breakdown[sec].version < MaxVersion
    /\ Open(p, "upsert_breakdown", sec, breakdown[sec])

\* Creating a row that another request has created meanwhile breaks the unique
\* constraint.  Replacing deletes the components that were loaded (their scores
\* cascade) and inserts the new ones: when another request has replaced them
\* meanwhile its components stay too, and the weights no longer sum to 100.
UpsertBreakdownCommit(p) ==
    LET sec  == session[p].section
        old  == session[p].bd
        same == breakdown[sec].version = old.version
    IN  /\ At(p, "upsert_breakdown", "loaded")
        /\ \/ /\ old.version = 0 /\ ~same
              /\ Refuse(p)
           \/ /\ old.version = 0 => same
              /\ WriteBreakdown(sec, old.version + 1, breakdown[sec].locked, same)
              /\ WriteScores(sec, [st \in Students |->
                     IF same \/ scores[sec][st] = Absent THEN Absent ELSE Blank])
              /\ Close(p)
              /\ UNCHANGED <<roster, batch, grades, reviews, decisions>>

GetOrCreateBatchLoad(p, sec) ==
    /\ breakdown[sec].version > 0
    /\ batch[sec].status = "NONE"
    /\ Open(p, "get_or_create_batch", sec, NoBreakdown)

GetOrCreateBatchCommit(p) ==
    LET sec == session[p].section
    IN  /\ At(p, "get_or_create_batch", "loaded")
        /\ \/ batch[sec].status # "NONE" /\ Refuse(p)
           \/ /\ batch[sec].status = "NONE"
              /\ WriteBatch(sec, "DRAFT", 1, FALSE)
              /\ Close(p)
              /\ UNCHANGED <<roster, breakdown, scores, grades, reviews, decisions>>

-----------------------------------------------------------------------------
(* Scores.                                                                 *)

UpsertScoresLoadOpen(p, sec) ==      \* mutant: no DRAFT guard
    batch[sec].status # "NONE" /\ Open(p, "upsert_scores", sec, NoBreakdown)
UpsertScoresLoad(p, sec) ==
    /\ batch[sec].status = "DRAFT"
    /\ Open(p, "upsert_scores", sec, NoBreakdown)

\* Does this save set locked_at: a non-null score under an unlocked breakdown.
LocksBreakdownFirst(sec, any_non_null) ==      \* mutant: looks at the first save only
    any_non_null /\ \A st \in Students : scores[sec][st] = Absent
LocksBreakdown(sec, any_non_null) == any_non_null /\ ~breakdown[sec].locked

\* Cells are validated against the live roster; the existing score rows and the
\* breakdown are selected.  cells holds those the save changes (the ORM writes no
\* other); any_non_null, whether the payload has a score, decides the lock.
UpsertScoresRead(p) ==
    LET sec == session[p].section
    IN  /\ At(p, "upsert_scores", "loaded")
        /\ \/ \E S \in SUBSET roster[sec] :
              \E cells \in [S -> Totals \cup {Blank}], any_non_null \in BOOLEAN :
                 /\ \A st \in S : cells[st] # scores[sec][st]
                 /\ (\E st \in S : cells[st] # Blank) => any_non_null
                 /\ any_non_null => \/ \E st \in S : cells[st] # Blank
                                    \/ \E st \in roster[sec] : scores[sec][st] \in Totals
                 /\ Read(p, breakdown[sec], cells,
                         {st \in S : scores[sec][st] # Absent},
                         LocksBreakdown(sec, any_non_null), {})
           \/ Refuse(p)

\* A row selected but deleted since, or inserted since by another request, and
\* a component that has been replaced: the flush fails.
UpsertScoresCommit(p) ==
    LET s   == session[p]
        sec == s.section
        now == {st \in DOMAIN s.cells : scores[sec][st] # Absent}
    IN  /\ At(p, "upsert_scores", "read")
        /\ \/ /\ now # s.selected \/ breakdown[sec].version # s.bd.version
              /\ Refuse(p)
           \/ /\ now = s.selected /\ breakdown[sec].version = s.bd.version
              /\ WriteScores(sec, [st \in Students |->
                     IF st \in DOMAIN s.cells THEN s.cells[st] ELSE scores[sec][st]])
              /\ WriteBreakdown(sec, breakdown[sec].version,
                                breakdown[sec].locked \/ s.flip, breakdown[sec].whole)
              /\ Close(p)
              /\ UNCHANGED <<roster, batch, grades, reviews, decisions>>

DeleteAllScoresLoad(p, sec) ==
    /\ batch[sec].status = "DRAFT"
    /\ Open(p, "delete_all_scores", sec, NoBreakdown)

DeleteAllScoresRead(p) ==
    LET sec == session[p].section
    IN  /\ At(p, "delete_all_scores", "loaded")
        /\ Read(p, NoBreakdown, NoCells,
                {st \in Students : scores[sec][st] # Absent}, breakdown[sec].locked, {})

DeleteAllScoresCommit(p) ==
    LET s   == session[p]
        sec == s.section
    IN  /\ At(p, "delete_all_scores", "read")
        /\ WriteScores(sec, [st \in Students |->
               IF st \in s.selected THEN Absent ELSE scores[sec][st]])
        /\ WriteBreakdown(sec, breakdown[sec].version,
                          breakdown[sec].locked /\ ~s.flip, breakdown[sec].whole)
        /\ Close(p)
        /\ UNCHANGED <<roster, batch, grades, reviews, decisions>>

-----------------------------------------------------------------------------
(* Instructor: submit, justify, reopen, rerun.                             *)

SubmitLoad(p, sec) ==
    /\ batch[sec].status = "DRAFT"
    /\ ReviewBudget
    /\ Open(p, "submit_batch", sec, NoBreakdown)

\* The Grade row of a submission: SUBMITTED, under this section.
NewGrade(sec, total) ==
    [status |-> "SUBMITTED", letter |-> letter_for_numeric(total), section |-> sec,
     stamped |-> FALSE]

\* Setting attribute a of the student's Grade row changes it.
Differs(st, a, row) == HasGrade(st) /\ grades[st][a] # row[a]

\* Weights sum to 100, the roster is not empty, no cell is missing; the
\* outcomes are computed and the existing Grade rows selected (by student,
\* course and term: whichever section wrote them) and set to the outcomes.
SubmitCompute(p) ==
    LET sec    == session[p].section
        graded == roster[sec]
        ready  == /\ breakdown[sec].whole
                  /\ graded # {}
                  /\ \A st \in graded : scores[sec][st] \in Totals
    IN  /\ At(p, "submit_batch", "loaded")
        /\ \/ ~ready /\ Refuse(p)
           \/ /\ ready
              /\ Read(p, NoBreakdown, [st \in graded |-> scores[sec][st]],
                      {st \in graded : HasGrade(st)}, FALSE,
                      {w \in graded \X Attributes :
                         Differs(w[1], w[2], NewGrade(sec, scores[sec][w[1]]))})

\* Grade rows and batch.submitted_at are flushed before the agent runs: the
\* rows are locked from here to the commit.  Inserting a Grade row that another
\* request has inserted since breaks the unique constraint.
SubmitFlush(p) ==
    LET s == session[p]
    IN  /\ At(p, "submit_batch", "read")
        /\ BatchFree(s.section) /\ GradesFree(DOMAIN s.cells)
        /\ \/ /\ \E st \in DOMAIN s.cells \ s.selected : HasGrade(st)
              /\ Refuse(p)
           \/ /\ \A st \in DOMAIN s.cells \ s.selected : ~HasGrade(st)
              /\ Flushed(p)

\* _upsert_grade_rows: a new row, or an UPDATE of the attributes that differed
\* from the row as it was selected; an earlier authorisation's stamp stays.
SubmittedGrade(st, row, dirty) ==
    LET Orm(a, new, stored) == IF <<st, a>> \in dirty THEN new ELSE stored
    IN  IF ~HasGrade(st) THEN row
        ELSE [status  |-> Orm("status", row.status, grades[st].status),
              letter  |-> Orm("letter", row.letter, grades[st].letter),
              section |-> Orm("section", row.section, grades[st].section),
              stamped |-> grades[st].stamped]

SubmitCommit(p) ==
    LET s   == session[p]
        sec == s.section
    IN  /\ At(p, "submit_batch", "flushed")
        /\ \E verdict \in Verdicts :
              /\ PersistReview(sec, s.seen.iteration, verdict)
              /\ WriteBatch(sec, StatusFor(verdict), batch[sec].iteration, TRUE)
        /\ grades' = [st \in Students |->
               IF st \in DOMAIN s.cells
               THEN SubmittedGrade(st, NewGrade(sec, s.cells[st]), s.dirty)
               ELSE grades[st]]
        /\ Close(p)
        /\ UNCHANGED <<roster, breakdown, scores, decisions>>

JustifyLoad(p, sec) ==
    /\ batch[sec].status = "FLAGGED"
    /\ batch[sec].iteration < MaxIteration
    /\ ReviewBudget
    /\ Open(p, "submit_justification", sec, NoBreakdown)

\* The bumped iteration_count is flushed before the agent runs.
JustifyFlush(p) ==
    /\ At(p, "submit_justification", "loaded")
    /\ BatchFree(session[p].section)
    /\ Flushed(p)

\* A repeated FLAG leaves the status attribute alone: no UPDATE of it.
JustifyCommit(p) ==
    LET sec  == session[p].section
        next == session[p].seen.iteration + 1
    IN  /\ At(p, "submit_justification", "flushed")
        /\ \E verdict \in Verdicts :
              /\ PersistReview(sec, next, verdict)
              /\ WriteBatch(sec,
                     IF verdict = "FLAG" THEN batch[sec].status ELSE StatusFor(verdict),
                     next, batch[sec].submitted)
        /\ Close(p)
        /\ UNCHANGED <<roster, breakdown, scores, grades, decisions>>

ReopenLoadDecided(p, sec) ==      \* mutant: an AUTHORISED batch reopens too
    /\ batch[sec].status \in {"FLAGGED", "REJECTED", "AUTHORISED"}
    /\ batch[sec].iteration < MaxIteration
    /\ Open(p, "reopen_batch", sec, NoBreakdown)
ReopenLoad(p, sec) ==
    /\ batch[sec].status \in {"FLAGGED", "REJECTED"}
    /\ batch[sec].iteration < MaxIteration
    /\ Open(p, "reopen_batch", sec, NoBreakdown)

\* Grade rows are left as the last submit or rejection wrote them.
ReopenCommit(p) ==
    LET s   == session[p]
        sec == s.section
    IN  /\ At(p, "reopen_batch", "loaded")
        /\ BatchFree(sec)
        /\ WriteBatch(sec, "DRAFT", s.seen.iteration + 1,
                      batch[sec].submitted /\ ~s.seen.submitted)
        /\ Close(p)
        /\ UNCHANGED <<roster, breakdown, scores, grades, reviews, decisions>>

\* Does a rerun write the status: when the verdict's differs from the one this
\* session loaded, whatever the row holds by now.
StatusDirtyFlag(p, verdict) ==      \* mutant: PENDING leaves the status alone
    verdict # "PENDING" /\ StatusFor(verdict) # session[p].seen.status
StatusDirty(p, verdict) == StatusFor(verdict) # session[p].seen.status

RerunVerdict(p, verdict) ==
    LET s   == session[p]
        sec == s.section
    IN  /\ PersistReview(sec, s.seen.iteration, verdict)
        /\ \/ ~StatusDirty(p, verdict) /\ batch' = batch
           \/ /\ StatusDirty(p, verdict)
              /\ BatchFree(sec)
              /\ WriteBatch(sec, StatusFor(verdict), batch[sec].iteration,
                            batch[sec].submitted)
        /\ Close(p)
        /\ UNCHANGED <<roster, breakdown, scores, grades, decisions>>

RerunLoad(p, sec) ==
    /\ batch[sec].status = "AI_UNAVAILABLE"
    /\ ReviewBudget
    /\ Open(p, "rerun_agent", sec, NoBreakdown)

RerunCommit(p) ==
    /\ At(p, "rerun_agent", "loaded")
    /\ \E verdict \in Verdicts : RerunVerdict(p, verdict)

-----------------------------------------------------------------------------
(* Department head: rerun, authorise, reject.                              *)

Reviewable(sec) == batch[sec].status \in {"SUBMITTED", "FLAGGED"}

DHRerunLoad(p, sec) ==
    /\ Reviewable(sec) \/ batch[sec].status = "AI_UNAVAILABLE"
    /\ ReviewBudget
    /\ Open(p, "dh_rerun_agent", sec, NoBreakdown)

DHRerunCommit(p) ==
    /\ At(p, "dh_rerun_agent", "loaded")
    /\ \E verdict \in Verdicts : RerunVerdict(p, verdict)

DecideLoad(p, sec, op) ==
    /\ Reviewable(sec)
    /\ DecisionBudget
    /\ Open(p, op, sec, NoBreakdown)

\* Every Grade row of the section, on the roster or not; the flush writes the
\* status of those that do not have the target status already.
DecideRead(p, op, target) ==
    /\ At(p, op, "loaded")
    /\ Read(p, NoBreakdown, NoCells,
            {st \in Students : /\ HasGrade(st)
                               /\ grades[st].section = session[p].section
                               /\ grades[st].status # target}, FALSE, {})

DecidedGrade(st, target) ==
    [status |-> target, letter |-> grades[st].letter, section |-> grades[st].section,
     stamped |-> grades[st].stamped \/ target = "AUTHORISED"]

DecideCommit(p, op, target, decision) ==
    LET s   == session[p]
        sec == s.section
    IN  /\ At(p, op, "read")
        /\ BatchFree(sec) /\ GradesFree(s.selected)
        /\ grades' = [st \in Students |->
               IF st \in s.selected THEN DecidedGrade(st, target) ELSE grades[st]]
        /\ WriteBatch(sec, target, batch[sec].iteration, batch[sec].submitted)
        /\ RecordDecision(sec, s.seen.iteration, decision)
        /\ Close(p)
        /\ UNCHANGED <<roster, breakdown, scores, reviews>>

AuthoriseLoad(p, sec) == DecideLoad(p, sec, "authorise")
AuthoriseRead(p)      == DecideRead(p, "authorise", "AUTHORISED")
AuthoriseCommit(p)    ==
    DecideCommit(p, "authorise", "AUTHORISED",
        IF session[p].seen.status = "FLAGGED" THEN "OVERRODE_AGENT_FLAG" ELSE "AUTHORISED")

RejectLoad(p, sec) == DecideLoad(p, sec, "reject")
RejectRead(p)      == DecideRead(p, "reject", "REJECTED")
RejectCommit(p)    ==
    DecideCommit(p, "reject", "REJECTED",
        IF session[p].seen.status = "FLAGGED" THEN "REJECTED" ELSE "OVERRODE_AGENT_APPROVAL")

-----------------------------------------------------------------------------
(* A request may fail at any await (LLM exception, lost connection, worker *)
(* killed): its transaction rolls back.  Add/drop and registration change  *)
(* the roster between any two steps.                                       *)

Abort(p) ==
    /\ session[p].at # "idle"
    /\ Refuse(p)

RosterChange ==
    /\ roster' \in Rosters \ {roster}
    /\ UNCHANGED <<breakdown, batch, scores, grades, reviews, decisions, session>>

Load(p, sec) ==
    \/ UpsertBreakdownLoad(p, sec) \/ GetOrCreateBatchLoad(p, sec)
    \/ UpsertScoresLoad(p, sec)    \/ DeleteAllScoresLoad(p, sec)
    \/ SubmitLoad(p, sec)          \/ JustifyLoad(p, sec)
    \/ ReopenLoad(p, sec)          \/ RerunLoad(p, sec)
    \/ DHRerunLoad(p, sec)         \/ AuthoriseLoad(p, sec)
    \/ RejectLoad(p, sec)

Step(p) ==
    \/ UpsertBreakdownCommit(p) \/ GetOrCreateBatchCommit(p)
    \/ UpsertScoresRead(p)      \/ UpsertScoresCommit(p)
    \/ DeleteAllScoresRead(p)   \/ DeleteAllScoresCommit(p)
    \/ SubmitCompute(p)         \/ SubmitFlush(p)    \/ SubmitCommit(p)
    \/ JustifyFlush(p)          \/ JustifyCommit(p)  \/ ReopenCommit(p)
    \/ RerunCommit(p)           \/ DHRerunCommit(p)
    \/ AuthoriseRead(p)         \/ AuthoriseCommit(p)
    \/ RejectRead(p)            \/ RejectCommit(p)

Next ==
    \/ \E p \in Sessions : Step(p) \/ Abort(p) \/ \E sec \in Sections : Load(p, sec)
    \/ RosterChange

Spec == Init /\ [][Next]_vars

-----------------------------------------------------------------------------
(* Properties.                                                             *)

LastOf(log, sec) ==
    LET mine == {i \in DOMAIN log : log[i].section = sec}
    IN  log[CHOOSE i \in mine : \A j \in mine : j <= i]
Logged(log, sec) == \E i \in DOMAIN log : log[i].section = sec

\* The Grade rows a section wrote are official exactly while its batch is
\* AUTHORISED: authorise and reject move both, and nothing else may move one.
OfficialIffAuthorised ==
    \A st \in Students : HasGrade(st) =>
        (Official(st) <=> batch[grades[st].section].status = "AUTHORISED")

\* An official letter is the letter of the total recorded in the score matrix
\* of the section that submitted it: nobody edits scores under a submission.
OfficialFromScores ==
    \A st \in Students : Official(st) =>
        LET total == scores[grades[st].section][st]
        IN  total \in Totals /\ grades[st].letter = letter_for_numeric(total)

\* Locking once grades are official: no step changes an official Grade row.
KeepsOfficial == \A st \in Students : Official(st) => grades'[st] = grades[st]

\* The status a department head sees is the agent's last verdict on the batch.
\* A batch it could not review is AI_UNAVAILABLE, as the code, the router and the
\* tests have it, not SUBMITTED, as two comments of the code still say.
StatusFollowsVerdict ==
    \A sec \in Sections :
        batch[sec].status \in {"SUBMITTED", "FLAGGED", "AI_UNAVAILABLE"} =>
            /\ Logged(reviews, sec)
            /\ batch[sec].status = StatusFor(LastOf(reviews, sec).verdict)

\* Score rows that complete a student's total keep the breakdown locked.
LockedWhileScored ==
    \A sec \in Sections :
        (\E st \in Students : scores[sec][st] \in Totals) => breakdown[sec].locked

\* Which verdict a decision says it agreed with or overrode.
VerdictBehind(decision) ==
    IF decision \in {"AUTHORISED", "OVERRODE_AGENT_APPROVAL"} THEN "APPROVE" ELSE "FLAG"

\* However requests overlap: a section whose batch was decided had the agent's
\* verdict that the decision names (a batch the agent could not review is not
\* decided).
AgentBeforeOfficer ==
    \A i \in DOMAIN decisions : \E j \in DOMAIN reviews :
        /\ reviews[j].section = decisions[i].section
        /\ reviews[j].verdict = VerdictBehind(decisions[i].decision)

\* What ties a session to the rows it loaded; with it the invariants above are
\* inductive.
Reviewed(sec, status) ==
    status \in {"SUBMITTED", "FLAGGED"} =>
        \E j \in DOMAIN reviews :
            reviews[j].section = sec /\ StatusFor(reviews[j].verdict) = status

SessionOK(s) ==
    /\ s.at # "idle" => s.section \in Sections
    /\ s.at # "idle" => Reviewed(s.section, s.seen.status)
    /\ s.op \in {"authorise", "reject"} =>
          /\ s.seen.status \in {"SUBMITTED", "FLAGGED"}
          /\ \A st \in s.selected : HasGrade(st)
    /\ s.op = "submit_batch" => \A st \in DOMAIN s.cells : s.cells[st] \in Totals

IInv ==
    /\ TypeOK
    /\ \A p \in Sessions : SessionOK(session[p])
    /\ \A sec \in Sections : Reviewed(sec, batch[sec].status)
    /\ AgentBeforeOfficer

\* The official record, as the abstract specification sees it.
Record == INSTANCE OfficialRecord WITH
    Letters <- NumericLetters, Unofficial <- NoGrade,
    letter <- [st \in Students |-> IF HasGrade(st) THEN grades[st].letter ELSE NoGrade],
    official <- {st \in Students : Official(st)},
    log <- [i \in DOMAIN decisions |-> decisions[i].decision \in Authorising]

\* A grade becomes official only in a step that records an officer's
\* authorisation, and neither that step nor a rejection changes any letter: it
\* is made official with the letter it had, however requests overlap.
RefinesRecord == Record!RecordSpec
=============================================================================
