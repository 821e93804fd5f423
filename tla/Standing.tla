------------------------------- MODULE Standing -------------------------------
(***************************************************************************)
(* The academic standing workflow of one student over several terms        *)
(* (standing/service.py): the agent computes a proposal per term from the  *)
(* ledger of authorised grades, the department head authorises it, alone   *)
(* or in a batch, or overrides it.                                         *)
(*                                                                         *)
(* A request is a database session of its own (READ COMMITTED, no version  *)
(* column): it loads rows, awaits, and writes at the end the attributes    *)
(* that differ from what it loaded.  Its flush and its commit are one      *)
(* action: another request that wants the row waits for the commit.        *)
(* The other students of a cohort are rows of their own; what they add is  *)
(* that an error in one aborts the transaction of all (Abort).             *)
(***************************************************************************)
EXTENDS Ledger

CONSTANTS
    Expected,     \* the courses of each term whose grades the gate asks for
    Marks,        \* the letters the ledger may receive
    Chosen,       \* the statuses a department head may choose
    Sessions,     \* request slots: one slot is a serial system
    MaxHistory    \* bound for TLC: events per term

ASSUME StandingAssumption ==
    /\ Expected \in [Terms -> SUBSET Courses]
    /\ Marks \subseteq Letters
    /\ Chosen \subseteq Statuses
    /\ MaxHistory \in Nat

VARIABLES
    standing,    \* academic_standings row of each term
    history,     \* academic_standing_history rows of each term, in commit order
    clock,       \* the wall clock, as far as computed_at reads it
    session      \* the request each slot is serving

vars == <<ledger, standing, history, clock, session>>
rows == <<ledger, standing, history, clock>>

-----------------------------------------------------------------------------
(* Rows.                                                                   *)

StandingRow ==
    [proposed : Statuses \cup {NoStatus}, final : Statuses \cup {NoStatus},
     review : BOOLEAN, prior : Statuses \cup {NoStatus}, computed : Nat]
NoRow == [proposed |-> NoStatus, final |-> NoStatus, review |-> FALSE,
          prior |-> NoStatus, computed |-> 0]
Exists(row) == row.proposed # NoStatus

Events == {"PROPOSED", "RE_COMPUTED", "AUTHORISED", "OVERRIDDEN"}
OfficerEvents == {"AUTHORISED", "OVERRIDDEN"}
HistoryRow ==
    [event : Events, previous : Statuses \cup {NoStatus}, new : Statuses, reason : BOOLEAN]

Ops == {"compute", "authorise", "batch_authorise", "override"}

\* What a session remembers: the terms it works on, the rows and the ledger it
\* loaded, the prior status it read, and what its caller asked for.
SessionRow ==
    [op : Ops \cup {"none"}, at : {"idle", "loaded", "read", "proposed"},
     terms : SUBSET Terms, seen : [Terms -> StandingRow], grades : Ledgers,
     prior : Statuses \cup {NoStatus}, target : Statuses \cup {NoStatus},
     reason : BOOLEAN]

NoRows   == [t \in Terms |-> NoRow]
Idle == [op |-> "none", at |-> "idle", terms |-> {}, seen |-> NoRows,
         grades |-> NoGrades, prior |-> NoStatus, target |-> NoStatus,
         reason |-> FALSE]

TypeOK ==
    /\ ledger \in Ledgers
    /\ standing \in [Terms -> StandingRow]
    /\ history \in [Terms -> Seq(HistoryRow)]
    /\ clock \in Nat
    /\ session \in [Sessions -> SessionRow]

Init ==
    /\ ledger = NoGrades
    /\ standing = NoRows
    /\ history = [t \in Terms |-> <<>>]
    /\ clock = 0
    /\ session = [p \in Sessions |-> Idle]

-----------------------------------------------------------------------------
(* Sessions.                                                               *)

At(p, op, at) == session[p].op = op /\ session[p].at = at
TermOf(p) == CHOOSE t \in session[p].terms : TRUE

Close(p) == session' = [session EXCEPT ![p] = Idle]

\* An error, or nothing to do: the transaction ends without a write.
Refuse(p) == Close(p) /\ UNCHANGED rows

Budget(S) == \A t \in S : Len(history[t]) < MaxHistory

\* The ORM emits an UPDATE for an attribute that differs from its loaded value.
OrmOnce(loaded, new, stored) ==      \* mutant: a status that is set is not replaced
    IF loaded # NoStatus THEN stored ELSE new
Orm(loaded, new, stored) == IF new = loaded THEN stored ELSE new

\* One new history row for each term of S.
RecordEvents(S, entry) ==
    history' = [t \in Terms |-> IF t \in S THEN Append(history[t], entry[t]) ELSE history[t]]

-----------------------------------------------------------------------------
(* compute_term_standing                                                   *)

\* The cohort and its authorised grades.
ComputeLoad(p, t) ==
    /\ session[p].at = "idle"
    /\ Budget({t})
    /\ session' = [session EXCEPT ![p] =
           [Idle EXCEPT !.op = "compute", !.at = "loaded", !.terms = {t}, !.grades = ledger]]
    /\ UNCHANGED rows

\* Decided rows are skipped, and so are students with an expected course that
\* has no authorised grade.
SkipsUngated(row, grades, t) == row.final # NoStatus      \* mutant: no all-graded gate
SkipsPending(row, grades, t) ==      \* mutant: no look at the decision
    ~(Expected[t] \subseteq Graded(grades, t))
Skips(row, grades, t) ==
    row.final # NoStatus \/ ~(Expected[t] \subseteq Graded(grades, t))

\* The existing row, before the rows of the other terms.
ComputeRead(p) ==
    LET t == TermOf(p)
    IN  /\ At(p, "compute", "loaded")
        /\ \/ Skips(standing[t], session[p].grades, t) /\ Refuse(p)
           \/ /\ ~Skips(standing[t], session[p].grades, t)
              /\ session' = [session EXCEPT ![p].at = "read", ![p].seen = standing]
              /\ UNCHANGED rows

\* prior_standings[-1]: of the decided rows of the other terms, sorted by
\* computed_at, the last.
PriorStatuses(t) ==
    LET prior == {u \in Terms \ {t} : standing[u].final # NoStatus}
    IN  IF prior = {} THEN {NoStatus}
        ELSE {standing[u].final : u \in
                 {u \in prior : \A v \in prior : standing[v].computed <= standing[u].computed}}

\* The rows of the other terms; then the agent is awaited.
ComputePrior(p) ==
    /\ At(p, "compute", "read")
    /\ \E prior \in PriorStatuses(TermOf(p)) :
          session' = [session EXCEPT ![p].at = "proposed", ![p].prior = prior]
    /\ UNCHANGED rows

\* _upsert_standing: insert, or update of the row that was loaded.  Inserting a
\* row that another request has inserted since breaks the unique constraint.
InsertableTwice(old, row) == TRUE      \* mutant: no unique constraint
Insertable(old, row) == Exists(old) \/ ~Exists(row)

ProposalFresh(old, row, new, review, prior) ==      \* mutant: the update resets the decision
    [proposed |-> new, final |-> NoStatus, review |-> review, prior |-> prior,
     computed |-> clock + 1]
Proposal(old, row, new, review, prior) ==
    [proposed |-> Orm(old.proposed, new, row.proposed),
     final    |-> row.final,
     review   |-> Orm(old.review, review, row.review),
     prior    |-> Orm(old.prior, prior, row.prior),
     computed |-> clock + 1]

\* The agent's verdict is that of the rules; the language model, when it is asked,
\* rewords the reasons of a consequential one, which are never empty.
propose_standing(ctx) ==
    [proposed_status |-> evaluate_status(ctx), requires_review |-> requires_review(ctx),
     narrative |-> TRUE]

ComputeCommit(p) ==
    LET s   == session[p]
        t   == TermOf(p)
        old == s.seen[t]
        row == standing[t]
        proposal == propose_standing(build_compute_input(s.grades, t, s.prior))
    IN  /\ At(p, "compute", "proposed")
        /\ \/ ~Insertable(old, row) /\ Refuse(p)
           \/ /\ Insertable(old, row)
              /\ standing' = [standing EXCEPT ![t] =
                     Proposal(old, row, proposal.proposed_status,
                              proposal.requires_review, s.prior)]
              /\ clock' = clock + 1
              /\ RecordEvents({t}, [u \in {t} |->
                     [event |-> IF Exists(old) THEN "RE_COMPUTED" ELSE "PROPOSED",
                      previous |-> old.proposed, new |-> proposal.proposed_status,
                      reason |-> proposal.narrative]])
              /\ Close(p)
              /\ UNCHANGED ledger

-----------------------------------------------------------------------------
(* authorise, batch_authorise                                              *)

\* A row held for review needs a written reason.
Authorisable(row, reason) ==
    Exists(row) /\ row.final = NoStatus /\ (row.review => reason)

AuthoriseLoad(p, t, reason) ==
    /\ session[p].at = "idle"
    /\ Budget({t})
    /\ Authorisable(standing[t], reason)
    /\ session' = [session EXCEPT ![p] =
           [Idle EXCEPT !.op = "authorise", !.at = "loaded", !.terms = {t},
                        !.seen = standing, !.reason = reason]]
    /\ UNCHANGED rows

\* The rows that are unknown, decided or held are reported and left alone.
BatchAuthoriseLoad(p, S, reason) ==
    /\ session[p].at = "idle"
    /\ Budget(S)
    /\ \E t \in S : Authorisable(standing[t], reason)
    /\ session' = [session EXCEPT ![p] =
           [Idle EXCEPT !.op = "batch_authorise", !.at = "loaded",
                        !.terms = {t \in S : Authorisable(standing[t], reason)},
                        !.seen = standing, !.reason = reason]]
    /\ UNCHANGED rows

\* What is accepted is the proposal that was loaded.  A batch records the shared
\* reason on the held rows only.
Authorise(p) ==
    LET s == session[p]
    IN  /\ standing' = [t \in Terms |->
               IF t \in s.terms
               THEN [standing[t] EXCEPT !.final = s.seen[t].proposed] ELSE standing[t]]
        /\ RecordEvents(s.terms, [t \in s.terms |->
               [event |-> "AUTHORISED", previous |-> s.seen[t].proposed,
                new |-> s.seen[t].proposed,
                reason |-> s.reason /\ (s.op = "batch_authorise" => s.seen[t].review)]])
        /\ Close(p)
        /\ UNCHANGED <<ledger, clock>>

AuthoriseCommit(p)      == At(p, "authorise", "loaded") /\ Authorise(p)
BatchAuthoriseCommit(p) == At(p, "batch_authorise", "loaded") /\ Authorise(p)

-----------------------------------------------------------------------------
(* override                                                                *)

OverrideLoad(p, t, new_status) ==
    /\ session[p].at = "idle"
    /\ Budget({t})
    /\ Exists(standing[t])
    /\ session' = [session EXCEPT ![p] =
           [Idle EXCEPT !.op = "override", !.at = "loaded", !.terms = {t},
                        !.seen = standing, !.target = new_status, !.reason = TRUE]]
    /\ UNCHANGED rows

OverrideCommit(p) ==
    LET s   == session[p]
        t   == TermOf(p)
        old == s.seen[t]
    IN  /\ At(p, "override", "loaded")
        /\ standing' = [standing EXCEPT ![t].final = Orm(old.final, s.target, @)]
        /\ RecordEvents({t}, [u \in {t} |->
               [event |-> "OVERRIDDEN",
                previous |-> IF old.final # NoStatus THEN old.final ELSE old.proposed,
                new |-> s.target, reason |-> TRUE]])
        /\ Close(p)
        /\ UNCHANGED <<ledger, clock>>

-----------------------------------------------------------------------------
(* A request may fail at any await.  The grading workflow makes grades     *)
(* official in any order, of courses the gate expects or not (a dropped    *)
(* course keeps its grade row).                                            *)

Abort(p) ==
    /\ session[p].at # "idle"
    /\ Refuse(p)

GradeAuthorised(t, c) ==
    /\ ledger[t][c] = NoLetter
    /\ \E letter \in Marks : ledger' = [ledger EXCEPT ![t][c] = letter]
    /\ UNCHANGED <<standing, history, clock, session>>

Load(p) ==
    \/ \E t \in Terms : ComputeLoad(p, t)
    \/ \E t \in Terms, reason \in BOOLEAN : AuthoriseLoad(p, t, reason)
    \/ \E S \in SUBSET Terms, reason \in BOOLEAN : BatchAuthoriseLoad(p, S, reason)
    \/ \E t \in Terms, new_status \in Chosen : OverrideLoad(p, t, new_status)

Step(p) ==
    \/ ComputeRead(p) \/ ComputePrior(p) \/ ComputeCommit(p)
    \/ AuthoriseCommit(p) \/ BatchAuthoriseCommit(p) \/ OverrideCommit(p)

Next ==
    \/ \E p \in Sessions : Load(p) \/ Step(p) \/ Abort(p)
    \/ \E t \in Terms, c \in Courses : GradeAuthorised(t, c)

Spec == Init /\ [][Next]_vars

-----------------------------------------------------------------------------
(* Properties.                                                             *)

HasLast(t, E) == \E i \in DOMAIN history[t] : history[t][i].event \in E
LastEvent(t, E) ==
    LET mine == {i \in DOMAIN history[t] : history[t][i].event \in E}
    IN  history[t][CHOOSE i \in mine : \A j \in mine : j <= i]

\* The row is what replaying its history gives: the last agent event proposed
\* what it proposes, the last officer event decided what is final.
HistoryReplays ==
    \A t \in Terms : Exists(standing[t]) =>
        /\ HasLast(t, Events \ OfficerEvents)
        /\ standing[t].proposed = LastEvent(t, Events \ OfficerEvents).new
        /\ standing[t].final =
               IF HasLast(t, OfficerEvents) THEN LastEvent(t, OfficerEvents).new ELSE NoStatus

\* All-graded gate: there is no proposal for a term with an ungraded course.
ProposedWhenGraded ==
    \A t \in Terms : Exists(standing[t]) => Expected[t] \subseteq Graded(ledger, t)

\* The agent never overwrites a decision: a decided row keeps its proposal.
KeepsDecided ==
    \A t \in Terms : standing[t].final # NoStatus =>
        standing'[t].proposed = standing[t].proposed

\* However requests overlap, the history of a row is grounded: it starts with
\* the one proposal that inserted the row, and every later event names as its
\* previous status one that an earlier event set.  (The docstring of the history
\* uses PROPOSED for re-computed proposals too, and RE_COMPUTED for a run over an
\* authorised standing: no code writes either.)
HistoryGrounded ==
    \A t \in Terms : \A i \in DOMAIN history[t] :
        /\ history[t][i].event = "PROPOSED" <=> i = 1
        /\ i > 1 => \E j \in 1..(i - 1) : history[t][i].previous = history[t][j].new

\* What ties a row, and the row a session loaded, to the history.
Told(t, status) == \E i \in DOMAIN history[t] : history[t][i].new = status

RowGrounded(t, row) ==
    /\ Exists(row) => Told(t, row.proposed)
    /\ row.final # NoStatus => Told(t, row.final)

SessionOK(p) ==
    LET s == session[p]
    IN  /\ s.at # "idle" => s.terms # {}
        /\ \A t \in Terms :
              /\ RowGrounded(t, s.seen[t])
              /\ s.seen[t].final # NoStatus => standing[t].final # NoStatus
              /\ Exists(s.seen[t]) => Exists(standing[t])
        /\ s.op \in {"authorise", "batch_authorise", "override"} =>
              \A t \in s.terms : Exists(s.seen[t])
        /\ s.op = "override" => s.target \in Statuses

IInv ==
    /\ TypeOK
    /\ \A t \in Terms : /\ RowGrounded(t, standing[t])
                        /\ Exists(standing[t]) <=> history[t] # <<>>
                        /\ standing[t].final # NoStatus => Exists(standing[t])
    /\ \A p \in Sessions : SessionOK(p)
    /\ HistoryGrounded

\* The official status, as the abstract specification sees it.
Logged(t) ==
    [i \in DOMAIN history[t] |->
        IF history[t][i].event \in OfficerEvents THEN history[t][i].new ELSE NoStatus]

Record == INSTANCE StandingRecord WITH
    RecordTerms <- Terms, RecordStatuses <- Statuses, Undecided <- NoStatus,
    final <- [t \in Terms |-> standing[t].final],
    log <- [t \in Terms |-> Logged(t)]

\* However requests overlap, a status becomes official, or changes, only in a
\* step that records a decision, and is never withdrawn.
RefinesRecord == Record!RecordSpec

-----------------------------------------------------------------------------
(* Claims of the documents.                                                *)

\* "Prior-term standing rows (any term before this one)": a proposal that rests
\* on a prior status rests on an earlier term's.
PriorIsEarlier ==
    \A t \in Terms : standing[t].prior # NoStatus =>
        \E u \in 1..(t - 1) : \E i \in DOMAIN history[u] :
            /\ history[u][i].event \in OfficerEvents
            /\ history[u][i].new = standing[t].prior
=============================================================================
