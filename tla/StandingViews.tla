---------------------------- MODULE StandingViews ----------------------------
(***************************************************************************)
(* What the standing rows of one student look like to those who read them: *)
(* the officer's roster preview, the department head's listing, the queue  *)
(* of exceptions, the student's own pages and the filing slip.  Each is a  *)
(* query of its own over the rows, the history and the ledger.             *)
(***************************************************************************)
EXTENDS Standing

Undecided(row) == Exists(row) /\ row.final = NoStatus
Decided(row)   == row.final # NoStatus

Latest(T) == CHOOSE t \in T : \A u \in T : u <= t

-----------------------------------------------------------------------------
(* Officers.                                                               *)

\* The courses of the registration: the roster query gathers them anew.
expected_courses(original, dropped, added) == (original \ dropped) \cup added

\* The row of the last earlier term, decided or not.
prior_standing(t) ==
    LET earlier == {u \in 1..(t - 1) : Exists(standing[u])}
    IN  IF earlier = {} THEN NoRow ELSE standing[Latest(earlier)]

\* The student's line of the roster.  A dropped course is never ungraded; the
\* term counts read every other term, later ones too.
compose_student_preview(t, original, dropped, added) ==
    LET expected == expected_courses(original, dropped, added)
        others   == {u \in Terms \ {t} : Graded(ledger, u) # {}}
    IN  [courses  |-> expected \cup Graded(ledger, t) \cup dropped,
         ungraded |-> (expected \ dropped) \ Graded(ledger, t),
         existing |-> standing[t],
         prior    |-> prior_standing(t),
         has_incomplete    |-> \E k \in Courses : ledger[t][k] \in HOLD_LETTERS,
         is_first_semester |-> others = {},
         is_first_year     |-> Cardinality(others) <= 1]

\* The rows of a listing, and the ones that wait for a decision.
list_standings(only_pending) ==
    {t \in Terms : Exists(standing[t]) /\ (only_pending => ~Decided(standing[t]))}

\* The standing rows of the queue of exceptions.
exceptions == {t \in Terms : standing[t].review /\ Undecided(standing[t])}

-----------------------------------------------------------------------------
(* The student.                                                            *)

\* The events that set override_reason: every override, and an authorisation
\* given with a reason (a batch keeps its reason for the held rows).
worded(t) ==
    {i \in DOMAIN history[t] : history[t][i].event \in OfficerEvents /\ history[t][i].reason}

\* The event whose words the student reads: the last one that set
\* override_reason, or else the last proposal.
explanation(t) ==
    IF worded(t) # {} THEN history[t][Latest(worded(t))]
    ELSE LastEvent(t, Events \ OfficerEvents)

get_my_standings ==
    [t \in {t \in Terms : Decided(standing[t])} |->
        [status |-> standing[t].final, explanation |-> explanation(t)]]

\* last_authorised_status of the filing slip of a term.
carry(t) ==
    LET earlier == {u \in 1..(t - 1) : Decided(standing[u])}
    IN  IF earlier = {} THEN NoStatus ELSE standing[Latest(earlier)].final

-----------------------------------------------------------------------------
(* Properties.                                                             *)

\* The student reads, next to an official status, the words of an event that
\* states that status: the reason of the decision that gave it, or, when it was
\* authorised without one, the proposal it accepts.
ExplanationFits ==
    \A t \in DOMAIN get_my_standings :
        get_my_standings[t].explanation.new = get_my_standings[t].status

\* The preview and the gate of the computation see the same courses missing,
\* except those the student dropped and added again, which the preview takes for
\* done; and the preview never takes a term for the first that has one before it.
PreviewFits(t, original, dropped, added) ==
    LET preview == compose_student_preview(t, original, dropped, added)
        ctx     == build_compute_input(ledger, t, NoStatus)
    IN  /\ preview.ungraded # {} => Skips(NoRow, ledger, t)
        /\ Skips(NoRow, ledger, t) /\ dropped \cap added = {} => preview.ungraded # {}
        /\ Exists(preview.existing) => preview.ungraded = {}
        /\ preview.is_first_semester => ctx.is_first_semester
        /\ preview.is_first_year => ctx.is_first_year

\* A row the rules hold back is in the queue of exceptions until somebody decides
\* it with a reason.
HeldInQueue ==
    \A t \in list_standings(TRUE) : standing[t].proposed = "INCOMPLETE" <=> t \in exceptions

\* The slip of a term and the preview of it name the same last official status,
\* unless the row of the term between is still open.
CarryFits ==
    \A t \in Terms : Decided(prior_standing(t)) => carry(t) = prior_standing(t).final

ViewsFit ==
    /\ HeldInQueue /\ CarryFits
    /\ \A t \in Terms, original, dropped, added \in SUBSET Courses :
          /\ dropped \subseteq original
          /\ expected_courses(original, dropped, added) = Expected[t]
          => PreviewFits(t, original, dropped, added)
=============================================================================
