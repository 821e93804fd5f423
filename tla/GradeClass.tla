------------------------------ MODULE GradeClass ------------------------------
(***************************************************************************)
(* A submitted class between its submission and the look of the grading    *)
(* monitor.  The cells are locked; the roster is derived anew each time    *)
(* (grading/roster.py) from registrations and add/drop additions, which    *)
(* other requests keep changing.                                           *)
(***************************************************************************)
EXTENDS GradeEvidence

CONSTANT Enrolled     \* the students who may come to be on the roster

VARIABLES
    class,            \* the class as it is now
    outcomes          \* the Grade rows its submission stored

classVars == <<class, outcomes>>

\* A cell has a score between 0 and the maximum of its component, or none.
IsRow(cells) ==
    /\ cells \in [DOMAIN Components -> Nat \cup {Empty}]
    /\ \A i \in DOMAIN Components : cells[i] # Empty => cells[i] <= Components[i].max

IsClass(cl) ==
    /\ cl = [roster |-> cl.roster, added |-> cl.added, raw |-> cl.raw, short |-> cl.short]
    /\ cl.roster \subseteq Enrolled /\ IsFiniteSet(cl.roster)
    /\ cl.added \subseteq cl.roster
    /\ \A s \in DOMAIN cl.raw : IsRow(cl.raw[s])

\* The submission: refused if the weights do not sum to 100, with nobody on the
\* roster or with a blank cell.
ClassInit ==
    /\ IsClass(class)
    /\ check_breakdown_integrity
    /\ class.roster # {} /\ \A s \in class.roster : Complete(class, s)
    /\ outcomes = compute_outcomes(class)

\* The course dropped, the registration cancelled, the enrolment suspended.
leave(s) ==
    /\ s \in class.roster
    /\ class' = [class EXCEPT !.roster = @ \ {s}, !.added = @ \ {s}]

\* An approved addition, or a registration of the section that is attended (again).
\* Whoever has been on the roster before has the cells of then.
join(s, is_added_via_drop) ==
    /\ s \notin class.roster
    /\ class' = [class EXCEPT !.roster = @ \cup {s},
                              !.added = IF is_added_via_drop THEN @ \cup {s} ELSE @]

ClassNext ==
    /\ \E s \in Enrolled : leave(s) \/ \E by_drop \in BOOLEAN : join(s, by_drop)
    /\ UNCHANGED outcomes

ClassSpec == ClassInit /\ [][ClassNext]_classVars

-----------------------------------------------------------------------------
\* What the grading monitor shows the language model is about the Grade rows an
\* authorisation makes official, its parts agree with each other, and a letter is
\* off the table only where the sum of the doubles fell short of a bound.
EvidenceSound == outcomes # <<>> => EvidenceHonest(class, outcomes)
=============================================================================
