----------------------------- MODULE AdvisoryTurns -----------------------------
(***************************************************************************)
(* The advisor in the middle of what it reads: grades become official, and *)
(* the registration of the open term is drafted, finalised and adds and    *)
(* drops courses, in the sessions of other services, of which only the     *)
(* commit is seen here.  Consultations, reviews and those commits may take *)
(* turns; nothing in the code makes them do so.                            *)
(***************************************************************************)
EXTENDS Advisory

VARIABLE serial      \* they take turns

\* Another service writes the ledger or the registration of the open term.
publish_grade(t, c, letter) ==
    /\ ledger[t][c] = NoLetter
    /\ ledger' = [ledger EXCEPT ![t][c] = letter]
    /\ UNCHANGED <<plan, link, attempts, advice, request, review>>

\* The courses of a registration that is new or not final yet.
edit_draft ==
    /\ plan \in {"none", "draft"}
    /\ plan' = "draft"
    /\ \E C \in SUBSET Courses :
          link' = [c \in Courses |-> IF c \in C THEN "active" ELSE "none"]
    /\ UNCHANGED <<ledger, attempts, advice, request, review>>

finalise_registration ==
    /\ plan = "draft"
    /\ plan' = "active"
    /\ UNCHANGED <<ledger, link, attempts, advice, request, review>>

apply_add_drop ==
    /\ plan = "active"
    /\ \E add \in SUBSET (Courses \ Active), drop \in SUBSET Active :
          link' = [c \in Courses |-> IF c \in add THEN "active"
                                     ELSE IF c \in drop THEN "dropped" ELSE link[c]]
    /\ UNCHANGED <<ledger, plan, attempts, advice, request, review>>

Elsewhere ==
    \/ \E t \in Terms, c \in Courses, letter \in Letters : publish_grade(t, c, letter)
    \/ edit_draft
    \/ finalise_registration
    \/ apply_add_drop

-----------------------------------------------------------------------------
Consulting == {r \in Requests : request[r].at # "idle"}
Reviewing  == {o \in Reviews : review[o] # 0}
Engaged    == Consulting # {} \/ Reviewing # {}

\* At most one consultation or review is under way.
OneSession ==
    /\ \A r, s \in Consulting : r = s
    /\ \A o, p \in Reviewing : o = p
    /\ Consulting = {} \/ Reviewing = {}

AdvisoryTurnsInit == AdvisoryInit /\ serial \in BOOLEAN
AdvisoryTurnsNext ==
    /\ UNCHANGED serial
    /\ \/ AdvisoryNext /\ (serial => OneSession')
       \/ (serial => ~Engaged) /\ Elsewhere
AdvisoryTurnsSpec == AdvisoryTurnsInit /\ [][AdvisoryTurnsNext]_<<advisory, serial>>

-----------------------------------------------------------------------------
\* What the student still has to take of this half of the year: passed in no term.
Outstanding ==
    {c \in Curriculum : InParity(c) /\ \A t \in Terms : ~is_passing(ledger[t][c])}

Asking == {r \in Requests : request[r].at = "asked"}

\* What a question offers the model, against the ledger and the registration of
\* the moment.  However they moved between the reads, no course the student still
\* has to take, and does not plan to, is missing; none is in two lists; and a
\* retake was failed.  When nothing moved, nothing else is offered, each course is
\* in the list its past gives it, and the plan is the registration as it stands.
ChoicesComplete ==
    \A r \in Asking :
        LET q == request[r]
            p == consultation_payload(q)
            offered == p.retake \cup p.again \cup p.first
            missing == Outstanding \ ((q.base \cup q.add) \ q.drop)
        IN  /\ missing \subseteq offered
            /\ p.retake \cap p.again = {} /\ (p.retake \cup p.again) \cap p.first = {}
            /\ p.retake \subseteq failed_course_ids
            /\ serial => /\ offered = missing
                         /\ p.retake = missing \cap failed_course_ids
                         /\ p.again = (missing \cap dropped_course_ids) \ failed_course_ids
                         /\ q.mode # "PRE_REGISTRATION" => q.base = Active

\* While sessions take turns, a closed review stands (service.py: a review that
\* is closed cannot be closed again).
TurnsReviewStands == [][serial => ReviewStands]_<<advisory, serial>>

\* While sessions take turns, advice is sound for the ledger of the moment.
TurnsAdvice == [][serial => AdviceSound]_<<advisory, serial>>
=============================================================================
