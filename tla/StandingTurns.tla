----------------------------- MODULE StandingTurns -----------------------------
(***************************************************************************)
(* The standing workflow where requests may take turns: nobody opens the   *)
(* row of a student while another request about that student is under way. *)
(* Nothing in the code makes them do so.                                   *)
(***************************************************************************)
EXTENDS StandingViews

VARIABLE turns       \* no request begins before the last one has ended

Busy == {p \in Sessions : session[p].at # "idle"}
OneAtATime == \A p, q \in Busy : p = q

TurnsInit == Init /\ turns \in BOOLEAN
TurnsNext ==
    /\ Next
    /\ UNCHANGED turns
    /\ turns => OneAtATime'
TurnsSpec == TurnsInit /\ [][TurnsNext]_<<vars, turns>>

-----------------------------------------------------------------------------
(* While requests take turns, a row is what replaying its history gives,   *)
(* no proposal exists for a term with an ungraded course, and what the     *)
(* officers and the student are shown is consistent.                       *)
TurnsRecords == turns => HistoryReplays /\ ProposedWhenGraded /\ ViewsFit

(* While requests take turns, a decided row keeps its proposal: the agent  *)
(* skips it, whatever RE_COMPUTED is said to be.  And the words the        *)
(* student reads next to a decision are those of an event that states that *)
(* status, whichever commands have set override_reason.                    *)
TurnsSkipDecided == [][turns => KeepsDecided /\ ExplanationFits']_<<vars, turns>>

===============================================================================
