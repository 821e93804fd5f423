---------------------------- MODULE AdmissionViews ----------------------------
(***************************************************************************)
(* What the portal shows of the application: the row with its test, the    *)
(* officers' queues, and why it was flagged or sent back.  Each page is a  *)
(* query of its own; an evaluation of the credential agent is known by the *)
(* history entry that is written with it, tests and entries by their       *)
(* place, which while requests take turns is also the order of created_at. *)
(***************************************************************************)
EXTENDS Admission

Latest(S) == IF S = {} THEN 0 ELSE CHOOSE i \in S : \A j \in S : j <= i

\* The row as every listing returns it; of several tests the last one.
application_response ==
    [current_status |-> app.status, final_decision |-> app.final,
     payment_status |-> app.paid, uat_id |-> Latest(DOMAIN tests)]

get_review_queue  == IF app.status = "PENDING_REVIEW" THEN {application_response} ELSE {}
get_flagged_queue == IF app.status = "FLAGGED_FOR_REVIEW" THEN {application_response} ELSE {}

\* The evaluation behind a flag is the last that flagged, whatever the agents
\* have said since; without one the page falls back to another or to none.
flagged_entries ==
    {i \in DOMAIN history : history[i].next = "FLAGGED_FOR_REVIEW" /\ history[i].by = "agent"}
get_flag_context_first == IF flagged_entries = {} THEN 0      \* mutant: ascending order
                          ELSE CHOOSE i \in flagged_entries : \A j \in flagged_entries : i <= j
get_flag_context == Latest(flagged_entries)

\* The card of an applicant who has to correct something: the note that goes with
\* the last entry into this status, and the reasons of the flag.
get_correction_context ==
    IF app.status # "CHANGES_REQUESTED" THEN [officer_note |-> 0, reasons |-> 0]
    ELSE [officer_note |-> Latest({i \in DOMAIN history : history[i].next = "CHANGES_REQUESTED"}),
          reasons      |-> get_flag_context]

-----------------------------------------------------------------------------
(* One request at a time, the note on the card is the one that brought the  *)
(* application here, and its reasons are about the data as last corrected; *)
(* who waits in the flagged queue after an agent's verdict has just been   *)
(* given the reasons shown; and the score that was ranked is that of the   *)
(* test the application shows.                                             *)
PagesFit ==
    /\ app.status = "CHANGES_REQUESTED" =>
         LET card == get_correction_context
         IN  /\ card.officer_note = Len(history)
             /\ \A i \in DOMAIN history :
                  history[i].by = "applicant" /\ history[i].previous = "CHANGES_REQUESTED" =>
                    i < card.reasons
    /\ get_flagged_queue # {} /\ history[Len(history)].by = "agent" =>
         get_flag_context = Len(history)
    /\ ranked # 0 => /\ application_response.uat_id # 0
                     /\ tests[application_response.uat_id] = [done |-> TRUE, score |-> ranked]
=============================================================================
