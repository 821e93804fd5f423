-------------------------- MODULE RegistrationViews --------------------------
(***************************************************************************)
(* What the portal shows a student of a registration: the course page of a *)
(* term, the home page and the tuition invoice.  Each is a query over the  *)
(* committed rows; nothing of it is stored when a submission or a payment  *)
(* goes through.                                                           *)
(***************************************************************************)
EXTENDS Registration

CONSTANTS
  Calendar,         \* the terms by start date
  CurrentSemester,  \* Student.current_semester
  Semester,         \* Semester[c]: Course.semester
  FEE_PER_CREDIT_HOUR_BIRR

ASSUME ViewsAssumption ==
  /\ Calendar \in Seq(Terms)
  /\ Terms = {Calendar[i] : i \in DOMAIN Calendar}
  /\ CurrentSemester \in 1..10
  /\ Semester \in [Courses -> 1..10]
  /\ FEE_PER_CREDIT_HOUR_BIRR \in Nat

Position(t) == CHOOSE i \in DOMAIN Calendar : Calendar[i] = t

OpenPositions == {i \in DOMAIN Calendar : windowOpen[Calendar[i]]}

list_curriculum_courses == {c \in Courses : Semester[c] = CurrentSemester}

(* The first open term is the one of the current semester; every step away *)
(* from it is a semester.  With no open term there is no answer.           *)
semester_for_term(t) ==
  CurrentSemester + Position(t)
    - CHOOSE i \in OpenPositions : \A j \in OpenPositions : i <= j

(* The course page.  A closed term that has not begun is answered before   *)
(* the registration is looked up, so it shows none even where there is     *)
(* one.                                                                    *)
list_available_courses(t, begun) ==
  IF status[t] # "NONE" /\ (windowOpen[t] \/ begun)
  THEN [registration_status |-> status[t], courses |-> courses[t]]
  ELSE [registration_status |-> "NONE",
        courses |->
          {c \in Courses : windowOpen[t] /\ Semester[c] = semester_for_term(t)}]

(* The home page shows the first open term, and its registration.          *)
get_student_dashboard ==
  {<<t, status[t]>> :
     t \in {Calendar[i] : i \in {i \in OpenPositions :
                                   \A j \in OpenPositions : i <= j}}}

(* The bill follows the courses as they are, whatever has been paid.       *)
get_invoice(t) ==
  [ total_credit_hours |-> Load(courses[t]),
    amount_due |->
      IF Government THEN 0 ELSE Load(courses[t]) * FEE_PER_CREDIT_HOUR_BIRR,
    payment_required |-> ~Government /\ courses[t] # {} ]

-----------------------------------------------------------------------------
(* The pages agree with the history and with what the requests will do:    *)
(* outside the days before a closed term a registration is shown in the    *)
(* state its history ends in, on the home page as on the course page, and  *)
(* the picker is offered just where a first submission would be let in and *)
(* is the curriculum page's list in the first open term.                   *)
PagesFit ==
  \A t \in Terms, begun \in BOOLEAN :
    LET page == list_available_courses(t, begun)
        H    == history[t] IN
    /\ page.registration_status # "NONE" =>
         page.registration_status = H[Len(H)][2]
    /\ H # <<>> /\ (windowOpen[t] \/ begun) =>
         page.registration_status = H[Len(H)][2]
    /\ page.registration_status = "NONE" /\ page.courses # {} =>
         /\ windowOpen[t] /\ H = <<>>
         /\ \/ page.courses = list_curriculum_courses
            \/ \E i \in OpenPositions : i < Position(t)
    /\ \A shown \in get_student_dashboard :
         shown[1] = t => shown[2] = page.registration_status

(* Who is held or registered is billed for a load the checks allow.        *)
BillFits ==
  \A t \in Terms : status[t] \in {"PAYMENT_HOLD", "REGISTERED"} =>
    LET bill == get_invoice(t) IN
    /\ bill.total_credit_hours \in MinCreditLoad..MaxCreditLoad
    /\ ~Government => /\ bill.payment_required
                      /\ bill.amount_due > 0

(* The history replays to the status, and the student's pages show it.     *)
HistoryShown == HistoryReplays /\ PagesFit

(* The curriculum gate holds for what is registered, and the bill is for   *)
(* the load the gate has let through.                                      *)
BilledCompliant == RegisteredCompliant /\ BillFits
=============================================================================
