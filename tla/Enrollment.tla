----------------------------- MODULE Enrollment ------------------------------
(***************************************************************************)
(* What follows a ranking run: the officer's decision, the enrolment run   *)
(* (undergraduate/enrollment/router.py, agents/enrollment_agent.py) and    *)
(* the onboarding of each enrolled applicant (course/service.py,           *)
(* OnboardingService), on top of Ranking.                                  *)
(*                                                                         *)
(* An enrolment run loads the admitted applications, reads their ranking   *)
(* rows and the university id created last, numbers its list from there,   *)
(* and then, applicant by applicant, commits the enrolment row with the    *)
(* status and commits the student row.  A unique violation leaves the      *)
(* session unusable: every later applicant of that run fails.              *)
(*                                                                         *)
(*   idle -> loaded -> enrolling <-> onboarding -> minting -> ... -> idle  *)
(*                                                                         *)
(* created_at is the start of the transaction that inserts the row         *)
(* (func.now()), so a run's first row is as old as the run; clock orders   *)
(* those starts.                                                           *)
(***************************************************************************)
EXTENDS Ranking

CONSTANTS
    Enrollers,      \* slots for enrolment requests
    ByHand,         \* the applications officers move by hand
    MaxStarts       \* bound for TLC on the transactions the clock counts

ASSUME EnrollmentAssumption == ByHand \subseteq Applicants

FirstNumber == 6400

VARIABLES
    final,          \* final_decision of each application
    enrollments,    \* enrollments
    students,       \* students
    clock,          \* transaction starts so far
    enroller        \* the enrolment request each slot is serving

enrollVars == <<final, enrollments, students, clock, enroller>>
vars == <<rankVars, enrollVars>>

EnrollmentRow == [application : Applicants, number : Nat, program : Programs \cup {NoSeat},
                  created : Nat]
StudentRow    == [application : Applicants, number : Nat]

Waiting == [at |-> "idle", since |-> 0, todo |-> <<>>, poisoned |-> FALSE]

Init ==
    /\ RankInit
    /\ final = [a \in Applicants |-> "NONE"]
    /\ enrollments = {}
    /\ students = {}
    /\ clock = 0
    /\ enroller = [e \in Enrollers |-> Waiting]

-----------------------------------------------------------------------------
(* The officer's decision on a reviewed application, and an officer who    *)
(* moves an application on by hand (all of both in Admission).             *)

\* A second decision is refused, whatever became of the status.
Decide(a) ==
    /\ status[a] = "PENDING_REVIEW"
    /\ final[a] = "NONE"
    /\ status' = [status EXCEPT ![a] = "DECIDED"]
    /\ \E verdict \in {"ADMIT", "REJECT"} : final' = [final EXCEPT ![a] = verdict]
    /\ UNCHANGED <<uat, results, cutoff, ranker, enrollments, students, clock, enroller>>

\* The next status of the table, and nothing else: no score, no ranking row, no
\* decision and no enrolment row comes with it.
ALLOWED_TRANSITIONS ==
    [UAT_PENDING |-> "UAT_COMPLETED", UAT_COMPLETED |-> "PENDING_REVIEW",
     PENDING_REVIEW |-> "DECIDED", DECIDED |-> "ENROLLED"]

ChangeStatus(a) ==
    /\ status[a] \in DOMAIN ALLOWED_TRANSITIONS
    /\ status' = [status EXCEPT ![a] = ALLOWED_TRANSITIONS[@]]
    /\ UNCHANGED <<uat, results, cutoff, ranker, enrollVars>>

-----------------------------------------------------------------------------
(* The enrolment run.                                                      *)

On(e, at) == enroller[e].at = at

\* A transaction starts: its rows will carry this moment.
Tick == clock' = clock + 1

Enrolled(a) == \E row \in enrollments : row.application = a
Taken(n)    == \E row \in enrollments : row.number = n
Onboarded(a) == \E row \in students : row.application = a

\* Which applications a run selects.
AwaitingAny(a) == status[a] = "DECIDED" /\ ~Enrolled(a)     \* mutant: whatever the verdict
Awaiting(a) == status[a] = "DECIDED" /\ final[a] = "ADMIT" /\ ~Enrolled(a)

\* The selected applications, in no particular order.
EnrollLoad(e) ==
    /\ On(e, "idle")
    /\ clock < MaxStarts
    /\ \E order \in SetToSeqs({a \in Applicants : Awaiting(a)}) \ {<<>>} :
          enroller' = [enroller EXCEPT ![e] =
              [at |-> "loaded", since |-> clock, poisoned |-> FALSE,
               todo |-> [i \in DOMAIN order |->
                   [application |-> order[i], number |-> 0, program |-> NoSeat]]]]
    /\ Tick
    /\ UNCHANGED <<rankVars, final, enrollments, students>>

\* One more than the number of the row created last.
LastRows == {row \in enrollments : \A other \in enrollments : other.created <= row.created}
NextNumbers ==
    IF enrollments = {} THEN {FirstNumber} ELSE {row.number + 1 : row \in LastRows}

ProgramOf(seat) == IF seat \in Programs THEN seat ELSE NoSeat

FirstChoices(a) ==     \* mutant: the applicant's first choice
    {ProgramOf(Preference[a][1])}
\* The programs the last ranking run may have given a; none without a row.
LastPrograms(a) ==
    IF LatestRows(a) = {} THEN {NoSeat} ELSE {ProgramOf(row.seat) : row \in LatestRows(a)}

EnrollRead(e) ==
    LET todo == enroller[e].todo
    IN  /\ On(e, "loaded")
        /\ \E program \in [DOMAIN todo -> Programs \cup {NoSeat}] :
              /\ \A i \in DOMAIN todo : program[i] \in LastPrograms(todo[i].application)
              /\ \E first \in NextNumbers :
                    enroller' = [enroller EXCEPT ![e].at = "enrolling",
                        ![e].todo = [i \in DOMAIN todo |->
                            [application |-> todo[i].application, program |-> program[i],
                             number |-> first + i - 1]]]
        /\ UNCHANGED <<rankVars, final, enrollments, students, clock>>

\* The applicant the run is at.
Current(e) == Head(enroller[e].todo)

\* Neither the application nor the number has a row: both are unique.
Insertable(row) == ~Enrolled(row.application) /\ ~Taken(row.number)

EnrollStudent(e) ==
    LET row == Current(e)
    IN  /\ On(e, "enrolling") /\ ~enroller[e].poisoned /\ enroller[e].todo # <<>>
        /\ Insertable(row)
        /\ enrollments' = enrollments \cup
               {[application |-> row.application, number |-> row.number,
                 program |-> row.program, created |-> enroller[e].since]}
        /\ status' = [status EXCEPT ![row.application] = "ENROLLED"]
        /\ enroller' = [enroller EXCEPT ![e].at = "onboarding", ![e].since = clock]
        /\ Tick
        /\ UNCHANGED <<uat, results, cutoff, ranker, final, students>>

\* The row breaks a constraint, or the session is already unusable.
EnrollFailsFor(e) ==
    /\ On(e, "enrolling") /\ enroller[e].todo # <<>>
    /\ enroller[e].poisoned \/ ~Insertable(Current(e))
    /\ enroller' = [enroller EXCEPT ![e].poisoned = TRUE, ![e].todo = Tail(@)]
    /\ UNCHANGED <<rankVars, final, enrollments, students, clock>>

\* Onboarding looks for a student row; one that exists ends it.
OnboardRead(e) ==
    /\ On(e, "onboarding")
    /\ \/ /\ Onboarded(Current(e).application)
          /\ enroller' = [enroller EXCEPT ![e].at = "enrolling", ![e].todo = Tail(@)]
       \/ /\ ~Onboarded(Current(e).application)
          /\ enroller' = [enroller EXCEPT ![e].at = "minting"]
    /\ UNCHANGED <<rankVars, final, enrollments, students, clock>>

\* The student row, unless somebody has onboarded the applicant meanwhile.
OnboardCommit(e) ==
    LET row == Current(e)
    IN  /\ On(e, "minting")
        /\ \/ /\ ~Onboarded(row.application)
              /\ students' = students \cup
                     {[application |-> row.application, number |-> row.number]}
              /\ enroller' = [enroller EXCEPT ![e].at = "enrolling", ![e].todo = Tail(@),
                                              ![e].since = clock]
              /\ Tick
           \/ /\ Onboarded(row.application)
              /\ enroller' = [enroller EXCEPT ![e].at = "enrolling", ![e].todo = Tail(@),
                                              ![e].poisoned = TRUE]
              /\ UNCHANGED <<students, clock>>
        /\ UNCHANGED <<rankVars, final, enrollments>>

EnrollFinish(e) ==
    /\ On(e, "enrolling") /\ enroller[e].todo = <<>>
    /\ enroller' = [enroller EXCEPT ![e] = Waiting]
    /\ UNCHANGED <<rankVars, final, enrollments, students, clock>>

EnrollStops(e) ==
    /\ ~On(e, "idle")
    /\ enroller' = [enroller EXCEPT ![e] = Waiting]
    /\ UNCHANGED <<rankVars, final, enrollments, students, clock>>

\* An officer onboards an enrolled applicant by hand.
OnboardByHand(a) ==
    /\ ~Onboarded(a)
    /\ \E row \in enrollments :
          /\ row.application = a
          /\ students' = students \cup {[application |-> a, number |-> row.number]}
    /\ UNCHANGED <<rankVars, final, enrollments, clock, enroller>>

EnrollNext ==
    \/ \E a \in Applicants : Decide(a) \/ OnboardByHand(a)
    \/ \E a \in ByHand : ChangeStatus(a)
    \/ \E e \in Enrollers :
          \/ EnrollLoad(e)  \/ EnrollRead(e)    \/ EnrollStudent(e) \/ EnrollFailsFor(e)
          \/ OnboardRead(e) \/ OnboardCommit(e) \/ EnrollFinish(e)  \/ EnrollStops(e)

Next == (RankNext /\ UNCHANGED enrollVars) \/ EnrollNext

Spec == Init /\ [][Next]_vars

-----------------------------------------------------------------------------
(* Properties.                                                             *)

\* However enrolment and ranking runs overlap, the program an applicant is
\* enrolled in is the one every ranking run has given to them, unless an officer
\* moved the application on before it was ranked: then there is none.
EnrolledAsRanked ==
    \A row \in enrollments, result \in results :
        row.application = result.application =>
            \/ row.program = ProgramOf(result.seat)
            \/ row.application \in ByHand /\ row.program = NoSeat

\* Whatever overlaps or stops: only admitted applications have an enrolment row,
\* a student row carries the university id of the enrolment of its applicant, and
\* of the applications nobody moved by hand exactly those with a row are ENROLLED.
AdmittedIdentity ==
    /\ \A row \in enrollments : final[row.application] = "ADMIT"
    /\ \A student \in students : \E row \in enrollments :
          row.application = student.application /\ row.number = student.number
    /\ \A a \in Applicants \ ByHand : status[a] = "ENROLLED" <=> Enrolled(a)

\* "Find the current highest university ID counter": the next number is one
\* above all numbers given.
CounterIsHighest ==
    enrollments # {} => NextNumbers = {1 + Max({row.number : row \in enrollments})}
=============================================================================
