--------------------------- MODULE MCRegistration ---------------------------
(***************************************************************************)
(* Instances of Registration for TLC.  The credits of the three courses    *)
(* make the window of 12 to 22 bind on both sides: all three are 23,       *)
(* calculus with ethics 11, and algebra is within it alone or with one of  *)
(* the two.  Calculus requires ethics.                                     *)
(***************************************************************************)
EXTENDS RegistrationViews

CONSTANTS algebra, calculus, ethics, h1, h2, h3

MCCourses == {algebra, calculus, ethics}
MCCreditHours ==
  [c \in Courses |-> IF c = algebra THEN 12 ELSE IF c = calculus THEN 6 ELSE 5]
MCPrerequisites ==
  [c \in Courses |-> IF c = calculus THEN Courses \intersect {ethics} ELSE {}]
MCSemesters ==
  [c \in Courses |-> IF c = ethics THEN 2 ELSE 1]
MCKeyOrder == [c \in Courses |-> IF c = algebra THEN 1 ELSE IF c = calculus THEN 2 ELSE 3]
MCCalendar == <<CHOOSE t \in Terms : TRUE>>
TwoCourses == {algebra, calculus}

OneSlot == {h1}
TwoSlots == {h1, h2}
ThreeSlots == {h1, h2, h3}

\* One request at a time, of every kind.
AnyKind == [h \in OneSlot |-> Kinds]
\* The student's own requests one at a time, the gateway beside them.
Lanes == [h \in TwoSlots |->
            IF h = h1 THEN {"register", "submit", "add", "remove", "initiate"}
            ELSE {"callback"}]
\* Two clicks on register at once, and a cost-sharing form.
TwoRegistersPay == [h \in ThreeSlots |->
                      IF h = h3 THEN {"form"} ELSE {"register"}]

\* Nobody grants an override: neither course of this instance needs one.
DoubleClickNext ==
  \/ \E t \in Terms : OpenWindow(t) \/ CloseWindow(t)
  \/ \E h \in Handlers, t \in Terms : Arrive(h, t)
  \/ \E h \in Handlers : Continue(h) \/ RequestFails(h)
  \/ Restart
DoubleClickSpec == Init /\ [][DoubleClickNext]_vars /\ Fairness
=============================================================================
