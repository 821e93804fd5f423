------------------------------ MODULE MCAddDrop ------------------------------
(* Three courses around the load limits, two sections, two timetables.    *)
EXTENDS AddDrop, TLC

CONSTANTS major, elective, extra, own, other, p1, p2

MCCourses == {major, elective, extra}
MCSections == {own, other}
MCCreditHours == (major :> 12) @@ (elective :> 5) @@ (extra :> 6)
MCTimes == 1..2

(* The other section teaches the extra course in one timetable only.      *)
MCTimetables ==
    { (own   :> (major :> {1} @@ elective :> {2} @@ extra :> {})) @@
      (other :> (major :> {2} @@ elective :> {} @@ extra :> x)) : x \in {{}, {2}} }

(* The student submits beside whoever decides, accepts or schedules.       *)
Lanes == (p1 :> {"submit"}) @@ (p2 :> Kinds \ {"submit"})

(* Two department heads decide: one approves, one rejects.                 *)
TwoOfficers == (p1 :> {"submit", "approve"}) @@ (p2 :> {"reject"})
=============================================================================
