--------------------------- MODULE SchedulingViews ---------------------------
(***************************************************************************)
(* What the timetable pages show: the department head's overview and open  *)
(* conflicts, the students of a section, the week of an instructor.  Each  *)
(* counts rows afresh; the overview has the enrolled_count that the        *)
(* allocation has stored beside the registrations as they are pinned now.  *)
(***************************************************************************)
EXTENDS Scheduling, Functions

list_section_students(s) == {n \in Students : pin[n] = s}

get_instructor_schedule(i) == {x \in classes : x.instructor = i}

list_open_conflicts(d) == {x \in conflicts : x.section.dept = d}

get_department_term_overview(d) ==
    [sections |-> [s \in SectionsOf(d) |-> enrolled[s]],
     students_placed_count |-> Cardinality({n \in Students : pin[n] \in SectionsOf(d)}),
     slots_count |-> Cardinality({x \in classes : x.section \in SectionsOf(d)})]

-----------------------------------------------------------------------------
(* The pages of a department agree: the students placed are those of its   *)
(* section lists and the sum of the stored counts, and the classes counted *)
(* are all that its instructors, or nobody yet, have in their weeks.       *)
PagesFit ==
    \A d \in Departments :
        LET page   == get_department_term_overview(d)
            mine   == DOMAIN page.sections
            theirs == [i \in Instructors \cup {NoOne} |->
                         Cardinality({x \in get_instructor_schedule(i) : x.section.dept = d})]
        IN  /\ page.students_placed_count = SumFunctionOnSet(page.sections, mine)
            /\ page.students_placed_count =
                 Cardinality(UNION {list_section_students(s) : s \in mine})
            /\ page.slots_count = SumFunctionOnSet(theirs, Instructors \cup {NoOne})

(* A student's section is one of their department and semester, sections   *)
(* are balanced and counted right, and every page shows it so.             *)
CohortsBalanced == Balanced /\ PagesFit

(* An open conflict is of a section that is there, and the head of the     *)
(* department that teaches the course sees it.                             *)
ConflictsSeen ==
    \A x \in conflicts : /\ x.section \in SectionsOf(x.section.dept)
                         /\ x \in list_open_conflicts(Dept[x.course])
=============================================================================
