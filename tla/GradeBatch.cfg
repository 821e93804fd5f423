SPECIFICATION MCSpec
CONSTANTS
    x = x
    y = y
    p1 = p1
    p2 = p2
    Sections = {a}
    Students <- TwoStudents
    Sessions <- TwoSlots
    Totals = {35, 92}
    Absent = Absent
    Blank = Blank
    NoGrade = NoGrade
    NoSection = NoSection
    Rosters <- AnyRosters
    MaxVersion = 2
    MaxIteration = 3
    MaxReviews = 3
    MaxDecisions = 2
SYMMETRY Symmetry
INVARIANTS
    TurnsOfficial TurnsWorkflow AgentBeforeOfficer
PROPERTIES
    TurnsLocked RefinesRecord
CHECK_DEADLOCK FALSE
