SPECIFICATION MCSpec
CONSTANTS
    c = c
    p1 = p1
    p2 = p2
    Courses <- MCCourses
    Credits <- MCCredits
    Expected <- MCExpected
    Marks = {"A", "C-", "I"}
    Chosen = {"PROMOTED", "WARNING"}
    Sessions <- OneSlot
    LastTerm = 2
    MaxHistory = 3
    NoLetter = NoLetter
    NoStatus = NoStatus
INVARIANT PriorIsEarlier
CHECK_DEADLOCK FALSE
