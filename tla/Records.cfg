SPECIFICATION MCSpec
CONSTANTS
    a = a
    b = b
    c = c
    d = d
    e = e
    x = x
    r1 = r1
    Components <- MCComponents
    Empty = Empty
    Unit = 8
    Enrolled <- MCEnrolled
    Other = Other
    Home = Home
    Courses <- MCCourses
    Credits <- MCCredits
    Department <- MCDepartment
    Semester <- MCSemester
    CurrentSemester = 3
    Invented = {x}
    Answers <- MCAnswers
    Asked <- MCAsked
    Requests <- MCRequests
    Reviews <- MCReviews
    MaxRows = 1
    LastTerm = 2
    NoLetter = NoLetter
    NoStatus = NoStatus
INVARIANTS BetterGradeNeverHurts DismissalHasGround AveragesAgree  EvidenceSound
PROPERTIES TurnsReviewStands TurnsAdvice
CHECK_DEADLOCK FALSE
