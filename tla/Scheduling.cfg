SPECIFICATION MCSpec
CONSTANTS
    se = se
    ee = ee
    algo = algo
    net = net
    power = power
    hall = hall
    lab = lab
    shed = shed
    ann = ann
    bob = bob
    p1 = p1
    p2 = p2
    Departments = {se, ee}
    Courses = {algo, net, power}
    Dept <- MCDept
    Semester <- MCSemester
    CreditHours <- MCCreditHours
    Rooms = {hall, lab, shed}
    Owner <- MCOwner
    Capacity <- MCCapacity
    Students = {1, 2, 3, 4, 5}
    Cohort <- MCCohort
    Instructors = {ann, bob}
    NoOne = NoOne
    NoSection = NoSection
    Days = 2
    Blocks = 2
    Slots = {p1, p2}
    MaxRuns <- MCMaxRuns
    MaxAssignments = 2
    MaxRetries = 1
SYMMETRY Symmetry
INVARIANTS TimetableSound TurnsOnce CompleteOrSeen CohortsBalanced
CHECK_DEADLOCK FALSE
