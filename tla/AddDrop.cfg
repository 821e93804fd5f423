SPECIFICATION Spec
CONSTANTS
    major = major
    elective = elective
    extra = extra
    own = own
    other = other
    p1 = p1
    p2 = p2
    Courses <- MCCourses
    Sections <- MCSections
    Home = own
    Times <- MCTimes
    Timetables <- MCTimetables
    CreditHours <- MCCreditHours
    Curriculum <- MCCourses
    Completed = {}
    Starts = {{major, elective}}
    Slots = {p1, p2}
    Serves <- Lanes
    MaxItems = 3
    MaxBatches = 2
INVARIANTS SharedFate OverrideJustified AdditionsActive
PROPERTIES LoadKept ClashFromAdd PickerHonest
CHECK_DEADLOCK FALSE
