SPECIFICATION Spec
CONSTANTS
  algebra = algebra
  calculus = calculus
  ethics = ethics
  h1 = h1
  h2 = h2
  h3 = h3
  Terms = {t1}
  Courses <- MCCourses
  Handlers <- TwoSlots
  Serves <- Lanes
  CreditHours <- MCCreditHours
  Prerequisites <- MCPrerequisites
  KeyOrder <- MCKeyOrder
  Calendar <- MCCalendar
  CurrentSemester = 1
  Semester <- MCSemesters
  FEE_PER_CREDIT_HOUR_BIRR = 100
  Government = FALSE
  Failures = TRUE
  MaxHistory = 5
  MaxReferences = 2
INVARIANT HistoryShown
INVARIANT RegisteredSettled
INVARIANT BilledCompliant
PROPERTY FinalLocks
