SPECIFICATION DoubleClickSpec
CONSTANTS
  algebra = algebra
  calculus = calculus
  ethics = ethics
  h1 = h1
  h2 = h2
  h3 = h3
  Terms = {t1}
  Courses <- TwoCourses
  Handlers <- ThreeSlots
  Serves <- TwoRegistersPay
  CreditHours <- MCCreditHours
  Prerequisites <- MCPrerequisites
  KeyOrder <- MCKeyOrder
  Calendar <- MCCalendar
  CurrentSemester = 1
  Semester <- MCSemesters
  FEE_PER_CREDIT_HOUR_BIRR = 100
  Government = TRUE
  Failures = FALSE
  MaxHistory = 4
  MaxReferences = 1
INVARIANT CreatedOnce
PROPERTY Answered
