SPECIFICATION Spec
CONSTANTS
  m1 = m1  m2 = m2  t1 = t1
  Sessions <- ManySessions
  Root = Root  Primary = m1  None = None
  TestMode = FALSE
  MaxValue = 2
  Ticks <- OneMillisecond
  Lost = TRUE
INVARIANTS LoopVariablesLocal FailureIsLast TallyExact ReportExact RightMachine MatchIsPrevious WaitBounded
PROPERTIES EveryPlaybookEnds
