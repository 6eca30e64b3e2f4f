SPECIFICATION Spec
CONSTANTS
  m1 = m1  m2 = m2  t1 = t1
  Sessions <- CountingSession
  Root = Root  Primary = m1  None = None
  TestMode = FALSE
  MaxValue = 2
  Ticks <- OneMillisecond
  Lost = TRUE
INVARIANTS OneValue
