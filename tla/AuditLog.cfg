SPECIFICATION ReaderSpec
CONSTANTS
  None = None
  t1 = t1  t2 = t2  t3 = t3
  Appenders <- ThreeCalls
  AnchorSet = TRUE
  MaxCrashes = 1
  Limits <- SomeLimits
  TestEvents <- OneTest
  MaxAsks = 2
CHECK_DEADLOCK FALSE
INVARIANTS ChainVerifies AnchoredIsLogged AnswerVerifies
PROPERTIES KeepsLog
