SPECIFICATION BackupSpec
CONSTANTS
  None = None
  t1 = t1  t2 = t2  t3 = t3
  Appenders <- ThreeCalls
  AnchorSet = FALSE
  MaxCrashes = 0
  MaxDumps = 1
  MaxPosts = 2
  MaxWipes = 1
CHECK_DEADLOCK FALSE
INVARIANTS ChainSurvives AppendsAcceptedUnlessWiped DumpedSpendsHold
SYMMETRY AnyCall
