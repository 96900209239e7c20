SPECIFICATION FairSpec
CONSTANTS
  FaultSets <- MCFaultSets
  Deployments <- MCDeployments
  MaxOrders = 3
CHECK_DEADLOCK FALSE
INVARIANTS PassMeansConformant NoFalseAlarm LeftOnOnlyByFailure
PROPERTIES Ends
