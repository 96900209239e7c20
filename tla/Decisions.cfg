SPECIFICATION DecisionsSpec
CONSTANTS
  None = None
  Malformed = Malformed
  Unparsable = Unparsable
  v1 = v1
  v2 = v2
  Classes <- AllClasses
  Versions <- AllVersions
  Requests <- SmallRequests
  PolicyRequests <- AllPolicyRequests
  Amounts <- Thresholds
  MaxTime = 2
  MaxOver = 1
CHECK_DEADLOCK FALSE
INVARIANTS AllowsExactlyClear FailClosed OrderFree EvidenceIsGenuine
PROPERTIES NeverSoftens NeverMorePermissive
