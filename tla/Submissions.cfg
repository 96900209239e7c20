SPECIFICATION SubmissionsFair
CONSTANTS
  None = None
  NotANumber = NotANumber
  Byte <- MCByte
  Chunks <- MCChunks
  Requests <- MCRequests
  Valid <- MCValid
  MaxBytes = 2
  MaxSent = 4
  Retention = 1
  MaxDays = 3
CHECK_DEADLOCK FALSE
INVARIANTS BufferBounded StoredAsSent StatusTruthful
PROPERTIES ImplementsGate Resolves FormAnswered
