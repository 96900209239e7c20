SPECIFICATION Spec
CONSTANTS
  None = None
  pay = pay  leak = leak
  Actions <- TwoActions
  Ttl = 1
  MaxTime = 2
  MaxKeys = 2
CHECK_DEADLOCK FALSE
PROPERTIES SinksAcceptGenuine
