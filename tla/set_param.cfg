\* The device refuses a parameter once.
CONSTANTS
  Reader = Reader
  Setter = Setter
  Hosts <- TwoHosts
  Nobody = Nobody
  Ops <- OneEach
  Attempts = 2
  SetAttempts = 2
  MaxCalls = 1
  MaxCopies = 2
  MaxStrays = 1
SPECIFICATION Spec
INVARIANT SetParamRetries
CHECK_DEADLOCK FALSE
