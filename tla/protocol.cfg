\* Two processes; a request may be sent once too often.
CONSTANTS
  Reader = Reader
  Setter = Setter
  Hosts <- TwoHosts
  Nobody = Nobody
  Ops <- OneEach
  Attempts = 2
  SetAttempts = 2
  MaxCalls = 1
  MaxCopies = 2
  MaxStrays = 1
SPECIFICATION FairSpec
INVARIANTS  DataOfOneReply
PROPERTIES RequestsAreSent EveryCallReturns
CHECK_DEADLOCK FALSE
