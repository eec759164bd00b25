\* Two clients, and so two servers; one process is killed.
CONSTANTS
  Clients = {c1, c2}
  Nobody = Nobody
  MaxCrashes = 1
  MaxAgain = 2
SPECIFICATION FairSpec
INVARIANTS TypeOK EventMeansServer ServerCanBeFound
PROPERTIES SessionsAreKept InitReturns ServersLeave
CHECK_DEADLOCK FALSE
