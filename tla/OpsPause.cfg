SPECIFICATION FairSpec
CONSTANTS
  Clients = {c1}
  Limit = 2
  Window = 2
  MaxBuckets = 0
  Requests = {r1, r2}
  MaxTtl = 2
  Failsafe = {"set", "del"}
  Faults = {"redis", "api"}
  MaxFaults = 1
  NoRequest = NoRequest
INVARIANTS NoStrayPause AnswerIsTrue BurstBound 
PROPERTIES LastingPauseStays TimedPauseEnds
CHECK_DEADLOCK FALSE
