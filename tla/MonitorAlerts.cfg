SPECIFICATION Spec
CONSTANTS
  Messages = {m1}
  RawEvents = {e1}
  Errors = {x1}
  Checks = {c1, c2}
  Channels = {"slack", "email"}
  Interval = 3
  Window = 1
  BacklogAge = 1
  Cooldown = 3
  Queries <- TwoQueries
  Threshold <- Thresholds
  MaxLag = 1
  MaxRows = 1
  MaxNow = 4
  Faults = {"count", "check", "send"}
  MaxFaults = 1
SYMMETRY MonitorSymmetry
INVARIANTS  AlertSpaced
PROPERTIES CounterCovers ProblemHeard
CHECK_DEADLOCK FALSE
