CONSTANTS
  Parts = {"integrations"}
  MaxVersion = 4
  MaxAcks = 2
  Uploads = {1, 2, 3}
  Digest <- SameBytes
  MaxDamage = 1
  Cohorts <- Fleets
  StagePlans <- Plans
  Assigned = {0, 1, 2, 5}
  Rates <- GateRates
  CrashFree = {9600, 9800, 10000}
  MaxFailures <- FailuresOfAKind
  Readings = {r1}
  Pollers = {p, q}
  MaxConfigs = 2
  MaxAttempts = 2
  MaxPutBack = 1
  Threads = {1, 2, 3, 4}
  Origin <- Origins
  Capacity = 2
  Clients = {c1, c2}
  MaxErrors = 1
  Sizes = {0, 1, 2, 5}
  Offsets = {0, 1, 2, 3, 4, 5, 6, 15}
  Word = 16
  Missing = Missing
  MaxKeys = 2
  MaxSessions = 2
  Requesters = {a, b}
SPECIFICATION Spec
INVARIANTS TimeoutsAreNotRepeated
CHECK_DEADLOCK FALSE
