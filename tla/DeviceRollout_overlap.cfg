CONSTANTS
  Releases = {a, b}
  Devices = {1}
  Percent <- AllAtOnce
  Ordinal <- Opposite
  TwoPerson = {b}
  Lifecycles = {"active", "decommissioned"}
  MaxReports = 2
  MaxLapses = 1
  MaxGeneration = 4
  Original = Original
  None = None
  forward = a
SPECIFICATION Spec
INVARIANTS TypeOK NewestReportWins ConvergenceWasReported GenerationsAreUnique EndedIsQuiet
  RollbackReachesAll
PROPERTY FollowsAssignmentLifecycle
CHECK_DEADLOCK FALSE
