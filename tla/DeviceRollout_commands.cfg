CONSTANTS
  Releases = {a}
  Devices = {1}
  Percent <- AllAtOnce
  Ordinal <- Opposite
  TwoPerson = {a}
  Lifecycles = {"active"}
  MaxReports = 2
  MaxLapses = 1
  MaxGeneration = 3
  Original = Original
  None = None
  forward = a
SPECIFICATION Spec
INVARIANTS CommandsStayAvailable
CHECK_DEADLOCK FALSE
