CONSTANTS
  Releases = {a}
  Devices = {1, 2}
  Percent <- HalfThenAll
  Ordinal <- Opposite
  TwoPerson = {a}
  Lifecycles = {"active", "quarantined"}
  MaxReports = 2
  MaxLapses = 0
  MaxGeneration = 2
  Original = Original
  None = None
  forward = a
SPECIFICATION Spec
INVARIANTS AssignmentsAreCommanded EndedIsQuiet BlastRadius
CHECK_DEADLOCK FALSE
