CONSTANTS
  a = a
  b = b
  c = c
  Runs = {r1}
  Workers = {a, b}
  Owners = {a, b}
  Owner <- OwnName
  MaxAttempts = 2
  MaxLapses = 1
  MaxCrashes = 0
  MaxRetries = 0
  None = None
SPECIFICATION LiveSpec
PROPERTIES BenchmarksAreFinished
CHECK_DEADLOCK FALSE
