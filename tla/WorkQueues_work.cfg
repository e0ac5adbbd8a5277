CONSTANTS
  a = a
  b = b
  c = c
  Runs = {r1}
  Workers = {a, b, c}
  Owners = {a, b}
  Owner <- SharedName
  MaxAttempts = 2
  MaxLapses = 2
  MaxCrashes = 1
  MaxRetries = 1
  None = None
SPECIFICATION LiveSpec
INVARIANTS OneWorkerPerRow AttemptsAreCounted
PROPERTIES EndedRunsStayEnded WorkIsFinished
CHECK_DEADLOCK FALSE
