CONSTANTS
  Operators = {alice, bob}
  Workers = {w1}
  Requests = {r1}
  Evaluations = {e1}
  StageCount = 1
  TwoPerson = TRUE
  Artifacts = {"target"}
  MaxVersion = 9
  None = None
SPECIFICATION LiveSpec
PROPERTIES DueReleaseStarts
CHECK_DEADLOCK FALSE
