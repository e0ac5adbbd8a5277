CONSTANTS
  Operators = {alice, bob}
  Workers = {w1}
  Requests = {r1}
  Evaluations = {e1}
  StageCount = 1
  TwoPerson = TRUE
  Artifacts = {"target", "rollback"}
  MaxVersion = 8
  None = None
SPECIFICATION LiveSpec
INVARIANTS SpentApprovalIsPast
PROPERTIES TwoPersonControl ApprovalActsOnWhatWasRequested NoUntrustedRollback BlockedForGood StaleRequestIsSwept
CHECK_DEADLOCK FALSE
