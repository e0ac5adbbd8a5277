CONSTANTS
  Operators = {alice, bob}
  Workers = {w1, w2}
  Requests = {r1}
  Evaluations = {e1}
  StageCount = 2
  TwoPerson = FALSE
  Artifacts = {"rollback"}
  MaxVersion = 7
  None = None
SPECIFICATION LiveSpec
INVARIANTS StagesInOrder ReadsAreCurrent
PROPERTIES PromotionOnFreshEvidence FollowsLifecycle DueReleaseStarts
CHECK_DEADLOCK FALSE
