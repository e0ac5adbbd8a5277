CONSTANTS
  Clients = {c1, c2}
  Keys = {k1, k2}
  Digests = {d1, d2}
  Adapters = {"notification"}
  Limit = 1
  MaxRequests = 2
  MaxSweeps = 1
  Tags = {"route", "accepted"}
  Subjects = {k1, k2}
  Interval = 2
  MaxEvents = 4
  MaxAlters = 1
  None = None
SYMMETRY Symmetry
SPECIFICATION Spec
INVARIANTS AtMostOnce AnswersAgree EffectsAreEvidenced VerificationIsExact ExportsAreFrozen
CHECK_DEADLOCK FALSE
