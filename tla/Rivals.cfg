SPECIFICATION Spec
CONSTANTS
  None = None
  p1 = p1
  r1 = r1
  c1 = c1
  c2 = c2
  Clients = {p1, r1, c1, c2}
  Publishers = {p1}
  Collectors = {c1, c2}
  Readers = {}
  Operators = {}
  MaxTailEntries = 2
  ResolutionWindow = 1
  MaxRetentionIds = 1
  MaxAttempts = 1
  Quotas <- RivalQuotas
  MaxCandidates = 2
  MaxDeleteBatch = 1
  MaxFaults <- RivalFaults
INVARIANTS
  DoomedIsDead
CHECK_DEADLOCK FALSE
