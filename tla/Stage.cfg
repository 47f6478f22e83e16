SPECIFICATION Spec
CONSTANTS
  None = None
  p1 = p1
  r1 = r1
  c1 = c1
  c2 = c2
  Clients = {p1, r1, c1, c2}
  Publishers = {p1}
  Collectors = {c1}
  Readers = {r1}
  Operators = {}
  MaxTailEntries = 1
  ResolutionWindow = 1
  MaxRetentionIds = 1
  MaxAttempts = 1
  Quotas <- StageQuotas
  MaxCandidates = 1
  MaxDeleteBatch = 1
  MaxFaults <- StageFaults
INVARIANTS
  LiveObjectsExist
  ProofsHold
  AbsenceMeansExpiry
CHECK_DEADLOCK FALSE
