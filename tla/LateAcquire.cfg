SPECIFICATION Spec
CONSTANTS
  None = None
  w1 = w1
  w2 = w2
  k1 = k1
  k2 = k2
  r1 = r1
  r2 = r2
  o1 = o1
  c1 = c1
  c2 = c2
  Clients = {w1, w2, k1, k2, r1, r2, o1, c1, c2}
  Writers = {}
  Checkpointers = {}
  Readers = {r1}
  Operators = {}
  Collectors = {}
  Transactions = {t1, t2}
  Persistent = {}
  MaxTailEntries = 3
  ResolutionWindow = 1
  MaxRetentionIds = 1
  MaxAttempts = 2
  Quotas <- LateQuotas
INVARIANTS
  ReleasedStaysReleased
CHECK_DEADLOCK FALSE
