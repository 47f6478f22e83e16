SPECIFICATION SessionSpec
CONSTANTS
  None = None
  w1 = w1
  w2 = w2
  k1 = k1
  r1 = r1
  Clients = {w1, w2, k1, r1}
  Writers = {w1, w2}
  Checkpointers = {k1}
  Readers = {r1}
  Operators = {}
  Collectors = {}
  Transactions = {}
  Persistent = {}
  MaxTailEntries = 2
  ResolutionWindow = 1
  MaxRetentionIds = 1
  MaxAttempts = 2
  Quotas <- HostQuotas
INVARIANTS
  OperationsApplyOnce
  HostsAreRight
CHECK_DEADLOCK FALSE
