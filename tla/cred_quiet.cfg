SPECIFICATION Spec
CONSTANTS
  o1 = o1
  o2 = o2
  m1 = m1
  m2 = m2
  cli1 = cli1
  cli2 = cli2
  mcp = mcp
  p1 = p1
  Workers = {o1, m1, m2}
  Operators = {o1}
  Callers = {o1, m1, m2}
  Processes = {cli1, mcp}
  ProcessOf <- WorkerProcess
  Accounts = {a1}
  Providers = {p1}
  ProviderOf <- OneProvider
  Secrets = {k1, k2, k3}
  Rotates = {TRUE}
  NoSecret = NoSecret
  NoSession = NoSession
  NoWorker = NoWorker
  MaxFaults = 0
SYMMETRY Interchangeable
INVARIANTS
  NoOrphanSecret
  StoredTokenIsLive
  NoReplayInProcess
CHECK_DEADLOCK FALSE
