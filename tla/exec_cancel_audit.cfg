SPECIFICATION Spec
CONSTANTS
  Invocations = {r1, r2, r3}
  Tickets = {t1}
  Requests = {w1}
  Writes = {w1}
  Providers = {p1}
  p1 = p1
  ProviderOf <- OneProvider
  NoTicket = NoTicket
  NoGrant = NoGrant
  NoCall = NoCall
  TTL = 1
  LockWait = 0
  MaxTime = 1
  MaxGeneration = 1
  MaxDbErrors = 0
  CanCancel = TRUE
  CanCrash = FALSE
INVARIANTS
  AmbiguityIsAudited
CHECK_DEADLOCK FALSE
