SPECIFICATION FairSpec
CONSTANTS
  Invocations = {r1, r2, r3}
  Tickets = {t1}
  Requests = {w1}
  Writes = {w1}
  Providers = {p1}
  p1 = p1
  ProviderOf <- OneProvider
  NoTicket = NoTicket
  NoGrant = NoGrant
  NoCall = NoCall
  TTL = 1
  LockWait = 1
  MaxTime = 2
  MaxGeneration = 1
  MaxDbErrors = 2
  CanCancel = TRUE
  CanCrash = FALSE
PROPERTIES
  ExecutingSettles
  ClaimBeforeDeadline
CHECK_DEADLOCK FALSE
