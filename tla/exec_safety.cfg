SPECIFICATION Spec
CONSTANTS
  Invocations = {r1, r2, r3}
  Tickets = {t1}
  Requests = {w1, w2}
  Writes = {w1, w2}
  Providers = {p1}
  p1 = p1
  ProviderOf <- OneProvider
  NoTicket = NoTicket
  NoGrant = NoGrant
  NoCall = NoCall
  TTL = 1
  LockWait = 0
  MaxTime = 1
  MaxGeneration = 2
  MaxDbErrors = 2
  CanCancel = TRUE
  CanCrash = TRUE
SYMMETRY Interchangeable
INVARIANTS
  TypeOK
  AtMostOneSend
  SentUnderApproval
  OutcomeIsTruthful
  AuditMatchesTicket
  ExecutingIsAccountedFor
PROPERTIES
  SettledIsFinal
  ImplementsTicket
CHECK_DEADLOCK FALSE
