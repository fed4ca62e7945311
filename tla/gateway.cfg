SPECIFICATION Spec
CONSTANTS
  Gateways = {g1, g2}
  Requests = {r1, r2}
  Sessions = {s1, s2}
  Subjects = {u1, u2}
  None = None
  MaxSessions = 1
  MaxConcurrency = 2
  Ttl = 3
  TicksPerSecond = 1
  MaxLag = 1
  MaxLead = 0
  MaxTime = 5
  MaxRequests = 3
  MaxFaults = 1
SYMMETRY Interchangeable
INVARIANTS
  TypeOK
  SessionKeepsItsSubject
  LocalCapacity
  SharedCapacity
  NoLeakedSession
PROPERTIES
  EndedStaysEnded
CHECK_DEADLOCK FALSE
