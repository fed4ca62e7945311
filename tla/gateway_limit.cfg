SPECIFICATION Spec
CONSTANTS
  Gateways = {g1, g2}
  Requests = {r1, r2}
  Sessions = {s1, s2}
  Subjects = {u1}
  None = None
  MaxSessions = 1
  MaxConcurrency = 2
  Ttl = 2
  TicksPerSecond = 2
  MaxLag = 0
  MaxLead = 0
  MaxTime = 6
  MaxRequests = 3
  MaxFaults = 0
SYMMETRY Interchangeable
INVARIANTS
  ActiveWithinLimit
CHECK_DEADLOCK FALSE
