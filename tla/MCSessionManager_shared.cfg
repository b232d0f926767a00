SPECIFICATION Spec
CONSTANTS
  Threads = {t1, t2}
  Servers = {s1}
  Hints = {0}
  Capacity = 2
  Lifetime = 1
  Limit = 1
  Reuses = {TRUE, FALSE}
  MaxAttempts = 1
  MaxSessions = 2
  MaxFifo = 4
  MaxTime = 2
SYMMETRY Symmetry
INVARIANTS HandedOutOnce QueueCoversSessions FindIsComplete
PROPERTIES ExpiryTakesOnlyExpired
