SPECIFICATION PoolFairSpec
CONSTANTS
  Workers = {w1, w2, w3}
  Clients = {c1, c2}
  Stoppers = {s1, s2}
  MaxTasks = 4
INVARIANTS EachTaskOnce ShutdownDrains
PROPERTIES TasksAreRun ShutdownReturns
