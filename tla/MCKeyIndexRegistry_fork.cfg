SPECIFICATION Spec
CONSTANTS
  Keys = {k1}
  Procs = {p1, p2, p3}
  Pids = {1, 2, 3}
  MaxOps = 2
  RecyclePids = FALSE
  ForkMidSignature = FALSE
INVARIANTS TypeOK NoIndexReuse ChildrenAreRefused
CHECK_DEADLOCK FALSE
