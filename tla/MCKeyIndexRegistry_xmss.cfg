SPECIFICATION Spec
CONSTANTS
  Keys = {k1}
  Procs = {p1, p2}
  Pids = {1, 2}
  MaxOps = 2
  RecyclePids = FALSE
  ForkMidSignature = TRUE
INVARIANTS NoIndexReuse
CHECK_DEADLOCK FALSE
