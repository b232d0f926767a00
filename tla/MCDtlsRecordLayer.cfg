SPECIFICATION Spec
CONSTANTS
  MaxAssoc = 1
  MaxEpoch = 3
  MaxSeq = 3
  WindowSize = 2
  MaxSent = 5
INVARIANTS NonceUnique NoReplay KeysHaveWindows NoFalseAlarm
CHECK_DEADLOCK FALSE
