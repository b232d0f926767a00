SPECIFICATION Spec
CONSTANTS
  Policies <- MCWelcome
  MsgLength <- MCMsgLength
  Limit = 1
  Calls = {"renegotiate"}
  MaxCalls = 2
  MaxHandshakes = 3
  MaxOld = 1
INVARIANTS AssociationSurvives
CHECK_DEADLOCK FALSE
