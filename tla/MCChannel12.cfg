SPECIFICATION Spec
CONSTANTS
  Policies <- MCPolicies
  MsgLength <- MCMsgLength
  Limit = 1
  Calls = {"renegotiate", "send", "close", "reconnect"}
  MaxCalls = 2
  MaxHandshakes = 4
  MaxOld = 1
INVARIANTS OneHandshake SidesAgree NoPlaintextData PendingIsTimed
PROPERTIES Epoch0Harmless
CHECK_DEADLOCK FALSE
