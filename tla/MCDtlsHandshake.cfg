SPECIFICATION Spec
CONSTANTS
  NoLimit = NoLimit
  Limit = 1
  Policies <- MCPolicies
  MsgLength <- MCMsgLength
  MaxCopies = 1
  MaxOld = 1
INVARIANTS NoSpuriousFailure
PROPERTIES ImplementsStream OnlyTerminalSenderReplays HandshakeEnds
