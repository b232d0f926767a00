SPECIFICATION FairSpec
CONSTANTS
  Ports = {p1, p2, p3}
  NullPorts = {p1}
  MaxSends = 2
INVARIANTS EveryFilterGotEveryInput ExceptionsReachTheCaller
PROPERTIES InputStableWhileWorkersRun SendReturns DestructorReturns
