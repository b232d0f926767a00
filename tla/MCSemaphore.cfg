SPECIFICATION SemFairSpec
CONSTANTS
  Acquirers = {t1, t2, t3, t4}
  MaxTokens = 2
INVARIANTS CountersMatchWaiters WakeupsHaveTakers
PROPERTIES ImplementsCountingSemaphore TokenIsTaken
