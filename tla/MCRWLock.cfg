SPECIFICATION FairSpec
CONSTANTS
  Threads = {t1, t2, t3, t4}
  ReadersMask = 3
INVARIANTS MutualExclusion StateWordMatchesHolders NoLostWakeup
PROPERTIES AnnouncedWriterGetsIn
