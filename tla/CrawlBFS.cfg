CONSTANTS
  Found = {a, b, c}
  MaxSeq = 1
  ChanCap = 1
  MaxDHTSize = 2
  Threshold = 2
  Nil = nil
SPECIFICATION FairSpec
INVARIANTS
  TypeOK
  NoAnswerLost
  DeadOnlyAtEnd
PROPERTIES
  CrawlReturns
  GoroutinesEnd
\* The call ends, and its goroutines with it.
CHECK_DEADLOCK FALSE
