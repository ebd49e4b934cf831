CONSTANTS
  MaxNodes = 3
  ChanCap = 1
  BufSize = 2
  IsSql = TRUE
SPECIFICATION FairSpec
INVARIANTS
  TypeOK
  RecordKept
PROPERTIES
  InfoSaved
  ClientsKept
