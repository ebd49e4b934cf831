CONSTANTS
  Bits = 4
  ByteBits = 2
  Dest <- MCDest
  Table <- MCTable
  MaxRequests = 6
SPECIFICATION FairSpec
INVARIANTS
  TypeOK
  EndsDiffer
  RequestsBounded
  AllOrNothing
PROPERTY
  CrawlEnds
