SPECIFICATION FairSpec
CONSTANTS
  Clients = {c1, c2, c3}
  Sizes = {0, 1, 3, 9}
  Capacity = 3
  MaxAlloc = 8
  MaxRequests = 6
  None = None
INVARIANTS
  TypeOK
  RecentIsNewest
  SampleIsContiguous
  WaitingHasSender
PROPERTIES
  ShortOnlyIfFlushed
  PromiseKept
  SampleArrives
