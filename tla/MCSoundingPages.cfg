\* Two buckets, up to three blocks.
CONSTANTS
  BucketCnt = 2
  PagesPerBucket = 16
  CommitPageCnt = 8
  MultipagePageCnt = 4
  Bases <- MCBases
  MaxBlocks = 3
SPECIFICATION Spec
INVARIANTS
  TypeOK
  BucketFromAddress
  CommitsStayReserved
  NoPageSkipped
  FaultOnlyIfRefused
  SegmentsAreHanded
PROPERTIES
  AbandonLosesNothing
  IsPageSource
\* The process may end (a fault, no address space) and the bound on blocks
\* may be reached in the middle of a request.
CHECK_DEADLOCK FALSE
