CONSTANTS
  BucketCnt = 2
  PagesPerBucket = 2
  PageSize = 6
  memForbidden = 1
  BucketSize <- MCBucketSize
  MultipagePageCnt = 2
  Bases <- MCBases
  LargePages <- MCLargePages
  MaxLargePages = 1
  MaxRestarts = 1
SPECIFICATION SafeSpec
INVARIANTS
  SafeTypeOK
  ZombiesApart
  NoZombieMissed
  FalseAlarmOnlyAfterChunk
PROPERTIES
  KillReturnsAllButFirst
