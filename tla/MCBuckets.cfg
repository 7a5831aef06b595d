CONSTANTS
  BucketCnt = 2
  PagesPerBucket = 2
  PageSize = 8
  memForbidden = 1
  BucketSize <- MCBucketSize
  MultipagePageCnt = 2
  Bases <- MCBases
  LargePages <- MCLargePages
  MaxLargePages = 2
SPECIFICATION Spec
INVARIANTS
  TypeOK
  ListsSound
  LostOnlyWhenCut
  ObjectsFit
  RoutedHome
  NeverStops
PROPERTIES
  IsObjectHeap
