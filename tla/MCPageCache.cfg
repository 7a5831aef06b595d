CONSTANTS
  MaxCachedSize = 2
  SinglePageCacheSize = 2
  MultiPageCacheSize = 1
  Place <- MCPlace
  Size <- MCSize
  ReservationSize = 2
  Width = 4
SPECIFICATION Spec
INVARIANTS
  ListsSound
  StatsBalance
PROPERTIES
  IsPageAllocator
