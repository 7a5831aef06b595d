CONSTANTS
  BlockPageCnt = 5
  MaxPages = 2
  Places <- MCPlaces
  DirectPlaces <- MCDirectPlaces
  MaxRequest = 3
SPECIFICATION Spec
INVARIANTS
  RemovedChunkIsListed
\* The process ends at a failed assertion.
CHECK_DEADLOCK FALSE
