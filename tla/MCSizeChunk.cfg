\* The macro promises no more than ALIGNMENT.
CONSTANTS
  WordBits = 15
  MaxBucketSize = 8192
  PageSize = 4096
  GuaranteedAlignment = 16
  FirstSize = 12300
SPECIFICATION SizesSpec
INVARIANTS
  AlignedAtRunTime
\* The last size is 1.
CHECK_DEADLOCK FALSE
