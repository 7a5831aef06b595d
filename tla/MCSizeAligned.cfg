\* The macro promises 32, so that chunks are aligned and only the buckets are
\* left to be looked at.
CONSTANTS
  WordBits = 15
  MaxBucketSize = 8192
  PageSize = 4096
  GuaranteedAlignment = 32
  FirstSize = 12300
SPECIFICATION SizesSpec
INVARIANTS
  AlignedAtCompileTime
\* The last size is 1.
CHECK_DEADLOCK FALSE
