\* The sizes of the code up to three pages and a little, 15-bit words.
CONSTANTS
  WordBits = 15
  MaxBucketSize = 8192
  PageSize = 4096
  GuaranteedAlignment = 16
  FirstSize = 12300
SPECIFICATION SizesSpec
INVARIANTS
  CompileTimeAgrees
  SmallestFit
  AlignedWithRoom
\* The last size is 1.
CHECK_DEADLOCK FALSE
