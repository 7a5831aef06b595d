\* Three threads, a counter of four values, up to seven increments.
CONSTANTS
  t1 = t1
  t2 = t2
  t3 = t3
  Thread <- MCThread
  IdCnt = 4
  MaxTicks = 7
SPECIFICATION IdsSpec
SYMMETRY Symmetry
INVARIANTS
  IdsTypeOK
  DistinctUnlessOverlapping
  ZeroOnlyIfRaced
\* The bound on increments stops the threads.
CHECK_DEADLOCK FALSE
