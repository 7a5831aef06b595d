CONSTANTS
  t1 = t1
  t2 = t2
  a1 = a1
  a2 = a2
  r1 = r1
  r2 = r2
  h1 = h1
  none = none
  Thread <- MCThread
  Allocator <- MCAllocator
  Region <- MCRegion
  HeapRegion <- MCHeapRegion
  ChunkClass = 2
  MaxHeld = 4
SPECIFICATION Spec
INVARIANTS
  MemorySound
  DisciplineSuffices
SYMMETRY Interchangeable
\* A process in which memory got into the wrong hands is not followed.
CHECK_DEADLOCK FALSE
