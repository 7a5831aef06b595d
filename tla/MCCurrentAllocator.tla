------------------------- MODULE MCCurrentAllocator -------------------------
(***************************************************************************)
(* Small instance of CurrentAllocator.                                     *)
(***************************************************************************)
EXTENDS CurrentAllocator, TLC

CONSTANTS t1, t2, a1, a2, r1, r2, h1

MCThread == {t1, t2}
MCAllocator == {a1, a2}
MCRegion == {r1, r2}
MCHeapRegion == {h1}

Interchangeable ==
  Permutations(MCThread) \union Permutations(MCAllocator) \union Permutations(MCRegion)
=============================================================================
