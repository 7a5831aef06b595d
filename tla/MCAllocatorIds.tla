--------------------------- MODULE MCAllocatorIds ---------------------------
(***************************************************************************)
(* Three threads and a counter of four values (the code: 2^16) that goes   *)
(* round more than once.                                                   *)
(***************************************************************************)
EXTENDS AllocatorIds, TLC

CONSTANTS t1, t2, t3
MCThread == {t1, t2, t3}
Symmetry == Permutations(MCThread)
=============================================================================
