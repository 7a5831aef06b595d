------------------------------ MODULE Threads ------------------------------
(***************************************************************************)
(* What the allocators' threads share is in AllocatorIds, the counter of   *)
(* ids, and in CurrentAllocator, the memory that one allocates and another *)
(* frees.  Nothing else in the code is used by two threads.                *)
(***************************************************************************)
CONSTANT Thread  \* threads; each uses allocators of its own
=============================================================================
