--------------------------- MODULE PageAllocator ---------------------------
(***************************************************************************)
(* PageAllocator, the proof of concept: blocks straight from the OS and    *)
(* back, with statistics.  What users of the caching allocator may rely    *)
(* on: blocks that overlap no other block held, and statistics of what     *)
(* they asked for and gave back.                                           *)
(*                                                                         *)
(* Sizes are whole pages, as getFreeBlock asserts.  Every request is a     *)
(* call to the OS, so the statistics of both are the same numbers.  The    *)
(* calls for address space only pass through.                              *)
(***************************************************************************)
EXTENDS Integers, FiniteSets

CONSTANTS
  Place,   \* page numbers the OS may place a block at
  Size,    \* sizes, in pages, users ask for
  Width    \* statistics are counted modulo this (2^64)

VARIABLES
  held,           \* first page -> size, of the blocks users hold
  allocRequest,   \* pages asked for, refused requests included
  deallocRequest, \* pages given back
  refused         \* pages asked for and not got

Extent(p, sz) == p .. p + sz - 1
Covered(blocks) == UNION {Extent(p, blocks[p]) : p \in DOMAIN blocks}
With(blocks, p, sz) ==
  [q \in DOMAIN blocks \union {p} |-> IF q = p THEN sz ELSE blocks[q]]
Without(blocks, p) == [q \in DOMAIN blocks \ {p} |-> blocks[q]]

Registered(total, sz) == (total + sz) % Width

PageAllocatorInit ==
  held = [p \in {} |-> 0] /\ allocRequest = 0 /\ deallocRequest = 0 /\ refused = 0

(* The request is registered before the OS answers; a refusal leaves as    *)
(* bad_alloc.                                                              *)
getFreeBlock(sz) ==
  /\ allocRequest' = Registered(allocRequest, sz)
  /\ \/ /\ \E p \in Place : /\ Extent(p, sz) \intersect Covered(held) = {}
                             /\ held' = With(held, p, sz)
        /\ UNCHANGED refused
     \/ refused' = Registered(refused, sz) /\ UNCHANGED held
  /\ UNCHANGED deallocRequest

freeChunk(p) ==
  /\ p \in DOMAIN held
  /\ held' = Without(held, p)
  /\ deallocRequest' = Registered(deallocRequest, held[p])
  /\ UNCHANGED <<allocRequest, refused>>

PageAllocatorNext ==
  \/ \E sz \in Size : getFreeBlock(sz)
  \/ \E p \in Place : freeChunk(p)

PageAllocatorSpec ==
  /\ PageAllocatorInit
  /\ [][PageAllocatorNext]_<<held, allocRequest, deallocRequest, refused>>
=============================================================================
