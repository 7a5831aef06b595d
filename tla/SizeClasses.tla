---------------------------- MODULE SizeClasses ----------------------------
(***************************************************************************)
(* The size classes of IibAllocatorBase (two per power of two), the bucket *)
(* a request is served from, at run time and at compile time, and how the  *)
(* aligned allocations choose a bucket whose objects are aligned.          *)
(*                                                                         *)
(* The state machine is bucketIdxest: it visits the sizes one by one.      *)
(***************************************************************************)
EXTENDS Integers, Sequences, SequencesExt

CONSTANTS
  WordBits,             \* bits of a size (64)
  MaxBucketSize,        \* largest size served from buckets (two pages)
  PageSize,             \* PAGE_SIZE_BYTES
  GuaranteedAlignment,  \* NODECPP_GUARANTEED_IIBMALLOC_ALIGNMENT, which is
                        \* defined outside the repository
  FirstSize             \* bound: the largest size visited

VARIABLE sz

BucketCount == 64

(* 1 << n *)
Power[n \in 0 .. WordBits] == IF n = 0 THEN 1 ELSE 2 * Power[n - 1]

ALIGNMENT == 16
Alignments == {1, 2, 4, 8, 16, 32}

alignUp(n, unit) == ((n + unit - 1) \div unit) * unit

(* At the start of a chunk: its header of two words, or more if the macro  *)
(* wants more.                                                             *)
reservedSizeAtPageStart == Max({16, GuaranteedAlignment})

(* Bytes before the object in a chunk of pages. *)
memStart == alignUp(reservedSizeAtPageStart, ALIGNMENT)

(* The array of buckets is large enough: a power of two up to which all    *)
(* sizes served from it are, top, has an index (below,                     *)
(* sizeToIndex(Power[top]) is 2 * top - 6).                                *)
ASSUME SizesAssumption ==
  /\ WordBits \in Nat /\ WordBits >= 3
  /\ PageSize \in Nat \ {0} /\ MaxBucketSize = 2 * PageSize
  /\ GuaranteedAlignment \in Nat \ {0} /\ memStart <= PageSize
  /\ FirstSize \in Nat /\ FirstSize <= Power[WordBits]
  /\ \E top \in 0 .. WordBits :
       2 * top - 6 < BucketCount /\ MaxBucketSize <= Power[top]

indexToBucketSize(ix) ==
  alignUp(Power[(ix \div 2) + 3]
            + (IF ix % 2 = 1 THEN Power[(ix \div 2) + 2] ELSE 0), 8)

(* The position of the highest bit, as the loop at compile time finds it   *)
(* and as the instruction at run time defines it.                          *)
UpperNonZeroBitPos(n) ==
  LET down[bitpos \in 0 .. WordBits - 1] ==
        IF bitpos = 0 \/ (n \div Power[bitpos]) % 2 = 1 THEN bitpos
                                                     ELSE down[bitpos - 1]
  IN  down[WordBits - 1]

BitScanReverse(n) ==
  CHOOSE bitpos \in 0 .. WordBits - 1 :
    Power[bitpos] <= n /\ n < Power[bitpos + 1]

(* The class of sizes whose highest bit, after subtracting 1, is ix. *)
HalfExpIndex(n, ix) ==
  ((ix - 2) * 2 + (((n - 1) \div Power[ix - 1]) % 2) - 1) % 256

(* A mistaken class that does not subtract 1 first. *)
sizeToIndexUnshifted(n) ==
  IF n <= 8 THEN 0 ELSE HalfExpIndex(n + 1, BitScanReverse(n))

sizeToIndex(n) ==
  IF n <= 8 THEN 0 ELSE HalfExpIndex(n, BitScanReverse(n - 1))

(* A mistaken class at compile time that does not subtract 1 first. *)
sizeToIndexConstexprUnshifted(n) ==
  IF n <= 8 THEN 0 ELSE HalfExpIndex(n, UpperNonZeroBitPos(n))

sizeToIndexConstexpr(n) ==
  IF n <= 8 THEN 0 ELSE HalfExpIndex(n, UpperNonZeroBitPos(n - 1))

(* A mistaken request that forgets the bytes before the object. *)
ChunkRequestBare(n) == n

(* What a request that is too large for a bucket asks the bulk allocator   *)
(* for; it gets whole pages.                                               *)
ChunkRequest(n) == n + memStart

(* getAllocatedSize of what allocate(n) returns: the bucket's size, or the *)
(* pages of the chunk with the bytes before the object.                    *)
AllocatedSize(n) ==
  IF n <= MaxBucketSize THEN indexToBucketSize(sizeToIndex(n))
                        ELSE alignUp(ChunkRequest(n), PageSize)

(* allocateAligned<alignment>(n): the size it asks allocate for. *)
allocateAligned(n, alignment) ==
  CASE alignment <= 8 -> n
    [] alignment = 16 -> IF n > 24 THEN n ELSE 25
    [] alignment = 32 -> IF n > 48 THEN n ELSE 49

(* allocateAligned<n, alignment>(): the sizes of the allocations it makes, *)
(* of which the last one is returned.                                      *)
allocateAlignedConstexpr(n, alignment) ==
  (IF alignment <= 8 THEN <<n>> ELSE << >>)
    \o << CASE n > 16 /\ n <= 24 -> 32
            [] ~(n > 16 /\ n <= 24) /\ alignment <= 16 -> n
            [] alignment > 16 /\ n > 33 /\ n <= 48 -> 64
            [] OTHER -> n >>

SizesInit == sz = FirstSize

(* bucketIdxest<n> goes on with bucketIdxest<n - 1>. *)
SizesNext == sz > 1 /\ sz' = sz - 1

SizesSpec == SizesInit /\ [][SizesNext]_sz

-----------------------------------------------------------------------------
(* The assertion of bucketIdxest: code that knows the size at compile time *)
(* takes from the free list to which code that does not returns.           *)
CompileTimeAgrees == sizeToIndex(sz) = sizeToIndexConstexpr(sz)

(* A request gets the smallest bucket it fits in, its index is one the     *)
(* array has, and the size that getAllocatedSize later reads off the       *)
(* address belongs to that index.  What a request takes is, as the tests   *)
(* assert, at most twice what it asks for, but for the smallest.           *)
SmallestFit ==
  /\ sz <= MaxBucketSize =>
       LET ix == sizeToIndex(sz)
       IN  /\ ix < BucketCount
           /\ indexToBucketSize(ix) >= sz
           /\ \A j \in 0 .. ix - 1 :
                \/ indexToBucketSize(j) < sz
                \/ indexToBucketSize(j) = indexToBucketSize(ix)
  /\ sz >= 8 => AllocatedSize(sz) <= sz * 2

(* Objects start at the multiples of their bucket's size in a run of pages,*)
(* and objects of their own pages at memStart.                             *)
ObjectsAligned(n, alignment) ==
  IF n <= MaxBucketSize
    THEN indexToBucketSize(sizeToIndex(n)) % alignment = 0
    ELSE memStart % alignment = 0

(* The bytes from the address that allocate(n) returns to the end of the   *)
(* object or of its pages.                                                 *)
UsableSize(n) ==
  IF n <= MaxBucketSize THEN AllocatedSize(n) ELSE AllocatedSize(n) - memStart

(* The alignments that allocate(n) has to offer: all of them in a bucket,  *)
(* and ALIGNMENT and what the macro promises in pages of their own.        *)
AlignmentKept(n, alignment) ==
  \/ n <= MaxBucketSize
  \/ alignment <= ALIGNMENT
  \/ GuaranteedAlignment % alignment = 0

(* What allocateAligned, in both forms, returns has room for the object,   *)
(* and allocateAligned<alignment>(sz) chooses buckets of aligned objects.  *)
(* Objects in pages of their own are as aligned as ALIGNMENT and the macro *)
(* promise, which may be less.                                             *)
AlignedWithRoom ==
  \A alignment \in Alignments :
    /\ LET n == allocateAligned(sz, alignment)
       IN  /\ UsableSize(n) >= sz
           /\ AlignmentKept(n, alignment) => ObjectsAligned(n, alignment)
    /\ sz >= alignment =>
         UsableSize(Last(allocateAlignedConstexpr(sz, alignment))) >= sz

(* The assertion at the end of allocateAligned<alignment>(sz): the address *)
(* has the alignment, whatever the size.                                   *)
AlignedAtRunTime ==
  \A alignment \in Alignments :
    ObjectsAligned(allocateAligned(sz, alignment), alignment)

(* The assertion at the end of allocateAligned<sz, alignment>(): the same  *)
(* of the alignment when the size is known at compile time.                *)
AlignedAtCompileTime ==
  \A alignment \in Alignments :
    sz >= alignment =>
      ObjectsAligned(Last(allocateAlignedConstexpr(sz, alignment)), alignment)
=============================================================================
