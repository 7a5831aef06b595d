---------------------------- MODULE PageAddress ----------------------------
(***************************************************************************)
(* How SoundingAddressPageAllocator packs the bucket of an object into the *)
(* address of its page.  Addresses are page numbers (byte address divided  *)
(* by the page size).  Address space is seen as aligned regions of R pages,*)
(* R = BucketCnt * PagesPerBucket; within every region, the pages          *)
(* idx * PagesPerBucket .. + PagesPerBucket - 1 "sound" as bucket idx.  A  *)
(* reserved block has R pages but starts wherever the OS puts it, so the   *)
(* pages of one bucket may be cut in two: some of them lie in the region   *)
(* the block starts in, the others one region further.                     *)
(***************************************************************************)
EXTENDS Integers

CONSTANTS
  BucketCnt,       \* number of buckets the address distinguishes
  PagesPerBucket   \* pages of one bucket in one reserved block

ASSUME BucketCntAssumption == BucketCnt \in Nat \ {0}
ASSUME PagesPerBucketAssumption == PagesPerBucket \in Nat \ {0}

Idx == 0 .. BucketCnt - 1
Slot == 0 .. PagesPerBucket - 1

(* Pages in one reservation (reservation_size / PAGE_SIZE_BYTES). *)
ReservationPages == BucketCnt * PagesPerBucket

(* The bucket the page's address stands for. *)
addressToIdx(page) == (page % ReservationPages) \div PagesPerBucket

(* Where the slot of a bucket lies from the start of an aligned region. *)
SlotOffset(idx, slot) == idx * PagesPerBucket + slot

(* A mistaken idxToPageAddr that counts the buckets from the block's start. *)
idxToPageAddrFromStart(block, idx, slot) == block + SlotOffset(idx, slot)

(* A mistaken idxToPageAddr that forgets the half below the block's start. *)
idxToPageAddrNoWrap(block, idx, slot) ==
  (block \div ReservationPages) * ReservationPages + SlotOffset(idx, slot)

(* The page of the reserved block that is the slot-th one of bucket idx.   *)
(* A slot that would fall below the start of the block is taken one region *)
(* higher.                                                                 *)
idxToPageAddr(block, idx, slot) ==
  LET basePage   == (block \div ReservationPages) * ReservationPages
      baseOffset == block - basePage
      offset     == SlotOffset(idx, slot)
  IN  basePage + offset + IF offset < baseOffset THEN ReservationPages ELSE 0

(* The address space of the block: what the OS reserved. *)
BlockPages(block) == block .. block + ReservationPages - 1
=============================================================================
