------------------------- MODULE PageAddressProofs -------------------------
(***************************************************************************)
(* The address arithmetic of idxToPageAddr, for every number of buckets,   *)
(* every number of pages per bucket and every place the OS may put a       *)
(* block.                                                                  *)
(***************************************************************************)
EXTENDS PageAddress, TLAPS

(* A number is its quotient and remainder. *)
LEMMA DivisionFacts ==
  ASSUME NEW n \in Nat, NEW r \in Nat, r > 0
  PROVE  /\ n \div r \in Nat
         /\ n % r \in Nat /\ n % r < r
         /\ n = (n \div r) * r + (n % r)
  BY SMT

(* Quotient and remainder are the only such pair. *)
LEMMA DivisionUnique ==
  ASSUME NEW q \in Nat, NEW o \in Nat, NEW r \in Nat, o < r
  PROVE  (q * r + o) % r = o /\ (q * r + o) \div r = q
<1> DEFINE n == q * r + o
<1>1. q * r \in Nat
  BY SMT
<1>2. n \in Int
  BY <1>1
<1>3. n = r * (n \div r) + (n % r) /\ 0 <= n % r /\ n % r < r
  BY <1>2, SMT
<1>4. n \div r = q
  BY <1>1, <1>2, <1>3, SMT
<1> QED
  BY <1>1, <1>2, <1>3, <1>4, SMT

(* The slots of all buckets fill one region. *)
LEMMA OffsetInRegion ==
  ASSUME NEW idx \in Idx, NEW slot \in Slot
  PROVE  /\ ReservationPages \in Nat /\ ReservationPages > 0
         /\ SlotOffset(idx, slot) \in 0 .. ReservationPages - 1
<1> USE BucketCntAssumption, PagesPerBucketAssumption
    DEF Idx, Slot, SlotOffset, ReservationPages
<1>1. idx \in Nat /\ slot \in Nat
      /\ idx + 1 <= BucketCnt /\ slot + 1 <= PagesPerBucket
  BY SMT
<1>2. (idx + 1) * PagesPerBucket <= BucketCnt * PagesPerBucket
  BY <1>1, SMT
<1>3. (idx + 1) * PagesPerBucket = idx * PagesPerBucket + PagesPerBucket
  BY <1>1, SMT
<1>4. idx * PagesPerBucket \in Nat /\ BucketCnt * PagesPerBucket \in Nat
  BY <1>1, SMT
<1> QED
  BY <1>1, <1>2, <1>3, <1>4, SMT

(* idxToPageAddr's own two assertions: the page sounds as its bucket and   *)
(* lies in the block; and it keeps the slot's offset in its region.        *)
THEOREM PageAddressCorrect ==
  ASSUME NEW block \in Nat, NEW idx \in Idx, NEW slot \in Slot
  PROVE  LET page == idxToPageAddr(block, idx, slot)
         IN  /\ page \in Nat
             /\ page \in BlockPages(block)
             /\ addressToIdx(page) = idx
             /\ page % ReservationPages = SlotOffset(idx, slot)
<1> DEFINE R == ReservationPages
           q == block \div R
           o == SlotOffset(idx, slot)
           a == idxToPageAddr(block, idx, slot)
<1>1. R \in Nat /\ R > 0 /\ o \in Nat /\ o < R
  BY OffsetInRegion, SMT
<1>2. q \in Nat /\ block = q * R + (block % R) /\ block % R \in Nat /\ block % R < R
  BY <1>1, DivisionFacts
<1> HIDE DEF o, q
<1>3. a = q * R + o + (IF o < block - q * R THEN R ELSE 0)
  BY DEF idxToPageAddr, o, q
<1> HIDE DEF a, R
<1>4. q * R \in Nat /\ (q + 1) * R = q * R + R
  BY <1>1, <1>2, SMT
<1>5. a \in block .. block + R - 1
  BY <1>1, <1>2, <1>3, <1>4, SMT
<1>6. a % R = o
  <2>1. CASE o < block - q * R
    <3>1. a = (q + 1) * R + o /\ q + 1 \in Nat
      BY <1>1, <1>2, <1>3, <1>4, <2>1, SMT
    <3> QED
      BY <3>1, <1>1, DivisionUnique
  <2>2. CASE ~(o < block - q * R)
    <3>1. a = q * R + o
      BY <1>1, <1>2, <1>3, <1>4, <2>2, SMT
    <3> QED
      BY <3>1, <1>1, <1>2, DivisionUnique
  <2> QED
    BY <2>1, <2>2
<1>7. o \div PagesPerBucket = idx
  BY DivisionUnique, PagesPerBucketAssumption DEF o, SlotOffset, Slot, Idx
<1>8. a \in Nat
  BY <1>1, <1>5
<1> QED
  BY <1>5, <1>6, <1>7, <1>8 DEF a, R, o, BlockPages, addressToIdx

(* Different slots of one block are different pages.                       *)
THEOREM PageAddressInjective ==
  ASSUME NEW block \in Nat,
         NEW i \in Idx, NEW j \in Idx, NEW k \in Slot, NEW l \in Slot,
         idxToPageAddr(block, i, k) = idxToPageAddr(block, j, l)
  PROVE  i = j /\ k = l
<1>1. i = j
  BY PageAddressCorrect
<1>2. SlotOffset(i, k) = SlotOffset(i, l)
  BY PageAddressCorrect, <1>1
<1>3. i * PagesPerBucket \in Nat /\ k \in Nat /\ l \in Nat
  BY PagesPerBucketAssumption, SMT DEF Idx, Slot
<1> QED
  BY <1>1, <1>2, <1>3, SMT DEF SlotOffset
(* The pages of one bucket of a block are two runs of adjacent pages at    *)
(* most: the slots up to a cut lie one region higher than those after it.  *)
LEMMA SlotPages ==
  ASSUME NEW block \in Nat, NEW idx \in Idx
  PROVE  \E base, cut \in Int :
           \A k \in Slot : idxToPageAddr(block, idx, k)
                            = base + k + IF k < cut THEN ReservationPages ELSE 0
<1> DEFINE basePage == (block \div ReservationPages) * ReservationPages
           base == basePage + idx * PagesPerBucket
           cut == block - base
<1>1. ReservationPages \in Nat /\ ReservationPages > 0
  BY BucketCntAssumption, PagesPerBucketAssumption, SMT DEF ReservationPages
<1>2. block \div ReservationPages \in Nat
  BY <1>1, DivisionFacts
<1>3. basePage \in Int /\ idx * PagesPerBucket \in Int
  BY <1>1, <1>2, PagesPerBucketAssumption, SMT DEF Idx
<1>4. \A k \in Slot : k \in Int
  BY DEF Slot
<1>5. \A k \in Slot :
        idxToPageAddr(block, idx, k)
          = basePage + (idx * PagesPerBucket + k)
              + IF idx * PagesPerBucket + k < block - basePage THEN ReservationPages ELSE 0
  BY DEF idxToPageAddr, SlotOffset
<1> HIDE DEF basePage
<1>6. base \in Int /\ cut \in Int
  BY <1>3
<1>7. ASSUME NEW k \in Slot
      PROVE  idxToPageAddr(block, idx, k)
               = base + k + IF k < cut THEN ReservationPages ELSE 0
  <2> DEFINE o == idx * PagesPerBucket
  <2>1. o \in Int /\ k \in Int /\ basePage \in Int
    BY <1>3, <1>4
  <2>2. idxToPageAddr(block, idx, k)
          = basePage + (o + k) + IF o + k < block - basePage THEN ReservationPages ELSE 0
    BY <1>5
  <2> HIDE DEF o
  <2>3. o + k < block - basePage <=> k < block - (basePage + o)
    BY <2>1
  <2>4. basePage + (o + k) = basePage + o + k
    BY <2>1
  <2> QED
    BY <2>2, <2>3, <2>4 DEF o
<1> QED
  BY <1>6, <1>7
=============================================================================
