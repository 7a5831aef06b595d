------------------------------ MODULE Buckets ------------------------------
(***************************************************************************)
(* IibAllocatorBase: every bucket keeps its free objects in a list linked  *)
(* through their first words.  An empty bucket formats a multipage of the  *)
(* page allocator into objects; requests too large for a bucket are chunks *)
(* of the bulk allocator.  Nothing but its address tells where a pointer   *)
(* goes when it is freed: an object of a chunk lies at offset memForbidden *)
(* of a page, where no object of a bucket may lie, and the bucket of any   *)
(* other follows from its page.                                            *)
(*                                                                         *)
(* The two allocators below are taken by their promises (PageSource and    *)
(* ChunkHeap).  A multipage is a run of slots of a bucket in a block, so   *)
(* it is cut in two where idxToPageAddr cuts it.  An exception from below  *)
(* leaves before anything here has changed, and is not a step.             *)
(***************************************************************************)
EXTENDS PageAddress, FiniteSets

CONSTANTS
  PageSize,          \* PAGE_SIZE_BYTES
  memForbidden,      \* offset of the object in a chunk's first page
  BucketSize,        \* indexToBucketSize, as a function of the index
  MultipagePageCnt,  \* pages of a multipage
  Bases,             \* pages the OS places blocks of the page allocator at
  LargePages,        \* pages the bulk allocator has
  MaxLargePages      \* bound: the longest chunk, in pages

ASSUME PageSizeAssumption ==
  /\ PageSize \in Nat \ {0} /\ memForbidden \in 1 .. PageSize - 1
  /\ PageSize % (2 * memForbidden) = 0
  /\ MaxLargePages \in Nat
ASSUME MultipageAssumption ==
  MultipagePageCnt \in Nat \ {0} /\ PagesPerBucket % MultipagePageCnt = 0
\* An object needs room for a link, half a multipage has room for the
\* largest object, and the sizes memForbidden is no hazard for aside, two
\* objects fit in a page after it.
ASSUME BucketSizeAssumption ==
  /\ BucketSize \in [Idx -> Nat \ {0}]
  /\ \A i \in Idx :
       /\ 2 * BucketSize[i] <= MultipagePageCnt * PageSize
       /\ \/ BucketSize[i] % (2 * memForbidden) = 0
          \/ 2 * BucketSize[i] <= PageSize - memForbidden
ASSUME PlacesAssumption ==
  /\ Bases \subseteq Nat /\ LargePages \subseteq Nat
  /\ \A b \in Bases : BlockPages(b) \intersect LargePages = {}
  /\ \A b, c \in Bases : b # c => BlockPages(b) \intersect BlockPages(c) = {}

VARIABLES
  buckets,  \* bucket -> address of its first free object
  next,     \* object -> the link in its first word, unless somebody holds it
  live,     \* object -> size, for those callers hold
  chunks,   \* first page -> pages, of the chunks out
  taken,    \* multipages got from the page allocator
  made,     \* history: bucket -> the objects formatted for it
  out,      \* history: objects given to callers less those given back
  status    \* "ok", or how the process ended

vars == <<buckets, next, live, chunks, taken, made, out, status>>

null == -1
Empty == [x \in {} |-> null]
Without(f, x) == [y \in DOMAIN f \ {x} |-> f[y]]
With(f, x, v) == [y \in DOMAIN f \union {x} |-> IF y = x THEN v ELSE f[y]]
Over(f, g) == [y \in DOMAIN f \union DOMAIN g |->
                 IF y \in DOMAIN f THEN f[y] ELSE g[y]]

Init ==
  /\ buckets = [i \in Idx |-> null]
  /\ next = Empty /\ live = Empty /\ chunks = Empty
  /\ taken = {}
  /\ made = [i \in Idx |-> {}]
  /\ out = 0
  /\ status = "ok"

-----------------------------------------------------------------------------
(* formatAllocatedPageAlignedBlock, for n pages from address start.  Sizes *)
(* whose multiples never lie at memForbidden need no care; of the others,  *)
(* an object that would lie there is left out of the list.                 *)
NoneNeedsCare(size) == FALSE  \* a mistake: memForbidden is not left out

NeedsCare(size) == size % (2 * memForbidden) # 0

(* A mistaken test of the object's own address instead of the next one's. *)
LinkLate(size, i) ==
  IF NeedsCare(size) /\ i % PageSize = memForbidden
    THEN i + 2 * size ELSE i + size

(* What the object at offset i is linked to. *)
Link(size, i) ==
  IF NeedsCare(size) /\ (i + size) % PageSize = memForbidden
    THEN i + 2 * size ELSE i + size

Items(size, n) ==
  LET itemCnt == (n * PageSize) \div size
  IN  {k * size : k \in {k \in 0 .. itemCnt - 1 :
         ~(NeedsCare(size) /\ k > 0 /\ (k * size) % PageSize = memForbidden)}}

(* A mistaken format that also makes an object of the bytes left over. *)
formatRounded(heap, idx, start, n) ==
  LET size    == BucketSize[idx]
      items   == Items(size, n) \union {((n * PageSize) \div size) * size}
      last    == ((n * PageSize) \div size) * size
      written == [a \in {start + i : i \in items} |->
                    IF a = start + last THEN null
                                        ELSE start + Link(size, a - start)]
  IN  [next |-> Over(written, heap.next),
       first |-> start,
       made |-> heap.made \union DOMAIN written]

(* A mistaken format that does not end the list. *)
formatUnended(heap, idx, start, n) ==
  LET size    == BucketSize[idx]
      written == [a \in {start + i : i \in Items(size, n)} |->
                    start + Link(size, a - start)]
  IN  IF (n * PageSize) \div size = 0
        THEN heap
        ELSE [next |-> Over(written, heap.next),
              first |-> start,
              made |-> heap.made \union DOMAIN written]

format(heap, idx, start, n) ==
  LET size    == BucketSize[idx]
      items   == Items(size, n)
      last    == ((n * PageSize) \div size - 1) * size
      written == [a \in {start + i : i \in items} |->
                    IF a = start + last THEN null
                                        ELSE start + Link(size, a - start)]
  IN  IF (n * PageSize) \div size = 0
        THEN heap
        ELSE [next |-> Over(written, heap.next),
              first |-> start,
              made |-> heap.made \union DOMAIN written]

(* The multipage of the slots from slot on: its first segment, and the     *)
(* second one if the bucket is cut between them.                           *)
Multipages(idx) ==
  {[block |-> b, idx |-> idx, slot |-> s] :
     b \in Bases,
     s \in {s \in Slot : s % MultipagePageCnt = 0}}

Segments ==
  [m \in UNION {Multipages(i) : i \in Idx} |->
     LET page(k) == idxToPageAddr(m.block, m.idx, m.slot + k)
         sz1 == CHOOSE c \in 1 .. MultipagePageCnt :
                  /\ \A k \in 1 .. c - 1 : page(k) = page(0) + k
                  /\ c < MultipagePageCnt => page(c) # page(0) + c
     IN  [ptr1 |-> page(0) * PageSize, sz1 |-> sz1,
          ptr2 |-> IF sz1 = MultipagePageCnt THEN null ELSE page(sz1) * PageSize,
          sz2 |-> MultipagePageCnt - sz1]]

IsCut(m) == Segments[m].ptr2 # null

-----------------------------------------------------------------------------
Hold(ptr, size) == live' = With(live, ptr, size) /\ out' = out + 1
GiveUp(ptr) == live' = Without(live, ptr) /\ out' = out - 1

(* allocate: the first free object of the bucket. *)
allocate(idx) ==
  /\ status = "ok" /\ buckets[idx] # null
  /\ LET ret == buckets[idx]
     IN  /\ buckets' = [buckets EXCEPT ![idx] = next[ret]]
         /\ next' = Without(next, ret)
         /\ Hold(ret, BucketSize[idx])
  /\ UNCHANGED <<chunks, taken, made, status>>

(* What is in the bucket once both segments have been formatted. *)
Formatted(idx, m) ==
  LET s     == Segments[m]
      none  == [next |-> next, first |-> buckets[idx], made |-> made[idx]]
      heap1 == format(none, idx, s.ptr1, s.sz1)
  IN  IF IsCut(m) THEN format(heap1, idx, s.ptr2, s.sz2) ELSE heap1

(* A mistaken allocate that leaves the object in the bucket. *)
allocateInCaseNoFreeBucketKept(idx) ==
  /\ status = "ok" /\ buckets[idx] = null
  /\ \E m \in Multipages(idx) \ taken :
       LET heap == Formatted(idx, m)
       IN  /\ taken' = taken \union {m}
           /\ made' = [made EXCEPT ![idx] = heap.made]
           /\ buckets' = [buckets EXCEPT ![idx] = heap.first]
           /\ next' = heap.next
           /\ Hold(heap.first, BucketSize[idx])
  /\ UNCHANGED <<chunks, status>>

(* allocate, when the bucket is empty: format a multipage and take the     *)
(* first object.                                                           *)
allocateInCaseNoFreeBucket(idx) ==
  /\ status = "ok" /\ buckets[idx] = null
  /\ \E m \in Multipages(idx) \ taken :
       LET heap == Formatted(idx, m)
       IN  /\ taken' = taken \union {m}
           /\ made' = [made EXCEPT ![idx] = heap.made]
           /\ IF heap.first = null
                THEN status' = "nullRead" /\ UNCHANGED <<buckets, next, live, out>>
                ELSE /\ buckets' = [buckets EXCEPT ![idx] = heap.next[heap.first]]
                     /\ next' = Without(heap.next, heap.first)
                     /\ Hold(heap.first, BucketSize[idx])
                     /\ UNCHANGED status
  /\ UNCHANGED chunks

ChunkPages(p, n) == p .. p + n - 1

(* allocate: a chunk of n pages of its own. *)
allocateInCaseTooLargeForBucket(n) ==
  /\ status = "ok"
  /\ \E p \in LargePages :
       /\ ChunkPages(p, n) \subseteq LargePages
       /\ \A q \in DOMAIN chunks :
            ChunkPages(p, n) \intersect ChunkPages(q, chunks[q]) = {}
       /\ chunks' = With(chunks, p, n)
       /\ Hold(p * PageSize + memForbidden, n * PageSize - memForbidden)
  /\ UNCHANGED <<buckets, next, taken, made, status>>

getOffsetInPage(ptr) == ptr % PageSize
ptrToPageStart(ptr) == ptr \div PageSize

(* A mistaken deallocate that forgets the rest of the list. *)
deallocateToBucketAlone(ptr) ==
  /\ status = "ok"
  /\ getOffsetInPage(ptr) # memForbidden
  /\ LET idx == addressToIdx(ptrToPageStart(ptr))
     IN  /\ next' = With(next, ptr, null)
         /\ buckets' = [buckets EXCEPT ![idx] = ptr]
  /\ GiveUp(ptr)
  /\ UNCHANGED <<chunks, taken, made, status>>

(* deallocate: the object becomes the first of the bucket its address      *)
(* sounds as.                                                              *)
deallocateToBucket(ptr) ==
  /\ status = "ok"
  /\ getOffsetInPage(ptr) # memForbidden
  /\ LET idx == addressToIdx(ptrToPageStart(ptr))
     IN  /\ next' = With(next, ptr, buckets[idx])
         /\ buckets' = [buckets EXCEPT ![idx] = ptr]
  /\ GiveUp(ptr)
  /\ UNCHANGED <<chunks, taken, made, status>>

(* deallocate: the chunk the object's page starts goes back.  If there is  *)
(* no such chunk, the bulk allocator reads a header that is none.          *)
deallocateChunk(ptr) ==
  /\ status = "ok"
  /\ getOffsetInPage(ptr) = memForbidden
  /\ IF ptrToPageStart(ptr) \in DOMAIN chunks
       THEN /\ chunks' = Without(chunks, ptrToPageStart(ptr))
            /\ GiveUp(ptr)
            /\ UNCHANGED status
       ELSE status' = "corrupted" /\ UNCHANGED <<chunks, live, out>>
  /\ UNCHANGED <<buckets, next, taken, made>>

Next ==
  \/ \E idx \in Idx : allocate(idx) \/ allocateInCaseNoFreeBucket(idx)
  \/ \E n \in 1 .. MaxLargePages : allocateInCaseTooLargeForBucket(n)
  \/ \E ptr \in DOMAIN live : deallocateToBucket(ptr) \/ deallocateChunk(ptr)

Spec == Init /\ [][Next]_vars
-----------------------------------------------------------------------------
Bytes(start, n) == start .. start + n - 1

(* The free objects of a bucket in the order of its list: the k-th, or     *)
(* null after the end.                                                     *)
InOrder(i) ==
  LET at[k \in 0 .. Cardinality(DOMAIN next)] ==
        IF k = 0 THEN buckets[i]
        ELSE LET before == at[k - 1]
             IN  IF before \in DOMAIN next THEN next[before] ELSE null
  IN  at

Listed(i) == LET at == InOrder(i) IN {at[k] : k \in DOMAIN at} \ {null}

(* Every variable has its shape; a bucket starts with an object made for   *)
(* it.                                                                     *)
TypeOK ==
  /\ \A i \in Idx : buckets[i] \in made[i] \union {null}
  /\ DOMAIN next \subseteq UNION {made[i] : i \in Idx}
  /\ \A ptr \in DOMAIN live : live[ptr] \in Nat \ {0}
  /\ \A p \in DOMAIN chunks : chunks[p] \in 1 .. MaxLargePages
  /\ taken \subseteq UNION {Multipages(i) : i \in Idx}
  /\ out \in Nat
  /\ status \in {"ok", "nullRead", "corrupted"}

(* Following a bucket's list from object to object, one meets only free    *)
(* objects of that bucket, and comes to the end: no object is met twice.   *)
ListsSound ==
  \A i \in Idx :
    /\ Listed(i) \subseteq made[i] \ DOMAIN live
    /\ InOrder(i)[Cardinality(DOMAIN next)] = null

(* An object is lost, neither in its bucket nor with a caller, only if it  *)
(* was in the first segment of a multipage cut in two: formatting the      *)
(* second segment forgets the first one.                                   *)
LostOnlyWhenCut ==
  \A i \in Idx : \A a \in made[i] \ (Listed(i) \union DOMAIN live) :
    \E m \in taken :
      /\ m.idx = i /\ IsCut(m)
      /\ a \in Bytes(Segments[m].ptr1, Segments[m].sz1 * PageSize)

(* Objects lie in the pages they were made of: the bytes at the end of a   *)
(* segment that are too few for an object are not used.                    *)
ObjectsFit ==
  \A i \in Idx : \A a \in made[i] : \E m \in taken :
    LET s == Segments[m]
    IN  /\ m.idx = i
        /\ \/ Bytes(a, BucketSize[i]) \subseteq Bytes(s.ptr1, s.sz1 * PageSize)
           \/ /\ IsCut(m)
              /\ Bytes(a, BucketSize[i]) \subseteq Bytes(s.ptr2, s.sz2 * PageSize)

(* What deallocate and getAllocatedSize read off a pointer is right: an    *)
(* object of a chunk is told from one of a bucket by its offset, and the   *)
(* address of the others tells the bucket whose size they have.            *)
RoutedHome ==
  \A ptr \in DOMAIN live :
    IF getOffsetInPage(ptr) = memForbidden
      THEN /\ ptrToPageStart(ptr) \in DOMAIN chunks
           /\ live[ptr] = chunks[ptrToPageStart(ptr)] * PageSize - memForbidden
      ELSE live[ptr] = BucketSize[addressToIdx(ptrToPageStart(ptr))]

(* No sequence of calls reads a link or a header that is none.             *)
NeverStops == status = "ok"

BucketPage == UNION {BlockPages(b) : b \in Bases}
Address == UNION {Bytes(p * PageSize, PageSize) : p \in BucketPage \union LargePages}

ObjectSize == {BucketSize[i] : i \in Idx}
                \union {n * PageSize - memForbidden : n \in 1 .. MaxLargePages}

AsHeap == INSTANCE ChunkHeap
            WITH Page <- Address, Size <- ObjectSize, held <- live

(* Callers see a heap of objects, counted in bytes, that never overlap and *)
(* never change size, whether they come from buckets or from chunks.       *)
IsObjectHeap == AsHeap!HeapSpec
=============================================================================
