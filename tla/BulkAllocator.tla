--------------------------- MODULE BulkAllocator ---------------------------
(***************************************************************************)
(* BulkAllocator: chunks of whole pages, cut from large blocks.  Every     *)
(* chunk starts with a header in its first page: links to its neighbours   *)
(* in the block, its page count, a free flag and, while it is free, the    *)
(* links of its free list.  There is one free list for each size up to     *)
(* max_pages and one for all larger chunks.  Requests above max_pages go   *)
(* to the OS one by one.                                                   *)
(*                                                                         *)
(* Addresses are page numbers.  Failing assertions end the process; what   *)
(* happens after a live chunk was taken for a free one is not followed.    *)
(***************************************************************************)
EXTENDS Integers, FiniteSets

CONSTANTS
  BlockPageCnt,   \* pages of a block (commited_block_size)
  MaxPages,       \* largest chunk cut from a block (max_pages)
  Places,         \* page numbers the OS may place a block at
  DirectPlaces,   \* page numbers the OS may place an oversize chunk at
  MaxRequest      \* bound: the largest request, in pages

ASSUME BlockPageCntAssumption == BlockPageCnt \in Nat /\ BlockPageCnt > MaxPages
ASSUME MaxPagesAssumption == MaxPages \in Nat \ {0}
ASSUME PlacesAssumption == Places \subseteq Nat /\ DirectPlaces \subseteq Nat
ASSUME MaxRequestAssumption == MaxRequest \in Nat

VARIABLES
  chunk,          \* first page -> header, for all chunks of all blocks
  freeListBegin,  \* index -> first chunk of the free list
  blocks,         \* blocks the allocator has recorded
  direct,         \* first page -> pages, of the oversize chunks
  live,           \* chunks of blocks that callers hold
  out,            \* history: chunks given to callers less those given back
  leaked,         \* blocks the OS gave and nobody recorded
  calm,           \* history: no split has left max_pages or less
  status          \* "ok", "asserted", or "corrupted"

vars == <<chunk, freeListBegin, blocks, direct, live, out, leaked, calm, status>>

null == -1
ListIdx == 0 .. MaxPages
Pages(p, n) == p .. p + n - 1
BlockExtent(b) == Pages(b, BlockPageCnt)
BlockPage == UNION {BlockExtent(b) : b \in Places}
BlockLink == BlockPage \union {null}

Header == [prev : BlockLink, next : BlockLink, pageCount : 1 .. BlockPageCnt,
           isFree : BOOLEAN, prevFree : BlockLink, nextFree : BlockLink]

(* The free list of a chunk of n pages. *)
freeListIdx(n) == IF n - 1 >= MaxPages THEN MaxPages ELSE n - 1

Free == DOMAIN chunk \ live

Init ==
  /\ chunk = [p \in {} |-> null]
  /\ freeListBegin = [i \in ListIdx |-> null]
  /\ blocks = {}
  /\ direct = [p \in {} |-> 0]
  /\ live = {}
  /\ out = 0
  /\ leaked = {}
  /\ calm = TRUE
  /\ status = "ok"

-----------------------------------------------------------------------------
(* The headers and list heads after a change, taken together. *)
Heap == [chunk |-> chunk, begin |-> freeListBegin]

(* The chunk becomes the first of its free list. *)
pushFree(h, p) ==
  LET i     == freeListIdx(h.chunk[p].pageCount)
      first == h.begin[i]
      linked == [h.chunk EXCEPT ![p].prevFree = null, ![p].nextFree = first]
  IN  [chunk |-> IF first = null THEN linked
                                 ELSE [linked EXCEPT ![first].prevFree = p],
       begin |-> [h.begin EXCEPT ![i] = p]]

(* A mistaken popFree that leaves the new first chunk its link back. *)
popFreeLinked(h, i) ==
  LET p == h.begin[i]
  IN  [chunk |-> [h.chunk EXCEPT ![p].prevFree = null, ![p].nextFree = null],
       begin |-> [h.begin EXCEPT ![i] = h.chunk[p].nextFree]]

(* The first chunk of a free list leaves it.  Its links are the caller's   *)
(* to overwrite from now on.                                               *)
popFree(h, i) ==
  LET p    == h.begin[i]
      next == h.chunk[p].nextFree
      cut  == [h.chunk EXCEPT ![p].prevFree = null, ![p].nextFree = null]
  IN  [chunk |-> IF next = null THEN cut
                                ELSE [cut EXCEPT ![next].prevFree = null],
       begin |-> [h.begin EXCEPT ![i] = next]]

(* removeFromFreeList for a chunk anywhere in its list. *)
removeFromFreeList(h, p) ==
  LET before == h.chunk[p].prevFree
      after  == h.chunk[p].nextFree
      i      == freeListIdx(h.chunk[p].pageCount)
  IN  [chunk |-> [q \in DOMAIN h.chunk |->
         CASE q = before -> [h.chunk[q] EXCEPT !.nextFree = after]
           [] q = after  -> [h.chunk[q] EXCEPT !.prevFree = before]
           [] OTHER      -> h.chunk[q]],
       begin |-> IF before = null THEN [h.begin EXCEPT ![i] = after]
                                  ELSE h.begin]

(* A mistaken split that leaves the free flag of the front set. *)
splitMarked(h, p, n) ==
  LET whole == h.chunk[p]
      rest  == p + n
      front == [whole EXCEPT !.next = rest, !.pageCount = n]
      back  == [prev |-> p, next |-> whole.next,
                pageCount |-> whole.pageCount - n, isFree |-> TRUE,
                prevFree |-> null, nextFree |-> null]
      cut   == [q \in DOMAIN h.chunk \union {rest} |->
                  CASE q = p -> front [] q = rest -> back [] OTHER -> h.chunk[q]]
  IN  pushFree([chunk |-> cut, begin |-> h.begin], rest)

(* The first n pages of chunk p become a chunk of their own, the rest a    *)
(* free one.  What follows in the block is not told.                       *)
split(h, p, n) ==
  LET whole == h.chunk[p]
      rest  == p + n
      front == [whole EXCEPT !.next = rest, !.pageCount = n, !.isFree = FALSE]
      back  == [prev |-> p, next |-> whole.next,
                pageCount |-> whole.pageCount - n, isFree |-> TRUE,
                prevFree |-> null, nextFree |-> null]
      cut   == [q \in DOMAIN h.chunk \union {rest} |->
                  CASE q = p -> front [] q = rest -> back [] OTHER -> h.chunk[q]]
  IN  pushFree([chunk |-> cut, begin |-> h.begin], rest)

(* Pages of the OS somebody has.  The OS gives no page twice. *)
Mapped == (UNION {BlockExtent(b) : b \in blocks \union leaked})
            \union (UNION {Pages(p, direct[p]) : p \in DOMAIN direct})

BlockPlaces == {b \in Places : BlockExtent(b) \intersect Mapped = {}}

SetHeap(h) == chunk' = h.chunk /\ freeListBegin' = h.begin

(* A chunk of a block passes to a caller, and comes back. *)
Hold(p) == live' = live \union {p} /\ out' = out + 1
GiveUp(p) == live' = live \ {p} /\ out' = out - 1

-----------------------------------------------------------------------------
(* A mistaken allocate that leaves the chunk in its free list. *)
allocateExactListed(n) ==
  /\ status = "ok" /\ n <= MaxPages
  /\ freeListBegin[n - 1] # null
  /\ Hold(freeListBegin[n - 1])
  /\ UNCHANGED <<chunk, freeListBegin, blocks, direct, leaked, calm, status>>

(* allocate: a free chunk of just this size.  Its free flag stays as it is. *)
allocateExact(n) ==
  LET i == n - 1
  IN  /\ status = "ok" /\ n <= MaxPages
      /\ freeListBegin[i] # null
      /\ SetHeap(popFree(Heap, i))
      /\ Hold(freeListBegin[i])
      /\ UNCHANGED <<blocks, direct, leaked, calm, status>>

(* The common end of the two ways to cut a chunk from a large one. *)
CutFirstLarge(h, n) ==
  LET p    == h.begin[MaxPages]
      rest == h.chunk[p].pageCount - n
  IN  /\ SetHeap(split(popFree(h, MaxPages), p, n))
      /\ Hold(p)
      /\ calm' = (calm /\ rest > MaxPages)

(* allocate: cut from the first large chunk. *)
allocateSplit(n) ==
  /\ status = "ok" /\ n <= MaxPages
  /\ freeListBegin[n - 1] = null
  /\ freeListBegin[MaxPages] # null
  /\ CutFirstLarge(Heap, n)
  /\ UNCHANGED <<blocks, direct, leaked, status>>

NoneLarge(n) ==
  /\ status = "ok" /\ n <= MaxPages
  /\ freeListBegin[n - 1] = null
  /\ freeListBegin[MaxPages] = null

(* A whole block as one free chunk. *)
WithBlock(h, b) ==
  [chunk |-> [q \in DOMAIN h.chunk \union {b} |->
     IF q = b THEN [prev |-> null, next |-> null, pageCount |-> BlockPageCnt,
                    isFree |-> TRUE, prevFree |-> null, nextFree |-> null]
              ELSE h.chunk[q]],
   begin |-> [h.begin EXCEPT ![MaxPages] = b]]

(* allocate: cut from a new block. *)
allocateFromNewBlock(n) ==
  /\ NoneLarge(n)
  /\ \E b \in BlockPlaces :
       /\ blocks' = blocks \union {b}
       /\ CutFirstLarge(WithBlock(Heap, b), n)
  /\ UNCHANGED <<direct, leaked, status>>

(* allocate: the OS gives a block, but there is no memory to record it in, *)
(* and bad_alloc leaves with nobody knowing the block.                     *)
blockLeaked(n) ==
  /\ NoneLarge(n)
  /\ \E b \in BlockPlaces : leaked' = leaked \union {b}
  /\ UNCHANGED <<chunk, freeListBegin, blocks, direct, live, out, calm, status>>

(* A mistaken allocate that takes max_pages for an oversize request. *)
allocateDirectInclusive(n) ==
  /\ status = "ok" /\ n >= MaxPages
  /\ \E p \in DirectPlaces :
       /\ Pages(p, n) \intersect Mapped = {}
       /\ direct' = [q \in DOMAIN direct \union {p} |->
                       IF q = p THEN n ELSE direct[q]]
  /\ out' = out + 1
  /\ UNCHANGED <<chunk, freeListBegin, blocks, live, leaked, calm, status>>

(* allocate: an oversize chunk of its own. *)
allocateDirect(n) ==
  /\ status = "ok" /\ n > MaxPages
  /\ \E p \in DirectPlaces :
       /\ Pages(p, n) \intersect Mapped = {}
       /\ direct' = [q \in DOMAIN direct \union {p} |->
                       IF q = p THEN n ELSE direct[q]]
  /\ out' = out + 1
  /\ UNCHANGED <<chunk, freeListBegin, blocks, live, leaked, calm, status>>

-----------------------------------------------------------------------------
PrevIsFree(p) ==
  chunk[p].prev # null /\ chunk[chunk[p].prev].isFree

NextIsFree(p) ==
  chunk[p].next # null /\ chunk[chunk[p].next].isFree

(* deallocate's two dead ends.  The chunk before is marked free: the        *)
(* assertion adds the size of the chunk before that one to its own address, *)
(* so it asks for a chunk that ends where p starts and is not p's           *)
(* neighbour, which no well linked block has.  Or the chunk after is marked *)
(* free but somebody holds it: removeFromFreeList finds no links in it and  *)
(* its assertion fails, or it follows what the holder has written there.    *)
MeetsWrongFlag(p) ==
  PrevIsFree(p) \/ (NextIsFree(p) /\ chunk[p].next \in live)

deallocateFails(p) ==
  /\ status = "ok" /\ p \in live
  /\ MeetsWrongFlag(p)
  /\ status' \in {"asserted", "corrupted"}
  /\ UNCHANGED <<chunk, freeListBegin, blocks, direct, live, out, leaked, calm>>

(* A mistaken merge that keeps the size of p. *)
MergedUnsized(h, p) ==
  LET next == h.chunk[p].next
      h1   == removeFromFreeList(h, next)
  IN  [chunk |-> [q \in DOMAIN h1.chunk \ {next} |->
         IF q = p THEN [h1.chunk[p] EXCEPT !.next = h1.chunk[next].next,
                                           !.isFree = TRUE]
                  ELSE h1.chunk[q]],
       begin |-> h1.begin]

(* deallocate: the free chunk after p becomes part of p. *)
Merged(h, p) ==
  LET next == h.chunk[p].next
      h1   == removeFromFreeList(h, next)
  IN  [chunk |-> [q \in DOMAIN h1.chunk \ {next} |->
         IF q = p THEN [h1.chunk[p] EXCEPT
                          !.next = h1.chunk[next].next,
                          !.pageCount = @ + h1.chunk[next].pageCount,
                          !.isFree = TRUE]
                  ELSE h1.chunk[q]],
       begin |-> h1.begin]

deallocateMerging(p) ==
  /\ status = "ok" /\ p \in live
  /\ ~MeetsWrongFlag(p) /\ NextIsFree(p)
  /\ SetHeap(pushFree(Merged(Heap, p), p))
  /\ GiveUp(p)
  /\ UNCHANGED <<blocks, direct, leaked, calm, status>>

(* A mistaken deallocate that marks the chunk, which allocate never clears. *)
deallocateAloneMarking(p) ==
  /\ status = "ok" /\ p \in live
  /\ ~MeetsWrongFlag(p) /\ ~NextIsFree(p)
  /\ SetHeap(pushFree([Heap EXCEPT !.chunk[p].isFree = TRUE], p))
  /\ GiveUp(p)
  /\ UNCHANGED <<blocks, direct, leaked, calm, status>>

(* deallocate: no neighbour is marked free, and p is not marked either. *)
deallocateAlone(p) ==
  /\ status = "ok" /\ p \in live
  /\ ~MeetsWrongFlag(p) /\ ~NextIsFree(p)
  /\ SetHeap(pushFree(Heap, p))
  /\ GiveUp(p)
  /\ UNCHANGED <<blocks, direct, leaked, calm, status>>

(* deallocate: an oversize chunk goes back to the OS. *)
deallocateDirect(p) ==
  /\ status = "ok" /\ p \in DOMAIN direct
  /\ direct' = [q \in DOMAIN direct \ {p} |-> direct[q]]
  /\ out' = out - 1
  /\ UNCHANGED <<chunk, freeListBegin, blocks, live, leaked, calm, status>>

(* All recorded blocks go back to the OS; oversize chunks still out and    *)
(* blocks nobody recorded stay behind.                                     *)
deinitialize ==
  /\ status = "ok"
  /\ chunk' = [p \in {} |-> null]
  /\ freeListBegin' = [i \in ListIdx |-> null]
  /\ blocks' = {} /\ live' = {} /\ calm' = TRUE
  /\ out' = Cardinality(DOMAIN direct)
  /\ UNCHANGED <<direct, leaked, status>>

allocate(n) ==
  \/ allocateExact(n)
  \/ allocateSplit(n)
  \/ allocateFromNewBlock(n)
  \/ blockLeaked(n)
  \/ allocateDirect(n)

deallocate(p) ==
  \/ deallocateFails(p)
  \/ deallocateMerging(p)
  \/ deallocateAlone(p)
  \/ deallocateDirect(p)

Next ==
  \/ \E n \in 1 .. MaxRequest : allocate(n)
  \/ \E p \in live \union DOMAIN direct : deallocate(p)
  \/ deinitialize

Spec == Init /\ [][Next]_vars

-----------------------------------------------------------------------------
(* Every variable has its shape. *)
TypeOK ==
  /\ DOMAIN chunk \subseteq BlockPage
  /\ \A p \in DOMAIN chunk : chunk[p] \in Header
  /\ freeListBegin \in [ListIdx -> BlockLink]
  /\ blocks \subseteq Places /\ leaked \subseteq Places
  /\ DOMAIN direct \subseteq DirectPlaces
  /\ \A p \in DOMAIN direct : direct[p] \in MaxPages + 1 .. MaxRequest
  /\ live \subseteq DOMAIN chunk /\ out \in Int
  /\ calm \in BOOLEAN
  /\ status \in {"ok", "asserted", "corrupted"}

(* dbgValidateBlock: the chunks of a block, followed by their links in     *)
(* either direction, are adjacent and make up the whole block, although    *)
(* split and merge never tell the chunk that follows.                      *)
ChunksTileBlocks ==
  /\ blocks \subseteq DOMAIN chunk
  /\ \A p \in DOMAIN chunk :
       LET c == chunk[p]
       IN  /\ c.next # null => /\ c.next = p + c.pageCount
                               /\ c.next \in DOMAIN chunk
                               /\ chunk[c.next].prev = p
           /\ c.next = null =>
                \E b \in blocks : p \in BlockExtent(b)
                                  /\ p + c.pageCount = b + BlockPageCnt
           /\ c.prev # null => c.prev \in DOMAIN chunk /\ chunk[c.prev].next = p
           /\ c.prev = null => p \in blocks

(* dbgValidateFreeList: a list holds free chunks of its size, linked both  *)
(* ways; and no free chunk is lost: following the lists from their heads   *)
(* reaches all of them.                                                    *)
FreeListsSound ==
  /\ \A i \in ListIdx :
       LET p == freeListBegin[i]
       IN  p # null => /\ p \in Free
                       /\ freeListIdx(chunk[p].pageCount) = i
                       /\ chunk[p].prevFree = null
  /\ \A p \in Free :
       LET c == chunk[p]
           i == freeListIdx(c.pageCount)
       IN  /\ c.prevFree = null => freeListBegin[i] = p
           /\ c.prevFree # null => /\ c.prevFree \in Free
                                   /\ chunk[c.prevFree].nextFree = p
           /\ c.nextFree # null => /\ c.nextFree \in Free
                                   /\ chunk[c.nextFree].prevFree = p
                                   /\ freeListIdx(chunk[c.nextFree].pageCount) = i
  /\ LET reach[k \in 0 .. Cardinality(Free)] ==
           IF k = 0 THEN {freeListBegin[i] : i \in ListIdx} \ {null}
           ELSE LET nearer == reach[k - 1]
                IN  nearer \union ({chunk[p].nextFree : p \in nearer} \ {null})
     IN  reach[Cardinality(Free)] = Free

(* Only the last chunk of a block is ever marked free: the flag is set on  *)
(* the remainder of a split and on what merged with it, and on nothing     *)
(* else.  So two marked chunks never meet, and the merge with the chunk    *)
(* before is never entered.  Free chunks elsewhere are in lists unmarked,  *)
(* although dbgValidateFreeList asserts "curr->isFree()" of each.          *)
FlagOnlyAtTail == \A p \in DOMAIN chunk : chunk[p].isFree => chunk[p].next = null

(* As long as no split leaves a remainder of max_pages or less, that is,   *)
(* as long as the last large chunk of a block is not used up, no sequence  *)
(* of allocations and deallocations ends in an assertion.                  *)
CalmNeverFails == calm => status = "ok"

Held == [p \in live \union DOMAIN direct |->
           IF p \in live THEN chunk[p].pageCount ELSE direct[p]]

ChunkPage == BlockPage \union DirectPlaces
ChunkSize == 1 .. MaxRequest

AsHeap == INSTANCE ChunkHeap
            WITH Page <- ChunkPage, Size <- ChunkSize, held <- Held

(* Callers see a heap of chunks that never overlap and never change size.  *)
IsChunkHeap == AsHeap!HeapSpec

(* The assertion in removeFromFreeList, "freeListBegin[idx] == item", never *)
(* fails.                                                                   *)
RemovedChunkIsListed == status # "asserted"
=============================================================================
