----------------------------- MODULE PageCache -----------------------------
(***************************************************************************)
(* PageAllocatorWithCaching and MemoryBlockList: blocks given back are     *)
(* kept, up to a limit for each size, in circular doubly linked lists      *)
(* through the headers of the blocks themselves, and used for the next     *)
(* request of that size.  The allocators of the library call only the      *)
(* functions without cache, those for address space and deinitialize.      *)
(*                                                                         *)
(* Addresses are page numbers, sizes pages, the statistics are the sizes   *)
(* of BlockStats (each has a count that moves with it).                    *)
(***************************************************************************)
EXTENDS Integers, FiniteSets

CONSTANTS
  MaxCachedSize,        \* max_cached_size: smallest index not cached
  SinglePageCacheSize,  \* most blocks of one page kept
  MultiPageCacheSize,   \* most blocks kept of any other size
  Place,                \* page numbers the OS may place a block at
  Size,                 \* bound: sizes users ask for
  ReservationSize,      \* bound: the size of a reservation (one in the code)
  Width                 \* statistics are counted modulo this (2^64)

ASSUME LimitsAssumption ==
  /\ MaxCachedSize \in Nat \ {0}
  /\ SinglePageCacheSize \in Nat /\ MultiPageCacheSize \in Nat
ASSUME PlacesAssumption == Place \subseteq Nat \ {0} /\ Size \subseteq Nat \ {0}
ASSUME ReservationAssumption == ReservationSize \in Nat \ {0}
ASSUME WidthAssumption == Width \in Nat \ {0}

VARIABLES
  link,            \* node -> its neighbours, of the list heads and headers
  count,           \* index -> length of the list, as the code counts it
  size,            \* block -> size in its header, of getFreeBlock's blocks
  held,            \* block -> size asked for, of blocks got by getFreeBlock
  raw,             \* the same for getFreeBlockNoCache
  reserved,        \* the same for AllocateAddressSpace
  mapped,          \* pages the OS has mapped for the process
  allocRequest, deallocRequest, sysAlloc, sysDealloc,   \* stats
  refused,         \* history: pages the OS refused
  committed,       \* history: pages committed
  addressSpaceFreed,  \* history: pages of reservations given back
  deinitializing

stats == <<allocRequest, deallocRequest, sysAlloc, sysDealloc>>
history == <<refused, committed, addressSpaceFreed>>
lists == <<link, count, size>>
vars == <<link, count, size, held, raw, reserved, mapped, allocRequest,
          deallocRequest, sysAlloc, sysDealloc, refused, committed,
          addressSpaceFreed, deinitializing>>

(* Maps of blocks, and the counters, as in the allocator without cache. *)
Plain == INSTANCE PageAllocator
           WITH held <- [p \in DOMAIN held \union DOMAIN raw |->
                           IF p \in DOMAIN held THEN held[p] ELSE raw[p]],
                allocRequest <- (allocRequest - committed) % Width,
                deallocRequest <- (deallocRequest - addressSpaceFreed) % Width

null == 0
ListIdx == 0 .. MaxCachedSize
lst(ix) == -(ix + 1)
Heads == {lst(ix) : ix \in ListIdx}
Unlinked == [next |-> null, prev |-> null]

Init ==
  /\ link = [n \in Heads |-> [next |-> n, prev |-> n]]
  /\ count = [ix \in ListIdx |-> 0]
  /\ size = [p \in {} |-> 0]
  /\ held = [p \in {} |-> 0] /\ raw = held /\ reserved = held
  /\ mapped = {}
  /\ allocRequest = 0 /\ deallocRequest = 0
  /\ sysAlloc = 0 /\ sysDealloc = 0
  /\ refused = 0 /\ committed = 0 /\ addressSpaceFreed = 0
  /\ deinitializing = FALSE

-----------------------------------------------------------------------------
listInsertNext(links, this, other) ==
  [links EXCEPT ![other] = [next |-> links[this].next, prev |-> this],
                ![links[this].next].prev = other,
                ![this].next = other]

removeFromList(links, p) ==
  [links EXCEPT ![links[p].prev].next = links[p].next,
                ![links[p].next].prev = links[p].prev,
                ![p] = Unlinked]

front(ix) == link[lst(ix)].next

pushFront(ix, p) ==
  /\ link' = listInsertNext(link, lst(ix), p)
  /\ count' = [count EXCEPT ![ix] = @ + 1]

popFront(ix) ==
  /\ link' = removeFromList(link, front(ix))
  /\ count' = [count EXCEPT ![ix] = @ - 1]

(* VirtualMemory: the OS maps pages that are not in use. *)
OSAllocate(p, sz) ==
  /\ Plain!Extent(p, sz) \intersect mapped = {}
  /\ mapped' = mapped \union Plain!Extent(p, sz)

OSDeallocate(p, sz) == mapped' = mapped \ Plain!Extent(p, sz)

Count(total, sz) == Plain!Registered(total, sz)

-----------------------------------------------------------------------------
Cached(ix) == ix < MaxCachedSize /\ count[ix] # 0

(* A mistaken step that leaves the block in its list. *)
getFreeBlockCachedKept(sz) ==
  LET p == front(sz - 1)
  IN  /\ ~deinitializing
      /\ Cached(sz - 1)
      /\ held' = Plain!With(held, p, sz)
      /\ allocRequest' = Count(allocRequest, sz)
      /\ UNCHANGED <<lists, raw, reserved, mapped, deallocRequest, sysAlloc,
                     sysDealloc, history, deinitializing>>

(* getFreeBlock: the block given back last, of just this size. *)
getFreeBlockCached(sz) ==
  LET p == front(sz - 1)
  IN  /\ ~deinitializing
      /\ Cached(sz - 1)
      /\ popFront(sz - 1)
      /\ size' = [size EXCEPT ![p] = sz]
      /\ held' = Plain!With(held, p, sz)
      /\ allocRequest' = Count(allocRequest, sz)
      /\ UNCHANGED <<raw, reserved, mapped, deallocRequest, sysAlloc, sysDealloc,
                     history, deinitializing>>

(* A call to the OS is registered before the answer is looked at. *)
SysAlloc(sz) ==
  /\ allocRequest' = Count(allocRequest, sz)
  /\ sysAlloc' = Count(sysAlloc, sz)
  /\ UNCHANGED <<deallocRequest, sysDealloc>>

getFreeBlockFromOS(sz) ==
  /\ ~deinitializing
  /\ ~Cached(sz - 1)
  /\ SysAlloc(sz)
  /\ \E p \in Place :
       /\ OSAllocate(p, sz)
       /\ link' = [n \in DOMAIN link \union {p} |->
                     IF n = p THEN Unlinked ELSE link[n]]
       /\ size' = Plain!With(size, p, sz)
       /\ held' = Plain!With(held, p, sz)
  /\ UNCHANGED <<count, raw, reserved, history, deinitializing>>

getFreeBlockNoCache(sz) ==
  /\ ~deinitializing
  /\ SysAlloc(sz)
  /\ \E p \in Place : OSAllocate(p, sz) /\ raw' = Plain!With(raw, p, sz)
  /\ UNCHANGED <<lists, held, reserved, history, deinitializing>>

(* A mistaken step that registers the call only when it was granted. *)
getFreeBlockRefusedUnregistered(sz) ==
  /\ ~deinitializing
  /\ allocRequest' = Count(allocRequest, sz)
  /\ refused' = Count(refused, sz)
  /\ UNCHANGED <<lists, held, raw, reserved, mapped, deallocRequest, sysAlloc,
                 sysDealloc, committed, addressSpaceFreed, deinitializing>>

(* Either function when the OS refuses: bad_alloc. *)
getFreeBlockRefused(sz) ==
  /\ ~deinitializing
  /\ SysAlloc(sz)
  /\ refused' = Count(refused, sz)
  /\ UNCHANGED <<lists, held, raw, reserved, mapped, committed,
                 addressSpaceFreed, deinitializing>>

-----------------------------------------------------------------------------
(* A mistaken limit that keeps one size more than is looked for. *)
RoomInclusive(ix) ==
  IF ix = 0 THEN count[ix] < SinglePageCacheSize
            ELSE ix <= MaxCachedSize /\ count[ix] < MultiPageCacheSize

Room(ix) ==
  IF ix = 0 THEN count[ix] < SinglePageCacheSize
            ELSE ix < MaxCachedSize /\ count[ix] < MultiPageCacheSize

freeChunkKept(p) ==
  LET ix == size[p] - 1
  IN  /\ ~deinitializing
      /\ p \in DOMAIN held
      /\ Room(ix)
      /\ pushFront(ix, p)
      /\ held' = Plain!Without(held, p)
      /\ deallocRequest' = Count(deallocRequest, size[p])
      /\ UNCHANGED <<size, raw, reserved, mapped, allocRequest, sysAlloc,
                     sysDealloc, history, deinitializing>>

freeChunkToOS(p) ==
  /\ ~deinitializing
  /\ p \in DOMAIN held
  /\ ~Room(size[p] - 1)
  /\ OSDeallocate(p, size[p])
  /\ link' = Plain!Without(link, p)
  /\ size' = Plain!Without(size, p)
  /\ held' = Plain!Without(held, p)
  /\ deallocRequest' = Count(deallocRequest, size[p])
  /\ sysDealloc' = Count(sysDealloc, size[p])
  /\ UNCHANGED <<count, raw, reserved, allocRequest, sysAlloc, history,
                 deinitializing>>

SysDealloc(sz) ==
  /\ deallocRequest' = Count(deallocRequest, sz)
  /\ sysDealloc' = Count(sysDealloc, sz)
  /\ UNCHANGED <<allocRequest, sysAlloc>>

freeChunkNoCache(p) ==
  /\ ~deinitializing
  /\ p \in DOMAIN raw
  /\ OSDeallocate(p, raw[p])
  /\ raw' = Plain!Without(raw, p)
  /\ SysDealloc(raw[p])
  /\ UNCHANGED <<lists, held, reserved, history, deinitializing>>

(* A reservation is not registered when it is made, but registered when it *)
(* is given back, as SoundingAddressPageAllocator does.                    *)
freeAddressSpaceNoCache(p) ==
  /\ ~deinitializing
  /\ p \in DOMAIN reserved
  /\ OSDeallocate(p, reserved[p])
  /\ reserved' = Plain!Without(reserved, p)
  /\ SysDealloc(reserved[p])
  /\ addressSpaceFreed' = Count(addressSpaceFreed, reserved[p])
  /\ UNCHANGED <<lists, held, raw, refused, committed, deinitializing>>

AllocateAddressSpace ==
  /\ ~deinitializing
  /\ \E p \in Place : /\ OSAllocate(p, ReservationSize)
                      /\ reserved' = Plain!With(reserved, p, ReservationSize)
  /\ UNCHANGED <<lists, held, raw, stats, history, deinitializing>>

(* CommitMemory, granted or not, is a request but no call of its own. *)
CommitMemory(sz) ==
  /\ ~deinitializing
  /\ \E p \in DOMAIN reserved : sz <= reserved[p]
  /\ allocRequest' = Count(allocRequest, sz)
  /\ committed' = Count(committed, sz)
  /\ UNCHANGED <<lists, held, raw, reserved, mapped, deallocRequest, sysAlloc,
                 sysDealloc, refused, addressSpaceFreed, deinitializing>>

-----------------------------------------------------------------------------
deinitialize ==
  /\ ~deinitializing
  /\ deinitializing' = TRUE
  /\ UNCHANGED <<lists, held, raw, reserved, mapped, stats, history>>

(* The next block of the first list that is not empty. *)
freeNextCached ==
  \E ix \in ListIdx :
    LET p == front(ix)
    IN  /\ deinitializing
        /\ count[ix] # 0 /\ \A j \in 0 .. ix - 1 : count[j] = 0
        /\ link' = Plain!Without(removeFromList(link, p), p)
        /\ count' = [count EXCEPT ![ix] = @ - 1]
        /\ size' = Plain!Without(size, p)
        /\ OSDeallocate(p, size[p])
        /\ sysDealloc' = Count(sysDealloc, size[p])
        /\ UNCHANGED <<held, raw, reserved, allocRequest, deallocRequest,
                       sysAlloc, history, deinitializing>>

deinitializeEnds ==
  /\ deinitializing
  /\ \A ix \in ListIdx : count[ix] = 0
  /\ deinitializing' = FALSE
  /\ UNCHANGED <<lists, held, raw, reserved, mapped, stats, history>>

Next ==
  \/ \E sz \in Size :
       \/ getFreeBlockCached(sz)
       \/ getFreeBlockFromOS(sz)
       \/ getFreeBlockNoCache(sz)
       \/ getFreeBlockRefused(sz)
       \/ CommitMemory(sz)
  \/ \E p \in Place :
       \/ freeChunkKept(p)
       \/ freeChunkToOS(p)
       \/ freeChunkNoCache(p)
       \/ freeAddressSpaceNoCache(p)
  \/ AllocateAddressSpace
  \/ deinitialize
  \/ freeNextCached
  \/ deinitializeEnds

Spec == Init /\ [][Next]_vars

-----------------------------------------------------------------------------
Blocks == DOMAIN size
Node == Heads \union Place
Stat == 0 .. Width - 1

TypeOK ==
  /\ DOMAIN link = Heads \union Blocks /\ Blocks \subseteq Place
  /\ \A n \in DOMAIN link : /\ link[n].next \in Node \union {null}
                            /\ link[n].prev \in Node \union {null}
  /\ count \in [ListIdx -> Nat]
  /\ {allocRequest, deallocRequest, sysAlloc, sysDealloc} \subseteq Stat
  /\ {refused, committed, addressSpaceFreed} \subseteq Stat

(* The blocks of list ix, from its head on. *)
Chain(ix) ==
  LET walk[k \in 0 .. Cardinality(Blocks)] ==
        IF k = 0 THEN lst(ix)
        ELSE LET n == walk[k - 1] IN IF n = null THEN null ELSE link[n].next
  IN  {walk[k] : k \in 1 .. Cardinality(Blocks)} \ {null, lst(ix)}

(* The lists are circles linked both ways, each as long as it is counted   *)
(* and within its limit; they hold, each in the list of its size, exactly  *)
(* the blocks that nobody holds.  A block somebody holds is in no list, so *)
(* the assertion of listInsertNext cannot fail.                            *)
ListsSound ==
  /\ TypeOK
  /\ \A n \in DOMAIN link :
       IF n \in DOMAIN held THEN link[n] = Unlinked
       ELSE link[link[n].next].prev = n /\ link[link[n].prev].next = n
  /\ \A ix \in ListIdx :
       /\ Cardinality(Chain(ix)) = count[ix]
       /\ Chain(ix) = {p \in Blocks \ DOMAIN held : size[p] = ix + 1}
       /\ count[ix] <= CASE ix = 0 -> SinglePageCacheSize
                         [] ix \in 1 .. MaxCachedSize - 1 -> MultiPageCacheSize
                         [] OTHER -> 0

(* printStats' difference between what came from the OS and what went back *)
(* is what the process has mapped for blocks, held or kept, but for what   *)
(* the OS refused, which counts as received, and for reservations, which   *)
(* count only when they go back: the difference may well be negative, and  *)
(* printed modulo 2^64.                                                    *)
StatsBalance ==
  /\ mapped = Plain!Covered(size) \union Plain!Covered(raw)
                                  \union Plain!Covered(reserved)
  /\ (sysAlloc - sysDealloc) % Width =
       (Cardinality(mapped \ Plain!Covered(reserved)) + refused
          - addressSpaceFreed) % Width

(* Callers see PageAllocator, the allocator without cache: the same blocks *)
(* and, without commits and reservations, the same statistics.             *)
IsPageAllocator == Plain!PageAllocatorSpec
=============================================================================
