# A TLA+ verification project for iibmalloc

iibmalloc is a memory allocator for message-passing programs: every thread (or
reactor) has an allocator of its own, objects are allocated and freed by the
thread that owns them, and nothing is locked. This directory models the
allocator in `src/src` and checks it with TLC; theorems about the models are
proved with TLAPS. `PROJECT.json` maps every definition that models code to the
lines it models.

## The system

| Component | State | Operations | Where |
|---|---|---|---|
| `SoundingAddressPageAllocator` | list of block descriptors (two counters per bucket), head descriptor per bucket | `getMultipage`, `getPage`, `createNextBlockAndGetPage`, `commitRangeOfPageIndexes`, `deinitialize`; pure: `addressToIdx`, `idxToPageAddr` | `iibmalloc.h:163-440` |
| `BulkAllocator` | chunk headers, free lists, recorded blocks | `allocate`, `deallocate`, `deinitialize`, `getAllocatedSize` | `iibmalloc.h:445-789` |
| `IibAllocatorBase` | a LIFO list of free objects per bucket | `allocate` (3 ways), `allocateAligned`, `deallocate`, `getAllocatedSize`, formatting of pages | `iibmalloc.h:795-1325` |
| `SafeIibAllocator` | lists and a map of zombies (objects freed but not yet reusable), allocator id | `zombieableAllocate`, `zombieableDeallocate`, `isPointerNotZombie`, `killAllZombies`, `initialize` | `iibmalloc.h:1344-1583` |
| `CollectionInPages` | items in pages linked in a list | `createNew`, `doForEach`, `deinitialize` | `iibmalloc.h:73-161` |
| `PageAllocatorWithCaching`, `MemoryBlockList`, `BlockStats` | cached free blocks by size in circular lists, statistics | `getFreeBlock`, `freeChunk`, their forms without cache, commit and reserve, `deinitialize` | `page_management.h:66-259, 341-491` |
| `PageAllocator` (proof of concept) | statistics | `getFreeBlock`, `freeChunk` | `page_management.h:262-334` |
| new/delete interception | the thread's current allocator | `operator new/delete`, `setCurrneAllocator` | `iibmalloc.cpp:53-203` |
| `foundation` | | virtual memory, assertions, logging | a git submodule, not in this repository |

How they interact: an object of up to two pages comes from a bucket; an empty
bucket asks the page allocator for a *multipage* of 8 pages and formats it. A
larger object is a chunk of the bulk allocator, at a fixed offset (`memStart`)
in its first page. A pointer tells which it is by its offset in the page, and
its bucket by some bits of the page's address: nothing is looked up. Both
allocators get blocks of 8 MB from the OS, which may put them anywhere and may
refuse; refused commits are only logged. Zombies are kept in lists of their own
until `killAllZombies`. The library's allocators get their blocks through
`PageAllocatorWithCaching` but use only its functions without cache. `new` and
`delete` go to the allocator that is current in the thread, or to `malloc` and
`free`; nothing remembers which one an object came from. Threads share the
counter of allocator ids, and memory where an object is deleted under another
allocator than it was made under.

What is hard in this code: addresses that carry meaning although the OS chooses
them; linked lists in the memory they manage; marks in one header that describe
a neighbour; errors of the OS that show later; long legal sequences of
allocations and deallocations; pointers whose origin nobody knows; and, for the
ids and for `new` and `delete`, interleaving. Inside one
allocator everything is sequential: the actions of the models are whole
operations, except where an operation can end half-done or overwrites what it walks along.

## The modules

| Module | Models |
|---|---|
| `PageAddress` | the arithmetic between a slot of a bucket and a page address |
| `PageSource` | abstract: a source of new pages |
| `SoundingPages` | `SoundingAddressPageAllocator`, one action per page |
| `PageAddressProofs`, `SoundingPagesProofs` | their theorems |
| `ChunkHeap` | abstract: a heap of chunks that do not overlap |
| `BulkAllocator`, `BulkAllocatorProofs` | `BulkAllocator`; theorems |
| `SizeClasses` | the size classes and the aligned allocations |
| `Buckets`, `BucketsProofs` | `IibAllocatorBase`, on top of the promises of the two allocators; theorems |
| `SafeZombies`, `SafeZombiesProofs` | `SafeIibAllocator`, extends `Buckets`; theorems |
| `Threads` | the set of threads, for the two modules about them |
| `AllocatorIds` | `SafeIibAllocator::initialize` and the shared counter |
| `PageCollection`, `PageCollectionProofs` | `CollectionInPages`, its loops step by step; theorems |
| `PageAllocator` | abstract: `PageAllocator`, blocks from the OS without cache |
| `PageCache`, `PageCacheProofs` | `PageAllocatorWithCaching` with its lists and statistics; theorems |
| `CurrentAllocator` | `new` and `delete` and the allocators they go to |
| `AllocatorProofs` | theorems about `AllocatorIds`, `CurrentAllocator` and `SizeClasses` |
| `MC*` | instances for TLC |

**SoundingPages.** Addresses are page numbers. `list` is the list of block
descriptors starting with the static one, whose counters look used up;
`indexHead` is a position in it. `getMultipage` opens a request, and each
`getPage` is a step of it, by the code's three branches: from the descriptor in
use, from the next of the list, or from a new block. A step includes the commit
of a further range when the last one is used up: one call for each run of
adjacent addresses, any subset of which the OS grants. The test write that ends
`getPage` faults if the page was not committed. `status` says how the process
ended. `handed` is what callers hold.

**BulkAllocator.** `chunk` holds the headers that the code keeps in the first
page of every chunk, by page number; `freeListBegin` the heads of the free
lists. Allocation by exact size, by a split of the first large chunk, from a new
block and directly from the OS are four actions; deallocation is a merge with
the chunk after, none, or the two dead ends in which the free marks are wrong.
Once a held chunk has been taken for a free one the process has either asserted
or gone on with corrupted lists; neither is followed.

**PageCollection.** Items are numbered by address, so that the first item of a
page is a multiple of the items per page, which is how `collectPageStarts` tells
it. `next` holds the links of all pages there are; a page that is freed leaves
it. `createNew` is one action with and one without a new page. `doForEach` and
`deinitialize` go item by item and page by page, since the second rebuilds the
links it follows: `pc` names the loop and `curr` is the code's local. `created`
is history.

**PageCache.** The list heads are negative numbers, blocks their first page;
`link` holds `next` and `prev` of both, updated by the code's own steps. Getting
a block from the cache, from the OS and being refused are actions, as are giving
it back to the cache and to the OS; `deinitialize` empties the cache one block at
a time. `allocRequest`, `deallocRequest`, `sysAlloc` and `sysDealloc` are the
sizes of `BlockStats`, modulo `Width`. `popBack` and `remove` of the list,
`DecommitMemory` and `FreeAddressSpace` are called by nothing and left out.

**CurrentAllocator.** A place is the memory of one object: a region, mapped for
one allocator or belonging to `malloc`, and the class the address sounds as. An
allocator is reduced to what matters between allocators: which regions it has,
which places were cut from them (`cut`) and which are in its free lists (`list`).
`delete` under an allocator puts the object into the list its address tells,
whoever made it. It is different for chunks, which lie in lists with their
neighbours: one of another allocator leaves both in a state that is not followed
("entangled"), as is a foreign pointer given to `free` ("aborted") and a region
unmapped while others use it ("dangling"). `by` in `held`, `mixed` and `strayed`
are history.

**Abstract specifications.** `PageSource` and `ChunkHeap` say what callers of an
allocator see: what they hold is never handed out again while they hold it. Both
count what was handed out (`given`, `out`), and so do the modules that implement
them, as history: a page or chunk handed out twice would not change the set of
those held, but it changes the count. `SoundingPages` implements `PageSource`;
`BulkAllocator` implements `ChunkHeap` with pages for places, `Buckets` with
bytes. `PageAllocator` is the code's own proof of concept, and `PageCache`
implements it: callers see the same blocks and, but for commits and
reservations, the same request statistics.

**Buckets.** Addresses are words. `next` holds the links the code keeps in the
first word of free objects, `buckets` the first object of every list. Formatting
a multipage and taking the first object is one action, as nothing can happen in
between; a cut multipage is formatted segment by segment, the second overwriting
the head of the first as in the code. Deallocation has two actions, by the
offset in the page, and takes the bucket from the address only. `live` (what
callers hold) and `made` (what was formatted) are history that no guard of the
allocator's own decisions reads. An exception from an allocator below passes
through before any change here.

**SafeZombies.** Extends `Buckets` with `zombieableDeallocate`, `killAllZombies`,
`doZombieEarlyDetection` and a second `initialize`. The zombies are linked in the
same `next`. The last zombie of a bucket has no link until the next one comes or
a kill links it to the bucket's list. A caller may free any object it holds
either way. `zombies` (what was freed since the last kill) and `gone` (the
zombies that kills have lost) are history.

**SizeClasses.** Pure functions; the state machine is the code's own
`bucketIdxest`, which visits the sizes one by one. It runs with the code's real
constants (and 15-bit words, since the sizes visited are below 2^15). The one
constant that is not the repository's own is
`NODECPP_GUARANTEED_IIBMALLOC_ALIGNMENT`, a macro: `GuaranteedAlignment`, from
which `memStart` is computed as in the code. `ALIGNMENT` is 16, so `memStart` is
16 unless the macro is larger. Alignments go up to 32; larger ones exist only if
`NODECPP_MAX_SUPPORTED_ALIGNMENT_FOR_NEW`, also defined elsewhere, is larger,
and are not covered.

**AllocatorIds.** Each thread steps through `initialize`'s accesses to the
counter: increment, check, second increment, load. `ticks`, `from` and `issued`
are history.

## The runs

| Run | Question | Bounds |
|---|---|---|
| `sounding_pages` | is every page handed out once, to the bucket its address says, after its commit was asked for, in at most two segments? | 2 buckets of 16 pages per block, commits of 8, requests of 4 (the code: 64, 32, 16, 8); 3 blocks, whose places cut a bucket nowhere, at a request's edge and inside a request |
| `bulk_allocator` | do links, lists and marks stay consistent, and do callers see a heap of disjoint chunks? | blocks of 5 pages, chunks of up to 2 (the code: 2048, 32), two adjacent blocks; an oversize chunk, also where blocks may be (but never twice in use, as the OS gives no page twice): splits with a large, a small and no remainder, merges, lists with several chunks |
| `bulk_removed` | an assertion of the code that its own steps violate (below) | the same |
| `buckets` | are the free lists sound, are pointers routed home by their address alone, what is lost, and do callers see objects that never overlap? | pages of 8 words, the forbidden offset 1 (the code: 4096 bytes, 16 or 32); objects of 3 words, one of which would lie at the forbidden offset, and of 6, across pages; one block cuts bucket 0, another bucket 1; chunks of up to 2 pages. A segment too short for one object needs larger multipages than TLC can explore beside small objects: that case is covered by the theorems `ObjectsFitHold` and `NeverStopsHold` |
| `safe_zombies` | is freed memory kept until a kill, is the zombie test right, what does a kill return? | 3 and 2 objects of two buckets, 2 chunks of one page, the second next to a bucket's page; one `initialize` in use |
| `size_classes` | do the classes agree, fit and waste little, and have aligned requests room and alignment? | every size from 1 to 12300, the code's constants, the macro 16 |
| `size_aligned`, `size_chunk` | two assertions about alignment that the code violates (below) | the same; the macro 32 in the first, 16 in the second |
| `page_collection` | is every item given once and every page returned once, and does every loop end? | 4 pages of 3 items, at any of 4 places: first, middle and last items, full and begun pages |
| `page_cache` | do lists, counts and headers agree, are the limits kept, what do the statistics mean, and do callers notice the cache? | 4 adjacent pages, blocks of 1 to 3, cached up to size 2: two of one page, one of two (the code: 20 sizes, 32 and 4), statistics modulo 4 |
| `current_allocator` | which deletes under another allocator do harm? | 2 threads, 2 allocators, 2 regions, one bucket class and the chunks; memory of `malloc` that sounds as either; 4 objects at a time |
| `allocator_ids` | ids under interleaving | 3 threads, 4 ids, 7 increments: the counter goes round |

Fairness is assumed in one place: `PageCollection` has `WF_vars(Loop)`, weak
fairness of the steps inside a loop, because a thread that has entered a loop of
the code goes on with it; nothing makes a caller call an operation.
`LoopsEnd` then says that no list is ever a circle. The rest of the code has no
background work and waits for nothing, so the other properties are about safety.
`CHECK_DEADLOCK` is off where the process may end (a fault, a failed assertion,
memory in the wrong hands) or a bound stops it.

### What the violations show

* `bulk_removed`: a chunk allocated from the list of its exact size keeps its
  free mark. If the chunk before it is freed while it is held, it is merged:
  the assertion of `removeFromFreeList` fails, or held memory is handed out
  again. It takes the tail of a block to be cut to at most 32 pages, then
  allocated whole, and then its predecessor freed. `CalmNeverFails` shows that
  nothing of the kind happens before such a remainder exists.
* `size_aligned`: `allocateAligned<33, 32>()` returns an object of the 48-byte
  bucket; the test in the code says `sz > 33` where the class starts at 33. It is in no
  chunk, so a macro of 32 does not help.
* `size_chunk`: with the macro at 16, `allocateAligned<32>(sz)` of more than two
  pages returns the start of a page plus `memStart`, 16, which is not a multiple
  of 32, against the assertion at the end of the function. With the macro at 32
  the assertion holds. `AlignedWithRoom` therefore claims for chunks no more
  than `ALIGNMENT` and the macro promise.

### What the passing runs show besides

Six properties hold in a form that says what the code gives up:

* `FlagOnlyAtTail`: a chunk freed without a merge is linked into its list but
  not marked free, so that holes in a block never merge with each other. The
  validation `dbgValidateFreeList`, which is called by nothing unless debug code
  is switched on, asserts the mark (`curr->isFree()`) of every chunk in a list.
* `LostOnlyWhenCut`: when a multipage is cut in two, the objects of its first
  segment are lost: `formatAllocatedPageAlignedBlock` sets the head of the list
  to the second segment without linking the first. Nothing else is ever lost in
  `Buckets`.
* `KillReturnsAllButFirst`: `killAllZombies` starts the bucket's list with what
  the first zombie is linked to, so that the first zombie of every bucket is
  lost with every kill. What `initialize` has dropped is lost too.
* `FalseAlarmOnlyAfterChunk`: `getAllocatedSize` gives a chunk all its pages,
  although the object starts `memForbidden` bytes into them. If the next page
  belongs to a bucket, a live object there is taken for a zombie in its first
  `memForbidden` bytes. There is no other false alarm, and `NoZombieMissed` says
  that no zombie is missed.
* `MemorySound`: an object of a bucket may be deleted under another allocator,
  which from then on uses it for its own. No memory ever has two users by that.
  What it costs is that the allocator it came from must live as long as the
  other: when it is destroyed, its regions go, with whatever the other has
  there. Memory of `malloc` deleted under an allocator is taken for an object of
  the class its address happens to sound as, which may be larger than it is;
  this is the one way an object gets too little room. `DisciplineSuffices` says
  that all the bad ends need such a delete, or a destroyed current allocator.
* `StatsBalance`: the difference `printStats` prints is not the memory in use:
  calls the OS refused count as received, and reservations count only when they
  are given back, so the unsigned difference may wrap.

## The proofs

`PageAddressProofs` proves for every number of buckets, pages per bucket and
place of the block that the page of a slot lies in the block, sounds as its
bucket, and that different slots have different pages.

`SoundingPagesProofs` proves all properties of the
`sounding_pages` run for all constants that satisfy the modules' assumptions
(commit ranges and requests divide a bucket; a request has two pages or more).
The inductive invariant `IInv` strengthens the properties by: blocks in the list
are apart (so an address has one descriptor); each bucket's counters satisfy
`nextToUse <= nextToCommit <= PagesPerBucket` and the second one is a whole
number of ranges (so a commit stays in its bucket); unless a commit was refused,
what lies below `nextToCommit` is committed; a bucket has used up all blocks
before its head and touched none after it; and the number of pages used minus
those of a request in progress is a whole number of requests (so a request never
runs from one block into the next, which is why an exception in the middle of
one loses nothing). `SegmentsAreHanded` needs an invariant of its own beside it,
`SegmentsInv`: the pages a request has collected so far are consecutive slots of
one block, whose counter stands behind the last of them, and the two runs are
what `idxToPageAddr` makes of these slots before and after the cut. That there
are at most two runs is a fact about one bucket in one block
(`SlotPages` in `PageAddressProofs`). `ImplementsPageSource` is the refinement: by
`PageAddressInjective` and disjoint blocks the page taken is held by nobody.

`AllocatorProofs` proves, from `IdsIInv`, the three properties of the ids for any
number of threads: the counter is the number of increments modulo the number of ids; a
thread about to load has either seen the counter move since it began or knows
it is not 0.

It proves as well `TypeOK`, `MemorySound` and `DisciplineSuffices` of
`CurrentAllocator` for any number of threads, allocators, regions and classes.
`IInv` adds to them
that nobody has the lists or objects of a destroyed allocator (so that what a
destructor unmaps without harm is used by nobody), that what was cut is mapped,
that without strayed memory of `malloc` the lists hold places of regions only
(so that the class tells the room), and that without misuse every place is at
the allocator that made it (so that no bad end is reachable). Only
`RegionAssumption`, `NoneAssumption` and `ClassAssumption` are used.

And it proves the three properties of the `size_classes` run for words of any
width, pages of any size and sizes without bound but the word's.
`SizesAssumption` says only what the code fixes: buckets serve up to two pages,
64 of them reach that far, and what precedes an object in a chunk (`memStart`,
computed from the macro) is at most a page. The macro may have any value: a
chunk's object is aligned to 16 whatever it is (`MemStartFacts`), and to 32 if
the macro is a multiple of it, which is what `AlignedRequests` says. Powers of two are the recursive function `Power`, for
the provers know of none but literal ones; that it, and the loop of
`UpperNonZeroBitPos`, have a value at all is `RecursionUpTo`, and what they do
is shown by induction over a set of numbers (`UpTo`). `ScanFindsBit` and
`LoopFindsBit` say that the instruction and the loop find the same bit, the one
highest bit there is. From it `ClassOf` places a size between two neighbouring
powers, `P` being the lower one's half: up to `3 * P` it has the odd class,
above it the even one. The rounding in `indexToBucketSize` matters in one place
only, the class of 12 bytes, which becomes 16 and so the same as the next;
`SmallestFit` allows for it.

`PageCollectionProofs` proves `ItemsSound` and `PagesReturned` for items of any
size and pages at any addresses. `IInv` says where a loop stands by a position
in `created`: what lies before it has been collected, what lies after it is
still linked as it was. The list of page starts is described by what each link
leads to, the last page start before it (`IsStartBefore`), so no path has to be
followed. A page never begins with a free item, because the item that makes a
new page necessary is taken from it at once; that is why the walk over the used
items alone meets every page.

`BulkAllocatorProofs` proves all properties of the `bulk_allocator` run, with
`ImplementsChunkHeap`, for blocks and chunk limits of any size. `IInv` looks at
the headers twice. As chunks of blocks (`ChunksInv`): each starts where the one
before it in its block ends, and only the last of a block may be marked free or
be larger than `MaxPages`; that is why split and merge do no harm although
neither tells the chunk that follows where its neighbour now starts. As members
of lists (`ListsInv`): the links of free chunks agree both ways and no set of
them is closed under the links back (`Circle`). Both are stated for arbitrary
headers, because one operation changes the headers several times, and the
lemmas `PopFree`, `PushFree`, `RemoveFromFreeList`, `Split` and `MergeNext`
follow the code's own steps from one state of the headers to the next. While
`calm` holds no small chunk is marked free (`HeldInv`), so the two dead ends of
`deallocate` are not reached.

`BucketsProofs` proves all properties of the `buckets` run, with
`ImplementsObjectHeap`, for every table of object sizes and every place of the
blocks that satisfy the assumptions. First come facts about one multipage: an
object that the format links lies inside its segment, not at `memForbidden`,
and apart from the others (`ItemRoom`, `GoodChain`); the objects of different
multipages are apart, since slots have different pages. `IInv` then says: the
objects of the multipages taken are free or with a caller, never both
(`PartedInv`); the links lead from free objects to free objects of the same
bucket, no two to the same one, and never in a circle; every free object but
the lost ones is the first of its bucket or linked to (`FreeInv`); what is lost
lies in the first segment of a cut multipage; and the sizes callers got are
those the address tells (`SizesInv`). The recursion `InOrder`, which follows a
list in `ListsSound`, is never induced over: that a list of every length exists
(`OrderExists`) and that all free objects are in it (`ListedByAll`) follow from
the least counterexample and, for the end, from counting the finitely many free
objects. The same argument serves the free lists of `BulkAllocator`
(`AllReached`).

`SafeZombiesProofs` proves all properties of the `safe_zombies` run, the action
property `KillReturnsAllButFirst` among them, for any number of buckets, zombies
and calls of `initialize`. It uses `BucketsProofs` twice over. To the free lists
a zombie, and one that a kill has lost, is an object that somebody still holds:
`Base` is `BucketsProofs` with `Held` (live, zombie or lost) for the objects
held, and the links of free objects only. `zombieableDeallocate` changes nothing
of `Base` (`ZombieHeld`), every step of `Buckets` is one of `Base` too
(`BaseStep`, `BucketsKeep`), and so its invariant is kept (`BaseKeeps`). Beside
it stands what is true of the zombies. `ChainsInv`: those of a bucket form one
chain from the first to the last, whose own link may be anything left there
before; chunks form one that ends in null; neither is ever a circle. `MapInv`:
an entry of the map is the zombie's size, and `memForbidden` more for a chunk.
For the kill, `Splice` shows that a chain put before a free list gives a sound
free list with nothing lost but the chain's first, and `AllReached` and
`ChunksFound` that the loop over the chunks meets all of them. `NoZombieMissed`
and `FalseAlarmOnlyAfterChunk` then follow because the extents of held objects
are disjoint (`HeldSound`): the greatest zombie before an address is the only
one that can contain it.

The proof of `Buckets` needed one more assumption than the model: a page is a
multiple of `2 * memForbidden` (4096 of 32 or 64). The format asks only whether
`size % (2 * memForbidden)` is 0 before it skips the test for the forbidden
offset; that is right only if the pages are multiples of it as well.

`PageCacheProofs` proves all properties of the `page_cache` run for any limits,
places, sizes and width of the statistics. Of the lists (`ListsInv`) the
invariant says that every head and every kept block is linked both ways to
nodes of its own list and that no set of kept blocks is closed under the links
back; the heads need no order of their own, for their indexes differ. `Pushed`
and `Removed` show that `listInsertNext` and `removeFromList` keep this for any
links, which also covers `freeNextCached`, where the block's header goes with
its pages. The counts are the numbers of kept blocks of each size (`CountsInv`),
so a list counted as not empty begins with one of them (`FrontIsKept`). `Chain`,
which walks a list from its head, meets all of it: a node met twice has come
round the list, and until then each link brings a new one (`RingWalked`).
`MappedInv` says that the extents of blocks, of blocks without cache and of
reservations are apart and are together what is mapped; with it `Balanced`, the
equation of `StatsBalance` modulo `Width`, is kept by counting pages.
`ImplementsPageAllocator` is the refinement: a block from the cache overlaps
nothing that users hold because its extent, kept or held, was apart from all
others since the OS mapped it.

Model-checked only: `LoopsEnd`, a liveness property; fairness and `ENABLED` are
out of the prover's reach.

## Not modelled

Outside: `foundation` (virtual memory, assertions, logging), whose calls the
models let succeed or fail; the test drivers; `StdRawAllocator`, which serves
aligned requests without an allocator; the alternative size classes, which are
not compiled in. Sizes near 2^64, which wrap to 0 pages, and `new[]` of size 0,
which passes 0 to `malloc`, are not modelled. Address and size helpers are part
of the modules that use them.
