---------------------------- MODULE SafeZombies ----------------------------
(***************************************************************************)
(* SafeIibAllocator on top of Buckets: an object that is freed becomes a   *)
(* zombie, and its memory is not used again before killAllZombies.  The    *)
(* zombies of a bucket are linked through their first words from the first *)
(* to the last, those of chunks in a list of their own.  zombieMap keeps   *)
(* their extents, so that a pointer into a zombie can be recognised.       *)
(*                                                                         *)
(* Objects are named by the address of their prefix, where the links are.  *)
(* The memory of zombieMap itself is not modelled, and the caller honours  *)
(* the precondition of doZombieEarlyDetection.                             *)
(***************************************************************************)
EXTENDS Buckets, FiniteSetsExt

CONSTANT MaxRestarts  \* bound: calls of initialize on an allocator in use

ASSUME MaxRestartsAssumption == MaxRestarts \in Nat

VARIABLES
  zombieBucketsFirst,  \* bucket -> its first zombie
  zombieBucketsLast,   \* bucket -> its last zombie
  zombieLargeChunks,   \* the first zombie of the chunks
  zombieMap,           \* zombie -> size, as far as the test knows
  doZombieEarlyDetection,
  restarts,            \* history: calls of initialize
  zombies,             \* history: object -> its size, whether the test saw it
                       \* freed, the value of restarts then
  gone                 \* history: object -> size, for those that kills lost

zvars == <<zombieBucketsFirst, zombieBucketsLast, zombieLargeChunks, zombieMap,
           doZombieEarlyDetection, restarts, zombies, gone>>
allvars == <<vars, zvars>>

NoZombies == [i \in Idx |-> null]

SafeInit ==
  /\ Init
  /\ zombieBucketsFirst = NoZombies /\ zombieBucketsLast = NoZombies
  /\ zombieLargeChunks = null
  /\ zombieMap = Empty
  /\ doZombieEarlyDetection = TRUE
  /\ restarts = 0 /\ zombies = Empty /\ gone = Empty

-----------------------------------------------------------------------------
EmptyLists ==
  /\ zombieBucketsFirst' = NoZombies /\ zombieBucketsLast' = NoZombies
  /\ zombieLargeChunks' = null

(* A mistaken size that counts a prefix as if it were extra. *)
getAllocatedSizeWithPrefix(ptr) ==
  IF getOffsetInPage(ptr) = memForbidden
    THEN chunks[ptrToPageStart(ptr)] * PageSize
    ELSE BucketSize[addressToIdx(ptrToPageStart(ptr))] + 1

(* getAllocatedSize: for a chunk, all its pages, although the object does  *)
(* not start at the first one's start.                                     *)
getAllocatedSize(ptr) ==
  IF getOffsetInPage(ptr) = memForbidden
    THEN chunks[ptrToPageStart(ptr)] * PageSize
    ELSE BucketSize[addressToIdx(ptrToPageStart(ptr))]

(* A mistaken zombie list that is extended at its first element. *)
BecomesZombieOfFirst(idx, ptr) ==
  /\ next' = IF zombieBucketsFirst[idx] = null THEN next
             ELSE With(next, zombieBucketsFirst[idx], ptr)
  /\ zombieBucketsFirst' = [zombieBucketsFirst EXCEPT
       ![idx] = IF @ = null THEN ptr ELSE @]
  /\ zombieBucketsLast' = [zombieBucketsLast EXCEPT ![idx] = ptr]

(* The object becomes the last zombie of its bucket.  Its own first word   *)
(* is not written yet.                                                     *)
BecomesZombieOf(idx, ptr) ==
  /\ next' = IF zombieBucketsLast[idx] = null THEN next
             ELSE With(next, zombieBucketsLast[idx], ptr)
  /\ zombieBucketsFirst' = [zombieBucketsFirst EXCEPT
       ![idx] = IF @ = null THEN ptr ELSE @]
  /\ zombieBucketsLast' = [zombieBucketsLast EXCEPT ![idx] = ptr]

(* insert of a map keeps the entry there is. *)
Inserted(ptr) == Over(zombieMap, [p \in {ptr} |-> getAllocatedSize(p)])

(* A mistaken zombieableDeallocate that records a zombie only while there  *)
(* is no other.                                                            *)
RecordedOnce(ptr) ==
  zombieMap' = IF doZombieEarlyDetection /\ zombieMap = Empty
                 THEN Inserted(ptr) ELSE zombieMap

Recorded(ptr) ==
  zombieMap' = IF doZombieEarlyDetection
                 THEN Inserted(ptr) ELSE zombieMap

zombieableDeallocate(ptr) ==
  /\ status = "ok"
  /\ Recorded(ptr)
  /\ zombies' = With(zombies, ptr, [size |-> live[ptr],
                                    watched |-> doZombieEarlyDetection,
                                    at |-> restarts])
  /\ IF getOffsetInPage(ptr) # memForbidden
       THEN /\ BecomesZombieOf(addressToIdx(ptrToPageStart(ptr)), ptr)
            /\ UNCHANGED zombieLargeChunks
       ELSE /\ next' = With(next, ptr, zombieLargeChunks)
            /\ zombieLargeChunks' = ptr
            /\ UNCHANGED <<zombieBucketsFirst, zombieBucketsLast>>
  /\ GiveUp(ptr)
  /\ UNCHANGED <<buckets, chunks, taken, made, status, doZombieEarlyDetection,
                 restarts, gone>>

(* The zombies of each bucket are spliced in front of its free list: the   *)
(* last one is linked to the list, which then starts with what the first   *)
(* one is linked to.                                                       *)
Spliced ==
  LET zombieIdx == {i \in Idx : zombieBucketsLast[i] # null}
      lastOf(ptr) == {i \in zombieIdx : zombieBucketsLast[i] = ptr}
      linked == [ptr \in DOMAIN next \union {zombieBucketsLast[i] : i \in zombieIdx} |->
                   IF lastOf(ptr) # {} THEN buckets[CHOOSE i \in lastOf(ptr) : TRUE]
                                       ELSE next[ptr]]
  IN  [next |-> linked,
       buckets |-> [i \in Idx |-> IF i \in zombieIdx
                                    THEN linked[zombieBucketsFirst[i]]
                                    ELSE buckets[i]]]

(* The chunks of the list of zombies, from the first one on. *)
ZombieChunks ==
  LET from[k \in 0 .. Cardinality(DOMAIN next)] ==
        IF k = 0 THEN {zombieLargeChunks} \ {null}
        ELSE from[k - 1] \union ({next[p] : p \in from[k - 1]} \ {null})
  IN  from[Cardinality(DOMAIN next)]

(* Zombies no list has any more after a kill. *)
Forgotten ==
  {z \in DOMAIN zombies :
     zombies[z].at # restarts \/ \E i \in Idx : z = zombieBucketsFirst[i]}

killAllZombies ==
  /\ status = "ok"
  /\ zombieMap' = Empty
  /\ zombies' = Empty
  /\ gone' = Over(gone, [z \in Forgotten |-> zombies[z].size])
  /\ buckets' = Spliced.buckets
  /\ next' = [ptr \in DOMAIN Spliced.next \ ZombieChunks |-> Spliced.next[ptr]]
  /\ chunks' = [p \in DOMAIN chunks \ {ptrToPageStart(ptr) : ptr \in ZombieChunks}
                  |-> chunks[p]]
  /\ EmptyLists
  /\ UNCHANGED <<live, taken, made, out, status, doZombieEarlyDetection,
                 restarts>>

(* A mistaken switch, without the assertion that the map is empty. *)
setDoZombieEarlyDetectionAnytime(doIt) ==
  /\ status = "ok"
  /\ doZombieEarlyDetection' = doIt
  /\ UNCHANGED <<vars, zombieBucketsFirst, zombieBucketsLast, zombieLargeChunks,
                 zombieMap, restarts, zombies, gone>>

(* The caller turns the test on or off, which needs an empty map. *)
setDoZombieEarlyDetection(doIt) ==
  /\ status = "ok" /\ zombieMap = Empty
  /\ doZombieEarlyDetection' = doIt
  /\ UNCHANGED <<vars, zombieBucketsFirst, zombieBucketsLast, zombieLargeChunks,
                 zombieMap, restarts, zombies, gone>>

(* initialize again, as every test does: the lists are emptied, the map is *)
(* left.                                                                   *)
initialize ==
  /\ status = "ok" /\ restarts < MaxRestarts
  /\ EmptyLists
  /\ doZombieEarlyDetection' = TRUE
  /\ restarts' = restarts + 1
  /\ UNCHANGED <<vars, zombieMap, zombies, gone>>

SafeNext ==
  \/ Next /\ UNCHANGED zvars
  \/ \E ptr \in DOMAIN live : zombieableDeallocate(ptr)
  \/ killAllZombies
  \/ \E doIt \in BOOLEAN : setDoZombieEarlyDetection(doIt)
  \/ initialize

SafeSpec == SafeInit /\ [][SafeNext]_allvars
-----------------------------------------------------------------------------
(* isPointerNotZombie: the greatest zombie not after the address, if any,  *)
(* ends before it.                                                         *)
isPointerNotZombie(addr) ==
  LET before == {z \in DOMAIN zombieMap : z <= addr}
      zombie == Max(before)
  IN  doZombieEarlyDetection /\ before # {} => addr >= zombie + zombieMap[zombie]

Extent(ptr) == Bytes(ptr, zombies[ptr].size)
Waiting == {z \in DOMAIN zombies : zombies[z].at = restarts}
IsChunk(ptr) == getOffsetInPage(ptr) = memForbidden
WaitingIn(i) == {z \in Waiting : ~IsChunk(z) /\ z \in made[i]}

(* Every variable has its shape; the map is empty while the test is off,   *)
(* as killAllZombies asserts.                                              *)
SafeTypeOK ==
  /\ \A i \in Idx : {zombieBucketsFirst[i], zombieBucketsLast[i]}
                      \subseteq made[i] \union {null}
  /\ zombieLargeChunks \in DOMAIN zombies \union {null}
  /\ DOMAIN zombieMap \subseteq DOMAIN zombies
  /\ doZombieEarlyDetection \/ zombieMap = Empty

(* Freed memory is not used again before killAllZombies: no live object    *)
(* overlaps a zombie, no bucket has it to give, and a chunk's pages stay   *)
(* allocated, also when initialize has dropped it since.                   *)
ZombiesApart ==
  /\ \A i \in Idx : Listed(i) \intersect DOMAIN zombies = {}
  /\ \A z \in DOMAIN zombies :
       /\ \A ptr \in DOMAIN live : Extent(z) \intersect Bytes(ptr, live[ptr]) = {}
       /\ IsChunk(z) => ptrToPageStart(z) \in DOMAIN chunks

(* A pointer to any byte of a zombie is recognised, if the test was on     *)
(* when the object was freed.                                              *)
NoZombieMissed ==
  \A z \in DOMAIN zombies :
    zombies[z].watched => \A addr \in Extent(z) : ~isPointerNotZombie(addr)

(* A live object is taken for a zombie only in the first memForbidden      *)
(* bytes after a chunk, which getAllocatedSize counts as the chunk's.      *)
FalseAlarmOnlyAfterChunk ==
  \A ptr \in DOMAIN live : \A addr \in Bytes(ptr, live[ptr]) :
    isPointerNotZombie(addr) \/
      \E z \in DOMAIN zombies :
        IsChunk(z) /\ addr - (z + zombies[z].size) \in 0 .. memForbidden - 1

(* killAllZombies puts all zombies of a bucket in its list but the first,  *)
(* which is lost, and gives all chunks back; those initialize has dropped  *)
(* stay where they are.                                                    *)
KillReturnsAllButFirst == [][
  zombies # Empty /\ zombies' = Empty =>
    /\ \A i \in Idx :
         Listed(i)' = Listed(i) \union (WaitingIn(i) \ {zombieBucketsFirst[i]})
    /\ DOMAIN chunks' =
         DOMAIN chunks \ {ptrToPageStart(z) : z \in {z \in Waiting : IsChunk(z)}}
  ]_allvars
=============================================================================
