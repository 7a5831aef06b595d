-------------------------- MODULE CurrentAllocator --------------------------
(***************************************************************************)
(* The interception of new and delete: both go to the allocator that is    *)
(* current in the thread, or to malloc and free if none is.  Nothing       *)
(* remembers which one an object came from: delete gives it to whatever is *)
(* current then, and an allocator takes the pointer for one of its own, of *)
(* the class its address sounds as.                                        *)
(*                                                                         *)
(* A place is the memory of one object: a pair of a region, which an       *)
(* allocator gets from the OS and loses when it is destroyed, or which     *)
(* belongs to malloc, and the class its address sounds as.  Classes stand  *)
(* for their sizes; the largest is that of the chunks of pages.  An object *)
(* of size 0, smaller than all of them, has its own room only from malloc. *)
(* bad_alloc changes nothing.  Not followed is a process in which memory   *)
(* has been unmapped under others ("dangling"), in which a chunk got among *)
(* those of an allocator it does not belong to ("entangled") or in which   *)
(* free found a foreign pointer ("aborted").                               *)
(***************************************************************************)
EXTENDS Naturals, FiniteSets, Threads

CONSTANTS
  Allocator,
  none,         \* no allocator (nullptr)
  Region,       \* memory the OS may give to an allocator
  HeapRegion,   \* memory of malloc
  ChunkClass,   \* classes 1 .. ChunkClass - 1 are buckets
  MaxHeld       \* bound: objects at a time

ASSUME NoneAssumption == none \notin Allocator
ASSUME RegionAssumption == Region \intersect HeapRegion = {}
ASSUME ClassAssumption == ChunkClass \in Nat \ {0} /\ MaxHeld \in Nat

VARIABLES
  current,   \* thread -> its current allocator
  alive,     \* allocators that exist
  owner,     \* region -> the allocator it is mapped for
  cut,       \* places of regions that have been objects since the mapping
  list,      \* allocator -> places in its free lists
  heap,      \* place -> size, of what malloc has given and free not got
  held,      \* objects: place, size, and the allocator new went to
  mixed,     \* history: a misuse, see below
  strayed,   \* history: memory of malloc was given to an allocator
  status     \* "ok", "dangling", "entangled" or "aborted"

vars == <<current, alive, owner, cut, list, heap, held, mixed, strayed, status>>

Class == 1 .. ChunkClass
Size == 0 .. ChunkClass
Place == Region \X Class
HeapPlace == HeapRegion \X Class
Sounds(p) == p[2]
Object == [place : Place \union HeapPlace, sz : Size, by : Allocator \union {none}]

OfAllocator(a, p) == p \in Place /\ owner[p[1]] = a

Init ==
  /\ current = [t \in Thread |-> none]
  /\ alive = {}
  /\ owner = [r \in Region |-> none]
  /\ cut = {}
  /\ list = [a \in Allocator |-> {}]
  /\ heap = [p \in {} |-> 0]
  /\ held = {}
  /\ mixed = FALSE /\ strayed = FALSE /\ status = "ok"

-----------------------------------------------------------------------------
(* initialize: the lists are empty, and stay so until the first delete. *)
construct(a) ==
  /\ status = "ok" /\ a \notin alive
  /\ alive' = alive \union {a}
  /\ UNCHANGED <<current, owner, cut, list, heap, held, mixed, strayed, status>>

(* An allocator is used by one thread at a time. *)
setCurrneAllocator(t, a) ==
  /\ status = "ok"
  /\ a = none \/ (a \in alive /\ \A u \in Thread \ {t} : current[u] # a)
  /\ current' = [current EXCEPT ![t] = a]
  /\ UNCHANGED <<alive, owner, cut, list, heap, held, mixed, strayed, status>>

Alive(a) == status = "ok" /\ a \in alive

-----------------------------------------------------------------------------
(* new, from the free list. *)
newFromList(a, sz) ==
  /\ Alive(a)
  /\ \E p \in list[a] :
       /\ Sounds(p) = sz
       /\ list' = [list EXCEPT ![a] = @ \ {p}]
       /\ held' = held \union {[place |-> p, sz |-> sz, by |-> a]}
  /\ UNCHANGED <<current, alive, owner, cut, heap, mixed, strayed, status>>

(* new, when the list is empty: memory that was no object before, from a   *)
(* region of the allocator or a new one.                                   *)
newFromRegion(a, sz) ==
  /\ Alive(a)
  /\ \A p \in list[a] : Sounds(p) # sz
  /\ \E r \in Region :
       /\ owner[r] \in {a, none} /\ <<r, sz>> \notin cut
       /\ owner' = [owner EXCEPT ![r] = a]
       /\ cut' = cut \union {<<r, sz>>}
       /\ held' = held \union {[place |-> <<r, sz>>, sz |-> sz, by |-> a]}
  /\ UNCHANGED <<current, alive, list, heap, mixed, strayed, status>>

(* new without an allocator. *)
newFromHeap(sz) ==
  /\ status = "ok"
  /\ \E p \in HeapPlace \ DOMAIN heap :
       /\ heap' = [q \in DOMAIN heap \union {p} |-> IF q = p THEN sz ELSE heap[q]]
       /\ held' = held \union {[place |-> p, sz |-> sz, by |-> none]}
  /\ UNCHANGED <<current, alive, owner, cut, list, mixed, strayed, status>>

-----------------------------------------------------------------------------
(* Histories of a delete of o under a: the misuse, and what it may break.  *)
Mixed(o, a) ==
  /\ mixed' = (mixed \/ a # o.by)
  /\ strayed' = (strayed \/ (a # none /\ o.place \in HeapPlace))

(* A mistaken delete that is not intercepted. *)
deleteToListStd(a, o) ==
  /\ Alive(a)
  /\ o.place \in Place
  /\ status' = "aborted"
  /\ Mixed(o, a)
  /\ UNCHANGED <<current, alive, owner, cut, list, heap, held>>

(* delete under an allocator: the object joins the list its address tells, *)
(* except for a chunk, if it is not the allocator's own.                   *)
deleteToList(a, o) ==
  /\ Alive(a)
  /\ Sounds(o.place) = ChunkClass => OfAllocator(a, o.place)
  /\ list' = [list EXCEPT ![a] = @ \union {o.place}]
  /\ held' = held \ {o}
  /\ Mixed(o, a)
  /\ UNCHANGED <<current, alive, owner, cut, heap, status>>

(* A chunk is linked among its neighbours by marks and links in their      *)
(* headers, and in free lists of another allocator than theirs; memory of  *)
(* malloc at a chunk's offset has no such header at all.                   *)
deleteEntangles(a, o) ==
  /\ Alive(a)
  /\ Sounds(o.place) = ChunkClass /\ ~OfAllocator(a, o.place)
  /\ status' = "entangled"
  /\ Mixed(o, a)
  /\ UNCHANGED <<current, alive, owner, cut, list, heap, held>>

(* delete without an allocator: free. *)
deleteToHeap(o) ==
  /\ status = "ok"
  /\ o.place \in DOMAIN heap
  /\ heap' = [p \in DOMAIN heap \ {o.place} |-> heap[p]]
  /\ held' = held \ {o}
  /\ Mixed(o, none)
  /\ UNCHANGED <<current, alive, owner, cut, list, status>>

deleteAborts(o) ==
  /\ status = "ok"
  /\ o.place \notin DOMAIN heap
  /\ status' = "aborted"
  /\ Mixed(o, none)
  /\ UNCHANGED <<current, alive, owner, cut, list, heap, held>>

-----------------------------------------------------------------------------
(* Memory of a that an object made under another allocator, or the lists   *)
(* of another, still use.                                                  *)
UsedByOthers(a) ==
  \/ \E o \in held : o.by # a /\ OfAllocator(a, o.place)
  \/ \E b \in alive \ {a} : \E p \in list[b] : OfAllocator(a, p)

(* A mistaken life of an allocator that begins with the lists of the last. *)
destroyKept(a) ==
  /\ Alive(a)
  /\ alive' = alive \ {a}
  /\ owner' = [r \in Region |-> IF owner[r] = a THEN none ELSE owner[r]]
  /\ cut' = {p \in cut : owner[p[1]] # a}
  /\ held' = {o \in held : o.by # a}
  /\ mixed' = (mixed \/ \E t \in Thread : current[t] = a)
  /\ status' = IF UsedByOthers(a) THEN "dangling" ELSE "ok"
  /\ UNCHANGED <<current, list, heap, strayed>>

(* The destructor gives all regions back; the objects made under the       *)
(* allocator end with it, and so do its lists: the next constructor starts *)
(* with empty ones.  To destroy what is current somewhere is a misuse,     *)
(* which shows when it is used.                                            *)
destroy(a) ==
  /\ Alive(a)
  /\ alive' = alive \ {a}
  /\ owner' = [r \in Region |-> IF owner[r] = a THEN none ELSE owner[r]]
  /\ cut' = {p \in cut : owner[p[1]] # a}
  /\ list' = [list EXCEPT ![a] = {}]
  /\ held' = {o \in held : o.by # a}
  /\ mixed' = (mixed \/ \E t \in Thread : current[t] = a)
  /\ status' = IF UsedByOthers(a) THEN "dangling" ELSE "ok"
  /\ UNCHANGED <<current, heap, strayed>>

(* new or delete in a thread whose allocator is gone. *)
useAfterDestroy(t) ==
  /\ status = "ok" /\ current[t] \notin alive \union {none}
  /\ status' = "dangling"
  /\ UNCHANGED <<current, alive, owner, cut, list, heap, held, mixed, strayed>>

new(t) ==
  /\ Cardinality(held) < MaxHeld
  /\ \/ current[t] # none /\ \E c \in Class : newFromList(current[t], c)
     \/ current[t] # none /\ \E c \in Class : newFromRegion(current[t], c)
     \/ current[t] = none /\ \E sz \in Size : newFromHeap(sz)

delete(t, o) ==
  \/ current[t] # none /\ deleteToList(current[t], o)
  \/ current[t] # none /\ deleteEntangles(current[t], o)
  \/ current[t] = none /\ deleteToHeap(o)
  \/ current[t] = none /\ deleteAborts(o)

Next ==
  \/ \E a \in Allocator : construct(a) \/ destroy(a)
  \/ \E t \in Thread :
       \/ \E a \in Allocator \union {none} : setCurrneAllocator(t, a)
       \/ new(t)
       \/ \E o \in held : delete(t, o)
       \/ useAfterDestroy(t)

Spec == Init /\ [][Next]_vars

-----------------------------------------------------------------------------
TypeOK ==
  /\ current \in [Thread -> Allocator \union {none}]
  /\ alive \subseteq Allocator
  /\ owner \in [Region -> alive \union {none}]
  /\ cut \subseteq Place
  /\ list \in [Allocator -> SUBSET (Place \union HeapPlace)]
  /\ DOMAIN heap \subseteq HeapPlace /\ \A p \in DOMAIN heap : heap[p] \in Size
  /\ held \subseteq Object
  /\ mixed \in BOOLEAN /\ strayed \in BOOLEAN
  /\ status \in {"ok", "dangling", "entangled", "aborted"}

(* Memory that is mapped and has been given out by its source. *)
GivenOut(p) ==
  \/ p \in DOMAIN heap
  \/ p \in cut /\ owner[p[1]] # none

Room(p) == IF p \in DOMAIN heap THEN heap[p] ELSE Sounds(p)

(* Wherever objects were deleted, until the process ends in one of the     *)
(* ways not followed: no two objects are in one place, none is in a free   *)
(* list, no two allocators have a place in their lists, and all of it is   *)
(* mapped.  So an object may be freed under another allocator, which then  *)
(* uses it for its own, unless it is a chunk.  An object has room for what *)
(* was asked for unless memory of malloc, whose address says nothing, has  *)
(* been given to an allocator.                                             *)
MemorySound ==
  status = "ok" =>
    /\ \A o \in held : /\ GivenOut(o.place)
                       /\ \A a \in alive : o.place \notin list[a]
                       /\ ~strayed => o.sz <= Room(o.place)
    /\ \A o1, o2 \in held : o1.place = o2.place => o1 = o2
    /\ \A a \in alive : \A p \in list[a] : GivenOut(p)
    /\ \A a, b \in alive : a = b \/ list[a] \intersect list[b] = {}

(* Misuse is to delete an object while another allocator is current than   *)
(* when it was made, or to destroy the current one.  Without it no memory  *)
(* gets into the wrong hands: the process never dangles, never entangles   *)
(* chunks, gives no foreign pointer to free and none of malloc's to an     *)
(* allocator.                                                              *)
DisciplineSuffices == ~mixed => status = "ok" /\ ~strayed
=============================================================================
