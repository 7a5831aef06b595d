--------------------------- MODULE AllocatorProofs ---------------------------
(***************************************************************************)
(* Theorems about what surrounds the allocator's own memory: the ids of    *)
(* AllocatorIds, for any number of threads, ids and initialisations; the   *)
(* memory of CurrentAllocator, for any number of threads, allocators,      *)
(* regions and classes; the sizes of SizeClasses, for any width of a word, *)
(* any page and any size.                                                  *)
(***************************************************************************)
EXTENDS AllocatorIds, CurrentAllocator, SizeClasses,
        WellFoundedInduction, TLAPS

(* What an initialisation knows at each of its steps: the counter follows  *)
(* the ticks, and once it has been checked it can be 0 again only if it    *)
(* has moved since the initialisation began.                               *)
Counting == ticks \in Nat /\ allocatorIDBase = ticks % IdCnt

ThreadInv(t) ==
  /\ pc[t] \in {"out", "check", "skipZero", "load"}
  /\ pc[t] # "out" => from[t] \in 1 .. ticks
  /\ pc[t] = "load" /\ from[t] = ticks => allocatorIDBase # 0

IssuedInv(x) ==
  /\ x \in [id : Id, from : 1 .. MaxTicks, to : 1 .. MaxTicks]
  /\ x.from <= x.to
  /\ x.id = x.to % IdCnt
  /\ x.from = x.to => x.id # 0

IdsIInv ==
  /\ IdsTypeOK
  /\ Counting
  /\ \A t \in Thread : ThreadInv(t)
  /\ \A x \in issued : IssuedInv(x)

(* Remainders: the next one, and when two of them differ. *)
LEMMA NextRemainder ==
  ASSUME NEW n \in Nat, NEW r \in Nat, r > 1
  PROVE  (n + 1) % r = ((n % r) + 1) % r
<1> DEFINE q == n \div r
           o == n % r
<1>1. q \in Nat /\ o \in Nat /\ o < r /\ n = q * r + o
  BY SMT
<1> HIDE DEF q, o
<1>2. CASE o + 1 < r
  <2>1. n + 1 = q * r + (o + 1)
    BY <1>1, SMT
  <2>2. (o + 1) % r = o + 1
    BY <1>1, <1>2, SMT
  <2>3. (n + 1) % r = o + 1
    <3> DEFINE m == n + 1
    <3>1. m = r * (m \div r) + (m % r) /\ 0 <= m % r /\ m % r < r
          /\ m \div r \in Int
      BY SMT
    <3>2. m \div r = q
      BY <1>1, <1>2, <2>1, <3>1, SMT
    <3> QED
      BY <1>1, <2>1, <3>1, <3>2, SMT
  <2> QED
    BY <2>2, <2>3 DEF o
<1>3. CASE o + 1 = r
  <2>1. n + 1 = (q + 1) * r
    BY <1>1, <1>3, SMT
  <2>2. (o + 1) % r = 0
    BY <1>1, <1>3, SMT
  <2>3. (n + 1) % r = 0
    <3> DEFINE m == n + 1
    <3>1. m = r * (m \div r) + (m % r) /\ 0 <= m % r /\ m % r < r
          /\ m \div r \in Int
      BY SMT
    <3>2. m \div r = q + 1
      BY <1>1, <2>1, <3>1, SMT
    <3> QED
      BY <1>1, <2>1, <3>1, <3>2, SMT
  <2> QED
    BY <2>2, <2>3 DEF o
<1> QED
  BY <1>1, <1>2, <1>3, SMT

(* Two numbers less than r apart differ in their remainders. *)
LEMMA RemaindersDiffer ==
  ASSUME NEW m \in Nat, NEW n \in Nat, NEW r \in Nat, m < n, n - m < r
  PROVE  m % r # n % r
<1>1. /\ m = r * (m \div r) + (m % r) /\ m \div r \in Int
      /\ n = r * (n \div r) + (n % r) /\ n \div r \in Int
  BY SMT
<1> SUFFICES ASSUME m % r = n % r PROVE FALSE
  OBVIOUS
<1>2. n - m = r * ((n \div r) - (m \div r))
  BY <1>1, SMT
<1>3. CASE (n \div r) - (m \div r) >= 1
  BY <1>1, <1>2, <1>3, SMT
<1>4. CASE (n \div r) - (m \div r) <= 0
  BY <1>1, <1>2, <1>4, SMT
<1> QED
  BY <1>1, <1>3, <1>4, SMT

(* ++allocatorIDBase keeps the counter in step with the ticks. *)
LEMMA IncrementCounts ==
  ASSUME IdsTypeOK, Counting, Increment
  PROVE  /\ Counting'
         /\ allocatorIDBase' \in Id
         /\ ticks' = ticks + 1
         /\ ticks' \in 1 .. MaxTicks
<1> USE IdCntAssumption, MaxTicksAssumption
<1>1. ticks \in Nat /\ ticks < MaxTicks /\ IdCnt \in Nat /\ IdCnt > 1
      /\ MaxTicks \in Nat
  BY DEF Counting, Increment
<1>2. ticks' = ticks + 1 /\ allocatorIDBase' = (allocatorIDBase + 1) % IdCnt
  BY DEF Increment
<1>3. allocatorIDBase' = ticks' % IdCnt
  BY <1>1, <1>2, NextRemainder DEF Counting
<1>4. ticks' % IdCnt \in 0 .. IdCnt - 1
  BY <1>1, <1>2, SMT
<1> QED
  BY <1>1, <1>2, <1>3, <1>4 DEF Counting, Id

(* The initial state satisfies the invariant. *)
LEMMA IdsInitInv == IdsInit => IdsIInv
<1> USE IdCntAssumption, MaxTicksAssumption
<1>1. IdCnt \in Nat /\ 0 < IdCnt /\ 0 % IdCnt = 0 /\ 0 \in Id
  BY SMT DEF Id
<1>2. IdsInit => IdsTypeOK
  BY <1>1 DEF IdsInit, IdsTypeOK
<1>3. IdsInit => Counting
  BY <1>1 DEF IdsInit, Counting
<1>4. IdsInit => \A t \in Thread : ThreadInv(t)
  BY DEF IdsInit, ThreadInv
<1> QED
  BY <1>2, <1>3, <1>4 DEF IdsInit, IdsIInv

(* What the others do never disturbs a thread: ticks only grow, and a      *)
(* thread about to load still knows the counter has moved.                 *)
LEMMA OthersKeep ==
  ASSUME IdsIInv, NEW t \in Thread,
         pc'[t] = pc[t], from'[t] = from[t],
         \/ ticks' = ticks /\ allocatorIDBase' = allocatorIDBase
         \/ ticks' = ticks + 1
  PROVE  ThreadInv(t)'
<1>1. ThreadInv(t) /\ ticks \in Nat
  BY DEF IdsIInv, Counting
<1> QED
  BY <1>1 DEF ThreadInv

(* Every step preserves the invariant. *)
LEMMA IdsNextInv == IdsIInv /\ [IdsNext]_idsVars => IdsIInv'
<1> SUFFICES ASSUME IdsIInv, [IdsNext]_idsVars PROVE IdsIInv'
  OBVIOUS
<1> USE IdCntAssumption, MaxTicksAssumption
<1>1. IdsTypeOK /\ Counting /\ ticks \in Nat
      /\ (\A t \in Thread : ThreadInv(t)) /\ (\A x \in issued : IssuedInv(x))
  BY DEF IdsIInv, Counting
<1>2. ASSUME NEW t \in Thread, begin(t) PROVE IdsIInv'
  <2>1. Increment
    BY <1>2 DEF begin
  <2>2. Counting' /\ allocatorIDBase' \in Id /\ ticks' = ticks + 1
        /\ ticks' \in 1 .. MaxTicks
    BY <1>1, <2>1, IncrementCounts
  <2>3. IdsTypeOK'
    BY <1>1, <1>2, <2>2 DEF IdsTypeOK, begin, Goto
  <2>4. ThreadInv(t)'
    BY <1>1, <1>2, <2>2 DEF IdsTypeOK, begin, Goto, ThreadInv
  <2>5. ASSUME NEW u \in Thread, u # t PROVE ThreadInv(u)'
    <3>1. pc'[u] = pc[u] /\ from'[u] = from[u]
      BY <1>1, <1>2, <2>5 DEF IdsTypeOK, begin, Goto
    <3> QED
      BY <2>2, <3>1, OthersKeep
  <2>6. \A x \in issued' : IssuedInv(x)'
    BY <1>1, <1>2 DEF begin, IssuedInv
  <2> QED
    BY <2>2, <2>3, <2>4, <2>5, <2>6 DEF IdsIInv
<1>3. ASSUME NEW t \in Thread, check(t) PROVE IdsIInv'
  <2>1. IdsTypeOK' /\ Counting'
    BY <1>1, <1>3 DEF IdsTypeOK, Counting, check, Goto
  <2>2. ThreadInv(t)'
    BY <1>1, <1>3 DEF IdsTypeOK, check, Goto, ThreadInv
  <2>3. ASSUME NEW u \in Thread, u # t PROVE ThreadInv(u)'
    <3>1. pc'[u] = pc[u] /\ from'[u] = from[u]
          /\ ticks' = ticks /\ allocatorIDBase' = allocatorIDBase
      BY <1>1, <1>3, <2>3 DEF IdsTypeOK, check, Goto
    <3> QED
      BY <3>1, OthersKeep
  <2>4. \A x \in issued' : IssuedInv(x)'
    BY <1>1, <1>3 DEF check, IssuedInv
  <2> QED
    BY <2>1, <2>2, <2>3, <2>4 DEF IdsIInv
<1>4. ASSUME NEW t \in Thread, skipZero(t) PROVE IdsIInv'
  <2>1. Increment
    BY <1>4 DEF skipZero
  <2>2. Counting' /\ allocatorIDBase' \in Id /\ ticks' = ticks + 1
        /\ ticks' \in 1 .. MaxTicks
    BY <1>1, <2>1, IncrementCounts
  <2>3. IdsTypeOK'
    BY <1>1, <1>4, <2>2 DEF IdsTypeOK, skipZero, Goto
  <2>4. ThreadInv(t)'
    BY <1>1, <1>4, <2>2 DEF IdsTypeOK, skipZero, Goto, ThreadInv
  <2>5. ASSUME NEW u \in Thread, u # t PROVE ThreadInv(u)'
    <3>1. pc'[u] = pc[u] /\ from'[u] = from[u]
      BY <1>1, <1>4, <2>5 DEF IdsTypeOK, skipZero, Goto
    <3> QED
      BY <2>2, <3>1, OthersKeep
  <2>6. \A x \in issued' : IssuedInv(x)'
    BY <1>1, <1>4 DEF skipZero, IssuedInv
  <2> QED
    BY <2>2, <2>3, <2>4, <2>5, <2>6 DEF IdsIInv
<1>5. ASSUME NEW t \in Thread, load(t) PROVE IdsIInv'
  <2> DEFINE fresh == [id |-> allocatorIDBase, from |-> from[t], to |-> ticks]
  <2>1. from[t] \in 1 .. ticks /\ (from[t] = ticks => allocatorIDBase # 0)
    BY <1>1, <1>5 DEF load, ThreadInv
  <2>2. IssuedInv(fresh)
    BY <1>1, <2>1 DEF IdsTypeOK, Counting, IssuedInv
  <2>3. issued' = issued \union {fresh}
    BY <1>5 DEF load
  <2>4. IdsTypeOK' /\ Counting'
    <3>1. fresh \in [id : Id, from : 1 .. MaxTicks, to : 1 .. MaxTicks]
      BY <2>2 DEF IssuedInv
    <3> HIDE DEF fresh
    <3> QED
      BY <1>1, <1>5, <2>3, <3>1 DEF IdsTypeOK, Counting, load, Goto
  <2>5. ThreadInv(t)'
    BY <1>1, <1>5 DEF IdsTypeOK, load, Goto, ThreadInv
  <2>6. ASSUME NEW u \in Thread, u # t PROVE ThreadInv(u)'
    <3>1. pc'[u] = pc[u] /\ from'[u] = from[u]
          /\ ticks' = ticks /\ allocatorIDBase' = allocatorIDBase
      BY <1>1, <1>5, <2>6 DEF IdsTypeOK, load, Goto
    <3> QED
      BY <3>1, OthersKeep
  <2>7. \A x \in issued' : IssuedInv(x)'
    <3> HIDE DEF fresh
    <3> QED
      BY <1>1, <2>2, <2>3 DEF IssuedInv
  <2> QED
    BY <2>4, <2>5, <2>6, <2>7 DEF IdsIInv
<1>6. CASE UNCHANGED idsVars
  BY <1>1, <1>6 DEF idsVars, IdsIInv, IdsTypeOK, Counting, ThreadInv, IssuedInv
<1> QED
  BY <1>2, <1>3, <1>4, <1>5, <1>6 DEF IdsNext

(* The invariant holds in every reachable state. *)
THEOREM IdsInvariant == IdsSpec => []IdsIInv
  BY IdsInitInv, IdsNextInv, PTL DEF IdsSpec

(* Every variable has its shape: in particular an id fits its 16 bits. *)
THEOREM IdsTypeCorrect == IdsSpec => []IdsTypeOK
<1>1. IdsIInv => IdsTypeOK
  BY DEF IdsIInv
<1> QED
  BY <1>1, IdsInvariant, PTL

(* Initialisations that do not overlap get different ids. *)
THEOREM IdsDistinct == IdsSpec => []DistinctUnlessOverlapping
<1>1. IdsIInv => DistinctUnlessOverlapping
  <2> SUFFICES ASSUME IdsIInv, NEW x \in issued, NEW y \in issued,
                      Follows(x, y), y.to - x.to < IdCnt
               PROVE  x.id # y.id
    BY DEF DistinctUnlessOverlapping
  <2>1. IssuedInv(x) /\ IssuedInv(y) /\ IdCnt \in Nat /\ MaxTicks \in Nat
    BY IdCntAssumption, MaxTicksAssumption DEF IdsIInv
  <2>2. x.to \in Nat /\ y.to \in Nat /\ x.to < y.to
    BY <2>1 DEF Follows, IssuedInv
  <2>3. x.to % IdCnt # y.to % IdCnt
    BY <2>1, <2>2, RemaindersDiffer
  <2> QED
    BY <2>1, <2>3 DEF IssuedInv
<1> QED
  BY <1>1, IdsInvariant, PTL

(* An initialisation that nobody disturbed has an id other than 0. *)
THEOREM ZeroNeedsRace == IdsSpec => []ZeroOnlyIfRaced
<1>1. IdsIInv => ZeroOnlyIfRaced
  <2> SUFFICES ASSUME IdsIInv, NEW x \in issued, x.id = 0 PROVE x.from < x.to
    BY DEF ZeroOnlyIfRaced
  <2>1. IssuedInv(x) /\ MaxTicks \in Nat
    BY MaxTicksAssumption DEF IdsIInv
  <2> QED
    BY <2>1 DEF IssuedInv
<1> QED
  BY <1>1, IdsInvariant, PTL

-----------------------------------------------------------------------------
(* Nobody has the lists of a destroyed allocator, or its objects. *)
EndsWithIt ==
  /\ \A a \in Allocator \ alive : list[a] = {}
  /\ \A o \in held : o.by \in alive \union {none}

(* What was cut is mapped, and has one holder. *)
OneHolder ==
  /\ \A p \in cut : owner[p[1]] # none
  /\ \A o \in held : GivenOut(o.place)
  /\ \A o \in held, a \in Allocator : o.place \notin list[a]
  /\ \A o1, o2 \in held : o1.place = o2.place => o1 = o2
  /\ \A a \in Allocator : \A p \in list[a] : GivenOut(p)
  /\ \A a, b \in Allocator : a = b \/ list[a] \intersect list[b] = {}

(* Only memory of malloc, sounding as anything, gives too little room. *)
RoomUnlessStrayed ==
  ~strayed => /\ \A a \in Allocator : list[a] \subseteq Place
              /\ \A o \in held : o.sz <= Room(o.place)

(* Without misuse all memory is where it came from. *)
AtHome ==
  ~mixed => /\ ~strayed
            /\ \A t \in Thread : current[t] \in alive \union {none}
            /\ \A a \in Allocator : \A p \in list[a] : OfAllocator(a, p)
            /\ \A o \in held : IF o.by = none THEN o.place \in DOMAIN heap
                                              ELSE OfAllocator(o.by, o.place)

IInv ==
  /\ TypeOK
  /\ status = "ok" => EndsWithIt /\ OneHolder /\ RoomUnlessStrayed /\ AtHome
  /\ ~mixed => status = "ok"

LEMMA InitIInv == Init => IInv
BY NoneAssumption, ClassAssumption
DEF Init, IInv, TypeOK, EndsWithIt, OneHolder, RoomUnlessStrayed, AtHome, Object

LEMMA MixedBoolean ==
  ASSUME NEW o, NEW a, mixed \in BOOLEAN, strayed \in BOOLEAN, Mixed(o, a)
  PROVE  mixed' \in BOOLEAN /\ strayed' \in BOOLEAN
BY Zenon DEF Mixed

LEMMA TypeStep == TypeOK /\ [Next]_vars => TypeOK'
<1> SUFFICES ASSUME TypeOK, [Next]_vars
             PROVE  TypeOK'
  OBVIOUS
<1> USE DEF TypeOK
<1>1. ASSUME NEW a \in Allocator, construct(a)
      PROVE  TypeOK'
  BY <1>1 DEF construct
<1>2. ASSUME NEW a \in Allocator, destroy(a)
      PROVE  TypeOK'
  BY <1>2, NoneAssumption DEF destroy, Alive
<1>3. ASSUME NEW t \in Thread, NEW a \in Allocator \union {none}, setCurrneAllocator(t, a)
      PROVE  TypeOK'
  BY <1>3 DEF setCurrneAllocator
<1>4. ASSUME NEW a \in Allocator, NEW c \in Class, newFromList(a, c)
      PROVE  TypeOK'
  BY <1>4 DEF newFromList, Alive, Object, Class, Size, Sounds
<1>5. ASSUME NEW a \in Allocator, NEW c \in Class, newFromRegion(a, c)
      PROVE  TypeOK'
  BY <1>5 DEF newFromRegion, Alive, Object, Class, Size, Place
<1>6. ASSUME NEW size \in Size, newFromHeap(size)
      PROVE  TypeOK'
  BY <1>6 DEF newFromHeap, Object
<1>7. ASSUME NEW a \in Allocator, NEW o \in held, deleteToList(a, o) \/ deleteEntangles(a, o)
      PROVE  TypeOK'
  <2>1. mixed' \in BOOLEAN /\ strayed' \in BOOLEAN
    BY <1>7, MixedBoolean DEF deleteToList, deleteEntangles
  <2>2. o.place \in Place \union HeapPlace
    BY DEF Object
  <2> QED
    BY <1>7, <2>1, <2>2 DEF deleteToList, deleteEntangles
<1>8. ASSUME NEW o \in held, deleteToHeap(o) \/ deleteAborts(o)
      PROVE  TypeOK'
  <2>1. mixed' \in BOOLEAN /\ strayed' \in BOOLEAN
    BY <1>8, MixedBoolean DEF deleteToHeap, deleteAborts
  <2> QED
    BY <1>8, <2>1 DEF deleteToHeap, deleteAborts
<1>9. ASSUME NEW t \in Thread, useAfterDestroy(t)
      PROVE  TypeOK'
  BY <1>9 DEF useAfterDestroy
<1>10. CASE UNCHANGED vars
  BY <1>10 DEF vars
<1> QED
  BY <1>1, <1>2, <1>3, <1>4, <1>5, <1>6, <1>7, <1>8, <1>9, <1>10
  DEF Next, new, delete
(* What each action does to the rest of the invariant.                     *)
LEMMA ConstructStep ==
  ASSUME IInv, NEW a \in Allocator, construct(a)
  PROVE  (status = "ok" => EndsWithIt /\ OneHolder /\ RoomUnlessStrayed /\ AtHome)'
         /\ (~mixed => status = "ok")'
BY DEF IInv, TypeOK, construct, EndsWithIt, OneHolder, RoomUnlessStrayed, AtHome,
       GivenOut, Room, OfAllocator

LEMMA SetCurrentStep ==
  ASSUME IInv, NEW t \in Thread, NEW a \in Allocator \union {none}, setCurrneAllocator(t, a)
  PROVE  (status = "ok" => EndsWithIt /\ OneHolder /\ RoomUnlessStrayed /\ AtHome)'
         /\ (~mixed => status = "ok")'
BY DEF IInv, TypeOK, setCurrneAllocator, EndsWithIt, OneHolder, RoomUnlessStrayed, AtHome,
       GivenOut, Room, OfAllocator

LEMMA DestroyStep ==
  ASSUME IInv, NEW a \in Allocator, destroy(a)
  PROVE  (status = "ok" => EndsWithIt /\ OneHolder /\ RoomUnlessStrayed /\ AtHome)'
         /\ (~mixed => status = "ok")'
<1> status = "ok" /\ a \in alive
  BY DEF destroy, Alive
<1> USE DEF IInv, TypeOK, destroy
<1>1. ASSUME status' = "ok" PROVE EndsWithIt'
  BY <1>1 DEF EndsWithIt
<1>2. ASSUME status' = "ok" PROVE OneHolder'
  <2>1. \A p \in cut : ~OfAllocator(a, p) => p \in cut' /\ owner'[p[1]] = owner[p[1]]
    BY DEF OfAllocator, Place
  <2>2. \A o \in held' : o \in held /\ ~OfAllocator(a, o.place)
    BY <1>2 DEF UsedByOthers
  <2>3. \A b \in Allocator : list'[b] \subseteq list[b]
                             /\ \A p \in list'[b] : ~OfAllocator(a, p)
    BY <1>2 DEF UsedByOthers, EndsWithIt
  <2>4. \A p \in cut' : owner'[p[1]] # none
    BY DEF OneHolder, Place
  <2>5. \A p : GivenOut(p) /\ ~OfAllocator(a, p) => GivenOut(p)'
    BY <2>1 DEF GivenOut
  <2> QED
    BY <2>2, <2>3, <2>4, <2>5 DEF OneHolder
<1>3. ASSUME status' = "ok" PROVE RoomUnlessStrayed'
  BY <1>3 DEF RoomUnlessStrayed, Room
<1>4. ASSUME ~mixed' PROVE ~mixed /\ \A t \in Thread : current[t] # a
  BY <1>4, Zenon DEF destroy
<1>5. ASSUME status' = "ok" PROVE AtHome'
  <2> SUFFICES ASSUME ~mixed'
               PROVE  /\ ~strayed'
                      /\ \A t \in Thread : current'[t] \in alive' \union {none}
                      /\ \A b \in Allocator : \A p \in list'[b] : OfAllocator(b, p)'
                      /\ \A o \in held' : IF o.by = none THEN o.place \in DOMAIN heap'
                                                     ELSE OfAllocator(o.by, o.place)'
    BY DEF AtHome
  <2>1. AtHome /\ ~mixed /\ EndsWithIt
    BY <1>4
  <2>2. \A b \in Allocator : \A p : b # a /\ OfAllocator(b, p) => OfAllocator(b, p)'
    BY DEF OfAllocator, Place
  <2>3. \A b \in Allocator : \A p \in list'[b] : b # a /\ p \in list[b]
    OBVIOUS
  <2>4. \A o \in held' : o \in held /\ o.by # a
    OBVIOUS
  <2> QED
    BY <1>4, <2>1, <2>2, <2>3, <2>4 DEF AtHome, EndsWithIt
<1>6. ASSUME ~mixed' PROVE status' = "ok"
  <2>1. AtHome /\ ~mixed
    BY <1>4, <1>6
  <2>2. \A p \in DOMAIN heap : ~OfAllocator(a, p)
    BY RegionAssumption DEF OfAllocator, Place, HeapPlace
  <2>3. \A b : \A p : b # a /\ OfAllocator(b, p) => ~OfAllocator(a, p)
    BY DEF OfAllocator
  <2> QED
    BY <2>1, <2>2, <2>3 DEF AtHome, UsedByOthers
<1> QED
  BY <1>1, <1>2, <1>3, <1>5, <1>6

LEMMA NewFromListStep ==
  ASSUME IInv, NEW a \in Allocator, NEW c \in Class, newFromList(a, c)
  PROVE  (status = "ok" => EndsWithIt /\ OneHolder /\ RoomUnlessStrayed /\ AtHome)'
         /\ (~mixed => status = "ok")'
<1> USE DEF IInv, TypeOK, newFromList, Alive
<1>1. EndsWithIt'
  BY DEF EndsWithIt
<1>2. OneHolder'
  BY DEF OneHolder, GivenOut
<1>3. RoomUnlessStrayed'
  BY RegionAssumption DEF RoomUnlessStrayed, Room, Sounds, Place, HeapPlace, Class
<1>4. AtHome'
  BY NoneAssumption DEF AtHome, OfAllocator
<1> QED
  BY <1>1, <1>2, <1>3, <1>4

LEMMA NewFromRegionStep ==
  ASSUME IInv, NEW a \in Allocator, NEW c \in Class, newFromRegion(a, c)
  PROVE  (status = "ok" => EndsWithIt /\ OneHolder /\ RoomUnlessStrayed /\ AtHome)'
         /\ (~mixed => status = "ok")'
<1> PICK r \in Region :
      /\ owner[r] \in {a, none} /\ <<r, c>> \notin cut
      /\ owner' = [owner EXCEPT ![r] = a]
      /\ cut' = cut \union {<<r, c>>}
      /\ held' = held \union {[place |-> <<r, c>>, sz |-> c, by |-> a]}
  BY DEF newFromRegion
<1> DEFINE n == [place |-> <<r, c>>, sz |-> c, by |-> a]
<1> USE DEF IInv, TypeOK, newFromRegion, Alive
<1>1. <<r, c>> \in Place /\ <<r, c>> \notin DOMAIN heap
  BY RegionAssumption DEF Place, HeapPlace
<1>2. EndsWithIt'
  BY DEF EndsWithIt
<1>3. OneHolder'
  BY <1>1, NoneAssumption DEF OneHolder, GivenOut, Place
<1>4. RoomUnlessStrayed'
  BY <1>1 DEF RoomUnlessStrayed, Room, Sounds, Class
<1>5. AtHome'
  BY <1>1, NoneAssumption DEF AtHome, OfAllocator, Place
<1> QED
  BY <1>2, <1>3, <1>4, <1>5

LEMMA NewFromHeapStep ==
  ASSUME IInv, NEW size \in Size, newFromHeap(size)
  PROVE  (status = "ok" => EndsWithIt /\ OneHolder /\ RoomUnlessStrayed /\ AtHome)'
         /\ (~mixed => status = "ok")'
<1> PICK p \in HeapPlace \ DOMAIN heap :
      /\ heap' = [q \in DOMAIN heap \union {p} |-> IF q = p THEN size ELSE heap[q]]
      /\ held' = held \union {[place |-> p, sz |-> size, by |-> none]}
  BY DEF newFromHeap
<1> USE DEF IInv, TypeOK, newFromHeap
<1>1. p \notin Place /\ p \notin cut
  BY RegionAssumption DEF Place, HeapPlace
<1>2. EndsWithIt'
  BY DEF EndsWithIt
<1>3. OneHolder'
  BY <1>1 DEF OneHolder, GivenOut
<1>4. RoomUnlessStrayed'
  BY <1>1 DEF RoomUnlessStrayed, Room, OneHolder, GivenOut, Size
<1>5. AtHome'
  BY DEF AtHome, OfAllocator
<1> QED
  BY <1>2, <1>3, <1>4, <1>5

LEMMA DeleteToListStep ==
  ASSUME IInv, NEW a \in Allocator, NEW o \in held, deleteToList(a, o)
  PROVE  (status = "ok" => EndsWithIt /\ OneHolder /\ RoomUnlessStrayed /\ AtHome)'
         /\ (~mixed => status = "ok")'
<1> USE DEF IInv, TypeOK, deleteToList, Alive
<1>1. o.place \in Place \union HeapPlace
  BY DEF Object
<1>2. EndsWithIt'
  BY DEF EndsWithIt
<1>3. OneHolder'
  BY <1>1 DEF OneHolder, GivenOut
<1>4. RoomUnlessStrayed'
  BY <1>1, NoneAssumption DEF RoomUnlessStrayed, Room, Mixed
<1>5. AtHome'
  BY <1>1, NoneAssumption, RegionAssumption DEF AtHome, OfAllocator, Mixed, Place, HeapPlace
<1> QED
  BY <1>2, <1>3, <1>4, <1>5

LEMMA DeleteEntanglesStep ==
  ASSUME IInv, NEW a \in Allocator, NEW o \in held, deleteEntangles(a, o)
  PROVE  (status = "ok" => EndsWithIt /\ OneHolder /\ RoomUnlessStrayed /\ AtHome)'
         /\ (~mixed => status = "ok")'
BY NoneAssumption DEF IInv, TypeOK, deleteEntangles, Alive, AtHome, OfAllocator, Mixed

LEMMA DeleteToHeapStep ==
  ASSUME IInv, NEW o \in held, deleteToHeap(o)
  PROVE  (status = "ok" => EndsWithIt /\ OneHolder /\ RoomUnlessStrayed /\ AtHome)'
         /\ (~mixed => status = "ok")'
<1> USE DEF IInv, TypeOK, deleteToHeap
<1>1. o.place \notin cut
  BY RegionAssumption DEF Place, HeapPlace
<1>2. EndsWithIt'
  BY DEF EndsWithIt
<1>3. OneHolder'
  BY <1>1 DEF OneHolder, GivenOut
<1>4. RoomUnlessStrayed'
  BY DEF RoomUnlessStrayed, Room, Mixed, OneHolder
<1>5. AtHome'
  BY DEF AtHome, OfAllocator, Mixed, OneHolder
<1> QED
  BY <1>2, <1>3, <1>4, <1>5

LEMMA DeleteAbortsStep ==
  ASSUME IInv, NEW o \in held, deleteAborts(o)
  PROVE  (status = "ok" => EndsWithIt /\ OneHolder /\ RoomUnlessStrayed /\ AtHome)'
         /\ (~mixed => status = "ok")'
BY DEF IInv, TypeOK, deleteAborts, AtHome, Mixed

LEMMA UseAfterDestroyStep ==
  ASSUME IInv, NEW t \in Thread, useAfterDestroy(t)
  PROVE  (status = "ok" => EndsWithIt /\ OneHolder /\ RoomUnlessStrayed /\ AtHome)'
         /\ (~mixed => status = "ok")'
BY DEF IInv, TypeOK, useAfterDestroy, AtHome

LEMMA IInvStep == IInv /\ [Next]_vars => IInv'
<1> SUFFICES ASSUME IInv, [Next]_vars
             PROVE  IInv'
  OBVIOUS
<1>1. TypeOK'
  BY TypeStep DEF IInv
<1>2. CASE Next
  <2>1. current \in [Thread -> Allocator \union {none}]
    BY DEF IInv, TypeOK
  <2>2. ASSUME NEW t \in Thread, new(t)
        PROVE  IInv'
    BY <1>1, <2>1, <2>2, NewFromListStep, NewFromRegionStep, NewFromHeapStep DEF new, IInv
  <2>3. ASSUME NEW t \in Thread, NEW o \in held, delete(t, o)
        PROVE  IInv'
    BY <1>1, <2>1, <2>3, DeleteToListStep, DeleteEntanglesStep, DeleteToHeapStep,
       DeleteAbortsStep DEF delete, IInv
  <2> QED
    BY <1>1, <1>2, <2>2, <2>3, ConstructStep, DestroyStep, SetCurrentStep,
       UseAfterDestroyStep DEF Next, IInv
<1>3. CASE UNCHANGED vars
  BY <1>1, <1>3
  DEF vars, IInv, EndsWithIt, OneHolder, RoomUnlessStrayed, AtHome, GivenOut, Room, OfAllocator
<1> QED
  BY <1>2, <1>3

LEMMA Invariance == Spec => []IInv
BY InitIInv, IInvStep, PTL DEF Spec

(* The variables keep their types, whatever is deleted where. *)
THEOREM TypeCorrect == Spec => []TypeOK
<1>1. IInv => TypeOK
  BY DEF IInv
<1> QED
  BY <1>1, Invariance, PTL

(* No two objects, lists or allocators share memory, all of it is mapped,  *)
(* and an object has its room: wherever new and delete went (the dispatch  *)
(* of iibmalloc.cpp), until unmapping or a chunk breaks the process.       *)
THEOREM MemoryIsSound == Spec => []MemorySound
<1>1. IInv => MemorySound
  BY DEF IInv, TypeOK, MemorySound, OneHolder, RoomUnlessStrayed
<1> QED
  BY <1>1, Invariance, PTL

(* Where every object is deleted under the allocator it was made under,    *)
(* and no allocator is destroyed while it is current, the process never    *)
(* meets any of the ends that a mistaken delete leads to.                  *)
THEOREM DisciplineIsEnough == Spec => []DisciplineSuffices
<1>1. IInv => DisciplineSuffices
  BY DEF IInv, DisciplineSuffices, AtHome
<1> QED
  BY <1>1, Invariance, PTL

-----------------------------------------------------------------------------
(***************************************************************************)
(* Sizes.  Induction and recursion up to a number come first: the powers   *)
(* of two, and the loop of UpperNonZeroBitPos, are recursive functions.    *)
(***************************************************************************)

(* A set of numbers has a least one. *)
LEMMA LeastNat ==
  ASSUME NEW T \in SUBSET Nat, T # {}
  PROVE  \E m \in T : \A k \in T : m <= k
<1> DEFINE R == OpToRel(<, Nat)
<1>1. IsWellFoundedOn(R, Nat)
  BY NatLessThanWellFounded
<1>2. \A k, m \in Nat : <<k, m>> \in R <=> k < m
  BY DEF OpToRel
<1> HIDE DEF R
<1>3. PICK m \in T : \A k \in T : ~(<<k, m>> \in R)
  BY <1>1, WFMin
<1>4. \A k \in T : <<k, m>> \in R <=> k < m
  BY <1>2
<1>5. m \in Nat /\ \A k \in T : k \in Nat /\ ~(k < m)
  BY <1>3, <1>4
<1> QED
  BY <1>5

(* Induction up to n, with the property as the set of numbers that have it. *)
LEMMA UpTo ==
  ASSUME NEW n \in Nat, NEW T, 0 \in T,
         \A k \in 0 .. n - 1 : k \in T => k + 1 \in T
  PROVE  \A k \in 0 .. n : k \in T
<1> SUFFICES ASSUME NEW j \in 0 .. n, j \notin T PROVE FALSE
  OBVIOUS
<1> DEFINE Bad == {k \in 0 .. n : k \notin T}
<1>1. Bad \in SUBSET Nat /\ Bad # {}
  OBVIOUS
<1> HIDE DEF Bad
<1>2. PICK m \in Bad : \A k \in Bad : m <= k
  BY <1>1, LeastNat
<1>3. m \in 0 .. n /\ m \notin T
  BY DEF Bad
<1>4. m - 1 \in 0 .. n - 1 /\ m - 1 \in 0 .. n
  BY <1>3
<1>5. m - 1 \in T
  BY <1>2, <1>4 DEF Bad
<1> QED
  BY <1>3, <1>4, <1>5

(* What is given at 0 and by the value before exists up to n. *)
Grows(f, n, a, F) == f[0] = a /\ \A k \in 1 .. n : f[k] = F[k][f[k - 1]]

LEMMA RecursionUpTo ==
  ASSUME NEW n \in Nat, NEW V, NEW a \in V, NEW F \in [1 .. n -> [V -> V]]
  PROVE  \E f \in [0 .. n -> V] : Grows(f, n, a, F)
<1> DEFINE T == {k \in 0 .. n : \E f \in [0 .. k -> V] : Grows(f, k, a, F)}
<1>1. 0 \in T
  <2>1. [k \in 0 .. 0 |-> a] \in [0 .. 0 -> V]
    OBVIOUS
  <2>2. Grows([k \in 0 .. 0 |-> a], 0, a, F)
    BY DEF Grows
  <2> QED
    BY <2>1, <2>2
<1>2. ASSUME NEW m \in 0 .. n - 1, m \in T
      PROVE  m + 1 \in T
  <2>1. PICK f \in [0 .. m -> V] : Grows(f, m, a, F)
    BY <1>2
  <2> DEFINE g == [k \in 0 .. m + 1 |-> IF k = m + 1 THEN F[m + 1][f[m]] ELSE f[k]]
  <2>2. m \in Nat /\ m + 1 \in 1 .. n /\ f[m] \in V
    OBVIOUS
  <2>3. F[m + 1][f[m]] \in V
    BY <2>2
  <2>4. g \in [0 .. m + 1 -> V]
    BY <2>2, <2>3
  <2>5. g[0] = a
    BY <2>1, <2>2 DEF Grows
  <2>6. ASSUME NEW k \in 1 .. m + 1
        PROVE  g[k] = F[k][g[k - 1]]
    <3>1. k - 1 \in 0 .. m /\ g[k - 1] = f[k - 1]
      BY <2>2
    <3>2. CASE k = m + 1
      BY <2>2, <3>1, <3>2
    <3>3. CASE k # m + 1
      <4>1. k \in 1 .. m /\ g[k] = f[k]
        BY <2>2, <3>3
      <4> QED
        BY <2>1, <3>1, <4>1 DEF Grows
    <3> QED
      BY <3>2, <3>3
  <2> HIDE DEF g
  <2>7. Grows(g, m + 1, a, F)
    BY <2>5, <2>6 DEF Grows
  <2> QED
    BY <2>2, <2>4, <2>7
<1> HIDE DEF T
<1>3. \A k \in 0 .. n : k \in T
  BY <1>1, <1>2, UpTo
<1>4. n \in T
  BY <1>3
<1> QED
  BY <1>4 DEF T

(* The powers of two are what their definition says. *)
LEMMA PowerRec ==
  /\ Power \in [0 .. WordBits -> Nat]
  /\ Power[0] = 1
  /\ \A k \in 1 .. WordBits : Power[k] = 2 * Power[k - 1]
<1> DEFINE W == WordBits
           F == [k \in 1 .. W |-> [v \in Nat |-> 2 * v]]
<1>1. W \in Nat /\ F \in [1 .. W -> [Nat -> Nat]]
  BY SizesAssumption
<1>2. PICK f \in [0 .. W -> Nat] : Grows(f, W, 1, F)
  BY <1>1, RecursionUpTo
<1>3. \A k \in 0 .. W : f[k] = IF k = 0 THEN 1 ELSE 2 * f[k - 1]
  <2> TAKE k \in 0 .. W
  <2>1. CASE k = 0
    BY <1>2, <2>1 DEF Grows
  <2>2. CASE k # 0
    <3>1. k \in 1 .. W /\ k - 1 \in 0 .. W
      BY <1>1, <2>2
    <3>2. f[k - 1] \in Nat
      BY <3>1
    <3>3. f[k] = F[k][f[k - 1]]
      BY <1>2, <3>1 DEF Grows
    <3> QED
      BY <2>2, <3>1, <3>2, <3>3
  <2> QED
    BY <2>1, <2>2
<1>4. f = [k \in 0 .. W |-> IF k = 0 THEN 1 ELSE 2 * f[k - 1]]
  BY <1>2, <1>3
<1>5. Power = [k \in 0 .. W |-> IF k = 0 THEN 1 ELSE 2 * Power[k - 1]]
  <2>1. Power = CHOOSE p : p = [k \in 0 .. W |-> IF k = 0 THEN 1 ELSE 2 * p[k - 1]]
    BY DEF Power
  <2> QED
    BY <1>4, <2>1
<1> HIDE DEF F, W
<1>6. ASSUME NEW k \in 0 .. W
      PROVE  Power[k] = IF k = 0 THEN 1 ELSE 2 * Power[k - 1]
  BY <1>5
<1> DEFINE T == {k \in 0 .. W : Power[k] = f[k]}
<1>7. 0 \in T
  BY <1>1, <1>2, <1>6 DEF Grows
<1>8. ASSUME NEW k \in 0 .. W - 1, k \in T
      PROVE  k + 1 \in T
  <2>1. k + 1 \in 0 .. W /\ k + 1 # 0 /\ (k + 1) - 1 = k
    BY <1>1
  <2> QED
    BY <1>3, <1>6, <1>8, <2>1
<1> HIDE DEF T
<1>9. \A k \in 0 .. W : k \in T
  BY <1>1, <1>7, <1>8, UpTo
<1>10. \A k \in 0 .. W : Power[k] = f[k]
  BY <1>9 DEF T
<1>11. Power = f
  <2>1. Power = [k \in 0 .. W |-> Power[k]]
    BY <1>5
  <2> QED
    BY <1>2, <1>10, <2>1
<1> QED
  BY <1>1, <1>2, <1>3, <1>11 DEF W

(* What a power is a multiple of, and the order of the powers. *)
LEMMA PowerFacts ==
  /\ \A k \in 0 .. WordBits : Power[k] \in Nat /\ Power[k] >= 1
  /\ Power[0] = 1 /\ Power[1] = 2 /\ Power[2] = 4 /\ Power[3] = 8
  /\ \A k \in 0 .. WordBits - 1 : Power[k + 1] = 2 * Power[k]
<1>1. WordBits \in Nat /\ WordBits >= 3
  BY SizesAssumption
<1>2. \A k \in 0 .. WordBits - 1 : Power[k + 1] = 2 * Power[k]
  <2> TAKE k \in 0 .. WordBits - 1
  <2>1. k + 1 \in 1 .. WordBits /\ (k + 1) - 1 = k
    BY <1>1
  <2> QED
    BY <2>1, PowerRec
<1>3. \A k \in 0 .. WordBits : Power[k] \in Nat
  BY PowerRec
<1> DEFINE T == {k \in 0 .. WordBits : Power[k] >= 1}
<1>4. 0 \in T
  BY <1>1, PowerRec
<1>5. ASSUME NEW k \in 0 .. WordBits - 1, k \in T
      PROVE  k + 1 \in T
  <2>1. k \in 0 .. WordBits /\ k + 1 \in 0 .. WordBits
    BY <1>1
  <2>2. Power[k + 1] = 2 * Power[k] /\ Power[k] \in Nat /\ Power[k] >= 1
    BY <1>2, <1>3, <1>5, <2>1
  <2> QED
    BY <2>1, <2>2
<1> HIDE DEF T
<1>6. \A k \in 0 .. WordBits : k \in T
  BY <1>1, <1>4, <1>5, UpTo
<1>7. \A k \in 0 .. WordBits : Power[k] >= 1
  BY <1>6 DEF T
<1>8. Power[1] = 2 * Power[0] /\ Power[2] = 2 * Power[1] /\ Power[3] = 2 * Power[2]
  <2>1. 1 \in 1 .. WordBits /\ 2 \in 1 .. WordBits /\ 3 \in 1 .. WordBits
    BY <1>1
  <2> QED
    BY <2>1, PowerRec
<1>9. Power[0] = 1
  BY PowerRec
<1>10. Power[1] = 2 /\ Power[2] = 4 /\ Power[3] = 8
  BY <1>8, <1>9
<1> QED
  BY <1>2, <1>3, <1>7, <1>9, <1>10

LEMMA PowerGrows ==
  ASSUME NEW i \in 0 .. WordBits, NEW j \in 0 .. WordBits
  PROVE  /\ i <= j => Power[i] <= Power[j]
         /\ i < j => 2 * Power[i] <= Power[j]
<1>1. WordBits \in Nat
  BY SizesAssumption
<1> DEFINE T == {k \in Nat : i + k <= WordBits => Power[i] <= Power[i + k]}
<1>2. 0 \in T
  BY <1>1, PowerFacts
<1>3. ASSUME NEW k \in 0 .. WordBits - 1, k \in T
      PROVE  k + 1 \in T
  <2>1. CASE i + k + 1 <= WordBits
    <3>1. i + k \in 0 .. WordBits - 1 /\ i + (k + 1) = (i + k) + 1 /\ i + k <= WordBits
      BY <1>1, <2>1
    <3>2. Power[i + (k + 1)] = 2 * Power[i + k] /\ Power[i + k] \in Nat /\ Power[i] \in Nat
      BY <1>1, <3>1, PowerFacts
    <3>3. Power[i] <= Power[i + k]
      BY <1>3, <3>1
    <3>4. Power[i] <= Power[i + (k + 1)]
      BY <3>2, <3>3
    <3> QED
      BY <3>4
  <2>2. CASE ~(i + k + 1 <= WordBits)
    BY <1>1, <2>2
  <2> QED
    BY <2>1, <2>2
<1> HIDE DEF T
<1>4. \A k \in 0 .. WordBits : k \in T
  BY <1>1, <1>2, <1>3, UpTo
<1>5. ASSUME NEW k \in 0 .. WordBits, i <= k
      PROVE  Power[i] <= Power[k]
  <2>1. k - i \in 0 .. WordBits /\ i + (k - i) = k /\ k <= WordBits
    BY <1>1, <1>5
  <2>2. k - i \in T
    BY <1>4, <2>1
  <2> QED
    BY <2>1, <2>2 DEF T
<1>6. ASSUME i < j
      PROVE  2 * Power[i] <= Power[j]
  <2>1. j - 1 \in 0 .. WordBits /\ i <= j - 1 /\ j \in 1 .. WordBits
    BY <1>1, <1>6
  <2>2. Power[i] <= Power[j - 1] /\ Power[j] = 2 * Power[j - 1]
    BY <1>5, <2>1, PowerRec
  <2>3. Power[i] \in Nat /\ Power[j - 1] \in Nat
    BY <2>1, PowerFacts
  <2> QED
    BY <2>2, <2>3
<1> QED
  BY <1>5, <1>6

(* The higher powers are multiples of 8, of 16 and of 32. *)
LEMMA PowerMultiple ==
  ASSUME NEW k \in 0 .. WordBits
  PROVE  /\ k >= 3 => \E q \in Nat : Power[k] = 8 * q
         /\ k >= 4 => \E q \in Nat : Power[k] = 16 * q
         /\ k >= 5 => \E q \in Nat : Power[k] = 32 * q
<1>1. WordBits \in Nat
  BY SizesAssumption
<1>2. ASSUME NEW i \in 0 .. WordBits, i >= 3
      PROVE  /\ i - 3 \in 0 .. WordBits /\ Power[i - 3] \in Nat
             /\ Power[i] = 8 * Power[i - 3]
  <2>1. i \in 1 .. WordBits /\ i - 1 \in 1 .. WordBits /\ i - 2 \in 1 .. WordBits
        /\ i - 3 \in 0 .. WordBits /\ (i - 1) - 1 = i - 2 /\ (i - 2) - 1 = i - 3
    BY <1>1, <1>2
  <2>2. Power[i] = 2 * Power[i - 1] /\ Power[i - 1] = 2 * Power[i - 2]
        /\ Power[i - 2] = 2 * Power[i - 3]
    BY <2>1, PowerRec
  <2>3. Power[i - 3] \in Nat
    BY <2>1, PowerFacts
  <2> QED
    BY <2>1, <2>2, <2>3
<1>3. ASSUME k >= 3
      PROVE  \E q \in Nat : Power[k] = 8 * q
  BY <1>2, <1>3
<1>4. ASSUME k >= 4
      PROVE  \E q \in Nat : Power[k] = 16 * q
  <2>1. Power[k] = 8 * Power[k - 3]
    BY <1>2, <1>4
  <2>2. k - 3 \in 1 .. WordBits /\ (k - 3) - 1 \in 0 .. WordBits
    BY <1>1, <1>4
  <2>3. Power[k - 3] = 2 * Power[(k - 3) - 1] /\ Power[(k - 3) - 1] \in Nat
    BY <2>2, PowerRec
  <2> QED
    BY <2>1, <2>3
<1>5. ASSUME k >= 5
      PROVE  \E q \in Nat : Power[k] = 32 * q
  <2>1. Power[k] = 8 * Power[k - 3]
    BY <1>2, <1>5
  <2>2. k - 3 \in 1 .. WordBits /\ k - 4 \in 1 .. WordBits /\ k - 5 \in 0 .. WordBits
        /\ (k - 3) - 1 = k - 4 /\ (k - 4) - 1 = k - 5
    BY <1>1, <1>5
  <2>3. Power[k - 3] = 2 * Power[k - 4] /\ Power[k - 4] = 2 * Power[k - 5]
        /\ Power[k - 5] \in Nat
    BY <2>2, PowerRec
  <2> QED
    BY <2>1, <2>3
<1> QED
  BY <1>3, <1>4, <1>5

(* Quotient and remainder are the only such pair. *)
LEMMA QuotientUnique ==
  ASSUME NEW q \in Nat, NEW o \in Nat, NEW r \in Nat, NEW n \in Nat,
         o < r, n = q * r + o
  PROVE  n \div r = q /\ n % r = o
<1>1. q * r \in Nat
  BY SMT
<1>2. n = r * (n \div r) + (n % r) /\ 0 <= n % r /\ n % r < r
  BY SMT
<1>3. n \div r = q
  BY <1>1, <1>2, SMT
<1> QED
  BY <1>1, <1>2, <1>3, SMT

(* The position of the highest bit of m. *)
HighestBit(m, b) ==
  /\ b \in 0 .. WordBits - 1
  /\ Power[b] <= m /\ m < Power[b + 1]

LEMMA HighestBitUnique ==
  ASSUME NEW m \in Nat, NEW b, NEW c, HighestBit(m, b), HighestBit(m, c)
  PROVE  b = c
<1>1. WordBits \in Nat
  BY SizesAssumption
<1>2. /\ b \in 0 .. WordBits /\ b + 1 \in 0 .. WordBits
      /\ c \in 0 .. WordBits /\ c + 1 \in 0 .. WordBits
  BY <1>1 DEF HighestBit
<1>3. /\ Power[b] \in Nat /\ Power[b + 1] \in Nat
      /\ Power[c] \in Nat /\ Power[c + 1] \in Nat
  BY <1>2, PowerFacts
<1>4. ~(b < c)
  <2>1. b + 1 <= c => Power[b + 1] <= Power[c]
    BY <1>2, PowerGrows
  <2> QED
    BY <1>2, <1>3, <2>1 DEF HighestBit
<1>5. ~(c < b)
  <2>1. c + 1 <= b => Power[c + 1] <= Power[b]
    BY <1>2, PowerGrows
  <2> QED
    BY <1>2, <1>3, <2>1 DEF HighestBit
<1> QED
  BY <1>2, <1>4, <1>5

(* A number that fits a word has a highest bit, and the instruction at run *)
(* time finds it.                                                          *)
LEMMA ScanFindsBit ==
  ASSUME NEW m \in Nat, m >= 1, m < Power[WordBits]
  PROVE  HighestBit(m, BitScanReverse(m))
<1>1. WordBits \in Nat /\ WordBits \in 0 .. WordBits
  BY SizesAssumption
<1> DEFINE T == {k \in 0 .. WordBits : m < Power[k] => \E b : HighestBit(m, b)}
<1>2. 0 \in T
  BY <1>1, PowerFacts
<1>3. ASSUME NEW k \in 0 .. WordBits - 1, k \in T
      PROVE  k + 1 \in T
  <2>1. k \in 0 .. WordBits /\ k + 1 \in 0 .. WordBits
    BY <1>1
  <2>2. Power[k] \in Nat
    BY <2>1, PowerFacts
  <2>3. CASE m < Power[k]
    BY <1>3, <2>1, <2>3
  <2>4. CASE ~(m < Power[k])
    <3>1. m < Power[k + 1] => HighestBit(m, k)
      BY <2>2, <2>4 DEF HighestBit
    <3> QED
      BY <2>1, <3>1
  <2> QED
    BY <2>3, <2>4
<1> HIDE DEF T
<1>4. \A k \in 0 .. WordBits : k \in T
  BY <1>1, <1>2, <1>3, UpTo
<1>5. WordBits \in T
  BY <1>1, <1>4
<1>6. PICK b : HighestBit(m, b)
  BY <1>5 DEF T
<1>7. \E bitpos \in 0 .. WordBits - 1 : Power[bitpos] <= m /\ m < Power[bitpos + 1]
  BY <1>6 DEF HighestBit
<1> QED
  BY <1>7 DEF BitScanReverse, HighestBit

(* The loop at compile time finds the same bit. *)
LEMMA LoopFindsBit ==
  ASSUME NEW m \in Nat, m >= 1, m < Power[WordBits]
  PROVE  UpperNonZeroBitPos(m) = BitScanReverse(m)
<1> DEFINE b == BitScanReverse(m)
           n == WordBits - 1
           Set(k) == (m \div Power[k]) % 2 = 1
<1>1. WordBits \in Nat /\ n \in Nat /\ n \in 0 .. n
  BY SizesAssumption
<1>2. HighestBit(m, b)
  BY ScanFindsBit
<1> HIDE DEF b
<1>3. b \in 0 .. n
  BY <1>2 DEF HighestBit
<1>4. b = 0 \/ Set(b)
  <2>1. b \in 0 .. WordBits - 1 /\ b \in 0 .. WordBits
    BY <1>1, <1>3
  <2>2. Power[b] \in Nat /\ Power[b] >= 1 /\ Power[b + 1] = 2 * Power[b]
    BY <2>1, PowerFacts
  <2>3. m - Power[b] \in Nat /\ m - Power[b] < Power[b] /\ m = 1 * Power[b] + (m - Power[b])
    BY <1>2, <2>2 DEF HighestBit
  <2>4. m \div Power[b] = 1
    BY <2>2, <2>3, QuotientUnique
  <2> QED
    BY <2>4
<1>5. ASSUME NEW k \in 0 .. n, b < k
      PROVE  k # 0 /\ ~Set(k)
  <2>1. /\ k \in 0 .. WordBits /\ b + 1 \in 0 .. WordBits /\ b + 1 <= k /\ k # 0
        /\ k \in Nat /\ b \in Nat
    BY <1>1, <1>3, <1>5
  <2>2. Power[b + 1] <= Power[k] /\ Power[k] \in Nat /\ Power[b + 1] \in Nat
    BY <2>1, PowerGrows, PowerFacts
  <2>3. m < Power[k] /\ m = 0 * Power[k] + m
    BY <1>2, <2>2 DEF HighestBit
  <2>4. m \div Power[k] = 0
    BY <2>2, <2>3, QuotientUnique
  <2> QED
    BY <2>1, <2>4
<1> HIDE DEF Set
<1> DEFINE F == [k \in 1 .. n |-> [v \in 0 .. n |-> IF Set(k) THEN k ELSE v]]
<1>6. F \in [1 .. n -> [0 .. n -> 0 .. n]]
  BY <1>1
<1>7. PICK f \in [0 .. n -> 0 .. n] : Grows(f, n, 0, F)
  <2>1. 0 \in 0 .. n
    BY <1>1
  <2> QED
    BY <1>1, <1>6, <2>1, RecursionUpTo
<1> DEFINE Goes(d) == d = [k \in 0 .. n |-> IF k = 0 \/ Set(k) THEN k ELSE d[k - 1]]
<1>8. Goes(f)
  <2>1. \A k \in 0 .. n : f[k] = IF k = 0 \/ Set(k) THEN k ELSE f[k - 1]
    <3> TAKE k \in 0 .. n
    <3>1. CASE k = 0
      BY <1>7, <3>1 DEF Grows
    <3>2. CASE k # 0
      <4>1. k \in 1 .. n /\ k - 1 \in 0 .. n
        BY <1>1, <3>2
      <4>2. f[k - 1] \in 0 .. n
        BY <4>1
      <4>3. f[k] = F[k][f[k - 1]]
        BY <1>7, <4>1 DEF Grows
      <4> QED
        BY <3>2, <4>1, <4>2, <4>3
    <3> QED
      BY <3>1, <3>2
  <2> QED
    BY <1>7, <2>1
<1> HIDE DEF F
<1> DEFINE down == CHOOSE d : Goes(d)
<1>9. Goes(down)
  BY <1>8
<1> HIDE DEF down
<1>10. \A k \in 0 .. n : down[k] = IF k = 0 \/ Set(k) THEN k ELSE down[k - 1]
  BY <1>9
<1> HIDE DEF Goes
<1> DEFINE T == {k \in Nat : b + k <= n => down[b + k] = b}
<1>11. 0 \in T
  <2>1. down[b] = b
    BY <1>3, <1>4, <1>10
  <2> QED
    BY <1>3, <2>1
<1>12. ASSUME NEW k \in 0 .. n - 1, k \in T
       PROVE  k + 1 \in T
  <2>1. CASE b + (k + 1) <= n
    <3>1. /\ b + (k + 1) \in 0 .. n /\ b < b + (k + 1) /\ b + k <= n
          /\ (b + (k + 1)) - 1 = b + k
      BY <1>1, <1>3, <2>1
    <3>2. b + (k + 1) # 0 /\ ~Set(b + (k + 1))
      BY <1>5, <3>1
    <3>3. down[b + (k + 1)] = down[b + k]
      BY <1>10, <3>1, <3>2
    <3>4. down[b + k] = b
      BY <1>12, <3>1
    <3> QED
      BY <3>3, <3>4
  <2>2. CASE ~(b + (k + 1) <= n)
    BY <2>2
  <2> QED
    BY <2>1, <2>2
<1> HIDE DEF T
<1>13. \A k \in 0 .. n : k \in T
  BY <1>1, <1>11, <1>12, UpTo
<1>14. n - b \in T /\ b + (n - b) = n
  <2>1. n - b \in 0 .. n
    BY <1>1, <1>3
  <2> QED
    BY <1>1, <1>3, <1>13, <2>1
<1>15. down[n] = b
  BY <1>1, <1>14 DEF T
<1>16. UpperNonZeroBitPos(m) = down[WordBits - 1]
  BY DEF UpperNonZeroBitPos, down, Goes, Set
<1> QED
  BY <1>15, <1>16 DEF b

(* Rounding up: to a multiple, not below, by less than the unit. *)
LEMMA Rounded ==
  ASSUME NEW n \in Nat, NEW unit \in Nat, unit >= 1
  PROVE  /\ alignUp(n, unit) \in Nat
         /\ n <= alignUp(n, unit) /\ alignUp(n, unit) <= n + unit - 1
         /\ \E q \in Nat : alignUp(n, unit) = q * unit
<1> DEFINE m == n + unit - 1
           q == m \div unit
<1>1. m \in Nat
  OBVIOUS
<1> HIDE DEF m
<1>2. q \in Nat /\ m = unit * q + (m % unit) /\ 0 <= m % unit /\ m % unit < unit
      /\ m % unit \in Int
  BY <1>1, SMT
<1>3. alignUp(n, unit) = q * unit
  BY DEF alignUp, m, q
<1> HIDE DEF q
<1>4. q * unit = unit * q /\ q * unit \in Nat
  BY <1>2, SMT
<1>5. m = n + unit - 1
  BY DEF m
<1> DEFINE p == q * unit
           o == m % unit
<1>6. p \in Nat /\ m = p + o /\ o \in Int /\ 0 <= o /\ o < unit
  BY <1>2, <1>4
<1> HIDE DEF p, o
<1>7. n <= p /\ p <= n + unit - 1
  BY <1>1, <1>5, <1>6
<1> QED
  BY <1>2, <1>3, <1>6, <1>7 DEF p

(* To a multiple of 8, by linear arithmetic. *)
LEMMA Rounded8 ==
  ASSUME NEW n \in Nat
  PROVE  /\ alignUp(n, 8) \in Nat /\ n <= alignUp(n, 8)
         /\ alignUp(n, 8) % 8 = 0
         /\ n % 8 = 0 => alignUp(n, 8) = n
         /\ \A k \in Nat : n <= k => alignUp(n, 8) <= alignUp(k, 8)
  BY DEF alignUp

(* The size of a bucket, by the power it is made from: an even index is    *)
(* that power, an odd one half as much more.                               *)
LEMMA BucketSizes ==
  ASSUME NEW c \in 0 .. WordBits - 3
  PROVE  /\ indexToBucketSize(2 * c) = Power[c + 3]
         /\ indexToBucketSize(2 * c + 1) = alignUp(Power[c + 3] + Power[c + 2], 8)
         /\ c >= 1 => indexToBucketSize(2 * c + 1) = Power[c + 3] + Power[c + 2]
         /\ c = 0 => indexToBucketSize(2 * c + 1) = 16
<1>1. WordBits \in Nat /\ c \in Nat
      /\ c + 2 \in 0 .. WordBits /\ c + 3 \in 0 .. WordBits
  BY SizesAssumption
<1>2. Power[c + 3] \in Nat /\ Power[c + 2] \in Nat
  BY <1>1, PowerFacts
<1>3. (2 * c) \div 2 = c /\ (2 * c) % 2 = 0
      /\ (2 * c + 1) \div 2 = c /\ (2 * c + 1) % 2 = 1
  BY <1>1
<1>4. indexToBucketSize(2 * c) = alignUp(Power[c + 3] + 0, 8)
  BY <1>3 DEF indexToBucketSize
<1>5. indexToBucketSize(2 * c + 1) = alignUp(Power[c + 3] + Power[c + 2], 8)
  BY <1>3 DEF indexToBucketSize
<1>6. PICK q \in Nat : Power[c + 3] = 8 * q
  BY <1>1, PowerMultiple
<1>7. indexToBucketSize(2 * c) = Power[c + 3]
  <2>1. Power[c + 3] + 0 = Power[c + 3] /\ Power[c + 3] % 8 = 0
    BY <1>6
  <2> QED
    BY <1>2, <1>4, <2>1, Rounded8
<1>8. ASSUME c >= 1
      PROVE  indexToBucketSize(2 * c + 1) = Power[c + 3] + Power[c + 2]
  <2>1. PICK p \in Nat : Power[c + 2] = 8 * p
    <3>1. c + 2 >= 3
      BY <1>1, <1>8
    <3> QED
      BY <1>1, <3>1, PowerMultiple
  <2>2. (Power[c + 3] + Power[c + 2]) % 8 = 0
    BY <1>6, <2>1
  <2> QED
    BY <1>2, <1>5, <2>2, Rounded8
<1>9. ASSUME c = 0
      PROVE  indexToBucketSize(2 * c + 1) = 16
  <2>1. Power[c + 3] = 8 /\ Power[c + 2] = 4
    BY <1>9, PowerFacts
  <2>2. indexToBucketSize(2 * c + 1) = alignUp(12, 8)
    BY <1>5, <2>1
  <2> QED
    BY <2>2 DEF alignUp
<1> QED
  BY <1>5, <1>7, <1>8, <1>9

(* The sizes grow with the index. *)
LEMMA BucketSizesGrow ==
  ASSUME NEW i \in Nat, NEW j \in Nat, i <= j, (j \div 2) + 3 <= WordBits
  PROVE  /\ indexToBucketSize(i) \in Nat
         /\ indexToBucketSize(i) <= indexToBucketSize(j)
<1> DEFINE Raw(k) == Power[(k \div 2) + 3]
                       + (IF k % 2 = 1 THEN Power[(k \div 2) + 2] ELSE 0)
           c == i \div 2
           d == j \div 2
<1>1. WordBits \in Nat /\ c \in Nat /\ d \in Nat /\ c <= d
      /\ c + 3 \in 0 .. WordBits /\ d + 3 \in 0 .. WordBits
      /\ c + 2 \in 0 .. WordBits /\ d + 2 \in 0 .. WordBits
      /\ (c = d => (i % 2 = 1 => j % 2 = 1))
  BY SizesAssumption
<1>2. /\ Power[c + 3] \in Nat /\ Power[c + 2] \in Nat
      /\ Power[d + 3] \in Nat /\ Power[d + 2] \in Nat
  BY <1>1, PowerFacts
<1>3. Power[c + 3] = 2 * Power[c + 2]
  <2>1. c + 2 \in 0 .. WordBits - 1 /\ (c + 2) + 1 = c + 3
    BY <1>1
  <2> QED
    BY <2>1, PowerFacts
<1>4. Raw(i) = Power[c + 3] + (IF i % 2 = 1 THEN Power[c + 2] ELSE 0)
      /\ Raw(j) = Power[d + 3] + (IF j % 2 = 1 THEN Power[d + 2] ELSE 0)
  OBVIOUS
<1>5. indexToBucketSize(i) = alignUp(Raw(i), 8)
      /\ indexToBucketSize(j) = alignUp(Raw(j), 8)
  BY DEF indexToBucketSize
<1> HIDE DEF Raw
<1>6. c < d => 2 * Power[c + 3] <= Power[d + 3]
  <2>1. c < d => c + 3 < d + 3
    BY <1>1
  <2> QED
    BY <1>1, <2>1, PowerGrows
<1>7. CASE c = d
  <2>1. Raw(i) \in Nat /\ Raw(j) \in Nat /\ Raw(i) <= Raw(j)
    BY <1>1, <1>2, <1>4, <1>7
  <2> QED
    BY <1>5, <2>1, Rounded8
<1>8. CASE c < d
  <2> HIDE DEF c, d
  <2>1. Raw(i) \in Nat /\ Raw(j) \in Nat /\ Raw(i) <= Raw(j)
    BY <1>2, <1>3, <1>4, <1>6, <1>8
  <2> QED
    BY <1>5, <2>1, Rounded8
<1> QED
  BY <1>1, <1>7, <1>8

(* The class of a size n above 8, with P the second highest power of n - 1:*)
(* up to 3 * P an odd index, above it the even one after it.               *)
LEMMA ClassOf ==
  ASSUME NEW n \in Nat, n > 8, n <= Power[WordBits], n <= MaxBucketSize
  PROVE  \E c \in 0 .. WordBits - 4 :
           LET P == Power[c + 2]
           IN  /\ 2 * P < n /\ n <= 4 * P
               /\ sizeToIndex(n) = IF n <= 3 * P THEN 2 * c + 1 ELSE 2 * c + 2
               /\ sizeToIndex(n) < BucketCount
<1> DEFINE m == n - 1
           b == BitScanReverse(m)
           P == Power[b - 1]
           d == (m \div P) % 2
<1>1. WordBits \in Nat /\ WordBits >= 3 /\ Power[WordBits] \in Nat
  <2>1. WordBits \in Nat /\ WordBits >= 3
    BY SizesAssumption
  <2> QED
    BY <2>1, PowerFacts
<1>2. m \in Nat /\ m >= 8 /\ m < Power[WordBits] /\ m = n - 1
  BY <1>1
<1>3. HighestBit(m, b)
  BY <1>2, ScanFindsBit
<1>4. sizeToIndex(n) = ((b - 2) * 2 + d - 1) % 256
  BY DEF sizeToIndex, HalfExpIndex
<1> HIDE DEF b, m
<1>5. b >= 3 /\ b \in 0 .. WordBits - 1
  <2>1. b \in 0 .. WordBits - 1
    BY <1>3 DEF HighestBit
  <2>2. b + 1 <= 3 => Power[b + 1] <= Power[3]
    <3>1. b + 1 \in 0 .. WordBits /\ 3 \in 0 .. WordBits
      BY <1>1, <2>1
    <3> QED
      BY <3>1, PowerGrows
  <2>3. Power[3] = 8 /\ Power[b + 1] \in Nat
    <3>1. b + 1 \in 0 .. WordBits
      BY <1>1, <2>1
    <3> QED
      BY <3>1, PowerFacts
  <2>4. m < Power[b + 1]
    BY <1>3 DEF HighestBit
  <2> QED
    BY <1>1, <1>2, <2>1, <2>2, <2>3, <2>4
<1>6. /\ b \in Int /\ b - 1 \in 0 .. WordBits - 1 /\ (b - 1) + 1 = b
      /\ b \in 0 .. WordBits /\ b - 1 \in 0 .. WordBits
  BY <1>1, <1>5
<1>7. P \in Nat /\ P >= 1 /\ Power[b] = 2 * P /\ Power[b + 1] = 4 * P
  <2>1. P \in Nat /\ P >= 1
    BY <1>6, PowerFacts
  <2>2. Power[b] = 2 * P
    BY <1>6, PowerFacts
  <2>3. Power[b + 1] = 2 * Power[b]
    BY <1>5, PowerFacts
  <2> QED
    BY <2>1, <2>2, <2>3
<1> HIDE DEF P
<1>8. 2 * P <= m /\ m < 4 * P
  BY <1>3, <1>7 DEF HighestBit
<1>9. d = IF m < 3 * P THEN 0 ELSE 1
  <2>1. CASE m < 3 * P
    <3> DEFINE o == m - 2 * P
    <3>1. m \in Nat /\ P \in Nat /\ o \in Nat /\ o < P /\ m = 2 * P + o
      BY <1>2, <1>7, <1>8, <2>1
    <3> HIDE DEF o
    <3>2. m \div P = 2
      BY <3>1, QuotientUnique
    <3> QED
      BY <2>1, <3>2
  <2>2. CASE ~(m < 3 * P)
    <3> DEFINE o == m - 3 * P
    <3>1. m \in Nat /\ P \in Nat /\ o \in Nat /\ o < P /\ m = 3 * P + o
      BY <1>2, <1>7, <1>8, <2>2
    <3> HIDE DEF o
    <3>2. m \div P = 3
      BY <3>1, QuotientUnique
    <3> QED
      BY <2>2, <3>2
  <2> QED
    BY <2>1, <2>2
<1> HIDE DEF d
<1>10. 2 * b - 4 < BucketCount
  <2>1. PICK top \in 0 .. WordBits : 2 * top - 6 < BucketCount /\ MaxBucketSize <= Power[top]
    BY SizesAssumption
  <2>2. Power[top] \in Nat
    BY <2>1, PowerFacts
  <2>3. top <= b => Power[top] <= Power[b]
    BY <1>6, PowerGrows
  <2>4. MaxBucketSize \in Int
    BY SizesAssumption
  <2>5. b < top
    BY <1>1, <1>2, <1>5, <1>7, <1>8, <2>1, <2>2, <2>3, <2>4
  <2> QED
    BY <1>1, <1>5, <2>1, <2>5 DEF BucketCount
<1> DEFINE c == b - 3
           h == IF n <= 3 * P THEN 2 * c + 1 ELSE 2 * c + 2
<1>11. c \in 0 .. WordBits - 4 /\ c + 2 = b - 1
  BY <1>1, <1>5
<1>12. h = (b - 2) * 2 + d - 1 /\ h \in Nat /\ h < BucketCount
  BY <1>1, <1>2, <1>5, <1>7, <1>9, <1>10 DEF BucketCount
<1>13. sizeToIndex(n) = h
  <2>1. h % 256 = h
    BY <1>12 DEF BucketCount
  <2> QED
    BY <1>4, <1>12, <2>1
<1>14. P = Power[c + 2]
  BY <1>11 DEF P
<1>15. 2 * P < n /\ n <= 4 * P
  BY <1>2, <1>7, <1>8
<1> HIDE DEF c
<1> QED
  BY <1>11, <1>12, <1>13, <1>14, <1>15

(* What the sizes a and b of two neighbouring buckets are around P, by the *)
(* place c of P among the powers; and what P is a multiple of.             *)
LEMMA Neighbours ==
  ASSUME NEW c \in 0 .. WordBits - 4
  PROVE  LET P == Power[c + 2]
         IN  /\ P \in Nat /\ P >= 1
             /\ indexToBucketSize(2 * c) = 2 * P
             /\ indexToBucketSize(2 * c + 1) = IF c = 0 THEN 16 ELSE 3 * P
             /\ indexToBucketSize(2 * c + 2) = 4 * P
             /\ c = 0 => P = 4
             /\ P > 8 => \E q \in Nat : P = 16 * q
             /\ P > 16 => \E q \in Nat : P = 32 * q
             /\ c >= 1 => \E q \in Nat : P = 8 * q
<1> DEFINE P == Power[c + 2]
<1>1. WordBits \in Nat /\ c \in Nat
  BY SizesAssumption
<1>2. /\ c \in 0 .. WordBits - 3 /\ c + 1 \in 0 .. WordBits - 3
      /\ 2 * (c + 1) = 2 * c + 2 /\ (c + 1) + 3 = (c + 3) + 1 /\ c + 3 = (c + 2) + 1
      /\ c + 2 \in 0 .. WordBits - 1 /\ c + 3 \in 0 .. WordBits - 1
      /\ c + 2 \in 0 .. WordBits
  BY <1>1
<1>3. /\ P \in Nat /\ P >= 1
      /\ Power[c + 3] = 2 * P /\ Power[(c + 3) + 1] = 2 * Power[c + 3]
  BY <1>2, PowerFacts
<1>4. c = 0 => P = 4
  BY PowerFacts
<1>5. indexToBucketSize(2 * c) = 2 * P
  BY <1>2, <1>3, BucketSizes
<1>6. indexToBucketSize(2 * c + 1) = IF c = 0 THEN 16 ELSE 3 * P
  <2>1. CASE c = 0
    BY <1>2, <2>1, BucketSizes
  <2>2. CASE c # 0
    <3>1. indexToBucketSize(2 * c + 1) = Power[c + 3] + P
      BY <1>1, <1>2, <2>2, BucketSizes
    <3> QED
      BY <1>3, <2>2, <3>1
  <2> QED
    BY <2>1, <2>2
<1>7. indexToBucketSize(2 * c + 2) = 4 * P
  <2>1. indexToBucketSize(2 * (c + 1)) = Power[(c + 1) + 3]
    BY <1>2, BucketSizes
  <2> QED
    BY <1>2, <1>3, <2>1
<1>8. P > 8 => \E q \in Nat : P = 16 * q
  <2>1. c + 2 <= 3 => P <= Power[3]
    <3>1. 3 \in 0 .. WordBits
      BY SizesAssumption
    <3> QED
      BY <1>2, <3>1, PowerGrows
  <2>2. Power[3] = 8
    BY PowerFacts
  <2>3. P > 8 => c + 2 >= 4
    BY <1>1, <1>3, <2>1, <2>2
  <2> QED
    BY <1>2, <2>3, PowerMultiple
<1>9. P > 16 => \E q \in Nat : P = 32 * q
  <2>1. c + 2 <= 4 => P <= 16
    <3>1. 3 \in 0 .. WordBits - 1 /\ 4 \in 0 .. WordBits /\ 3 + 1 = 4
      BY <1>1, <1>2
    <3>2. Power[4] = 16
      <4>1. Power[3 + 1] = 2 * Power[3] /\ Power[3] = 8
        BY <3>1, PowerFacts
      <4> QED
        BY <4>1
    <3>3. c + 2 <= 4 => P <= Power[4]
      BY <1>2, <3>1, PowerGrows
    <3> QED
      BY <3>2, <3>3
  <2>2. P > 16 => c + 2 >= 5
    BY <1>1, <1>3, <2>1
  <2> QED
    BY <1>2, <2>2, PowerMultiple
<1>10. c >= 1 => \E q \in Nat : P = 8 * q
  <2>1. c >= 1 => c + 2 >= 3
    BY <1>1
  <2> QED
    BY <1>2, <2>1, PowerMultiple
<1> HIDE DEF P
<1>11. /\ P \in Nat /\ P >= 1
       /\ indexToBucketSize(2 * c) = 2 * P
       /\ indexToBucketSize(2 * c + 1) = IF c = 0 THEN 16 ELSE 3 * P
       /\ indexToBucketSize(2 * c + 2) = 4 * P
       /\ c = 0 => P = 4
       /\ P > 8 => \E q \in Nat : P = 16 * q
       /\ P > 16 => \E q \in Nat : P = 32 * q
       /\ c >= 1 => \E q \in Nat : P = 8 * q
  BY <1>3, <1>4, <1>5, <1>6, <1>7, <1>8, <1>9, <1>10
<1> QED
  BY <1>11 DEF P

(* Sizes served from buckets fit a word. *)
LEMMA FitsWord ==
  ASSUME NEW n \in Nat, n <= MaxBucketSize
  PROVE  n <= Power[WordBits]
<1>1. PICK top \in 0 .. WordBits : MaxBucketSize <= Power[top]
  BY SizesAssumption
<1>2. WordBits \in 0 .. WordBits /\ top <= WordBits /\ MaxBucketSize \in Int
  BY SizesAssumption
<1>3. Power[top] <= Power[WordBits] /\ Power[top] \in Nat /\ Power[WordBits] \in Nat
  BY <1>1, <1>2, PowerGrows, PowerFacts
<1> QED
  BY <1>1, <1>2, <1>3

(* The bucket of size s at index ix, for a request of n bytes. *)
Serves(ix, s, n) ==
  /\ ix \in 0 .. BucketCount - 1
  /\ s \in Nat /\ n <= s /\ s % 8 = 0
  /\ n >= 8 => s <= 2 * n
  /\ n > 24 => s % 16 = 0
  /\ n > 48 => s % 32 = 0

LEMMA BucketServes ==
  ASSUME NEW n \in Nat, n <= MaxBucketSize
  PROVE  Serves(sizeToIndex(n), indexToBucketSize(sizeToIndex(n)), n)
<1>1. CASE n <= 8
  <2>1. sizeToIndex(n) = 0
    BY <1>1 DEF sizeToIndex
  <2>2. indexToBucketSize(0) = 8
    <3>1. 0 \in 0 .. WordBits - 3 /\ 2 * 0 = 0 /\ 0 + 3 = 3
      BY SizesAssumption
    <3>2. indexToBucketSize(2 * 0) = Power[0 + 3]
      BY <3>1, BucketSizes
    <3> QED
      BY <3>1, <3>2, PowerFacts
  <2> QED
    BY <1>1, <2>1, <2>2 DEF Serves, BucketCount
<1>2. CASE ~(n <= 8)
  <2>1. n > 8 /\ n <= Power[WordBits]
    BY <1>2, FitsWord
  <2>2. PICK c \in 0 .. WordBits - 4 :
          /\ 2 * Power[c + 2] < n /\ n <= 4 * Power[c + 2]
          /\ sizeToIndex(n) = IF n <= 3 * Power[c + 2] THEN 2 * c + 1 ELSE 2 * c + 2
          /\ sizeToIndex(n) < BucketCount
    BY <2>1, ClassOf
  <2> DEFINE P == Power[c + 2]
             ix == sizeToIndex(n)
             s == indexToBucketSize(ix)
  <2>3. c \in Nat
    BY SizesAssumption
  <2>4. /\ P \in Nat /\ P >= 1
        /\ indexToBucketSize(2 * c + 1) = IF c = 0 THEN 16 ELSE 3 * P
        /\ indexToBucketSize(2 * c + 2) = 4 * P
        /\ c = 0 => P = 4
        /\ P > 8 => \E q \in Nat : P = 16 * q
        /\ P > 16 => \E q \in Nat : P = 32 * q
        /\ c >= 1 => \E q \in Nat : P = 8 * q
    BY Neighbours
  <2>5. /\ 2 * P < n /\ n <= 4 * P
        /\ ix = IF n <= 3 * P THEN 2 * c + 1 ELSE 2 * c + 2
        /\ ix < BucketCount
    BY <2>2
  <2> HIDE DEF P, ix
  <2>6. ix \in 0 .. BucketCount - 1
    BY <2>3, <2>5 DEF BucketCount
  <2>7. CASE n <= 3 * P
    <3>1. s = IF c = 0 THEN 16 ELSE 3 * P
      BY <2>4, <2>5, <2>7
    <3> HIDE DEF s
    <3>2. ASSUME c = 0
          PROVE  Serves(ix, s, n)
      <4>1. s = 16 /\ n > 8 /\ n <= 12
        BY <2>1, <2>4, <2>7, <3>1, <3>2
      <4> QED
        BY <2>6, <4>1 DEF Serves
    <3>3. ASSUME c # 0
          PROVE  Serves(ix, s, n)
      <4>1. s = 3 * P /\ s \in Nat /\ n <= s /\ s <= 2 * n
        BY <2>4, <2>5, <2>7, <3>1, <3>3
      <4>2. s % 8 = 0
        <5>1. PICK q \in Nat : P = 8 * q
          BY <2>3, <2>4, <3>3
        <5> QED
          BY <4>1, <5>1
      <4>3. ASSUME n > 24
            PROVE  s % 16 = 0
        <5>1. PICK q \in Nat : P = 16 * q
          BY <2>4, <2>7, <4>3
        <5> QED
          BY <4>1, <5>1
      <4>4. ASSUME n > 48
            PROVE  s % 32 = 0
        <5>1. PICK q \in Nat : P = 32 * q
          BY <2>4, <2>7, <4>4
        <5> QED
          BY <4>1, <5>1
      <4> QED
        BY <2>6, <4>1, <4>2, <4>3, <4>4 DEF Serves
    <3>4. Serves(ix, s, n)
      BY <3>2, <3>3
    <3> QED
      BY <3>4 DEF s, ix
  <2>8. CASE ~(n <= 3 * P)
    <3>1. s = 4 * P
      BY <2>4, <2>5, <2>8
    <3> HIDE DEF s
    <3>2. s \in Nat /\ n <= s /\ s <= 2 * n
      BY <2>4, <2>5, <3>1
    <3>3. s % 8 = 0 /\ (n > 24 => s % 32 = 0)
      <4>1. CASE c = 0
        BY <2>4, <2>5, <3>1, <4>1
      <4>2. CASE c # 0
        <5>1. PICK q \in Nat : P = 8 * q
          BY <2>3, <2>4, <4>2
        <5> QED
          BY <3>1, <5>1
      <4> QED
        BY <4>1, <4>2
    <3>4. s % 32 = 0 => s % 16 = 0
      BY <3>2
    <3>5. Serves(ix, s, n)
      BY <2>6, <3>2, <3>3, <3>4 DEF Serves
    <3> QED
      BY <3>5 DEF s, ix
  <2> QED
    BY <2>7, <2>8
<1> QED
  BY <1>1, <1>2

(* Buckets before it are too small, or of the same size. *)
LEMMA BucketSmallest ==
  ASSUME NEW n \in Nat, n <= MaxBucketSize,
         NEW j \in 0 .. sizeToIndex(n) - 1
  PROVE  \/ indexToBucketSize(j) < n
         \/ indexToBucketSize(j) = indexToBucketSize(sizeToIndex(n))
<1>1. sizeToIndex(n) \in Nat /\ j \in Nat
  BY BucketServes DEF Serves, BucketCount
<1>2. n > 8 /\ n <= Power[WordBits]
  <2>1. n > 8
    BY <1>1 DEF sizeToIndex
  <2> QED
    BY <2>1, FitsWord
<1>3. PICK c \in 0 .. WordBits - 4 :
        /\ 2 * Power[c + 2] < n /\ n <= 4 * Power[c + 2]
        /\ sizeToIndex(n) = IF n <= 3 * Power[c + 2] THEN 2 * c + 1 ELSE 2 * c + 2
  BY <1>2, ClassOf
<1> DEFINE P == Power[c + 2]
           ix == sizeToIndex(n)
<1>4. c \in Nat /\ WordBits \in Nat /\ c + 3 <= WordBits
  BY SizesAssumption
<1>5. /\ P \in Nat
      /\ indexToBucketSize(2 * c) = 2 * P
      /\ indexToBucketSize(2 * c + 1) = IF c = 0 THEN 16 ELSE 3 * P
      /\ indexToBucketSize(2 * c + 2) = 4 * P
      /\ c = 0 => P = 4
  BY Neighbours
<1>6. /\ 2 * P < n
      /\ ix = IF n <= 3 * P THEN 2 * c + 1 ELSE 2 * c + 2
  BY <1>3
<1>7. j \in 0 .. ix - 1
  OBVIOUS
<1> HIDE DEF P, ix
<1>8. (2 * c) \div 2 + 3 <= WordBits /\ (2 * c + 1) \div 2 + 3 <= WordBits
      /\ 2 * c \in Nat /\ 2 * c + 1 \in Nat
  BY <1>4
<1>9. CASE n <= 3 * P
  <2>1. j <= 2 * c
    BY <1>4, <1>6, <1>7, <1>9
  <2>2. indexToBucketSize(j) \in Nat /\ indexToBucketSize(j) <= indexToBucketSize(2 * c)
    BY <1>1, <1>8, <2>1, BucketSizesGrow
  <2> QED
    BY <1>5, <1>6, <2>2
<1>10. CASE ~(n <= 3 * P)
  <2>1. j <= 2 * c + 1
    BY <1>4, <1>6, <1>7, <1>10
  <2>2. indexToBucketSize(j) \in Nat /\ indexToBucketSize(j) <= indexToBucketSize(2 * c + 1)
    BY <1>1, <1>8, <2>1, BucketSizesGrow
  <2>3. CASE c # 0
    BY <1>5, <1>10, <2>2, <2>3
  <2>4. CASE c = 0 /\ j = 2 * c + 1
    <3>1. indexToBucketSize(j) = 16 /\ indexToBucketSize(ix) = 16
      BY <1>5, <1>6, <1>10, <2>4
    <3> QED
      BY <3>1 DEF ix
  <2>5. CASE c = 0 /\ j # 2 * c + 1
    <3>1. j = 2 * c
      BY <1>1, <2>1, <2>5
    <3>2. indexToBucketSize(j) = 2 * P
      BY <1>5, <3>1
    <3> QED
      BY <1>6, <3>2
  <2> QED
    BY <2>3, <2>4, <2>5
<1> QED
  BY <1>9, <1>10

(* Before the object in a chunk are at least 16 bytes, a multiple of       *)
(* ALIGNMENT and of whatever multiple of an alignment the macro asks for.  *)
LEMMA MemStartFacts ==
  /\ memStart \in Nat /\ memStart % 16 = 0
  /\ GuaranteedAlignment % 32 = 0 => memStart % 32 = 0
<1> DEFINE G == GuaranteedAlignment
           r == reservedSizeAtPageStart
<1>1. G \in Nat \ {0}
  BY SizesAssumption
<1>2. r = IF G <= 16 THEN 16 ELSE G
  <2>1. r = Max({16, G})
    BY DEF reservedSizeAtPageStart
  <2>2. Max({16, G}) \in {16, G} /\ \A y \in {16, G} : Max({16, G}) >= y
    <3>1. \E x \in {16, G} : \A y \in {16, G} : x >= y
      BY <1>1
    <3> QED
      BY <3>1 DEF Max
  <2> QED
    BY <1>1, <2>1, <2>2
<1>3. memStart = ((r + 16 - 1) \div 16) * 16
  BY DEF memStart, alignUp, ALIGNMENT
<1> HIDE DEF r
<1>4. r \in Nat
  BY <1>1, <1>2
<1>5. memStart \in Nat /\ memStart % 16 = 0
  BY <1>3, <1>4
<1>6. ASSUME G % 32 = 0
      PROVE  memStart % 32 = 0
  <2>1. r = G
    BY <1>1, <1>2, <1>6
  <2>2. memStart = ((G + 15) \div 16) * 16
    BY <1>1, <1>3, <2>1
  <2>3. memStart = G
    BY <1>1, <1>6, <2>2
  <2> QED
    BY <1>6, <2>3
<1> QED
  BY <1>5, <1>6

(* What any request takes is less than as much again, and behind the       *)
(* address there is room for it.                                           *)
LEMMA EnoughRoom ==
  ASSUME NEW n \in Nat
  PROVE  /\ UsableSize(n) \in Int /\ n <= UsableSize(n)
         /\ n >= 8 => AllocatedSize(n) <= n * 2
<1>1. CASE n <= MaxBucketSize
  <2> DEFINE s == indexToBucketSize(sizeToIndex(n))
  <2>1. AllocatedSize(n) = s /\ UsableSize(n) = s
    BY <1>1 DEF AllocatedSize, UsableSize
  <2>2. s \in Nat /\ n <= s /\ (n >= 8 => s <= 2 * n)
    BY <1>1, BucketServes DEF Serves
  <2> QED
    BY <2>1, <2>2
<1>2. CASE ~(n <= MaxBucketSize)
  <2> DEFINE k == n + memStart
             s == alignUp(k, PageSize)
  <2>1. AllocatedSize(n) = s /\ UsableSize(n) = s - memStart
    BY <1>2 DEF AllocatedSize, UsableSize, ChunkRequest
  <2>2. /\ PageSize \in Nat /\ PageSize >= 1 /\ memStart \in Nat
        /\ memStart <= PageSize /\ MaxBucketSize = 2 * PageSize
    BY SizesAssumption, MemStartFacts
  <2>3. k \in Nat
    BY <2>2
  <2> HIDE DEF k
  <2>4. s \in Nat /\ k <= s /\ s <= k + PageSize - 1
    BY <2>2, <2>3, Rounded
  <2> HIDE DEF s
  <2> QED
    BY <1>2, <2>1, <2>2, <2>4 DEF k
<1> QED
  BY <1>1, <1>2

(* The objects that requests of n bytes get are aligned as far as the size *)
(* allows in a bucket, and as far as the macro does in a chunk.            *)
LEMMA RequestAligned ==
  ASSUME NEW n \in Nat, NEW alignment \in Alignments,
         alignment = 16 => n > 24, alignment = 32 => n > 48,
         AlignmentKept(n, alignment)
  PROVE  ObjectsAligned(n, alignment)
<1>1. alignment \in {1, 2, 4, 8, 16, 32}
  BY DEF Alignments
<1>2. CASE n <= MaxBucketSize
  <2> DEFINE s == indexToBucketSize(sizeToIndex(n))
  <2>1. s \in Nat /\ s % 8 = 0 /\ (n > 24 => s % 16 = 0) /\ (n > 48 => s % 32 = 0)
    BY <1>2, BucketServes DEF Serves
  <2>2. ObjectsAligned(n, alignment) <=> s % alignment = 0
    BY <1>2 DEF ObjectsAligned
  <2> HIDE DEF s
  <2>3. s % 1 = 0 /\ s % 2 = 0 /\ s % 4 = 0
    BY <2>1
  <2> QED
    BY <1>1, <2>1, <2>2, <2>3
<1>3. CASE ~(n <= MaxBucketSize)
  <2>1. memStart \in Nat /\ memStart % 16 = 0
        /\ (GuaranteedAlignment % 32 = 0 => memStart % 32 = 0)
    BY MemStartFacts
  <2>2. memStart % 1 = 0 /\ memStart % 2 = 0 /\ memStart % 4 = 0 /\ memStart % 8 = 0
    BY <2>1
  <2>3. alignment = 32 => GuaranteedAlignment % 32 = 0
    BY <1>3 DEF AlignmentKept, ALIGNMENT
  <2>4. memStart % alignment = 0
    BY <1>1, <2>1, <2>2, <2>3
  <2> QED
    BY <1>3, <2>4 DEF ObjectsAligned
<1> QED
  BY <1>2, <1>3

(* allocateAligned asks for no less than it is asked for, and for enough   *)
(* to reach a bucket of aligned objects.                                   *)
LEMMA AlignedRequest ==
  ASSUME NEW n \in Nat, NEW alignment \in Alignments
  PROVE  LET k == allocateAligned(n, alignment)
         IN  /\ k \in Nat /\ n <= k
             /\ alignment = 16 => k > 24
             /\ alignment = 32 => k > 48
<1>1. alignment \in {1, 2, 4, 8, 16, 32}
  BY DEF Alignments
<1>2. CASE alignment \in {1, 2, 4, 8}
  <2>1. allocateAligned(n, alignment) = n
    BY <1>2 DEF allocateAligned
  <2> QED
    BY <1>2, <2>1
<1>3. CASE alignment = 16
  <2>1. allocateAligned(n, alignment) = IF n > 24 THEN n ELSE 25
    BY <1>3 DEF allocateAligned
  <2> QED
    BY <1>3, <2>1
<1>4. CASE alignment = 32
  <2>1. allocateAligned(n, alignment) = IF n > 48 THEN n ELSE 49
    BY <1>4 DEF allocateAligned
  <2> QED
    BY <1>4, <2>1
<1> QED
  BY <1>1, <1>2, <1>3, <1>4

(* The same of the allocation that the form with constants returns.        *)
LEMMA ConstexprRequest ==
  ASSUME NEW n \in Nat, NEW alignment \in Alignments
  PROVE  LET k == Last(allocateAlignedConstexpr(n, alignment))
         IN  k \in Nat /\ n <= k
<1> DEFINE s == IF alignment <= 8 THEN <<n>> ELSE << >>
           k == CASE n > 16 /\ n <= 24 -> 32
                  [] ~(n > 16 /\ n <= 24) /\ alignment <= 16 -> n
                  [] alignment > 16 /\ n > 33 /\ n <= 48 -> 64
                  [] OTHER -> n
<1>1. alignment \in Nat
  BY DEF Alignments
<1>2. k \in Nat /\ n <= k
  <2>1. CASE n > 16 /\ n <= 24
    BY <1>1, <2>1
  <2>2. CASE ~(n > 16 /\ n <= 24) /\ alignment <= 16
    BY <1>1, <2>2
  <2>3. CASE ~(n > 16 /\ n <= 24) /\ ~(alignment <= 16) /\ n > 33 /\ n <= 48
    BY <1>1, <2>3
  <2>4. CASE ~(n > 16 /\ n <= 24) /\ ~(alignment <= 16) /\ ~(n > 33 /\ n <= 48)
    BY <1>1, <2>4
  <2> QED
    BY <2>1, <2>2, <2>3, <2>4
<1>3. s \in Seq(Nat)
  OBVIOUS
<1>4. allocateAlignedConstexpr(n, alignment) = s \o <<k>>
  BY DEF allocateAlignedConstexpr
<1> HIDE DEF k, s
<1>5. Last(s \o <<k>>) = k
  BY <1>2, <1>3 DEF Last
<1> QED
  BY <1>2, <1>4, <1>5

(* The sizes visited.                                                      *)
LEMMA SizesVisited == SizesSpec => [](sz \in 0 .. FirstSize)
<1>1. SizesInit => sz \in 0 .. FirstSize
  BY SizesAssumption DEF SizesInit
<1>2. sz \in 0 .. FirstSize /\ [SizesNext]_sz => (sz \in 0 .. FirstSize)'
  BY SizesAssumption DEF SizesNext
<1> QED
  BY <1>1, <1>2, PTL DEF SizesSpec

(***************************************************************************)
(* The class computed from a constant is the class computed at run time,   *)
(* for every size of a word of any width.                                  *)
(***************************************************************************)
THEOREM CompileTimeAgreement == SizesSpec => []CompileTimeAgrees
<1>1. ASSUME sz \in 0 .. FirstSize
      PROVE  CompileTimeAgrees
  <2>1. sz \in Nat /\ sz <= Power[WordBits] /\ Power[WordBits] \in Nat
    <3>1. FirstSize \in Nat /\ FirstSize <= Power[WordBits] /\ WordBits \in 0 .. WordBits
      BY SizesAssumption
    <3>2. Power[WordBits] \in Nat
      BY <3>1, PowerFacts
    <3> QED
      BY <1>1, <3>1, <3>2
  <2>2. CASE sz <= 8
    BY <2>2 DEF CompileTimeAgrees, sizeToIndex, sizeToIndexConstexpr
  <2>3. CASE ~(sz <= 8)
    <3> DEFINE m == sz - 1
    <3>1. m \in Nat /\ m >= 1 /\ m < Power[WordBits]
      BY <2>1, <2>3
    <3> HIDE DEF m
    <3>2. UpperNonZeroBitPos(m) = BitScanReverse(m)
      BY <3>1, LoopFindsBit
    <3> QED
      BY <2>3, <3>2 DEF m, CompileTimeAgrees, sizeToIndex, sizeToIndexConstexpr
  <2> QED
    BY <2>2, <2>3
<1> QED
  BY <1>1, SizesVisited, PTL

(***************************************************************************)
(* A request gets the smallest bucket it fits in, and takes at most twice  *)
(* what it asks for.                                                       *)
(***************************************************************************)
THEOREM SmallestBucket == SizesSpec => []SmallestFit
<1>1. ASSUME sz \in 0 .. FirstSize
      PROVE  SmallestFit
  <2>1. sz \in Nat
    BY <1>1, SizesAssumption
  <2>2. ASSUME sz <= MaxBucketSize
        PROVE  LET ix == sizeToIndex(sz)
               IN  /\ ix < BucketCount
                   /\ indexToBucketSize(ix) >= sz
                   /\ \A j \in 0 .. ix - 1 :
                        \/ indexToBucketSize(j) < sz
                        \/ indexToBucketSize(j) = indexToBucketSize(ix)
    <3> DEFINE ix == sizeToIndex(sz)
    <3>1. Serves(ix, indexToBucketSize(ix), sz)
      BY <2>1, <2>2, BucketServes
    <3>2. \A j \in 0 .. ix - 1 :
            \/ indexToBucketSize(j) < sz
            \/ indexToBucketSize(j) = indexToBucketSize(ix)
      BY <2>1, <2>2, BucketSmallest
    <3> HIDE DEF ix
    <3>3. ix < BucketCount /\ indexToBucketSize(ix) >= sz
      BY <2>1, <3>1 DEF Serves, BucketCount
    <3> QED
      BY <3>2, <3>3 DEF ix
  <2>3. sz >= 8 => AllocatedSize(sz) <= sz * 2
    BY <2>1, EnoughRoom
  <2> QED
    BY <2>2, <2>3 DEF SmallestFit
<1> QED
  BY <1>1, SizesVisited, PTL

(***************************************************************************)
(* Aligned requests get room behind the address they are given, and        *)
(* buckets of aligned objects; pages of their own are aligned as far as    *)
(* ALIGNMENT and the macro promise, whatever the macro is.                 *)
(***************************************************************************)
THEOREM AlignedRequests == SizesSpec => []AlignedWithRoom
<1>1. ASSUME sz \in 0 .. FirstSize
      PROVE  AlignedWithRoom
  <2>1. sz \in Nat
    BY <1>1, SizesAssumption
  <2>2. ASSUME NEW alignment \in Alignments
        PROVE  LET n == allocateAligned(sz, alignment)
               IN  /\ UsableSize(n) >= sz
                   /\ AlignmentKept(n, alignment) => ObjectsAligned(n, alignment)
    <3> DEFINE n == allocateAligned(sz, alignment)
    <3>1. /\ n \in Nat /\ sz <= n
          /\ alignment = 16 => n > 24
          /\ alignment = 32 => n > 48
      BY <2>1, AlignedRequest
    <3> HIDE DEF n
    <3>2. AlignmentKept(n, alignment) => ObjectsAligned(n, alignment)
      BY <3>1, RequestAligned
    <3>3. UsableSize(n) \in Int /\ n <= UsableSize(n)
      BY <3>1, EnoughRoom
    <3>4. UsableSize(n) >= sz
      BY <2>1, <3>1, <3>3
    <3> QED
      BY <3>2, <3>4 DEF n
  <2>3. ASSUME NEW alignment \in Alignments
        PROVE  UsableSize(Last(allocateAlignedConstexpr(sz, alignment))) >= sz
    <3> DEFINE n == Last(allocateAlignedConstexpr(sz, alignment))
    <3>1. n \in Nat /\ sz <= n
      BY <2>1, ConstexprRequest
    <3> HIDE DEF n
    <3>2. UsableSize(n) \in Int /\ n <= UsableSize(n)
      BY <3>1, EnoughRoom
    <3>3. UsableSize(n) >= sz
      BY <2>1, <3>1, <3>2
    <3> QED
      BY <3>3 DEF n
  <2> QED
    BY <2>2, <2>3 DEF AlignedWithRoom
<1> QED
  BY <1>1, SizesVisited, PTL
=============================================================================
