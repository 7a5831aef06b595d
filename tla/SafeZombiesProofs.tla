------------------------- MODULE SafeZombiesProofs -------------------------
(***************************************************************************)
(* Theorems about SafeZombies for every number and size of buckets and     *)
(* every number of restarts.                                               *)
(*                                                                         *)
(* The argument has two levels.  To the free lists of IibAllocatorBase a   *)
(* zombie is an object somebody still holds, and so is one that a kill has *)
(* lost.  Base is the allocator seen that way: its callers hold all these, *)
(* and its free objects have the only links.  Until a kill SafeZombies     *)
(* takes the steps of Buckets, so the invariant of BucketsProofs holds of  *)
(* Base.  What a kill does to the lists is shown here.                     *)
(***************************************************************************)
EXTENDS SafeZombies, BucketsProofs

(* What is neither live nor free. *)
Kept == DOMAIN zombies \union DOMAIN gone

Unkept(f, K) == [a \in DOMAIN f \ K |-> f[a]]

SameLinks(f, g, K) == \A a \in K : a \in DOMAIN f => a \in DOMAIN g /\ g[a] = f[a]

FreeLinks == Unkept(next, Kept)

Held == [p \in DOMAIN live \union Kept |->
           IF p \in DOMAIN live THEN live[p]
           ELSE IF p \in DOMAIN zombies THEN zombies[p].size ELSE gone[p]]

HeldCount == Cardinality(DOMAIN Held)

Base == INSTANCE BucketsProofs
          WITH next <- FreeLinks, live <- Held, out <- HeldCount

(***************************************************************************)
(* The inductive invariant.  The zombies waiting for a kill are in chains: *)
(* those of a bucket from its first to its last one, which has no link     *)
(* yet, those of chunks from zombieLargeChunks on.  The chain of a bucket  *)
(* leads to each of its zombies but the first one, and never in a circle.  *)
(***************************************************************************)
ChainInv(W, nx, first, last) ==
  /\ W = {} => first = null /\ last = null
  /\ W # {} => first \in W /\ last \in W
  /\ \A a \in W \ {last} : a \in DOMAIN nx /\ nx[a] \in W \ {first}
  /\ \A a, b \in W \ {last} : nx[a] = nx[b] => a = b
  /\ \A b \in W \ {first} : \E a \in W \ {last} : nx[a] = b
  /\ \A S \in SUBSET W : S # {} => \E a \in S : \A b \in S \ {last} : nx[b] # a

LargeInv(C, nx, first) ==
  /\ C \subseteq DOMAIN nx
  /\ first # null => first \in C
  /\ \A a \in C : nx[a] = null \/ nx[a] \in C
  /\ \A b \in C : b = first \/ \E a \in C : nx[a] = b
  /\ NoCircle(nx, C)

(* The zombies of a bucket, and of chunks, that lists lead to. *)
WaitingOf(i) == {z \in Waiting : ~IsChunk(z) /\ Home(z) = i}
WaitingChunks == {z \in Waiting : IsChunk(z)}

ChainsInv ==
  /\ zombieBucketsFirst \in [Idx -> Nat \union {null}]
  /\ zombieBucketsLast \in [Idx -> Nat \union {null}]
  /\ \A i \in Idx : ChainInv(WaitingOf(i), next, zombieBucketsFirst[i],
                             zombieBucketsLast[i])
  /\ LargeInv(WaitingChunks, next, zombieLargeChunks)

(* Nobody holds a zombie, and none was lost before. *)
ApartInv ==
  /\ DOMAIN live \intersect Kept = {}
  /\ DOMAIN zombies \intersect DOMAIN gone = {}

RestartsInv ==
  /\ restarts \in Nat
  /\ \A z \in DOMAIN zombies : zombies[z].at \in Nat /\ zombies[z].at <= restarts

(* The map knows what the test saw freed, and how far it reaches. *)
MapInv ==
  /\ doZombieEarlyDetection \in BOOLEAN
  /\ doZombieEarlyDetection \/ zombieMap = Empty
  /\ DOMAIN zombieMap \subseteq DOMAIN zombies
  /\ \A z \in DOMAIN zombies : zombies[z].watched => z \in DOMAIN zombieMap
  /\ \A z \in DOMAIN zombieMap :
       zombieMap[z] = zombies[z].size + (IF IsChunk(z) THEN memForbidden ELSE 0)

ZombiesInv == ApartInv /\ RestartsInv /\ ChainsInv /\ MapInv

(* The invariant of the lists and chunks below, of what Base has. *)
HeldInv(nx, lv) ==
  /\ FreeListsInv(buckets, nx, taken)
  /\ PartedInv(nx, lv, taken)
  /\ MadeInv(made, taken)
  /\ SizesInv(lv, chunks)
  /\ ChunksInv(chunks)
  /\ IsFiniteSet(DOMAIN lv)
  /\ status = "ok"

SafeIInv == HeldInv(FreeLinks, Held) /\ ZombiesInv

-----------------------------------------------------------------------------
(***************************************************************************)
(* Base's operators are those of Buckets.                                  *)
(***************************************************************************)
(* Functions, and the places of blocks and multipages. *)
LEMMA SameFunctions ==
  /\ Base!null = null
  /\ \A f, x : Base!Without(f, x) = Without(f, x)
  /\ \A f, x, v : Base!With(f, x, v) = With(f, x, v)
  /\ \A f, g : Base!Over(f, g) = Over(f, g)
  BY DEF Base!null, null, Base!Without, Without, Base!With, With, Base!Over, Over

LEMMA SameCounting ==
  /\ \A S : Base!IsFiniteSet(S) <=> IsFiniteSet(S)
  /\ \A S : Base!Cardinality(S) = Cardinality(S)
  BY SMT DEF Base!Cardinality, Cardinality, Base!IsFiniteSet, IsFiniteSet

LEMMA SamePlaces ==
  /\ Base!Idx = Idx
  /\ \A i : Base!Multipages(i) = Multipages(i)
  /\ Base!Segments = Segments
  /\ \A a : Base!addressToIdx(a) = addressToIdx(a)
  /\ \A b : Base!BlockPages(b) = BlockPages(b)
<1>1. Base!Segments = Segments
  BY SMT DEF Base!Multipages, Multipages, Base!Slot, Slot, Base!Segments, Segments,
     Base!idxToPageAddr, idxToPageAddr, Base!SlotOffset, SlotOffset,
     Base!ReservationPages, ReservationPages, Base!Idx, Idx, Base!null, null
<1> QED
  BY <1>1 DEF Base!Idx, Idx, Base!Multipages, Multipages, Base!Slot, Slot,
     Base!addressToIdx, addressToIdx, Base!BlockPages, BlockPages,
     Base!ReservationPages, ReservationPages

(* How objects are made of pages. *)
LEMMA SameItems ==
  /\ \A size, n : Base!Items(size, n) = Items(size, n)
  /\ \A size, n : Base!ItemCnt(size, n) = ItemCnt(size, n)
  /\ \A heap, i, start, n : Base!format(heap, i, start, n) = format(heap, i, start, n)
<1>1. ASSUME NEW heap, NEW i, NEW start, NEW n
      PROVE  Base!format(heap, i, start, n) = format(heap, i, start, n)
  BY Zenon DEF Base!format, format, Base!Items, Items, Base!NeedsCare, NeedsCare,
     Base!Link, Link, Base!Over, Over, Base!null, null
<1> QED
  BY <1>1 DEF Base!Items, Items, Base!NeedsCare, NeedsCare, Base!ItemCnt, ItemCnt

LEMMA SameObjects ==
  /\ Base!AllMultipages = AllMultipages
  /\ \A m : Base!IsCut(m) <=> IsCut(m)
  /\ \A size, start, n : Base!Objects(size, start, n) = Objects(size, start, n)
  /\ \A m : Base!Segs(m) = Segs(m)
  /\ \A m : Base!ObjectsOf(m) = ObjectsOf(m)
  /\ \A tk : Base!ObjectsIn(tk) = ObjectsIn(tk)
  /\ \A a : Base!Home(a) = Home(a)
<1>1. Base!AllMultipages = AllMultipages
  BY SamePlaces DEF Base!AllMultipages, AllMultipages
<1>2. \A m : Base!IsCut(m) <=> IsCut(m)
  BY SamePlaces, SameFunctions DEF Base!IsCut, IsCut
<1>3. \A size, start, n : Base!Objects(size, start, n) = Objects(size, start, n)
  BY SameItems DEF Base!Objects, Objects
<1>4. \A m : Base!Segs(m) = Segs(m)
  BY <1>2, SamePlaces DEF Base!Segs, Segs
<1>5. \A m : Base!ObjectsOf(m) = ObjectsOf(m)
  BY <1>3, <1>4 DEF Base!ObjectsOf, ObjectsOf
<1>6. \A tk : Base!ObjectsIn(tk) = ObjectsIn(tk)
  BY <1>5 DEF Base!ObjectsIn, ObjectsIn
<1>7. \A a : Base!Home(a) = Home(a)
  BY SamePlaces DEF Base!Home, Home
<1> QED
  BY <1>1, <1>2, <1>3, <1>4, <1>5, <1>6, <1>7

(* The parts of the invariant. *)
LEMMA SameInvariants ==
  /\ \A bk, nx, tk : Base!FreeListsInv(bk, nx, tk) <=> FreeListsInv(bk, nx, tk)
  /\ \A nx, lv, tk : Base!PartedInv(nx, lv, tk) <=> PartedInv(nx, lv, tk)
  /\ \A mk, tk : Base!MadeInv(mk, tk) <=> MadeInv(mk, tk)
  /\ \A lv, ck : Base!SizesInv(lv, ck) <=> SizesInv(lv, ck)
  /\ \A ck : Base!ChunksInv(ck) <=> ChunksInv(ck)
  /\ \A lv, n : Base!CountInv(lv, n) <=> CountInv(lv, n)
<1>1. \A tk, a : Base!LostIn(tk, a) <=> LostIn(tk, a)
  BY SameObjects, SamePlaces DEF Base!LostIn, LostIn
<1>2. \A bk, nx, F, D : Base!FreeInv(bk, nx, F, D) <=> FreeInv(bk, nx, F, D)
  <2>1. \A nx, F : Base!NoCircle(nx, F) <=> NoCircle(nx, F)
    BY DEF Base!NoCircle, NoCircle
  <2>2. \A nx, F, D : Base!LinksInv(nx, F, D) <=> LinksInv(nx, F, D)
    BY <2>1, SameObjects, SameFunctions DEF Base!LinksInv, LinksInv
  <2>3. \A bk, nx, F, D : Base!HeadsInv(bk, nx, F, D) <=> HeadsInv(bk, nx, F, D)
    BY SameObjects, SamePlaces, SameFunctions DEF Base!HeadsInv, HeadsInv
  <2> QED
    BY <2>2, <2>3 DEF Base!FreeInv, FreeInv
<1>3. \A bk, nx, tk : Base!FreeListsInv(bk, nx, tk) <=> FreeListsInv(bk, nx, tk)
  BY <1>1, <1>2 DEF Base!FreeListsInv, FreeListsInv
<1>4. \A nx, lv, tk : Base!PartedInv(nx, lv, tk) <=> PartedInv(nx, lv, tk)
  <2>1. \A lv : Base!OfBucket(lv) = OfBucket(lv)
    BY DEF Base!OfBucket, OfBucket
  <2> QED
    BY <2>1, SameObjects, SameCounting DEF Base!PartedInv, PartedInv
<1>5. \A mk, tk : Base!MadeInv(mk, tk) <=> MadeInv(mk, tk)
  BY SameObjects, SamePlaces DEF Base!MadeInv, MadeInv
<1>6. \A lv, ck : Base!SizesInv(lv, ck) <=> SizesInv(lv, ck)
  BY SameObjects DEF Base!SizesInv, SizesInv
<1>7. \A ck : Base!ChunksInv(ck) <=> ChunksInv(ck)
  BY DEF Base!ChunksInv, ChunksInv, Base!ChunkPages, ChunkPages
<1>8. \A lv, n : Base!CountInv(lv, n) <=> CountInv(lv, n)
  BY SameCounting DEF Base!CountInv, CountInv
<1> QED
  BY <1>3, <1>4, <1>5, <1>6, <1>7, <1>8

LEMMA BaseInvariant ==
  Base!IInv <=> HeldInv(FreeLinks, Held)
  BY SameInvariants DEF Base!IInv, HeldInv, CountInv, HeldCount

(* A step of Base keeps the invariant. *)
LEMMA BaseKeeps ==
  ASSUME HeldInv(FreeLinks, Held), Base!Next \/ UNCHANGED Base!vars
  PROVE  HeldInv(FreeLinks, Held)'
<1>1. Base!IInv /\ [Base!Next]_(Base!vars) => Base!IInv'
  BY Base!NextKeeps, SamePlaces, BucketCntAssumption, PagesPerBucketAssumption,
     PageSizeAssumption, MultipageAssumption, BucketSizeAssumption,
     PlacesAssumption, SMT
<1>2. Base!IInv' <=> HeldInv(FreeLinks, Held)'
  BY SameInvariants DEF Base!IInv, HeldInv, CountInv, HeldCount
<1> QED
  BY <1>1, <1>2, BaseInvariant

(* No two objects that callers hold, or that are zombies, overlap. *)
LEMMA HeldSound ==
  ASSUME HeldInv(FreeLinks, Held)
  PROVE  \A p, q \in DOMAIN Held :
           p # q => Bytes(p, Held[p]) \intersect Bytes(q, Held[q]) = {}
<1>1. Base!IInv => Base!LiveSound
  BY Base!LiveIsSound, SamePlaces, BucketCntAssumption, PagesPerBucketAssumption,
     PageSizeAssumption, MultipageAssumption, BucketSizeAssumption,
     PlacesAssumption, SMT
<1> QED
  BY <1>1, BaseInvariant DEF Base!LiveSound, Base!Bytes, Bytes

-----------------------------------------------------------------------------
(***************************************************************************)
(* The chains of zombies.                                                  *)
(***************************************************************************)
(* A chain is what its own links make it. *)
LEMMA ChainStays ==
  ASSUME NEW W, NEW nx, NEW first, NEW last, ChainInv(W, nx, first, last),
         NEW nx2, \A a \in W \ {last} : a \in DOMAIN nx => a \in DOMAIN nx2 /\ nx2[a] = nx[a]
  PROVE  ChainInv(W, nx2, first, last)
<1>1. \A a \in W \ {last} : a \in DOMAIN nx2 /\ nx2[a] = nx[a]
  BY DEF ChainInv
<1>2. \A S \in SUBSET W : \A b \in S \ {last} : nx2[b] = nx[b]
  BY <1>1
<1>3. \A S \in SUBSET W : S # {} => \E a \in S : \A b \in S \ {last} : nx2[b] # a
  <2> TAKE S \in SUBSET W
  <2> HAVE S # {}
  <2>1. PICK a \in S : \A b \in S \ {last} : nx[b] # a
    BY DEF ChainInv
  <2>2. \A b \in S \ {last} : nx2[b] # a
    BY <1>2, <2>1
  <2> QED
    BY <2>2
<1> QED
  BY <1>1, <1>3 DEF ChainInv

LEMMA LargeStays ==
  ASSUME NEW C, NEW nx, NEW first, LargeInv(C, nx, first),
         NEW nx2, \A a \in C : a \in DOMAIN nx2 /\ nx2[a] = nx[a]
  PROVE  LargeInv(C, nx2, first)
<1>1. NoCircle(nx2, C)
  <2> SUFFICES ASSUME NEW S \in SUBSET C, S # {}
               PROVE  \E a \in S : \A b \in S : nx2[b] # a
    BY DEF NoCircle
  <2>1. PICK a \in S : \A b \in S : nx[b] # a
    BY DEF LargeInv, NoCircle
  <2>2. \A b \in S : nx2[b] = nx[b]
    OBVIOUS
  <2> QED
    BY <2>1, <2>2
<1> QED
  BY <1>1 DEF LargeInv

(* An object becomes the last one of its bucket's chain. *)
LEMMA ChainExtends ==
  ASSUME NEW W, NEW nx, NEW first, NEW last, ChainInv(W, nx, first, last),
         null \notin W, NEW x, x \notin W, x # null,
         NEW nx2, \A a \in W : a # last /\ a \in DOMAIN nx => a \in DOMAIN nx2 /\ nx2[a] = nx[a],
         last # null => last \in DOMAIN nx2 /\ nx2[last] = x
  PROVE  ChainInv(W \union {x}, nx2, IF first = null THEN x ELSE first, x)
<1>1. CASE W = {}
  <2>1. first = null /\ W \union {x} = {x}
    BY <1>1 DEF ChainInv
  <2>2. ChainInv({x}, nx2, x, x)
    <3>1. \A S \in SUBSET {x} : S # {} => \E a \in S : \A b \in S \ {x} : nx2[b] # a
      OBVIOUS
    <3> QED
      BY <3>1 DEF ChainInv
  <2> QED
    BY <2>1, <2>2
<1>2. CASE W # {}
  <2> DEFINE V == W \union {x}
  <2>1. first \in W /\ last \in W /\ first # null /\ last # null
    BY <1>2 DEF ChainInv
  <2>2. /\ \A a \in W \ {last} : a \in DOMAIN nx2 /\ nx2[a] = nx[a] /\ nx[a] \in W \ {first}
        /\ last \in DOMAIN nx2 /\ nx2[last] = x
        /\ V \ {x} = W
    BY <2>1 DEF ChainInv
  <2>3. \A a \in V \ {x} : a \in DOMAIN nx2 /\ nx2[a] \in V \ {first}
    BY <2>1, <2>2
  <2>4. \A a, b \in V \ {x} : nx2[a] = nx2[b] => a = b
    <3> TAKE a, b \in V \ {x}
    <3>1. a \in W /\ b \in W
      BY <2>2
    <3>2. CASE a # last /\ b # last
      BY <2>2, <3>1, <3>2 DEF ChainInv
    <3>3. CASE a = last \/ b = last
      BY <2>2, <3>1, <3>3
    <3> QED
      BY <3>2, <3>3
  <2>5. \A b \in V \ {first} : \E a \in V \ {x} : nx2[a] = b
    <3> TAKE b \in V \ {first}
    <3>1. CASE b = x
      BY <2>1, <2>2, <3>1
    <3>2. CASE b # x
      <4>1. PICK a \in W \ {last} : nx[a] = b
        BY <3>2 DEF ChainInv
      <4> QED
        BY <2>2, <4>1
    <3> QED
      BY <3>1, <3>2
  <2>6. ASSUME NEW S \in SUBSET V, S # {}
        PROVE  \E a \in S : \A b \in S \ {x} : nx2[b] # a
    <3>1. CASE S \intersect W # {}
      <4>1. PICK a \in S \intersect W : \A b \in (S \intersect W) \ {last} : nx[b] # a
        BY <3>1 DEF ChainInv
      <4>2. ASSUME NEW b \in S \ {x} PROVE nx2[b] # a
        <5>1. b \in S \intersect W
          OBVIOUS
        <5>2. CASE b = last
          BY <2>2, <5>2
        <5>3. CASE b # last
          BY <2>2, <4>1, <5>1, <5>3
        <5> QED
          BY <5>2, <5>3
      <4> QED
        BY <4>1, <4>2
    <3>2. CASE S \intersect W = {}
      BY <2>6, <3>2
    <3> QED
      BY <3>1, <3>2
  <2>7. ChainInv(V, nx2, first, x)
    <3> HIDE DEF V
    <3>1. first \in V /\ x \in V /\ V # {}
      BY <2>1 DEF V
    <3> QED
      BY <2>3, <2>4, <2>5, <2>6, <3>1 DEF ChainInv
  <2> QED
    BY <2>1, <2>7
<1> QED
  BY <1>1, <1>2

(* An object becomes the first one of the chain of chunks. *)
LEMMA LargeExtends ==
  ASSUME NEW C, NEW nx, NEW first, LargeInv(C, nx, first),
         NEW x, x \notin C, x # null, null \notin C,
         NEW nx2, \A a \in C : a \in DOMAIN nx2 /\ nx2[a] = nx[a],
         x \in DOMAIN nx2, nx2[x] = first
  PROVE  LargeInv(C \union {x}, nx2, x)
<1> DEFINE V == C \union {x}
<1>1. NoCircle(nx2, V)
  <2> SUFFICES ASSUME NEW S \in SUBSET V, S # {}
               PROVE  \E a \in S : \A b \in S : nx2[b] # a
    BY DEF NoCircle
  <2>1. CASE x \in S
    BY <2>1 DEF LargeInv
  <2>2. CASE x \notin S
    <3>1. S \in SUBSET C
      BY <2>2
    <3>2. PICK a \in S : \A b \in S : nx[b] # a
      BY <3>1 DEF LargeInv, NoCircle
    <3> QED
      BY <3>1, <3>2
  <2> QED
    BY <2>1, <2>2
<1>2. \A b \in V : b = x \/ \E a \in V : nx2[a] = b
  BY DEF LargeInv
<1>3. \A a \in V : nx2[a] = null \/ nx2[a] \in V
  BY DEF LargeInv
<1> HIDE DEF V
<1>4. V \subseteq DOMAIN nx2 /\ x \in V
  BY DEF V, LargeInv
<1> QED
  BY <1>1, <1>2, <1>3, <1>4 DEF LargeInv, V

FrontsOf(W, first) == UNION {W[i] \ {first[i]} : i \in Idx}

HeadsOf(W, bk, nx, first) == [i \in Idx |-> IF W[i] = {} THEN bk[i] ELSE nx[first[i]]]

(* A kill puts the chain of each bucket, without its first zombie, in      *)
(* front of the bucket's free objects.  Nothing more is lost.              *)
LEMMA Splice ==
  ASSUME NEW bk, NEW nx, NEW F, NEW D, FreeInv(bk, nx, F, D),
         NEW W, NEW first, NEW last,
         \A i \in Idx : /\ ChainInv(W[i], nx, first[i], last[i])
                        /\ W[i] \subseteq Nat \ F
                        /\ \A a \in W[i] : Home(a) = i,
         NEW nx2, \A a \in F : nx2[a] = nx[a],
         \A i \in Idx : \A a \in W[i] : nx2[a] = IF a = last[i] THEN bk[i] ELSE nx[a],
         NEW bk2, bk2 = HeadsOf(W, bk, nx2, first)
  PROVE  FreeInv(bk2, nx2, F \union FrontsOf(W, first), D)
<1> DEFINE Z == FrontsOf(W, first)
           G == F \union Z
<1>1. /\ F \subseteq Nat /\ D \subseteq F
      /\ \A a \in F : nx2[a] # null =>
           nx2[a] \in F /\ Home(nx2[a]) = Home(a) /\ (a \in D <=> nx2[a] \in D)
      /\ \A a, b \in F : nx2[a] = nx2[b] /\ nx2[a] # null => a = b
      /\ \A S \in SUBSET F : S # {} => \E a \in S : \A b \in S : nx2[b] # a
  <2>1. \A S \in SUBSET F : S # {} => \E a \in S : \A b \in S : nx2[b] # a
    <3> TAKE S \in SUBSET F
    <3> HAVE S # {}
    <3>1. PICK a \in S : \A b \in S : nx[b] # a
      BY DEF FreeInv, LinksInv, NoCircle
    <3>2. \A b \in S : nx2[b] = nx[b]
      OBVIOUS
    <3> QED
      BY <3>1, <3>2
  <2> QED
    BY <2>1 DEF FreeInv, LinksInv
<1>2. /\ \A i \in Idx : bk[i] # null =>
           bk[i] \in F \ D /\ Home(bk[i]) = i /\ \A a \in F : nx2[a] # bk[i]
      /\ \A a \in F \ D : bk[Home(a)] = a \/ \E b \in F : nx2[b] = a
      /\ bk \in [Idx -> Nat \union {null}]
  BY DEF FreeInv, HeadsInv
<1>3. ASSUME NEW i \in Idx
      PROVE  /\ W[i] \subseteq Nat /\ W[i] \intersect F = {} /\ null \notin W[i]
             /\ \A a \in W[i] : Home(a) = i
             /\ W[i] # {} => first[i] \in W[i] /\ last[i] \in W[i]
             /\ \A a \in W[i] \ {last[i]} : nx2[a] = nx[a] /\ nx2[a] \in W[i] \ {first[i]}
             /\ last[i] \in W[i] => nx2[last[i]] = bk[i]
             /\ \A a, b \in W[i] \ {last[i]} : nx2[a] = nx2[b] => a = b
             /\ \A b \in W[i] \ {first[i]} : \E a \in W[i] \ {last[i]} : nx2[a] = b
  BY NullFacts DEF ChainInv
<1>4. ASSUME NEW i \in Idx, NEW S \in SUBSET W[i], S # {}
      PROVE  \E a \in S : \A b \in S \ {last[i]} : nx2[b] # a
  <2>1. PICK a \in S : \A b \in S \ {last[i]} : nx[b] # a
    BY <1>4 DEF ChainInv
  <2>2. \A b \in S \ {last[i]} : nx2[b] = nx[b]
    BY <1>3
  <2> QED
    BY <2>1, <2>2
<1>5. \A a : a \in Z <=> \E i \in Idx : a \in W[i] /\ a # first[i]
  BY DEF FrontsOf
<1>6. \A a : a \in G <=> a \in F \/ a \in Z
  OBVIOUS
<1> HIDE DEF Z, G
(* What a zombie is linked to after the kill. *)
<1>7. ASSUME NEW i \in Idx, NEW a \in W[i]
      PROVE  \/ a # last[i] /\ nx2[a] \in Z /\ nx2[a] \in W[i]
             \/ a = last[i] /\ nx2[a] = bk[i]
  BY <1>3, <1>5
<1>8. ASSUME NEW a \in G, nx2[a] # null
      PROVE  nx2[a] \in G /\ Home(nx2[a]) = Home(a) /\ (a \in D <=> nx2[a] \in D)
  <2>1. CASE a \in F
    BY <1>1, <1>6, <1>8, <2>1
  <2>2. CASE a \in Z
    <3>1. PICK i \in Idx : a \in W[i]
      BY <1>5, <2>2
    <3>2. Home(a) = i /\ a \notin D
      BY <1>1, <1>3, <3>1
    <3>3. CASE a # last[i]
      <4>1. nx2[a] \in Z /\ nx2[a] \in W[i]
        BY <1>7, <3>1, <3>3
      <4> QED
        BY <1>1, <1>3, <1>6, <3>2, <4>1
    <3>4. CASE a = last[i]
      <4>1. nx2[a] = bk[i]
        BY <1>7, <3>1, <3>4
      <4> QED
        BY <1>2, <1>6, <1>8, <3>2, <4>1
    <3> QED
      BY <3>3, <3>4
  <2> QED
    BY <1>6, <2>1, <2>2
<1>9. ASSUME NEW a \in G, NEW b \in G, nx2[a] = nx2[b], nx2[a] # null
      PROVE  a = b
  <2>1. ASSUME NEW c \in F, NEW d \in Z, nx2[c] = nx2[d], nx2[c] # null
        PROVE  FALSE
    <3>1. PICK i \in Idx : d \in W[i]
      BY <1>5
    <3>2. nx2[c] \in F
      BY <1>1, <2>1
    <3>3. nx2[d] = bk[i]
      BY <1>3, <1>7, <2>1, <3>1, <3>2
    <3> QED
      BY <1>2, <2>1, <3>3
  <2>2. ASSUME a \in Z, b \in Z
        PROVE  a = b
    <3>1. PICK i \in Idx : a \in W[i]
      BY <1>5, <2>2
    <3>2. PICK j \in Idx : b \in W[j]
      BY <1>5, <2>2
    <3>3. i = j
      BY <1>3, <1>8, <1>9, <3>1, <3>2
    <3>4. CASE a # last[i] /\ b # last[i]
      <4>1. \A c, d \in W[i] \ {last[i]} : nx2[c] = nx2[d] => c = d
        BY <1>3
      <4>2. a \in W[i] \ {last[i]} /\ b \in W[i] \ {last[i]}
        BY <3>1, <3>2, <3>3, <3>4
      <4> QED
        BY <1>9, <4>1, <4>2
    <3>5. ASSUME NEW c \in W[i], NEW d \in W[i], c = last[i], d # last[i], nx2[c] = nx2[d], nx2[c] # null
          PROVE  FALSE
      <4>1. nx2[c] = bk[i] /\ nx2[d] \in W[i]
        BY <1>7, <3>5
      <4> QED
        BY <1>2, <1>3, <3>5, <4>1
    <3> QED
      BY <1>9, <3>1, <3>2, <3>3, <3>4, <3>5
  <2> QED
    BY <1>1, <1>6, <1>9, <2>1, <2>2
<1>10. NoCircle(nx2, G)
  <2> SUFFICES ASSUME NEW S \in SUBSET G, S # {}
               PROVE  \E a \in S : \A b \in S : nx2[b] # a
    BY DEF NoCircle
  <2>1. CASE S \subseteq F
    BY <1>1, <2>1
  <2>2. CASE ~(S \subseteq F)
    <3>1. PICK z \in S : z \in Z
      BY <1>6, <2>2
    <3>2. PICK i \in Idx : z \in W[i]
      BY <1>5, <3>1
    <3>3. PICK a \in S \intersect W[i] : \A b \in (S \intersect W[i]) \ {last[i]} : nx2[b] # a
      <4>1. S \intersect W[i] \in SUBSET W[i] /\ S \intersect W[i] # {}
        BY <3>1, <3>2
      <4> QED
        BY <1>4, <4>1
    <3>4. a \in Nat /\ a # null /\ a \notin F /\ Home(a) = i
      BY <1>3, <3>3
    <3>5. ASSUME NEW b \in S, nx2[b] = a
          PROVE  FALSE
      <4>1. CASE b \in F
        BY <1>1, <3>4, <3>5, <4>1
      <4>2. CASE b \in Z
        <5>1. PICK j \in Idx : b \in W[j]
          BY <1>5, <4>2
        <5>2. Home(nx2[b]) = Home(b)
          BY <1>8, <3>4, <3>5
        <5>3. j = i
          BY <1>3, <3>4, <3>5, <5>1, <5>2
        <5>4. b = last[i] /\ nx2[b] = bk[i]
          BY <1>7, <3>3, <3>5, <5>1, <5>3
        <5> QED
          BY <1>2, <3>4, <3>5, <5>4
      <4> QED
        BY <1>6, <4>1, <4>2
    <3> QED
      BY <3>3, <3>5
  <2> QED
    BY <2>1, <2>2
<1>11. LinksInv(nx2, G, D)
  <2>1. G \subseteq Nat /\ D \subseteq G
    BY <1>1, <1>3, <1>5, <1>6
  <2> QED
    BY <1>8, <1>9, <1>10, <2>1 DEF LinksInv
<1>12. ASSUME NEW i \in Idx
       PROVE  bk2[i] = IF W[i] = {} THEN bk[i] ELSE nx2[first[i]]
  BY DEF HeadsOf
<1>13. ASSUME NEW i \in Idx
       PROVE  /\ bk2[i] \in Nat \union {null}
              /\ bk2[i] # null =>
                   bk2[i] \in G \ D /\ Home(bk2[i]) = i /\ \A a \in G : nx2[a] # bk2[i]
  <2>1. CASE W[i] = {} \/ first[i] = last[i]
    <3>1. bk2[i] = bk[i]
      BY <1>3, <1>12, <2>1
    <3>2. bk[i] \in Nat \union {null}
      BY <1>2
    <3>3. ASSUME bk[i] # null, NEW a \in Z, nx2[a] = bk[i]
          PROVE  FALSE
      <4>1. PICK j \in Idx : a \in W[j] /\ a # first[j]
        BY <1>5, <3>3
      <4>2. Home(nx2[a]) = Home(a)
        BY <1>6, <1>8, <3>3
      <4>3. j = i
        BY <1>2, <1>3, <3>3, <4>1, <4>2
      <4>4. a # last[i]
        BY <2>1, <4>1, <4>3
      <4>5. nx2[a] \in W[i]
        BY <1>7, <4>1, <4>3, <4>4
      <4> QED
        BY <1>2, <1>3, <3>3, <4>5
    <3> QED
      BY <1>2, <1>6, <3>1, <3>2, <3>3
  <2>2. CASE W[i] # {} /\ first[i] # last[i]
    <3> DEFINE f == first[i]
    <3>1. f \in W[i] /\ f # last[i] /\ bk2[i] = nx2[f]
      BY <1>3, <1>12, <2>2
    <3>2. nx2[f] \in Z /\ nx2[f] \in W[i]
      BY <1>7, <3>1
    <3>3. nx2[f] \in Nat /\ Home(nx2[f]) = i /\ nx2[f] \notin F /\ nx2[f] # null
      BY <1>3, <3>2
    <3>4. ASSUME NEW a \in G, nx2[a] = nx2[f]
          PROVE  FALSE
      <4>1. CASE a \in F
        BY <1>1, <3>3, <3>4, <4>1
      <4>2. CASE a \in Z
        <5>1. PICK j \in Idx : a \in W[j] /\ a # first[j]
          BY <1>5, <4>2
        <5>2. Home(nx2[a]) = Home(a)
          BY <1>8, <3>3, <3>4
        <5>3. j = i
          BY <1>3, <3>3, <3>4, <5>1, <5>2
        <5>4. a # last[i]
          BY <1>2, <1>7, <3>3, <3>4, <5>1, <5>3
        <5>5. a = f
          BY <1>3, <3>1, <3>4, <5>1, <5>3, <5>4
        <5> QED
          BY <5>1, <5>3, <5>5
      <4> QED
        BY <1>6, <4>1, <4>2
    <3> QED
      BY <1>1, <1>6, <3>1, <3>2, <3>3, <3>4
  <2> QED
    BY <2>1, <2>2
<1>14. ASSUME NEW a \in G \ D
       PROVE  bk2[Home(a)] = a \/ \E b \in G : nx2[b] = a
  <2>1. CASE a \in F
    <3> DEFINE i == Home(a)
    <3>1. a \in Nat /\ i \in Idx
      BY <1>1, <2>1, HomeIsIdx
    <3>2. CASE \E b \in F : nx2[b] = a
      BY <1>6, <3>2
    <3>3. CASE bk[i] = a
      <4>1. CASE W[i] = {}
        BY <1>12, <3>1, <3>3, <4>1
      <4>2. CASE W[i] # {} /\ first[i] = last[i]
        BY <1>3, <1>12, <3>1, <3>3, <4>2
      <4>3. CASE W[i] # {} /\ first[i] # last[i]
        BY <1>3, <1>5, <1>6, <3>1, <3>3, <4>3
      <4> QED
        BY <4>1, <4>2, <4>3
    <3> QED
      BY <1>2, <2>1, <3>2, <3>3
  <2>2. CASE a \in Z
    <3>1. PICK i \in Idx : a \in W[i] /\ a # first[i]
      BY <1>5, <2>2
    <3>2. PICK b \in W[i] \ {last[i]} : nx2[b] = a
      BY <1>3, <3>1
    <3>3. CASE b = first[i]
      BY <1>3, <1>12, <3>1, <3>2, <3>3
    <3>4. CASE b # first[i]
      BY <1>5, <1>6, <3>2, <3>4
    <3> QED
      BY <3>3, <3>4
  <2> QED
    BY <1>6, <2>1, <2>2
<1>15. HeadsInv(bk2, nx2, G, D)
  <2>1. bk2 \in [Idx -> Nat \union {null}]
    BY <1>13 DEF HeadsOf
  <2> QED
    BY <1>13, <1>14, <2>1 DEF HeadsInv
<1> QED
  BY <1>11, <1>15 DEF FreeInv, G, Z

(* The chunks reached from the first one by following n links. *)
Reaches(from, nx, first, n) ==
  from = [k \in 0 .. n |->
            IF k = 0 THEN {first} \ {null}
            ELSE from[k - 1] \union ({nx[p] : p \in from[k - 1]} \ {null})]

LEMMA ReachExists ==
  ASSUME NEW nx, NEW first, NEW n \in Nat
  PROVE  \E from : Reaches(from, nx, first, n)
<1> DEFINE Grown(S) == S \union ({nx[p] : p \in S} \ {null})
           T == {k \in Nat : \E r : Reaches(r, nx, first, k)}
<1>1. 0 \in T
  <2>1. Reaches([k \in 0 .. 0 |-> {first} \ {null}], nx, first, 0)
    BY DEF Reaches
  <2> QED
    BY <2>1
<1>2. ASSUME NEW m \in 0 .. n - 1, m \in T
      PROVE  m + 1 \in T
  <2>1. PICK r : Reaches(r, nx, first, m)
    BY <1>2
  <2> DEFINE s == [k \in 0 .. m + 1 |-> IF k = m + 1 THEN Grown(r[m]) ELSE r[k]]
  <2>2. m \in Nat /\ m + 1 \in Nat
    OBVIOUS
  <2>3. ASSUME NEW k \in 0 .. m + 1
        PROVE  s[k] = IF k = 0 THEN {first} \ {null} ELSE Grown(s[k - 1])
    <3>1. CASE k = m + 1
      <4>1. s[m] = r[m] /\ s[k] = Grown(r[m]) /\ k - 1 = m /\ k # 0
        BY <2>2, <3>1
      <4> QED
        BY <4>1
    <3>2. CASE k # m + 1
      <4>1. k \in 0 .. m /\ s[k] = r[k]
        BY <2>2, <3>2
      <4>2. r[k] = IF k = 0 THEN {first} \ {null} ELSE Grown(r[k - 1])
        BY <2>1, <4>1 DEF Reaches
      <4>3. k # 0 => k - 1 \in 0 .. m + 1 /\ s[k - 1] = r[k - 1]
        BY <2>2, <4>1
      <4> QED
        BY <4>1, <4>2, <4>3
    <3> QED
      BY <3>1, <3>2
  <2>4. s = [k \in 0 .. m + 1 |-> s[k]]
    OBVIOUS
  <2> HIDE DEF s
  <2>5. s = [k \in 0 .. m + 1 |->
               IF k = 0 THEN {first} \ {null} ELSE Grown(s[k - 1])]
    BY <2>3, <2>4
  <2>6. Reaches(s, nx, first, m + 1)
    BY <2>5 DEF Reaches
  <2> QED
    BY <2>2, <2>6
<1> HIDE DEF T
<1>3. n \in T
  BY <1>1, <1>2, UpTo
<1> QED
  BY <1>3 DEF T

(* All that is reached is in the chain; a step that reaches nothing new    *)
(* has reached all of it, for the others would be in a circle.             *)
LEMMA ReachStep ==
  ASSUME NEW C, NEW nx, NEW first, LargeInv(C, nx, first), null \notin C,
         NEW S, {first} \ {null} \subseteq S, S \subseteq C
  PROVE  LET S2 == S \union ({nx[p] : p \in S} \ {null})
         IN  S2 \subseteq C /\ (S2 = S => S = C)
<1> DEFINE S2 == S \union ({nx[p] : p \in S} \ {null})
<1>1. S2 \subseteq C
  BY DEF LargeInv
<1>2. ASSUME S2 = S, S # C
      PROVE  FALSE
  <2> DEFINE U == C \ S
  <2>1. PICK a \in U : \A b \in U : nx[b] # a
    <3>1. U # {} /\ U \in SUBSET C
      BY <1>2
    <3> HIDE DEF U
    <3> QED
      BY <3>1 DEF LargeInv, NoCircle
  <2>2. a # first /\ a # null
    BY <2>1
  <2>3. PICK b \in C : nx[b] = a
    BY <2>1, <2>2 DEF LargeInv
  <2>4. b \in S
    BY <2>1, <2>3
  <2>5. a \in S2
    BY <2>2, <2>3, <2>4
  <2> QED
    BY <1>2, <2>1, <2>5
<1> QED
  BY <1>1, <1>2

(* After as many links as there are chunks, all are reached. *)
LEMMA AllReached ==
  ASSUME NEW C, NEW nx, NEW first, LargeInv(C, nx, first), null \notin C,
         IsFiniteSet(C), NEW n \in Nat, Cardinality(C) <= n,
         NEW from, Reaches(from, nx, first, n)
  PROVE  from[n] = C
<1> DEFINE Start == {first} \ {null}
           Grown(S) == S \union ({nx[p] : p \in S} \ {null})
<1>1. Cardinality(C) \in Nat
  BY FS_CardinalityType
<1>2. from[0] = Start
  BY DEF Reaches
<1>3. ASSUME NEW k \in 0 .. n - 1
      PROVE  from[k + 1] = Grown(from[k])
  <2>1. k + 1 \in 0 .. n /\ k + 1 # 0 /\ (k + 1) - 1 = k
    OBVIOUS
  <2>2. from[k + 1] = Grown(from[(k + 1) - 1])
    BY <2>1 DEF Reaches
  <2> QED
    BY <2>1, <2>2
<1>4. Start \subseteq C
  BY DEF LargeInv
<1> DEFINE T == {k \in 0 .. n : /\ Start \subseteq from[k] /\ from[k] \subseteq C
                                /\ k <= Cardinality(from[k]) \/ from[k] = C}
<1>5. 0 \in T
  <2>1. Cardinality(Start) \in Nat
    BY <1>4, FS_Subset, FS_CardinalityType
  <2> QED
    BY <1>2, <1>4, <2>1
<1>6. ASSUME NEW k \in 0 .. n - 1, k \in T
      PROVE  k + 1 \in T
  <2> DEFINE S == from[k]
             S2 == from[k + 1]
  <2>1. /\ Start \subseteq S /\ S \subseteq C
        /\ k <= Cardinality(S) \/ S = C
        /\ S2 = Grown(S) /\ k + 1 \in 0 .. n /\ k \in Nat
    BY <1>3, <1>6
  <2> HIDE DEF S, S2
  <2>2. S2 \subseteq C /\ S \subseteq S2 /\ (S2 = S => S = C)
    BY <2>1, ReachStep
  <2>3. IsFiniteSet(S2) /\ Cardinality(S) \in Nat /\ Cardinality(S2) \in Nat
    BY <2>1, <2>2, FS_Subset, FS_CardinalityType
  <2>4. S2 = C \/ k + 1 <= Cardinality(S2)
    <3>1. CASE S = C
      BY <2>2, <3>1
    <3>2. CASE S # C
      <4>1. Cardinality(S) < Cardinality(S2)
        BY <2>2, <2>3, <3>2, FS_Subset
      <4> QED
        BY <2>1, <2>3, <3>2, <4>1
    <3> QED
      BY <3>1, <3>2
  <2>5. Start \subseteq S2
    BY <2>1, <2>2
  <2> QED
    BY <2>1, <2>2, <2>4, <2>5 DEF S2
<1> HIDE DEF T
<1>7. n \in T
  BY <1>5, <1>6, UpTo
<1>8. from[n] \subseteq C /\ (n <= Cardinality(from[n]) \/ from[n] = C)
  BY <1>7 DEF T
<1>9. from[n] # C => Cardinality(from[n]) < Cardinality(C) /\ Cardinality(from[n]) \in Nat
  BY <1>8, FS_Subset, FS_CardinalityType
<1> QED
  BY <1>1, <1>8, <1>9

-----------------------------------------------------------------------------
(***************************************************************************)
(* What the invariant says of zombies.                                     *)
(***************************************************************************)
LEMMA HeldFacts ==
  ASSUME HeldInv(FreeLinks, Held), ApartInv
  PROVE  /\ DOMAIN Held = DOMAIN live \union Kept /\ DOMAIN Held \subseteq Nat
         /\ null \notin DOMAIN Held /\ IsFiniteSet(DOMAIN Held)
         /\ \A p \in DOMAIN live : Held[p] = live[p] /\ p \notin Kept
         /\ \A z \in DOMAIN zombies : /\ Held[z] = zombies[z].size /\ z \notin DOMAIN live
                                      /\ z \in Kept /\ z \notin DOMAIN gone
         /\ DOMAIN FreeLinks = DOMAIN next \ Kept
         /\ \A a \in DOMAIN FreeLinks : FreeLinks[a] = next[a]
         /\ DOMAIN FreeLinks \subseteq Nat /\ IsFiniteSet(DOMAIN FreeLinks)
         /\ DOMAIN FreeLinks \intersect DOMAIN Held = {}
         /\ DOMAIN next \subseteq DOMAIN FreeLinks \union Kept
<1>1. DOMAIN Held = DOMAIN live \union Kept /\ DOMAIN Held \subseteq Nat
  BY DEF Held, HeldInv, SizesInv
<1>2. /\ \A p \in DOMAIN live : Held[p] = live[p] /\ p \notin Kept
      /\ \A z \in DOMAIN zombies : /\ Held[z] = zombies[z].size /\ z \notin DOMAIN live
                                   /\ z \in Kept /\ z \notin DOMAIN gone
  BY DEF Held, ApartInv, Kept
<1>3. DOMAIN FreeLinks = DOMAIN next \ Kept /\ \A a \in DOMAIN FreeLinks : FreeLinks[a] = next[a]
  BY DEF FreeLinks, Unkept
<1>4. DOMAIN FreeLinks \subseteq Nat
  BY DEF HeldInv, FreeListsInv, FreeInv, LinksInv
<1>5. DOMAIN FreeLinks \intersect DOMAIN Held = {} /\ IsFiniteSet(DOMAIN FreeLinks)
  BY DEF HeldInv, PartedInv
<1> QED
  BY <1>1, <1>2, <1>3, <1>4, <1>5, NullFacts DEF HeldInv

(* A bucket starts with a free object. *)
LEMMA FirstIsFree ==
  ASSUME HeldInv(FreeLinks, Held), NEW i \in Idx
  PROVE  /\ buckets \in [Idx -> Nat \union {null}]
         /\ buckets[i] # null => buckets[i] \in DOMAIN FreeLinks
  BY DEF HeldInv, FreeListsInv, FreeInv, HeadsInv

(* The zombies that wait. *)
LEMMA WaitingFacts ==
  ASSUME HeldInv(FreeLinks, Held), ApartInv
  PROVE  /\ Waiting \subseteq DOMAIN zombies /\ Waiting \subseteq Kept
         /\ Waiting \subseteq Nat \ DOMAIN FreeLinks /\ null \notin Waiting
         /\ WaitingChunks \subseteq Waiting
         /\ \A i \in Idx : WaitingOf(i) \subseteq Waiting
         /\ \A z \in Waiting : z \notin WaitingChunks => z \in WaitingOf(Home(z)) /\ Home(z) \in Idx
  BY HeldFacts, HomeIsIdx DEF Waiting, WaitingChunks, WaitingOf

(* The chains need nothing but the links of zombies. *)
LEMMA ChainsStay ==
  ASSUME HeldInv(FreeLinks, Held), ApartInv, ChainsInv,
         zombieBucketsFirst' = zombieBucketsFirst, zombieBucketsLast' = zombieBucketsLast,
         zombieLargeChunks' = zombieLargeChunks, restarts' = restarts, zombies' = zombies,
         SameLinks(next, next', Kept)
  PROVE  ChainsInv'
<1>1. /\ \A i : WaitingOf(i)' = WaitingOf(i)
      /\ WaitingChunks' = WaitingChunks
  BY DEF WaitingOf, WaitingChunks, Waiting, IsChunk, Home
<1>2. ASSUME NEW i \in Idx
      PROVE  ChainInv(WaitingOf(i), next', zombieBucketsFirst[i], zombieBucketsLast[i])
  <2>1. \A a \in WaitingOf(i) : a \in Kept
    BY WaitingFacts
  <2>2. ChainInv(WaitingOf(i), next, zombieBucketsFirst[i], zombieBucketsLast[i])
    BY DEF ChainsInv
  <2> QED
    BY <2>1, <2>2, ChainStays DEF SameLinks
<1>3. LargeInv(WaitingChunks, next', zombieLargeChunks)
  <2>1. \A a \in WaitingChunks : a \in Kept
    BY WaitingFacts
  <2>2. LargeInv(WaitingChunks, next, zombieLargeChunks)
    BY DEF ChainsInv
  <2>3. WaitingChunks \subseteq DOMAIN next
    BY <2>2 DEF LargeInv
  <2> QED
    BY <2>1, <2>2, <2>3, LargeStays DEF SameLinks
<1> QED
  BY <1>1, <1>2, <1>3 DEF ChainsInv

-----------------------------------------------------------------------------
(***************************************************************************)
(* A step of Buckets is one of Base: zombies are not touched.              *)
(***************************************************************************)
ZombieLinksStay == SameLinks(next, next', Kept)

BaseStep == Base!Next /\ ApartInv' /\ ZombieLinksStay

(* What a caller gets, and gives back, Base's callers do. *)
LEMMA HeldSteps ==
  ASSUME HeldInv(FreeLinks, Held), ApartInv, UNCHANGED zvars
  PROVE  /\ \A x, s : x \notin DOMAIN Held /\ Hold(x, s) => Base!Hold(x, s) /\ ApartInv'
         /\ \A x \in DOMAIN live : GiveUp(x) => Base!GiveUp(x) /\ ApartInv'
         /\ live' = live => Held' = Held /\ HeldCount' = HeldCount /\ ApartInv'
<1>1. /\ zombies' = zombies /\ gone' = gone /\ Kept' = Kept
  BY DEF zvars, Kept
<1>2. CountInv(Held, HeldCount)
  BY DEF CountInv, HeldCount, HeldInv
<1>3. ASSUME NEW x, NEW s, x \notin DOMAIN Held, Hold(x, s)
      PROVE  Base!Hold(x, s) /\ ApartInv'
  <2>1. live' = With(live, x, s) /\ x \notin DOMAIN live /\ x \notin Kept
    BY <1>3, HeldFacts DEF Hold
  <2>2. Held' = With(Held, x, s)
    BY <1>1, <2>1 DEF Held, With
  <2>3. HeldCount' = HeldCount + 1
    <3>1. CountInv(Held', HeldCount + 1)
      BY <1>2, <1>3, <2>2, CountFollows
    <3> QED
      BY <3>1 DEF CountInv, HeldCount
  <2>4. ApartInv'
    BY <1>1, <2>1 DEF ApartInv, With
  <2> QED
    BY <2>2, <2>3, <2>4, SameFunctions DEF Base!Hold
<1>4. ASSUME NEW x \in DOMAIN live, GiveUp(x)
      PROVE  Base!GiveUp(x) /\ ApartInv'
  <2>1. live' = Without(live, x) /\ x \notin Kept /\ x \in DOMAIN Held
    BY <1>4, HeldFacts DEF GiveUp
  <2>2. Held' = Without(Held, x)
    BY <1>1, <2>1 DEF Held, Without
  <2>3. HeldCount' = HeldCount - 1
    <3>1. CountInv(Held', HeldCount - 1)
      BY <1>2, <2>1, <2>2, CountFollows
    <3> QED
      BY <3>1 DEF CountInv, HeldCount
  <2>4. ApartInv'
    BY <1>1, <2>1 DEF ApartInv, Without
  <2> QED
    BY <2>2, <2>3, <2>4, SameFunctions DEF Base!GiveUp
<1>5. live' = live => Held' = Held /\ HeldCount' = HeldCount /\ ApartInv'
  BY <1>1 DEF Held, HeldCount, ApartInv
<1> QED
  BY <1>3, <1>4, <1>5

LEMMA AllocateOfBase ==
  ASSUME HeldInv(FreeLinks, Held), ApartInv, UNCHANGED zvars,
         NEW idx \in Idx, allocate(idx)
  PROVE  BaseStep
<1> DEFINE ret == buckets[idx]
<1>1. /\ status = "ok" /\ ret # null
      /\ buckets' = [buckets EXCEPT ![idx] = next[ret]]
      /\ next' = Without(next, ret) /\ Hold(ret, BucketSize[idx])
      /\ UNCHANGED <<chunks, taken, made, status>>
  BY DEF allocate
<1>2. ret \in DOMAIN FreeLinks /\ ret \notin DOMAIN Held /\ ret \notin Kept /\ FreeLinks[ret] = next[ret]
  BY <1>1, FirstIsFree, HeldFacts
<1> HIDE DEF ret
<1>3. Kept' = Kept
  BY DEF zvars, Kept
<1>4. FreeLinks' = Without(FreeLinks, ret)
  BY <1>1, <1>2, <1>3 DEF FreeLinks, Unkept, Without
<1>5. Base!Hold(ret, BucketSize[idx]) /\ ApartInv'
  BY <1>1, <1>2, HeldSteps
<1>6. Base!allocate(idx)
  BY <1>1, <1>2, <1>4, <1>5, SameFunctions DEF Base!allocate, ret
<1>7. ZombieLinksStay
  BY <1>1, <1>2 DEF ZombieLinksStay, SameLinks, Without
<1> QED
  BY <1>5, <1>6, <1>7, SamePlaces DEF BaseStep, Base!Next

(* Formatting writes the links of new objects only. *)
IsHeap(h) == h = [next |-> h.next, first |-> h.first, made |-> h.made]

HeapWithout(h, K) == [next |-> Unkept(h.next, K), first |-> h.first, made |-> h.made]

Fresh(i, start, n, K) == Objects(BucketSize[i], start, n) \intersect K = {}

LEMMA FormatKeeps ==
  ASSUME NEW K, NEW i \in Idx, NEW start, NEW n, Fresh(i, start, n, K),
         NEW heap, IsHeap(heap)
  PROVE  /\ IsHeap(format(heap, i, start, n))
         /\ format(HeapWithout(heap, K), i, start, n) = HeapWithout(format(heap, i, start, n), K)
         /\ SameLinks(heap.next, format(heap, i, start, n).next, K)
<1> DEFINE size == BucketSize[i]
           w == Written(size, start, n)
           F(h) == [next |-> Over(w, h.next), first |-> start, made |-> h.made \union DOMAIN w]
           g == format(heap, i, start, n)
           cut == HeapWithout(heap, K)
<1>1. \A h : format(h, i, start, n) = IF ItemCnt(size, n) = 0 THEN h ELSE F(h)
  BY FormatIsWriting
<1>2. DOMAIN w \intersect K = {}
  BY DEF Written, Fresh
<1> HIDE DEF w, size
<1>3. CASE ItemCnt(size, n) = 0
  <2>1. g = heap /\ format(cut, i, start, n) = cut
    BY <1>1, <1>3
  <2> QED
    BY <2>1 DEF SameLinks
<1>4. CASE ItemCnt(size, n) # 0
  <2>1. g = F(heap) /\ format(cut, i, start, n) = F(cut)
    BY <1>1, <1>4
  <2> HIDE DEF g
  <2>2. g.next = Over(w, heap.next) /\ g.first = start /\ g.made = heap.made \union DOMAIN w
    BY <2>1
  <2>3. IsHeap(g)
    BY <2>1, <2>2 DEF IsHeap
  <2>4. Unkept(Over(w, heap.next), K) = Over(w, Unkept(heap.next, K))
    BY <1>2 DEF Unkept, Over
  <2>5. F(cut) = HeapWithout(g, K)
    BY <2>2, <2>4 DEF HeapWithout
  <2>6. SameLinks(heap.next, g.next, K)
    BY <1>2, <2>2 DEF Over, SameLinks
  <2> QED
    BY <2>1, <2>3, <2>5, <2>6 DEF g
<1> QED
  BY <1>3, <1>4

LEMMA FormatKeepsTwice ==
  ASSUME NEW K, NEW i \in Idx, NEW p1, NEW n1, NEW p2, NEW n2,
         Fresh(i, p1, n1, K), Fresh(i, p2, n2, K), NEW heap, IsHeap(heap)
  PROVE  LET g == format(format(heap, i, p1, n1), i, p2, n2)
         IN  /\ format(format(HeapWithout(heap, K), i, p1, n1), i, p2, n2)
                  = HeapWithout(g, K)
             /\ SameLinks(heap.next, g.next, K)
<1>1. PICK g1 : g1 = format(heap, i, p1, n1)
  OBVIOUS
<1>2. /\ IsHeap(g1)
      /\ format(HeapWithout(heap, K), i, p1, n1) = HeapWithout(g1, K)
      /\ SameLinks(heap.next, g1.next, K)
  BY <1>1, FormatKeeps
<1>3. PICK g2 : g2 = format(g1, i, p2, n2)
  OBVIOUS
<1>4. /\ format(HeapWithout(g1, K), i, p2, n2) = HeapWithout(g2, K)
      /\ SameLinks(g1.next, g2.next, K)
  BY <1>2, <1>3, FormatKeeps
<1> QED
  BY <1>1, <1>2, <1>3, <1>4 DEF SameLinks

(* So does refilling. *)
LEMMA RefillKeepsOthers ==
  ASSUME NEW K, NEW m \in AllMultipages, ObjectsOf(m) \intersect K = {},
         NEW nx, NEW f, NEW M
  PROVE  LET g == RefilledHeap(nx, f, M, m)
         IN  /\ RefilledHeap(Unkept(nx, K), f, M, m) = HeapWithout(g, K)
             /\ SameLinks(nx, g.next, K)
<1> DEFINE one == [start |-> Segments[m].ptr1, n |-> Segments[m].sz1, from |-> 0]
           two == [start |-> Segments[m].ptr2, n |-> Segments[m].sz2, from |-> Segments[m].sz1]
           none == [next |-> nx, first |-> f, made |-> M]
<1>1. m.idx \in Idx
  BY MultipageFacts
<1>2. Fresh(m.idx, one.start, one.n, K) /\ (IsCut(m) => Fresh(m.idx, two.start, two.n, K))
  <2>1. one \in Segs(m) /\ (IsCut(m) => two \in Segs(m))
    BY DEF Segs
  <2> HIDE DEF one, two
  <2> QED
    BY <2>1 DEF Fresh, ObjectsOf
<1>3. IsHeap(none) /\ none.next = nx
      /\ HeapWithout(none, K) = [next |-> Unkept(nx, K), first |-> f, made |-> M]
  BY DEF IsHeap, HeapWithout
<1>4. PICK h : /\ h = none /\ IsHeap(h) /\ h.next = nx
               /\ HeapWithout(h, K) = [next |-> Unkept(nx, K), first |-> f, made |-> M]
  BY <1>3
<1>5. PICK p1, n1, p2, n2 : /\ p1 = Segments[m].ptr1 /\ n1 = Segments[m].sz1
                            /\ p2 = Segments[m].ptr2 /\ n2 = Segments[m].sz2
                            /\ Fresh(m.idx, p1, n1, K) /\ (IsCut(m) => Fresh(m.idx, p2, n2, K))
  BY <1>2
<1> HIDE DEF one, two, none
<1>6. /\ RefilledHeap(nx, f, M, m) = IF IsCut(m) THEN format(format(h, m.idx, p1, n1), m.idx, p2, n2)
                                                 ELSE format(h, m.idx, p1, n1)
      /\ RefilledHeap(Unkept(nx, K), f, M, m)
           = IF IsCut(m) THEN format(format(HeapWithout(h, K), m.idx, p1, n1), m.idx, p2, n2)
                         ELSE format(HeapWithout(h, K), m.idx, p1, n1)
  BY <1>4, <1>5 DEF RefilledHeap, none
<1>7. CASE IsCut(m)
  BY <1>1, <1>4, <1>5, <1>6, <1>7, FormatKeepsTwice
<1>8. CASE ~IsCut(m)
  BY <1>1, <1>4, <1>5, <1>6, <1>8, FormatKeeps
<1> QED
  BY <1>7, <1>8

LEMMA FormattedOfBase ==
  ASSUME HeldInv(FreeLinks, Held), ApartInv,
         NEW idx \in Idx, NEW m \in Multipages(idx) \ taken, buckets[idx] = null
  PROVE  LET g == Formatted(idx, m)
         IN  /\ Base!Formatted(idx, m) = HeapWithout(g, Kept)
             /\ g.first # null => g.first \in DOMAIN g.next /\ g.first \notin DOMAIN Held
             /\ SameLinks(next, g.next, Kept)
<1> DEFINE g == Formatted(idx, m)
           h == Base!Formatted(idx, m)
<1>1. m \in AllMultipages /\ m \notin taken /\ m.idx = idx
  BY DEF AllMultipages, Multipages
<1>2. /\ g = RefilledHeap(next, buckets[m.idx], made[m.idx], m)
      /\ h = RefilledHeap(FreeLinks, buckets[m.idx], made[m.idx], m)
  BY <1>1, SameObjects, SamePlaces, SameItems DEF Formatted, Base!Formatted, RefilledHeap
<1>3. ObjectsOf(m) \intersect ObjectsIn(taken) = {}
  BY <1>1, NewObjects DEF HeldInv, PartedInv
<1>4. ObjectsOf(m) \intersect DOMAIN Held = {}
  <2>1. ASSUME NEW a \in ObjectsOf(m), a \in DOMAIN Held
        PROVE  FALSE
    <3>1. a % PageSize # memForbidden
      BY <1>1, ObjectFacts
    <3>2. a \in ObjectsIn(taken)
      BY <2>1, <3>1 DEF HeldInv, PartedInv, OfBucket
    <3> QED
      BY <1>3, <3>2
  <2> QED
    BY <2>1
<1> HIDE DEF g, h
<1>10. /\ h = HeapWithout(g, Kept)
       /\ SameLinks(next, g.next, Kept)
  <2>1. ObjectsOf(m) \intersect Kept = {}
    BY <1>4, HeldFacts
  <2>2. h = RefilledHeap(Unkept(next, Kept), buckets[m.idx], made[m.idx], m)
    BY <1>2 DEF FreeLinks
  <2> QED
    BY <1>1, <1>2, <2>1, <2>2, RefillKeepsOthers
<1>11. g.first # null => g.first \in DOMAIN g.next /\ g.first \notin DOMAIN Held
  <2>1. h.first = g.first /\ h.next = Unkept(g.next, Kept)
    BY <1>10 DEF HeapWithout
  <2>2. PICK D : FreeInv(buckets, FreeLinks, DOMAIN FreeLinks, D)
    BY DEF HeldInv, FreeListsInv
  <2>3. ObjectsOf(m) \intersect DOMAIN FreeLinks = {}
    BY <1>3 DEF HeldInv, PartedInv
  <2>4. DOMAIN h.next = DOMAIN FreeLinks \union ObjectsOf(m) /\ LosesFirstSegment(buckets, h, m, D)
    <3>1. buckets[m.idx] = null
      BY <1>1
    <3> DEFINE new == RefilledHeap(FreeLinks, buckets[m.idx], made[m.idx], m)
    <3>2. /\ new.first # null
          /\ DOMAIN new.next = DOMAIN FreeLinks \union ObjectsOf(m)
          /\ new.made = made[m.idx] \union ObjectsOf(m)
          /\ IsFiniteSet(ObjectsOf(m))
          /\ LosesFirstSegment(buckets, new, m, D)
      <4>1. m \in AllMultipages
        BY <1>1
      <4> QED
        BY <2>2, <2>3, <3>1, <4>1, Refill
    <3> HIDE DEF new
    <3> QED
      BY <1>2, <3>2 DEF new
  <2>5. PICK lost : FreeInv([buckets EXCEPT ![idx] = h.first], h.next, DOMAIN h.next, D \union lost)
    BY <1>1, <2>4 DEF LosesFirstSegment
  <2> DEFINE bk == [buckets EXCEPT ![idx] = h.first]
  <2>6. bk[idx] = h.first
    BY FirstIsFree
  <2>7. bk[idx] # null => bk[idx] \in DOMAIN h.next
    BY <2>5 DEF FreeInv, HeadsInv
  <2>8. h.first # null => h.first \in DOMAIN FreeLinks \union ObjectsOf(m)
    BY <2>4, <2>6, <2>7
  <2>9. DOMAIN h.next \subseteq DOMAIN g.next
    BY <2>1 DEF Unkept
  <2> QED
    BY <1>4, <2>1, <2>4, <2>8, <2>9, HeldFacts
<1> QED
  BY <1>10, <1>11 DEF g, h

(* An empty bucket is filled with objects that are no zombies. *)
LEMMA RefillOfBase ==
  ASSUME HeldInv(FreeLinks, Held), ApartInv, UNCHANGED zvars,
         NEW idx \in Idx, allocateInCaseNoFreeBucket(idx)
  PROVE  BaseStep
<1>1. PICK m \in Multipages(idx) \ taken :
        LET heap == Formatted(idx, m)
        IN  /\ taken' = taken \union {m}
            /\ made' = [made EXCEPT ![idx] = heap.made]
            /\ IF heap.first = null
                 THEN status' = "nullRead" /\ UNCHANGED <<buckets, next, live, out>>
                 ELSE /\ buckets' = [buckets EXCEPT ![idx] = heap.next[heap.first]]
                      /\ next' = Without(heap.next, heap.first)
                      /\ Hold(heap.first, BucketSize[idx])
                      /\ UNCHANGED status
  BY DEF allocateInCaseNoFreeBucket
<1>2. status = "ok" /\ buckets[idx] = null /\ UNCHANGED chunks
  BY DEF allocateInCaseNoFreeBucket
<1> DEFINE g == Formatted(idx, m)
           h == Base!Formatted(idx, m)
           f == g.first
<1>3. /\ h = HeapWithout(g, Kept)
      /\ f # null => f \in DOMAIN g.next /\ f \notin DOMAIN Held
      /\ SameLinks(next, g.next, Kept)
  BY <1>2, FormattedOfBase
<1>4. Kept' = Kept
  BY DEF zvars, Kept
<1>5. /\ taken' = taken \union {m} /\ made' = [made EXCEPT ![idx] = g.made]
      /\ f = null => status' = "nullRead" /\ UNCHANGED <<buckets, next, live>>
      /\ f # null => /\ buckets' = [buckets EXCEPT ![idx] = g.next[f]]
                     /\ next' = Without(g.next, f)
                     /\ Hold(f, BucketSize[idx]) /\ UNCHANGED status
  BY <1>1
<1> HIDE DEF g, h
<1>6. h.first = f /\ h.made = g.made /\ h.next = Unkept(g.next, Kept)
  BY <1>3 DEF HeapWithout
<1>7. m \in Base!Multipages(idx) \ taken /\ Base!null = null
  BY SamePlaces, SameFunctions
<1> HIDE DEF f
<1>8. CASE f = null
  <2>1. next' = next /\ live' = live
    BY <1>5, <1>8
  <2>2. Held' = Held /\ HeldCount' = HeldCount /\ ApartInv'
    BY <2>1, HeldSteps
  <2>3. FreeLinks' = FreeLinks
    BY <1>4, <2>1 DEF FreeLinks
  <2>4. Base!allocateInCaseNoFreeBucket(idx)
    BY <1>2, <1>5, <1>6, <1>7, <1>8, <2>2, <2>3 DEF Base!allocateInCaseNoFreeBucket, h
  <2>5. ZombieLinksStay
    BY <2>1 DEF ZombieLinksStay, SameLinks
  <2> QED
    BY <2>2, <2>4, <2>5, SamePlaces DEF BaseStep, Base!Next
<1>9. CASE f # null
  <2>1. f \in DOMAIN g.next /\ f \notin DOMAIN Held /\ f \notin Kept
    BY <1>3, <1>9, HeldFacts
  <2>2. Base!Hold(f, BucketSize[idx]) /\ ApartInv'
    BY <1>5, <1>9, <2>1, HeldSteps
  <2>3. next' = Without(g.next, f) /\ buckets' = [buckets EXCEPT ![idx] = g.next[f]]
    BY <1>5, <1>9
  <2>4. FreeLinks' = Without(h.next, f) /\ h.next[f] = g.next[f]
    BY <1>4, <1>6, <2>1, <2>3 DEF FreeLinks, Unkept, Without
  <2>5. Base!allocateInCaseNoFreeBucket(idx)
    BY <1>2, <1>5, <1>6, <1>7, <1>9, <2>2, <2>3, <2>4, SameFunctions
       DEF Base!allocateInCaseNoFreeBucket, h
  <2>6. ZombieLinksStay
    BY <1>3, <2>1, <2>3 DEF ZombieLinksStay, SameLinks, Without
  <2> QED
    BY <2>2, <2>5, <2>6, SamePlaces DEF BaseStep, Base!Next
<1> QED
  BY <1>8, <1>9

(* What one needs to know of chunks and their objects. *)
LEMMA ChunkOfObject ==
  ASSUME HeldInv(FreeLinks, Held), NEW ptr \in DOMAIN Held
  PROVE  /\ IsChunk(ptr) <=> ptr % PageSize = memForbidden
         /\ ~IsChunk(ptr) => Held[ptr] = BucketSize[Home(ptr)]
         /\ IsChunk(ptr) => /\ ptrToPageStart(ptr) \in DOMAIN chunks
                            /\ Held[ptr] = chunks[ptrToPageStart(ptr)] * PageSize - memForbidden
         /\ Home(ptr) = addressToIdx(ptrToPageStart(ptr))
  BY DEF HeldInv, SizesInv, IsChunk, getOffsetInPage, ptrToPageStart, Home

(* A chunk of its own starts at a page no chunk starts at. *)
LEMMA AllocateLargeOfBase ==
  ASSUME HeldInv(FreeLinks, Held), ApartInv, UNCHANGED zvars,
         NEW n \in 1 .. MaxLargePages, allocateInCaseTooLargeForBucket(n)
  PROVE  BaseStep
<1>1. PICK p \in LargePages :
        /\ ChunkPages(p, n) \subseteq LargePages
        /\ \A q \in DOMAIN chunks :
             ChunkPages(p, n) \intersect ChunkPages(q, chunks[q]) = {}
        /\ chunks' = With(chunks, p, n)
        /\ Hold(p * PageSize + memForbidden, n * PageSize - memForbidden)
  BY DEF allocateInCaseTooLargeForBucket
<1>2. status = "ok" /\ UNCHANGED <<buckets, next, taken, made, status>>
  BY DEF allocateInCaseTooLargeForBucket
<1> DEFINE x == p * PageSize + memForbidden
<1>3. p \in Nat
  BY PlacesAssumption
<1>4. x % PageSize = memForbidden /\ x \div PageSize = p
  BY <1>3, ChunkObject
<1>5. p \notin DOMAIN chunks
  <2> SUFFICES ASSUME p \in DOMAIN chunks PROVE FALSE
    OBVIOUS
  <2>1. chunks[p] \in 1 .. MaxLargePages
    BY DEF HeldInv, ChunksInv
  <2>2. p \in ChunkPages(p, n) /\ p \in ChunkPages(p, chunks[p])
    BY <1>3, <2>1, PageSizeAssumption DEF ChunkPages
  <2> QED
    BY <1>1, <2>2
<1>6. x \notin DOMAIN Held
  BY <1>4, <1>5 DEF HeldInv, SizesInv
<1>7. Base!Hold(x, n * PageSize - memForbidden) /\ ApartInv'
  BY <1>1, <1>6, HeldSteps
<1>8. FreeLinks' = FreeLinks
  BY <1>2 DEF FreeLinks, zvars, Kept
<1>9. Base!allocateInCaseTooLargeForBucket(n)
  <2>1. \A a, b : Base!ChunkPages(a, b) = ChunkPages(a, b)
    BY DEF Base!ChunkPages, ChunkPages
  <2> QED
    BY <1>1, <1>2, <1>7, <1>8, <2>1, SameFunctions DEF Base!allocateInCaseTooLargeForBucket
<1>10. ZombieLinksStay
  BY <1>2 DEF ZombieLinksStay, SameLinks
<1> QED
  BY <1>7, <1>9, <1>10 DEF BaseStep, Base!Next

LEMMA SamePointers ==
  /\ \A ptr : Base!getOffsetInPage(ptr) = getOffsetInPage(ptr)
  /\ \A ptr : Base!ptrToPageStart(ptr) = ptrToPageStart(ptr)
  BY DEF Base!getOffsetInPage, getOffsetInPage, Base!ptrToPageStart, ptrToPageStart

(* What a caller gives back is no zombie. *)
LEMMA DeallocateToBucketOfBase ==
  ASSUME HeldInv(FreeLinks, Held), ApartInv, UNCHANGED zvars,
         NEW ptr \in DOMAIN live, deallocateToBucket(ptr)
  PROVE  BaseStep
<1> DEFINE idx == addressToIdx(ptrToPageStart(ptr))
<1>1. /\ status = "ok" /\ getOffsetInPage(ptr) # memForbidden
      /\ next' = With(next, ptr, buckets[idx])
      /\ buckets' = [buckets EXCEPT ![idx] = ptr]
      /\ GiveUp(ptr) /\ UNCHANGED <<chunks, taken, made, status>>
  BY DEF deallocateToBucket
<1>2. ptr \in DOMAIN Held /\ ptr \notin Kept
  BY HeldFacts
<1> HIDE DEF idx
<1>3. Base!GiveUp(ptr) /\ ApartInv'
  BY <1>1, HeldSteps
<1>4. FreeLinks' = With(FreeLinks, ptr, buckets[idx])
  <2>1. Kept' = Kept
    BY DEF zvars, Kept
  <2> QED
    BY <1>1, <1>2, <2>1 DEF FreeLinks, Unkept, With
<1>5. Base!deallocateToBucket(ptr)
  BY <1>1, <1>3, <1>4, SameFunctions, SamePlaces, SamePointers
     DEF Base!deallocateToBucket, idx
<1>6. ZombieLinksStay
  BY <1>1, <1>2 DEF ZombieLinksStay, SameLinks, With
<1> QED
  BY <1>2, <1>3, <1>5, <1>6 DEF BaseStep, Base!Next

LEMMA DeallocateChunkOfBase ==
  ASSUME HeldInv(FreeLinks, Held), ApartInv, UNCHANGED zvars,
         NEW ptr \in DOMAIN live, deallocateChunk(ptr)
  PROVE  BaseStep
<1>1. ptr \in DOMAIN Held
  BY HeldFacts
<1>2. /\ status = "ok" /\ getOffsetInPage(ptr) = memForbidden
      /\ ptrToPageStart(ptr) \in DOMAIN chunks
      /\ UNCHANGED <<buckets, next, taken, made>>
  BY <1>1, ChunkOfObject DEF deallocateChunk, IsChunk
<1>3. /\ chunks' = Without(chunks, ptrToPageStart(ptr))
      /\ GiveUp(ptr) /\ UNCHANGED status
  BY <1>2 DEF deallocateChunk
<1>4. Base!GiveUp(ptr) /\ ApartInv'
  BY <1>3, HeldSteps
<1>5. FreeLinks' = FreeLinks
  BY <1>2 DEF FreeLinks, zvars, Kept
<1>6. Base!deallocateChunk(ptr)
  BY <1>2, <1>3, <1>4, <1>5, SameFunctions, SamePointers DEF Base!deallocateChunk
<1>7. ZombieLinksStay
  BY <1>2 DEF ZombieLinksStay, SameLinks
<1> QED
  BY <1>1, <1>4, <1>6, <1>7 DEF BaseStep, Base!Next

(* Whatever Buckets does keeps the invariant. *)
LEMMA BucketsKeep ==
  ASSUME SafeIInv, Next, UNCHANGED zvars
  PROVE  SafeIInv'
<1>1. HeldInv(FreeLinks, Held) /\ ZombiesInv
  BY DEF SafeIInv
<1>2. BaseStep
  BY <1>1, AllocateOfBase, RefillOfBase, AllocateLargeOfBase,
     DeallocateToBucketOfBase, DeallocateChunkOfBase DEF Next, ZombiesInv
<1>3. HeldInv(FreeLinks, Held)'
  BY <1>1, <1>2, BaseKeeps DEF BaseStep
<1>4. ChainsInv'
  <2>1. /\ zombieBucketsFirst' = zombieBucketsFirst /\ zombieBucketsLast' = zombieBucketsLast
        /\ zombieLargeChunks' = zombieLargeChunks /\ restarts' = restarts /\ zombies' = zombies
    BY DEF zvars
  <2> QED
    BY <1>1, <1>2, <2>1, ChainsStay DEF ZombiesInv, BaseStep, ZombieLinksStay
<1>5. RestartsInv' /\ MapInv'
  BY <1>1 DEF zvars, ZombiesInv, RestartsInv, MapInv, IsChunk
<1> QED
  BY <1>2, <1>3, <1>4, <1>5 DEF SafeIInv, ZombiesInv, BaseStep

-----------------------------------------------------------------------------
(***************************************************************************)
(* A live object becomes a zombie: Base sees nothing of it.                *)
(***************************************************************************)
LEMMA ZombieHeld ==
  ASSUME HeldInv(FreeLinks, Held), ApartInv, ChainsInv,
         NEW ptr \in DOMAIN live, zombieableDeallocate(ptr)
  PROVE  HeldInv(FreeLinks, Held)' /\ ApartInv'
<1>1. /\ zombies' = With(zombies, ptr, [size |-> live[ptr],
                                        watched |-> doZombieEarlyDetection,
                                        at |-> restarts])
      /\ live' = Without(live, ptr) /\ gone' = gone
      /\ UNCHANGED <<buckets, chunks, taken, made, status>>
  BY DEF zombieableDeallocate, GiveUp
<1>2. ptr \in DOMAIN Held /\ ptr \notin Kept /\ ptr \notin DOMAIN next
  BY HeldFacts
<1>3. Kept' = Kept \union {ptr} /\ DOMAIN zombies' = DOMAIN zombies \union {ptr}
      /\ zombies'[ptr].size = live[ptr] /\ \A z \in DOMAIN zombies : z # ptr => zombies'[z] = zombies[z]
  BY <1>1 DEF Kept, With
<1>4. Held' = Held
  <2>1. DOMAIN live' \union Kept' = DOMAIN live \union Kept
    BY <1>1, <1>3 DEF Without
  <2>2. ASSUME NEW p \in DOMAIN live \union Kept
        PROVE  (IF p \in DOMAIN live' THEN live'[p]
                ELSE IF p \in DOMAIN zombies' THEN zombies'[p].size ELSE gone'[p])
               = (IF p \in DOMAIN live THEN live[p]
                  ELSE IF p \in DOMAIN zombies THEN zombies[p].size ELSE gone[p])
    BY <1>1, <1>2, <1>3 DEF Without, Kept
  <2> QED
    BY <2>1, <2>2 DEF Held
<1>5. \E z \in Kept' : \E v : next' = With(next, z, v) \/ next' = next
  <2>1. CASE getOffsetInPage(ptr) = memForbidden
    BY <1>3, <2>1 DEF zombieableDeallocate
  <2>2. CASE getOffsetInPage(ptr) # memForbidden
    <3> DEFINE idx == addressToIdx(ptrToPageStart(ptr))
               last == zombieBucketsLast[idx]
    <3>1. next' = IF last = null THEN next ELSE With(next, last, ptr)
      BY <2>2 DEF zombieableDeallocate, BecomesZombieOf
    <3>2. idx \in Idx
      BY <1>2, HeldFacts, HomeIsIdx, ChunkOfObject
    <3>3. last # null => last \in WaitingOf(idx)
      BY <3>2 DEF ChainsInv, ChainInv
    <3>4. last # null => last \in Kept
      BY <3>2, <3>3, WaitingFacts
    <3> QED
      BY <1>3, <3>1, <3>4
  <2> QED
    BY <2>1, <2>2
<1>6. FreeLinks' = FreeLinks
  BY <1>2, <1>3, <1>5 DEF FreeLinks, Unkept, With
<1>7. ApartInv'
  BY <1>1, <1>2, <1>3 DEF ApartInv, Kept, Without
<1> QED
  BY <1>1, <1>4, <1>6, <1>7 DEF HeldInv

(* It waits for a kill where its address puts it. *)
LEMMA ZombieWaits ==
  ASSUME HeldInv(FreeLinks, Held), ApartInv, RestartsInv,
         NEW ptr \in DOMAIN live, zombieableDeallocate(ptr)
  PROVE  /\ WaitingChunks' = WaitingChunks \union (IF IsChunk(ptr) THEN {ptr} ELSE {})
         /\ \A i : WaitingOf(i)' =
              WaitingOf(i) \union (IF ~IsChunk(ptr) /\ Home(ptr) = i THEN {ptr} ELSE {})
         /\ RestartsInv' /\ ptr \notin Waiting
<1>1. /\ zombies' = With(zombies, ptr, [size |-> live[ptr],
                                        watched |-> doZombieEarlyDetection,
                                        at |-> restarts])
      /\ restarts' = restarts
  BY DEF zombieableDeallocate
<1>2. ptr \notin DOMAIN zombies
  BY HeldFacts
<1>3. /\ DOMAIN zombies' = DOMAIN zombies \union {ptr} /\ zombies'[ptr].at = restarts
      /\ \A z \in DOMAIN zombies : zombies'[z] = zombies[z]
  BY <1>1, <1>2 DEF With
<1>4. Waiting' = Waiting \union {ptr} /\ ptr \notin Waiting
  BY <1>1, <1>2, <1>3 DEF Waiting
<1>5. WaitingChunks' = WaitingChunks \union (IF IsChunk(ptr) THEN {ptr} ELSE {})
  BY <1>4 DEF WaitingChunks, IsChunk
<1>6. ASSUME NEW i
      PROVE  WaitingOf(i)' =
               WaitingOf(i) \union (IF ~IsChunk(ptr) /\ Home(ptr) = i THEN {ptr} ELSE {})
  BY <1>4 DEF WaitingOf, IsChunk, Home
<1>7. RestartsInv'
  BY <1>1, <1>3 DEF RestartsInv
<1> QED
  BY <1>4, <1>5, <1>6, <1>7

LEMMA ZombieChains ==
  ASSUME HeldInv(FreeLinks, Held), ApartInv, RestartsInv, ChainsInv,
         NEW ptr \in DOMAIN live, zombieableDeallocate(ptr)
  PROVE  ChainsInv'
<1> DEFINE first == zombieBucketsFirst
           last == zombieBucketsLast
           idx == Home(ptr)
<1>1. /\ ptr \in DOMAIN Held /\ ptr \in Nat /\ ptr # null /\ idx \in Idx
      /\ idx = addressToIdx(ptrToPageStart(ptr))
  BY HeldFacts, HomeIsIdx, ChunkOfObject
<1>2. /\ WaitingChunks' = WaitingChunks \union (IF IsChunk(ptr) THEN {ptr} ELSE {})
      /\ \A i : WaitingOf(i)' =
           WaitingOf(i) \union (IF ~IsChunk(ptr) /\ idx = i THEN {ptr} ELSE {})
      /\ ptr \notin Waiting
  BY ZombieWaits
<1>3. /\ first \in [Idx -> Nat \union {null}] /\ last \in [Idx -> Nat \union {null}]
      /\ \A i \in Idx : ChainInv(WaitingOf(i), next, first[i], last[i])
      /\ LargeInv(WaitingChunks, next, zombieLargeChunks)
  BY DEF ChainsInv
<1>4. /\ \A i \in Idx : WaitingOf(i) \subseteq Waiting
      /\ WaitingChunks \subseteq Waiting /\ null \notin Waiting
      /\ \A i \in Idx : \A z \in WaitingOf(i) : Home(z) = i /\ z \notin WaitingChunks
  BY WaitingFacts DEF WaitingOf, WaitingChunks
<1>5. CASE IsChunk(ptr)
  <2>1. /\ next' = With(next, ptr, zombieLargeChunks) /\ zombieLargeChunks' = ptr
        /\ UNCHANGED <<zombieBucketsFirst, zombieBucketsLast>>
    BY <1>5 DEF zombieableDeallocate, IsChunk
  <2>2. \A i \in Idx : WaitingOf(i)' = WaitingOf(i)
    BY <1>2, <1>5
  <2>3. WaitingChunks' = WaitingChunks \union {ptr}
    BY <1>2, <1>5
  <2>4. \A a \in Waiting : a \in DOMAIN next => a \in DOMAIN next' /\ next'[a] = next[a]
    BY <1>2, <2>1 DEF With
  <2>5. ASSUME NEW i \in Idx
        PROVE  ChainInv(WaitingOf(i), next', first[i], last[i])
    <3>1. ChainInv(WaitingOf(i), next, first[i], last[i])
      BY <1>3
    <3>2. \A a \in WaitingOf(i) \ {last[i]} : a \in DOMAIN next => a \in DOMAIN next' /\ next'[a] = next[a]
      BY <1>4, <2>4
    <3> QED
      BY <3>1, <3>2, ChainStays
  <2>6. LargeInv(WaitingChunks \union {ptr}, next', ptr)
    <3>1. \A a \in WaitingChunks : a \in DOMAIN next' /\ next'[a] = next[a]
      BY <1>3, <1>4, <2>4 DEF LargeInv
    <3>2. ptr \in DOMAIN next' /\ next'[ptr] = zombieLargeChunks
      BY <2>1 DEF With
    <3>3. ptr \notin WaitingChunks /\ null \notin WaitingChunks
      BY <1>2, <1>4
    <3> QED
      BY <1>1, <1>3, <3>1, <3>2, <3>3, LargeExtends
  <2> QED
    BY <1>3, <2>1, <2>2, <2>3, <2>5, <2>6 DEF ChainsInv
<1>6. CASE ~IsChunk(ptr)
  <2>1. /\ next' = IF last[idx] = null THEN next ELSE With(next, last[idx], ptr)
        /\ zombieBucketsFirst' = [first EXCEPT ![idx] = IF @ = null THEN ptr ELSE @]
        /\ zombieBucketsLast' = [last EXCEPT ![idx] = ptr]
        /\ UNCHANGED zombieLargeChunks
    BY <1>1, <1>6 DEF zombieableDeallocate, IsChunk, BecomesZombieOf
  <2>2. \A i \in Idx : i # idx => WaitingOf(i)' = WaitingOf(i)
    BY <1>2
  <2>3. WaitingOf(idx)' = WaitingOf(idx) \union {ptr} /\ WaitingChunks' = WaitingChunks
    BY <1>2, <1>6
  <2>4. last[idx] # null => last[idx] \in WaitingOf(idx)
    BY <1>1, <1>3 DEF ChainInv
  <2>5. \A a \in Waiting : a # last[idx] /\ a \in DOMAIN next => a \in DOMAIN next' /\ next'[a] = next[a]
    BY <2>1 DEF With
  <2>6. ASSUME NEW i \in Idx, i # idx
        PROVE  ChainInv(WaitingOf(i), next', first[i], last[i])
    <3>1. ChainInv(WaitingOf(i), next, first[i], last[i])
      BY <1>3
    <3>2. \A a \in WaitingOf(i) : a # last[idx]
      BY <1>1, <1>4, <2>4, <2>6
    <3>3. \A a \in WaitingOf(i) \ {last[i]} : a \in DOMAIN next => a \in DOMAIN next' /\ next'[a] = next[a]
      BY <1>4, <2>5, <3>2
    <3> QED
      BY <3>1, <3>3, ChainStays
  <2>7. LargeInv(WaitingChunks, next', zombieLargeChunks)
    <3>1. \A a \in WaitingChunks : a # last[idx]
      BY <1>1, <1>4, <2>4
    <3>2. \A a \in WaitingChunks : a \in DOMAIN next' /\ next'[a] = next[a]
      BY <1>3, <1>4, <2>5, <3>1 DEF LargeInv
    <3> QED
      BY <1>3, <3>2, LargeStays
  <2>8. ChainInv(WaitingOf(idx) \union {ptr}, next',
                 IF first[idx] = null THEN ptr ELSE first[idx], ptr)
    <3>1. ChainInv(WaitingOf(idx), next, first[idx], last[idx])
      BY <1>1, <1>3
    <3>2. \A a \in WaitingOf(idx) : a # last[idx] /\ a \in DOMAIN next => a \in DOMAIN next' /\ next'[a] = next[a]
      BY <1>1, <1>4, <2>5
    <3>3. last[idx] # null => last[idx] \in DOMAIN next' /\ next'[last[idx]] = ptr
      BY <2>1 DEF With
    <3>4. ptr \notin WaitingOf(idx) /\ null \notin WaitingOf(idx)
      BY <1>1, <1>2, <1>4
    <3> HIDE DEF idx, first, last
    <3> QED
      BY <1>1, <3>1, <3>2, <3>3, <3>4, ChainExtends
  <2>9. /\ zombieBucketsFirst' \in [Idx -> Nat \union {null}]
        /\ zombieBucketsLast' \in [Idx -> Nat \union {null}]
        /\ zombieBucketsFirst'[idx] = (IF first[idx] = null THEN ptr ELSE first[idx])
        /\ zombieBucketsLast'[idx] = ptr
        /\ \A i \in Idx : i # idx => /\ zombieBucketsFirst'[i] = first[i]
                                     /\ zombieBucketsLast'[i] = last[i]
    BY <1>1, <1>3, <2>1
  <2>10. ASSUME NEW i \in Idx
         PROVE  ChainInv(WaitingOf(i)', next', zombieBucketsFirst'[i], zombieBucketsLast'[i])
    BY <2>2, <2>3, <2>6, <2>8, <2>9
  <2> QED
    BY <2>1, <2>3, <2>7, <2>9, <2>10 DEF ChainsInv
<1> QED
  BY <1>5, <1>6

(* The map counts the memForbidden bytes before the object of a chunk,     *)
(* too.                                                                    *)
LEMMA ZombieMapped ==
  ASSUME HeldInv(FreeLinks, Held), ApartInv, MapInv,
         NEW ptr \in DOMAIN live, zombieableDeallocate(ptr)
  PROVE  MapInv'
<1>1. /\ zombies' = With(zombies, ptr, [size |-> live[ptr],
                                        watched |-> doZombieEarlyDetection,
                                        at |-> restarts])
      /\ zombieMap' = IF doZombieEarlyDetection THEN Inserted(ptr) ELSE zombieMap
      /\ doZombieEarlyDetection' = doZombieEarlyDetection
  BY DEF zombieableDeallocate, Recorded
<1>2. ptr \in DOMAIN Held /\ ptr \notin DOMAIN zombies /\ ptr \notin DOMAIN zombieMap
      /\ Held[ptr] = live[ptr]
  BY HeldFacts DEF MapInv
<1>3. getAllocatedSize(ptr) = live[ptr] + (IF IsChunk(ptr) THEN memForbidden ELSE 0)
  <2>1. CASE IsChunk(ptr)
    <3>1. /\ getAllocatedSize(ptr) = chunks[ptrToPageStart(ptr)] * PageSize
          /\ live[ptr] = chunks[ptrToPageStart(ptr)] * PageSize - memForbidden
          /\ chunks[ptrToPageStart(ptr)] \in 1 .. MaxLargePages
      BY <1>2, <2>1, ChunkOfObject DEF getAllocatedSize, IsChunk, HeldInv, ChunksInv
    <3>2. chunks[ptrToPageStart(ptr)] * PageSize \in Nat
      BY <3>1, PageSizeFacts, PageSizeAssumption
    <3> QED
      BY <2>1, <3>1, <3>2, PageSizeFacts
  <2>2. CASE ~IsChunk(ptr)
    <3>1. getAllocatedSize(ptr) = BucketSize[Home(ptr)] /\ live[ptr] = BucketSize[Home(ptr)]
      BY <1>2, <2>2, ChunkOfObject DEF getAllocatedSize, IsChunk
    <3>2. BucketSize[Home(ptr)] \in Nat
      BY <1>2, HeldFacts, HomeIsIdx, BucketSizeAssumption
    <3> QED
      BY <2>2, <3>1, <3>2
  <2> QED
    BY <2>1, <2>2
<1>4. /\ DOMAIN zombies' = DOMAIN zombies \union {ptr}
      /\ zombies'[ptr].size = live[ptr] /\ zombies'[ptr].watched = doZombieEarlyDetection
      /\ \A z \in DOMAIN zombies : zombies'[z] = zombies[z]
  BY <1>1, <1>2 DEF With
<1>5. CASE doZombieEarlyDetection
  <2>1. /\ DOMAIN zombieMap' = DOMAIN zombieMap \union {ptr}
        /\ zombieMap'[ptr] = getAllocatedSize(ptr)
        /\ \A z \in DOMAIN zombieMap : zombieMap'[z] = zombieMap[z]
    BY <1>1, <1>2, <1>5 DEF Inserted, Over
  <2> QED
    BY <1>1, <1>3, <1>4, <1>5, <2>1 DEF MapInv, IsChunk
<1>6. CASE ~doZombieEarlyDetection
  BY <1>1, <1>4, <1>6 DEF MapInv, IsChunk
<1> QED
  BY <1>5, <1>6

LEMMA ZombieKeeps ==
  ASSUME SafeIInv, NEW ptr \in DOMAIN live, zombieableDeallocate(ptr)
  PROVE  SafeIInv'
  BY ZombieHeld, ZombieWaits, ZombieChains, ZombieMapped DEF SafeIInv, ZombiesInv

(* The test is turned on or off. *)
LEMMA SwitchKeeps ==
  ASSUME SafeIInv, NEW doIt \in BOOLEAN, setDoZombieEarlyDetection(doIt)
  PROVE  SafeIInv'
<1>1. /\ UNCHANGED <<vars, zombieBucketsFirst, zombieBucketsLast, zombieLargeChunks,
                     zombieMap, restarts, zombies, gone>>
      /\ zombieMap = Empty /\ doZombieEarlyDetection' \in BOOLEAN
  BY DEF setDoZombieEarlyDetection
<1>2. HeldInv(FreeLinks, Held)' /\ ApartInv' /\ RestartsInv'
  BY <1>1 DEF SafeIInv, ZombiesInv, HeldInv, FreeLinks, Held, Kept, Unkept, vars, ApartInv,
     RestartsInv
<1>3. ChainsInv'
  <2>1. /\ \A i : WaitingOf(i)' = WaitingOf(i)
        /\ WaitingChunks' = WaitingChunks
    BY <1>1 DEF WaitingOf, WaitingChunks, Waiting, IsChunk, Home
  <2> QED
    BY <1>1, <2>1 DEF SafeIInv, ZombiesInv, ChainsInv, vars
<1>4. MapInv'
  BY <1>1 DEF SafeIInv, ZombiesInv, MapInv, IsChunk
<1> QED
  BY <1>2, <1>3, <1>4 DEF SafeIInv, ZombiesInv

(* No chain is left, and nothing to be in one. *)
LEMMA NothingWaits ==
  ASSUME EmptyLists, Waiting' = {}
  PROVE  ChainsInv'
<1>1. /\ \A i : WaitingOf(i)' = {}
      /\ WaitingChunks' = {}
  BY DEF WaitingOf, WaitingChunks
<1>2. \A i \in Idx : ChainInv({}, next', null, null)
  BY DEF ChainInv
<1>3. LargeInv({}, next', null)
  BY DEF LargeInv, NoCircle
<1> QED
  BY <1>1, <1>2, <1>3 DEF ChainsInv, EmptyLists, NoZombies

(* initialize leaves the lists without the zombies there are. *)
LEMMA InitializeKeeps ==
  ASSUME SafeIInv, initialize
  PROVE  SafeIInv'
<1>1. /\ UNCHANGED <<vars, zombieMap, zombies, gone>> /\ EmptyLists
      /\ doZombieEarlyDetection' = TRUE /\ restarts' = restarts + 1
  BY DEF initialize
<1>2. HeldInv(FreeLinks, Held)' /\ ApartInv'
  BY <1>1 DEF SafeIInv, ZombiesInv, HeldInv, FreeLinks, Held, Kept, Unkept, vars, ApartInv
<1>3. RestartsInv' /\ Waiting' = {}
  <2>1. RestartsInv
    BY DEF SafeIInv, ZombiesInv
  <2>2. /\ restarts' \in Nat
        /\ \A z \in DOMAIN zombies' : /\ zombies'[z].at \in Nat /\ zombies'[z].at <= restarts'
                                      /\ zombies'[z].at # restarts'
    BY <1>1, <2>1 DEF RestartsInv
  <2> QED
    BY <2>2 DEF RestartsInv, Waiting
<1>4. ChainsInv'
  BY <1>1, <1>3, NothingWaits
<1>5. MapInv'
  BY <1>1 DEF SafeIInv, ZombiesInv, MapInv, IsChunk
<1> QED
  BY <1>2, <1>3, <1>4, <1>5 DEF SafeIInv, ZombiesInv

-----------------------------------------------------------------------------
(***************************************************************************)
(* A kill gives back what the chains lead to.                              *)
(***************************************************************************)
(* The zombies the buckets get. *)
Returned == UNION {WaitingOf(i) \ {zombieBucketsFirst[i]} : i \in Idx}

(* What FreeInv says is said of links of free objects alone. *)
LEMMA FreeStays ==
  ASSUME NEW bk, NEW nx, NEW F, NEW D, FreeInv(bk, nx, F, D),
         NEW nx2, \A a \in F : nx2[a] = nx[a]
  PROVE  FreeInv(bk, nx2, F, D)
<1>1. NoCircle(nx2, F)
  <2> SUFFICES ASSUME NEW S \in SUBSET F, S # {}
               PROVE  \E a \in S : \A b \in S : nx2[b] # a
    BY DEF NoCircle
  <2>1. PICK a \in S : \A b \in S : nx[b] # a
    BY DEF FreeInv, LinksInv, NoCircle
  <2>2. \A b \in S : nx2[b] = nx[b]
    OBVIOUS
  <2> QED
    BY <2>1, <2>2
<1>2. LinksInv(nx2, F, D)
  BY <1>1 DEF FreeInv, LinksInv
<1>3. HeadsInv(bk, nx2, F, D)
  <2>1. HeadsInv(bk, nx, F, D)
    BY DEF FreeInv
  <2> QED
    BY <2>1 DEF HeadsInv
<1> QED
  BY <1>2, <1>3 DEF FreeInv

(* The list of chunks is followed to its end. *)
LEMMA ChunksFound ==
  ASSUME HeldInv(FreeLinks, Held), ApartInv, ChainsInv
  PROVE  ZombieChunks = WaitingChunks
<1> DEFINE n == Cardinality(DOMAIN next)
           from == CHOOSE f : Reaches(f, next, zombieLargeChunks, n)
<1>1. IsFiniteSet(DOMAIN next) /\ n \in Nat
  <2>1. /\ IsFiniteSet(DOMAIN FreeLinks \union DOMAIN Held)
        /\ DOMAIN next \subseteq DOMAIN FreeLinks \union DOMAIN Held
    BY HeldFacts, FS_Union
  <2> QED
    BY <2>1, FS_Subset, FS_CardinalityType
<1>2. LargeInv(WaitingChunks, next, zombieLargeChunks) /\ null \notin WaitingChunks
  BY WaitingFacts DEF ChainsInv
<1>3. IsFiniteSet(WaitingChunks) /\ Cardinality(WaitingChunks) <= n
  <2>1. WaitingChunks \subseteq DOMAIN next
    BY <1>2 DEF LargeInv
  <2> QED
    BY <1>1, <2>1, FS_Subset
<1>4. ZombieChunks = from[n]
  BY DEF ZombieChunks, Reaches
<1>5. Reaches(from, next, zombieLargeChunks, n)
  BY <1>1, ReachExists
<1> HIDE DEF from, n
<1> QED
  BY <1>1, <1>2, <1>3, <1>4, <1>5, AllReached

(* The last zombie of a bucket is linked to the bucket's first free object *)
(* and nothing else changes.                                               *)
LEMMA SplicedFacts ==
  ASSUME HeldInv(FreeLinks, Held), ApartInv, ChainsInv
  PROVE  /\ DOMAIN Spliced.next =
              DOMAIN next \union {zombieBucketsLast[i] : i \in {i \in Idx : WaitingOf(i) # {}}}
         /\ \A i \in Idx : \A a \in WaitingOf(i) :
              /\ a \in DOMAIN Spliced.next
              /\ Spliced.next[a] = IF a = zombieBucketsLast[i] THEN buckets[i] ELSE next[a]
         /\ \A a \in DOMAIN FreeLinks : a \in DOMAIN Spliced.next /\ Spliced.next[a] = FreeLinks[a]
         /\ Spliced.buckets = [i \in Idx |-> IF WaitingOf(i) = {} THEN buckets[i]
                                             ELSE Spliced.next[zombieBucketsFirst[i]]]
<1> DEFINE last == zombieBucketsLast
           zombieIdx == {i \in Idx : last[i] # null}
           lastOf(ptr) == {i \in zombieIdx : last[i] = ptr}
           linked == [ptr \in DOMAIN next \union {last[i] : i \in zombieIdx} |->
                        IF lastOf(ptr) # {} THEN buckets[CHOOSE i \in lastOf(ptr) : TRUE]
                                            ELSE next[ptr]]
<1>1. /\ Spliced.next = linked
      /\ Spliced.buckets = [i \in Idx |-> IF i \in zombieIdx
                                            THEN linked[zombieBucketsFirst[i]]
                                            ELSE buckets[i]]
  BY DEF Spliced
<1>2. ASSUME NEW i \in Idx
      PROVE  /\ ChainInv(WaitingOf(i), next, zombieBucketsFirst[i], last[i])
             /\ null \notin WaitingOf(i) /\ WaitingOf(i) \subseteq Kept
             /\ \A a \in WaitingOf(i) : Home(a) = i
  BY WaitingFacts DEF ChainsInv, WaitingOf
<1>3. ASSUME NEW i \in Idx
      PROVE  /\ i \in zombieIdx <=> WaitingOf(i) # {}
             /\ WaitingOf(i) # {} => last[i] \in WaitingOf(i)
  BY <1>2 DEF ChainInv
<1>4. zombieIdx = {i \in Idx : WaitingOf(i) # {}}
  BY <1>3
<1>5. ASSUME NEW i \in Idx, NEW a \in WaitingOf(i)
      PROVE  a \in DOMAIN linked /\ linked[a] = IF a = last[i] THEN buckets[i] ELSE next[a]
  <2>1. CASE a = last[i]
    <3>1. lastOf(a) = {i}
      BY <1>2, <1>3, <1>5, <2>1
    <3>2. a \in {last[j] : j \in zombieIdx}
      BY <1>3, <2>1
    <3> HIDE DEF lastOf, zombieIdx
    <3>3. (CHOOSE j \in lastOf(a) : TRUE) = i
      BY <3>1
    <3> QED
      BY <2>1, <3>1, <3>2, <3>3
  <2>2. CASE a # last[i]
    <3>1. a \in DOMAIN next
      BY <1>2, <2>2 DEF ChainInv
    <3>2. lastOf(a) = {}
      BY <1>2, <1>3, <2>2
    <3> QED
      BY <2>2, <3>1, <3>2
  <2> QED
    BY <2>1, <2>2
<1>6. ASSUME NEW a \in DOMAIN FreeLinks
      PROVE  a \in DOMAIN linked /\ linked[a] = FreeLinks[a]
  <2>1. a \in DOMAIN next /\ FreeLinks[a] = next[a] /\ a \notin Kept
    BY HeldFacts
  <2>2. lastOf(a) = {}
    BY <1>2, <1>3, <2>1
  <2> QED
    BY <2>1, <2>2
<1>7. DOMAIN linked = DOMAIN next \union {last[i] : i \in zombieIdx}
  OBVIOUS
<1>8. Spliced.buckets = [i \in Idx |-> IF WaitingOf(i) = {} THEN buckets[i]
                                       ELSE Spliced.next[zombieBucketsFirst[i]]]
  <2> HIDE DEF linked, zombieIdx
  <2> QED
    BY <1>1, <1>3
<1> HIDE DEF linked, zombieIdx
<1> QED
  BY <1>1, <1>4, <1>5, <1>6, <1>7, <1>8

(* Who has what after a kill. *)
LEMMA KillFacts ==
  ASSUME HeldInv(FreeLinks, Held), ApartInv, ChainsInv, killAllZombies
  PROVE  /\ DOMAIN FreeLinks' = DOMAIN FreeLinks \union Returned
         /\ \A a \in DOMAIN FreeLinks' : FreeLinks'[a] = Spliced.next[a]
         /\ DOMAIN Held' = DOMAIN Held \ (Returned \union WaitingChunks)
         /\ \A p \in DOMAIN Held' : Held'[p] = Held[p]
         /\ chunks' = [p \in DOMAIN chunks \ {ptrToPageStart(ptr) : ptr \in WaitingChunks}
                         |-> chunks[p]]
         /\ ApartInv'
<1> DEFINE first == zombieBucketsFirst
           last == zombieBucketsLast
<1>1. /\ ZombieChunks = WaitingChunks
      /\ zombies' = Empty /\ live' = live
      /\ gone' = Over(gone, [z \in Forgotten |-> zombies[z].size])
      /\ next' = [ptr \in DOMAIN Spliced.next \ WaitingChunks |-> Spliced.next[ptr]]
      /\ chunks' = [p \in DOMAIN chunks \ {ptrToPageStart(ptr) : ptr \in WaitingChunks}
                      |-> chunks[p]]
  BY ChunksFound DEF killAllZombies
<1>2. /\ Forgotten \subseteq DOMAIN zombies
      /\ Kept' = DOMAIN gone \union Forgotten
      /\ \A z \in DOMAIN gone : gone'[z] = gone[z]
      /\ \A z \in Forgotten : gone'[z] = zombies[z].size
  BY <1>1 DEF Forgotten, Kept, Over, Empty, ApartInv
<1>3. ASSUME NEW i \in Idx
      PROVE  /\ WaitingOf(i) \subseteq Waiting /\ WaitingOf(i) \intersect WaitingChunks = {}
             /\ \A a \in WaitingOf(i) : Home(a) = i
             /\ first[i] = null \/ first[i] \in WaitingOf(i)
             /\ null \notin Waiting
  BY WaitingFacts DEF ChainsInv, ChainInv, WaitingOf, WaitingChunks
<1>4. \A a : a \in Returned <=> \E i \in Idx : a \in WaitingOf(i) /\ a # first[i]
  BY DEF Returned
<1>5. ASSUME NEW a \in DOMAIN zombies
      PROVE  a \notin Forgotten <=> a \in Returned \/ a \in WaitingChunks
  <2>1. a \in Waiting <=> zombies[a].at = restarts
    BY DEF Waiting
  <2>2. a \in Forgotten <=> a \notin Waiting \/ \E i \in Idx : a = first[i]
    BY <2>1 DEF Forgotten
  <2>3. CASE a \notin Waiting
    BY <1>3, <1>4, <2>2, <2>3, WaitingFacts
  <2>4. CASE a \in WaitingChunks
    <3>1. \A i \in Idx : a # first[i]
      BY <1>3, <2>4, WaitingFacts
    <3> QED
      BY <2>2, <2>4, <3>1, WaitingFacts
  <2>5. CASE a \in Waiting /\ a \notin WaitingChunks
    <3>1. a \in WaitingOf(Home(a)) /\ Home(a) \in Idx
      BY <2>5, WaitingFacts
    <3>2. \A i \in Idx : a = first[i] \/ a \in WaitingOf(i) => i = Home(a)
      BY <1>3, <2>5
    <3> QED
      BY <1>4, <2>2, <2>5, <3>1, <3>2
  <2> QED
    BY <2>3, <2>4, <2>5
<1>6. Returned \subseteq Waiting /\ Waiting \subseteq DOMAIN zombies /\ Returned \intersect WaitingChunks = {}
  BY <1>3, <1>4, WaitingFacts
<1>7. DOMAIN zombies \subseteq Kept /\ DOMAIN zombies \intersect DOMAIN gone = {}
      /\ Kept = DOMAIN zombies \union DOMAIN gone /\ DOMAIN live \intersect Kept = {}
  BY DEF Kept, ApartInv
<1>8. Kept' = Kept \ (Returned \union WaitingChunks)
  BY <1>2, <1>5, <1>6, <1>7, WaitingFacts
<1>9. /\ DOMAIN next \subseteq DOMAIN Spliced.next
      /\ DOMAIN Spliced.next \subseteq DOMAIN next \union Waiting
      /\ Returned \subseteq DOMAIN Spliced.next
  <2>1. ASSUME NEW i \in Idx, WaitingOf(i) # {} PROVE last[i] \in Waiting
    BY <1>3, <2>1 DEF ChainsInv, ChainInv
  <2> QED
    BY <1>4, <2>1, SplicedFacts
<1>10. /\ DOMAIN FreeLinks' = (DOMAIN Spliced.next \ WaitingChunks) \ Kept'
       /\ \A a \in DOMAIN FreeLinks' : FreeLinks'[a] = Spliced.next[a]
  BY <1>1 DEF FreeLinks, Unkept
<1>11. DOMAIN FreeLinks' = DOMAIN FreeLinks \union Returned
  <2>1. DOMAIN FreeLinks = DOMAIN next \ Kept
    BY HeldFacts
  <2>2. WaitingChunks \subseteq Waiting
    BY WaitingFacts
  <2> QED
    BY <1>6, <1>7, <1>8, <1>9, <1>10, <2>1, <2>2
<1>12. DOMAIN Held' = DOMAIN Held \ (Returned \union WaitingChunks)
  <2>1. DOMAIN Held' = DOMAIN live \union Kept' /\ DOMAIN Held = DOMAIN live \union Kept
    BY <1>1 DEF Held
  <2>2. WaitingChunks \subseteq Waiting
    BY WaitingFacts
  <2> QED
    BY <1>6, <1>7, <1>8, <2>1, <2>2
<1>13. ASSUME NEW p \in DOMAIN Held'
       PROVE  Held'[p] = Held[p]
  <2>1. p \in DOMAIN live \union Kept'
    BY <1>1, <1>13 DEF Held
  <2>2. Held'[p] = IF p \in DOMAIN live THEN live[p] ELSE gone'[p]
    BY <1>1, <2>1 DEF Held, Empty
  <2>3. p \in DOMAIN Held
    BY <1>12
  <2>4. Held[p] = IF p \in DOMAIN live THEN live[p]
                  ELSE IF p \in DOMAIN zombies THEN zombies[p].size ELSE gone[p]
    BY <2>3 DEF Held
  <2> QED
    BY <1>2, <1>7, <2>1, <2>2, <2>4
<1>14. ApartInv'
  BY <1>1, <1>7, <1>8 DEF ApartInv, Empty
<1> QED
  BY <1>1, <1>10, <1>11, <1>12, <1>13, <1>14

(* The free lists after a kill, with nothing more lost. *)
LEMMA KillLists ==
  ASSUME HeldInv(FreeLinks, Held), ApartInv, ChainsInv, killAllZombies,
         NEW D, FreeInv(buckets, FreeLinks, DOMAIN FreeLinks, D)
  PROVE  FreeInv(buckets', FreeLinks', DOMAIN FreeLinks', D)
<1> DEFINE W == [i \in Idx |-> WaitingOf(i)]
           F == DOMAIN FreeLinks
           nx2 == Spliced.next
<1>1. FreeInv(buckets, next, F, D)
  BY HeldFacts, FreeStays
<1>2. ASSUME NEW i \in Idx
      PROVE  /\ ChainInv(W[i], next, zombieBucketsFirst[i], zombieBucketsLast[i])
             /\ W[i] \subseteq Nat \ F
             /\ \A a \in W[i] : Home(a) = i
             /\ W[i] = WaitingOf(i)
  <2>1. W[i] = WaitingOf(i)
    OBVIOUS
  <2>2. WaitingOf(i) \subseteq Nat \ F
    BY WaitingFacts
  <2> QED
    BY <2>1, <2>2 DEF ChainsInv, WaitingOf
<1>3. \A a \in F : nx2[a] = next[a]
  BY SplicedFacts, HeldFacts
<1>4. \A i \in Idx : \A a \in W[i] : nx2[a] = IF a = zombieBucketsLast[i] THEN buckets[i] ELSE next[a]
  BY SplicedFacts
<1>5. Spliced.buckets = HeadsOf(W, buckets, nx2, zombieBucketsFirst)
  BY <1>2, SplicedFacts DEF HeadsOf
<1>6. FrontsOf(W, zombieBucketsFirst) = Returned
  BY <1>2 DEF Returned, FrontsOf
<1>7. buckets' = Spliced.buckets
  BY DEF killAllZombies
<1> HIDE DEF W, nx2
<1>8. FreeInv(Spliced.buckets, nx2, F \union Returned, D)
  <2>1. FreeInv(Spliced.buckets, nx2, F \union FrontsOf(W, zombieBucketsFirst), D)
    BY <1>1, <1>2, <1>3, <1>4, <1>5, Splice
  <2> QED
    BY <1>6, <2>1
<1> HIDE DEF F
<1>9. DOMAIN FreeLinks' = F \union Returned /\ \A a \in F \union Returned : FreeLinks'[a] = nx2[a]
  BY KillFacts DEF nx2, F
<1>10. FreeInv(Spliced.buckets, FreeLinks', F \union Returned, D)
  BY <1>8, <1>9, FreeStays
<1> QED
  BY <1>7, <1>9, <1>10

(* What a kill makes of the parts of the invariant. *)
LEMMA KillHeld ==
  ASSUME HeldInv(FreeLinks, Held), ApartInv, ChainsInv, killAllZombies
  PROVE  HeldInv(FreeLinks, Held)'
<1>1. /\ DOMAIN FreeLinks' = DOMAIN FreeLinks \union Returned
      /\ DOMAIN Held' = DOMAIN Held \ (Returned \union WaitingChunks)
      /\ \A p \in DOMAIN Held' : Held'[p] = Held[p]
      /\ chunks' = [p \in DOMAIN chunks \ {ptrToPageStart(ptr) : ptr \in WaitingChunks}
                      |-> chunks[p]]
  BY KillFacts
<1>2. UNCHANGED <<taken, made, status>>
  BY DEF killAllZombies
<1>3. /\ Returned \subseteq DOMAIN Held /\ WaitingChunks \subseteq DOMAIN Held
      /\ \A a \in Returned : a % PageSize # memForbidden
      /\ \A a \in WaitingChunks : a % PageSize = memForbidden
  <2>1. Waiting \subseteq DOMAIN Held
    BY WaitingFacts, HeldFacts
  <2>2. \A a \in Returned : a \in Waiting /\ ~IsChunk(a)
    BY DEF Returned, WaitingOf
  <2>3. \A a \in WaitingChunks : a \in Waiting /\ IsChunk(a)
    BY DEF WaitingChunks
  <2> QED
    BY <2>1, <2>2, <2>3, ChunkOfObject
<1>4. FreeListsInv(buckets', FreeLinks', taken')
  <2>1. PICK D : FreeInv(buckets, FreeLinks, DOMAIN FreeLinks, D) /\ \A a \in D : LostIn(taken, a)
    BY DEF HeldInv, FreeListsInv
  <2>2. FreeInv(buckets', FreeLinks', DOMAIN FreeLinks', D)
    BY <2>1, KillLists
  <2> QED
    BY <1>2, <2>1, <2>2 DEF FreeListsInv
<1>5. PartedInv(FreeLinks', Held', taken')
  <2>1. /\ taken \subseteq AllMultipages
        /\ DOMAIN FreeLinks \intersect DOMAIN Held = {}
        /\ ObjectsIn(taken) = DOMAIN FreeLinks \union OfBucket(Held)
        /\ IsFiniteSet(DOMAIN FreeLinks) /\ IsFiniteSet(DOMAIN Held)
    BY DEF HeldInv, PartedInv
  <2>2. OfBucket(Held) = OfBucket(Held') \union Returned
    BY <1>1, <1>3 DEF OfBucket
  <2>3. IsFiniteSet(DOMAIN FreeLinks')
    <3>1. IsFiniteSet(Returned)
      BY <1>3, <2>1, FS_Subset
    <3>2. IsFiniteSet(DOMAIN FreeLinks \union Returned)
      BY <2>1, <3>1, FS_Union
    <3> QED
      BY <1>1, <3>2
  <2> QED
    BY <1>1, <1>2, <2>1, <2>2, <2>3 DEF PartedInv
<1>6. SizesInv(Held', chunks')
  <2> SUFFICES ASSUME NEW p \in DOMAIN Held'
               PROVE  /\ p \in Nat
                      /\ p % PageSize # memForbidden => Held'[p] = BucketSize[Home(p)]
                      /\ p % PageSize = memForbidden =>
                           /\ p \div PageSize \in DOMAIN chunks'
                           /\ Held'[p] = chunks'[p \div PageSize] * PageSize - memForbidden
    BY DEF SizesInv
  <2>1. /\ p \in DOMAIN Held /\ p \notin WaitingChunks /\ Held'[p] = Held[p]
    BY <1>1
  <2>2. /\ p \in Nat
        /\ p % PageSize # memForbidden => Held[p] = BucketSize[Home(p)]
        /\ p % PageSize = memForbidden =>
             /\ p \div PageSize \in DOMAIN chunks
             /\ Held[p] = chunks[p \div PageSize] * PageSize - memForbidden
    BY <2>1 DEF HeldInv, SizesInv
  <2>3. ASSUME p % PageSize = memForbidden, NEW z \in WaitingChunks,
               z \div PageSize = p \div PageSize
        PROVE  FALSE
    <3>1. z \in Nat /\ z % PageSize = memForbidden
      BY <1>3, HeldFacts
    <3>2. ASSUME NEW x \in Nat, x % PageSize = memForbidden
          PROVE  x = (x \div PageSize) * PageSize + memForbidden
      BY <3>2, PageSizeFacts, DivisionFacts
    <3>3. z = p
      BY <2>2, <2>3, <3>1, <3>2, Zenon
    <3> QED
      BY <2>1, <3>3
  <2>4. p % PageSize = memForbidden =>
          /\ p \div PageSize \in DOMAIN chunks'
          /\ chunks'[p \div PageSize] = chunks[p \div PageSize]
    BY <1>1, <2>2, <2>3 DEF ptrToPageStart
  <2> QED
    BY <2>1, <2>2, <2>4
<1>7. ChunksInv(chunks')
  <2>1. /\ DOMAIN chunks' \subseteq DOMAIN chunks
        /\ \A p \in DOMAIN chunks' : chunks'[p] = chunks[p]
    BY <1>1
  <2>2. ChunksInv(chunks)
    BY DEF HeldInv
  <2> QED
    BY <2>1, <2>2 DEF ChunksInv
<1>8. IsFiniteSet(DOMAIN Held')
  <2>1. IsFiniteSet(DOMAIN Held)
    BY DEF HeldInv
  <2> QED
    BY <1>1, <2>1, FS_Subset
<1>9. MadeInv(made', taken') /\ status' = "ok"
  BY <1>2 DEF HeldInv
<1> QED
  BY <1>4, <1>5, <1>6, <1>7, <1>8, <1>9 DEF HeldInv

LEMMA KillKeeps ==
  ASSUME SafeIInv, killAllZombies
  PROVE  SafeIInv'
<1>1. HeldInv(FreeLinks, Held) /\ ApartInv /\ RestartsInv /\ ChainsInv /\ MapInv
  BY DEF SafeIInv, ZombiesInv
<1>2. /\ zombieMap' = Empty /\ zombies' = Empty /\ EmptyLists
      /\ restarts' = restarts /\ doZombieEarlyDetection' = doZombieEarlyDetection
  BY DEF killAllZombies
<1>3. DOMAIN zombies' = {} /\ DOMAIN zombieMap' = {}
  BY <1>2 DEF Empty
<1>4. HeldInv(FreeLinks, Held)' /\ ApartInv'
  BY <1>1, KillHeld, KillFacts
<1>5. RestartsInv'
  BY <1>1, <1>2, <1>3 DEF RestartsInv
<1>6. ChainsInv'
  <2>1. Waiting' = {}
    BY <1>3 DEF Waiting
  <2> QED
    BY <1>2, <2>1, NothingWaits
<1>7. MapInv'
  BY <1>1, <1>2, <1>3 DEF MapInv
<1> QED
  BY <1>4, <1>5, <1>6, <1>7 DEF SafeIInv, ZombiesInv

LEMMA SafeInitIInv == SafeInit => SafeIInv
<1> SUFFICES ASSUME SafeInit PROVE SafeIInv
  OBVIOUS
<1>1. /\ Init /\ zombieMap = Empty /\ zombies = Empty /\ gone = Empty
      /\ zombieBucketsFirst = NoZombies /\ zombieBucketsLast = NoZombies
      /\ zombieLargeChunks = null /\ doZombieEarlyDetection = TRUE /\ restarts = 0
  BY DEF SafeInit
<1>2. Kept = {} /\ DOMAIN zombies = {} /\ DOMAIN gone = {} /\ DOMAIN zombieMap = {}
  BY <1>1 DEF Kept, Empty
<1>3. FreeLinks = next /\ Held = live
  BY <1>1, <1>2 DEF FreeLinks, Held, Unkept, Init, Empty
<1>4. HeldInv(FreeLinks, Held)
  BY <1>1, <1>3, InitIInv DEF IInv, HeldInv, CountInv
<1>5. ApartInv /\ RestartsInv /\ MapInv
  BY <1>1, <1>2 DEF ApartInv, RestartsInv, MapInv
<1>6. ChainsInv
  <2>1. /\ \A i : WaitingOf(i) = {}
        /\ WaitingChunks = {}
    BY <1>2 DEF WaitingOf, WaitingChunks, Waiting
  <2>2. \A i \in Idx : ChainInv({}, next, null, null)
    BY DEF ChainInv
  <2>3. LargeInv({}, next, null)
    BY DEF LargeInv, NoCircle
  <2> QED
    BY <1>1, <2>1, <2>2, <2>3 DEF ChainsInv, NoZombies
<1> QED
  BY <1>4, <1>5, <1>6 DEF SafeIInv, ZombiesInv

(* Nothing has changed. *)
LEMMA SafeStutterKeeps ==
  ASSUME SafeIInv, UNCHANGED allvars
  PROVE  SafeIInv'
<1>1. UNCHANGED vars /\ UNCHANGED zvars
  BY DEF allvars
<1>2. HeldInv(FreeLinks, Held)' /\ ApartInv' /\ RestartsInv'
  BY <1>1 DEF SafeIInv, ZombiesInv, HeldInv, FreeLinks, Held, Kept, Unkept, vars, zvars,
     ApartInv, RestartsInv
<1>3. ChainsInv'
  <2>1. /\ \A i : WaitingOf(i)' = WaitingOf(i)
        /\ WaitingChunks' = WaitingChunks
    BY <1>1 DEF WaitingOf, WaitingChunks, Waiting, IsChunk, Home, zvars
  <2> QED
    BY <1>1, <2>1 DEF SafeIInv, ZombiesInv, ChainsInv, vars, zvars
<1>4. MapInv'
  BY <1>1 DEF SafeIInv, ZombiesInv, MapInv, IsChunk, zvars
<1> QED
  BY <1>2, <1>3, <1>4 DEF SafeIInv, ZombiesInv

LEMMA SafeNextKeeps == SafeIInv /\ [SafeNext]_allvars => SafeIInv'
  BY BucketsKeep, ZombieKeeps, KillKeeps, SwitchKeeps, InitializeKeeps, SafeStutterKeeps
     DEF SafeNext

(* The invariant of the chains, of the map and of what Base has.           *)
THEOREM SafeInvariance == SafeSpec => []SafeIInv
  BY SafeInitIInv, SafeNextKeeps, PTL DEF SafeSpec

-----------------------------------------------------------------------------
(***************************************************************************)
(* What the runs check.                                                    *)
(***************************************************************************)
(* What the invariant of Base says of objects. *)
LEMMA HeldMade ==
  ASSUME HeldInv(FreeLinks, Held)
  PROVE  /\ \A i \in Idx : \A a : a \in made[i] <=> a \in ObjectsIn(taken) /\ Home(a) = i
         /\ \A p \in DOMAIN Held : Held[p] \in Nat \ {0}
<1>1. ASSUME NEW i \in Base!Idx, NEW a
      PROVE  Base!IInv => (a \in made[i] <=> a \in Base!ObjectsIn(taken) /\ Base!Home(a) = i)
  BY Base!MadeFacts, SamePlaces, BucketCntAssumption, PagesPerBucketAssumption,
     PageSizeAssumption, MultipageAssumption, BucketSizeAssumption,
     PlacesAssumption, SMT
<1>2. ASSUME NEW p \in DOMAIN Held
      PROVE  Base!IInv => Held[p] \in Nat \ {0}
  BY Base!LiveSizes, SamePlaces, BucketCntAssumption, PagesPerBucketAssumption,
     PageSizeAssumption, MultipageAssumption, BucketSizeAssumption,
     PlacesAssumption, SMT
<1>3. \A a : Base!Home(a) = Home(a)
  BY SameObjects
<1>4. Base!ObjectsIn(taken) = ObjectsIn(taken) /\ Base!Idx = Idx
  BY SameObjects, SamePlaces
<1>5. Base!IInv
  BY BaseInvariant
<1> QED
  BY <1>1, <1>2, <1>3, <1>4, <1>5

(* The zombies of a bucket are objects made for it. *)
LEMMA WaitingMade ==
  ASSUME HeldInv(FreeLinks, Held), ApartInv, NEW i \in Idx
  PROVE  WaitingOf(i) = WaitingIn(i)
<1>1. ASSUME NEW z \in Waiting, ~IsChunk(z)
      PROVE  z \in made[i] <=> Home(z) = i
  <2>1. z \in DOMAIN Held
    BY WaitingFacts, HeldFacts
  <2>2. z \in OfBucket(Held)
    BY <1>1, <2>1, ChunkOfObject DEF OfBucket
  <2>3. z \in ObjectsIn(taken)
    BY <2>2 DEF HeldInv, PartedInv
  <2> QED
    BY <2>3, HeldMade
<1> QED
  BY <1>1 DEF WaitingOf, WaitingIn

(* Every variable has its shape, and the map is empty while the test is    *)
(* off.                                                                    *)
THEOREM SafeTypesHold == SafeSpec => []SafeTypeOK
<1>1. SafeIInv => SafeTypeOK
  <2> SUFFICES ASSUME SafeIInv PROVE SafeTypeOK
    OBVIOUS
  <2>1. HeldInv(FreeLinks, Held) /\ ApartInv /\ ChainsInv /\ MapInv
    BY DEF SafeIInv, ZombiesInv
  <2>2. ASSUME NEW i \in Idx
        PROVE  {zombieBucketsFirst[i], zombieBucketsLast[i]} \subseteq made[i] \union {null}
    <3>1. WaitingOf(i) \subseteq made[i]
      BY <2>1, WaitingMade DEF WaitingIn
    <3> QED
      BY <2>1, <3>1 DEF ChainsInv, ChainInv
  <2>3. zombieLargeChunks \in DOMAIN zombies \union {null}
    BY <2>1, WaitingFacts DEF ChainsInv, LargeInv
  <2> QED
    BY <2>1, <2>2, <2>3 DEF SafeTypeOK, MapInv
<1> QED
  BY SafeInvariance, <1>1, PTL

(* A bucket's list leads to its free objects but those that are lost.      *)
LEMMA FreeListed ==
  ASSUME HeldInv(FreeLinks, Held), ApartInv, NEW i \in Idx,
         NEW D, FreeInv(buckets, FreeLinks, DOMAIN FreeLinks, D)
  PROVE  Listed(i) = {a \in DOMAIN FreeLinks \ D : Home(a) = i}
<1> DEFINE n == Cardinality(DOMAIN next)
           at == InOrder(i)
           F == DOMAIN FreeLinks
<1>1. IsFiniteSet(DOMAIN next) /\ n \in Nat
  <2>1. /\ IsFiniteSet(F \union DOMAIN Held)
        /\ DOMAIN next \subseteq F \union DOMAIN Held
    BY HeldFacts, FS_Union
  <2> QED
    BY <2>1, FS_Subset, FS_CardinalityType
<1>2. F \subseteq DOMAIN next /\ IsFiniteSet(F) /\ null \notin DOMAIN next
  BY HeldFacts, NullFacts
<1>3. Cardinality(F) <= n
  BY <1>1, <1>2, FS_Subset
<1>4. Follows(at, next, buckets[i], n)
  BY <1>1, InOrderFollows
<1>5. FreeInv(buckets, next, F, D)
  BY HeldFacts, FreeStays
<1> HIDE DEF n, at, F
<1>6. {at[k] : k \in DOMAIN at} \ {null} = {a \in F \ D : Home(a) = i}
  BY <1>1, <1>2, <1>3, <1>4, <1>5, ListEnds
<1> QED
  BY <1>6 DEF Listed, at, F

(* Freed memory is not used again before a kill: no bucket lists a zombie, *)
(* none overlaps a live object, and the pages of a chunk stay allocated.   *)
THEOREM ZombiesStayApart == SafeSpec => []ZombiesApart
<1>1. SafeIInv => ZombiesApart
  <2> SUFFICES ASSUME SafeIInv PROVE ZombiesApart
    OBVIOUS
  <2>1. HeldInv(FreeLinks, Held) /\ ApartInv
    BY DEF SafeIInv, ZombiesInv
  <2>2. ASSUME NEW i \in Idx
        PROVE  Listed(i) \intersect DOMAIN zombies = {}
    <3>1. PICK D : FreeInv(buckets, FreeLinks, DOMAIN FreeLinks, D)
      BY <2>1 DEF HeldInv, FreeListsInv
    <3>2. Listed(i) \subseteq DOMAIN FreeLinks
      BY <2>1, <3>1, FreeListed
    <3> QED
      BY <2>1, <3>2, HeldFacts
  <2>3. ASSUME NEW z \in DOMAIN zombies
        PROVE  /\ \A ptr \in DOMAIN live : Extent(z) \intersect Bytes(ptr, live[ptr]) = {}
               /\ IsChunk(z) => ptrToPageStart(z) \in DOMAIN chunks
    <3>1. z \in DOMAIN Held /\ Held[z] = zombies[z].size /\ z \notin DOMAIN live
      BY <2>1, HeldFacts
    <3>2. ASSUME NEW ptr \in DOMAIN live
          PROVE  Extent(z) \intersect Bytes(ptr, live[ptr]) = {}
      <4>1. ptr \in DOMAIN Held /\ Held[ptr] = live[ptr] /\ ptr # z
        BY <2>1, <3>1, HeldFacts
      <4>2. Bytes(z, Held[z]) \intersect Bytes(ptr, Held[ptr]) = {}
        BY <2>1, <3>1, <4>1, HeldSound
      <4> QED
        BY <3>1, <4>1, <4>2 DEF Extent
    <3> QED
      BY <2>1, <3>1, <3>2, ChunkOfObject
  <2> QED
    BY <2>2, <2>3 DEF ZombiesApart
<1> QED
  BY SafeInvariance, <1>1, PTL

(* The greatest zombie not after an address. *)
LEMMA GreatestBefore ==
  ASSUME NEW addr \in Nat, NEW S \in SUBSET Nat, S # {}, \A z \in S : z <= addr
  PROVE  Max(S) \in S /\ \A z \in S : z <= Max(S)
<1> DEFINE T == {addr - z : z \in S}
<1>1. T \in SUBSET Nat /\ T # {}
  OBVIOUS
<1>2. PICK m \in T : \A k \in T : m <= k
  BY <1>1, LeastNat
<1>3. PICK w \in S : m = addr - w
  BY <1>2
<1>4. \A z \in S : w >= z
  BY <1>2, <1>3
<1>5. \E x \in S : \A y \in S : x >= y
  BY <1>4
<1>6. Max(S) = CHOOSE x \in S : \A y \in S : x >= y
  BY DEF Max
<1> QED
  BY <1>5, <1>6

(* A pointer is taken for a zombie just if the greatest zombie before it   *)
(* reaches as far.                                                         *)
LEMMA TakenForZombie ==
  ASSUME SafeIInv, NEW addr \in Nat
  PROVE  /\ \A z \in DOMAIN zombieMap : z <= addr =>
              \E w \in DOMAIN zombieMap :
                /\ z <= w /\ w <= addr
                /\ isPointerNotZombie(addr) => addr >= w + zombieMap[w]
         /\ ~isPointerNotZombie(addr) =>
              \E w \in DOMAIN zombieMap :
                w <= addr /\ ~(addr >= w + zombieMap[w])
<1> DEFINE before == {z \in DOMAIN zombieMap : z <= addr}
           zombie == Max(before)
<1>1. isPointerNotZombie(addr)
        <=> (doZombieEarlyDetection /\ before # {} => addr >= zombie + zombieMap[zombie])
  BY DEF isPointerNotZombie
<1>2. before # {} => doZombieEarlyDetection
  BY DEF SafeIInv, ZombiesInv, MapInv, Empty
<1>3. before # {} => zombie \in before /\ \A z \in before : z <= zombie
  <2>1. before \in SUBSET Nat /\ \A z \in before : z <= addr
    BY HeldFacts DEF SafeIInv, ZombiesInv, MapInv
  <2> HIDE DEF before
  <2> QED
    BY <2>1, GreatestBefore
<1>4. ASSUME NEW z \in DOMAIN zombieMap, z <= addr
      PROVE  \E w \in DOMAIN zombieMap :
                /\ z <= w /\ w <= addr
                /\ isPointerNotZombie(addr) => addr >= w + zombieMap[w]
  <2>1. z \in before
    BY <1>4
  <2>2. zombie \in DOMAIN zombieMap /\ z <= zombie /\ zombie <= addr
    BY <1>3, <2>1
  <2> HIDE DEF before, zombie
  <2> QED
    BY <1>1, <1>2, <2>1, <2>2
<1>5. ASSUME ~isPointerNotZombie(addr)
      PROVE  \E w \in DOMAIN zombieMap : w <= addr /\ ~(addr >= w + zombieMap[w])
  <2>1. before # {} /\ ~(addr >= zombie + zombieMap[zombie])
    BY <1>1, <1>5
  <2>2. zombie \in DOMAIN zombieMap /\ zombie <= addr
    BY <1>3, <2>1
  <2> HIDE DEF zombie
  <2> QED
    BY <2>1, <2>2
<1> QED
  BY <1>4, <1>5

(* What the invariant says of an entry of the map. *)
LEMMA MapFacts ==
  ASSUME SafeIInv, NEW w \in DOMAIN zombieMap
  PROVE  /\ w \in DOMAIN zombies /\ w \in DOMAIN Held /\ w \in Nat
         /\ w \notin DOMAIN live /\ Held[w] = zombies[w].size
         /\ Held[w] \in Nat /\ Held[w] > 0
         /\ zombieMap[w] = Held[w] + (IF IsChunk(w) THEN memForbidden ELSE 0)
         /\ memForbidden \in Nat /\ memForbidden > 0
<1>1. HeldInv(FreeLinks, Held) /\ ApartInv /\ MapInv
  BY DEF SafeIInv, ZombiesInv
<1>2. /\ w \in DOMAIN zombies
      /\ zombieMap[w] = zombies[w].size + (IF IsChunk(w) THEN memForbidden ELSE 0)
  BY <1>1 DEF MapInv
<1>3. /\ w \in DOMAIN Held /\ w \in Nat /\ w \notin DOMAIN live
      /\ Held[w] = zombies[w].size
  BY <1>1, <1>2, HeldFacts
<1>4. Held[w] \in Nat /\ Held[w] > 0
  BY <1>1, <1>3, HeldMade
<1> QED
  BY <1>2, <1>3, <1>4, PageSizeFacts

(* A pointer to any byte of a zombie is recognised, if the test was on     *)
(* when the object was freed.                                              *)
THEOREM NoZombieIsMissed == SafeSpec => []NoZombieMissed
<1>1. SafeIInv => NoZombieMissed
  <2> SUFFICES ASSUME SafeIInv, NEW z \in DOMAIN zombies, zombies[z].watched,
                      NEW addr \in Extent(z), isPointerNotZombie(addr)
               PROVE  FALSE
    BY DEF NoZombieMissed
  <2>1. z \in DOMAIN zombieMap
    BY DEF SafeIInv, ZombiesInv, MapInv
  <2>2. /\ z \in Nat /\ z \in DOMAIN Held /\ Held[z] \in Nat
        /\ addr \in Bytes(z, Held[z])
    BY <2>1, MapFacts DEF Extent
  <2>3. addr \in Nat /\ z <= addr /\ addr < z + Held[z]
    BY <2>2 DEF Bytes
  <2>4. PICK w \in DOMAIN zombieMap :
          z <= w /\ w <= addr /\ addr >= w + zombieMap[w]
    BY <2>1, <2>3, TakenForZombie
  <2>5. /\ w \in Nat /\ w \in DOMAIN Held /\ Held[w] \in Nat /\ Held[w] > 0
        /\ zombieMap[w] \in Nat /\ zombieMap[w] >= Held[w]
    BY <2>4, MapFacts
  <2>6. w # z
    BY <2>2, <2>3, <2>4, <2>5
  <2>7. w \in Bytes(z, Held[z]) /\ w \in Bytes(w, Held[w])
    BY <2>2, <2>3, <2>4, <2>5 DEF Bytes
  <2> QED
    BY <2>2, <2>5, <2>6, <2>7, HeldSound DEF SafeIInv
<1> QED
  BY SafeInvariance, <1>1, PTL

(* A live object is taken for a zombie only in the first memForbidden      *)
(* bytes after a chunk.                                                    *)
THEOREM FalseAlarmsAreAfterChunks == SafeSpec => []FalseAlarmOnlyAfterChunk
<1>1. SafeIInv => FalseAlarmOnlyAfterChunk
  <2> SUFFICES ASSUME SafeIInv, NEW ptr \in DOMAIN live,
                      NEW addr \in Bytes(ptr, live[ptr]), ~isPointerNotZombie(addr)
               PROVE  \E z \in DOMAIN zombies :
                        IsChunk(z) /\ addr - (z + zombies[z].size) \in 0 .. memForbidden - 1
    BY DEF FalseAlarmOnlyAfterChunk
  <2>1. ptr \in DOMAIN Held /\ Held[ptr] = live[ptr] /\ ptr \in Nat
    BY HeldFacts DEF SafeIInv, ZombiesInv
  <2>2. Held[ptr] \in Nat
    BY <2>1, HeldMade DEF SafeIInv
  <2>3. addr \in Nat
    BY <2>1, <2>2 DEF Bytes
  <2>4. PICK w \in DOMAIN zombieMap : w <= addr /\ ~(addr >= w + zombieMap[w])
    BY <2>3, TakenForZombie
  <2>5. /\ w \in DOMAIN zombies /\ w \in DOMAIN Held /\ w \in Nat
        /\ w \notin DOMAIN live /\ Held[w] = zombies[w].size
        /\ Held[w] \in Nat /\ Held[w] > 0
        /\ zombieMap[w] = Held[w] + (IF IsChunk(w) THEN memForbidden ELSE 0)
        /\ memForbidden \in Nat /\ memForbidden > 0
    BY <2>4, MapFacts
  <2>6. addr >= w + Held[w]
    <3> SUFFICES ASSUME addr < w + Held[w] PROVE FALSE
      BY <2>3, <2>5
    <3>1. addr \in Bytes(w, Held[w]) /\ addr \in Bytes(ptr, Held[ptr]) /\ w # ptr
      BY <2>1, <2>3, <2>4, <2>5 DEF Bytes
    <3> QED
      BY <2>1, <2>5, <3>1, HeldSound DEF SafeIInv
  <2>7. IsChunk(w) /\ addr < (w + Held[w]) + memForbidden
    BY <2>3, <2>4, <2>5, <2>6
  <2>8. addr - (w + zombies[w].size) \in 0 .. memForbidden - 1
    BY <2>3, <2>5, <2>6, <2>7
  <2> QED
    BY <2>5, <2>7, <2>8
<1> QED
  BY SafeInvariance, <1>1, PTL

(* Each bucket's list leads to what is free and not lost. *)
AllListed ==
  \A i \in Idx : \A D :
    FreeInv(buckets, FreeLinks, DOMAIN FreeLinks, D) =>
      Listed(i) = {a \in DOMAIN FreeLinks \ D : Home(a) = i}

(* killAllZombies puts all zombies of a bucket in its list but the first,  *)
(* gives all chunks back, and leaves alone what initialize has dropped.    *)
THEOREM KillReturns == SafeSpec => KillReturnsAllButFirst
<1>1. SafeIInv => AllListed
  BY FreeListed DEF SafeIInv, ZombiesInv, AllListed
<1> DEFINE Returns ==
      zombies # Empty /\ zombies' = Empty =>
        /\ \A i \in Idx :
             Listed(i)' = Listed(i) \union (WaitingIn(i) \ {zombieBucketsFirst[i]})
        /\ DOMAIN chunks' =
             DOMAIN chunks \ {ptrToPageStart(z) : z \in {z \in Waiting : IsChunk(z)}}
<1>2. ASSUME SafeIInv, AllListed, AllListed', SafeNext
      PROVE  Returns
  <2> SUFFICES ASSUME zombies # Empty, zombies' = Empty
               PROVE  /\ \A i \in Idx :
                           Listed(i)' = Listed(i) \union (WaitingIn(i) \ {zombieBucketsFirst[i]})
                      /\ DOMAIN chunks' =
                           DOMAIN chunks \ {ptrToPageStart(z) : z \in {z \in Waiting : IsChunk(z)}}
    OBVIOUS
  <2>1. killAllZombies
    <3>1. ASSUME NEW ptr \in DOMAIN live, zombieableDeallocate(ptr)
          PROVE  FALSE
      <4>1. ptr \in DOMAIN zombies'
        BY <3>1 DEF zombieableDeallocate, With
      <4> QED
        BY <4>1 DEF Empty
    <3> QED
      BY <1>2, <3>1 DEF SafeNext, zvars, setDoZombieEarlyDetection, initialize
  <2>2. HeldInv(FreeLinks, Held) /\ ApartInv /\ ChainsInv
    BY <1>2 DEF SafeIInv, ZombiesInv
  <2>3. /\ DOMAIN FreeLinks' = DOMAIN FreeLinks \union Returned
        /\ DOMAIN chunks' = DOMAIN chunks \ {ptrToPageStart(z) : z \in WaitingChunks}
    BY <2>1, <2>2, KillFacts
  <2>4. PICK D : FreeInv(buckets, FreeLinks, DOMAIN FreeLinks, D)
    BY <2>2 DEF HeldInv, FreeListsInv
  <2>5. FreeInv(buckets', FreeLinks', DOMAIN FreeLinks', D)
    BY <2>1, <2>2, <2>4, KillLists
  <2>6. D \subseteq DOMAIN FreeLinks
    BY <2>4 DEF FreeInv, LinksInv
  <2>7. ASSUME NEW i \in Idx
        PROVE  Listed(i)' = Listed(i) \union (WaitingIn(i) \ {zombieBucketsFirst[i]})
    <3>1. Listed(i) = {a \in DOMAIN FreeLinks \ D : Home(a) = i}
      BY <1>2, <2>4 DEF AllListed
    <3>2. Listed(i)' = {a \in DOMAIN FreeLinks' \ D : Home(a) = i}
      BY <1>2, <2>5 DEF AllListed, Home
    <3>3. {a \in Returned : Home(a) = i} = WaitingOf(i) \ {zombieBucketsFirst[i]}
      BY DEF Returned, WaitingOf
    <3>4. Returned \intersect DOMAIN FreeLinks = {}
      BY <2>2, WaitingFacts DEF Returned
    <3>5. WaitingIn(i) = WaitingOf(i)
      BY <2>2, WaitingMade
    <3> QED
      BY <2>3, <2>6, <3>1, <3>2, <3>3, <3>4, <3>5
  <2> QED
    BY <2>3, <2>7 DEF WaitingChunks
<1>3. ASSUME UNCHANGED allvars PROVE Returns
  BY <1>3 DEF allvars, zvars
<1>4. SafeIInv /\ AllListed /\ AllListed' /\ [SafeNext]_allvars => [Returns]_allvars
  BY <1>2, <1>3
<1> QED
  BY <1>1, <1>4, SafeInvariance, PTL DEF SafeSpec, KillReturnsAllButFirst
=============================================================================
