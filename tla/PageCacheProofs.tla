--------------------------- MODULE PageCacheProofs ---------------------------
(***************************************************************************)
(* PageCache: its lists are sound, its statistics balance, and users see   *)
(* the allocator without cache, for any limits, places, sizes and width of *)
(* the statistics.                                                         *)
(***************************************************************************)
EXTENDS PageCache, FiniteSetTheorems, WellFoundedInduction, TLAPS

(***************************************************************************)
(* The inductive invariant.  The lists: every node, the head of a list or  *)
(* a kept block, is linked both ways to nodes of its own list, and no set  *)
(* of kept blocks is closed under the links back, so that those lead to a  *)
(* head.                                                                   *)
(***************************************************************************)
Kept == Blocks \ DOMAIN held

IndexOf(sizes, n) == IF n \in Heads THEN -(n + 1) ELSE sizes[n] - 1

LinkSound(links, sizes, K, n) ==
  LET next == links[n].next
      prev == links[n].prev
  IN  /\ next \in Heads \union K /\ links[next].prev = n
      /\ IndexOf(sizes, next) = IndexOf(sizes, n)
      /\ prev \in Heads \union K /\ links[prev].next = n
      /\ IndexOf(sizes, prev) = IndexOf(sizes, n)

ListsInv(links, sizes, K) ==
  /\ Heads \union K \subseteq DOMAIN links
  /\ \A n \in Heads \union K : LinkSound(links, sizes, K, n)
  /\ \A S \in SUBSET K : S # {} => \E p \in S : links[p].prev \notin S

(* The lengths the code counts, and their limits. *)
InList(sizes, K, ix) == {p \in K : sizes[p] = ix + 1}

Limit(ix) == IF ix = 0 THEN SinglePageCacheSize
             ELSE IF ix < MaxCachedSize THEN MultiPageCacheSize ELSE 0

CountsInv(counts, sizes, K) ==
  /\ counts \in [ListIdx -> Nat]
  /\ \A ix \in ListIdx : /\ counts[ix] = Cardinality(InList(sizes, K, ix))
                         /\ counts[ix] <= Limit(ix)
  /\ \A p \in K : sizes[p] - 1 \in 0 .. MaxCachedSize - 1

(* Blocks got by getFreeBlock: held ones are in no list and have the size  *)
(* asked for in their headers.                                             *)
Link == [next : Int, prev : Int]

BlocksInv ==
  /\ link \in [Heads \union Blocks -> Link]
  /\ size \in [Blocks -> Nat \ {0}]
  /\ Blocks \subseteq Place /\ IsFiniteSet(Blocks)
  /\ held \in [DOMAIN held -> Nat \ {0}] /\ DOMAIN held \subseteq Blocks
  /\ \A p \in DOMAIN held : held[p] = size[p] /\ link[p] = Unlinked

(* What the OS has mapped is what is held, kept or reserved, each by one.  *)
Apart(blocks) ==
  \A p, q \in DOMAIN blocks :
    p # q => Plain!Extent(p, blocks[p]) \intersect Plain!Extent(q, blocks[q]) = {}

MapOf(blocks) ==
  /\ blocks \in [DOMAIN blocks -> Nat \ {0}] /\ DOMAIN blocks \subseteq Place
  /\ Apart(blocks)

MappedInv(got, plain, space, pages) ==
  /\ MapOf(got) /\ MapOf(plain) /\ MapOf(space)
  /\ Plain!Covered(got) \intersect Plain!Covered(plain) = {}
  /\ Plain!Covered(got) \intersect Plain!Covered(space) = {}
  /\ Plain!Covered(plain) \intersect Plain!Covered(space) = {}
  /\ pages = Plain!Covered(got) \union Plain!Covered(plain)
                                \union Plain!Covered(space)
  /\ IsFiniteSet(pages)

StatTypes ==
  /\ {allocRequest, deallocRequest, sysAlloc, sysDealloc} \subseteq Stat
  /\ {refused, committed, addressSpaceFreed} \subseteq Stat

Balanced ==
  (sysAlloc - sysDealloc) % Width =
    (Cardinality(mapped \ Plain!Covered(reserved)) + refused
       - addressSpaceFreed) % Width

CacheInv ==
  /\ BlocksInv
  /\ ListsInv(link, size, Kept)
  /\ CountsInv(count, size, Kept)

IInv ==
  /\ CacheInv
  /\ MappedInv(size, raw, reserved, mapped)
  /\ StatTypes /\ Balanced

-----------------------------------------------------------------------------
(***************************************************************************)
(* Sums modulo Width.                                                      *)
(***************************************************************************)
LEMMA Remainder ==
  ASSUME NEW x \in Int
  PROVE  /\ x % Width \in Stat /\ x % Width \in Int
         /\ x \div Width \in Int /\ x = (x \div Width) * Width + (x % Width)
BY WidthAssumption, SMT DEF Stat

(* A remainder is the only one. *)
LEMMA OnlyRemainder ==
  ASSUME NEW q \in Int, NEW r \in Stat
  PROVE  (q * Width + r) % Width = r
<1> DEFINE x == q * Width + r
<1>1. q * Width \in Int /\ Width \in Int /\ Width > 0 /\ r \in Int /\ 0 <= r /\ r < Width
  BY WidthAssumption, SMT DEF Stat
<1>2. x \in Int
  BY <1>1
<1> HIDE DEF x
<1>3. /\ x \div Width \in Int /\ x = (x \div Width) * Width + (x % Width)
      /\ x % Width \in Int /\ 0 <= x % Width /\ x % Width < Width
  BY <1>1, <1>2, SMT
<1>4. x \div Width = q
  BY <1>1, <1>2, <1>3, SMT DEF x
<1> QED
  BY <1>1, <1>2, <1>3, <1>4, SMT DEF x

(* What was reduced before may be reduced after a sum, or a difference. *)
LEMMA ReducedTerm ==
  ASSUME NEW x \in Int, NEW y \in Int
  PROVE  /\ ((x % Width) + y) % Width = (x + y) % Width
         /\ (y - (x % Width)) % Width = (y - x) % Width
<1> DEFINE q == x \div Width
           r == x % Width
<1>1. q \in Int /\ r \in Int /\ x = q * Width + r /\ Width \in Int
  BY Remainder, WidthAssumption
<1> HIDE DEF q, r
<1>2. ASSUME NEW z \in Int, NEW k \in Int
      PROVE  (k * Width + z) % Width = z % Width
  <2> DEFINE p == z \div Width
             s == z % Width
  <2>1. p \in Int /\ s \in Stat /\ s \in Int /\ z = p * Width + s
    BY Remainder
  <2> HIDE DEF p, s
  <2>2. k * Width + z = (k + p) * Width + s
    BY <1>1, <2>1, SMT
  <2>3. (k * Width + z) % Width = s
    BY <2>1, <2>2, OnlyRemainder
  <2> QED
    BY <2>3 DEF s
<1>3. x + y = q * Width + (r + y) /\ r + y \in Int
  BY <1>1, SMT
<1>4. y - x = (-q) * Width + (y - r) /\ y - r \in Int /\ -q \in Int
  BY <1>1, SMT
<1>5. (q * Width + (r + y)) % Width = (r + y) % Width
  BY <1>1, <1>2, <1>3
<1>6. ((-q) * Width + (y - r)) % Width = (y - r) % Width
  BY <1>2, <1>4
<1> QED
  BY <1>3, <1>4, <1>5, <1>6 DEF r

(* A statistic that counts goes on by what is counted. *)
LEMMA Counted ==
  ASSUME NEW x \in Int, NEW n \in Int
  PROVE  Count(x, n) \in Stat /\ Count(x, n) = (x + n) % Width
BY Remainder DEF Count, Plain!Registered

(* A difference of two statistics, when either of them counts. *)
LEMMA CountedDifference ==
  ASSUME NEW x \in Int, NEW y \in Int, NEW n \in Int
  PROVE  /\ (Count(x, n) - y) % Width = ((x - y) + n) % Width
         /\ (x - Count(y, n)) % Width = ((x - y) - n) % Width
         /\ (Count(x, n) - Count(y, n)) % Width = (x - y) % Width
<1>1. /\ Count(x, n) = (x + n) % Width /\ Count(y, n) = (y + n) % Width
      /\ Count(x, n) \in Int /\ Count(y, n) \in Int
      /\ x + n \in Int /\ y + n \in Int /\ -y \in Int
  BY Counted, Remainder
<1>2. (Count(x, n) - y) % Width = ((x + n) - y) % Width
  <2>1. (((x + n) % Width) + (-y)) % Width = ((x + n) + (-y)) % Width
    BY <1>1, ReducedTerm
  <2>2. Count(x, n) - y = Count(x, n) + (-y) /\ (x + n) - y = (x + n) + (-y)
    BY <1>1
  <2> QED
    BY <1>1, <2>1, <2>2
<1>3. (x - Count(y, n)) % Width = (x - (y + n)) % Width
  BY <1>1, ReducedTerm
<1>4. (Count(x, n) - Count(y, n)) % Width = (Count(x, n) - (y + n)) % Width
  BY <1>1, ReducedTerm
<1>5. (Count(x, n) - (y + n)) % Width = ((x + n) - (y + n)) % Width
  <2>1. (((x + n) % Width) + (-(y + n))) % Width = ((x + n) + (-(y + n))) % Width
    BY <1>1, ReducedTerm
  <2>2. /\ Count(x, n) - (y + n) = Count(x, n) + (-(y + n))
        /\ (x + n) - (y + n) = (x + n) + (-(y + n))
    BY <1>1
  <2> QED
    BY <1>1, <2>1, <2>2
<1>6. /\ (x + n) - y = (x - y) + n
      /\ x - (y + n) = (x - y) - n
      /\ (x + n) - (y + n) = x - y
  OBVIOUS
<1> QED
  BY <1>2, <1>3, <1>4, <1>5, <1>6

-----------------------------------------------------------------------------
(***************************************************************************)
(* The pages that blocks cover.                                            *)
(***************************************************************************)
LEMMA InCovered ==
  ASSUME NEW blocks, NEW x
  PROVE  x \in Plain!Covered(blocks)
           <=> \E p \in DOMAIN blocks : x \in Plain!Extent(p, blocks[p])
BY DEF Plain!Covered

LEMMA ExtentFacts ==
  ASSUME NEW p \in Nat, NEW n \in Nat \ {0}
  PROVE  /\ p \in Plain!Extent(p, n)
         /\ IsFiniteSet(Plain!Extent(p, n)) /\ Cardinality(Plain!Extent(p, n)) = n
<1>1. p + n - 1 \in Int /\ p <= p + n - 1 /\ (p + n - 1) - p + 1 = n
  OBVIOUS
<1>2. IsFiniteSet(p .. p + n - 1) /\ Cardinality(p .. p + n - 1) = n
  BY <1>1, FS_Interval
<1> QED
  BY <1>1, <1>2 DEF Plain!Extent

(* A block is added where none is. *)
LEMMA BlockAdded ==
  ASSUME NEW blocks, MapOf(blocks), NEW p \in Place, NEW n \in Nat \ {0},
         Plain!Extent(p, n) \intersect Plain!Covered(blocks) = {}
  PROVE  /\ p \notin DOMAIN blocks
         /\ MapOf(Plain!With(blocks, p, n))
         /\ Plain!Covered(Plain!With(blocks, p, n))
              = Plain!Covered(blocks) \union Plain!Extent(p, n)
<1> DEFINE more == Plain!With(blocks, p, n)
<1>1. p \in Nat /\ \A q \in DOMAIN blocks : q \in Nat /\ blocks[q] \in Nat \ {0}
  BY PlacesAssumption DEF MapOf
<1>2. \A q \in DOMAIN blocks : q \in Plain!Extent(q, blocks[q])
  BY <1>1, ExtentFacts
<1>3. p \notin DOMAIN blocks
  <2>1. p \in Plain!Extent(p, n)
    BY <1>1, ExtentFacts
  <2> QED
    BY <1>2, <2>1, InCovered
<1>4. /\ DOMAIN more = DOMAIN blocks \union {p}
      /\ more[p] = n /\ \A q \in DOMAIN blocks : more[q] = blocks[q]
      /\ more \in [DOMAIN more -> Nat \ {0}]
  BY <1>1, <1>3 DEF Plain!With
<1> HIDE DEF more
<1>5. Plain!Covered(more) = Plain!Covered(blocks) \union Plain!Extent(p, n)
  <2>1. \A x : x \in Plain!Covered(more)
                 <=> x \in Plain!Covered(blocks) \/ x \in Plain!Extent(p, n)
    BY <1>3, <1>4, InCovered
  <2> QED
    BY <2>1
<1>6. Apart(more)
  <2>1. \A q \in DOMAIN blocks :
          Plain!Extent(p, n) \intersect Plain!Extent(q, blocks[q]) = {}
    BY InCovered
  <2> QED
    BY <1>3, <1>4, <2>1 DEF MapOf, Apart
<1> QED
  BY <1>3, <1>4, <1>5, <1>6 DEF MapOf, more

(* A block is taken away. *)
LEMMA BlockRemoved ==
  ASSUME NEW blocks, MapOf(blocks), NEW p \in DOMAIN blocks
  PROVE  /\ MapOf(Plain!Without(blocks, p))
         /\ Plain!Extent(p, blocks[p]) \subseteq Plain!Covered(blocks)
         /\ Plain!Covered(Plain!Without(blocks, p))
              = Plain!Covered(blocks) \ Plain!Extent(p, blocks[p])
<1> DEFINE less == Plain!Without(blocks, p)
<1>1. /\ DOMAIN less = DOMAIN blocks \ {p}
      /\ \A q \in DOMAIN less : less[q] = blocks[q]
      /\ less \in [DOMAIN less -> Nat \ {0}]
  BY DEF Plain!Without, MapOf
<1> HIDE DEF less
<1>2. Apart(less)
  BY <1>1 DEF MapOf, Apart
<1>3. \A x : x \in Plain!Covered(less)
               <=> x \in Plain!Covered(blocks) /\ x \notin Plain!Extent(p, blocks[p])
  <2> TAKE x
  <2>1. ASSUME x \in Plain!Covered(less)
        PROVE  x \in Plain!Covered(blocks) /\ x \notin Plain!Extent(p, blocks[p])
    <3>1. PICK q \in DOMAIN less : x \in Plain!Extent(q, less[q])
      BY <2>1, InCovered
    <3>2. q \in DOMAIN blocks /\ q # p /\ x \in Plain!Extent(q, blocks[q])
      BY <1>1, <3>1
    <3>3. x \in Plain!Covered(blocks)
      BY <3>2, InCovered
    <3> QED
      BY <3>2, <3>3 DEF MapOf, Apart
  <2>2. ASSUME x \in Plain!Covered(blocks), x \notin Plain!Extent(p, blocks[p])
        PROVE  x \in Plain!Covered(less)
    <3>1. PICK q \in DOMAIN blocks : x \in Plain!Extent(q, blocks[q])
      BY <2>2, InCovered
    <3>2. q \in DOMAIN less /\ x \in Plain!Extent(q, less[q])
      BY <1>1, <2>2, <3>1
    <3> QED
      BY <3>2, InCovered
  <2> QED
    BY <2>1, <2>2
<1>4. Plain!Extent(p, blocks[p]) \subseteq Plain!Covered(blocks)
  BY InCovered
<1>5. Plain!Covered(less) = Plain!Covered(blocks) \ Plain!Extent(p, blocks[p])
  BY <1>3
<1> QED
  BY <1>1, <1>2, <1>4, <1>5 DEF MapOf, less

(* Pages that are added where none is, or taken away. *)
LEMMA PagesCounted ==
  ASSUME NEW pages, IsFiniteSet(pages), NEW p \in Place, NEW n \in Nat \ {0}
  PROVE  LET extent == Plain!Extent(p, n)
         IN  /\ IsFiniteSet(pages \union extent) /\ IsFiniteSet(pages \ extent)
             /\ Cardinality(pages) \in Nat
             /\ extent \intersect pages = {} =>
                  Cardinality(pages \union extent) = Cardinality(pages) + n
             /\ extent \subseteq pages =>
                  Cardinality(pages \ extent) = Cardinality(pages) - n
<1> DEFINE extent == Plain!Extent(p, n)
<1>1. IsFiniteSet(extent) /\ Cardinality(extent) = n /\ n \in Nat
  BY PlacesAssumption, ExtentFacts
<1> HIDE DEF extent
<1>2. /\ IsFiniteSet(pages \union extent)
      /\ Cardinality(pages \union extent)
           = Cardinality(pages) + Cardinality(extent)
               - Cardinality(pages \intersect extent)
  BY <1>1, FS_Union
<1>3. /\ IsFiniteSet(pages \ extent)
      /\ Cardinality(pages \ extent)
           = Cardinality(pages) - Cardinality(pages \intersect extent)
  BY FS_Difference
<1>4. Cardinality(pages) \in Nat /\ Cardinality({}) = 0
  BY FS_CardinalityType, FS_EmptySet
<1>5. extent \intersect pages = {} =>
        Cardinality(pages \union extent) = Cardinality(pages) + n
  <2> SUFFICES ASSUME extent \intersect pages = {}
               PROVE  Cardinality(pages \union extent) = Cardinality(pages) + n
    OBVIOUS
  <2>1. pages \intersect extent = {}
    OBVIOUS
  <2>2. Cardinality(pages \intersect extent) = 0
    BY <1>4, <2>1
  <2> QED
    BY <1>1, <1>2, <1>4, <2>2
<1>6. extent \subseteq pages => Cardinality(pages \ extent) = Cardinality(pages) - n
  <2> SUFFICES ASSUME extent \subseteq pages
               PROVE  Cardinality(pages \ extent) = Cardinality(pages) - n
    OBVIOUS
  <2>1. pages \intersect extent = extent
    OBVIOUS
  <2>2. Cardinality(pages \intersect extent) = n
    BY <1>1, <2>1
  <2> QED
    BY <1>3, <2>2
<1> QED
  BY <1>2, <1>3, <1>4, <1>5, <1>6 DEF extent

(* The three kinds of blocks are the same to the OS. *)
LEMMA KindsSwap ==
  ASSUME NEW got, NEW plain, NEW space, NEW pages,
         MappedInv(got, plain, space, pages)
  PROVE  MappedInv(plain, got, space, pages) /\ MappedInv(space, plain, got, pages)
BY DEF MappedInv

LEMMA MappedGrows ==
  ASSUME NEW got, NEW plain, NEW space, NEW pages,
         MappedInv(got, plain, space, pages),
         NEW p \in Place, NEW n \in Nat \ {0},
         Plain!Extent(p, n) \intersect pages = {}
  PROVE  /\ p \notin DOMAIN got
         /\ MappedInv(Plain!With(got, p, n), plain, space,
                      pages \union Plain!Extent(p, n))
         /\ Plain!Covered(Plain!With(got, p, n))
              = Plain!Covered(got) \union Plain!Extent(p, n)
<1>1. Plain!Extent(p, n) \intersect Plain!Covered(got) = {}
  BY DEF MappedInv
<1>2. /\ p \notin DOMAIN got
      /\ MapOf(Plain!With(got, p, n))
      /\ Plain!Covered(Plain!With(got, p, n))
           = Plain!Covered(got) \union Plain!Extent(p, n)
  BY <1>1, BlockAdded DEF MappedInv
<1>3. IsFiniteSet(pages \union Plain!Extent(p, n))
  BY PagesCounted DEF MappedInv
<1> QED
  BY <1>2, <1>3 DEF MappedInv

LEMMA MappedShrinks ==
  ASSUME NEW got, NEW plain, NEW space, NEW pages,
         MappedInv(got, plain, space, pages), NEW p \in DOMAIN got
  PROVE  /\ MappedInv(Plain!Without(got, p), plain, space,
                      pages \ Plain!Extent(p, got[p]))
         /\ Plain!Extent(p, got[p]) \subseteq Plain!Covered(got)
         /\ Plain!Covered(Plain!Without(got, p))
              = Plain!Covered(got) \ Plain!Extent(p, got[p])
         /\ p \in Place /\ got[p] \in Nat \ {0}
<1>1. /\ MapOf(Plain!Without(got, p))
      /\ Plain!Extent(p, got[p]) \subseteq Plain!Covered(got)
      /\ Plain!Covered(Plain!Without(got, p))
           = Plain!Covered(got) \ Plain!Extent(p, got[p])
  BY BlockRemoved DEF MappedInv
<1>2. p \in Place /\ got[p] \in Nat \ {0}
  BY DEF MappedInv, MapOf
<1>3. IsFiniteSet(pages \ Plain!Extent(p, got[p]))
  BY <1>2, PagesCounted DEF MappedInv
<1> QED
  BY <1>1, <1>2, <1>3 DEF MappedInv

-----------------------------------------------------------------------------
(***************************************************************************)
(* The lists.                                                              *)
(***************************************************************************)
LEMMA IndexFacts ==
  /\ \A ix \in ListIdx : lst(ix) \in Heads /\ -(lst(ix) + 1) = ix
  /\ \A n \in Heads : n \in Int /\ n < 0 /\ -(n + 1) \in ListIdx /\ n = lst(-(n + 1))
  /\ \A p \in Place : p \in Int /\ p > 0 /\ p \notin Heads
  /\ 0 \in ListIdx
<1>1. MaxCachedSize \in Nat
  BY LimitsAssumption
<1>2. \A ix \in ListIdx : ix \in Nat /\ lst(ix) \in Int /\ -(lst(ix) + 1) = ix
  BY <1>1 DEF ListIdx, lst
<1>3. \A n \in Heads : \E ix \in ListIdx : n = lst(ix)
  BY DEF Heads
<1>4. \A n \in Heads : n \in Int /\ n < 0 /\ -(n + 1) \in ListIdx /\ n = lst(-(n + 1))
  <2> TAKE n \in Heads
  <2>1. PICK ix \in ListIdx : n = lst(ix)
    BY <1>3
  <2>2. n \in Int /\ -(n + 1) = ix
    BY <1>2, <2>1
  <2>3. n < 0
    BY <1>2, <2>1 DEF lst
  <2> QED
    BY <2>1, <2>2, <2>3
<1>5. \A p \in Place : p \in Int /\ p > 0
  BY PlacesAssumption
<1>6. \A p \in Place : p \notin Heads
  BY <1>4, <1>5
<1> QED
  BY <1>1, <1>2, <1>4, <1>5, <1>6 DEF Heads, ListIdx

(* The neighbours after listInsertNext. *)
LEMMA InsertedLinks ==
  ASSUME NEW D \in SUBSET Int, NEW links \in [D -> Link],
         NEW h \in D, NEW p \in D, links[h].next \in D,
         p # h, p # links[h].next
  PROVE  LET after == listInsertNext(links, h, p)
         IN  /\ after \in [D -> Link]
             /\ after[p].next = links[h].next /\ after[p].prev = h
             /\ \A n \in D \ {p} :
                  /\ after[n].next = IF n = h THEN p ELSE links[n].next
                  /\ after[n].prev = IF n = links[h].next THEN p ELSE links[n].prev
<1> DEFINE t == links[h].next
           one == [links EXCEPT ![p] = [next |-> t, prev |-> h]]
           two == [one EXCEPT ![t].prev = p]
           after == [two EXCEPT ![h].next = p]
<1>1. after = listInsertNext(links, h, p)
  BY DEF listInsertNext
<1>2. t \in D /\ t \in Int /\ h \in Int /\ p \in Int
  OBVIOUS
<1>3. /\ one \in [D -> Link]
      /\ one[p] = [next |-> t, prev |-> h]
      /\ \A n \in D \ {p} : one[n] = links[n]
  BY <1>2 DEF Link
<1> HIDE DEF one
<1>4. /\ two \in [D -> Link]
      /\ two[t] = [one[t] EXCEPT !.prev = p]
      /\ \A n \in D \ {t} : two[n] = one[n]
  BY <1>2, <1>3 DEF Link
<1> HIDE DEF two
<1>5. /\ after \in [D -> Link]
      /\ after[h] = [two[h] EXCEPT !.next = p]
      /\ \A n \in D \ {h} : after[n] = two[n]
  BY <1>2, <1>4 DEF Link
<1> HIDE DEF after
<1>6. /\ two[t].next = one[t].next /\ two[t].prev = p
      /\ after[h].next = p /\ after[h].prev = two[h].prev
  BY <1>2, <1>3, <1>4, <1>5 DEF Link
<1>7. after[p].next = t /\ after[p].prev = h
  BY <1>2, <1>3, <1>4, <1>5
<1>8. ASSUME NEW n \in D \ {p}
      PROVE  /\ after[n].next = IF n = h THEN p ELSE links[n].next
             /\ after[n].prev = IF n = t THEN p ELSE links[n].prev
  <2>1. one[n] = links[n]
    BY <1>3
  <2>2. two[n].next = links[n].next /\ two[n].prev = IF n = t THEN p ELSE links[n].prev
    BY <1>4, <1>6, <2>1
  <2> QED
    BY <1>5, <1>6, <2>2
<1> QED
  BY <1>1, <1>5, <1>7, <1>8

(* The neighbours after removeFromList. *)
LEMMA RemovedLinks ==
  ASSUME NEW D \in SUBSET Int, NEW links \in [D -> Link], NEW p \in D,
         links[p].next \in D \ {p}, links[p].prev \in D \ {p}
  PROVE  LET after == removeFromList(links, p)
         IN  /\ after \in [D -> Link]
             /\ after[p] = Unlinked
             /\ \A n \in D \ {p} :
                  /\ after[n].next = IF n = links[p].prev THEN links[p].next
                                                          ELSE links[n].next
                  /\ after[n].prev = IF n = links[p].next THEN links[p].prev
                                                          ELSE links[n].prev
<1> DEFINE t == links[p].next
           h == links[p].prev
           one == [links EXCEPT ![h].next = t]
           two == [one EXCEPT ![t].prev = h]
           after == [two EXCEPT ![p] = Unlinked]
<1>1. after = removeFromList(links, p)
  BY DEF removeFromList
<1>2. t \in D \ {p} /\ h \in D \ {p} /\ t \in Int /\ h \in Int
  OBVIOUS
<1> HIDE DEF t, h
<1>3. /\ one \in [D -> Link]
      /\ one[h] = [links[h] EXCEPT !.next = t]
      /\ \A n \in D \ {h} : one[n] = links[n]
  BY <1>2 DEF Link
<1> HIDE DEF one
<1>4. /\ two \in [D -> Link]
      /\ two[t] = [one[t] EXCEPT !.prev = h]
      /\ \A n \in D \ {t} : two[n] = one[n]
  BY <1>2, <1>3 DEF Link
<1> HIDE DEF two
<1>5. /\ after \in [D -> Link]
      /\ after[p] = Unlinked
      /\ \A n \in D \ {p} : after[n] = two[n]
  BY <1>4 DEF Link, Unlinked, null
<1> HIDE DEF after
<1>6. /\ one[h].next = t /\ one[h].prev = links[h].prev
      /\ two[t].prev = h /\ two[t].next = one[t].next
  BY <1>2, <1>3, <1>4 DEF Link
<1>7. ASSUME NEW n \in D \ {p}
      PROVE  /\ after[n].next = IF n = h THEN t ELSE links[n].next
             /\ after[n].prev = IF n = t THEN h ELSE links[n].prev
  <2>1. one[n].prev = links[n].prev /\ one[n].next = IF n = h THEN t ELSE links[n].next
    BY <1>3, <1>6
  <2>2. two[n].next = one[n].next /\ two[n].prev = IF n = t THEN h ELSE one[n].prev
    BY <1>4, <1>6
  <2> QED
    BY <1>5, <2>1, <2>2
<1> QED
  BY <1>1, <1>5, <1>7 DEF t, h

(* Only what the nodes' links and sizes are matters. *)
LEMMA ListsStay ==
  ASSUME NEW links, NEW sizes, NEW K, K \subseteq Place, ListsInv(links, sizes, K),
         NEW after, NEW later, Heads \union K \subseteq DOMAIN after,
         \A n \in Heads \union K : after[n] = links[n],
         \A p \in K : later[p] = sizes[p]
  PROVE  ListsInv(after, later, K)
<1>1. \A n \in Heads \union K : IndexOf(later, n) = IndexOf(sizes, n)
  BY DEF IndexOf
<1>2. ASSUME NEW n \in Heads \union K
      PROVE  LinkSound(after, later, K, n)
  <2>1. LinkSound(links, sizes, K, n)
    BY DEF ListsInv
  <2> QED
    BY <1>1, <2>1 DEF LinkSound
<1>3. \A S \in SUBSET K : S # {} => \E p \in S : after[p].prev \notin S
  <2> TAKE S \in SUBSET K
  <2> HAVE S # {}
  <2>1. PICK p \in S : links[p].prev \notin S
    BY DEF ListsInv
  <2> QED
    BY <2>1
<1> QED
  BY <1>2, <1>3 DEF ListsInv

(* A block put at the front of the list of its size. *)
LEMMA Pushed ==
  ASSUME NEW D \in SUBSET Int, NEW links \in [D -> Link], NEW sizes, NEW K,
         K \subseteq Place, ListsInv(links, sizes, K),
         NEW p \in Place \ K, p \in D, NEW ix \in ListIdx, sizes[p] = ix + 1
  PROVE  LET after == listInsertNext(links, lst(ix), p)
         IN  /\ after \in [D -> Link]
             /\ ListsInv(after, sizes, K \union {p})
<1> DEFINE h == lst(ix)
           t == links[h].next
           after == listInsertNext(links, h, p)
           N == Heads \union K
           more == K \union {p}
<1>1. /\ h \in Heads /\ IndexOf(sizes, h) = ix
      /\ p \in Int /\ p \notin Heads /\ IndexOf(sizes, p) = ix
      /\ ix \in Int /\ N \subseteq D
  BY IndexFacts DEF IndexOf, ListsInv, ListIdx
<1> HIDE DEF h
<1>2. \A n \in N : LinkSound(links, sizes, K, n)
  BY DEF ListsInv
<1>3. t \in N /\ links[t].prev = h /\ IndexOf(sizes, t) = ix
  BY <1>1, <1>2 DEF LinkSound
<1>4. p \notin N /\ h \in N
  BY <1>1
<1> HIDE DEF t
<1>5. /\ after \in [D -> Link]
      /\ after[p].next = t /\ after[p].prev = h
      /\ \A n \in D \ {p} : /\ after[n].next = IF n = h THEN p ELSE links[n].next
                            /\ after[n].prev = IF n = t THEN p ELSE links[n].prev
  <2>1. /\ h \in D /\ p \in D /\ links[h].next \in D /\ p # h /\ p # links[h].next
        /\ links[h].next = t
    BY <1>1, <1>3, <1>4 DEF t
  <2>2. /\ after \in [D -> Link]
        /\ after[p].next = links[h].next /\ after[p].prev = h
        /\ \A n \in D \ {p} :
             /\ after[n].next = IF n = h THEN p ELSE links[n].next
             /\ after[n].prev = IF n = links[h].next THEN p ELSE links[n].prev
    BY <2>1, InsertedLinks
  <2> QED
    BY <2>1, <2>2
<1> HIDE DEF after
<1>6. ASSUME NEW n \in N
      PROVE  LinkSound(after, sizes, more, n)
  <2> DEFINE a == links[n].next
             b == links[n].prev
  <2>1. /\ a \in N /\ links[a].prev = n /\ IndexOf(sizes, a) = IndexOf(sizes, n)
        /\ b \in N /\ links[b].next = n /\ IndexOf(sizes, b) = IndexOf(sizes, n)
    BY <1>2 DEF LinkSound
  <2>2. n # p /\ a # p /\ b # p
    BY <1>4, <2>1
  <2>3. n \in D /\ a \in D /\ b \in D
    BY <1>1, <2>1
  <2>4. /\ after[n].next = IF n = h THEN p ELSE a
        /\ after[n].prev = IF n = t THEN p ELSE b
    BY <1>5, <2>2, <2>3
  <2>5. n # h => after[a].prev = n
    <3>1. a = t => n = h
      BY <1>3, <2>1
    <3> QED
      BY <1>5, <2>1, <2>2, <2>3, <3>1
  <2>6. n # t => after[b].next = n
    <3>1. b = h => n = t
      BY <2>1 DEF t
    <3> QED
      BY <1>5, <2>1, <2>2, <2>3, <3>1
  <2> HIDE DEF a, b
  <2>7. /\ after[n].next \in Heads \union more /\ after[after[n].next].prev = n
        /\ IndexOf(sizes, after[n].next) = IndexOf(sizes, n)
    BY <1>1, <1>5, <2>1, <2>4, <2>5
  <2>8. /\ after[n].prev \in Heads \union more /\ after[after[n].prev].next = n
        /\ IndexOf(sizes, after[n].prev) = IndexOf(sizes, n)
    BY <1>1, <1>3, <1>5, <2>1, <2>4, <2>6
  <2> QED
    BY <2>7, <2>8 DEF LinkSound
<1>7. LinkSound(after, sizes, more, p)
  <2>1. t # p /\ h # p /\ t \in D /\ h \in D
    BY <1>1, <1>3, <1>4
  <2>2. after[t].prev = p /\ after[h].next = p
    BY <1>5, <2>1
  <2> QED
    BY <1>1, <1>3, <1>5, <2>2 DEF LinkSound
<1>8. ASSUME NEW S \in SUBSET more, S # {}
      PROVE  \E q \in S : after[q].prev \notin S
  <2>1. CASE p \in S
    <3>1. h \notin more
      <4>1. h \notin Place
        BY <1>1, IndexFacts
      <4> QED
        BY <1>1, <4>1
    <3> QED
      BY <1>5, <2>1, <3>1
  <2>2. CASE p \notin S
    <3> S \in SUBSET K
      BY <2>2
    <3>1. PICK q \in S : links[q].prev \notin S
      BY <1>8 DEF ListsInv
    <3>2. q \in D /\ q # p
      BY <1>1, <2>2
    <3> QED
      BY <1>5, <2>2, <3>1, <3>2
  <2> QED
    BY <2>1, <2>2
<1>9. ListsInv(after, sizes, more)
  <2>1. Heads \union more \subseteq DOMAIN after
    BY <1>1, <1>5
  <2>2. \A n \in Heads \union more : LinkSound(after, sizes, more, n)
    BY <1>6, <1>7
  <2> QED
    BY <1>8, <2>1, <2>2 DEF ListsInv
<1> QED
  BY <1>5, <1>9 DEF after, h

(* A block taken out of its list. *)
TakenOut(D, links, sizes, K, p, after) ==
  /\ after \in [D -> Link] /\ after[p] = Unlinked
  /\ ListsInv(after, sizes, K \ {p})
  /\ \A n \in D \ (Heads \union K) : after[n] = links[n]

LEMMA Removed ==
  ASSUME NEW D \in SUBSET Int, NEW links \in [D -> Link], NEW sizes, NEW K,
         K \subseteq Place, ListsInv(links, sizes, K), NEW p \in K
  PROVE  TakenOut(D, links, sizes, K, p, removeFromList(links, p))
<1> DEFINE h == links[p].prev
           t == links[p].next
           after == removeFromList(links, p)
           N == Heads \union K
           less == K \ {p}
<1>1. \A n \in N : LinkSound(links, sizes, K, n)
  BY DEF ListsInv
<1>2. /\ h \in N /\ links[h].next = p /\ IndexOf(sizes, h) = IndexOf(sizes, p)
      /\ t \in N /\ links[t].prev = p /\ IndexOf(sizes, t) = IndexOf(sizes, p)
      /\ p \in N /\ N \subseteq D
  BY <1>1 DEF LinkSound, ListsInv
<1>3. h # p
  <2>1. {p} \in SUBSET K /\ {p} # {}
    OBVIOUS
  <2>2. PICK q \in {p} : links[q].prev \notin {p}
    BY <2>1 DEF ListsInv
  <2> QED
    BY <2>2
<1>4. t # p
  BY <1>2, <1>3
<1>5. p \notin Heads
  BY IndexFacts
<1> HIDE DEF h, t
<1>6. /\ after \in [D -> Link]
      /\ after[p] = Unlinked
      /\ \A n \in D \ {p} : /\ after[n].next = IF n = h THEN t ELSE links[n].next
                            /\ after[n].prev = IF n = t THEN h ELSE links[n].prev
  BY <1>2, <1>3, <1>4, RemovedLinks DEF h, t
<1> HIDE DEF after
<1>7. ASSUME NEW n \in N \ {p}
      PROVE  LinkSound(after, sizes, less, n)
  <2> DEFINE a == links[n].next
             b == links[n].prev
  <2>1. /\ a \in N /\ links[a].prev = n /\ IndexOf(sizes, a) = IndexOf(sizes, n)
        /\ b \in N /\ links[b].next = n /\ IndexOf(sizes, b) = IndexOf(sizes, n)
    BY <1>1 DEF LinkSound
  <2>2. a = p <=> n = h
    BY <1>2, <2>1 DEF h
  <2>3. b = p <=> n = t
    BY <1>2, <2>1 DEF t
  <2>4. /\ after[n].next = IF n = h THEN t ELSE a
        /\ after[n].prev = IF n = t THEN h ELSE b
    BY <1>2, <1>6
  <2>5. n # h => a # t /\ after[a].prev = n
    <3>1. a = t => n = p
      BY <1>2, <2>1
    <3> QED
      BY <1>2, <1>6, <2>1, <2>2, <3>1
  <2>6. n # t => b # h /\ after[b].next = n
    <3>1. b = h => n = p
      BY <1>2, <2>1
    <3> QED
      BY <1>2, <1>6, <2>1, <2>3, <3>1
  <2>7. after[t].prev = h /\ after[h].next = t
    BY <1>2, <1>3, <1>4, <1>6
  <2>8. n = h => IndexOf(sizes, t) = IndexOf(sizes, n)
    BY <1>2
  <2>9. n = t => IndexOf(sizes, h) = IndexOf(sizes, n)
    BY <1>2
  <2> HIDE DEF a, b
  <2>10. /\ after[n].next \in Heads \union less /\ after[after[n].next].prev = n
         /\ IndexOf(sizes, after[n].next) = IndexOf(sizes, n)
    BY <1>2, <1>4, <1>5, <2>1, <2>2, <2>4, <2>5, <2>7, <2>8
  <2>11. /\ after[n].prev \in Heads \union less /\ after[after[n].prev].next = n
         /\ IndexOf(sizes, after[n].prev) = IndexOf(sizes, n)
    BY <1>2, <1>3, <1>5, <2>1, <2>3, <2>4, <2>6, <2>7, <2>9
  <2> QED
    BY <2>10, <2>11 DEF LinkSound
<1>8. ASSUME NEW S \in SUBSET less, S # {}
      PROVE  \E q \in S : after[q].prev \notin S
  <2>1. \A q \in S : q \in D \ {p}
    BY <1>2
  <2>2. CASE t \in S /\ h \in S
    <3>1. S \union {p} \in SUBSET K /\ S \union {p} # {}
      OBVIOUS
    <3>2. PICK q \in S \union {p} : links[q].prev \notin S \union {p}
      BY <3>1 DEF ListsInv
    <3>3. q # p /\ q # t
      BY <1>2, <2>2, <3>2 DEF h
    <3> QED
      BY <1>6, <2>1, <3>2, <3>3
  <2>3. CASE t \in S /\ h \notin S
    BY <1>6, <2>1, <2>3
  <2>4. CASE t \notin S
    <3> S \in SUBSET K
      OBVIOUS
    <3>1. PICK q \in S : links[q].prev \notin S
      BY <1>8 DEF ListsInv
    <3> QED
      BY <1>6, <2>1, <2>4, <3>1
  <2> QED
    BY <2>2, <2>3, <2>4
<1>9. ListsInv(after, sizes, less)
  <2>1. Heads \union less \subseteq DOMAIN after
    BY <1>2, <1>6
  <2>2. \A n \in Heads \union less : LinkSound(after, sizes, less, n)
    BY <1>5, <1>7
  <2> QED
    BY <1>8, <2>1, <2>2 DEF ListsInv
<1>10. ASSUME NEW n \in D \ N
       PROVE  after[n] = links[n]
  <2>1. n # h /\ n # t /\ n # p
    BY <1>2
  <2>2. after[n] \in Link /\ links[n] \in Link
    BY <1>6
  <2>3. after[n].next = links[n].next /\ after[n].prev = links[n].prev
    BY <1>6, <2>1
  <2> QED
    BY <2>2, <2>3 DEF Link
<1> QED
  BY <1>6, <1>9, <1>10 DEF after, TakenOut

(* The list the code counts as not empty begins with a kept block. *)
LEMMA FrontIsKept ==
  ASSUME NEW links, NEW sizes, NEW K, K \subseteq Place, ListsInv(links, sizes, K),
         \A q \in K : sizes[q] \in Int,
         NEW ix \in ListIdx, InList(sizes, K, ix) # {}
  PROVE  links[lst(ix)].next \in InList(sizes, K, ix)
<1> DEFINE h == lst(ix)
           L == InList(sizes, K, ix)
<1>1. h \in Heads /\ IndexOf(sizes, h) = ix /\ ix \in Int
  BY IndexFacts DEF IndexOf, ListIdx
<1>2. \A q \in K : IndexOf(sizes, q) = ix <=> q \in L
  BY <1>1, IndexFacts DEF IndexOf, InList
<1>3. L \in SUBSET K
  BY DEF InList
<1>4. \A n \in Heads : IndexOf(sizes, n) = ix => n = h
  BY <1>1, IndexFacts DEF IndexOf, h
<1> HIDE DEF h, L
<1>5. \A n \in Heads \union K : LinkSound(links, sizes, K, n)
  BY DEF ListsInv
<1>6. PICK q \in L : links[q].prev \notin L
  BY <1>3 DEF L, ListsInv
<1>7. links[q].prev = h /\ links[h].next = q
  BY <1>2, <1>3, <1>4, <1>5, <1>6 DEF LinkSound
<1> QED
  BY <1>6, <1>7 DEF L, h

(* The counts, when a block is put into a list or taken out. *)
LEMMA CountsStay ==
  ASSUME NEW counts, NEW sizes, NEW K, CountsInv(counts, sizes, K),
         NEW later, \A p \in K : later[p] = sizes[p]
  PROVE  CountsInv(counts, later, K)
<1>1. \A ix : InList(later, K, ix) = InList(sizes, K, ix)
  BY DEF InList
<1> QED
  BY <1>1 DEF CountsInv

LEMMA CountPushed ==
  ASSUME NEW counts, NEW sizes, NEW K, CountsInv(counts, sizes, K), IsFiniteSet(K),
         NEW p, p \notin K, NEW ix \in ListIdx, sizes[p] = ix + 1,
         ix < MaxCachedSize, counts[ix] < Limit(ix)
  PROVE  CountsInv([counts EXCEPT ![ix] = @ + 1], sizes, K \union {p})
<1> DEFINE after == [counts EXCEPT ![ix] = @ + 1]
           more == K \union {p}
<1>1. /\ counts \in [ListIdx -> Nat] /\ ix \in Nat /\ ix - 0 = ix /\ MaxCachedSize \in Nat
      /\ after \in [ListIdx -> Nat] /\ after[ix] = counts[ix] + 1
      /\ \A j \in ListIdx \ {ix} : after[j] = counts[j]
      /\ \A j \in ListIdx : j \in Nat
  BY LimitsAssumption DEF CountsInv, ListIdx
<1> HIDE DEF after
<1>2. ASSUME NEW j \in ListIdx \ {ix}
      PROVE  InList(sizes, more, j) = InList(sizes, K, j)
  <2>1. sizes[p] # j + 1
    BY <1>1
  <2> QED
    BY <2>1 DEF InList
<1>3. InList(sizes, more, ix) = InList(sizes, K, ix) \union {p}
  BY DEF InList
<1>4. Cardinality(InList(sizes, more, ix)) = counts[ix] + 1
  <2>1. IsFiniteSet(InList(sizes, K, ix)) /\ p \notin InList(sizes, K, ix)
    BY FS_Subset DEF InList
  <2> QED
    BY <1>3, <2>1, FS_AddElement DEF CountsInv
<1>5. after[ix] <= Limit(ix)
  BY <1>1, LimitsAssumption DEF Limit
<1>6. \A q \in more : sizes[q] - 1 \in 0 .. MaxCachedSize - 1
  BY <1>1 DEF CountsInv
<1> QED
  BY <1>1, <1>2, <1>4, <1>5, <1>6 DEF CountsInv, after

LEMMA CountRemoved ==
  ASSUME NEW counts, NEW sizes, NEW K, CountsInv(counts, sizes, K), IsFiniteSet(K),
         NEW ix \in ListIdx, NEW p \in InList(sizes, K, ix)
  PROVE  CountsInv([counts EXCEPT ![ix] = @ - 1], sizes, K \ {p})
<1> DEFINE after == [counts EXCEPT ![ix] = @ - 1]
           less == K \ {p}
           L == InList(sizes, K, ix)
<1>1. p \in K /\ sizes[p] = ix + 1 /\ ix \in Nat /\ \A j \in ListIdx : j \in Nat
  BY DEF InList, ListIdx
<1>2. InList(sizes, less, ix) = L \ {p}
  BY DEF InList
<1>3. \A j \in ListIdx \ {ix} : InList(sizes, less, j) = InList(sizes, K, j)
  BY <1>1 DEF InList
<1>4. IsFiniteSet(L) /\ Cardinality(L) = counts[ix] /\ counts[ix] \in Nat
  BY FS_Subset DEF InList, CountsInv
<1>5. Cardinality(L \ {p}) = counts[ix] - 1 /\ Cardinality(L \ {p}) \in Nat
  <2>1. Cardinality(L \ {p}) = Cardinality(L) - 1 /\ IsFiniteSet(L \ {p})
    BY <1>4, FS_RemoveElement
  <2> QED
    BY <1>4, <2>1, FS_CardinalityType
<1> HIDE DEF L
<1>6. /\ after \in [ListIdx -> Nat] /\ after[ix] = counts[ix] - 1
      /\ \A j \in ListIdx \ {ix} : after[j] = counts[j]
  BY <1>4, <1>5 DEF CountsInv
<1> HIDE DEF after
<1>7. \A j \in ListIdx : after[j] <= Limit(j)
  <2> TAKE j \in ListIdx
  <2>1. counts[j] <= Limit(j) /\ counts[j] \in Nat
    BY DEF CountsInv
  <2>2. Limit(j) \in Int
    BY LimitsAssumption DEF Limit
  <2> QED
    BY <1>6, <2>1, <2>2
<1> QED
  BY <1>2, <1>3, <1>5, <1>6, <1>7 DEF CountsInv, after

(* The statistics' balance: what comes from the OS, what goes back, what   *)
(* it refuses, and reservations that go back.                              *)
LEMMA BalanceKept ==
  ASSUME NEW a \in Int, NEW d \in Int, NEW c \in Int, NEW r \in Int, NEW f \in Int,
         NEW n \in Int, (a - d) % Width = (c + r - f) % Width
  PROVE  /\ (Count(a, n) - d) % Width = ((c + n) + r - f) % Width
         /\ (a - Count(d, n)) % Width = ((c - n) + r - f) % Width
         /\ (Count(a, n) - d) % Width = (c + Count(r, n) - f) % Width
         /\ (a - Count(d, n)) % Width = (c + r - Count(f, n)) % Width
<1> DEFINE x == a - d
           y == c + r - f
<1>1. x \in Int /\ y \in Int /\ -n \in Int /\ x % Width = y % Width
  OBVIOUS
<1>2. (Count(a, n) - d) % Width = (x + n) % Width
  BY CountedDifference
<1>3. (a - Count(d, n)) % Width = (x - n) % Width
  BY CountedDifference
<1> HIDE DEF x, y
<1>4. (x + n) % Width = (y + n) % Width
  <2>1. /\ ((x % Width) + n) % Width = (x + n) % Width
        /\ ((y % Width) + n) % Width = (y + n) % Width
    BY <1>1, ReducedTerm
  <2> QED
    BY <1>1, <2>1
<1>5. (x - n) % Width = (y - n) % Width
  <2>1. (x + (-n)) % Width = (y + (-n)) % Width
    <3> DEFINE m == -n
    <3> HIDE DEF m
    <3>1. m \in Int
      BY <1>1 DEF m
    <3>2. /\ ((x % Width) + m) % Width = (x + m) % Width
          /\ ((y % Width) + m) % Width = (y + m) % Width
      BY <1>1, <3>1, ReducedTerm
    <3> QED
      BY <1>1, <3>2 DEF m
  <2>2. x + (-n) = x - n /\ y + (-n) = y - n
    BY <1>1
  <2> QED
    BY <2>1, <2>2
<1>6. c - f \in Int /\ c + r \in Int /\ Count(r, n) \in Int /\ Count(f, n) \in Int
  <2>1. Count(r, n) \in Stat /\ Count(f, n) \in Stat
    BY Counted
  <2> QED
    BY <2>1, WidthAssumption DEF Stat
<1>7. (y + n) % Width = ((c + n) + r - f) % Width
  <2>1. y + n = (c + n) + r - f
    BY DEF y
  <2> QED
    BY <2>1
<1>8. (y - n) % Width = ((c - n) + r - f) % Width
  <2>1. y - n = (c - n) + r - f
    BY DEF y
  <2> QED
    BY <2>1
<1>9. (y + n) % Width = (c + Count(r, n) - f) % Width
  <2>1. (Count(r, n) + (c - f)) % Width = ((r + n) + (c - f)) % Width
    BY <1>6, Counted, ReducedTerm
  <2>2. Count(r, n) + (c - f) = c + Count(r, n) - f /\ (r + n) + (c - f) = y + n
    BY <1>6 DEF y
  <2> QED
    BY <2>1, <2>2
<1>10. (y - n) % Width = (c + r - Count(f, n)) % Width
  <2>1. ((c + r) - Count(f, n)) % Width = ((c + r) - (f + n)) % Width
    BY <1>6, Counted, ReducedTerm
  <2>2. (c + r) - (f + n) = y - n
    BY DEF y
  <2>3. ((c + r) - (f + n)) % Width = (y - n) % Width
    BY <2>2
  <2> QED
    BY <1>1, <1>6, <2>1, <2>3
<1> QED
  BY <1>2, <1>3, <1>4, <1>5, <1>7, <1>8, <1>9, <1>10

-----------------------------------------------------------------------------
(***************************************************************************)
(* The invariant is kept, action by action.                                *)
(***************************************************************************)
LEMMA CacheFacts ==
  ASSUME CacheInv
  PROVE  /\ Kept \subseteq Place /\ IsFiniteSet(Kept) /\ Kept \subseteq Blocks
         /\ Heads \union Blocks \in SUBSET Int /\ DOMAIN link = Heads \union Blocks
         /\ \A p \in Blocks : p \in Place /\ p \notin Heads /\ size[p] \in Nat \ {0}
<1>1. Kept \subseteq Blocks /\ Kept \subseteq Place /\ IsFiniteSet(Kept)
  BY FS_Subset DEF Kept, CacheInv, BlocksInv
<1> QED
  BY <1>1, IndexFacts DEF CacheInv, BlocksInv

LEMMA CacheKept ==
  ASSUME CacheInv, UNCHANGED <<link, count, size, held>>
  PROVE  CacheInv'
<1>1. Kept' = Kept /\ Blocks' = Blocks /\ Heads' = Heads
  BY DEF Kept, Blocks
<1>2. BlocksInv'
  BY <1>1 DEF CacheInv, BlocksInv
<1>3. ListsInv(link, size, Kept)'
  <2>1. \A n : LinkSound(link, size, Kept, n)' <=> LinkSound(link, size, Kept, n)
    BY <1>1 DEF LinkSound, IndexOf
  <2> QED
    BY <1>1, <2>1 DEF CacheInv, ListsInv
<1>4. CountsInv(count, size, Kept)'
  BY <1>1 DEF CacheInv, CountsInv, InList
<1> QED
  BY <1>2, <1>3, <1>4 DEF CacheInv

LEMMA MappedKept ==
  ASSUME IInv, size' = size, UNCHANGED <<raw, reserved, mapped>>
  PROVE  MappedInv(size, raw, reserved, mapped)'
BY DEF IInv, MappedInv, MapOf, Apart

(* What is mapped besides reservations. *)
LEMMA BlockPages ==
  ASSUME NEW got, NEW plain, NEW space, NEW pages,
         MappedInv(got, plain, space, pages)
  PROVE  /\ pages \ Plain!Covered(space) = Plain!Covered(got) \union Plain!Covered(plain)
         /\ IsFiniteSet(pages \ Plain!Covered(space))
         /\ Cardinality(pages \ Plain!Covered(space)) \in Nat
BY FS_Subset, FS_CardinalityType DEF MappedInv

(* A block, got in either way, comes from the OS.                          *)
LEMMA OSGives ==
  ASSUME NEW got, NEW plain, NEW space, NEW pages,
         MappedInv(got, plain, space, pages),
         NEW p \in Place, NEW n \in Nat \ {0},
         Plain!Extent(p, n) \intersect pages = {}
  PROVE  Cardinality((pages \union Plain!Extent(p, n)) \ Plain!Covered(space))
           = Cardinality(pages \ Plain!Covered(space)) + n
<1> DEFINE extent == Plain!Extent(p, n)
           blocks == pages \ Plain!Covered(space)
<1>1. Plain!Covered(space) \subseteq pages
  BY DEF MappedInv
<1>2. (pages \union extent) \ Plain!Covered(space) = blocks \union extent
  BY <1>1
<1>3. IsFiniteSet(blocks) /\ extent \intersect blocks = {}
  BY BlockPages
<1>4. Cardinality(blocks \union extent) = Cardinality(blocks) + n
  BY <1>3, PagesCounted
<1> QED
  BY <1>2, <1>4

(* And goes back to it. *)
LEMMA OSTakes ==
  ASSUME NEW got, NEW plain, NEW space, NEW pages,
         MappedInv(got, plain, space, pages), NEW p \in DOMAIN got
  PROVE  Cardinality((pages \ Plain!Extent(p, got[p])) \ Plain!Covered(space))
           = Cardinality(pages \ Plain!Covered(space)) - got[p]
<1> DEFINE extent == Plain!Extent(p, got[p])
           blocks == pages \ Plain!Covered(space)
<1>1. p \in Place /\ got[p] \in Nat \ {0} /\ extent \subseteq Plain!Covered(got)
  BY MappedShrinks
<1>2. extent \subseteq blocks /\ IsFiniteSet(blocks)
  BY <1>1, BlockPages
<1>3. (pages \ extent) \ Plain!Covered(space) = blocks \ extent
  OBVIOUS
<1>4. Cardinality(blocks \ extent) = Cardinality(blocks) - got[p]
  BY <1>1, <1>2, PagesCounted
<1> QED
  BY <1>3, <1>4

(* The statistics after a call to the OS. *)
LEMMA StatFacts ==
  ASSUME IInv
  PROVE  /\ allocRequest \in Int /\ deallocRequest \in Int
         /\ sysAlloc \in Int /\ sysDealloc \in Int
         /\ refused \in Int /\ committed \in Int /\ addressSpaceFreed \in Int
         /\ Cardinality(mapped \ Plain!Covered(reserved)) \in Int
         /\ Balanced
<1>1. Cardinality(mapped \ Plain!Covered(reserved)) \in Nat
  BY BlockPages DEF IInv
<1>2. Stat \subseteq Int
  BY WidthAssumption DEF Stat
<1>3. /\ allocRequest \in Stat /\ deallocRequest \in Stat
      /\ sysAlloc \in Stat /\ sysDealloc \in Stat
      /\ refused \in Stat /\ committed \in Stat /\ addressSpaceFreed \in Stat
  BY DEF IInv, StatTypes
<1>4. Balanced
  BY DEF IInv
<1> QED
  BY <1>1, <1>2, <1>3, <1>4

LEMMA StatTypesKept ==
  ASSUME IInv, NEW n \in Int,
         allocRequest' \in {allocRequest, Count(allocRequest, n)},
         deallocRequest' \in {deallocRequest, Count(deallocRequest, n)},
         sysAlloc' \in {sysAlloc, Count(sysAlloc, n)},
         sysDealloc' \in {sysDealloc, Count(sysDealloc, n)},
         refused' \in {refused, Count(refused, n)},
         committed' \in {committed, Count(committed, n)},
         addressSpaceFreed' \in {addressSpaceFreed, Count(addressSpaceFreed, n)}
  PROVE  StatTypes'
<1>1. \A x \in Int : Count(x, n) \in Stat
  BY Counted
<1>2. Stat' = Stat
  BY DEF Stat
<1>3. /\ allocRequest \in Stat /\ deallocRequest \in Stat
      /\ sysAlloc \in Stat /\ sysDealloc \in Stat
      /\ refused \in Stat /\ committed \in Stat /\ addressSpaceFreed \in Stat
  BY DEF IInv, StatTypes
<1>4. /\ Count(allocRequest, n) \in Stat /\ Count(deallocRequest, n) \in Stat
      /\ Count(sysAlloc, n) \in Stat /\ Count(sysDealloc, n) \in Stat
      /\ Count(refused, n) \in Stat /\ Count(committed, n) \in Stat
      /\ Count(addressSpaceFreed, n) \in Stat
  BY <1>1, StatFacts
<1>5. /\ allocRequest' \in Stat /\ deallocRequest' \in Stat
      /\ sysAlloc' \in Stat /\ sysDealloc' \in Stat
  BY <1>3, <1>4
<1>6. refused' \in Stat /\ committed' \in Stat /\ addressSpaceFreed' \in Stat
  BY <1>3, <1>4
<1> QED
  BY <1>2, <1>5, <1>6 DEF StatTypes

LEMMA BalancedKept ==
  ASSUME IInv, UNCHANGED <<sysAlloc, sysDealloc, refused, addressSpaceFreed,
                           mapped, reserved>>
  PROVE  Balanced'
BY DEF IInv, Balanced

(* What comes from the OS, or goes back to it, is counted. *)
LEMMA BalancedCounts ==
  ASSUME IInv, NEW n \in Int,
         \/ /\ sysAlloc' = Count(sysAlloc, n)
            /\ UNCHANGED <<sysDealloc, refused, addressSpaceFreed>>
            /\ Cardinality(mapped \ Plain!Covered(reserved))'
                 = Cardinality(mapped \ Plain!Covered(reserved)) + n
         \/ /\ sysDealloc' = Count(sysDealloc, n)
            /\ UNCHANGED <<sysAlloc, refused, addressSpaceFreed>>
            /\ Cardinality(mapped \ Plain!Covered(reserved))'
                 = Cardinality(mapped \ Plain!Covered(reserved)) - n
         \/ /\ sysAlloc' = Count(sysAlloc, n)
            /\ refused' = Count(refused, n)
            /\ UNCHANGED <<sysDealloc, addressSpaceFreed>>
            /\ Cardinality(mapped \ Plain!Covered(reserved))'
                 = Cardinality(mapped \ Plain!Covered(reserved))
         \/ /\ sysDealloc' = Count(sysDealloc, n)
            /\ addressSpaceFreed' = Count(addressSpaceFreed, n)
            /\ UNCHANGED <<sysAlloc, refused>>
            /\ Cardinality(mapped \ Plain!Covered(reserved))'
                 = Cardinality(mapped \ Plain!Covered(reserved))
  PROVE  Balanced'
<1> DEFINE c == Cardinality(mapped \ Plain!Covered(reserved))
<1>1. /\ sysAlloc \in Int /\ sysDealloc \in Int /\ c \in Int
      /\ refused \in Int /\ addressSpaceFreed \in Int
      /\ (sysAlloc - sysDealloc) % Width = (c + refused - addressSpaceFreed) % Width
  BY StatFacts DEF Balanced
<1>2. Balanced' <=> (sysAlloc' - sysDealloc') % Width
                      = (c' + refused' - addressSpaceFreed') % Width
  BY DEF Balanced
<1> HIDE DEF c
<1> DEFINE Sum(a, d, r, f, m) == (a - d) % Width = (m + r - f) % Width
<1>3. \A a, d, r, f \in Int :
        Sum(a, d, r, f, c) =>
          /\ Sum(Count(a, n), d, r, f, c + n)
          /\ Sum(a, Count(d, n), r, f, c - n)
          /\ Sum(Count(a, n), d, Count(r, n), f, c)
          /\ Sum(a, Count(d, n), r, Count(f, n), c)
  <2> TAKE a, d, r, f \in Int
  <2> HAVE Sum(a, d, r, f, c)
  <2> QED
    BY <1>1, BalanceKept
<1>4. Sum(sysAlloc, sysDealloc, refused, addressSpaceFreed, c)
  BY <1>1
<1>5. Balanced' <=> Sum(sysAlloc', sysDealloc', refused', addressSpaceFreed', c')
  BY <1>2
<1> HIDE DEF Sum
<1>6. /\ Sum(Count(sysAlloc, n), sysDealloc, refused, addressSpaceFreed, c + n)
      /\ Sum(sysAlloc, Count(sysDealloc, n), refused, addressSpaceFreed, c - n)
      /\ Sum(Count(sysAlloc, n), sysDealloc, Count(refused, n), addressSpaceFreed, c)
      /\ Sum(sysAlloc, Count(sysDealloc, n), refused, Count(addressSpaceFreed, n), c)
  BY <1>1, <1>3, <1>4
<1>7. CASE /\ sysAlloc' = Count(sysAlloc, n) /\ c' = c + n
           /\ UNCHANGED <<sysDealloc, refused, addressSpaceFreed>>
  BY <1>5, <1>6, <1>7
<1>8. CASE /\ sysDealloc' = Count(sysDealloc, n) /\ c' = c - n
           /\ UNCHANGED <<sysAlloc, refused, addressSpaceFreed>>
  BY <1>5, <1>6, <1>8
<1>9. CASE /\ sysAlloc' = Count(sysAlloc, n) /\ refused' = Count(refused, n)
           /\ c' = c /\ UNCHANGED <<sysDealloc, addressSpaceFreed>>
  BY <1>5, <1>6, <1>9
<1>10. CASE /\ sysDealloc' = Count(sysDealloc, n) /\ c' = c
            /\ addressSpaceFreed' = Count(addressSpaceFreed, n)
            /\ UNCHANGED <<sysAlloc, refused>>
  BY <1>5, <1>6, <1>10
<1> QED
  BY <1>7, <1>8, <1>9, <1>10 DEF c

(* The front of a list counted as not empty. *)
LEMMA FrontFacts ==
  ASSUME CacheInv, NEW ix \in ListIdx, count[ix] # 0
  PROVE  /\ front(ix) \in InList(size, Kept, ix)
         /\ front(ix) \in Kept /\ size[front(ix)] = ix + 1
<1>1. InList(size, Kept, ix) # {}
  BY FS_EmptySet DEF CacheInv, CountsInv
<1>2. \A q \in Kept : size[q] \in Int
  BY CacheFacts
<1>3. front(ix) \in InList(size, Kept, ix)
  BY <1>1, <1>2, CacheFacts, FrontIsKept DEF CacheInv, front
<1> QED
  BY <1>3 DEF InList

(* The lists and headers of a state, with a block taken out or put in. *)
LEMMA Unlisted ==
  ASSUME CacheInv, NEW p \in Kept
  PROVE  LET after == removeFromList(link, p)
         IN  /\ after \in [Heads \union Blocks -> Link] /\ after[p] = Unlinked
             /\ ListsInv(after, size, Kept \ {p})
             /\ \A n \in (Heads \union Blocks) \ (Heads \union Kept) :
                  after[n] = link[n]
<1> DEFINE D == Heads \union Blocks
           after == removeFromList(link, p)
<1> DEFINE K == Kept
<1>1. /\ D \in SUBSET Int /\ link \in [D -> Link]
      /\ K \subseteq Place /\ ListsInv(link, size, K) /\ p \in K
  BY CacheFacts DEF CacheInv, BlocksInv
<1> HIDE DEF D, K
<1>2. TakenOut(D, link, size, K, p, after)
  BY <1>1, Removed
<1> QED
  BY <1>2 DEF TakenOut, D, K

LEMMA Listed ==
  ASSUME CacheInv, NEW p \in Blocks \ Kept, NEW ix \in ListIdx, size[p] = ix + 1
  PROVE  LET after == listInsertNext(link, lst(ix), p)
         IN  /\ after \in [Heads \union Blocks -> Link]
             /\ ListsInv(after, size, Kept \union {p})
             /\ \A n \in (Heads \union Blocks) \ (Heads \union Kept \union {p}) :
                  after[n] = link[n]
<1> DEFINE D == Heads \union Blocks
           after == listInsertNext(link, lst(ix), p)
<1>1. /\ D \in SUBSET Int /\ link \in [D -> Link] /\ p \in D /\ p \in Place \ Kept
      /\ Kept \subseteq Place /\ ListsInv(link, size, Kept)
  BY CacheFacts DEF CacheInv, BlocksInv
<1> DEFINE K == Kept
<1> HIDE DEF D, K
<1>2. ListsInv(after, size, K \union {p}) /\ after \in [D -> Link]
  <2>1. /\ D \in SUBSET Int /\ link \in [D -> Link] /\ p \in D /\ p \in Place \ K
        /\ K \subseteq Place /\ ListsInv(link, size, K)
    BY <1>1 DEF K
  <2> QED
    BY <2>1, Pushed
<1> DEFINE h == lst(ix)
           t == link[h].next
<1>3. h \in Heads /\ t \in Heads \union Kept
  <2>1. h \in Heads
    BY IndexFacts
  <2> QED
    BY <1>1, <2>1 DEF ListsInv, LinkSound
<1>4. h \in D /\ t \in D /\ p # h /\ p # t /\ p \notin Heads
  BY <1>1, <1>3, CacheFacts DEF D
<1> HIDE DEF h
<1>5. \A n \in D \ {p} : /\ after[n].next = IF n = h THEN p ELSE link[n].next
                         /\ after[n].prev = IF n = t THEN p ELSE link[n].prev
  <2>1. /\ D \in SUBSET Int /\ link \in [D -> Link] /\ h \in D /\ p \in D
        /\ link[h].next \in D /\ p # h /\ p # link[h].next
    BY <1>1, <1>4
  <2>2. \A n \in D \ {p} :
          /\ listInsertNext(link, h, p)[n].next = IF n = h THEN p ELSE link[n].next
          /\ listInsertNext(link, h, p)[n].prev
               = IF n = link[h].next THEN p ELSE link[n].prev
    BY <2>1, InsertedLinks
  <2> QED
    BY <2>2 DEF h
<1> HIDE DEF after, t
<1>6. ASSUME NEW n \in D \ (Heads \union Kept \union {p})
      PROVE  after[n] = link[n]
  <2>0. n \in D \ {p} /\ n # h /\ n # t
    BY <1>3
  <2>1. after[n].next = link[n].next /\ after[n].prev = link[n].prev
    BY <1>5, <2>0
  <2>2. after[n] \in Link /\ link[n] \in Link
    BY <1>1, <1>2
  <2> QED
    BY <2>1, <2>2 DEF Link
<1> QED
  BY <1>2, <1>6 DEF D, K, after, h

LEMMA CachedStep ==
  ASSUME IInv, NEW sz \in Size, getFreeBlockCached(sz)
  PROVE  IInv' /\ size' = size /\ front(sz - 1) \in Kept /\ size[front(sz - 1)] = sz
<1> DEFINE ix == sz - 1
           p == front(ix)
<1>1. ix \in ListIdx /\ sz = ix + 1 /\ sz \in Nat \ {0} /\ count[ix] # 0
  BY PlacesAssumption, LimitsAssumption DEF getFreeBlockCached, Cached, ListIdx
<1>2. p \in InList(size, Kept, ix) /\ p \in Kept /\ size[p] = sz
  BY <1>1, FrontFacts DEF IInv
<1>3. /\ link' = removeFromList(link, p)
      /\ count' = [count EXCEPT ![ix] = @ - 1]
      /\ held' = Plain!With(held, p, sz)
      /\ size' = [size EXCEPT ![p] = sz]
  BY DEF getFreeBlockCached, popFront
<1> HIDE DEF p, ix
<1>4. size' = size
  BY <1>2, <1>3 DEF IInv, CacheInv, BlocksInv
<1>5. /\ DOMAIN held' = DOMAIN held \union {p}
      /\ held'[p] = sz /\ \A q \in DOMAIN held \ {p} : held'[q] = held[q]
      /\ held' \in [DOMAIN held' -> Nat \ {0}]
  BY <1>1, <1>3 DEF Plain!With, IInv, CacheInv, BlocksInv
<1>6. Kept' = Kept \ {p}
  BY <1>4, <1>5 DEF Kept, Blocks
<1>7. /\ link' \in [Heads \union Blocks -> Link] /\ link'[p] = Unlinked
      /\ ListsInv(link', size, Kept \ {p})
      /\ \A n \in (Heads \union Blocks) \ (Heads \union Kept) : link'[n] = link[n]
  BY <1>2, <1>3, Unlisted DEF IInv
<1>8. BlocksInv'
  <2>1. DOMAIN held' \subseteq Blocks /\ Blocks' = Blocks
    BY <1>2, <1>4, <1>5 DEF Kept, Blocks, IInv, CacheInv, BlocksInv
  <2>2. ASSUME NEW q \in DOMAIN held'
        PROVE  held'[q] = size[q] /\ link'[q] = Unlinked
    <3>1. CASE q = p
      BY <1>2, <1>5, <1>7, <3>1
    <3>2. CASE q # p
      <4>1. q \in DOMAIN held /\ q \in Blocks /\ q \notin Kept /\ q \notin Heads
        BY <1>5, <2>1, <3>2, CacheFacts DEF Kept, IInv
      <4> QED
        BY <1>5, <1>7, <3>2, <4>1 DEF IInv, CacheInv, BlocksInv
    <3> QED
      BY <3>1, <3>2
  <2> QED
    BY <1>4, <1>5, <1>7, <2>1, <2>2 DEF IInv, CacheInv, BlocksInv
<1>9. CountsInv(count', size, Kept \ {p})
  BY <1>1, <1>2, <1>3, CacheFacts, CountRemoved DEF IInv, CacheInv
<1>10. CacheInv'
  BY <1>4, <1>6, <1>7, <1>8, <1>9 DEF CacheInv
<1>11. MappedInv(size, raw, reserved, mapped)'
  BY <1>4, MappedKept DEF getFreeBlockCached
<1>12. StatTypes'
  BY <1>1, StatTypesKept DEF getFreeBlockCached, history
<1>13. Balanced'
  BY BalancedKept DEF getFreeBlockCached, history
<1> QED
  BY <1>2, <1>4, <1>10, <1>11, <1>12, <1>13 DEF IInv, p, ix

(* What the OS may answer. *)
LEMMA OSBlock ==
  ASSUME IInv, NEW p \in Place, NEW n \in Nat \ {0}, OSAllocate(p, n)
  PROVE  /\ Plain!Extent(p, n) \intersect mapped = {}
         /\ mapped' = mapped \union Plain!Extent(p, n)
BY DEF OSAllocate

LEMMA FromOSStep ==
  ASSUME IInv, NEW sz \in Size, getFreeBlockFromOS(sz)
  PROVE  IInv'
<1>1. PICK p \in Place :
        /\ Plain!Extent(p, sz) \intersect mapped = {}
        /\ mapped' = mapped \union Plain!Extent(p, sz)
        /\ link' = [n \in DOMAIN link \union {p} |->
                      IF n = p THEN Unlinked ELSE link[n]]
        /\ size' = Plain!With(size, p, sz)
        /\ held' = Plain!With(held, p, sz)
  BY DEF getFreeBlockFromOS, OSAllocate
<1>2. sz \in Nat \ {0}
  BY PlacesAssumption
<1>3. MappedInv(size, raw, reserved, mapped)
  BY DEF IInv
<1>4. /\ p \notin Blocks
      /\ MappedInv(Plain!With(size, p, sz), raw, reserved,
                   mapped \union Plain!Extent(p, sz))
  BY <1>1, <1>2, <1>3, MappedGrows DEF Blocks
<1>5. /\ Blocks' = Blocks \union {p} /\ size'[p] = sz
      /\ \A q \in Blocks : size'[q] = size[q]
      /\ size' \in [Blocks' -> Nat \ {0}]
  BY <1>1, <1>2, <1>4 DEF Plain!With, Blocks, IInv, CacheInv, BlocksInv
<1>6. /\ DOMAIN held' = DOMAIN held \union {p} /\ held'[p] = sz
      /\ \A q \in DOMAIN held : held'[q] = held[q]
      /\ held' \in [DOMAIN held' -> Nat \ {0}] /\ DOMAIN held \subseteq Blocks
  BY <1>1, <1>2, <1>4 DEF Plain!With, Blocks, IInv, CacheInv, BlocksInv
<1>7. Kept' = Kept
  BY <1>4, <1>5, <1>6 DEF Kept
<1>8. /\ DOMAIN link = Heads \union Blocks /\ p \notin Heads
      /\ Kept \subseteq Place /\ Kept \subseteq Blocks /\ p \notin Kept
  BY <1>4, IndexFacts, CacheFacts DEF IInv
<1>9. /\ link' \in [Heads \union Blocks' -> Link]
      /\ link'[p] = Unlinked /\ \A n \in Heads \union Blocks : link'[n] = link[n]
  <2>1. Unlinked \in Link
    BY DEF Unlinked, Link, null
  <2>2. link \in [Heads \union Blocks -> Link] /\ p \notin Heads \union Blocks
    BY <1>4, <1>8 DEF IInv, CacheInv, BlocksInv
  <2>3. Heads \union Blocks' = DOMAIN link \union {p}
    BY <1>5, <1>8
  <2> QED
    BY <1>1, <2>1, <2>2, <2>3
<1>10. BlocksInv'
  <2>1. Blocks' \subseteq Place /\ IsFiniteSet(Blocks')
    BY <1>5, FS_AddElement DEF IInv, CacheInv, BlocksInv
  <2>2. \A q \in DOMAIN held' : held'[q] = size'[q] /\ link'[q] = Unlinked
    BY <1>5, <1>6, <1>9 DEF IInv, CacheInv, BlocksInv
  <2>3. DOMAIN held' \subseteq Blocks' /\ Heads' = Heads
    BY <1>5, <1>6
  <2> QED
    BY <1>5, <1>6, <1>9, <2>1, <2>2, <2>3 DEF BlocksInv
<1>11. ListsInv(link', size', Kept)
  <2>1. Heads \union Kept \subseteq DOMAIN link'
    BY <1>5, <1>8, <1>9
  <2> QED
    BY <1>5, <1>8, <1>9, <2>1, ListsStay DEF IInv, CacheInv
<1>12. CountsInv(count', size', Kept)
  BY <1>5, <1>8, CountsStay DEF IInv, CacheInv, getFreeBlockFromOS
<1>13. CacheInv'
  BY <1>7, <1>10, <1>11, <1>12 DEF CacheInv
<1>14. MappedInv(size, raw, reserved, mapped)'
  BY <1>1, <1>4 DEF getFreeBlockFromOS
<1>15. StatTypes'
  BY <1>2, StatTypesKept DEF getFreeBlockFromOS, SysAlloc, history
<1>16. Balanced'
  <2>1. Cardinality(mapped \ Plain!Covered(reserved))'
          = Cardinality(mapped \ Plain!Covered(reserved)) + sz
    BY <1>1, <1>2, <1>3, OSGives DEF getFreeBlockFromOS
  <2> QED
    BY <1>2, <2>1, BalancedCounts DEF getFreeBlockFromOS, SysAlloc, history
<1> QED
  BY <1>13, <1>14, <1>15, <1>16 DEF IInv

LEMMA NoCacheStep ==
  ASSUME IInv, NEW sz \in Size, getFreeBlockNoCache(sz)
  PROVE  IInv'
<1>1. PICK p \in Place :
        /\ Plain!Extent(p, sz) \intersect mapped = {}
        /\ mapped' = mapped \union Plain!Extent(p, sz)
        /\ raw' = Plain!With(raw, p, sz)
  BY DEF getFreeBlockNoCache, OSAllocate
<1>2. sz \in Nat \ {0}
  BY PlacesAssumption
<1>3. MappedInv(size, raw, reserved, mapped) /\ MappedInv(raw, size, reserved, mapped)
  BY KindsSwap DEF IInv
<1>4. MappedInv(Plain!With(raw, p, sz), size, reserved,
                mapped \union Plain!Extent(p, sz))
  BY <1>1, <1>2, <1>3, MappedGrows
<1>5. MappedInv(size, Plain!With(raw, p, sz), reserved,
                mapped \union Plain!Extent(p, sz))
  BY <1>4, KindsSwap
<1>6. MappedInv(size, raw, reserved, mapped)'
  BY <1>1, <1>5 DEF getFreeBlockNoCache, lists
<1>7. CacheInv'
  BY CacheKept DEF IInv, getFreeBlockNoCache, lists
<1>8. StatTypes'
  BY <1>2, StatTypesKept DEF getFreeBlockNoCache, SysAlloc, history
<1>9. Balanced'
  <2>1. Cardinality(mapped \ Plain!Covered(reserved))'
          = Cardinality(mapped \ Plain!Covered(reserved)) + sz
    BY <1>1, <1>2, <1>3, OSGives DEF getFreeBlockNoCache
  <2> QED
    BY <1>2, <2>1, BalancedCounts DEF getFreeBlockNoCache, SysAlloc, history
<1> QED
  BY <1>6, <1>7, <1>8, <1>9 DEF IInv

LEMMA RefusedStep ==
  ASSUME IInv, NEW sz \in Size, getFreeBlockRefused(sz)
  PROVE  IInv'
<1>1. sz \in Int
  BY PlacesAssumption
<1>2. CacheInv'
  BY CacheKept DEF IInv, getFreeBlockRefused, lists
<1>3. MappedInv(size, raw, reserved, mapped)'
  BY MappedKept DEF getFreeBlockRefused, lists
<1>4. StatTypes'
  BY <1>1, StatTypesKept DEF getFreeBlockRefused, SysAlloc
<1>5. Balanced'
  <2>1. Cardinality(mapped \ Plain!Covered(reserved))'
          = Cardinality(mapped \ Plain!Covered(reserved))
    BY DEF getFreeBlockRefused
  <2> QED
    BY <1>1, <2>1, BalancedCounts DEF getFreeBlockRefused, SysAlloc
<1> QED
  BY <1>2, <1>3, <1>4, <1>5 DEF IInv

LEMMA CommitStep ==
  ASSUME IInv, NEW sz \in Size, CommitMemory(sz)
  PROVE  IInv'
<1>1. sz \in Int
  BY PlacesAssumption
<1>2. CacheInv'
  BY CacheKept DEF IInv, CommitMemory, lists
<1>3. MappedInv(size, raw, reserved, mapped)'
  BY MappedKept DEF CommitMemory, lists
<1>4. StatTypes'
  BY <1>1, StatTypesKept DEF CommitMemory
<1>5. Balanced'
  BY BalancedKept DEF CommitMemory
<1> QED
  BY <1>2, <1>3, <1>4, <1>5 DEF IInv

LEMMA KeptStep ==
  ASSUME IInv, NEW p \in Place, freeChunkKept(p)
  PROVE  IInv' /\ size[p] \in Nat \ {0} /\ held[p] = size[p]
<1> DEFINE ix == size[p] - 1
<1>1. p \in DOMAIN held /\ p \in Blocks /\ size[p] \in Nat \ {0} /\ held[p] = size[p]
  BY DEF freeChunkKept, IInv, CacheInv, BlocksInv
<1>2. /\ ix \in Int /\ size[p] = ix + 1 /\ ix \in ListIdx
      /\ ix < MaxCachedSize /\ count[ix] < Limit(ix)
  BY <1>1, LimitsAssumption DEF freeChunkKept, Room, Limit, ListIdx
<1>3. /\ link' = listInsertNext(link, lst(ix), p)
      /\ count' = [count EXCEPT ![ix] = @ + 1]
      /\ held' = Plain!Without(held, p)
      /\ size' = size
  BY DEF freeChunkKept, pushFront
<1> HIDE DEF ix
<1>4. /\ DOMAIN held' = DOMAIN held \ {p}
      /\ \A q \in DOMAIN held' : held'[q] = held[q]
      /\ held' \in [DOMAIN held' -> Nat \ {0}]
  BY <1>3 DEF Plain!Without, IInv, CacheInv, BlocksInv
<1>5. Kept' = Kept \union {p} /\ p \notin Kept
  BY <1>1, <1>3, <1>4 DEF Kept, Blocks
<1>6. /\ link' \in [Heads \union Blocks -> Link]
      /\ ListsInv(link', size, Kept \union {p})
      /\ \A n \in (Heads \union Blocks) \ (Heads \union Kept \union {p}) :
           link'[n] = link[n]
  BY <1>1, <1>2, <1>3, <1>5, Listed DEF IInv
<1>7. BlocksInv'
  <2>1. DOMAIN held' \subseteq Blocks /\ Blocks' = Blocks
    BY <1>3, <1>4 DEF Blocks, IInv, CacheInv, BlocksInv
  <2>2. ASSUME NEW q \in DOMAIN held'
        PROVE  held'[q] = size[q] /\ link'[q] = Unlinked
    <3>1. q \in DOMAIN held /\ q \in Blocks /\ q \notin Kept /\ q \notin Heads /\ q # p
      BY <1>4, <2>1, CacheFacts DEF Kept, IInv
    <3> QED
      BY <1>4, <1>6, <3>1 DEF IInv, CacheInv, BlocksInv
  <2> QED
    BY <1>3, <1>4, <1>6, <2>1, <2>2 DEF IInv, CacheInv, BlocksInv
<1>8. CountsInv(count', size, Kept \union {p})
  BY <1>2, <1>3, <1>5, CacheFacts, CountPushed DEF IInv, CacheInv
<1>9. CacheInv'
  BY <1>3, <1>5, <1>6, <1>7, <1>8 DEF CacheInv
<1>10. MappedInv(size, raw, reserved, mapped)'
  BY <1>3, MappedKept DEF freeChunkKept
<1>11. StatTypes'
  BY <1>1, StatTypesKept DEF freeChunkKept, history
<1>12. Balanced'
  BY BalancedKept DEF freeChunkKept, history
<1> QED
  BY <1>1, <1>9, <1>10, <1>11, <1>12 DEF IInv

(* A block that leaves for the OS, out of the lists already. *)
LEMMA BlockGone ==
  ASSUME CacheInv, NEW p \in Blocks, NEW links, NEW K, NEW counts,
         links \in [Heads \union Blocks -> Link], ListsInv(links, size, K),
         CountsInv(counts, size, K), K = Kept \ {p},
         \A n \in DOMAIN held \ {p} : links[n] = link[n],
         held' = Plain!Without(held, p), size' = Plain!Without(size, p),
         link' = Plain!Without(links, p), count' = counts
  PROVE  CacheInv'
<1>1. /\ Blocks' = Blocks \ {p} /\ \A q \in Blocks' : size'[q] = size[q]
      /\ size' \in [Blocks' -> Nat \ {0}]
  BY DEF Plain!Without, CacheInv, BlocksInv, Blocks
<1>2. /\ DOMAIN held' = DOMAIN held \ {p}
      /\ \A q \in DOMAIN held' : held'[q] = held[q]
      /\ held' \in [DOMAIN held' -> Nat \ {0}]
  BY DEF Plain!Without, CacheInv, BlocksInv
<1>3. Kept' = K /\ p \notin K /\ p \notin Heads /\ K \subseteq Place
  BY <1>1, <1>2, CacheFacts DEF Kept
<1>4. /\ link' \in [Heads \union Blocks' -> Link]
      /\ \A n \in Heads \union Blocks' : link'[n] = links[n]
  BY <1>1, <1>3 DEF Plain!Without
<1>5. BlocksInv'
  <2>1. Blocks' \subseteq Place /\ IsFiniteSet(Blocks')
    BY <1>1, FS_Subset DEF CacheInv, BlocksInv
  <2>2. DOMAIN held' \subseteq Blocks' /\ Heads' = Heads
    BY <1>1, <1>2 DEF CacheInv, BlocksInv
  <2>3. \A q \in DOMAIN held' : held'[q] = size'[q] /\ link'[q] = Unlinked
    BY <1>1, <1>2, <1>4, <2>2 DEF CacheInv, BlocksInv
  <2> QED
    BY <1>1, <1>2, <1>4, <2>1, <2>2, <2>3 DEF BlocksInv
<1>6. K \subseteq Blocks'
  BY <1>1, CacheFacts
<1>7. ListsInv(link', size', K)
  <2>1. Heads \union K \subseteq DOMAIN link'
    BY <1>4, <1>6
  <2> QED
    BY <1>1, <1>3, <1>4, <1>6, <2>1, ListsStay
<1>8. CountsInv(count', size', K)
  BY <1>1, <1>6, CountsStay
<1> QED
  BY <1>3, <1>5, <1>7, <1>8 DEF CacheInv

(* The statistics and the map of pages after a block of the lists' goes. *)
LEMMA PagesGone ==
  ASSUME IInv, NEW p \in Blocks, OSDeallocate(p, size[p]),
         size' = Plain!Without(size, p), UNCHANGED <<raw, reserved>>,
         sysDealloc' = Count(sysDealloc, size[p]),
         UNCHANGED <<sysAlloc, refused, addressSpaceFreed>>
  PROVE  MappedInv(size, raw, reserved, mapped)' /\ Balanced' /\ size[p] \in Nat \ {0}
<1>1. MappedInv(size, raw, reserved, mapped) /\ p \in DOMAIN size
  BY DEF IInv, Blocks
<1>2. /\ MappedInv(Plain!Without(size, p), raw, reserved,
                   mapped \ Plain!Extent(p, size[p]))
      /\ size[p] \in Nat \ {0}
  BY <1>1, MappedShrinks
<1>3. Cardinality(mapped \ Plain!Covered(reserved))'
        = Cardinality(mapped \ Plain!Covered(reserved)) - size[p]
  BY <1>1, OSTakes DEF OSDeallocate
<1>4. Balanced'
  <2> DEFINE n == size[p]
  <2>1. /\ n \in Int /\ sysDealloc' = Count(sysDealloc, n)
        /\ Cardinality(mapped \ Plain!Covered(reserved))'
             = Cardinality(mapped \ Plain!Covered(reserved)) - n
    BY <1>2, <1>3
  <2> HIDE DEF n
  <2> QED
    BY <2>1, BalancedCounts
<1> QED
  BY <1>2, <1>4 DEF OSDeallocate

LEMMA ToOSStep ==
  ASSUME IInv, NEW p \in Place, freeChunkToOS(p)
  PROVE  IInv' /\ size[p] \in Nat \ {0} /\ held[p] = size[p]
<1>1. /\ p \in DOMAIN held /\ p \in Blocks /\ p \notin Kept
      /\ size[p] \in Nat \ {0} /\ held[p] = size[p]
  BY DEF freeChunkToOS, IInv, CacheInv, BlocksInv, Kept
<1>2. CacheInv'
  <2>1. /\ Kept = Kept \ {p} /\ link \in [Heads \union Blocks -> Link]
        /\ ListsInv(link, size, Kept) /\ CountsInv(count, size, Kept) /\ CacheInv
    BY <1>1 DEF IInv, CacheInv, BlocksInv
  <2>2. /\ link' = Plain!Without(link, p) /\ size' = Plain!Without(size, p)
        /\ held' = Plain!Without(held, p) /\ count' = count
    BY DEF freeChunkToOS
  <2> QED
    BY <1>1, <2>1, <2>2, BlockGone
<1>3. MappedInv(size, raw, reserved, mapped)' /\ Balanced'
  BY <1>1, PagesGone DEF freeChunkToOS, history
<1>4. StatTypes'
  BY <1>1, StatTypesKept DEF freeChunkToOS, history
<1> QED
  BY <1>1, <1>2, <1>3, <1>4 DEF IInv

LEMMA FreeNextStep ==
  ASSUME IInv, freeNextCached
  PROVE  IInv'
<1>1. PICK ix \in ListIdx :
        LET p == front(ix)
        IN  /\ count[ix] # 0
            /\ link' = Plain!Without(removeFromList(link, p), p)
            /\ count' = [count EXCEPT ![ix] = @ - 1]
            /\ size' = Plain!Without(size, p)
            /\ OSDeallocate(p, size[p])
            /\ sysDealloc' = Count(sysDealloc, size[p])
  BY DEF freeNextCached
<1> DEFINE p == front(ix)
           links == removeFromList(link, p)
           counts == [count EXCEPT ![ix] = @ - 1]
<1>2. /\ p \in InList(size, Kept, ix) /\ p \in Kept
      /\ p \in Blocks /\ p \notin DOMAIN held
  BY <1>1, FrontFacts, CacheFacts DEF IInv, Kept
<1>3. /\ link' = Plain!Without(links, p) /\ count' = counts
      /\ size' = Plain!Without(size, p) /\ OSDeallocate(p, size[p])
      /\ sysDealloc' = Count(sysDealloc, size[p])
      /\ held' = held /\ UNCHANGED <<raw, reserved, sysAlloc, refused, addressSpaceFreed>>
      /\ UNCHANGED <<allocRequest, deallocRequest, committed>>
  BY <1>1 DEF freeNextCached, history
<1> HIDE DEF p
<1>4. /\ links \in [Heads \union Blocks -> Link]
      /\ ListsInv(links, size, Kept \ {p})
      /\ \A n \in (Heads \union Blocks) \ (Heads \union Kept) : links[n] = link[n]
  BY <1>2, Unlisted DEF IInv
<1>5. CountsInv(counts, size, Kept \ {p})
  BY <1>2, CacheFacts, CountRemoved DEF IInv, CacheInv
<1>6. held' = Plain!Without(held, p)
  <2>1. held = [q \in DOMAIN held |-> held[q]] /\ DOMAIN held \ {p} = DOMAIN held
    BY <1>2 DEF IInv, CacheInv, BlocksInv
  <2> QED
    BY <1>3, <2>1 DEF Plain!Without
<1>7. \A n \in DOMAIN held \ {p} : links[n] = link[n]
  <2>1. \A n \in DOMAIN held : n \in Blocks /\ n \notin Kept /\ n \notin Heads
    BY CacheFacts DEF IInv, CacheInv, BlocksInv, Kept
  <2> QED
    BY <1>4, <2>1
<1> HIDE DEF links, counts
<1>8. CacheInv'
  BY <1>2, <1>3, <1>4, <1>5, <1>6, <1>7, BlockGone DEF IInv
<1>9. MappedInv(size, raw, reserved, mapped)' /\ Balanced' /\ size[p] \in Nat \ {0}
  BY <1>2, <1>3, PagesGone
<1>10. StatTypes'
  BY <1>3, <1>9, StatTypesKept
<1> QED
  BY <1>8, <1>9, <1>10 DEF IInv

LEMMA FreeNoCacheStep ==
  ASSUME IInv, NEW p \in Place, freeChunkNoCache(p)
  PROVE  IInv' /\ raw[p] \in Nat \ {0}
<1>1. /\ p \in DOMAIN raw /\ MappedInv(raw, size, reserved, mapped)
      /\ mapped' = mapped \ Plain!Extent(p, raw[p])
      /\ raw' = Plain!Without(raw, p)
  BY KindsSwap DEF IInv, freeChunkNoCache, OSDeallocate
<1>2. /\ MappedInv(raw', size, reserved, mapped') /\ raw[p] \in Nat \ {0}
  BY <1>1, MappedShrinks
<1>3. MappedInv(size, raw, reserved, mapped)'
  BY <1>2, KindsSwap DEF freeChunkNoCache, lists
<1>4. CacheInv'
  BY CacheKept DEF IInv, freeChunkNoCache, lists
<1>5. StatTypes'
  BY <1>2, StatTypesKept DEF freeChunkNoCache, SysDealloc, history
<1>6. Balanced'
  <2>1. Cardinality(mapped \ Plain!Covered(reserved))'
          = Cardinality(mapped \ Plain!Covered(reserved)) - raw[p]
    BY <1>1, OSTakes DEF freeChunkNoCache
  <2> DEFINE n == raw[p]
  <2>2. /\ n \in Int /\ sysDealloc' = Count(sysDealloc, n)
        /\ UNCHANGED <<sysAlloc, refused, addressSpaceFreed>>
        /\ Cardinality(mapped \ Plain!Covered(reserved))'
             = Cardinality(mapped \ Plain!Covered(reserved)) - n
    BY <1>2, <2>1 DEF freeChunkNoCache, SysDealloc, history
  <2> HIDE DEF n
  <2> QED
    BY <2>2, BalancedCounts
<1> QED
  BY <1>2, <1>3, <1>4, <1>5, <1>6 DEF IInv

(* Reservations are mapped, but no part of the balance. *)
LEMMA FreeSpaceStep ==
  ASSUME IInv, NEW p \in Place, freeAddressSpaceNoCache(p)
  PROVE  IInv' /\ reserved[p] \in Nat \ {0}
<1>1. /\ p \in DOMAIN reserved /\ MappedInv(reserved, raw, size, mapped)
      /\ mapped' = mapped \ Plain!Extent(p, reserved[p])
      /\ reserved' = Plain!Without(reserved, p)
  BY KindsSwap DEF IInv, freeAddressSpaceNoCache, OSDeallocate
<1>2. /\ MappedInv(reserved', raw, size, mapped') /\ reserved[p] \in Nat \ {0}
      /\ Plain!Covered(reserved') = Plain!Covered(reserved) \ Plain!Extent(p, reserved[p])
      /\ Plain!Extent(p, reserved[p]) \subseteq Plain!Covered(reserved)
  BY <1>1, MappedShrinks
<1>3. MappedInv(size, raw, reserved, mapped)'
  BY <1>2, KindsSwap DEF freeAddressSpaceNoCache, lists
<1>4. CacheInv'
  BY CacheKept DEF IInv, freeAddressSpaceNoCache, lists
<1>5. StatTypes'
  BY <1>2, StatTypesKept DEF freeAddressSpaceNoCache, SysDealloc
<1>6. Balanced'
  <2>1. mapped' \ Plain!Covered(reserved') = mapped \ Plain!Covered(reserved)
    BY <1>1, <1>2
  <2>2. Cardinality(mapped \ Plain!Covered(reserved))'
          = Cardinality(mapped \ Plain!Covered(reserved))
    BY <2>1
  <2> DEFINE n == reserved[p]
  <2>3. /\ n \in Int /\ sysDealloc' = Count(sysDealloc, n)
        /\ addressSpaceFreed' = Count(addressSpaceFreed, n)
        /\ UNCHANGED <<sysAlloc, refused>>
    BY <1>2 DEF freeAddressSpaceNoCache, SysDealloc
  <2> HIDE DEF n
  <2> QED
    BY <2>2, <2>3, BalancedCounts
<1> QED
  BY <1>2, <1>3, <1>4, <1>5, <1>6 DEF IInv

LEMMA ReserveStep ==
  ASSUME IInv, AllocateAddressSpace
  PROVE  IInv'
<1> DEFINE n == ReservationSize
<1>1. PICK p \in Place : /\ Plain!Extent(p, n) \intersect mapped = {}
                         /\ mapped' = mapped \union Plain!Extent(p, n)
                         /\ reserved' = Plain!With(reserved, p, n)
  BY DEF AllocateAddressSpace, OSAllocate
<1>2. n \in Nat \ {0} /\ MappedInv(reserved, raw, size, mapped)
  BY ReservationAssumption, KindsSwap DEF IInv
<1>3. /\ MappedInv(reserved', raw, size, mapped')
      /\ Plain!Covered(reserved') = Plain!Covered(reserved) \union Plain!Extent(p, n)
  BY <1>1, <1>2, MappedGrows
<1>4. MappedInv(size, raw, reserved, mapped)'
  BY <1>3, KindsSwap DEF AllocateAddressSpace, lists
<1>5. CacheInv'
  BY CacheKept DEF IInv, AllocateAddressSpace, lists
<1>6. StatTypes'
  BY StatTypesKept DEF AllocateAddressSpace, stats, history
<1>7. Balanced'
  <2>1. mapped' \ Plain!Covered(reserved') = mapped \ Plain!Covered(reserved)
    BY <1>1, <1>3
  <2> QED
    BY <2>1 DEF AllocateAddressSpace, stats, history, IInv, Balanced
<1> QED
  BY <1>4, <1>5, <1>6, <1>7 DEF IInv

(* Steps that leave all of it alone. *)
LEMMA QuietStep ==
  ASSUME IInv, UNCHANGED <<lists, held, raw, reserved, mapped, stats, history>>
  PROVE  IInv'
<1>1. CacheInv'
  BY CacheKept DEF IInv, lists
<1>2. MappedInv(size, raw, reserved, mapped)'
  BY MappedKept DEF lists
<1>3. StatTypes'
  BY StatTypesKept DEF stats, history
<1>4. Balanced'
  BY BalancedKept DEF stats, history
<1> QED
  BY <1>1, <1>2, <1>3, <1>4 DEF IInv

LEMMA NextKeeps ==
  ASSUME IInv, [Next]_vars
  PROVE  IInv'
<1>1. CASE \E sz \in Size : \/ getFreeBlockCached(sz) \/ getFreeBlockFromOS(sz)
                            \/ getFreeBlockNoCache(sz) \/ getFreeBlockRefused(sz)
                            \/ CommitMemory(sz)
  BY <1>1, CachedStep, FromOSStep, NoCacheStep, RefusedStep, CommitStep
<1>2. CASE \E p \in Place : \/ freeChunkKept(p) \/ freeChunkToOS(p)
                            \/ freeChunkNoCache(p) \/ freeAddressSpaceNoCache(p)
  BY <1>2, KeptStep, ToOSStep, FreeNoCacheStep, FreeSpaceStep
<1>3. CASE AllocateAddressSpace
  BY <1>3, ReserveStep
<1>4. CASE freeNextCached
  BY <1>4, FreeNextStep
<1>5. CASE deinitialize \/ deinitializeEnds
  BY <1>5, QuietStep DEF deinitialize, deinitializeEnds
<1>6. CASE UNCHANGED vars
  BY <1>6, QuietStep DEF vars, lists, stats, history
<1> QED
  BY <1>1, <1>2, <1>3, <1>4, <1>5, <1>6 DEF Next

LEMMA InitIInv ==
  ASSUME Init
  PROVE  IInv
<1>1. /\ DOMAIN size = {} /\ DOMAIN held = {} /\ DOMAIN raw = {} /\ DOMAIN reserved = {}
      /\ size \in [{} -> Nat \ {0}] /\ held \in [{} -> Nat \ {0}]
      /\ raw \in [{} -> Nat \ {0}] /\ reserved \in [{} -> Nat \ {0}]
  BY DEF Init
<1>2. Blocks = {} /\ Kept = {}
  BY <1>1 DEF Blocks, Kept
<1>3. IsFiniteSet({}) /\ Cardinality({}) = 0
  BY FS_EmptySet
<1>4. BlocksInv
  <2>1. link \in [Heads -> Link]
    BY IndexFacts DEF Init, Link
  <2> QED
    BY <1>1, <1>2, <1>3, <2>1 DEF BlocksInv
<1>5. ListsInv(link, size, Kept)
  <2>1. \A n \in Heads : link[n].next = n /\ link[n].prev = n
    BY DEF Init
  <2>2. \A n \in Heads : LinkSound(link, size, {}, n)
    BY <2>1 DEF LinkSound
  <2> QED
    BY <1>2, <2>2 DEF ListsInv, Init
<1>6. CountsInv(count, size, Kept)
  <2>1. \A ix \in ListIdx : InList(size, Kept, ix) = {} /\ Limit(ix) \in Nat
    BY <1>2, LimitsAssumption DEF InList, Limit
  <2>2. count \in [ListIdx -> Nat] /\ \A ix \in ListIdx : count[ix] = 0
    BY DEF Init
  <2> QED
    BY <1>2, <1>3, <2>1, <2>2 DEF CountsInv
<1>7. /\ Plain!Covered(size) = {} /\ Plain!Covered(raw) = {}
      /\ Plain!Covered(reserved) = {}
  BY <1>1 DEF Plain!Covered
<1>8. MappedInv(size, raw, reserved, mapped)
  BY <1>1, <1>3, <1>7 DEF MappedInv, MapOf, Apart, Init
<1>9. StatTypes
  BY WidthAssumption DEF StatTypes, Stat, Init
<1>10. Balanced
  <2>1. Cardinality(mapped \ Plain!Covered(reserved)) = 0
    BY <1>3 DEF Init
  <2> QED
    BY <2>1 DEF Balanced, Init
<1> QED
  BY <1>4, <1>5, <1>6, <1>8, <1>9, <1>10 DEF IInv, CacheInv

(***************************************************************************)
(* The invariant, of whatever getFreeBlock, freeChunk and the others do.   *)
(***************************************************************************)
THEOREM Invariance == Spec => []IInv
<1>1. Init => IInv
  BY InitIInv
<1>2. IInv /\ [Next]_vars => IInv'
  BY NextKeeps
<1> QED
  BY <1>1, <1>2, PTL DEF Spec

-----------------------------------------------------------------------------
(***************************************************************************)
(* The lists as they are walked from their heads.                          *)
(***************************************************************************)
(* A set of numbers has a least one. *)
LEMMA LeastNat ==
  ASSUME NEW T \in SUBSET Nat, T # {}
  PROVE  \E m \in T : \A k \in T : m <= k
<1> DEFINE R == OpToRel(<, Nat)
<1>1. IsWellFoundedOn(R, Nat)
  BY NatLessThanWellFounded
<1>2. \A k, m \in Nat : <<k, m>> \in R <=> k < m
  BY DEF OpToRel
<1> HIDE DEF R
<1>3. PICK m \in T : \A k \in T : ~(<<k, m>> \in R)
  BY <1>1, WFMin
<1>4. \A k \in T : <<k, m>> \in R <=> k < m
  BY <1>2
<1>5. m \in Nat /\ \A k \in T : k \in Nat /\ ~(k < m)
  BY <1>3, <1>4
<1>6. \A k \in T : m <= k
  BY <1>5
<1> QED
  BY <1>6

(* Induction up to n, with the property as the set of numbers that have it. *)
LEMMA UpTo ==
  ASSUME NEW n \in Nat, NEW T, 0 \in T,
         \A k \in 0 .. n - 1 : k \in T => k + 1 \in T
  PROVE  \A k \in 0 .. n : k \in T
<1> SUFFICES ASSUME NEW j \in 0 .. n, j \notin T PROVE FALSE
  OBVIOUS
<1> DEFINE Bad == {k \in 0 .. n : k \notin T}
<1>1. Bad \in SUBSET Nat /\ Bad # {}
  OBVIOUS
<1> HIDE DEF Bad
<1>2. PICK m \in Bad : \A k \in Bad : m <= k
  BY <1>1, LeastNat
<1>3. m \in 0 .. n /\ m \notin T
  BY DEF Bad
<1>4. m - 1 \in 0 .. n - 1 /\ m - 1 \in 0 .. n
  BY <1>3
<1>5. m - 1 \in T
  BY <1>2, <1>4 DEF Bad
<1> QED
  BY <1>3, <1>4, <1>5

(* The function that Chain defines, and that there is one. *)
Onward(n) == IF n = null THEN null ELSE link[n].next
Walks(w, ix, n) ==
  w = [k \in 0 .. n |-> IF k = 0 THEN lst(ix) ELSE Onward(w[k - 1])]

LEMMA WalkExists ==
  ASSUME NEW ix, NEW n \in Nat
  PROVE  \E w : Walks(w, ix, n)
<1> DEFINE T == {k \in Nat : \E w : Walks(w, ix, k)}
<1>1. 0 \in T
  <2>1. Walks([k \in 0 .. 0 |-> lst(ix)], ix, 0)
    BY DEF Walks
  <2> QED
    BY <2>1
<1>2. ASSUME NEW m \in 0 .. n - 1, m \in T
      PROVE  m + 1 \in T
  <2>1. PICK w : Walks(w, ix, m)
    BY <1>2
  <2> DEFINE s == [k \in 0 .. m + 1 |-> IF k = m + 1 THEN Onward(w[m]) ELSE w[k]]
  <2>2. m \in Nat /\ m + 1 \in Nat
    OBVIOUS
  <2>3. \A k \in 0 .. m + 1 : s[k] = IF k = 0 THEN lst(ix) ELSE Onward(s[k - 1])
    <3> TAKE k \in 0 .. m + 1
    <3>1. CASE k = m + 1
      <4>1. s[m] = w[m] /\ s[k] = Onward(w[m]) /\ k - 1 = m /\ k # 0
        BY <2>2, <3>1
      <4> QED
        BY <4>1
    <3>2. CASE k # m + 1
      <4>1. k \in 0 .. m /\ s[k] = w[k]
        BY <2>2, <3>2
      <4>2. w[k] = IF k = 0 THEN lst(ix) ELSE Onward(w[k - 1])
        BY <2>1, <4>1 DEF Walks
      <4>3. k # 0 => k - 1 \in 0 .. m + 1 /\ s[k - 1] = w[k - 1]
        BY <2>2, <4>1
      <4> QED
        BY <4>1, <4>2, <4>3
    <3> QED
      BY <3>1, <3>2
  <2>4. s = [k \in 0 .. m + 1 |-> s[k]]
    OBVIOUS
  <2> HIDE DEF s
  <2>5. s = [k \in 0 .. m + 1 |-> IF k = 0 THEN lst(ix) ELSE Onward(s[k - 1])]
    BY <2>3, <2>4
  <2>6. Walks(s, ix, m + 1)
    BY <2>5 DEF Walks
  <2> QED
    BY <2>2, <2>6
<1> HIDE DEF T
<1>3. n \in T
  BY <1>1, <1>2, UpTo
<1> QED
  BY <1>3 DEF T

(* A list and its head: links both ways stay there. *)
Ring(ix) == {lst(ix)} \union InList(size, Kept, ix)

LEMMA RingFacts ==
  ASSUME CacheInv, NEW ix \in ListIdx
  PROVE  /\ lst(ix) \notin InList(size, Kept, ix) /\ null \notin Ring(ix)
         /\ InList(size, Kept, ix) \in SUBSET Kept /\ Ring(ix) \subseteq Heads \union Kept
         /\ \A n \in Ring(ix) : /\ link[n].next \in Ring(ix) /\ link[n].prev \in Ring(ix)
                                /\ link[link[n].prev].next = n
<1> DEFINE h == lst(ix)
           L == InList(size, Kept, ix)
<1>1. h \in Heads /\ IndexOf(size, h) = ix /\ ix \in Int
  BY IndexFacts DEF IndexOf, ListIdx
<1>2. \A q \in Kept : size[q] \in Int /\ q \notin Heads /\ q > 0 /\ q \in Int
  BY CacheFacts, IndexFacts
<1>3. \A q \in Kept : IndexOf(size, q) = ix <=> q \in L
  BY <1>1, <1>2 DEF IndexOf, InList
<1>4. L \in SUBSET Kept
  BY DEF InList
<1>5. \A n \in Heads : (IndexOf(size, n) = ix => n = h) /\ n < 0 /\ n \in Int
  BY <1>1, IndexFacts DEF IndexOf, h
<1> HIDE DEF h, L
<1>6. Ring(ix) = {h} \union L
  BY DEF Ring, h, L
<1>7. \A n \in Heads \union Kept : IndexOf(size, n) = ix <=> n \in Ring(ix)
  BY <1>1, <1>3, <1>5, <1>6, <1>2, <1>4
<1>8. \A n \in Heads \union Kept : LinkSound(link, size, Kept, n)
  BY DEF CacheInv, ListsInv
<1>9. ASSUME NEW n \in Ring(ix)
      PROVE  /\ link[n].next \in Ring(ix) /\ link[n].prev \in Ring(ix)
             /\ link[link[n].prev].next = n
  <2>1. n \in Heads \union Kept /\ IndexOf(size, n) = ix
    BY <1>1, <1>4, <1>6, <1>7
  <2> QED
    BY <1>7, <1>8, <2>1 DEF LinkSound
<1>10. h \notin L /\ null \notin Ring(ix)
  BY <1>1, <1>2, <1>4, <1>5, <1>6 DEF null
<1> QED
  BY <1>1, <1>4, <1>6, <1>9, <1>10 DEF h, L

(* What follows the links on from the head has all of the list: the links  *)
(* back of the others would run in a circle.                               *)
LEMMA RingReached ==
  ASSUME CacheInv, NEW ix \in ListIdx, NEW S \in SUBSET Ring(ix), lst(ix) \in S,
         \A n \in S : link[n].next \in S
  PROVE  S = Ring(ix)
<1> DEFINE U == InList(size, Kept, ix) \ S
<1>1. U \in SUBSET Kept
  BY RingFacts
<1>2. ASSUME NEW p \in U
      PROVE  link[p].prev \in U
  <2>1. /\ p \in Ring(ix) /\ link[p].prev \in Ring(ix)
        /\ link[link[p].prev].next = p
    BY RingFacts DEF Ring
  <2>2. link[p].prev \notin S
    BY <2>1
  <2> QED
    BY <2>1, <2>2 DEF Ring
<1> HIDE DEF U
<1>3. U = {}
  BY <1>1, <1>2 DEF CacheInv, ListsInv
<1> QED
  BY <1>3 DEF U, Ring

(* After as many links as there are blocks all of the list is walked: each *)
(* link that meets a node again has come round the list.                   *)
LEMMA RingWalked ==
  ASSUME CacheInv, NEW ix \in ListIdx, NEW w, Walks(w, ix, Cardinality(Blocks))
  PROVE  {w[k] : k \in 0 .. Cardinality(Blocks)} = Ring(ix)
<1> DEFINE n == Cardinality(Blocks)
           h == lst(ix)
           R(k) == {w[j] : j \in 0 .. k}
<1>1. /\ IsFiniteSet(Blocks) /\ n \in Nat
      /\ IsFiniteSet(Ring(ix)) /\ Cardinality(Ring(ix)) <= n + 1
      /\ Cardinality(Ring(ix)) \in Nat
  <2> DEFINE L == InList(size, Kept, ix)
  <2>1. IsFiniteSet(Blocks) /\ L \subseteq Blocks
    BY CacheFacts, RingFacts DEF CacheInv, BlocksInv
  <2>2. IsFiniteSet(L) /\ Cardinality(L) <= n /\ n \in Nat /\ Cardinality(L) \in Nat
    BY <2>1, FS_Subset, FS_CardinalityType
  <2>3. h \notin L /\ Ring(ix) = L \union {h}
    BY RingFacts DEF Ring
  <2>4. IsFiniteSet(Ring(ix)) /\ Cardinality(Ring(ix)) = Cardinality(L) + 1
    BY <2>2, <2>3, FS_AddElement
  <2> QED
    BY <2>1, <2>2, <2>4
<1> HIDE DEF n
<1>2. /\ w[0] = h
      /\ \A k \in 0 .. n - 1 : w[k + 1] = Onward(w[k])
  <2>1. w = [k \in 0 .. n |-> IF k = 0 THEN h ELSE Onward(w[k - 1])]
    BY DEF Walks, n
  <2>2. w[0] = h
    BY <1>1, <2>1
  <2>3. ASSUME NEW k \in 0 .. n - 1
        PROVE  w[k + 1] = Onward(w[k])
    <3>1. k + 1 \in 0 .. n /\ k + 1 # 0 /\ (k + 1) - 1 = k
      BY <1>1
    <3>2. w[k + 1] = Onward(w[(k + 1) - 1])
      BY <2>1, <3>1
    <3> QED
      BY <3>1, <3>2
  <2> QED
    BY <2>2, <2>3
<1> HIDE DEF h
<1>3. h \in Ring(ix)
  BY DEF Ring, h
<1>4. \A k \in 0 .. n : w[k] \in Ring(ix)
  <2> DEFINE T == {k \in 0 .. n : w[k] \in Ring(ix)}
  <2>1. 0 \in T
    BY <1>1, <1>2, <1>3
  <2>2. ASSUME NEW k \in 0 .. n - 1, k \in T
        PROVE  k + 1 \in T
    <3>1. k + 1 \in 0 .. n /\ w[k] \in Ring(ix)
      BY <1>1, <2>2
    <3> QED
      BY <1>2, <3>1, RingFacts DEF Onward
  <2> HIDE DEF T
  <2>3. \A k \in 0 .. n : k \in T
    BY <1>1, <2>1, <2>2, UpTo
  <2> QED
    BY <2>3 DEF T
<1>5. \A k \in 0 .. n - 1 : w[k + 1] = link[w[k]].next
  <2> TAKE k \in 0 .. n - 1
  <2>1. k \in 0 .. n
    BY <1>1
  <2>2. w[k] # null
    BY <1>4, <2>1, RingFacts
  <2> QED
    BY <1>2, <2>2 DEF Onward
<1>6. \A k \in 0 .. n : R(k) \in SUBSET Ring(ix) /\ h \in R(k)
  <2> TAKE k \in 0 .. n
  <2>1. 0 \in 0 .. k /\ \A j \in 0 .. k : j \in 0 .. n
    BY <1>1
  <2> QED
    BY <1>2, <1>4, <2>1
<1> DEFINE Closed(S) == \A x \in S : link[x].next \in S
           T == {k \in 0 .. n : k + 1 <= Cardinality(R(k)) \/ Closed(R(k))}
<1>7. 0 \in T
  <2>1. R(0) = {h}
    BY <1>2
  <2>2. Cardinality(R(0)) = 1
    BY <2>1, FS_Singleton
  <2> QED
    BY <1>1, <2>2
<1>8. ASSUME NEW k \in 0 .. n - 1, k \in T
      PROVE  k + 1 \in T
  <2> DEFINE x == w[k + 1]
  <2>1. /\ k \in Nat /\ k \in 0 .. n /\ k + 1 \in 0 .. n
        /\ (k + 1 <= Cardinality(R(k)) \/ Closed(R(k)))
    BY <1>1, <1>8
  <2>2. R(k + 1) = R(k) \union {x}
    <3>1. \A j : j \in 0 .. k + 1 <=> j \in 0 .. k \/ j = k + 1
      BY <2>1
    <3> QED
      BY <3>1
  <2>3. x = link[w[k]].next /\ w[k] \in R(k)
    BY <1>5, <2>1
  <2>4. CASE x \in R(k)
    <3>1. ASSUME NEW y \in R(k)
          PROVE  link[y].next \in R(k)
      <4>1. PICK j \in 0 .. k : y = w[j]
        OBVIOUS
      <4>2. CASE j = k
        BY <2>3, <2>4, <4>1, <4>2
      <4>3. CASE j # k
        <5>1. j \in 0 .. n - 1 /\ j + 1 \in 0 .. k
          BY <1>1, <2>1, <4>3
        <5>2. link[y].next = w[j + 1]
          BY <1>5, <4>1, <5>1
        <5> QED
          BY <5>1, <5>2
      <4> QED
        BY <4>2, <4>3
    <3>2. R(k + 1) = R(k)
      BY <2>2, <2>4
    <3>3. Closed(R(k + 1))
      BY <3>1, <3>2
    <3> QED
      BY <2>1, <3>3
  <2>5. CASE x \notin R(k)
    <3>1. k + 1 <= Cardinality(R(k))
      BY <2>1, <2>3, <2>5
    <3>2. IsFiniteSet(R(k)) /\ Cardinality(R(k)) \in Nat
      <4>1. R(k) \subseteq Ring(ix)
        BY <1>6, <2>1
      <4> HIDE DEF R
      <4> QED
        BY <1>1, <4>1, FS_Subset, FS_CardinalityType
    <3>3. Cardinality(R(k + 1)) = Cardinality(R(k)) + 1
      <4> HIDE DEF R, x
      <4> QED
        BY <2>2, <2>5, <3>2, FS_AddElement
    <3> QED
      <4> HIDE DEF R
      <4> QED
        BY <2>1, <3>1, <3>2, <3>3
  <2> QED
    BY <2>4, <2>5
<1> HIDE DEF T
<1>9. n \in T /\ n \in 0 .. n
  BY <1>1, <1>7, <1>8, UpTo
<1>10. n + 1 <= Cardinality(R(n)) \/ Closed(R(n))
  BY <1>9 DEF T
<1>11. R(n) \in SUBSET Ring(ix) /\ h \in R(n)
  BY <1>6, <1>9
<1> HIDE DEF R
<1>12. CASE Closed(R(n))
  <2>1. R(n) = Ring(ix)
    BY <1>11, <1>12, RingReached DEF h
  <2> QED
    BY <2>1 DEF R, n
<1>13. CASE n + 1 <= Cardinality(R(n))
  <2>1. R(n) # Ring(ix) => /\ Cardinality(R(n)) < Cardinality(Ring(ix))
                           /\ Cardinality(R(n)) \in Nat
    BY <1>1, <1>11, FS_Subset, FS_CardinalityType
  <2>2. R(n) = Ring(ix)
    BY <1>1, <1>13, <2>1
  <2> QED
    BY <2>2 DEF R, n
<1> QED
  BY <1>10, <1>12, <1>13

LEMMA ChainIsList ==
  ASSUME CacheInv, NEW ix \in ListIdx
  PROVE  Chain(ix) = InList(size, Kept, ix)
<1> DEFINE n == Cardinality(Blocks)
           w == CHOOSE f : Walks(f, ix, n)
<1>1. n \in Nat
  BY FS_CardinalityType DEF CacheInv, BlocksInv
<1>2. Walks(w, ix, n)
  BY <1>1, WalkExists
<1>3. w = CHOOSE f : f = [k \in 0 .. n |-> IF k = 0 THEN lst(ix)
                            ELSE IF f[k - 1] = null THEN null ELSE link[f[k - 1]].next]
  BY DEF Walks, Onward
<1>4. Chain(ix) = {w[k] : k \in 1 .. n} \ {null, lst(ix)}
  BY <1>3 DEF Chain
<1> HIDE DEF w
<1>5. {w[k] : k \in 0 .. n} = Ring(ix)
  BY <1>2, RingWalked
<1>6. w[0] = lst(ix)
  BY <1>1, <1>2 DEF Walks
<1>7. \A k : k \in 0 .. n <=> k = 0 \/ k \in 1 .. n
  BY <1>1
<1> HIDE DEF n
<1>8. {w[k] : k \in 1 .. n} \ {lst(ix)} = Ring(ix) \ {lst(ix)}
  BY <1>5, <1>6, <1>7
<1>9. Ring(ix) \ {lst(ix)} = InList(size, Kept, ix) /\ null \notin Ring(ix)
  BY RingFacts DEF Ring
<1> QED
  BY <1>4, <1>8, <1>9

(***************************************************************************)
(* The lists are circles linked both ways, each as long as the code counts *)
(* and within its limit, and together hold exactly the blocks that nobody  *)
(* holds, each in the list of its size.                                    *)
(***************************************************************************)
THEOREM ListsAreSound == Spec => []ListsSound
<1>1. ASSUME IInv
      PROVE  ListsSound
  <2>1. CacheInv
    BY <1>1 DEF IInv
  <2>2. \A n \in Heads \union Kept : LinkSound(link, size, Kept, n)
    BY <2>1 DEF CacheInv, ListsInv
  <2>3. \A n \in DOMAIN link : n \in Heads \union Kept <=> n \notin DOMAIN held
    BY <2>1, CacheFacts DEF Kept, CacheInv, BlocksInv
  <2>4. \A n \in DOMAIN held : link[n] = Unlinked
    BY <2>1 DEF CacheInv, BlocksInv
  <2>5. TypeOK
    <3>1. DOMAIN link = Heads \union Blocks /\ Blocks \subseteq Place
      BY <2>1 DEF CacheInv, BlocksInv
    <3>2. ASSUME NEW n \in DOMAIN link
          PROVE  /\ link[n].next \in Node \union {null}
                 /\ link[n].prev \in Node \union {null}
      <4>1. Heads \union Kept \subseteq Node
        BY <2>1, CacheFacts DEF Node
      <4>2. CASE n \in DOMAIN held
        BY <2>4, <4>2 DEF Unlinked
      <4>3. CASE n \notin DOMAIN held
        BY <2>2, <2>3, <4>1, <4>3 DEF LinkSound
      <4> QED
        BY <4>2, <4>3
    <3> QED
      BY <1>1, <2>1, <3>1, <3>2 DEF TypeOK, CacheInv, CountsInv, IInv, StatTypes
  <2>6. \A n \in DOMAIN link :
          IF n \in DOMAIN held THEN link[n] = Unlinked
          ELSE link[link[n].next].prev = n /\ link[link[n].prev].next = n
    BY <2>2, <2>3, <2>4 DEF LinkSound
  <2>7. ASSUME NEW ix \in ListIdx
        PROVE  /\ Cardinality(Chain(ix)) = count[ix]
               /\ Chain(ix) = {p \in Blocks \ DOMAIN held : size[p] = ix + 1}
               /\ count[ix] <= CASE ix = 0 -> SinglePageCacheSize
                                 [] ix \in 1 .. MaxCachedSize - 1 -> MultiPageCacheSize
                                 [] OTHER -> 0
    <3>1. Chain(ix) = InList(size, Kept, ix)
      BY <2>1, ChainIsList
    <3>2. count[ix] = Cardinality(InList(size, Kept, ix)) /\ count[ix] <= Limit(ix)
      BY <2>1 DEF CacheInv, CountsInv
    <3>3. Limit(ix) = CASE ix = 0 -> SinglePageCacheSize
                        [] ix \in 1 .. MaxCachedSize - 1 -> MultiPageCacheSize
                        [] OTHER -> 0
      <4>1. /\ ix \in Nat
            /\ ix \in 1 .. MaxCachedSize - 1 <=> ix # 0 /\ ix < MaxCachedSize
        BY LimitsAssumption DEF ListIdx
      <4>2. CASE ix = 0
        BY <4>1, <4>2 DEF Limit
      <4>3. CASE ix # 0
        BY <4>1, <4>3 DEF Limit
      <4> QED
        BY <4>2, <4>3
    <3> QED
      BY <3>1, <3>2, <3>3 DEF InList, Kept
  <2> QED
    BY <2>5, <2>6, <2>7 DEF ListsSound
<1>2. IInv => ListsSound
  BY <1>1
<1> QED
  BY <1>2, Invariance, PTL

(***************************************************************************)
(* The pages mapped are those of blocks, held or kept, and of reservations *)
(* and printStats' difference is those of the blocks, but for what was     *)
(* refused and for reservations given back.                                *)
(***************************************************************************)
THEOREM StatsAreBalanced == Spec => []StatsBalance
<1>1. IInv => StatsBalance
  BY DEF IInv, MappedInv, Balanced, StatsBalance
<1> QED
  BY <1>1, Invariance, PTL

-----------------------------------------------------------------------------
(***************************************************************************)
(* The refinement: what users hold, asked for and gave back is what the    *)
(* allocator without cache has.                                            *)
(***************************************************************************)
UserHeld == [p \in DOMAIN held \union DOMAIN raw |->
               IF p \in DOMAIN held THEN held[p] ELSE raw[p]]
Asked == (allocRequest - committed) % Width
Returned == (deallocRequest - addressSpaceFreed) % Width

LEMMA HeldFacts ==
  ASSUME IInv
  PROVE  /\ DOMAIN UserHeld = DOMAIN held \union DOMAIN raw
         /\ DOMAIN held \intersect DOMAIN raw = {}
         /\ \A p \in DOMAIN held : /\ UserHeld[p] = held[p] /\ held[p] = size[p]
                                   /\ p \in DOMAIN size
         /\ \A p \in DOMAIN raw : UserHeld[p] = raw[p]
<1>1. ASSUME NEW p \in DOMAIN held
      PROVE  held[p] = size[p] /\ p \in DOMAIN size
  BY DEF IInv, CacheInv, BlocksInv, Blocks
<1>2. ASSUME NEW p \in DOMAIN held, p \in DOMAIN raw
      PROVE  FALSE
  <2>1. /\ p \in Nat /\ p \in DOMAIN size
        /\ size[p] \in Nat \ {0} /\ raw[p] \in Nat \ {0}
    BY <1>1, <1>2, PlacesAssumption DEF IInv, MappedInv, MapOf
  <2>2. p \in Plain!Extent(p, size[p]) /\ p \in Plain!Extent(p, raw[p])
    BY <2>1, ExtentFacts
  <2>3. p \in Plain!Covered(size) /\ p \in Plain!Covered(raw)
    BY <1>2, <2>1, <2>2, InCovered
  <2> QED
    BY <2>3 DEF IInv, MappedInv
<1> QED
  BY <1>1, <1>2 DEF UserHeld

(* Pages that no block held covers. *)
LEMMA NotHeld ==
  ASSUME IInv, NEW E, E \intersect Plain!Covered(raw) = {},
         \A q \in DOMAIN held : E \intersect Plain!Extent(q, size[q]) = {}
  PROVE  E \intersect Plain!Covered(UserHeld) = {}
<1> SUFFICES ASSUME NEW x \in E, x \in Plain!Covered(UserHeld)
             PROVE  FALSE
  OBVIOUS
<1>1. PICK q \in DOMAIN UserHeld : x \in Plain!Extent(q, UserHeld[q])
  BY InCovered
<1>2. CASE q \in DOMAIN held
  BY <1>1, <1>2, HeldFacts
<1>3. CASE q \in DOMAIN raw
  <2>1. x \in Plain!Covered(raw)
    BY <1>1, <1>3, HeldFacts, InCovered
  <2> QED
    BY <2>1
<1> QED
  BY <1>1, <1>2, <1>3, HeldFacts

(* The statistics as users see them, when something is counted. *)
LEMMA SeenStats ==
  ASSUME IInv, NEW n \in Int
  PROVE  /\ allocRequest' = Count(allocRequest, n) /\ committed' = committed
              => Asked' = Plain!Registered(Asked, n)
         /\ allocRequest' = Count(allocRequest, n) /\ committed' = Count(committed, n)
              => Asked' = Asked
         /\ deallocRequest' = Count(deallocRequest, n)
            /\ addressSpaceFreed' = addressSpaceFreed
              => Returned' = Plain!Registered(Returned, n)
         /\ deallocRequest' = Count(deallocRequest, n)
            /\ addressSpaceFreed' = Count(addressSpaceFreed, n)
              => Returned' = Returned
<1>1. ASSUME NEW x \in Int, NEW y \in Int
      PROVE  /\ (Count(x, n) - y) % Width = Plain!Registered((x - y) % Width, n)
             /\ (Count(x, n) - Count(y, n)) % Width = (x - y) % Width
  <2>1. x - y \in Int
    OBVIOUS
  <2>2. (Count(x, n) - y) % Width = ((x - y) + n) % Width
    BY CountedDifference
  <2>3. (((x - y) % Width) + n) % Width = ((x - y) + n) % Width
    BY <2>1, ReducedTerm
  <2>4. (Count(x, n) - Count(y, n)) % Width = (x - y) % Width
    BY CountedDifference
  <2> QED
    BY <2>2, <2>3, <2>4 DEF Plain!Registered
<1> DEFINE Sub(x, y) == (x - y) % Width
<1>2. \A x, y \in Int : /\ Sub(Count(x, n), y) = Plain!Registered(Sub(x, y), n)
                        /\ Sub(Count(x, n), Count(y, n)) = Sub(x, y)
  BY <1>1
<1>3. /\ Asked = Sub(allocRequest, committed)
      /\ Asked' = Sub(allocRequest', committed')
      /\ Returned = Sub(deallocRequest, addressSpaceFreed)
      /\ Returned' = Sub(deallocRequest', addressSpaceFreed')
  BY DEF Asked, Returned
<1>4. /\ allocRequest \in Int /\ committed \in Int
      /\ deallocRequest \in Int /\ addressSpaceFreed \in Int
  BY StatFacts
<1> HIDE DEF Sub
<1> QED
  BY <1>2, <1>3, <1>4

(* A block is granted in one of the two ways. *)
LEMMA GrantStep ==
  ASSUME IInv, NEW sz \in Size, NEW p \in Place,
         p \notin DOMAIN held, p \notin DOMAIN raw,
         Plain!Extent(p, sz) \intersect Plain!Covered(UserHeld) = {},
         \/ held' = Plain!With(held, p, sz) /\ raw' = raw
         \/ held' = held /\ raw' = Plain!With(raw, p, sz),
         allocRequest' = Count(allocRequest, sz), committed' = committed,
         UNCHANGED <<deallocRequest, refused, addressSpaceFreed>>
  PROVE  Plain!PageAllocatorNext
<1>1. UserHeld' = Plain!With(UserHeld, p, sz)
  <2>1. UserHeld' = [q \in DOMAIN held' \union DOMAIN raw' |->
                       IF q \in DOMAIN held' THEN held'[q] ELSE raw'[q]]
    BY DEF UserHeld
  <2>2. DOMAIN UserHeld = DOMAIN held \union DOMAIN raw
    BY HeldFacts
  <2>3. CASE held' = Plain!With(held, p, sz) /\ raw' = raw
    BY <2>1, <2>2, <2>3 DEF UserHeld, Plain!With
  <2>4. CASE held' = held /\ raw' = Plain!With(raw, p, sz)
    BY <2>1, <2>2, <2>4 DEF UserHeld, Plain!With
  <2> QED
    BY <2>3, <2>4
<1>2. Asked' = Plain!Registered(Asked, sz) /\ Returned' = Returned
  <2>1. sz \in Int
    BY PlacesAssumption
  <2> QED
    BY <2>1, SeenStats DEF Returned
<1>3. Plain!getFreeBlock(sz)
  <2> SUFFICES /\ Asked' = Plain!Registered(Asked, sz)
               /\ \E q \in Place :
                    /\ Plain!Extent(q, sz) \intersect Plain!Covered(UserHeld) = {}
                    /\ UserHeld' = Plain!With(UserHeld, q, sz)
               /\ refused' = refused /\ Returned' = Returned
    BY DEF Plain!getFreeBlock, UserHeld, Asked, Returned
  <2> QED
    BY <1>1, <1>2
<1> QED
  BY <1>3 DEF Plain!PageAllocatorNext

(* A block is given back in one of the two ways. *)
LEMMA GiveBackStep ==
  ASSUME IInv, NEW p \in Place, NEW n \in Int,
         \/ /\ p \in DOMAIN held /\ n = held[p]
            /\ held' = Plain!Without(held, p) /\ raw' = raw
         \/ /\ p \in DOMAIN raw /\ n = raw[p]
            /\ held' = held /\ raw' = Plain!Without(raw, p),
         deallocRequest' = Count(deallocRequest, n),
         addressSpaceFreed' = addressSpaceFreed,
         UNCHANGED <<allocRequest, refused, committed>>
  PROVE  Plain!PageAllocatorNext
<1>1. /\ p \in DOMAIN UserHeld /\ UserHeld[p] = n
      /\ UserHeld' = Plain!Without(UserHeld, p)
  <2>1. UserHeld' = [q \in DOMAIN held' \union DOMAIN raw' |->
                       IF q \in DOMAIN held' THEN held'[q] ELSE raw'[q]]
    BY DEF UserHeld
  <2>2. /\ DOMAIN UserHeld = DOMAIN held \union DOMAIN raw
        /\ DOMAIN held \intersect DOMAIN raw = {}
    BY HeldFacts
  <2>3. p \in DOMAIN UserHeld /\ UserHeld[p] = n
    BY HeldFacts
  <2>4. CASE p \in DOMAIN held /\ held' = Plain!Without(held, p) /\ raw' = raw
    BY <2>1, <2>2, <2>4 DEF UserHeld, Plain!Without
  <2>5. CASE p \in DOMAIN raw /\ held' = held /\ raw' = Plain!Without(raw, p)
    BY <2>1, <2>2, <2>5 DEF UserHeld, Plain!Without
  <2> QED
    BY <2>3, <2>4, <2>5
<1>2. Returned' = Plain!Registered(Returned, UserHeld[p]) /\ Asked' = Asked
  BY <1>1, SeenStats DEF Asked
<1>3. Plain!freeChunk(p)
  <2> SUFFICES /\ p \in DOMAIN UserHeld
               /\ UserHeld' = Plain!Without(UserHeld, p)
               /\ Returned' = Plain!Registered(Returned, UserHeld[p])
               /\ Asked' = Asked /\ refused' = refused
    BY DEF Plain!freeChunk, UserHeld, Asked, Returned
  <2> QED
    BY <1>1, <1>2
<1> QED
  BY <1>3 DEF Plain!PageAllocatorNext

(* The three ways to get a block, and the refusal. *)
LEMMA CachedGrants ==
  ASSUME IInv, NEW sz \in Size, getFreeBlockCached(sz)
  PROVE  Plain!PageAllocatorNext
<1> DEFINE p == front(sz - 1)
<1>1. p \in Kept /\ size[p] = sz
  BY CachedStep
<1>2. /\ held' = Plain!With(held, p, sz) /\ raw' = raw
      /\ allocRequest' = Count(allocRequest, sz) /\ committed' = committed
      /\ UNCHANGED <<deallocRequest, refused, addressSpaceFreed>>
  BY DEF getFreeBlockCached, history
<1> HIDE DEF p
<1>3. p \in Place /\ p \in DOMAIN size /\ p \notin DOMAIN held
  BY <1>1, CacheFacts DEF Kept, Blocks, IInv
<1>4. /\ p \in Plain!Extent(p, sz)
      /\ \A x \in Plain!Extent(p, sz) : x \in Plain!Covered(size)
  <2>1. p \in Nat /\ sz \in Nat \ {0}
    BY <1>3, PlacesAssumption
  <2> QED
    BY <1>1, <1>3, <2>1, ExtentFacts, InCovered
<1>5. Plain!Extent(p, sz) \intersect Plain!Covered(raw) = {}
  BY <1>4 DEF IInv, MappedInv
<1>6. p \notin DOMAIN raw
  <2>1. SUFFICES ASSUME p \in DOMAIN raw PROVE FALSE
    OBVIOUS
  <2>2. p \in Nat /\ raw[p] \in Nat \ {0}
    BY <1>3, <2>1, PlacesAssumption DEF IInv, MappedInv, MapOf
  <2>3. p \in Plain!Covered(raw)
    BY <2>1, <2>2, ExtentFacts, InCovered
  <2> QED
    BY <1>4, <1>5, <2>3
<1>7. \A q \in DOMAIN held : Plain!Extent(p, sz) \intersect Plain!Extent(q, size[q]) = {}
  <2> TAKE q \in DOMAIN held
  <2>1. q \in DOMAIN size /\ p # q
    BY <1>3, HeldFacts
  <2>2. Plain!Extent(p, size[p]) \intersect Plain!Extent(q, size[q]) = {}
    BY <1>3, <2>1 DEF IInv, MappedInv, MapOf, Apart
  <2> QED
    BY <1>1, <2>2
<1>8. Plain!Extent(p, sz) \intersect Plain!Covered(UserHeld) = {}
  BY <1>5, <1>7, NotHeld
<1> QED
  BY <1>2, <1>3, <1>6, <1>8, GrantStep

LEMMA OSGrants ==
  ASSUME IInv, NEW sz \in Size, getFreeBlockFromOS(sz) \/ getFreeBlockNoCache(sz)
  PROVE  Plain!PageAllocatorNext
<1>1. PICK p \in Place :
        /\ Plain!Extent(p, sz) \intersect mapped = {}
        /\ \/ held' = Plain!With(held, p, sz) /\ raw' = raw
           \/ held' = held /\ raw' = Plain!With(raw, p, sz)
  BY DEF getFreeBlockFromOS, getFreeBlockNoCache, OSAllocate
<1>2. /\ allocRequest' = Count(allocRequest, sz) /\ committed' = committed
      /\ UNCHANGED <<deallocRequest, refused, addressSpaceFreed>>
  BY DEF getFreeBlockFromOS, getFreeBlockNoCache, SysAlloc, history
<1>3. sz \in Nat \ {0}
  BY PlacesAssumption
<1>4. p \notin DOMAIN size /\ p \notin DOMAIN raw
  <2>1. MappedInv(size, raw, reserved, mapped) /\ MappedInv(raw, size, reserved, mapped)
    BY KindsSwap DEF IInv
  <2> QED
    BY <1>1, <1>3, <2>1, MappedGrows
<1>5. /\ Plain!Extent(p, sz) \intersect Plain!Covered(raw) = {}
      /\ Plain!Extent(p, sz) \intersect Plain!Covered(size) = {}
  BY <1>1 DEF IInv, MappedInv
<1>6. \A q \in DOMAIN held : Plain!Extent(p, sz) \intersect Plain!Extent(q, size[q]) = {}
  <2> TAKE q \in DOMAIN held
  <2>1. q \in DOMAIN size
    BY HeldFacts
  <2>2. \A x \in Plain!Extent(q, size[q]) : x \in Plain!Covered(size)
    BY <2>1, InCovered
  <2> QED
    BY <1>5, <2>2
<1>7. Plain!Extent(p, sz) \intersect Plain!Covered(UserHeld) = {}
  BY <1>5, <1>6, NotHeld
<1>8. p \notin DOMAIN held
  BY <1>4, HeldFacts
<1> QED
  BY <1>1, <1>2, <1>4, <1>7, <1>8, GrantStep

LEMMA Refusal ==
  ASSUME IInv, NEW sz \in Size, getFreeBlockRefused(sz)
  PROVE  Plain!PageAllocatorNext
<1>1. /\ held' = held /\ raw' = raw /\ refused' = Count(refused, sz)
      /\ allocRequest' = Count(allocRequest, sz) /\ committed' = committed
      /\ UNCHANGED <<deallocRequest, addressSpaceFreed>>
  BY DEF getFreeBlockRefused, SysAlloc
<1>2. Asked' = Plain!Registered(Asked, sz) /\ Returned' = Returned
  <2>1. sz \in Int
    BY PlacesAssumption
  <2> QED
    BY <1>1, <2>1, SeenStats DEF Returned
<1>3. UserHeld' = UserHeld
  BY <1>1 DEF UserHeld
<1>4. Plain!getFreeBlock(sz)
  <2> SUFFICES /\ Asked' = Plain!Registered(Asked, sz)
               /\ refused' = Plain!Registered(refused, sz) /\ UserHeld' = UserHeld
               /\ Returned' = Returned
    BY DEF Plain!getFreeBlock, UserHeld, Asked, Returned
  <2> QED
    BY <1>1, <1>2, <1>3 DEF Count
<1> QED
  BY <1>4 DEF Plain!PageAllocatorNext

(* The ways to give one back, to the cache or to the OS. *)
LEMMA BlocksGoBack ==
  ASSUME IInv, NEW p \in Place,
         freeChunkKept(p) \/ freeChunkToOS(p) \/ freeChunkNoCache(p)
  PROVE  Plain!PageAllocatorNext
<1>1. CASE freeChunkKept(p) \/ freeChunkToOS(p)
  <2> DEFINE n == held[p]
  <2>1. n = size[p] /\ n \in Int
    BY <1>1, KeptStep, ToOSStep
  <2>2. /\ p \in DOMAIN held /\ held' = Plain!Without(held, p) /\ raw' = raw
        /\ deallocRequest' = Count(deallocRequest, n)
        /\ addressSpaceFreed' = addressSpaceFreed
        /\ UNCHANGED <<allocRequest, refused, committed>>
    BY <1>1, <2>1 DEF freeChunkKept, freeChunkToOS, history
  <2> QED
    BY <2>1, <2>2, GiveBackStep
<1>2. CASE freeChunkNoCache(p)
  <2> DEFINE n == raw[p]
  <2>1. n \in Int
    BY <1>2, FreeNoCacheStep
  <2>2. /\ p \in DOMAIN raw /\ held' = held /\ raw' = Plain!Without(raw, p)
        /\ deallocRequest' = Count(deallocRequest, n)
        /\ addressSpaceFreed' = addressSpaceFreed
        /\ UNCHANGED <<allocRequest, refused, committed>>
    BY <1>2 DEF freeChunkNoCache, SysDealloc, history
  <2> QED
    BY <2>1, <2>2, GiveBackStep
<1> QED
  BY <1>1, <1>2

(* What users do not see: commits, reservations, and the cache's own steps. *)
LEMMA Unseen ==
  ASSUME IInv,
         \/ \E sz \in Size : CommitMemory(sz)
         \/ \E p \in Place : freeAddressSpaceNoCache(p)
         \/ AllocateAddressSpace \/ deinitialize \/ freeNextCached
         \/ deinitializeEnds \/ UNCHANGED vars
  PROVE  UNCHANGED <<UserHeld, Asked, Returned, refused>>
<1>1. ASSUME NEW sz \in Size, CommitMemory(sz)
      PROVE  UNCHANGED <<UserHeld, Asked, Returned, refused>>
  <2>1. sz \in Int
    BY PlacesAssumption
  <2>2. Asked' = Asked
    BY <1>1, <2>1, SeenStats DEF CommitMemory
  <2> QED
    BY <1>1, <2>2 DEF CommitMemory, UserHeld, Returned
<1>2. ASSUME NEW p \in Place, freeAddressSpaceNoCache(p)
      PROVE  UNCHANGED <<UserHeld, Asked, Returned, refused>>
  <2> DEFINE n == reserved[p]
  <2>1. n \in Int
    BY <1>2, FreeSpaceStep
  <2>2. /\ deallocRequest' = Count(deallocRequest, n)
        /\ addressSpaceFreed' = Count(addressSpaceFreed, n)
    BY <1>2 DEF freeAddressSpaceNoCache, SysDealloc
  <2> HIDE DEF n
  <2>3. Returned' = Returned
    BY <2>1, <2>2, SeenStats
  <2> QED
    BY <1>2, <2>3 DEF freeAddressSpaceNoCache, SysDealloc, UserHeld, Asked
<1>3. CASE AllocateAddressSpace \/ deinitialize \/ deinitializeEnds
  BY <1>3 DEF AllocateAddressSpace, deinitialize, deinitializeEnds, stats, history,
              UserHeld, Asked, Returned
<1>4. CASE freeNextCached
  BY <1>4 DEF freeNextCached, history, UserHeld, Asked, Returned
<1>5. CASE UNCHANGED vars
  BY <1>5 DEF vars, UserHeld, Asked, Returned
<1> QED
  BY <1>1, <1>2, <1>3, <1>4, <1>5

(***************************************************************************)
(* With or without the cache users get blocks that overlap no other block  *)
(* they hold, and the same statistics of what they asked for and gave      *)
(* back: every step is one of PageAllocator, or none.                      *)
(***************************************************************************)
THEOREM ImplementsPageAllocator == Spec => IsPageAllocator
<1>1. Init => Plain!PageAllocatorInit
  <2> SUFFICES ASSUME Init PROVE Plain!PageAllocatorInit
    OBVIOUS
  <2>1. /\ DOMAIN held = {} /\ DOMAIN raw = {} /\ refused = 0
        /\ allocRequest - committed = 0 /\ deallocRequest - addressSpaceFreed = 0
    BY DEF Init
  <2>2. 0 % Width = 0
    BY WidthAssumption
  <2> QED
    BY <2>1, <2>2 DEF Plain!PageAllocatorInit
<1>2. IInv /\ [Next]_vars =>
        [Plain!PageAllocatorNext]_<<UserHeld, Asked, Returned, refused>>
  <2> SUFFICES ASSUME IInv, [Next]_vars
               PROVE  \/ Plain!PageAllocatorNext
                      \/ UNCHANGED <<UserHeld, Asked, Returned, refused>>
    OBVIOUS
  <2>1. ASSUME NEW sz \in Size,
               \/ getFreeBlockCached(sz) \/ getFreeBlockFromOS(sz)
               \/ getFreeBlockNoCache(sz) \/ getFreeBlockRefused(sz)
        PROVE  Plain!PageAllocatorNext
    BY <2>1, CachedGrants, OSGrants, Refusal
  <2>2. ASSUME NEW p \in Place,
               freeChunkKept(p) \/ freeChunkToOS(p) \/ freeChunkNoCache(p)
        PROVE  Plain!PageAllocatorNext
    BY <2>2, BlocksGoBack
  <2>3. ASSUME \/ \E sz \in Size : CommitMemory(sz)
               \/ \E p \in Place : freeAddressSpaceNoCache(p)
               \/ AllocateAddressSpace \/ deinitialize \/ freeNextCached
               \/ deinitializeEnds \/ UNCHANGED vars
        PROVE  UNCHANGED <<UserHeld, Asked, Returned, refused>>
    BY <2>3, Unseen
  <2> QED
    BY <2>1, <2>2, <2>3 DEF Next
<1>3. IInv /\ [Next]_vars =>
        [Plain!PageAllocatorNext]_<<
          [p \in DOMAIN held \union DOMAIN raw |->
             IF p \in DOMAIN held THEN held[p] ELSE raw[p]],
          (allocRequest - committed) % Width,
          (deallocRequest - addressSpaceFreed) % Width, refused>>
  BY <1>2 DEF UserHeld, Asked, Returned
<1> QED
  BY <1>1, <1>3, Invariance, PTL DEF Spec, IsPageAllocator, Plain!PageAllocatorSpec
=============================================================================
