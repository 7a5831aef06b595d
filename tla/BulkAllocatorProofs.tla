------------------------ MODULE BulkAllocatorProofs ------------------------
(***************************************************************************)
(* Theorems about BulkAllocator for every size of a block, every limit of  *)
(* the chunk sizes and every set of places the OS may give.                *)
(***************************************************************************)
EXTENDS BulkAllocator, FiniteSetTheorems, WellFoundedInduction, TLAPS

(***************************************************************************)
(* The inductive invariant.  The headers are looked at twice.  As chunks   *)
(* of blocks: each lies in one block, starts and ends where its neighbours *)
(* do, and only the last chunk of a block may be marked free or be larger  *)
(* than max_pages; that is why split and merge, which do not tell the      *)
(* chunk that follows, do no harm.  As members of free lists: the links    *)
(* agree both ways and never run in a circle.  Each part is stated for any *)
(* headers, since the operations change them several times.                *)
(***************************************************************************)
HeapOK(h) ==
  /\ DOMAIN h.chunk \subseteq BlockPage
  /\ \A p \in DOMAIN h.chunk : h.chunk[p] \in Header
  /\ h.begin \in [ListIdx -> BlockLink]

Before(p, m, q, n) == p + m <= q \/ q + n <= p

InBlock(c, p, b) ==
  /\ b <= p /\ p + c[p].pageCount <= b + BlockPageCnt
  /\ c[p].next = null <=> p + c[p].pageCount = b + BlockPageCnt
  /\ c[p].prev = null <=> p = b

NextSound(c, p) ==
  c[p].next # null => /\ c[p].next = p + c[p].pageCount
                      /\ c[p].next \in DOMAIN c
                      /\ c[c[p].next].prev = p
                      /\ c[p].pageCount <= MaxPages
                      /\ ~c[p].isFree

PrevSound(c, p) ==
  c[p].prev # null => c[p].prev \in DOMAIN c /\ c[c[p].prev].next = p

ChunksInv(c, bl) ==
  /\ bl \subseteq DOMAIN c
  /\ \A p \in DOMAIN c : /\ \E b \in bl : InBlock(c, p, b)
                         /\ NextSound(c, p)
                         /\ PrevSound(c, p)
  /\ \A p, q \in DOMAIN c :
       p # q => Before(p, c[p].pageCount, q, c[q].pageCount)

ListOf(c, p) == freeListIdx(c[p].pageCount)

HeadSound(h, F, i) ==
  h.begin[i] # null => /\ h.begin[i] \in F
                       /\ ListOf(h.chunk, h.begin[i]) = i
                       /\ h.chunk[h.begin[i]].prevFree = null

LinksSound(h, F, p) ==
  /\ h.chunk[p].prevFree = null => h.begin[ListOf(h.chunk, p)] = p
  /\ h.chunk[p].prevFree # null =>
       /\ h.chunk[p].prevFree \in F
       /\ h.chunk[h.chunk[p].prevFree].nextFree = p
  /\ h.chunk[p].nextFree # null =>
       /\ h.chunk[p].nextFree \in F
       /\ h.chunk[h.chunk[p].nextFree].prevFree = p
       /\ ListOf(h.chunk, h.chunk[p].nextFree) = ListOf(h.chunk, p)

(* The links back of some chunks never leave them: a circle. *)
Circle(c, S) == S # {} /\ \A p \in S : c[p].prevFree \in S

ListsInv(h, F) ==
  /\ F \subseteq DOMAIN h.chunk
  /\ \A i \in ListIdx : HeadSound(h, F, i)
  /\ \A p \in F : LinksSound(h, F, p)
  /\ \A S \in SUBSET F : ~Circle(h.chunk, S)

(* What the OS has given is apart. *)
MappedApart ==
  /\ IsFiniteSet(DOMAIN direct)
  /\ \A b, c \in blocks \union leaked :
       b # c => Before(b, BlockPageCnt, c, BlockPageCnt)
  /\ \A b \in blocks \union leaked, p \in DOMAIN direct :
       Before(b, BlockPageCnt, p, direct[p])
  /\ \A p, q \in DOMAIN direct : p # q => Before(p, direct[p], q, direct[q])

(* Callers hold no large chunk of a block; while all is calm, no small     *)
(* chunk is marked free.                                                   *)
HeldInv ==
  /\ \A p \in live : chunk[p].pageCount <= MaxPages
  /\ calm => /\ status = "ok"
             /\ \A p \in DOMAIN chunk : chunk[p].isFree => chunk[p].pageCount > MaxPages

IInv ==
  /\ TypeOK
  /\ ChunksInv(chunk, blocks)
  /\ ListsInv(Heap, Free)
  /\ MappedApart
  /\ HeldInv

-----------------------------------------------------------------------------
(* Pages are numbers, and null is none of them. *)
LEMMA PageFacts ==
  /\ BlockPageCnt \in Nat /\ MaxPages \in Nat /\ MaxPages > 0
  /\ BlockPageCnt > MaxPages
  /\ null \in Int /\ null \notin Nat
  /\ \A p \in BlockPage : p \in Nat /\ p # null
<1>1. BlockPageCnt \in Nat /\ MaxPages \in Nat /\ MaxPages > 0 /\ BlockPageCnt > MaxPages
  BY BlockPageCntAssumption, MaxPagesAssumption
<1>2. null \in Int /\ null \notin Nat
  BY DEF null
<1>3. \A b \in Places : \A p \in BlockExtent(b) : p \in Nat
  BY <1>1, PlacesAssumption DEF BlockExtent, Pages
<1> QED
  BY <1>1, <1>2, <1>3 DEF BlockPage

(* The list of a chunk is one of the lists; only the last one holds chunks *)
(* of different sizes.                                                     *)
LEMMA ListFacts ==
  ASSUME NEW n \in Nat, n > 0
  PROVE  /\ freeListIdx(n) \in ListIdx
         /\ freeListIdx(n) = MaxPages <=> n > MaxPages
         /\ freeListIdx(n) # MaxPages => n = freeListIdx(n) + 1
  BY PageFacts DEF freeListIdx, ListIdx

(* The types of the parts of a header. *)
LEMMA HeaderFacts ==
  ASSUME NEW h, HeapOK(h), NEW p \in DOMAIN h.chunk
  PROVE  /\ p \in Nat /\ p # null
         /\ h.chunk[p].prev \in BlockLink /\ h.chunk[p].next \in BlockLink
         /\ h.chunk[p].prevFree \in BlockLink /\ h.chunk[p].nextFree \in BlockLink
         /\ h.chunk[p].pageCount \in Nat /\ h.chunk[p].pageCount > 0
         /\ h.chunk[p].pageCount <= BlockPageCnt
         /\ h.chunk[p].isFree \in BOOLEAN
         /\ ListOf(h.chunk, p) \in ListIdx
<1>1. h.chunk[p] \in Header /\ p \in BlockPage
  BY DEF HeapOK
<1>2. h.chunk[p].pageCount \in 1 .. BlockPageCnt
  BY <1>1 DEF Header
<1>3. h.chunk[p].pageCount \in Nat /\ h.chunk[p].pageCount > 0
      /\ h.chunk[p].pageCount <= BlockPageCnt
  BY <1>2, PageFacts
<1> QED
  BY <1>1, <1>3, PageFacts, ListFacts DEF Header, ListOf

(* Free lists change, the chunks stay what they are. *)
SameChunks(c, d) ==
  /\ DOMAIN d = DOMAIN c
  /\ \A q \in DOMAIN c : /\ d[q].prev = c[q].prev
                         /\ d[q].next = c[q].next
                         /\ d[q].pageCount = c[q].pageCount
                         /\ d[q].isFree = c[q].isFree

(* Header c[q] with new links of its free list. *)
Relinked(c, d, q, before, after) ==
  d[q] = [c[q] EXCEPT !.prevFree = before, !.nextFree = after]

(* A relinked header is a header, and only its links differ. *)
LEMMA RelinkedFacts ==
  ASSUME NEW c, NEW d, NEW q, c[q] \in Header,
         NEW before \in BlockLink, NEW after \in BlockLink,
         Relinked(c, d, q, before, after)
  PROVE  /\ d[q] \in Header
         /\ d[q].prev = c[q].prev /\ d[q].next = c[q].next
         /\ d[q].pageCount = c[q].pageCount /\ d[q].isFree = c[q].isFree
         /\ d[q].prevFree = before /\ d[q].nextFree = after
  BY DEF Relinked, Header

(* pushFree adds a chunk to its free list, and changes no chunk. *)
LEMMA PushFree ==
  ASSUME NEW h, NEW F, HeapOK(h), ListsInv(h, F),
         NEW p \in DOMAIN h.chunk, p \notin F
  PROVE  LET g == pushFree(h, p)
         IN  HeapOK(g) /\ SameChunks(h.chunk, g.chunk) /\ ListsInv(g, F \union {p})
<1> DEFINE g == pushFree(h, p)
           i == freeListIdx(h.chunk[p].pageCount)
           first == h.begin[i]
           c == h.chunk
           d == g.chunk
<1>1. /\ i \in ListIdx /\ i = ListOf(c, p) /\ p \in Nat /\ p # null
      /\ p \in BlockPage /\ first \in BlockLink
  BY HeaderFacts DEF ListOf, HeapOK
<1>2. /\ first # null => first \in F /\ first # p /\ ListOf(c, first) = i
                         /\ c[first].prevFree = null
      /\ F \subseteq DOMAIN c
  BY <1>1 DEF ListsInv, HeadSound
<1>3. DOMAIN d = DOMAIN c /\ g.begin = [h.begin EXCEPT ![i] = p]
  BY DEF pushFree
<1>4. ASSUME NEW q \in DOMAIN c
      PROVE  Relinked(c, d, q,
               IF q = p THEN null ELSE IF q = first THEN p ELSE c[q].prevFree,
               IF q = p THEN first ELSE c[q].nextFree)
  <2>1. c[q] \in Header
    BY DEF HeapOK
  <2>2. CASE q = p
    BY <1>1, <1>2, <2>1, <2>2 DEF pushFree, Relinked, Header
  <2>3. CASE q # p /\ q = first
    BY <1>1, <1>2, <2>1, <2>3, HeaderFacts DEF pushFree, Relinked, Header
  <2>4. CASE q # p /\ q # first
    BY <1>1, <1>2, <2>1, <2>4 DEF pushFree, Relinked, Header
  <2> QED
    BY <2>2, <2>3, <2>4
<1> HIDE DEF g, i, first
<1>5. ASSUME NEW q \in DOMAIN c
      PROVE  /\ d[q] \in Header
             /\ d[q].prev = c[q].prev /\ d[q].next = c[q].next
             /\ d[q].pageCount = c[q].pageCount /\ d[q].isFree = c[q].isFree
             /\ d[q].prevFree = IF q = p THEN null ELSE IF q = first THEN p
                                                        ELSE c[q].prevFree
             /\ d[q].nextFree = IF q = p THEN first ELSE c[q].nextFree
             /\ ListOf(d, q) = ListOf(c, q)
  <2>1. c[q] \in Header /\ c[q].prevFree \in BlockLink /\ c[q].nextFree \in BlockLink
    BY HeaderFacts DEF HeapOK
  <2> DEFINE before == IF q = p THEN null ELSE IF q = first THEN p ELSE c[q].prevFree
             after == IF q = p THEN first ELSE c[q].nextFree
  <2>2. before \in BlockLink /\ after \in BlockLink
    BY <1>1, <2>1 DEF BlockLink
  <2>3. Relinked(c, d, q, before, after)
    BY <1>4
  <2> HIDE DEF before, after
  <2>4. /\ d[q] \in Header
        /\ d[q].prev = c[q].prev /\ d[q].next = c[q].next
        /\ d[q].pageCount = c[q].pageCount /\ d[q].isFree = c[q].isFree
        /\ d[q].prevFree = before /\ d[q].nextFree = after
    <3> HIDE DEF c, d
    <3> QED
      BY <2>1, <2>2, <2>3, RelinkedFacts
  <2>5. ListOf(d, q) = ListOf(c, q)
    BY <2>4 DEF ListOf
  <2> QED
    BY <2>4, <2>5 DEF before, after
<1>6. SameChunks(c, d)
  BY <1>3, <1>5 DEF SameChunks
<1>7. g.begin \in [ListIdx -> BlockLink] /\ g.begin[i] = p
      /\ \A j \in ListIdx : j # i => g.begin[j] = h.begin[j]
  BY <1>1, <1>3 DEF HeapOK, BlockLink
<1>8. HeapOK(g)
  BY <1>3, <1>5, <1>7 DEF HeapOK
<1>9. ASSUME NEW j \in ListIdx
      PROVE  HeadSound(g, F \union {p}, j)
  <2>1. CASE j = i
    BY <1>1, <1>5, <1>7, <2>1 DEF HeadSound
  <2>2. CASE j # i /\ h.begin[j] # null
    <3>1. /\ h.begin[j] \in F /\ ListOf(c, h.begin[j]) = j
          /\ c[h.begin[j]].prevFree = null
      BY <2>2 DEF ListsInv, HeadSound
    <3>2. h.begin[j] \in DOMAIN c /\ h.begin[j] # p /\ h.begin[j] # first
      BY <1>2, <2>2, <3>1
    <3> QED
      BY <1>5, <1>7, <2>2, <3>1, <3>2 DEF HeadSound
  <2>3. CASE j # i /\ h.begin[j] = null
    BY <1>7, <2>3 DEF HeadSound
  <2> QED
    BY <2>1, <2>2, <2>3
<1>10. ASSUME NEW q \in F \union {p}
       PROVE  LinksSound(g, F \union {p}, q)
  <2>1. CASE q = p
    <3>1. d[p].prevFree = null /\ d[p].nextFree = first /\ ListOf(d, p) = i
      BY <1>1, <1>5
    <3>2. first # null => first \in F /\ d[first].prevFree = p /\ ListOf(d, first) = i
      BY <1>2, <1>5
    <3> QED
      BY <1>1, <1>7, <2>1, <3>1, <3>2 DEF LinksSound
  <2>2. CASE q # p
    <3>1. q \in F /\ q \in DOMAIN c /\ q # null /\ LinksSound(h, F, q)
      BY <1>2, <2>2, HeaderFacts DEF ListsInv
    <3>2. ListOf(d, q) = ListOf(c, q) /\ ListOf(c, q) \in ListIdx
      BY <1>5, <3>1, HeaderFacts
    <3>3. ASSUME d[q].prevFree = null
          PROVE  g.begin[ListOf(d, q)] = q
      <4>1. q # first /\ c[q].prevFree = null
        BY <1>1, <1>5, <2>2, <3>1, <3>3
      <4>2. h.begin[ListOf(c, q)] = q
        BY <3>1, <4>1 DEF LinksSound
      <4>3. ListOf(c, q) # i
        BY <4>1, <4>2 DEF first
      <4> QED
        BY <1>7, <3>2, <4>2, <4>3
    <3>4. ASSUME d[q].prevFree # null
          PROVE  d[q].prevFree \in F \union {p} /\ d[d[q].prevFree].nextFree = q
      <4>1. CASE q = first
        BY <1>1, <1>5, <2>2, <3>1, <4>1
      <4>2. CASE q # first
        <5>1. d[q].prevFree = c[q].prevFree /\ c[q].prevFree \in F
              /\ c[c[q].prevFree].nextFree = q
          BY <1>5, <2>2, <3>1, <3>4, <4>2 DEF LinksSound
        <5> QED
          BY <1>2, <1>5, <5>1
      <4> QED
        BY <4>1, <4>2
    <3>5. ASSUME d[q].nextFree # null
          PROVE  /\ d[q].nextFree \in F \union {p}
                 /\ d[d[q].nextFree].prevFree = q
                 /\ ListOf(d, d[q].nextFree) = ListOf(d, q)
      <4>1. /\ d[q].nextFree = c[q].nextFree /\ c[q].nextFree \in F
            /\ c[c[q].nextFree].prevFree = q
            /\ ListOf(c, c[q].nextFree) = ListOf(c, q)
        BY <1>5, <2>2, <3>1, <3>5 DEF LinksSound
      <4>2. c[q].nextFree # first /\ c[q].nextFree # p /\ c[q].nextFree \in DOMAIN c
        BY <1>2, <3>1, <3>5, <4>1
      <4> QED
        BY <1>5, <3>1, <4>1, <4>2
    <3> QED
      BY <3>3, <3>4, <3>5 DEF LinksSound
  <2> QED
    BY <2>1, <2>2
<1>11. ASSUME NEW S \in SUBSET (F \union {p}), Circle(d, S)
       PROVE  FALSE
  <2>1. p \notin S
    <3>1. SUFFICES ASSUME p \in S PROVE FALSE
      OBVIOUS
    <3>2. d[p].prevFree = null
      BY <1>5
    <3> QED
      BY <1>1, <1>2, <1>11, <3>1, <3>2, HeaderFacts DEF Circle
  <2>2. first \notin S
    BY <1>2, <1>5, <1>11, <2>1 DEF Circle
  <2>3. S \in SUBSET F /\ \A q \in S : d[q].prevFree = c[q].prevFree
    BY <1>2, <1>5, <1>11, <2>1, <2>2
  <2> QED
    BY <1>11, <2>3 DEF Circle, ListsInv
<1>12. ListsInv(g, F \union {p})
  BY <1>2, <1>3, <1>9, <1>10, <1>11 DEF ListsInv
<1> QED
  BY <1>6, <1>8, <1>12 DEF g

(* Chunk p of a free list is by-passed: its neighbours in the list, or the *)
(* list's head, are linked to each other.                                  *)
Bypassed(h, g, p) ==
  LET before == h.chunk[p].prevFree
      after  == h.chunk[p].nextFree
  IN  /\ \A q \in DOMAIN h.chunk \ {p} :
           /\ g.chunk[q].prevFree = IF q = after THEN before ELSE h.chunk[q].prevFree
           /\ g.chunk[q].nextFree = IF q = before THEN after ELSE h.chunk[q].nextFree
      /\ g.begin = IF before = null
                     THEN [h.begin EXCEPT ![ListOf(h.chunk, p)] = after]
                     ELSE h.begin

(* A chunk that is by-passed leaves the free lists. *)
LEMMA BypassedLeaves ==
  ASSUME NEW h, NEW F, HeapOK(h), ListsInv(h, F), NEW p \in F,
         NEW g, SameChunks(h.chunk, g.chunk), Bypassed(h, g, p)
  PROVE  /\ g.begin \in [ListIdx -> BlockLink]
         /\ ListsInv(g, F \ {p})
<1> DEFINE c == h.chunk
           d == g.chunk
           i == ListOf(c, p)
           before == c[p].prevFree
           after == c[p].nextFree
<1>1. /\ F \subseteq DOMAIN c /\ DOMAIN d = DOMAIN c
      /\ \A q \in F : q \in DOMAIN c /\ q # null /\ ListOf(c, q) \in ListIdx
      /\ \A q \in DOMAIN c : ListOf(d, q) = ListOf(c, q)
      /\ before \in BlockLink /\ after \in BlockLink
  <2>1. F \subseteq DOMAIN c
    BY DEF ListsInv
  <2> QED
    BY <2>1, HeaderFacts DEF SameChunks, ListOf
<1>2. /\ before = null => h.begin[i] = p
      /\ before # null => before \in F /\ c[before].nextFree = p
      /\ after # null => /\ after \in F /\ c[after].prevFree = p
                         /\ ListOf(c, after) = i
  BY DEF ListsInv, LinksSound
<1>3. before # p
  <2>1. SUFFICES ASSUME before = p PROVE FALSE
    OBVIOUS
  <2>2. Circle(c, {p})
    BY <2>1 DEF Circle
  <2> QED
    BY <2>2 DEF ListsInv
<1>4. after # p
  BY <1>1, <1>2, <1>3
<1>5. before = after => before = null
  <2>1. SUFFICES ASSUME before = after, before # null PROVE FALSE
    OBVIOUS
  <2>2. Circle(c, {p, before})
    BY <1>2, <2>1 DEF Circle
  <2> QED
    BY <1>2, <2>1, <2>2 DEF ListsInv
<1>6. \A q \in DOMAIN c \ {p} :
        /\ d[q].prevFree = IF q = after THEN before ELSE c[q].prevFree
        /\ d[q].nextFree = IF q = before THEN after ELSE c[q].nextFree
  BY DEF Bypassed
<1>7. /\ g.begin \in [ListIdx -> BlockLink]
      /\ g.begin[i] = IF before = null THEN after ELSE h.begin[i]
      /\ \A j \in ListIdx : j # i => g.begin[j] = h.begin[j]
  BY <1>1 DEF Bypassed, HeapOK
<1> HIDE DEF i, before, after
<1>8. ASSUME NEW j \in ListIdx, g.begin[j] # null
      PROVE  /\ g.begin[j] \in F \ {p} /\ ListOf(d, g.begin[j]) = j
             /\ d[g.begin[j]].prevFree = null
  <2>1. CASE j = i /\ before = null
    BY <1>1, <1>2, <1>4, <1>6, <1>7, <1>8, <2>1
  <2>2. CASE j = i /\ before # null
    <3>1. h.begin[j] # p
      BY <1>1, <2>2 DEF ListsInv, HeadSound, before, i
    <3>2. /\ g.begin[j] = h.begin[j] /\ h.begin[j] \in F
          /\ ListOf(c, h.begin[j]) = j /\ c[h.begin[j]].prevFree = null
      BY <1>7, <1>8, <2>2 DEF ListsInv, HeadSound
    <3>3. h.begin[j] # after
      BY <1>1, <1>2, <3>1, <3>2
    <3> QED
      BY <1>1, <1>6, <3>1, <3>2, <3>3
  <2>3. CASE j # i
    <3>1. /\ g.begin[j] = h.begin[j] /\ h.begin[j] \in F
          /\ ListOf(c, h.begin[j]) = j /\ c[h.begin[j]].prevFree = null
      BY <1>7, <1>8, <2>3 DEF ListsInv, HeadSound
    <3>2. h.begin[j] # p /\ h.begin[j] # after
      BY <1>1, <1>2, <2>3, <3>1 DEF i
    <3> QED
      BY <1>1, <1>6, <3>1, <3>2
  <2> QED
    BY <2>1, <2>2, <2>3
<1>9. ASSUME NEW q \in F \ {p}
      PROVE  LinksSound(g, F \ {p}, q)
  <2>1. LinksSound(h, F, q) /\ q \in F /\ q \in DOMAIN c /\ q # p /\ q # null
    BY <1>1 DEF ListsInv
  <2>2. ListOf(d, q) = ListOf(c, q) /\ ListOf(c, q) \in ListIdx
    BY <1>1, <2>1
  <2>3. ASSUME d[q].prevFree = null
        PROVE  g.begin[ListOf(d, q)] = q
    <3>1. CASE q = after
      BY <1>1, <1>2, <1>6, <1>7, <2>1, <2>2, <2>3, <3>1
    <3>2. CASE q # after
      <4>1. h.begin[ListOf(c, q)] = q
        BY <1>6, <2>1, <2>3, <3>2 DEF LinksSound
      <4> QED
        BY <1>2, <1>7, <2>1, <2>2, <4>1
    <3> QED
      BY <3>1, <3>2
  <2>4. ASSUME d[q].prevFree # null
        PROVE  d[q].prevFree \in F \ {p} /\ d[d[q].prevFree].nextFree = q
    <3>1. CASE q = after
      BY <1>1, <1>2, <1>3, <1>6, <2>1, <2>4, <3>1
    <3>2. CASE q # after
      <4>1. /\ d[q].prevFree = c[q].prevFree /\ c[q].prevFree \in F
            /\ c[c[q].prevFree].nextFree = q
        BY <1>6, <2>1, <2>4, <3>2 DEF LinksSound
      <4>2. c[q].prevFree # p /\ c[q].prevFree # before
        BY <1>1, <1>2, <2>1, <3>2, <4>1 DEF after, before
      <4> QED
        BY <1>1, <1>6, <4>1, <4>2
    <3> QED
      BY <3>1, <3>2
  <2>5. ASSUME d[q].nextFree # null
        PROVE  /\ d[q].nextFree \in F \ {p} /\ d[d[q].nextFree].prevFree = q
               /\ ListOf(d, d[q].nextFree) = ListOf(d, q)
    <3>1. CASE q = before
      <4>1. ListOf(c, q) = i
        BY <1>1, <1>2, <2>1, <3>1 DEF LinksSound, i
      <4> QED
        BY <1>1, <1>2, <1>4, <1>6, <2>1, <2>2, <2>5, <3>1, <4>1
    <3>2. CASE q # before
      <4>1. /\ d[q].nextFree = c[q].nextFree /\ c[q].nextFree \in F
            /\ c[c[q].nextFree].prevFree = q
            /\ ListOf(c, c[q].nextFree) = ListOf(c, q)
        BY <1>6, <2>1, <2>5, <3>2 DEF LinksSound
      <4>2. c[q].nextFree # p /\ c[q].nextFree # after
        BY <1>1, <1>2, <2>1, <3>2, <4>1 DEF after, before
      <4> QED
        BY <1>1, <1>6, <2>1, <4>1, <4>2
    <3> QED
      BY <3>1, <3>2
  <2> QED
    BY <2>3, <2>4, <2>5 DEF LinksSound
<1>10. ASSUME NEW S \in SUBSET (F \ {p}), Circle(d, S)
       PROVE  FALSE
  <2>1. \A q \in S : q \in DOMAIN c \ {p} /\ d[q].prevFree \in S
    BY <1>1, <1>10 DEF Circle
  <2>2. CASE after \in S
    <3>1. Circle(c, S \union {p})
      <4>1. c[p].prevFree \in S
        BY <1>6, <2>1, <2>2 DEF before
      <4>2. \A q \in S : q # after => c[q].prevFree \in S
        BY <1>6, <2>1
      <4>3. c[after].prevFree = p
        BY <1>1, <1>2, <1>10, <2>2
      <4> QED
        BY <4>1, <4>2, <4>3 DEF Circle
    <3> QED
      BY <3>1 DEF ListsInv
  <2>3. CASE after \notin S
    <3>1. Circle(c, S)
      BY <1>6, <1>10, <2>1, <2>3 DEF Circle
    <3> QED
      BY <3>1 DEF ListsInv
  <2> QED
    BY <2>2, <2>3
<1> QED
  BY <1>1, <1>7, <1>8, <1>9, <1>10 DEF ListsInv, HeadSound

(* popFree by-passes the first chunk of a list. *)
LEMMA PopFree ==
  ASSUME NEW h, NEW F, HeapOK(h), ListsInv(h, F),
         NEW i \in ListIdx, h.begin[i] # null
  PROVE  LET p == h.begin[i]
             g == popFree(h, i)
         IN  /\ p \in F /\ p \in DOMAIN h.chunk /\ ListOf(h.chunk, p) = i
             /\ HeapOK(g) /\ SameChunks(h.chunk, g.chunk)
             /\ ListsInv(g, F \ {p})
<1> DEFINE p == h.begin[i]
           g == popFree(h, i)
           c == h.chunk
           d == g.chunk
           next == c[p].nextFree
<1>1. /\ p \in F /\ p \in DOMAIN c /\ ListOf(c, p) = i /\ c[p].prevFree = null
      /\ p # null /\ next \in BlockLink
  <2>1. /\ p \in F /\ p \in DOMAIN c /\ ListOf(c, p) = i /\ c[p].prevFree = null
    BY DEF ListsInv, HeadSound
  <2> QED
    BY <2>1, HeaderFacts
<1>2. next # null => next \in F /\ c[next].prevFree = p /\ next # p /\ next \in DOMAIN c
  BY <1>1 DEF ListsInv, LinksSound
<1>3. DOMAIN d = DOMAIN c /\ g.begin = [h.begin EXCEPT ![i] = next]
  BY DEF popFree
<1>4. ASSUME NEW q \in DOMAIN c
      PROVE  Relinked(c, d, q,
               IF q = p \/ q = next THEN null ELSE c[q].prevFree,
               IF q = p THEN null ELSE c[q].nextFree)
  <2>1. c[q] \in Header /\ q # null
    BY HeaderFacts DEF HeapOK
  <2>2. CASE q = p
    BY <1>1, <1>2, <2>1, <2>2 DEF popFree, Relinked, Header
  <2>3. CASE q # p /\ q = next
    BY <1>1, <1>2, <2>1, <2>3 DEF popFree, Relinked, Header
  <2>4. CASE q # p /\ q # next
    BY <1>1, <1>2, <2>1, <2>4 DEF popFree, Relinked, Header
  <2> QED
    BY <2>2, <2>3, <2>4
<1> HIDE DEF g
<1>5. ASSUME NEW q \in DOMAIN c
      PROVE  /\ d[q] \in Header
             /\ d[q].prev = c[q].prev /\ d[q].next = c[q].next
             /\ d[q].pageCount = c[q].pageCount /\ d[q].isFree = c[q].isFree
             /\ d[q].prevFree = IF q = p \/ q = next THEN null ELSE c[q].prevFree
             /\ d[q].nextFree = IF q = p THEN null ELSE c[q].nextFree
  <2>1. c[q] \in Header /\ c[q].prevFree \in BlockLink /\ c[q].nextFree \in BlockLink
    BY HeaderFacts DEF HeapOK
  <2> DEFINE b == IF q = p \/ q = next THEN null ELSE c[q].prevFree
             a == IF q = p THEN null ELSE c[q].nextFree
  <2>2. b \in BlockLink /\ a \in BlockLink
    BY <2>1 DEF BlockLink
  <2>3. Relinked(c, d, q, b, a)
    BY <1>4
  <2> HIDE DEF b, a
  <2>4. /\ d[q] \in Header
        /\ d[q].prev = c[q].prev /\ d[q].next = c[q].next
        /\ d[q].pageCount = c[q].pageCount /\ d[q].isFree = c[q].isFree
        /\ d[q].prevFree = b /\ d[q].nextFree = a
    BY <2>1, <2>2, <2>3 DEF Relinked, Header
  <2> QED
    BY <2>4 DEF a, b
<1>6. SameChunks(c, d)
  BY <1>3, <1>5 DEF SameChunks
<1>7. Bypassed(h, g, p)
  <2>1. \A q \in DOMAIN c \ {p} : q # null
    BY HeaderFacts
  <2> QED
    BY <1>1, <1>3, <1>5, <2>1 DEF Bypassed
<1>8. HeapOK(g) /\ ListsInv(g, F \ {p})
  <2>1. g.begin \in [ListIdx -> BlockLink] /\ ListsInv(g, F \ {p})
    BY <1>1, <1>6, <1>7, BypassedLeaves
  <2> QED
    BY <1>3, <1>5, <2>1 DEF HeapOK
<1> QED
  BY <1>1, <1>6, <1>8 DEF g

(* removeFromFreeList by-passes a chunk anywhere in its list. *)
LEMMA RemoveFromFreeList ==
  ASSUME NEW h, NEW F, HeapOK(h), ListsInv(h, F), NEW p \in F
  PROVE  LET g == removeFromFreeList(h, p)
         IN  /\ HeapOK(g) /\ SameChunks(h.chunk, g.chunk)
             /\ ListsInv(g, F \ {p})
<1> DEFINE g == removeFromFreeList(h, p)
           c == h.chunk
           d == g.chunk
           before == c[p].prevFree
           after == c[p].nextFree
<1>1. /\ p \in DOMAIN c /\ before \in BlockLink /\ after \in BlockLink
      /\ \A q \in DOMAIN c : q # null
  <2>1. p \in DOMAIN c
    BY DEF ListsInv
  <2> QED
    BY <2>1, HeaderFacts
<1>2. ~(before = after /\ before # null)
  <2>1. SUFFICES ASSUME before = after, before # null PROVE FALSE
    OBVIOUS
  <2>2. /\ before \in F /\ c[before].nextFree = p /\ c[before].prevFree = p
    BY <2>1 DEF ListsInv, LinksSound
  <2>3. Circle(c, {p, before})
    BY <2>2 DEF Circle
  <2> QED
    BY <2>2, <2>3 DEF ListsInv
<1>3. /\ DOMAIN d = DOMAIN c
      /\ g.begin = IF before = null THEN [h.begin EXCEPT ![ListOf(c, p)] = after]
                                    ELSE h.begin
  BY DEF removeFromFreeList, ListOf
<1>4. ASSUME NEW q \in DOMAIN c
      PROVE  Relinked(c, d, q,
               IF q = after THEN before ELSE c[q].prevFree,
               IF q = before THEN after ELSE c[q].nextFree)
  <2>1. c[q] \in Header
    BY DEF HeapOK
  <2>2. CASE q = before
    BY <1>1, <1>2, <2>1, <2>2 DEF removeFromFreeList, Relinked, Header
  <2>3. CASE q # before /\ q = after
    BY <1>1, <1>2, <2>1, <2>3 DEF removeFromFreeList, Relinked, Header
  <2>4. CASE q # before /\ q # after
    BY <1>1, <1>2, <2>1, <2>4 DEF removeFromFreeList, Relinked, Header
  <2> QED
    BY <2>2, <2>3, <2>4
<1> HIDE DEF g
<1>5. ASSUME NEW q \in DOMAIN c
      PROVE  /\ d[q] \in Header
             /\ d[q].prev = c[q].prev /\ d[q].next = c[q].next
             /\ d[q].pageCount = c[q].pageCount /\ d[q].isFree = c[q].isFree
             /\ d[q].prevFree = IF q = after THEN before ELSE c[q].prevFree
             /\ d[q].nextFree = IF q = before THEN after ELSE c[q].nextFree
  <2>1. c[q] \in Header /\ c[q].prevFree \in BlockLink /\ c[q].nextFree \in BlockLink
    BY HeaderFacts DEF HeapOK
  <2> DEFINE b == IF q = after THEN before ELSE c[q].prevFree
             a == IF q = before THEN after ELSE c[q].nextFree
  <2>2. b \in BlockLink /\ a \in BlockLink
    BY <1>1, <2>1 DEF BlockLink
  <2>3. Relinked(c, d, q, b, a)
    BY <1>4
  <2> HIDE DEF b, a
  <2>4. /\ d[q] \in Header
        /\ d[q].prev = c[q].prev /\ d[q].next = c[q].next
        /\ d[q].pageCount = c[q].pageCount /\ d[q].isFree = c[q].isFree
        /\ d[q].prevFree = b /\ d[q].nextFree = a
    BY <2>1, <2>2, <2>3 DEF Relinked, Header
  <2> QED
    BY <2>4 DEF a, b
<1>6. SameChunks(c, d)
  BY <1>3, <1>5 DEF SameChunks
<1>7. Bypassed(h, g, p)
  BY <1>3, <1>5 DEF Bypassed
<1>8. HeapOK(g) /\ ListsInv(g, F \ {p})
  <2>1. g.begin \in [ListIdx -> BlockLink] /\ ListsInv(g, F \ {p})
    BY <1>6, <1>7, BypassedLeaves
  <2> QED
    BY <1>3, <1>5, <2>1 DEF HeapOK
<1> QED
  BY <1>6, <1>8 DEF g

(* Headers that agree on the chunks of the lists and their links have the  *)
(* same lists.                                                             *)
LEMMA ListsFrame ==
  ASSUME NEW h, NEW g, NEW F, ListsInv(h, F), HeapOK(h),
         F \subseteq DOMAIN g.chunk, g.begin = h.begin,
         \A q \in F : /\ g.chunk[q].pageCount = h.chunk[q].pageCount
                      /\ g.chunk[q].prevFree = h.chunk[q].prevFree
                      /\ g.chunk[q].nextFree = h.chunk[q].nextFree
  PROVE  ListsInv(g, F)
<1>1. \A q \in F : ListOf(g.chunk, q) = ListOf(h.chunk, q)
  BY DEF ListOf
<1>2. \A i \in ListIdx : HeadSound(g, F, i)
  BY <1>1 DEF ListsInv, HeadSound
<1>3. ASSUME NEW q \in F
      PROVE  LinksSound(g, F, q)
  BY <1>1 DEF ListsInv, LinksSound
<1>4. \A S \in SUBSET F : Circle(g.chunk, S) => Circle(h.chunk, S)
  BY DEF Circle
<1> QED
  BY <1>2, <1>3, <1>4 DEF ListsInv

(* What is said of the chunks does not depend on the free lists. *)
LEMMA ChunksFrame ==
  ASSUME NEW c, NEW d, NEW bl, ChunksInv(c, bl), SameChunks(c, d)
  PROVE  ChunksInv(d, bl)
<1>1. \A p \in DOMAIN c : \A b \in bl : InBlock(c, p, b) => InBlock(d, p, b)
  BY DEF SameChunks, InBlock
<1>2. \A p \in DOMAIN c : NextSound(c, p) => NextSound(d, p)
  BY DEF SameChunks, NextSound
<1>3. \A p \in DOMAIN c : PrevSound(c, p) => PrevSound(d, p)
  BY DEF SameChunks, PrevSound
<1> QED
  BY <1>1, <1>2, <1>3 DEF SameChunks, ChunksInv

BlocksApart(bl) ==
  /\ bl \subseteq Nat
  /\ \A b, c \in bl : b # c => Before(b, BlockPageCnt, c, BlockPageCnt)

ChunkTypes(c) ==
  \A q \in DOMAIN c :
    /\ q \in Nat
    /\ c[q].pageCount \in Nat /\ c[q].pageCount > 0
    /\ c[q].prev \in Nat \union {null} /\ c[q].next \in Nat \union {null}

(* The headers of a heap have page counts and links. *)
LEMMA HeapChunkTypes ==
  ASSUME NEW h, HeapOK(h)
  PROVE  ChunkTypes(h.chunk)
<1>1. BlockLink \subseteq Nat \union {null}
  BY PageFacts DEF BlockLink
<1> QED
  BY <1>1, HeaderFacts DEF ChunkTypes

(* Chunk p of c is cut after n pages. *)
IsCut(c, d, p, n) ==
  /\ DOMAIN d = DOMAIN c \union {p + n}
  /\ d[p].prev = c[p].prev /\ d[p].next = p + n
  /\ d[p].pageCount = n /\ d[p].isFree = FALSE
  /\ d[p + n].prev = p /\ d[p + n].next = c[p].next
  /\ d[p + n].pageCount = c[p].pageCount - n /\ d[p + n].isFree = TRUE
  /\ \A q \in DOMAIN c \ {p} :
       /\ d[q].prev = c[q].prev /\ d[q].next = c[q].next
       /\ d[q].pageCount = c[q].pageCount /\ d[q].isFree = c[q].isFree

(* Cutting the last chunk of a block leaves well linked chunks. *)
LEMMA CutChunks ==
  ASSUME NEW c, NEW d, NEW bl, ChunksInv(c, bl), ChunkTypes(c),
         BlocksApart(bl), NEW p \in DOMAIN c, NEW n \in 1 .. MaxPages,
         c[p].pageCount > MaxPages,
         p + n \notin DOMAIN c => IsCut(c, d, p, n)
  PROVE  p + n \notin DOMAIN c /\ c[p].next = null /\ ChunksInv(d, bl)
<1> DEFINE r == p + n
<1>1. /\ p \in Nat /\ c[p].pageCount \in Nat /\ n \in Nat /\ n > 0
      /\ n < c[p].pageCount /\ r \in Nat /\ r = p + n /\ p < r /\ n <= MaxPages
      /\ MaxPages \in Nat /\ BlockPageCnt \in Nat
  BY PageFacts DEF ChunkTypes
<1>2. r \notin DOMAIN c
  <2>1. SUFFICES ASSUME r \in DOMAIN c PROVE FALSE
    OBVIOUS
  <2>2. Before(p, c[p].pageCount, r, c[r].pageCount) /\ c[r].pageCount \in Nat
    BY <1>1, <2>1 DEF ChunksInv, ChunkTypes
  <2> QED
    BY <1>1, <2>2 DEF Before
<1>3. c[p].next = null
  BY <1>1 DEF ChunksInv, NextSound
<1>4. IsCut(c, d, p, n)
  BY <1>2
<1>5. /\ DOMAIN d = DOMAIN c \union {r}
      /\ d[p].prev = c[p].prev /\ d[p].next = r
      /\ d[p].pageCount = n /\ d[p].isFree = FALSE
      /\ d[r].prev = p /\ d[r].next = null
      /\ d[r].pageCount = c[p].pageCount - n /\ d[r].isFree = TRUE
      /\ \A q \in DOMAIN c \ {p} :
           /\ d[q].prev = c[q].prev /\ d[q].next = c[q].next
           /\ d[q].pageCount = c[q].pageCount /\ d[q].isFree = c[q].isFree
  BY <1>3, <1>4 DEF IsCut
<1>6. null # p /\ null # r /\ null \notin DOMAIN c
  BY <1>1, PageFacts DEF ChunkTypes
<1> HIDE DEF r
<1>7. ASSUME NEW q \in DOMAIN d
      PROVE  \E b \in bl : InBlock(d, q, b)
  <2>1. CASE q \in DOMAIN c \ {p}
    BY <1>5, <2>1 DEF ChunksInv, InBlock
  <2>2. PICK b \in bl : InBlock(c, p, b)
    BY DEF ChunksInv
  <2>3. b \in Nat
    BY DEF BlocksApart
  <2>4. CASE q = p
    <3>1. InBlock(d, p, b)
      BY <1>1, <1>5, <1>6, <2>2, <2>3 DEF InBlock
    <3> QED
      BY <2>4, <3>1
  <2>5. CASE q = r
    <3>1. InBlock(d, r, b)
      BY <1>1, <1>3, <1>5, <1>6, <2>2, <2>3 DEF InBlock
    <3> QED
      BY <2>5, <3>1
  <2> QED
    BY <1>5, <2>1, <2>4, <2>5
<1>8. ASSUME NEW q \in DOMAIN d
      PROVE  NextSound(d, q)
  <2>1. CASE q = p
    BY <1>1, <1>5, <2>1 DEF NextSound
  <2>2. CASE q = r
    BY <1>5, <2>2 DEF NextSound
  <2>3. CASE q \in DOMAIN c \ {p}
    <3>1. NextSound(c, q)
      BY <2>3 DEF ChunksInv
    <3>2. c[q].next # null => d[c[q].next].prev = c[c[q].next].prev
      BY <1>5, <3>1 DEF NextSound
    <3> QED
      BY <1>5, <2>3, <3>1, <3>2 DEF NextSound
  <2> QED
    BY <1>5, <2>1, <2>2, <2>3
<1>9. ASSUME NEW q \in DOMAIN d
      PROVE  PrevSound(d, q)
  <2>1. CASE q = r
    BY <1>5, <2>1 DEF PrevSound
  <2>2. CASE q \in DOMAIN c
    <3>1. PrevSound(c, q) /\ d[q].prev = c[q].prev
      BY <1>5, <2>2 DEF ChunksInv
    <3>2. c[q].prev # null => c[q].prev # p /\ d[c[q].prev].next = q
      BY <1>3, <1>5, <1>6, <2>2, <3>1 DEF PrevSound
    <3> QED
      BY <1>5, <3>1, <3>2 DEF PrevSound
  <2> QED
    BY <1>5, <2>1, <2>2
<1>10. ASSUME NEW x \in DOMAIN d, NEW y \in DOMAIN d, x # y
       PROVE  Before(x, d[x].pageCount, y, d[y].pageCount)
  <2>1. \A q \in DOMAIN c \ {p} :
          /\ q \in Nat /\ c[q].pageCount \in Nat
          /\ Before(p, c[p].pageCount, q, c[q].pageCount)
          /\ d[q].pageCount = c[q].pageCount
    BY <1>5 DEF ChunksInv, ChunkTypes
  <2>2. \A q \in DOMAIN c \ {p} :
          /\ Before(p, n, q, c[q].pageCount)
          /\ Before(r, c[p].pageCount - n, q, c[q].pageCount)
    BY <1>1, <2>1 DEF Before
  <2>3. Before(p, n, r, c[p].pageCount - n)
    BY <1>1 DEF Before
  <2>4. CASE x \in DOMAIN c \ {p} /\ y \in DOMAIN c \ {p}
    BY <1>5, <1>10, <2>4 DEF ChunksInv
  <2>5. CASE x \in {p, r}
    BY <1>5, <1>10, <2>1, <2>2, <2>3, <2>5 DEF Before
  <2>6. CASE y \in {p, r}
    BY <1>5, <1>10, <2>1, <2>2, <2>3, <2>6 DEF Before
  <2> QED
    BY <1>5, <2>4, <2>5, <2>6
<1> QED
  BY <1>2, <1>3, <1>5, <1>7, <1>8, <1>9, <1>10 DEF ChunksInv, r

(* Chunk p of c takes in the chunk after it. *)
IsMerged(c, d, p) ==
  LET next == c[p].next
  IN  /\ DOMAIN d = DOMAIN c \ {next}
      /\ d[p].prev = c[p].prev /\ d[p].next = c[next].next
      /\ d[p].pageCount = c[p].pageCount + c[next].pageCount
      /\ d[p].isFree = TRUE
      /\ \A q \in DOMAIN d \ {p} :
           /\ d[q].prev = c[q].prev /\ d[q].next = c[q].next
           /\ d[q].pageCount = c[q].pageCount /\ d[q].isFree = c[q].isFree

(* Taking in a chunk that is marked free leaves well linked chunks. *)
LEMMA MergedChunks ==
  ASSUME NEW c, NEW d, NEW bl, ChunksInv(c, bl), ChunkTypes(c),
         BlocksApart(bl), NEW p \in DOMAIN c,
         c[p].next # null, c[c[p].next].isFree, IsMerged(c, d, p)
  PROVE  ChunksInv(d, bl) /\ c[p].next # p /\ c[p].next \in DOMAIN c
         /\ d[p].pageCount <= BlockPageCnt
<1> DEFINE w == c[p].next
<1>1. /\ w \in DOMAIN c /\ w = p + c[p].pageCount /\ c[w].prev = p
      /\ c[p].pageCount \in Nat /\ c[p].pageCount > 0 /\ p \in Nat
      /\ c[w].pageCount \in Nat /\ c[w].pageCount > 0 /\ w \in Nat
      /\ BlockPageCnt \in Nat
  BY PageFacts DEF ChunksInv, NextSound, ChunkTypes
<1>2. c[w].next = null /\ w # p /\ p < w
  BY <1>1 DEF ChunksInv, NextSound
<1>3. /\ DOMAIN d = DOMAIN c \ {w}
      /\ d[p].prev = c[p].prev /\ d[p].next = null
      /\ d[p].pageCount = c[p].pageCount + c[w].pageCount
      /\ d[p].isFree = TRUE
      /\ \A q \in DOMAIN d \ {p} :
           /\ d[q].prev = c[q].prev /\ d[q].next = c[q].next
           /\ d[q].pageCount = c[q].pageCount /\ d[q].isFree = c[q].isFree
  BY <1>2 DEF IsMerged
<1>4. c[p].next = w /\ null # p /\ null # w /\ null \notin DOMAIN c
  BY <1>1, PageFacts DEF ChunkTypes
<1> HIDE DEF w
<1>5. PICK b \in bl : InBlock(c, p, b)
  BY DEF ChunksInv
<1>6. b \in Nat /\ p + c[p].pageCount < b + BlockPageCnt /\ b <= p
  <2>1. b \in Nat
    BY DEF BlocksApart
  <2>2. b <= p /\ p + c[p].pageCount <= b + BlockPageCnt
    BY <1>5 DEF InBlock
  <2>3. p + c[p].pageCount # b + BlockPageCnt
    BY <1>4, <1>5 DEF InBlock
  <2> QED
    BY <1>1, <2>1, <2>2, <2>3
<1>7. InBlock(c, w, b)
  <2>1. PICK b2 \in bl : InBlock(c, w, b2)
    BY <1>1 DEF ChunksInv
  <2>2. b2 \in Nat /\ b2 <= w /\ w + c[w].pageCount <= b2 + BlockPageCnt
    BY <2>1 DEF InBlock, BlocksApart
  <2>3. b2 = b
    BY <1>1, <1>6, <2>2 DEF BlocksApart, Before
  <2> QED
    BY <2>1, <2>3
<1>8. w \notin bl
  <2>1. SUFFICES ASSUME w \in bl PROVE FALSE
    OBVIOUS
  <2>2. w # b /\ Before(b, BlockPageCnt, w, BlockPageCnt)
    BY <1>2, <1>6, <1>1, <2>1 DEF BlocksApart
  <2> QED
    BY <1>1, <1>2, <1>6, <2>2 DEF Before
<1>9. InBlock(d, p, b)
  BY <1>1, <1>2, <1>3, <1>5, <1>6, <1>7 DEF InBlock
<1>10. ASSUME NEW q \in DOMAIN d
       PROVE  \E x \in bl : InBlock(d, q, x)
  <2>1. CASE q = p
    BY <1>9, <2>1
  <2>2. CASE q # p
    BY <1>3, <2>2 DEF ChunksInv, InBlock
  <2> QED
    BY <2>1, <2>2
<1>11. ASSUME NEW q \in DOMAIN d
       PROVE  NextSound(d, q)
  <2>1. CASE q = p
    BY <1>3, <2>1 DEF NextSound
  <2>2. CASE q # p
    <3>1. NextSound(c, q) /\ q \in DOMAIN c /\ d[q].next = c[q].next
      BY <1>3, <2>2 DEF ChunksInv
    <3>2. c[q].next # null => /\ c[q].next \in DOMAIN d
                              /\ d[c[q].next].prev = c[c[q].next].prev
      BY <1>1, <1>3, <2>2, <3>1 DEF NextSound
    <3> QED
      BY <1>3, <2>2, <3>1, <3>2 DEF NextSound
  <2> QED
    BY <2>1, <2>2
<1>12. ASSUME NEW q \in DOMAIN d
       PROVE  PrevSound(d, q)
  <2>1. PrevSound(c, q) /\ q \in DOMAIN c /\ d[q].prev = c[q].prev
        /\ q # w /\ q # null
    BY <1>3, <1>4 DEF ChunksInv
  <2>2. c[q].prev # null => /\ c[q].prev \in DOMAIN d \ {p}
                            /\ d[c[q].prev].next = q
    BY <1>2, <1>3, <1>4, <2>1 DEF PrevSound
  <2> QED
    BY <2>1, <2>2 DEF PrevSound
<1>13. ASSUME NEW x \in DOMAIN d, NEW y \in DOMAIN d, x # y
       PROVE  Before(x, d[x].pageCount, y, d[y].pageCount)
  <2>1. \A q \in DOMAIN d \ {p} :
          /\ q \in Nat /\ c[q].pageCount \in Nat /\ c[q].pageCount > 0
          /\ Before(p, c[p].pageCount, q, c[q].pageCount)
          /\ Before(w, c[w].pageCount, q, c[q].pageCount)
          /\ d[q].pageCount = c[q].pageCount
    BY <1>1, <1>3 DEF ChunksInv, ChunkTypes
  <2>2. \A q \in DOMAIN d \ {p} :
          Before(p, c[p].pageCount + c[w].pageCount, q, c[q].pageCount)
    BY <1>1, <2>1 DEF Before
  <2>3. CASE x # p /\ y # p
    BY <1>3, <1>13, <2>3 DEF ChunksInv
  <2>4. CASE x = p
    BY <1>3, <1>13, <2>1, <2>2, <2>4
  <2>5. CASE y = p
    BY <1>3, <1>13, <2>1, <2>2, <2>5 DEF Before
  <2> QED
    BY <2>3, <2>4, <2>5
<1>14. bl \subseteq DOMAIN d
  BY <1>3, <1>8 DEF ChunksInv
<1>15. d[p].pageCount <= BlockPageCnt
  BY <1>1, <1>3, <1>6, <1>7 DEF InBlock
<1> QED
  BY <1>1, <1>2, <1>10, <1>11, <1>12, <1>13, <1>14, <1>15 DEF ChunksInv, w

(* A page from a block's first to its last is a page of a block. *)
LEMMA InsideBlock ==
  ASSUME NEW b \in Places, NEW x \in Nat, b <= x, x < b + BlockPageCnt
  PROVE  x \in BlockPage
<1>1. b \in Nat /\ x \in b .. b + BlockPageCnt - 1
  BY PageFacts, PlacesAssumption
<1> QED
  BY <1>1 DEF BlockPage, BlockExtent, Pages

(* split cuts the chunk, and its rest enters a free list. *)
LEMMA Split ==
  ASSUME NEW h, NEW F, NEW bl, HeapOK(h), ListsInv(h, F),
         ChunksInv(h.chunk, bl), BlocksApart(bl), bl \subseteq Places,
         NEW p \in DOMAIN h.chunk, p \notin F,
         NEW n \in 1 .. MaxPages, h.chunk[p].pageCount > MaxPages
  PROVE  LET g == split(h, p, n)
         IN  /\ HeapOK(g) /\ ChunksInv(g.chunk, bl)
             /\ ListsInv(g, F \union {p + n})
             /\ p + n \notin DOMAIN h.chunk
             /\ IsCut(h.chunk, g.chunk, p, n)
<1> DEFINE c == h.chunk
           r == p + n
           front == [c[p] EXCEPT !.next = r, !.pageCount = n, !.isFree = FALSE]
           back == [prev |-> p, next |-> c[p].next,
                    pageCount |-> c[p].pageCount - n, isFree |-> TRUE,
                    prevFree |-> null, nextFree |-> null]
           cut == [q \in DOMAIN c \union {r} |->
                     CASE q = p -> front [] q = r -> back [] OTHER -> c[q]]
           k == [chunk |-> cut, begin |-> h.begin]
           g == split(h, p, n)
<1>1. /\ p \in Nat /\ n \in Nat /\ n > 0 /\ r \in Nat /\ p < r
      /\ c[p].pageCount \in Nat /\ n < c[p].pageCount
      /\ c[p].pageCount <= BlockPageCnt /\ n <= BlockPageCnt
      /\ BlockPageCnt \in Nat
  BY HeaderFacts, PageFacts
<1>2. r \in BlockPage
  <2>1. PICK b \in bl : InBlock(c, p, b)
    BY DEF ChunksInv
  <2>2. b \in Places /\ b \in Nat /\ b <= p /\ p + c[p].pageCount <= b + BlockPageCnt
    BY <2>1 DEF InBlock, BlocksApart
  <2>3. b <= r /\ r < b + BlockPageCnt
    BY <1>1, <2>2
  <2> QED
    BY <1>1, <2>2, <2>3, InsideBlock
<1>3. g = pushFree(k, r)
  BY DEF split
<1>4. /\ front \in Header /\ back \in Header
      /\ front.prev = c[p].prev /\ front.next = r /\ front.pageCount = n
      /\ front.isFree = FALSE
  <2>1. c[p] \in Header /\ c[p].next \in BlockLink /\ p \in BlockPage
    BY HeaderFacts DEF HeapOK
  <2>2. n \in 1 .. BlockPageCnt /\ c[p].pageCount - n \in 1 .. BlockPageCnt
        /\ r \in BlockLink /\ p \in BlockLink /\ null \in BlockLink
    BY <1>1, <1>2, <2>1 DEF BlockLink
  <2> QED
    BY <2>1, <2>2 DEF Header
<1> HIDE DEF front, g, r
<1>5. r \notin DOMAIN c => IsCut(c, cut, p, n)
  BY <1>1, <1>4 DEF IsCut, r
<1>6. r \notin DOMAIN c /\ ChunksInv(cut, bl)
  <2>1. ChunkTypes(c)
    BY HeapChunkTypes
  <2> QED
    BY <1>5, <2>1, CutChunks DEF r
<1>7. DOMAIN cut = DOMAIN c \union {r} /\ \A q \in DOMAIN c \ {p} : cut[q] = c[q]
  BY <1>6
<1> HIDE DEF cut, back
<1>8. k.chunk = cut /\ k.begin = h.begin
  OBVIOUS
<1>9. HeapOK(k)
  <2>1. cut[p] = front /\ cut[r] = back
    BY <1>1, <1>6 DEF cut
  <2> QED
    BY <1>2, <1>4, <1>7, <1>8, <2>1 DEF HeapOK
<1>10. ListsInv(k, F)
  <2>1. F \subseteq DOMAIN c \ {p}
    BY DEF ListsInv
  <2> QED
    BY <1>7, <1>8, <2>1, ListsFrame
<1> HIDE DEF k
<1>11. r \in DOMAIN k.chunk /\ r \notin F
  BY <1>6, <1>7, <1>8 DEF ListsInv
<1>12. HeapOK(g) /\ SameChunks(cut, g.chunk) /\ ListsInv(g, F \union {r})
  BY <1>3, <1>8, <1>9, <1>10, <1>11, PushFree
<1>13. ChunksInv(g.chunk, bl)
  BY <1>6, <1>12, ChunksFrame
<1>14. IsCut(c, g.chunk, p, n)
  BY <1>5, <1>6, <1>7, <1>12 DEF IsCut, SameChunks, r
<1> QED
  BY <1>6, <1>12, <1>13, <1>14 DEF g, r

(* Merged takes the chunk after p in, which leaves its free list. *)
LEMMA MergeNext ==
  ASSUME NEW h, NEW F, NEW bl, HeapOK(h), ListsInv(h, F),
         ChunksInv(h.chunk, bl), BlocksApart(bl), bl \subseteq Places,
         NEW p \in DOMAIN h.chunk, p \notin F,
         h.chunk[p].next # null, h.chunk[p].next \in F,
         h.chunk[h.chunk[p].next].isFree
  PROVE  LET g == Merged(h, p)
         IN  /\ HeapOK(g) /\ ChunksInv(g.chunk, bl)
             /\ ListsInv(g, F \ {h.chunk[p].next})
             /\ p \in DOMAIN g.chunk
             /\ IsMerged(h.chunk, g.chunk, p)
<1> DEFINE c == h.chunk
           w == c[p].next
           h1 == removeFromFreeList(h, w)
           e == h1.chunk
           g == Merged(h, p)
           d == g.chunk
<1>1. HeapOK(h1) /\ SameChunks(c, e) /\ ListsInv(h1, F \ {w})
  BY RemoveFromFreeList
<1> HIDE DEF h1
<1>2. /\ DOMAIN d = DOMAIN e \ {w} /\ g.begin = h1.begin
      /\ \A q \in DOMAIN d \ {p} : d[q] = e[q]
  BY DEF Merged, h1
<1>3. w \in DOMAIN c /\ DOMAIN e = DOMAIN c /\ w # p
  BY <1>1 DEF ListsInv, SameChunks
<1>4. d[p] = [e[p] EXCEPT !.next = e[w].next,
                          !.pageCount = @ + e[w].pageCount, !.isFree = TRUE]
  BY <1>3 DEF Merged, h1
<1> HIDE DEF g
<1>5. e[p] \in Header /\ e[w].next \in BlockLink
  BY <1>1, <1>3, HeaderFacts DEF HeapOK
<1>6. /\ d[p].prev = e[p].prev /\ d[p].next = e[w].next
      /\ d[p].pageCount = e[p].pageCount + e[w].pageCount
      /\ d[p].isFree = TRUE
  BY <1>4, <1>5 DEF Header
<1>7. IsMerged(c, d, p)
  <2>1. DOMAIN d = DOMAIN c \ {w}
    BY <1>2, <1>3
  <2>2. \A q \in DOMAIN d \ {p} :
          /\ d[q].prev = c[q].prev /\ d[q].next = c[q].next
          /\ d[q].pageCount = c[q].pageCount /\ d[q].isFree = c[q].isFree
    BY <1>1, <1>2, <2>1 DEF SameChunks
  <2> QED
    BY <1>1, <1>3, <1>6, <2>1, <2>2 DEF IsMerged, SameChunks
<1>8. ChunksInv(d, bl) /\ d[p].pageCount <= BlockPageCnt
  <2>1. ChunkTypes(c)
    BY HeapChunkTypes
  <2> QED
    BY <1>7, <2>1, MergedChunks
<1>9. HeapOK(g)
  <2>1. d[p].pageCount \in 1 .. BlockPageCnt
    <3>1. /\ e[p].pageCount \in Nat /\ e[p].pageCount > 0
          /\ e[w].pageCount \in Nat /\ e[w].pageCount > 0
      BY <1>1, <1>3, HeaderFacts
    <3> QED
      BY <1>6, <1>8, <3>1, PageFacts
  <2>2. d[p] \in Header
    <3>1. d[p] = [e[p] EXCEPT !.next = e[w].next,
                              !.pageCount = d[p].pageCount, !.isFree = TRUE]
      BY <1>4, <1>5, <1>6 DEF Header
    <3> QED
      BY <1>5, <2>1, <3>1 DEF Header
  <2> QED
    BY <1>1, <1>2, <2>2 DEF HeapOK
<1>10. ListsInv(g, F \ {w})
  <2>1. F \ {w} \subseteq DOMAIN d \ {p}
    BY <1>2, <1>3 DEF ListsInv
  <2> QED
    BY <1>1, <1>2, <2>1, ListsFrame
<1> QED
  BY <1>2, <1>3, <1>7, <1>8, <1>9, <1>10 DEF g

(* A new block is one large free chunk, the only one of its list. *)
LEMMA NewBlock ==
  ASSUME NEW h, NEW F, NEW bl, HeapOK(h), ListsInv(h, F), ChunksInv(h.chunk, bl),
         NEW b \in Places, b \notin bl, BlocksApart(bl \union {b}),
         h.begin[MaxPages] = null, NEW g, g = WithBlock(h, b)
  PROVE  /\ HeapOK(g) /\ ChunksInv(g.chunk, bl \union {b})
         /\ ListsInv(g, F \union {b})
         /\ b \notin DOMAIN h.chunk
<1> DEFINE c == h.chunk
           d == g.chunk
           whole == [prev |-> null, next |-> null, pageCount |-> BlockPageCnt,
                     isFree |-> TRUE, prevFree |-> null, nextFree |-> null]
<1>1. /\ BlockPageCnt \in Nat /\ BlockPageCnt > MaxPages /\ MaxPages \in Nat
      /\ BlockPageCnt > 0 /\ b \in Nat /\ MaxPages \in ListIdx
  BY PageFacts, PlacesAssumption DEF ListIdx
<1>2. b \in BlockPage
  BY <1>1, InsideBlock
<1>3. whole \in Header
  BY <1>1, PageFacts DEF Header, BlockLink
<1>4. ASSUME NEW q \in DOMAIN c
      PROVE  Before(b, BlockPageCnt, q, c[q].pageCount)
  <2>1. PICK a \in bl : InBlock(c, q, a)
    BY DEF ChunksInv
  <2>2. a \in Nat /\ a # b /\ Before(b, BlockPageCnt, a, BlockPageCnt)
    BY DEF BlocksApart
  <2>3. q \in Nat /\ c[q].pageCount \in Nat /\ c[q].pageCount > 0
    BY HeaderFacts
  <2> QED
    BY <1>1, <2>1, <2>2, <2>3 DEF InBlock, Before
<1>5. b \notin DOMAIN c
  <2>1. SUFFICES ASSUME b \in DOMAIN c PROVE FALSE
    OBVIOUS
  <2>2. c[b].pageCount \in Nat /\ c[b].pageCount > 0
    BY <2>1, HeaderFacts
  <2> QED
    BY <1>1, <1>4, <2>1, <2>2 DEF Before
<1>6. /\ DOMAIN d = DOMAIN c \union {b} /\ d[b] = whole
      /\ \A q \in DOMAIN c : d[q] = c[q]
      /\ g.begin = [h.begin EXCEPT ![MaxPages] = b]
  BY <1>5 DEF WithBlock
<1>7. /\ whole.prev = null /\ whole.next = null /\ whole.isFree = TRUE
      /\ whole.pageCount = BlockPageCnt
      /\ whole.prevFree = null /\ whole.nextFree = null
  OBVIOUS
<1> HIDE DEF whole
<1>8. g.begin \in [ListIdx -> BlockLink] /\ g.begin[MaxPages] = b
      /\ \A i \in ListIdx : i # MaxPages => g.begin[i] = h.begin[i]
  BY <1>1, <1>2, <1>6 DEF HeapOK, BlockLink
<1>9. HeapOK(g)
  BY <1>2, <1>3, <1>6, <1>8 DEF HeapOK
<1>10. ChunksInv(d, bl \union {b})
  <2>1. bl \union {b} \subseteq DOMAIN d
    BY <1>6 DEF ChunksInv
  <2>2. ASSUME NEW q \in DOMAIN d
        PROVE  \E a \in bl \union {b} : InBlock(d, q, a)
    <3>1. CASE q = b
      BY <1>1, <1>6, <1>7, <3>1 DEF InBlock
    <3>2. CASE q \in DOMAIN c
      BY <1>6, <3>2 DEF ChunksInv, InBlock
    <3> QED
      BY <1>6, <3>1, <3>2
  <2>3. ASSUME NEW q \in DOMAIN d
        PROVE  NextSound(d, q) /\ PrevSound(d, q)
    <3>1. CASE q = b
      BY <1>6, <1>7, <3>1 DEF NextSound, PrevSound
    <3>2. CASE q \in DOMAIN c
      <4>1. NextSound(c, q) /\ PrevSound(c, q) /\ d[q] = c[q]
        BY <1>6, <3>2 DEF ChunksInv
      <4>2. NextSound(d, q)
        BY <1>6, <4>1 DEF NextSound
      <4>3. PrevSound(d, q)
        BY <1>6, <4>1 DEF PrevSound
      <4> QED
        BY <4>2, <4>3
    <3> QED
      BY <1>6, <3>1, <3>2
  <2>4. ASSUME NEW x \in DOMAIN d, NEW y \in DOMAIN d, x # y
        PROVE  Before(x, d[x].pageCount, y, d[y].pageCount)
    <3>1. CASE x \in DOMAIN c /\ y \in DOMAIN c
      BY <1>6, <2>4, <3>1 DEF ChunksInv
    <3>2. CASE x = b
      BY <1>4, <1>6, <1>7, <2>4, <3>2
    <3>3. CASE y = b
      BY <1>4, <1>6, <1>7, <2>4, <3>3 DEF Before
    <3> QED
      BY <1>6, <3>1, <3>2, <3>3
  <2> QED
    BY <2>1, <2>2, <2>3, <2>4 DEF ChunksInv
<1>11. ListsInv(g, F \union {b})
  <2>1. F \subseteq DOMAIN c /\ b \notin F /\ b # null
    BY <1>1, <1>5, PageFacts DEF ListsInv
  <2>2. ListOf(d, b) = MaxPages /\ \A q \in DOMAIN c : ListOf(d, q) = ListOf(c, q)
    BY <1>1, <1>6, <1>7, ListFacts DEF ListOf
  <2>3. ASSUME NEW i \in ListIdx
        PROVE  HeadSound(g, F \union {b}, i)
    <3>1. CASE i = MaxPages
      BY <1>6, <1>7, <1>8, <2>2, <3>1 DEF HeadSound
    <3>2. CASE i # MaxPages
      <4>1. HeadSound(h, F, i) /\ g.begin[i] = h.begin[i]
        BY <1>8, <3>2 DEF ListsInv
      <4> QED
        BY <1>6, <2>1, <2>2, <4>1 DEF HeadSound
    <3> QED
      BY <3>1, <3>2
  <2>4. ASSUME NEW q \in F \union {b}
        PROVE  LinksSound(g, F \union {b}, q)
    <3>1. CASE q = b
      BY <1>6, <1>7, <1>8, <2>2, <3>1 DEF LinksSound
    <3>2. CASE q \in F
      <4>1. LinksSound(h, F, q) /\ ListOf(c, q) \in ListIdx /\ q \in DOMAIN c /\ q # null
        BY <2>1, <3>2, HeaderFacts DEF ListsInv
      <4>2. ListOf(c, q) = MaxPages => c[q].prevFree # null
        BY <4>1 DEF LinksSound
      <4> QED
        BY <1>6, <1>8, <2>1, <2>2, <4>1, <4>2 DEF LinksSound
    <3> QED
      BY <3>1, <3>2
  <2>5. ASSUME NEW S \in SUBSET (F \union {b}), Circle(d, S)
        PROVE  FALSE
    <3>1. b \notin S
      BY <1>6, <1>7, <2>1, <2>5, HeaderFacts DEF Circle
    <3>2. Circle(c, S)
      BY <1>6, <2>1, <2>5, <3>1 DEF Circle
    <3> QED
      BY <2>5, <3>1, <3>2 DEF ListsInv
  <2> QED
    BY <1>6, <2>1, <2>3, <2>4, <2>5 DEF ListsInv
<1> QED
  BY <1>5, <1>6, <1>7, <1>8, <1>9, <1>10, <1>11

(* The first large chunk is cut, its front for the caller. *)
LEMMA CutLarge ==
  ASSUME NEW h, NEW F, NEW bl, HeapOK(h), ListsInv(h, F),
         ChunksInv(h.chunk, bl), BlocksApart(bl), bl \subseteq Places,
         h.begin[MaxPages] # null, NEW n \in 1 .. MaxPages
  PROVE  LET p == h.begin[MaxPages]
             g == split(popFree(h, MaxPages), p, n)
         IN  /\ p \in F /\ p \in DOMAIN h.chunk
             /\ h.chunk[p].pageCount > MaxPages
             /\ HeapOK(g) /\ ChunksInv(g.chunk, bl)
             /\ ListsInv(g, (F \ {p}) \union {p + n})
             /\ p + n \notin DOMAIN h.chunk
             /\ IsCut(h.chunk, g.chunk, p, n)
<1> DEFINE p == h.begin[MaxPages]
           h1 == popFree(h, MaxPages)
           g == split(h1, p, n)
<1>1. MaxPages \in ListIdx
  BY PageFacts DEF ListIdx
<1>2. /\ p \in F /\ p \in DOMAIN h.chunk /\ ListOf(h.chunk, p) = MaxPages
      /\ HeapOK(h1) /\ SameChunks(h.chunk, h1.chunk) /\ ListsInv(h1, F \ {p})
  BY <1>1, PopFree
<1>3. h.chunk[p].pageCount > MaxPages
  BY <1>2, HeaderFacts, ListFacts DEF ListOf
<1> HIDE DEF h1, p
<1>4. ChunksInv(h1.chunk, bl) /\ p \in DOMAIN h1.chunk
      /\ h1.chunk[p].pageCount > MaxPages
  BY <1>2, <1>3, ChunksFrame DEF SameChunks
<1>5. /\ HeapOK(g) /\ ChunksInv(g.chunk, bl)
      /\ ListsInv(g, (F \ {p}) \union {p + n})
      /\ p + n \notin DOMAIN h1.chunk
      /\ IsCut(h1.chunk, g.chunk, p, n)
  BY <1>2, <1>4, Split
<1> HIDE DEF g
<1>6. p + n \notin DOMAIN h.chunk /\ IsCut(h.chunk, g.chunk, p, n)
  BY <1>2, <1>5 DEF SameChunks, IsCut
<1> QED
  BY <1>2, <1>3, <1>5, <1>6 DEF g, h1, p

-----------------------------------------------------------------------------
(* The parts of the type invariant that an operation leaves alone. *)
RestOK ==
  /\ blocks \subseteq Places /\ leaked \subseteq Places
  /\ DOMAIN direct \subseteq DirectPlaces
  /\ \A p \in DOMAIN direct : direct[p] \in MaxPages + 1 .. MaxRequest
  /\ calm \in BOOLEAN
  /\ status \in {"ok", "asserted", "corrupted"}

(* What the invariant says of the current headers. *)
LEMMA HeapFacts ==
  ASSUME IInv
  PROVE  /\ Heap.chunk = chunk /\ Heap.begin = freeListBegin
         /\ HeapOK(Heap) /\ ListsInv(Heap, Free) /\ ChunksInv(Heap.chunk, blocks)
         /\ BlocksApart(blocks) /\ blocks \subseteq Places
         /\ live \subseteq DOMAIN chunk /\ out \in Int /\ RestOK
<1>1. Heap.chunk = chunk /\ Heap.begin = freeListBegin
  BY DEF Heap
<1>2. BlocksApart(blocks)
  BY PlacesAssumption DEF IInv, TypeOK, MappedApart, BlocksApart
<1> QED
  BY <1>1, <1>2 DEF IInv, TypeOK, HeapOK, RestOK

(* The invariant after a step that leaves the headers as in heap g. *)
LEMMA HeapAfter ==
  ASSUME NEW g, SetHeap(g), HeapOK(g), ChunksInv(g.chunk, blocks'),
         ListsInv(g, Free'), live' \subseteq DOMAIN g.chunk, out' \in Int,
         RestOK', MappedApart', HeldInv'
  PROVE  IInv'
<1>1. chunk' = g.chunk /\ freeListBegin' = g.begin
  BY DEF SetHeap
<1>2. Heap'.chunk = g.chunk /\ Heap'.begin = g.begin
  BY <1>1 DEF Heap
<1>3. ListsInv(Heap', Free')
  <2>1. Free' \subseteq DOMAIN g.chunk
    BY DEF ListsInv
  <2> QED
    BY <1>2, <2>1, ListsFrame
<1>4. TypeOK'
  BY <1>1 DEF TypeOK, HeapOK, RestOK
<1> QED
  BY <1>1, <1>3, <1>4 DEF IInv

(* What a step means to the callers: one more chunk of n pages is out, or   *)
(* one is back, and the others keep their size.                            *)
KeptSizes == \A q \in live \intersect live' : chunk'[q].pageCount = chunk[q].pageCount

HoldsOneMore(n) ==
  /\ \E p \in DOMAIN chunk' \ live : live' = live \union {p} /\ chunk'[p].pageCount = n
  /\ KeptSizes /\ direct' = direct /\ out' = out + 1

HoldsOneLess(p) ==
  live' = live \ {p} /\ KeptSizes /\ direct' = direct /\ out' = out - 1

(* Nothing of the OS's memory changes hands. *)
LEMMA MappedKept ==
  ASSUME IInv, UNCHANGED <<blocks, leaked, direct>>
  PROVE  MappedApart' /\ BlocksApart(blocks') /\ blocks' = blocks
  BY HeapFacts DEF IInv, MappedApart

(* allocate from an exact-size list: a chunk leaves the list, its holder   *)
(* gets one of the size of the list.                                       *)
LEMMA allocateExactStep ==
  ASSUME IInv, NEW n \in 1 .. MaxRequest, allocateExact(n)
  PROVE  IInv' /\ HoldsOneMore(n)
<1> DEFINE i == n - 1
           p == freeListBegin[i]
           g == popFree(Heap, i)
<1>1. /\ n \in Nat /\ i \in ListIdx /\ i # MaxPages /\ p # null
      /\ SetHeap(g) /\ live' = live \union {p} /\ out' = out + 1
      /\ UNCHANGED <<blocks, direct, leaked, calm, status>>
  BY PageFacts, MaxRequestAssumption DEF allocateExact, Hold, ListIdx
<1>2. /\ Heap.chunk = chunk /\ Heap.begin = freeListBegin
      /\ live \subseteq DOMAIN chunk /\ out \in Int /\ RestOK
  BY HeapFacts
<1>3. /\ p \in Free /\ p \in DOMAIN chunk /\ ListOf(chunk, p) = i
      /\ HeapOK(g) /\ SameChunks(chunk, g.chunk) /\ ListsInv(g, Free \ {p})
  BY <1>1, <1>2, HeapFacts, PopFree
<1> HIDE DEF g, p
<1>4. ChunksInv(g.chunk, blocks')
  BY <1>1, <1>2, <1>3, HeapFacts, ChunksFrame
<1>5. Free' = Free \ {p} /\ chunk' = g.chunk /\ DOMAIN g.chunk = DOMAIN chunk
  BY <1>1, <1>3 DEF SetHeap, SameChunks, Free
<1>6. chunk[p].pageCount = n /\ n <= MaxPages
  <2>1. chunk[p].pageCount \in Nat /\ chunk[p].pageCount > 0
    BY <1>2, <1>3, HeapFacts, HeaderFacts
  <2>2. chunk[p].pageCount = i + 1
    BY <1>1, <1>3, <2>1, ListFacts DEF ListOf
  <2> QED
    BY <1>1, <2>2, PageFacts DEF ListIdx
<1>7. HeldInv'
  BY <1>1, <1>2, <1>3, <1>5, <1>6 DEF IInv, HeldInv, SameChunks
<1>8. RestOK' /\ out' \in Int
  BY <1>1, <1>2 DEF RestOK
<1>9. MappedApart'
  BY <1>1, MappedKept
<1>10. live' \subseteq DOMAIN g.chunk /\ ListsInv(g, Free')
  BY <1>1, <1>2, <1>3, <1>5
<1>11. HoldsOneMore(n)
  BY <1>1, <1>2, <1>3, <1>5, <1>6 DEF HoldsOneMore, KeptSizes, SameChunks, Free
<1> QED
  BY <1>1, <1>3, <1>4, <1>7, <1>8, <1>9, <1>10, <1>11, HeapAfter

(* What a cut of the first large chunk of h leaves, where h has the chunks *)
(* of the current state and perhaps a new block.                           *)
LEMMA CutStep ==
  ASSUME IInv, status = "ok", NEW n \in 1 .. MaxPages, NEW h, HeapOK(h),
         ListsInv(h, DOMAIN h.chunk \ live), ChunksInv(h.chunk, blocks'),
         BlocksApart(blocks'), blocks' \subseteq Places,
         h.begin[MaxPages] # null,
         DOMAIN chunk \subseteq DOMAIN h.chunk,
         \A q \in DOMAIN chunk : h.chunk[q] = chunk[q],
         \A q \in DOMAIN h.chunk \ DOMAIN chunk : h.chunk[q].pageCount > MaxPages,
         CutFirstLarge(h, n), UNCHANGED <<direct, leaked, status>>, MappedApart'
  PROVE  IInv' /\ HoldsOneMore(n)
<1> DEFINE p == h.begin[MaxPages]
           r == p + n
           g == split(popFree(h, MaxPages), p, n)
           F == DOMAIN h.chunk \ live
           rest == h.chunk[p].pageCount - n
<1>1. /\ SetHeap(g) /\ live' = live \union {p} /\ out' = out + 1
      /\ calm' = (calm /\ rest > MaxPages)
  BY DEF CutFirstLarge, Hold
<1>2. live \subseteq DOMAIN chunk /\ out \in Int /\ RestOK
  BY HeapFacts
<1>3. /\ p \in F /\ p \in DOMAIN h.chunk
      /\ HeapOK(g) /\ ChunksInv(g.chunk, blocks')
      /\ ListsInv(g, (F \ {p}) \union {r})
      /\ r \notin DOMAIN h.chunk /\ IsCut(h.chunk, g.chunk, p, n)
  BY CutLarge
<1> HIDE DEF g, p, r, rest
<1>4. /\ DOMAIN g.chunk = DOMAIN h.chunk \union {r}
      /\ g.chunk[p].pageCount = n /\ g.chunk[p].isFree = FALSE
      /\ g.chunk[r].pageCount = rest
      /\ \A q \in DOMAIN h.chunk \ {p} :
           /\ g.chunk[q].pageCount = h.chunk[q].pageCount
           /\ g.chunk[q].isFree = h.chunk[q].isFree
  BY <1>3 DEF IsCut, r, rest
<1>5. chunk' = g.chunk /\ Free' = (F \ {p}) \union {r}
  <2>1. chunk' = g.chunk
    BY <1>1 DEF SetHeap
  <2>2. r \notin live /\ r # p
    BY <1>2, <1>3
  <2> QED
    BY <1>1, <1>4, <1>3, <2>1, <2>2 DEF Free
<1>6. HeldInv'
  <2>1. \A q \in live' : g.chunk[q].pageCount <= MaxPages
    BY <1>1, <1>2, <1>3, <1>4, PageFacts DEF IInv, HeldInv
  <2>2. ASSUME calm', NEW q \in DOMAIN g.chunk, g.chunk[q].isFree
        PROVE  g.chunk[q].pageCount > MaxPages
    <3>1. calm /\ rest > MaxPages
      BY <1>1, <1>2, <2>2 DEF RestOK
    <3>2. CASE q = r
      BY <1>4, <3>1, <3>2
    <3>3. CASE q \in DOMAIN chunk /\ q # p
      BY <1>4, <2>2, <3>1, <3>3 DEF IInv, HeldInv
    <3>4. CASE q \in DOMAIN h.chunk \ DOMAIN chunk /\ q # p
      BY <1>4, <3>4
    <3> QED
      BY <1>4, <2>2, <3>2, <3>3, <3>4
  <2>3. calm' => status' = "ok"
    OBVIOUS
  <2> QED
    BY <1>5, <2>1, <2>2, <2>3 DEF HeldInv
<1>7. RestOK' /\ out' \in Int
  BY <1>1, <1>2 DEF RestOK
<1>8. live' \subseteq DOMAIN g.chunk /\ ListsInv(g, Free')
  BY <1>1, <1>2, <1>3, <1>4, <1>5
<1>9. HoldsOneMore(n)
  BY <1>1, <1>2, <1>3, <1>4, <1>5 DEF HoldsOneMore, KeptSizes
<1> QED
  BY <1>1, <1>3, <1>6, <1>7, <1>8, <1>9, HeapAfter

(* Runs of pages with none in common are one before the other. *)
LEMMA PagesApart ==
  ASSUME NEW p \in Nat, NEW m \in Nat \ {0}, NEW q \in Nat, NEW n \in Nat \ {0}
  PROVE  Pages(p, m) \intersect Pages(q, n) = {} <=> Before(p, m, q, n)
<1>1. ASSUME ~Before(p, m, q, n)
      PROVE  Pages(p, m) \intersect Pages(q, n) # {}
  <2>1. CASE p <= q
    <3>1. q \in p .. p + m - 1 /\ q \in q .. q + n - 1
      BY <1>1, <2>1 DEF Before
    <3> QED
      BY <3>1 DEF Pages
  <2>2. CASE q <= p
    <3>1. p \in p .. p + m - 1 /\ p \in q .. q + n - 1
      BY <1>1, <2>2 DEF Before
    <3> QED
      BY <3>1 DEF Pages
  <2> QED
    BY <2>1, <2>2
<1>2. ASSUME Before(p, m, q, n)
      PROVE  Pages(p, m) \intersect Pages(q, n) = {}
  BY <1>2 DEF Before, Pages
<1> QED
  BY <1>1, <1>2

(* Pages the OS gives are apart from all it has given before. *)
LEMMA NewPages ==
  ASSUME IInv, NEW p \in Nat, NEW n \in Nat \ {0},
         Pages(p, n) \intersect Mapped = {}
  PROVE  /\ \A b \in blocks \union leaked : /\ Before(b, BlockPageCnt, p, n)
                                            /\ Before(p, n, b, BlockPageCnt)
                                            /\ b # p
         /\ \A q \in DOMAIN direct : /\ Before(p, n, q, direct[q])
                                     /\ Before(q, direct[q], p, n)
                                     /\ q # p
<1>1. BlockPageCnt \in Nat \ {0} /\ MaxPages \in Nat
  BY PageFacts
<1>2. ASSUME NEW b \in blocks \union leaked
      PROVE  Before(b, BlockPageCnt, p, n) /\ Before(p, n, b, BlockPageCnt) /\ b # p
  <2>1. b \in Nat
    BY HeapFacts, PlacesAssumption DEF RestOK
  <2>2. Pages(b, BlockPageCnt) \subseteq Mapped
    BY DEF Mapped, BlockExtent
  <2>3. Before(p, n, b, BlockPageCnt)
    BY <1>1, <2>1, <2>2, PagesApart
  <2> QED
    BY <1>1, <2>1, <2>3 DEF Before
<1>3. ASSUME NEW q \in DOMAIN direct
      PROVE  Before(p, n, q, direct[q]) /\ Before(q, direct[q], p, n) /\ q # p
  <2>1. q \in Nat /\ direct[q] \in Nat \ {0}
    <3>1. q \in DirectPlaces /\ direct[q] \in MaxPages + 1 .. MaxRequest
      BY HeapFacts DEF RestOK
    <3> QED
      BY <1>1, <3>1, PlacesAssumption, MaxRequestAssumption
  <2>2. Pages(q, direct[q]) \subseteq Mapped
    <3>1. Pages(q, direct[q]) \in {Pages(r, direct[r]) : r \in DOMAIN direct}
      OBVIOUS
    <3> QED
      BY <3>1 DEF Mapped
  <2>3. Before(p, n, q, direct[q])
    BY <2>1, <2>2, PagesApart
  <2> QED
    BY <2>1, <2>3 DEF Before
<1> QED
  BY <1>2, <1>3

(* allocate by cutting the first large chunk. *)
LEMMA allocateSplitStep ==
  ASSUME IInv, NEW n \in 1 .. MaxRequest, allocateSplit(n)
  PROVE  IInv' /\ HoldsOneMore(n)
<1>1. /\ n \in 1 .. MaxPages /\ freeListBegin[MaxPages] # null /\ status = "ok"
      /\ CutFirstLarge(Heap, n) /\ UNCHANGED <<blocks, direct, leaked, status>>
  BY PageFacts, MaxRequestAssumption DEF allocateSplit
<1>2. /\ HeapOK(Heap) /\ ChunksInv(Heap.chunk, blocks') /\ BlocksApart(blocks')
      /\ blocks' \subseteq Places /\ Heap.begin[MaxPages] # null
      /\ Heap.chunk = chunk /\ ListsInv(Heap, DOMAIN Heap.chunk \ live)
      /\ MappedApart'
  BY <1>1, HeapFacts, MappedKept DEF Free
<1> QED
  BY <1>1, <1>2, CutStep

(* The current headers together with a new block. *)
WithBlockHeaders(h, b) ==
  /\ DOMAIN h.chunk = DOMAIN chunk \union {b}
  /\ \A q \in DOMAIN chunk : h.chunk[q] = chunk[q]
  /\ h.chunk[b].pageCount = BlockPageCnt
  /\ h.begin[MaxPages] = b

(* A new block is one more free chunk, of all its pages, and the first of *)
(* the list of large chunks.                                               *)
LEMMA HeapWithBlock ==
  ASSUME IInv, NEW b \in Places, b \notin blocks, BlocksApart(blocks \union {b}),
         freeListBegin[MaxPages] = null, NEW h, h = WithBlock(Heap, b)
  PROVE  /\ HeapOK(h) /\ ChunksInv(h.chunk, blocks \union {b})
         /\ ListsInv(h, Free \union {b}) /\ b \notin DOMAIN chunk
         /\ WithBlockHeaders(h, b)
<1>1. /\ HeapOK(Heap) /\ ListsInv(Heap, Free) /\ ChunksInv(Heap.chunk, blocks)
      /\ Heap.chunk = chunk /\ Heap.begin[MaxPages] = null
  BY HeapFacts
<1>2. HeapOK(h) /\ ChunksInv(h.chunk, blocks \union {b})
  BY <1>1, NewBlock
<1>3. ListsInv(h, Free \union {b})
  BY <1>1, NewBlock
<1>4. b \notin DOMAIN chunk
  BY <1>1, NewBlock
<1>5. /\ DOMAIN h.chunk = DOMAIN chunk \union {b}
      /\ \A q \in DOMAIN chunk : h.chunk[q] = chunk[q]
      /\ h.chunk[b].pageCount = BlockPageCnt
      /\ h.begin = [freeListBegin EXCEPT ![MaxPages] = b]
  BY <1>1, <1>4, HeapFacts DEF WithBlock
<1>6. h.begin[MaxPages] = b
  BY <1>1, <1>5, PageFacts, HeapFacts DEF HeapOK, ListIdx
<1> QED
  BY <1>2, <1>3, <1>4, <1>5, <1>6 DEF WithBlockHeaders

(* allocate by cutting a new block. *)
LEMMA allocateFromNewBlockStep ==
  ASSUME IInv, NEW n \in 1 .. MaxRequest, allocateFromNewBlock(n)
  PROVE  IInv' /\ HoldsOneMore(n)
<1>1. PICK b \in BlockPlaces : /\ blocks' = blocks \union {b}
                               /\ CutFirstLarge(WithBlock(Heap, b), n)
  BY DEF allocateFromNewBlock
<1>2. /\ n \in 1 .. MaxPages /\ freeListBegin[MaxPages] = null /\ status = "ok"
      /\ UNCHANGED <<direct, leaked, status>>
  BY PageFacts, MaxRequestAssumption DEF allocateFromNewBlock, NoneLarge
<1>3. /\ b \in Places /\ b \in Nat /\ BlockPageCnt \in Nat \ {0}
      /\ BlockPageCnt > MaxPages
      /\ Pages(b, BlockPageCnt) \intersect Mapped = {}
  BY PageFacts, PlacesAssumption DEF BlockPlaces, BlockExtent
<1>4. /\ \A a \in blocks \union leaked : /\ Before(a, BlockPageCnt, b, BlockPageCnt)
                                         /\ Before(b, BlockPageCnt, a, BlockPageCnt)
                                         /\ a # b
      /\ \A q \in DOMAIN direct : Before(b, BlockPageCnt, q, direct[q])
  BY <1>3, NewPages
<1>5. BlocksApart(blocks') /\ blocks' \subseteq Places /\ b \notin blocks
  BY <1>1, <1>3, <1>4, HeapFacts DEF BlocksApart
<1>6. MappedApart'
  BY <1>1, <1>2, <1>4 DEF IInv, MappedApart
<1> DEFINE h == WithBlock(Heap, b)
<1>7. h = WithBlock(Heap, b)
  OBVIOUS
<1>8. CutFirstLarge(h, n)
  BY <1>1
<1> HIDE DEF h
<1>9. /\ HeapOK(h) /\ ChunksInv(h.chunk, blocks')
      /\ ListsInv(h, Free \union {b}) /\ b \notin DOMAIN chunk
      /\ DOMAIN h.chunk = DOMAIN chunk \union {b}
      /\ \A q \in DOMAIN chunk : h.chunk[q] = chunk[q]
      /\ h.chunk[b].pageCount = BlockPageCnt
      /\ h.begin[MaxPages] = b
  <2>1. /\ b \in Places /\ b \notin blocks /\ BlocksApart(blocks \union {b})
        /\ freeListBegin[MaxPages] = null
    BY <1>1, <1>2, <1>3, <1>5
  <2>2. HeapOK(h) /\ ChunksInv(h.chunk, blocks \union {b})
    BY <1>7, <2>1, HeapWithBlock
  <2>3. ListsInv(h, Free \union {b}) /\ b \notin DOMAIN chunk
    BY <1>7, <2>1, HeapWithBlock
  <2>4. WithBlockHeaders(h, b)
    BY <1>7, <2>1, HeapWithBlock
  <2> QED
    BY <1>1, <2>2, <2>3, <2>4 DEF WithBlockHeaders
<1>10. Free \union {b} = DOMAIN h.chunk \ live
  BY <1>9, HeapFacts DEF Free
<1>11. /\ h.begin[MaxPages] # null
       /\ \A q \in DOMAIN h.chunk \ DOMAIN chunk : h.chunk[q].pageCount > MaxPages
       /\ DOMAIN chunk \subseteq DOMAIN h.chunk
  BY <1>3, <1>9, PageFacts
<1> QED
  BY <1>2, <1>5, <1>6, <1>8, <1>9, <1>10, <1>11, CutStep

(* Headers and lists stay as they are. *)
LEMMA HeapKept ==
  ASSUME IInv, UNCHANGED <<chunk, freeListBegin, blocks, live, calm>>,
         RestOK', MappedApart', out' \in Int, calm => status' = "ok"
  PROVE  IInv'
<1>1. SetHeap(Heap)
  BY DEF SetHeap, Heap
<1>2. Free' = Free /\ live' = live /\ blocks' = blocks
  BY DEF Free
<1>3. HeldInv'
  BY DEF IInv, HeldInv
<1> QED
  BY <1>1, <1>2, <1>3, HeapFacts, HeapAfter

(* blockLeaked: the heap stays, the mapped memory stays apart. *)
LEMMA blockLeakedStep ==
  ASSUME IInv, NEW n \in 1 .. MaxRequest, blockLeaked(n)
  PROVE  IInv'
<1>1. PICK b \in BlockPlaces : leaked' = leaked \union {b}
  BY DEF blockLeaked
<1>2. UNCHANGED <<chunk, freeListBegin, blocks, direct, live, out, calm, status>>
  BY DEF blockLeaked
<1>3. /\ b \in Places /\ b \in Nat /\ BlockPageCnt \in Nat \ {0}
      /\ Pages(b, BlockPageCnt) \intersect Mapped = {}
  BY PageFacts, PlacesAssumption DEF BlockPlaces, BlockExtent
<1>4. /\ \A a \in blocks \union leaked : /\ Before(a, BlockPageCnt, b, BlockPageCnt)
                                         /\ Before(b, BlockPageCnt, a, BlockPageCnt)
      /\ \A q \in DOMAIN direct : Before(b, BlockPageCnt, q, direct[q])
  BY <1>3, NewPages
<1>5. MappedApart'
  BY <1>1, <1>2, <1>4 DEF IInv, MappedApart
<1>6. RestOK' /\ out' \in Int
  BY <1>1, <1>2, <1>3, HeapFacts DEF RestOK
<1>7. calm => status' = "ok"
  BY <1>2 DEF IInv, HeldInv
<1> QED
  BY <1>2, <1>5, <1>6, <1>7, HeapKept

(* allocate beyond max_pages: the new chunk is apart from all mapped       *)
(* memory; nothing else changes.                                           *)
LEMMA allocateDirectStep ==
  ASSUME IInv, NEW n \in 1 .. MaxRequest, allocateDirect(n)
  PROVE  IInv'
<1>1. PICK p \in DirectPlaces :
        /\ Pages(p, n) \intersect Mapped = {}
        /\ direct' = [q \in DOMAIN direct \union {p} |->
                        IF q = p THEN n ELSE direct[q]]
  BY DEF allocateDirect
<1>2. /\ n > MaxPages /\ out' = out + 1
      /\ UNCHANGED <<chunk, freeListBegin, blocks, live, leaked, calm, status>>
  BY DEF allocateDirect
<1>3. p \in Nat /\ n \in Nat \ {0} /\ n \in MaxPages + 1 .. MaxRequest
  BY <1>2, PageFacts, PlacesAssumption, MaxRequestAssumption
<1>4. /\ \A b \in blocks \union leaked : Before(b, BlockPageCnt, p, n)
      /\ \A q \in DOMAIN direct : /\ Before(p, n, q, direct[q])
                                  /\ Before(q, direct[q], p, n)
                                  /\ q # p
  BY <1>1, <1>3, NewPages
<1>5. /\ DOMAIN direct' = DOMAIN direct \union {p} /\ direct'[p] = n
      /\ \A q \in DOMAIN direct : direct'[q] = direct[q]
  BY <1>1, <1>4
<1>6. MappedApart'
  <2>1. IsFiniteSet(DOMAIN direct')
    BY <1>5, FS_AddElement DEF IInv, MappedApart
  <2> QED
    BY <1>2, <1>4, <1>5, <2>1 DEF IInv, MappedApart
<1>7. RestOK' /\ out' \in Int
  BY <1>2, <1>3, <1>5, HeapFacts DEF RestOK
<1>8. calm => status' = "ok"
  BY <1>2 DEF IInv, HeldInv
<1> QED
  BY <1>2, <1>6, <1>7, <1>8, HeapKept

(* The chunk before another one is never marked free, and while all is     *)
(* calm, no chunk somebody holds is.                                       *)
LEMMA NoWrongFlag ==
  ASSUME IInv, NEW p \in live
  PROVE  /\ ~PrevIsFree(p)
         /\ calm => ~MeetsWrongFlag(p)
         /\ NextIsFree(p) => chunk[p].next \in DOMAIN chunk
<1>1. p \in DOMAIN chunk /\ p # null
  BY HeapFacts, HeaderFacts
<1>2. ~PrevIsFree(p)
  <2>1. SUFFICES ASSUME PrevIsFree(p) PROVE FALSE
    OBVIOUS
  <2> DEFINE r == chunk[p].prev
  <2>2. r # null /\ chunk[r].isFree
    BY <2>1 DEF PrevIsFree
  <2>3. r \in DOMAIN chunk /\ chunk[r].next = p
    BY <1>1, <2>2 DEF IInv, ChunksInv, PrevSound
  <2> QED
    BY <1>1, <2>2, <2>3 DEF IInv, ChunksInv, NextSound
<1>3. ASSUME NextIsFree(p)
      PROVE  chunk[p].next \in DOMAIN chunk /\ chunk[chunk[p].next].isFree
  BY <1>1, <1>3 DEF NextIsFree, IInv, ChunksInv, NextSound
<1>4. ASSUME calm
      PROVE  ~(NextIsFree(p) /\ chunk[p].next \in live)
  <2>1. SUFFICES ASSUME NextIsFree(p), chunk[p].next \in live PROVE FALSE
    OBVIOUS
  <2>2. chunk[chunk[p].next].pageCount > MaxPages
    BY <1>3, <1>4, <2>1 DEF IInv, HeldInv
  <2>3. /\ chunk[chunk[p].next].pageCount <= MaxPages
        /\ chunk[chunk[p].next].pageCount \in Nat
    BY <1>3, <2>1, HeapFacts, HeaderFacts DEF IInv, HeldInv
  <2> QED
    BY <2>2, <2>3, PageFacts
<1> QED
  BY <1>2, <1>3, <1>4 DEF MeetsWrongFlag

(* deallocate only fails once a split has left a small remainder. *)
LEMMA deallocateFailsStep ==
  ASSUME IInv, NEW p \in live, deallocateFails(p)
  PROVE  IInv'
<1>1. /\ MeetsWrongFlag(p) /\ status' \in {"asserted", "corrupted"}
      /\ UNCHANGED <<chunk, freeListBegin, blocks, direct, live, out, leaked, calm>>
  BY DEF deallocateFails
<1>2. ~calm
  BY <1>1, NoWrongFlag
<1>3. RestOK' /\ out' \in Int
  BY <1>1, HeapFacts DEF RestOK
<1> QED
  BY <1>1, <1>2, <1>3, MappedKept, HeapKept

(* deallocate, merging: the free chunk after p leaves its list, and both   *)
(* together enter theirs.                                                  *)
LEMMA deallocateMergingStep ==
  ASSUME IInv, NEW p \in live, deallocateMerging(p)
  PROVE  IInv' /\ HoldsOneLess(p)
<1> DEFINE w == chunk[p].next
           m == Merged(Heap, p)
           g == pushFree(m, p)
<1>1. /\ status = "ok" /\ ~MeetsWrongFlag(p) /\ NextIsFree(p)
      /\ SetHeap(g) /\ live' = live \ {p} /\ out' = out - 1
      /\ UNCHANGED <<blocks, direct, leaked, calm, status>>
  BY DEF deallocateMerging, GiveUp
<1>2. /\ Heap.chunk = chunk /\ HeapOK(Heap) /\ ListsInv(Heap, Free)
      /\ ChunksInv(Heap.chunk, blocks) /\ BlocksApart(blocks)
      /\ blocks \subseteq Places
      /\ live \subseteq DOMAIN chunk /\ out \in Int /\ RestOK
  BY HeapFacts
<1>3. w \in Free /\ w # null /\ chunk[w].isFree /\ p \in DOMAIN chunk /\ p \notin Free
  BY <1>1, <1>2, NoWrongFlag DEF MeetsWrongFlag, NextIsFree, Free
<1>4. /\ HeapOK(m) /\ ChunksInv(m.chunk, blocks) /\ ListsInv(m, Free \ {w})
      /\ p \in DOMAIN m.chunk /\ IsMerged(chunk, m.chunk, p)
  BY <1>2, <1>3, MergeNext
<1> HIDE DEF m
<1>5. /\ HeapOK(g) /\ SameChunks(m.chunk, g.chunk)
      /\ ListsInv(g, (Free \ {w}) \union {p})
  BY <1>3, <1>4, PushFree
<1>6. ChunksInv(g.chunk, blocks')
  BY <1>1, <1>4, <1>5, ChunksFrame
<1> HIDE DEF g
<1>7. IsMerged(chunk, g.chunk, p)
  BY <1>4, <1>5 DEF IsMerged, SameChunks
<1> HIDE DEF w
<1>8. /\ DOMAIN g.chunk = DOMAIN chunk \ {w}
      /\ g.chunk[p].pageCount = chunk[p].pageCount + chunk[w].pageCount
      /\ \A q \in DOMAIN g.chunk \ {p} :
           /\ g.chunk[q].pageCount = chunk[q].pageCount
           /\ g.chunk[q].isFree = chunk[q].isFree
  BY <1>7 DEF IsMerged, w
<1>9. chunk' = g.chunk /\ Free' = (Free \ {w}) \union {p}
  <2>1. chunk' = g.chunk
    BY <1>1 DEF SetHeap
  <2>2. w \notin live /\ p # w /\ p \in live
    BY <1>3 DEF Free
  <2> QED
    BY <1>1, <1>2, <1>3, <1>8, <2>1, <2>2 DEF Free
<1>10. HeldInv'
  <2>1. \A q \in live' : q \in DOMAIN g.chunk \ {p}
    BY <1>1, <1>2, <1>3, <1>8 DEF Free
  <2>2. \A q \in live' : g.chunk[q].pageCount <= MaxPages
    BY <1>1, <1>8, <2>1 DEF IInv, HeldInv
  <2>3. ASSUME calm'
        PROVE  g.chunk[p].pageCount > MaxPages
    <3>1. chunk[w].pageCount > MaxPages
      BY <1>1, <1>3, <2>3 DEF IInv, HeldInv, Free
    <3>2. /\ chunk[p].pageCount \in Nat /\ chunk[w].pageCount \in Nat
      BY <1>2, <1>3, HeaderFacts DEF Free
    <3> QED
      BY <1>8, <3>1, <3>2, PageFacts
  <2>4. ASSUME calm', NEW q \in DOMAIN g.chunk, g.chunk[q].isFree
        PROVE  g.chunk[q].pageCount > MaxPages
    BY <1>1, <1>8, <2>3, <2>4 DEF IInv, HeldInv
  <2> QED
    BY <1>1, <1>9, <2>2, <2>4 DEF HeldInv
<1>11. RestOK' /\ out' \in Int /\ MappedApart'
  BY <1>1, <1>2, MappedKept DEF RestOK
<1>12. live' \subseteq DOMAIN g.chunk /\ ListsInv(g, Free')
  BY <1>1, <1>2, <1>3, <1>5, <1>8, <1>9 DEF Free
<1>13. HoldsOneLess(p)
  BY <1>1, <1>2, <1>3, <1>8, <1>9 DEF HoldsOneLess, KeptSizes, Free
<1> QED
  BY <1>1, <1>5, <1>6, <1>10, <1>11, <1>12, <1>13, HeapAfter

(* deallocate without a merge: the chunk enters its free list. *)
LEMMA deallocateAloneStep ==
  ASSUME IInv, NEW p \in live, deallocateAlone(p)
  PROVE  IInv' /\ HoldsOneLess(p)
<1> DEFINE g == pushFree(Heap, p)
<1>1. /\ SetHeap(g) /\ live' = live \ {p} /\ out' = out - 1
      /\ UNCHANGED <<blocks, direct, leaked, calm, status>>
  BY DEF deallocateAlone, GiveUp
<1>2. /\ Heap.chunk = chunk /\ live \subseteq DOMAIN chunk /\ out \in Int /\ RestOK
      /\ p \in DOMAIN chunk /\ p \notin Free
  BY HeapFacts DEF Free
<1>3. HeapOK(g) /\ SameChunks(chunk, g.chunk) /\ ListsInv(g, Free \union {p})
  BY <1>2, HeapFacts, PushFree
<1> HIDE DEF g
<1>4. ChunksInv(g.chunk, blocks')
  BY <1>1, <1>2, <1>3, HeapFacts, ChunksFrame
<1>5. Free' = Free \union {p} /\ chunk' = g.chunk /\ DOMAIN g.chunk = DOMAIN chunk
  BY <1>1, <1>2, <1>3 DEF SetHeap, SameChunks, Free
<1>6. HeldInv'
  BY <1>1, <1>2, <1>3, <1>5 DEF IInv, HeldInv, SameChunks
<1>7. RestOK' /\ out' \in Int /\ MappedApart'
  BY <1>1, <1>2, MappedKept DEF RestOK
<1>8. live' \subseteq DOMAIN g.chunk /\ ListsInv(g, Free')
  BY <1>1, <1>2, <1>3, <1>5
<1>9. HoldsOneLess(p)
  BY <1>1, <1>2, <1>3, <1>5 DEF HoldsOneLess, KeptSizes, SameChunks
<1> QED
  BY <1>1, <1>3, <1>4, <1>6, <1>7, <1>8, <1>9, HeapAfter

(* deallocate of an oversize chunk: its pages are nobody's again. *)
LEMMA deallocateDirectStep ==
  ASSUME IInv, NEW p, deallocateDirect(p)
  PROVE  IInv'
<1>1. /\ p \in DOMAIN direct
      /\ direct' = [q \in DOMAIN direct \ {p} |-> direct[q]]
      /\ out' = out - 1
      /\ UNCHANGED <<chunk, freeListBegin, blocks, live, leaked, calm, status>>
  BY DEF deallocateDirect
<1>2. /\ DOMAIN direct' = DOMAIN direct \ {p}
      /\ \A q \in DOMAIN direct' : direct'[q] = direct[q]
  BY <1>1
<1>3. MappedApart'
  <2>1. IsFiniteSet(DOMAIN direct')
    BY <1>2, FS_RemoveElement DEF IInv, MappedApart
  <2> QED
    BY <1>1, <1>2, <2>1 DEF IInv, MappedApart
<1>4. RestOK' /\ out' \in Int
  BY <1>1, <1>2, HeapFacts DEF RestOK
<1>5. calm => status' = "ok"
  BY <1>1 DEF IInv, HeldInv
<1> QED
  BY <1>1, <1>3, <1>4, <1>5, HeapKept

(* No chunks and no blocks, and lists that are all empty. *)
LEMMA EmptyHeap ==
  ASSUME NEW h, DOMAIN h.chunk = {}, h.begin = [i \in ListIdx |-> null]
  PROVE  HeapOK(h) /\ ChunksInv(h.chunk, {}) /\ ListsInv(h, {})
<1>1. HeapOK(h)
  BY DEF HeapOK, BlockLink
<1>2. ChunksInv(h.chunk, {})
  BY DEF ChunksInv
<1>3. ListsInv(h, {})
  BY DEF ListsInv, HeadSound, Circle
<1> QED
  BY <1>1, <1>2, <1>3

(* deinitialize: only oversize chunks and lost blocks are left. *)
LEMMA deinitializeStep ==
  ASSUME IInv, deinitialize
  PROVE  IInv'
<1> DEFINE g == [chunk |-> chunk', begin |-> freeListBegin']
<1>1. /\ DOMAIN chunk' = {} /\ freeListBegin' = [i \in ListIdx |-> null]
      /\ blocks' = {} /\ live' = {} /\ calm' = TRUE /\ status = "ok"
      /\ out' = Cardinality(DOMAIN direct)
      /\ UNCHANGED <<direct, leaked, status>>
  BY DEF deinitialize
<1>2. SetHeap(g) /\ g.chunk = chunk' /\ g.begin = freeListBegin'
  BY DEF SetHeap
<1> HIDE DEF g
<1>3. HeapOK(g) /\ ChunksInv(g.chunk, blocks') /\ ListsInv(g, Free')
  <2>1. Free' = {}
    BY <1>1 DEF Free
  <2> QED
    BY <1>1, <1>2, <2>1, EmptyHeap
<1>4. MappedApart'
  BY <1>1 DEF IInv, MappedApart
<1>5. out' \in Int /\ RestOK'
  BY <1>1, HeapFacts, FS_CardinalityType DEF RestOK, IInv, MappedApart
<1>6. HeldInv'
  BY <1>1 DEF HeldInv
<1>7. live' \subseteq DOMAIN g.chunk
  BY <1>1
<1> QED
  BY <1>2, <1>3, <1>4, <1>5, <1>6, <1>7, HeapAfter

(* The invariant holds before the first call. *)
LEMMA InitInv == Init => IInv
<1> SUFFICES ASSUME Init PROVE IInv
  OBVIOUS
<1>1. /\ DOMAIN chunk = {} /\ freeListBegin = [i \in ListIdx |-> null]
      /\ blocks = {} /\ DOMAIN direct = {} /\ live = {} /\ out = 0
      /\ leaked = {} /\ calm = TRUE /\ status = "ok"
  BY DEF Init
<1>2. Heap.chunk = chunk /\ Heap.begin = freeListBegin /\ Free = {}
  BY <1>1 DEF Heap, Free
<1>3. HeapOK(Heap) /\ ChunksInv(chunk, blocks) /\ ListsInv(Heap, Free)
  BY <1>1, <1>2, EmptyHeap
<1>4. TypeOK
  BY <1>1, <1>2, <1>3 DEF TypeOK, HeapOK
<1>5. MappedApart
  BY <1>1, FS_EmptySet DEF MappedApart
<1>6. HeldInv
  BY <1>1 DEF HeldInv
<1> QED
  BY <1>3, <1>4, <1>5, <1>6 DEF IInv

(* Every step keeps the invariant. *)
LEMMA NextInv == IInv /\ [Next]_vars => IInv'
<1> SUFFICES ASSUME IInv, [Next]_vars PROVE IInv'
  OBVIOUS
<1>1. CASE \E n \in 1 .. MaxRequest : allocate(n)
  BY <1>1, allocateExactStep, allocateSplitStep, allocateFromNewBlockStep,
     blockLeakedStep, allocateDirectStep DEF allocate
<1>2. CASE \E p \in live \union DOMAIN direct : deallocate(p)
  <2>1. PICK p \in live \union DOMAIN direct : deallocate(p)
    BY <1>2
  <2>2. CASE deallocateFails(p)
    BY <2>2, deallocateFailsStep DEF deallocateFails
  <2>3. CASE deallocateMerging(p)
    BY <2>3, deallocateMergingStep DEF deallocateMerging
  <2>4. CASE deallocateAlone(p)
    BY <2>4, deallocateAloneStep DEF deallocateAlone
  <2>5. CASE deallocateDirect(p)
    BY <2>5, deallocateDirectStep
  <2> QED
    BY <2>1, <2>2, <2>3, <2>4, <2>5 DEF deallocate
<1>3. CASE deinitialize
  BY <1>3, deinitializeStep
<1>4. CASE UNCHANGED vars
  <2>1. UNCHANGED <<chunk, freeListBegin, blocks, direct, live, out, leaked, calm, status>>
    BY <1>4 DEF vars
  <2>2. RestOK' /\ out' \in Int /\ (calm => status' = "ok")
    BY <2>1, HeapFacts DEF RestOK, IInv, HeldInv
  <2> QED
    BY <2>1, <2>2, MappedKept, HeapKept
<1> QED
  BY <1>1, <1>2, <1>3, <1>4 DEF Next

(* The inductive invariant holds in every reachable state. *)
THEOREM Invariance == Spec => []IInv
  BY InitInv, NextInv, PTL DEF Spec

-----------------------------------------------------------------------------
(* Every variable keeps its shape: every link of a header is a page of some *)
(* block, every size one that fits a block.                                *)
THEOREM TypeCorrect == Spec => []TypeOK
<1>1. IInv => TypeOK
  BY DEF IInv
<1> QED
  BY <1>1, Invariance, PTL

(* The chunks of a block are adjacent and make up the whole of it, linked  *)
(* both ways, although split and merge never tell the chunk that follows.  *)
THEOREM ChunksTile == Spec => []ChunksTileBlocks
<1>1. IInv => ChunksTileBlocks
  <2> SUFFICES ASSUME IInv PROVE ChunksTileBlocks
    OBVIOUS
  <2>1. ASSUME NEW p \in DOMAIN chunk
        PROVE  /\ chunk[p].next # null =>
                    /\ chunk[p].next = p + chunk[p].pageCount
                    /\ chunk[p].next \in DOMAIN chunk
                    /\ chunk[chunk[p].next].prev = p
               /\ chunk[p].prev # null => /\ chunk[p].prev \in DOMAIN chunk
                                          /\ chunk[chunk[p].prev].next = p
    BY DEF IInv, ChunksInv, NextSound, PrevSound
  <2>2. ASSUME NEW p \in DOMAIN chunk
        PROVE  /\ chunk[p].next = null =>
                    \E b \in blocks : /\ p \in BlockExtent(b)
                                      /\ p + chunk[p].pageCount = b + BlockPageCnt
               /\ chunk[p].prev = null => p \in blocks
    <3>1. PICK b \in blocks : InBlock(chunk, p, b)
      BY DEF IInv, ChunksInv
    <3>2. /\ p \in Nat /\ chunk[p].pageCount \in Nat /\ chunk[p].pageCount > 0
          /\ b \in Nat
      BY HeapFacts, HeaderFacts DEF BlocksApart
    <3>3. p \in BlockExtent(b)
      BY <3>1, <3>2, PageFacts DEF InBlock, BlockExtent, Pages
    <3> QED
      BY <3>1, <3>3 DEF InBlock
  <2>3. blocks \subseteq DOMAIN chunk
    BY DEF IInv, ChunksInv
  <2> QED
    BY <2>1, <2>2, <2>3 DEF ChunksTileBlocks
<1> QED
  BY <1>1, Invariance, PTL

(* Only the last chunk of a block is ever marked free. *)
THEOREM FlagIsAtTail == Spec => []FlagOnlyAtTail
<1>1. IInv => FlagOnlyAtTail
  BY DEF IInv, ChunksInv, NextSound, FlagOnlyAtTail
<1> QED
  BY <1>1, Invariance, PTL

(* No sequence of calls ends in an assertion while no split has left a     *)
(* remainder of max_pages or less.                                         *)
THEOREM CalmIsSafe == Spec => []CalmNeverFails
<1>1. IInv => CalmNeverFails
  BY DEF IInv, HeldInv, CalmNeverFails
<1> QED
  BY <1>1, Invariance, PTL

-----------------------------------------------------------------------------
(* Which headers an operation leaves. *)
LEMMA SplitDomain ==
  ASSUME NEW h, NEW p, NEW n
  PROVE  DOMAIN split(h, p, n).chunk = DOMAIN h.chunk \union {p + n}
<1>1. \A k, q : DOMAIN pushFree(k, q).chunk = DOMAIN k.chunk
  BY DEF pushFree
<1> QED
  BY <1>1 DEF split

(* What the other changes to the headers do to the set of chunks. *)
LEMMA Domains ==
  ASSUME NEW h, NEW p, NEW i
  PROVE  /\ DOMAIN pushFree(h, p).chunk = DOMAIN h.chunk
         /\ DOMAIN popFree(h, i).chunk = DOMAIN h.chunk
         /\ DOMAIN Merged(h, p).chunk \subseteq DOMAIN h.chunk
         /\ DOMAIN WithBlock(h, p).chunk = DOMAIN h.chunk \union {p}
<1>1. \A k, q : DOMAIN pushFree(k, q).chunk = DOMAIN k.chunk
  BY DEF pushFree
<1>2. DOMAIN popFree(h, i).chunk = DOMAIN h.chunk
  BY DEF popFree
<1>3. \A q : DOMAIN removeFromFreeList(h, q).chunk = DOMAIN h.chunk
  BY DEF removeFromFreeList
<1>4. DOMAIN Merged(h, p).chunk \subseteq DOMAIN h.chunk
  BY <1>3 DEF Merged
<1>5. DOMAIN WithBlock(h, p).chunk = DOMAIN h.chunk \union {p}
  BY DEF WithBlock
<1> QED
  BY <1>1, <1>2, <1>4, <1>5

(* There are only finitely many chunks: a step adds two at most. *)
FiniteHeap == IsFiniteSet(DOMAIN chunk)

(* The set of chunks is finite in every reachable state. *)
LEMMA FiniteChunks == Spec => []FiniteHeap
<1>1. Init => FiniteHeap
  BY FS_EmptySet DEF Init, FiniteHeap
<1>2. FiniteHeap /\ [Next]_vars => FiniteHeap'
  <2> SUFFICES ASSUME FiniteHeap, [Next]_vars PROVE FiniteHeap'
    OBVIOUS
  <2>1. \E x, y : DOMAIN chunk' \subseteq DOMAIN chunk \union {x, y}
    <3>1. Heap.chunk = chunk
      BY DEF Heap
    <3>2. ASSUME NEW n, NEW h, NEW x, CutFirstLarge(h, n),
                 DOMAIN h.chunk \subseteq DOMAIN chunk \union {x}
          PROVE  \E y : DOMAIN chunk' \subseteq DOMAIN chunk \union {x, y}
      <4> DEFINE k == popFree(h, MaxPages)
                 p == h.begin[MaxPages]
      <4>1. chunk' = split(k, p, n).chunk
        BY <3>2 DEF CutFirstLarge, SetHeap
      <4>2. DOMAIN k.chunk = DOMAIN h.chunk
        BY Domains
      <4> HIDE DEF k, p
      <4>3. DOMAIN split(k, p, n).chunk = DOMAIN k.chunk \union {p + n}
        BY SplitDomain
      <4> QED
        BY <3>2, <4>1, <4>2, <4>3
    <3>3. ASSUME NEW n, allocate(n)
          PROVE  \E x, y : DOMAIN chunk' \subseteq DOMAIN chunk \union {x, y}
      <4>1. CASE allocateExact(n)
        <5>1. DOMAIN chunk' = DOMAIN chunk
          BY <3>1, <4>1, Domains DEF allocateExact, SetHeap
        <5> QED
          BY <5>1
      <4>2. CASE allocateSplit(n)
        BY <3>1, <3>2, <4>2 DEF allocateSplit
      <4>3. CASE allocateFromNewBlock(n)
        <5>1. PICK b : CutFirstLarge(WithBlock(Heap, b), n)
          BY <4>3 DEF allocateFromNewBlock
        <5>2. DOMAIN WithBlock(Heap, b).chunk = DOMAIN chunk \union {b}
          BY <3>1, Domains
        <5> QED
          BY <3>2, <5>1, <5>2
      <4>4. CASE blockLeaked(n) \/ allocateDirect(n)
        BY <4>4 DEF blockLeaked, allocateDirect
      <4> QED
        BY <3>3, <4>1, <4>2, <4>3, <4>4 DEF allocate
    <3>4. ASSUME NEW p, deallocate(p)
          PROVE  DOMAIN chunk' \subseteq DOMAIN chunk
      <4>1. CASE deallocateMerging(p)
        BY <3>1, <4>1, Domains DEF deallocateMerging, SetHeap
      <4>2. CASE deallocateAlone(p)
        BY <3>1, <4>2, Domains DEF deallocateAlone, SetHeap
      <4>3. CASE deallocateFails(p) \/ deallocateDirect(p)
        BY <4>3 DEF deallocateFails, deallocateDirect
      <4> QED
        BY <3>4, <4>1, <4>2, <4>3 DEF deallocate
    <3>5. CASE deinitialize
      BY <3>5 DEF deinitialize
    <3>6. CASE UNCHANGED vars
      BY <3>6 DEF vars
    <3> QED
      BY <3>3, <3>4, <3>5, <3>6 DEF Next
  <2>2. PICK x, y : DOMAIN chunk' \subseteq DOMAIN chunk \union {x, y}
    BY <2>1
  <2>3. IsFiniteSet((DOMAIN chunk \union {x}) \union {y})
    BY FS_AddElement DEF FiniteHeap
  <2> QED
    BY <2>2, <2>3, FS_Subset DEF FiniteHeap
<1> QED
  BY <1>1, <1>2, PTL DEF Spec

-----------------------------------------------------------------------------
(* A set of numbers has a least one. *)
LEMMA LeastNat ==
  ASSUME NEW T \in SUBSET Nat, T # {}
  PROVE  \E m \in T : \A k \in T : m <= k
<1> DEFINE R == OpToRel(<, Nat)
<1>1. IsWellFoundedOn(R, Nat)
  BY NatLessThanWellFounded
<1>2. \A k, m \in Nat : <<k, m>> \in R <=> k < m
  BY DEF OpToRel
<1> HIDE DEF R
<1>3. PICK m \in T : \A k \in T : ~(<<k, m>> \in R)
  BY <1>1, WFMin
<1>4. \A k \in T : <<k, m>> \in R <=> k < m
  BY <1>2
<1>5. m \in Nat /\ \A k \in T : k \in Nat /\ ~(k < m)
  BY <1>3, <1>4
<1>6. \A k \in T : m <= k
  BY <1>5
<1> QED
  BY <1>6

(* Induction up to n, with the property as the set of numbers that have it. *)
LEMMA UpTo ==
  ASSUME NEW n \in Nat, NEW T, 0 \in T,
         \A k \in 0 .. n - 1 : k \in T => k + 1 \in T
  PROVE  \A k \in 0 .. n : k \in T
<1> SUFFICES ASSUME NEW j \in 0 .. n, j \notin T PROVE FALSE
  OBVIOUS
<1> DEFINE Bad == {k \in 0 .. n : k \notin T}
<1>1. Bad \in SUBSET Nat /\ Bad # {}
  OBVIOUS
<1> HIDE DEF Bad
<1>2. PICK m \in Bad : \A k \in Bad : m <= k
  BY <1>1, LeastNat
<1>3. m \in 0 .. n /\ m \notin T
  BY DEF Bad
<1>4. m - 1 \in 0 .. n - 1 /\ m - 1 \in 0 .. n
  BY <1>3
<1>5. m - 1 \in T
  BY <1>2, <1>4 DEF Bad
<1> QED
  BY <1>3, <1>4, <1>5

(* Following the lists from their heads, one link at a time. *)
Heads == {freeListBegin[i] : i \in ListIdx} \ {null}
Nearer(S) == S \union ({chunk[p].nextFree : p \in S} \ {null})
Reaches(r, n) ==
  r = [k \in 0 .. n |-> IF k = 0 THEN Heads ELSE Nearer(r[k - 1])]

(* The recursion of FreeListsSound defines a function. *)
LEMMA ReachExists ==
  ASSUME NEW n \in Nat
  PROVE  \E r : Reaches(r, n)
<1> DEFINE T == {k \in Nat : \E r : Reaches(r, k)}
<1>1. 0 \in T
  <2>1. Reaches([k \in 0 .. 0 |-> Heads], 0)
    BY DEF Reaches
  <2> QED
    BY <2>1
<1>2. ASSUME NEW m \in 0 .. n - 1, m \in T
      PROVE  m + 1 \in T
  <2>1. PICK r : Reaches(r, m)
    BY <1>2
  <2> DEFINE s == [k \in 0 .. m + 1 |-> IF k = m + 1 THEN Nearer(r[m]) ELSE r[k]]
  <2>2. m \in Nat /\ m + 1 \in Nat
    OBVIOUS
  <2>3. \A k \in 0 .. m + 1 :
          s[k] = IF k = 0 THEN Heads ELSE Nearer(s[k - 1])
    <3> TAKE k \in 0 .. m + 1
    <3>1. CASE k = m + 1
      <4>1. s[m] = r[m] /\ s[k] = Nearer(r[m]) /\ k - 1 = m /\ k # 0
        BY <2>2, <3>1
      <4> QED
        BY <4>1
    <3>2. CASE k # m + 1
      <4>1. k \in 0 .. m /\ s[k] = r[k]
        BY <2>2, <3>2
      <4>2. r[k] = IF k = 0 THEN Heads ELSE Nearer(r[k - 1])
        BY <2>1, <4>1 DEF Reaches
      <4>3. k # 0 => k - 1 \in 0 .. m + 1 /\ s[k - 1] = r[k - 1]
        BY <2>2, <4>1
      <4> QED
        BY <4>1, <4>2, <4>3
    <3> QED
      BY <3>1, <3>2
  <2>4. s = [k \in 0 .. m + 1 |-> s[k]]
    OBVIOUS
  <2> HIDE DEF s
  <2>5. s = [k \in 0 .. m + 1 |-> IF k = 0 THEN Heads ELSE Nearer(s[k - 1])]
    BY <2>3, <2>4
  <2>6. Reaches(s, m + 1)
    BY <2>5 DEF Reaches
  <2> QED
    BY <2>2, <2>6
<1> HIDE DEF T
<1>3. n \in T
  BY <1>1, <1>2, UpTo
<1> QED
  BY <1>3 DEF T

(* All that is reached is free; a step that reaches nothing new has        *)
(* reached every free chunk, for the links back of the others would run in *)
(* a circle.                                                               *)
LEMMA ReachStep ==
  ASSUME IInv, NEW S, Heads \subseteq S, S \subseteq Free
  PROVE  /\ Nearer(S) \subseteq Free /\ S \subseteq Nearer(S)
         /\ Nearer(S) = S => S = Free
<1>1. Heap.chunk = chunk /\ Heap.begin = freeListBegin /\ ListsInv(Heap, Free)
  BY HeapFacts
<1>2. \A p \in Free : LinksSound(Heap, Free, p)
  BY <1>1 DEF ListsInv
<1>3. Nearer(S) \subseteq Free /\ S \subseteq Nearer(S)
  BY <1>1, <1>2 DEF Nearer, LinksSound
<1>4. ASSUME Nearer(S) = S, S # Free
      PROVE  FALSE
  <2> DEFINE U == Free \ S
  <2>1. ASSUME NEW p \in U
        PROVE  chunk[p].prevFree \in U
    <3> DEFINE q == chunk[p].prevFree
    <3>1. p # null /\ ListOf(chunk, p) \in ListIdx
      BY <1>1, HeapFacts, HeaderFacts DEF Free
    <3>2. q # null
      <4>1. SUFFICES ASSUME q = null PROVE FALSE
        OBVIOUS
      <4>2. freeListBegin[ListOf(chunk, p)] = p
        BY <1>1, <1>2, <4>1 DEF LinksSound
      <4>3. p \in Heads
        BY <3>1, <4>2 DEF Heads
      <4> QED
        BY <4>3
    <3>3. q \in Free /\ chunk[q].nextFree = p
      BY <1>1, <1>2, <3>2 DEF LinksSound
    <3>4. q \notin S
      BY <1>4, <3>1, <3>3 DEF Nearer
    <3> QED
      BY <3>3, <3>4
  <2>2. U # {} /\ U \in SUBSET Free
    BY <1>4
  <2> HIDE DEF U
  <2>3. Circle(chunk, U)
    BY <2>1, <2>2 DEF Circle
  <2> QED
    BY <1>1, <2>2, <2>3 DEF ListsInv
<1> QED
  BY <1>3, <1>4

(* After as many links as there are free chunks, all are reached: each     *)
(* link that does not reach a new one has reached them all.                *)
LEMMA AllReached ==
  ASSUME IInv, FiniteHeap, NEW r, Reaches(r, Cardinality(Free))
  PROVE  r[Cardinality(Free)] = Free
<1> DEFINE n == Cardinality(Free)
<1>1. IsFiniteSet(Free) /\ n \in Nat
  BY FS_Subset, FS_CardinalityType DEF FiniteHeap, Free
<1> HIDE DEF n
<1>2. /\ r[0] = Heads
      /\ \A k \in 0 .. n - 1 : r[k + 1] = Nearer(r[k])
  <2>1. r = [k \in 0 .. n |-> IF k = 0 THEN Heads ELSE Nearer(r[k - 1])]
    BY DEF Reaches, n
  <2>2. r[0] = Heads
    BY <1>1, <2>1
  <2>3. ASSUME NEW k \in 0 .. n - 1
        PROVE  r[k + 1] = Nearer(r[k])
    <3>1. k + 1 \in 0 .. n /\ k + 1 # 0 /\ (k + 1) - 1 = k
      BY <1>1
    <3>2. r[k + 1] = Nearer(r[(k + 1) - 1])
      BY <2>1, <3>1
    <3> QED
      BY <3>1, <3>2
  <2> QED
    BY <2>2, <2>3
<1>3. Heads \subseteq Free
  BY HeapFacts DEF ListsInv, HeadSound, Heads
<1> DEFINE T == {k \in 0 .. n : /\ Heads \subseteq r[k] /\ r[k] \subseteq Free
                                /\ k <= Cardinality(r[k]) \/ r[k] = Free}
<1>4. 0 \in T
  <2>1. Cardinality(Heads) \in Nat
    BY <1>1, <1>3, FS_Subset, FS_CardinalityType
  <2> QED
    BY <1>1, <1>2, <1>3, <2>1
<1>5. ASSUME NEW k \in 0 .. n - 1, k \in T
      PROVE  k + 1 \in T
  <2> DEFINE S == r[k]
             S2 == r[k + 1]
  <2>1. /\ Heads \subseteq S /\ S \subseteq Free
        /\ k <= Cardinality(S) \/ S = Free
        /\ S2 = Nearer(S) /\ k + 1 \in 0 .. n /\ k \in Nat
    BY <1>1, <1>2, <1>5
  <2> HIDE DEF S, S2
  <2>2. S2 \subseteq Free /\ S \subseteq S2 /\ (S2 = S => S = Free)
    BY <2>1, ReachStep
  <2>3. IsFiniteSet(S2) /\ Cardinality(S) \in Nat /\ Cardinality(S2) \in Nat
    BY <1>1, <2>1, <2>2, FS_Subset, FS_CardinalityType
  <2>4. S2 = Free \/ k + 1 <= Cardinality(S2)
    <3>1. CASE S = Free
      BY <2>2, <3>1
    <3>2. CASE S # Free
      <4>1. S # S2 /\ Cardinality(S) < Cardinality(S2)
        BY <2>2, <2>3, <3>2, FS_Subset
      <4> QED
        BY <2>1, <2>3, <3>2, <4>1
    <3> QED
      BY <3>1, <3>2
  <2> QED
    BY <2>1, <2>2, <2>4 DEF S2
<1> HIDE DEF T
<1>6. n \in T
  BY <1>1, <1>4, <1>5, UpTo
<1>7. r[n] \subseteq Free /\ (n <= Cardinality(r[n]) \/ r[n] = Free)
  BY <1>6 DEF T
<1>8. r[n] # Free => Cardinality(r[n]) < n /\ Cardinality(r[n]) \in Nat
  BY <1>1, <1>7, FS_Subset, FS_CardinalityType DEF n
<1> QED
  BY <1>1, <1>7, <1>8 DEF n

(* The free lists hold free chunks of their sizes, linked both ways, and   *)
(* no free chunk is lost: following the lists reaches all of them.         *)
THEOREM FreeListsAreSound == Spec => []FreeListsSound
<1>1. IInv /\ FiniteHeap => FreeListsSound
  <2> SUFFICES ASSUME IInv, FiniteHeap PROVE FreeListsSound
    OBVIOUS
  <2>1. Heap.chunk = chunk /\ Heap.begin = freeListBegin /\ ListsInv(Heap, Free)
    BY HeapFacts
  <2>2. \A i \in ListIdx :
          LET p == freeListBegin[i]
          IN  p # null => /\ p \in Free
                          /\ freeListIdx(chunk[p].pageCount) = i
                          /\ chunk[p].prevFree = null
    BY <2>1 DEF ListsInv, HeadSound, ListOf
  <2>3. \A p \in Free :
          LET c == chunk[p]
              i == freeListIdx(c.pageCount)
          IN  /\ c.prevFree = null => freeListBegin[i] = p
              /\ c.prevFree # null => /\ c.prevFree \in Free
                                      /\ chunk[c.prevFree].nextFree = p
              /\ c.nextFree # null => /\ c.nextFree \in Free
                                      /\ chunk[c.nextFree].prevFree = p
                                      /\ freeListIdx(chunk[c.nextFree].pageCount) = i
    BY <2>1 DEF ListsInv, LinksSound, ListOf
  <2>4. LET reach[k \in 0 .. Cardinality(Free)] ==
              IF k = 0 THEN {freeListBegin[i] : i \in ListIdx} \ {null}
              ELSE LET nearer == reach[k - 1]
                   IN  nearer \union ({chunk[p].nextFree : p \in nearer} \ {null})
        IN  reach[Cardinality(Free)] = Free
    <3> DEFINE r == CHOOSE f : Reaches(f, Cardinality(Free))
    <3>1. Cardinality(Free) \in Nat
      BY FS_Subset, FS_CardinalityType DEF FiniteHeap, Free
    <3>2. Reaches(r, Cardinality(Free))
      BY <3>1, ReachExists
    <3>3. r[Cardinality(Free)] = Free
      BY <3>2, AllReached
    <3>4. r = CHOOSE f : f = [k \in 0 .. Cardinality(Free) |->
                IF k = 0 THEN {freeListBegin[i] : i \in ListIdx} \ {null}
                ELSE f[k - 1] \union ({chunk[p].nextFree : p \in f[k - 1]} \ {null})]
      BY DEF Reaches, Heads, Nearer
    <3> HIDE DEF r
    <3> QED
      BY <3>3, <3>4
  <2> QED
    BY <2>2, <2>3, <2>4 DEF FreeListsSound
<1> QED
  BY <1>1, Invariance, FiniteChunks, PTL

-----------------------------------------------------------------------------
(* The refinement: what callers hold is a ChunkHeap. *)
Out == live \union DOMAIN direct

(* A chunk that callers hold is one or the other, inside a block or of its *)
(* own, and overlaps no other one.                                         *)
HeldSound ==
  /\ live \intersect DOMAIN direct = {}
  /\ DOMAIN Held = Out
  /\ \A p \in live : Held[p] = chunk[p].pageCount
  /\ \A p \in DOMAIN direct : Held[p] = direct[p]
  /\ \A p \in Out : p \in Nat /\ Held[p] \in Nat \ {0}
  /\ \A p, q \in Out : p # q => Before(p, Held[p], q, Held[q])

(* What callers hold is apart and has the sizes of its headers. *)
LEMMA HeldIsSound == IInv => HeldSound
<1> SUFFICES ASSUME IInv PROVE HeldSound
  OBVIOUS
<1>1. ASSUME NEW p \in live
      PROVE  /\ p \in DOMAIN chunk /\ p \in Nat
             /\ chunk[p].pageCount \in Nat \ {0}
  BY HeapFacts, HeaderFacts
<1>2. ASSUME NEW q \in DOMAIN direct
      PROVE  q \in Nat /\ direct[q] \in Nat \ {0}
  <2>1. q \in DirectPlaces /\ direct[q] \in MaxPages + 1 .. MaxRequest
    BY HeapFacts DEF RestOK
  <2> QED
    BY <2>1, PageFacts, PlacesAssumption, MaxRequestAssumption
<1>3. ASSUME NEW p \in live, NEW q \in DOMAIN direct
      PROVE  Before(p, chunk[p].pageCount, q, direct[q])
             /\ Before(q, direct[q], p, chunk[p].pageCount) /\ p # q
  <2>1. PICK b \in blocks : InBlock(chunk, p, b)
    BY <1>1 DEF IInv, ChunksInv
  <2>2. Before(b, BlockPageCnt, q, direct[q]) /\ b \in Nat
    BY HeapFacts DEF IInv, MappedApart, BlocksApart
  <2> QED
    BY <1>1, <1>2, <2>1, <2>2, PageFacts DEF InBlock, Before
<1>4. live \intersect DOMAIN direct = {}
  BY <1>3
<1>5. /\ DOMAIN Held = Out
      /\ \A p \in live : Held[p] = chunk[p].pageCount
      /\ \A p \in DOMAIN direct : Held[p] = direct[p]
  BY <1>4 DEF Held, Out
<1>6. ASSUME NEW p \in Out, NEW q \in Out, p # q
      PROVE  Before(p, Held[p], q, Held[q])
  <2>1. CASE p \in live /\ q \in live
    BY <1>1, <1>5, <1>6, <2>1 DEF IInv, ChunksInv
  <2>2. CASE p \in DOMAIN direct /\ q \in DOMAIN direct
    BY <1>5, <1>6, <2>2 DEF IInv, MappedApart
  <2>3. CASE p \in live /\ q \in DOMAIN direct
    BY <1>3, <1>5, <2>3
  <2>4. CASE p \in DOMAIN direct /\ q \in live
    BY <1>3, <1>5, <2>4
  <2> QED
    BY <2>1, <2>2, <2>3, <2>4 DEF Out
<1> QED
  BY <1>1, <1>2, <1>4, <1>5, <1>6 DEF Out, HeldSound

(* ... and so it is after a step. *)
LEMMA HeldStaysSound == IInv' => HeldSound'
  BY HeldIsSound, PTL

(* One more chunk is out: a Grant. *)
LEMMA GrantStep ==
  ASSUME IInv, IInv', NEW p, p \notin Out, Out' = Out \union {p},
         \A q \in Out : Held'[q] = Held[q], Held'[p] \in 1 .. MaxRequest,
         out' = out + 1
  PROVE  AsHeap!HeapNext
<1>1. DOMAIN Held = Out /\ DOMAIN Held' = Out'
  BY HeldIsSound, HeldStaysSound DEF HeldSound
<1>2. \A q \in Out : /\ q \in Nat /\ Held[q] \in Nat \ {0}
                     /\ p \in Nat /\ Held'[p] \in Nat \ {0}
                     /\ Before(q, Held[q], p, Held'[p])
  BY HeldIsSound, HeldStaysSound DEF HeldSound
<1>3. \A q \in DOMAIN Held :
        AsHeap!Extent(q, Held[q]) \intersect AsHeap!Extent(p, Held'[p]) = {}
  BY <1>1, <1>2 DEF AsHeap!Extent, Before
<1>4. Held' = [q \in DOMAIN Held \union {p} |-> IF q = p THEN Held'[p] ELSE Held[q]]
  <2>1. Held' = [q \in DOMAIN Held' |-> Held'[q]]
    BY DEF Held
  <2> QED
    BY <1>1, <2>1
<1>5. p \in ChunkPage
  <2>1. p \in live' \union DOMAIN direct'
    BY DEF Out
  <2>2. p \in DOMAIN chunk' \/ p \in DirectPlaces
    BY <2>1 DEF IInv, TypeOK
  <2> QED
    BY <2>2 DEF IInv, TypeOK, ChunkPage
<1>6. AsHeap!Grant(p)
  BY <1>1, <1>3, <1>4 DEF AsHeap!Grant, ChunkSize
<1> QED
  BY <1>5, <1>6 DEF AsHeap!HeapNext

(* One chunk less is out: a GiveBack. *)
LEMMA GiveBackStep ==
  ASSUME IInv, IInv', NEW p \in Out, Out' = Out \ {p},
         \A q \in Out' : Held'[q] = Held[q], out' = out - 1
  PROVE  AsHeap!HeapNext
<1>1. DOMAIN Held = Out /\ DOMAIN Held' = Out'
  BY HeldIsSound, HeldStaysSound DEF HeldSound
<1>2. Held' = [q \in DOMAIN Held \ {p} |-> Held[q]]
  <2>1. Held' = [q \in DOMAIN Held' |-> Held'[q]]
    BY DEF Held
  <2> QED
    BY <1>1, <2>1
<1>3. p \in ChunkPage
  <2>1. p \in DOMAIN chunk \/ p \in DirectPlaces
    BY DEF Out, IInv, TypeOK
  <2> QED
    BY <2>1 DEF IInv, TypeOK, ChunkPage
<1>4. AsHeap!GiveBack(p)
  BY <1>1, <1>2 DEF AsHeap!GiveBack
<1> QED
  BY <1>3, <1>4 DEF AsHeap!HeapNext

(* A chunk of a block passes to a caller, or comes back. *)
LEMMA HoldsSteps ==
  ASSUME IInv, IInv'
  PROVE  /\ \A n \in 1 .. MaxRequest : HoldsOneMore(n) => AsHeap!HeapNext
         /\ \A p \in live : HoldsOneLess(p) => AsHeap!HeapNext
<1>1. /\ live \intersect DOMAIN direct = {}
      /\ \A q \in live : Held[q] = chunk[q].pageCount
      /\ \A q \in DOMAIN direct : Held[q] = direct[q]
  BY HeldIsSound, HeldStaysSound DEF HeldSound
<1>2. /\ live' \intersect DOMAIN direct' = {}
      /\ \A q \in live' : Held'[q] = chunk'[q].pageCount
      /\ \A q \in DOMAIN direct' : Held'[q] = direct'[q]
  BY HeldIsSound, HeldStaysSound DEF HeldSound
<1>3. ASSUME NEW n \in 1 .. MaxRequest, HoldsOneMore(n)
      PROVE  AsHeap!HeapNext
  <2>1. PICK p \in DOMAIN chunk' \ live :
          live' = live \union {p} /\ chunk'[p].pageCount = n
    BY <1>3 DEF HoldsOneMore
  <2>2. /\ direct' = direct /\ out' = out + 1
        /\ \A q \in live : chunk'[q].pageCount = chunk[q].pageCount
    BY <1>3, <2>1 DEF HoldsOneMore, KeptSizes
  <2>3. p \notin Out /\ Out' = Out \union {p}
    BY <1>2, <2>1, <2>2 DEF Out
  <2>4. \A q \in Out : Held'[q] = Held[q]
    BY <1>1, <1>2, <2>1, <2>2 DEF Out
  <2>5. Held'[p] \in 1 .. MaxRequest
    BY <1>2, <2>1
  <2> QED
    BY <2>2, <2>3, <2>4, <2>5, GrantStep
<1>4. ASSUME NEW p \in live, HoldsOneLess(p)
      PROVE  AsHeap!HeapNext
  <2>1. /\ live' = live \ {p} /\ direct' = direct /\ out' = out - 1
        /\ \A q \in live' : chunk'[q].pageCount = chunk[q].pageCount
    BY <1>4 DEF HoldsOneLess, KeptSizes
  <2>2. p \in Out /\ Out' = Out \ {p}
    BY <1>1, <2>1 DEF Out
  <2>3. \A q \in Out' : Held'[q] = Held[q]
    BY <1>1, <1>2, <2>1 DEF Out
  <2> QED
    BY <2>1, <2>2, <2>3, GiveBackStep
<1> QED
  BY <1>3, <1>4

(* Nothing of what callers hold changes. *)
LEMMA HeldKept ==
  ASSUME UNCHANGED <<chunk, direct, live>>
  PROVE  Held' = Held
  BY DEF Held

(* Oversize chunks come and go, and deinitialize keeps just them. *)
LEMMA DirectSteps ==
  ASSUME IInv, IInv'
  PROVE  /\ \A n \in 1 .. MaxRequest : allocateDirect(n) => AsHeap!HeapNext
         /\ \A p : deallocateDirect(p) => AsHeap!HeapNext
         /\ deinitialize => AsHeap!HeapNext
<1>1. /\ live \intersect DOMAIN direct = {} /\ DOMAIN Held = Out
      /\ \A q \in live : Held[q] = chunk[q].pageCount
      /\ \A q \in DOMAIN direct : Held[q] = direct[q]
  BY HeldIsSound, HeldStaysSound DEF HeldSound
<1>2. /\ live' \intersect DOMAIN direct' = {} /\ DOMAIN Held' = Out'
      /\ \A q \in live' : Held'[q] = chunk'[q].pageCount
      /\ \A q \in DOMAIN direct' : Held'[q] = direct'[q]
  BY HeldIsSound, HeldStaysSound DEF HeldSound
<1>3. ASSUME NEW n \in 1 .. MaxRequest, allocateDirect(n)
      PROVE  AsHeap!HeapNext
  <2>1. PICK p \in DirectPlaces :
          /\ Pages(p, n) \intersect Mapped = {}
          /\ direct' = [q \in DOMAIN direct \union {p} |->
                          IF q = p THEN n ELSE direct[q]]
    BY <1>3 DEF allocateDirect
  <2>2. UNCHANGED <<chunk, live>> /\ out' = out + 1
    BY <1>3 DEF allocateDirect
  <2>3. p \in Nat /\ n \in Nat \ {0}
    BY PlacesAssumption, MaxRequestAssumption
  <2>4. p \notin DOMAIN direct
    BY <2>1, <2>3, NewPages
  <2>5. /\ DOMAIN direct' = DOMAIN direct \union {p} /\ direct'[p] = n
        /\ \A q \in DOMAIN direct : direct'[q] = direct[q]
    BY <2>1, <2>4
  <2>6. p \notin Out /\ Out' = Out \union {p}
    BY <1>2, <2>2, <2>4, <2>5 DEF Out
  <2>7. \A q \in Out : Held'[q] = Held[q]
    BY <1>1, <1>2, <2>2, <2>5 DEF Out
  <2>8. Held'[p] \in 1 .. MaxRequest
    BY <1>2, <2>5
  <2> QED
    BY <2>2, <2>6, <2>7, <2>8, GrantStep
<1>4. ASSUME NEW p, deallocateDirect(p)
      PROVE  AsHeap!HeapNext
  <2>1. /\ p \in DOMAIN direct
        /\ direct' = [q \in DOMAIN direct \ {p} |-> direct[q]]
        /\ out' = out - 1 /\ UNCHANGED <<chunk, live>>
    BY <1>4 DEF deallocateDirect
  <2>2. /\ DOMAIN direct' = DOMAIN direct \ {p}
        /\ \A q \in DOMAIN direct' : direct'[q] = direct[q]
    BY <2>1
  <2>3. p \in Out /\ Out' = Out \ {p}
    BY <1>1, <2>1, <2>2 DEF Out
  <2>4. \A q \in Out' : Held'[q] = Held[q]
    BY <1>1, <1>2, <2>1, <2>2 DEF Out
  <2> QED
    BY <2>1, <2>3, <2>4, GiveBackStep
<1>5. ASSUME deinitialize
      PROVE  AsHeap!HeapNext
  <2>1. /\ live' = {} /\ direct' = direct /\ out' = Cardinality(DOMAIN direct)
    BY <1>5 DEF deinitialize
  <2>2. Held' = [q \in DOMAIN direct |-> Held[q]]
    <3>1. Held' = [q \in DOMAIN Held' |-> Held'[q]]
      BY DEF Held
    <3> QED
      BY <1>1, <1>2, <2>1, <3>1 DEF Out
  <2>3. DOMAIN direct \in SUBSET DOMAIN Held
    BY <1>1 DEF Out
  <2>4. AsHeap!TearDown
    <3> SUFFICES \E kept \in SUBSET DOMAIN Held :
                   Held' = [p \in kept |-> Held[p]] /\ out' = Cardinality(kept)
      BY DEF AsHeap!TearDown, AsHeap!Cardinality, Cardinality
    <3> WITNESS DOMAIN direct \in SUBSET DOMAIN Held
    <3> QED
      BY <2>1, <2>2
  <2> QED
    BY <2>4 DEF AsHeap!HeapNext
<1> QED
  BY <1>3, <1>4, <1>5

(* What callers hold never overlaps, moves or changes its size: every step *)
(* of the allocator is one of the heap, or none.                           *)
THEOREM ImplementsChunkHeap == Spec => IsChunkHeap
<1>1. Init => AsHeap!HeapInit
  BY DEF Init, AsHeap!HeapInit, Held
<1>2. IInv /\ IInv' /\ [Next]_vars => [AsHeap!HeapNext]_<<Held, out>>
  <2> SUFFICES ASSUME IInv, IInv', [Next]_vars
               PROVE  AsHeap!HeapNext \/ UNCHANGED <<Held, out>>
    OBVIOUS
  <2>1. ASSUME NEW n \in 1 .. MaxRequest, allocate(n)
        PROVE  AsHeap!HeapNext \/ UNCHANGED <<Held, out>>
    <3>1. CASE allocateExact(n)
      BY <3>1, allocateExactStep, HoldsSteps
    <3>2. CASE allocateSplit(n)
      BY <3>2, allocateSplitStep, HoldsSteps
    <3>3. CASE allocateFromNewBlock(n)
      BY <3>3, allocateFromNewBlockStep, HoldsSteps
    <3>4. CASE blockLeaked(n)
      BY <3>4, HeldKept DEF blockLeaked
    <3>5. CASE allocateDirect(n)
      BY <3>5, DirectSteps
    <3> QED
      BY <2>1, <3>1, <3>2, <3>3, <3>4, <3>5 DEF allocate
  <2>2. ASSUME NEW p, deallocate(p)
        PROVE  AsHeap!HeapNext \/ UNCHANGED <<Held, out>>
    <3>1. CASE deallocateFails(p)
      BY <3>1, HeldKept DEF deallocateFails
    <3>2. CASE deallocateMerging(p)
      BY <3>2, deallocateMergingStep, HoldsSteps DEF deallocateMerging
    <3>3. CASE deallocateAlone(p)
      BY <3>3, deallocateAloneStep, HoldsSteps DEF deallocateAlone
    <3>4. CASE deallocateDirect(p)
      BY <3>4, DirectSteps
    <3> QED
      BY <2>2, <3>1, <3>2, <3>3, <3>4 DEF deallocate
  <2>3. CASE deinitialize
    BY <2>3, DirectSteps
  <2>4. CASE UNCHANGED vars
    BY <2>4, HeldKept DEF vars
  <2> QED
    BY <2>1, <2>2, <2>3, <2>4 DEF Next
<1> QED
  BY <1>1, <1>2, Invariance, PTL DEF Spec, IsChunkHeap, AsHeap!HeapSpec
=============================================================================
