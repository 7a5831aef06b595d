--------------------------- MODULE BucketsProofs ---------------------------
(***************************************************************************)
(* Theorems about Buckets for every number and size of buckets, every size *)
(* of a multipage and every set of places the OS may put a block at.       *)
(***************************************************************************)
EXTENDS Buckets, PageAddressProofs, FiniteSetTheorems, WellFoundedInduction

-----------------------------------------------------------------------------
(* A set of numbers has a least one. *)
LEMMA LeastNat ==
  ASSUME NEW T \in SUBSET Nat, T # {}
  PROVE  \E m \in T : \A k \in T : m <= k
<1> DEFINE R == OpToRel(<, Nat)
<1>1. IsWellFoundedOn(R, Nat)
  BY NatLessThanWellFounded
<1>2. \A k, m \in Nat : <<k, m>> \in R <=> k < m
  BY DEF OpToRel
<1> HIDE DEF R
<1>3. PICK m \in T : \A k \in T : ~(<<k, m>> \in R)
  BY <1>1, WFMin
<1>4. \A k \in T : <<k, m>> \in R <=> k < m
  BY <1>2
<1>5. m \in Nat /\ \A k \in T : k \in Nat /\ ~(k < m)
  BY <1>3, <1>4
<1>6. \A k \in T : m <= k
  BY <1>5
<1> QED
  BY <1>6

(* Induction up to n, with the property as the set of numbers that have it. *)
LEMMA UpTo ==
  ASSUME NEW n \in Nat, NEW T, 0 \in T,
         \A k \in 0 .. n - 1 : k \in T => k + 1 \in T
  PROVE  \A k \in 0 .. n : k \in T
<1> SUFFICES ASSUME NEW j \in 0 .. n, j \notin T PROVE FALSE
  OBVIOUS
<1> DEFINE Bad == {k \in 0 .. n : k \notin T}
<1>1. Bad \in SUBSET Nat /\ Bad # {}
  OBVIOUS
<1> HIDE DEF Bad
<1>2. PICK m \in Bad : \A k \in Bad : m <= k
  BY <1>1, LeastNat
<1>3. m \in 0 .. n /\ m \notin T
  BY DEF Bad
<1>4. m - 1 \in 0 .. n - 1 /\ m - 1 \in 0 .. n
  BY <1>3
<1>5. m - 1 \in T
  BY <1>2, <1>4 DEF Bad
<1> QED
  BY <1>3, <1>4, <1>5

-----------------------------------------------------------------------------
(***************************************************************************)
(* The objects formatted from n pages.  The k-th place for an object is    *)
(* left out (Bad) when it lies at memForbidden and the size needs care.    *)
(***************************************************************************)
SizeOK(size) ==
  /\ size \in Nat \ {0}
  /\ size % (2 * memForbidden) = 0 \/ 2 * size <= PageSize - memForbidden

ItemCnt(size, n) == (n * PageSize) \div size

Bad(size, k) ==
  NeedsCare(size) /\ k > 0 /\ (k * size) % PageSize = memForbidden

Good(size, n) == {k \in 0 .. ItemCnt(size, n) - 1 : ~Bad(size, k)}

NextGood(size, k) == IF Bad(size, k + 1) THEN k + 2 ELSE k + 1

(* The sizes of the buckets are such sizes. *)
LEMMA BucketSizesOK == \A i \in Idx : SizeOK(BucketSize[i])
  BY BucketSizeAssumption DEF SizeOK

(* Pages are not empty, and memForbidden lies in them. *)
LEMMA PageSizeFacts ==
  /\ PageSize \in Nat /\ PageSize > 0
  /\ memForbidden \in Nat /\ memForbidden > 0 /\ memForbidden < PageSize
  BY PageSizeAssumption

(* The k-th place is inside the pages if and only if there are more than k. *)
LEMMA ItemRoom ==
  ASSUME NEW size, SizeOK(size), NEW n \in Nat, NEW k \in Nat
  PROVE  /\ ItemCnt(size, n) \in Nat /\ n * PageSize \in Nat /\ k * size \in Nat
         /\ (k + 1) * size = k * size + size
         /\ k < ItemCnt(size, n) <=> k * size + size <= n * PageSize
<1> DEFINE bytes == n * PageSize
           cnt == bytes \div size
<1>1. size \in Nat /\ size > 0 /\ bytes \in Nat
  BY PageSizeFacts, SMT DEF SizeOK
<1> HIDE DEF bytes
<1>2. cnt \in Nat /\ cnt * size <= bytes
  <2>1. cnt \in Nat /\ bytes = cnt * size + (bytes % size) /\ bytes % size \in Nat
    BY <1>1, DivisionFacts
  <2> HIDE DEF cnt
  <2>2. cnt * size \in Nat
    BY <1>1, <2>1, SMT
  <2> QED
    BY <1>1, <2>1, <2>2
<1>3. k * size \in Nat /\ (k + 1) * size = k * size + size
  BY <1>1, SMT
<1>4. ASSUME k < cnt PROVE (k + 1) * size <= bytes
  <2> HIDE DEF cnt
  <2>1. (k + 1) * size <= cnt * size
    BY <1>1, <1>2, <1>4, SMT
  <2>2. cnt * size \in Nat /\ (k + 1) * size \in Nat
    BY <1>1, <1>2, SMT
  <2> QED
    BY <1>1, <1>2, <2>1, <2>2
<1>5. ASSUME (k + 1) * size <= bytes PROVE k < cnt
  <2>1. k + 1 <= cnt
    BY <1>1, <1>5, SMT
  <2> QED
    BY <1>2, <2>1
<1> QED
  BY <1>1, <1>2, <1>3, <1>4, <1>5 DEF ItemCnt, bytes

(* A place left out is neither the first nor the last one, and no two in a *)
(* row are left out: two objects fit in a page after memForbidden.         *)
LEMMA BadIsAlone ==
  ASSUME NEW size, SizeOK(size), NEW n \in Nat, NEW k \in Nat,
         k < ItemCnt(size, n), Bad(size, k)
  PROVE  k > 0 /\ k + 1 < ItemCnt(size, n) /\ ~Bad(size, k + 1)
<1> DEFINE x == k * size
           q == x \div PageSize
<1>1. /\ k > 0 /\ x \in Nat /\ x + size <= n * PageSize /\ n * PageSize \in Nat
      /\ (k + 1) * size = x + size /\ x % PageSize = memForbidden
  BY ItemRoom DEF Bad
<1>2. size \in Nat /\ size > 0 /\ 2 * size <= PageSize - memForbidden
  BY DEF SizeOK, Bad, NeedsCare
<1> HIDE DEF x
<1>3. q \in Nat /\ x = q * PageSize + memForbidden
  BY <1>1, PageSizeFacts, DivisionFacts
<1> HIDE DEF q
<1>4. q * PageSize \in Nat /\ (q + 1) * PageSize = q * PageSize + PageSize
  BY <1>3, PageSizeFacts, SMT
<1>5. (q + 1) * PageSize <= n * PageSize
  <2>1. q < n
    <3> SUFFICES ASSUME n <= q PROVE FALSE
      BY <1>3
    <3>1. n * PageSize <= q * PageSize
      BY <1>3, PageSizeFacts, SMT
    <3> QED
      BY <1>1, <1>2, <1>3, <1>4, <3>1, PageSizeFacts
  <2> QED
    BY <1>3, <2>1, PageSizeFacts, SMT
<1>6. (x + size) + size <= n * PageSize
  BY <1>1, <1>2, <1>3, <1>4, <1>5, PageSizeFacts
<1>7. k + 1 < ItemCnt(size, n)
  <2>1. k + 1 \in Nat /\ (k + 1) * size + size <= n * PageSize
    BY <1>1, <1>6
  <2> QED
    BY <2>1, ItemRoom
<1>8. ((k + 1) * size) % PageSize = memForbidden + size
  <2>1. (k + 1) * size = q * PageSize + (memForbidden + size)
    BY <1>1, <1>2, <1>3, <1>4, PageSizeFacts
  <2> DEFINE o == memForbidden + size
  <2>2. o \in Nat /\ o < PageSize
    BY <1>2, PageSizeFacts
  <2> HIDE DEF o
  <2>3. (q * PageSize + o) % PageSize = o
    BY <1>3, <2>2, PageSizeFacts, DivisionUnique
  <2> QED
    BY <2>1, <2>3 DEF o
<1> QED
  BY <1>1, <1>2, <1>7, <1>8, PageSizeFacts DEF Bad

(* The good places form one chain: each but the last leads to a later one, *)
(* two never to the same, and each but the first is led to.                *)
LEMMA GoodChain ==
  ASSUME NEW size, SizeOK(size), NEW n \in Nat, ItemCnt(size, n) > 0
  PROVE  LET cnt == ItemCnt(size, n)
             G   == Good(size, n)
         IN  /\ 0 \in G /\ cnt - 1 \in G
             /\ \A k \in G : k # cnt - 1 =>
                  NextGood(size, k) \in G /\ NextGood(size, k) > k
             /\ \A j, k \in G : NextGood(size, j) = NextGood(size, k) => j = k
             /\ \A k \in G : k # 0 =>
                  \E j \in G : j # cnt - 1 /\ NextGood(size, j) = k
<1> DEFINE cnt == ItemCnt(size, n)
           G == Good(size, n)
<1>1. cnt \in Nat /\ cnt > 0
  BY ItemRoom
<1>2. \A k \in Nat : k < cnt /\ Bad(size, k) =>
        k > 0 /\ k + 1 < cnt /\ ~Bad(size, k + 1)
  BY BadIsAlone
<1>3. \A k : k \in G <=> k \in Nat /\ k < cnt /\ ~Bad(size, k)
  BY <1>1 DEF Good
<1> HIDE DEF cnt, G
<1>4. 0 \in G
  BY <1>1, <1>3 DEF Bad
<1>5. cnt - 1 \in G
  BY <1>1, <1>2, <1>3
<1>6. ASSUME NEW k \in G, k # cnt - 1
      PROVE  NextGood(size, k) \in G /\ NextGood(size, k) > k
  <2>1. k \in Nat /\ k + 1 \in Nat /\ k + 1 < cnt
    BY <1>1, <1>3, <1>6
  <2>2. Bad(size, k + 1) => k + 2 < cnt /\ ~Bad(size, k + 2)
    <3>1. (k + 1) + 1 = k + 2
      BY <2>1
    <3> QED
      BY <1>2, <2>1, <3>1
  <2> QED
    BY <1>3, <2>1, <2>2 DEF NextGood
<1>7. ASSUME NEW j \in G, NEW k \in G, NextGood(size, j) = NextGood(size, k)
      PROVE  j = k
  <2>1. j \in Nat /\ k \in Nat /\ ~Bad(size, j) /\ ~Bad(size, k)
    BY <1>3
  <2> QED
    BY <1>7, <2>1 DEF NextGood
<1>8. ASSUME NEW k \in G, k # 0
      PROVE  \E j \in G : j # cnt - 1 /\ NextGood(size, j) = k
  <2>1. k \in Nat /\ k < cnt /\ ~Bad(size, k) /\ k - 1 \in Nat /\ k - 1 < cnt
    BY <1>1, <1>3, <1>8
  <2>2. CASE ~Bad(size, k - 1)
    <3>1. k - 1 \in G /\ k - 1 # cnt - 1 /\ (k - 1) + 1 = k
      BY <1>1, <1>3, <2>1, <2>2
    <3>2. NextGood(size, k - 1) = k
      BY <2>1, <3>1 DEF NextGood
    <3> QED
      BY <3>1, <3>2
  <2>3. CASE Bad(size, k - 1)
    <3>0. k - 1 > 0
      BY <1>2, <2>1, <2>3
    <3>1. k - 2 \in Nat /\ k - 2 < cnt /\ (k - 2) + 1 = k - 1 /\ (k - 2) + 2 = k
      BY <1>1, <2>1, <3>0
    <3>2. ~Bad(size, k - 2)
      BY <1>2, <2>3, <3>1
    <3>3. k - 2 \in G /\ k - 2 # cnt - 1 /\ NextGood(size, k - 2) = k
      BY <1>1, <1>3, <2>1, <2>3, <3>1, <3>2 DEF NextGood
    <3> QED
      BY <3>3
  <2> QED
    BY <2>2, <2>3
<1> QED
  BY <1>4, <1>5, <1>6, <1>7, <1>8 DEF cnt, G

(* A number with remainder 0 is a multiple. *)
LEMMA Multiple ==
  ASSUME NEW n \in Nat, NEW r \in Nat, r > 0, n % r = 0
  PROVE  \E q \in Nat : n = q * r
<1>1. n \div r \in Nat /\ n = (n \div r) * r + (n % r)
  BY DivisionFacts
<1>2. n = (n \div r) * r
  BY <1>1, SMT
<1> QED
  BY <1>1, <1>2

(* No object lies at memForbidden: of the sizes that need no care, no      *)
(* multiple does.                                                          *)
LEMMA CareFree ==
  ASSUME NEW size \in Nat \ {0}, ~NeedsCare(size), NEW k \in Nat
  PROVE  (k * size) % PageSize # memForbidden
<1> DEFINE d == 2 * memForbidden
           q == (k * size) \div PageSize
<1>1. d \in Nat /\ d > 0 /\ memForbidden < d
  BY PageSizeFacts
<1>d. size % d = 0 /\ PageSize % d = 0
  BY PageSizeAssumption DEF NeedsCare
<1> HIDE DEF d
<1>2. PICK s \in Nat : size = s * d
  BY <1>1, <1>d, Multiple
<1>3. PICK p \in Nat : PageSize = p * d
  BY <1>1, <1>d, PageSizeFacts, Multiple
<1>4. k * size \in Nat
  BY SMT
<1>5. SUFFICES ASSUME (k * size) % PageSize = memForbidden PROVE FALSE
  OBVIOUS
<1>6. q \in Nat /\ k * size = q * PageSize + memForbidden
  BY <1>4, <1>5, PageSizeFacts, DivisionFacts
<1> HIDE DEF q
<1>7. k * s \in Nat /\ k * size = (k * s) * d
  BY <1>1, <1>2, SMT
<1>8. q * p \in Nat /\ q * PageSize = (q * p) * d
  BY <1>1, <1>3, <1>6, SMT
<1> DEFINE x == k * s
           y == q * p
<1>9. x \in Nat /\ y \in Nat /\ x * d + 0 = y * d + memForbidden
  <2>1. x * d \in Nat /\ k * size = x * d /\ k * size = y * d + memForbidden
    BY <1>1, <1>6, <1>7, <1>8, SMT
  <2> QED
    BY <1>7, <1>8, <2>1
<1> HIDE DEF x, y
<1>10. (x * d + 0) % d = 0
  BY <1>1, <1>9, DivisionUnique
<1>11. (y * d + memForbidden) % d = memForbidden
  BY <1>1, <1>9, PageSizeFacts, DivisionUnique
<1> QED
  BY <1>9, <1>10, <1>11, PageSizeFacts

(* The offsets of the objects are those of the good places; each object    *)
(* fits in the pages, away from memForbidden, and two never overlap.       *)
LEMMA ItemFacts ==
  ASSUME NEW size, SizeOK(size), NEW n \in Nat
  PROVE  /\ Items(size, n) = {k * size : k \in Good(size, n)}
         /\ \A o \in Items(size, n) :
              /\ o \in Nat /\ o + size <= n * PageSize
              /\ o % PageSize # memForbidden
         /\ \A o, p \in Items(size, n) : o < p => o + size <= p
<1>1. size \in Nat \ {0} /\ ItemCnt(size, n) \in Nat
  BY ItemRoom DEF SizeOK
<1>2. Items(size, n) = {k * size : k \in Good(size, n)}
  BY DEF Items, Good, Bad, ItemCnt
<1>3. ASSUME NEW k \in Good(size, n)
      PROVE  /\ k \in Nat /\ k * size \in Nat /\ k * size + size <= n * PageSize
             /\ (k * size) % PageSize # memForbidden
  <2>1. k \in Nat /\ k < ItemCnt(size, n) /\ ~Bad(size, k)
    BY <1>1 DEF Good
  <2>2. k * size \in Nat /\ k * size + size <= n * PageSize
    BY <2>1, ItemRoom
  <2>3. CASE k = 0
    <3>1. k * size = 0 * PageSize + 0
      BY <1>1, <2>3, PageSizeFacts, SMT
    <3>2. (0 * PageSize + 0) % PageSize = 0
      BY PageSizeFacts, DivisionUnique
    <3> QED
      BY <2>1, <2>2, <3>1, <3>2, PageSizeFacts
  <2>4. CASE k # 0 /\ NeedsCare(size)
    BY <2>1, <2>2, <2>4 DEF Bad
  <2>5. CASE ~NeedsCare(size)
    BY <1>1, <2>1, <2>2, <2>5, CareFree
  <2> QED
    BY <2>3, <2>4, <2>5
<1>4. ASSUME NEW j \in Good(size, n), NEW k \in Good(size, n), j * size < k * size
      PROVE  j * size + size <= k * size
  <2>1. j \in Nat /\ k \in Nat
    BY <1>3
  <2>2. j < k
    <3> SUFFICES ASSUME k <= j PROVE FALSE
      BY <2>1
    <3>1. k * size <= j * size
      BY <1>1, <2>1, SMT
    <3> QED
      BY <1>3, <1>4, <3>1
  <2>3. (j + 1) * size <= k * size
    BY <1>1, <2>1, <2>2, SMT
  <2> QED
    BY <2>1, <2>3, ItemRoom
<1> QED
  BY <1>2, <1>3, <1>4

-----------------------------------------------------------------------------
(***************************************************************************)
(* What format writes: one chain of links from the first object to the     *)
(* last, through all objects.                                              *)
(***************************************************************************)
Objects(size, start, n) == {start + i : i \in Items(size, n)}

Written(size, start, n) ==
  [a \in Objects(size, start, n) |->
     IF a = start + (ItemCnt(size, n) - 1) * size
       THEN null ELSE start + Link(size, a - start)]

Chain(w, first) ==
  /\ DOMAIN w \subseteq Nat /\ IsFiniteSet(DOMAIN w)
  /\ first \in DOMAIN w
  /\ \A a \in DOMAIN w : w[a] = null \/ (w[a] \in DOMAIN w /\ w[a] > a)
  /\ \A a, b \in DOMAIN w : w[a] = w[b] /\ w[a] # null => a = b
  /\ \A a \in DOMAIN w : w[a] # first
  /\ \A a \in DOMAIN w : a # first => \E b \in DOMAIN w : w[b] = a

(* format does nothing if there is no room for an object; otherwise it     *)
(* writes the links and puts the first object at the head.                 *)
LEMMA FormatIsWriting ==
  ASSUME NEW heap, NEW i \in Idx, NEW start, NEW n
  PROVE  LET size == BucketSize[i]
             w == Written(size, start, n)
         IN  format(heap, i, start, n) =
               IF ItemCnt(size, n) = 0 THEN heap
               ELSE [next |-> Over(w, heap.next), first |-> start,
                     made |-> heap.made \union DOMAIN w]
  BY DEF format, Written, Objects, ItemCnt

(* Two places are different addresses. *)
LEMMA PlacesDiffer ==
  ASSUME NEW size \in Nat \ {0}, NEW j \in Nat, NEW k \in Nat
  PROVE  /\ j * size \in Nat /\ k * size \in Nat
         /\ j < k <=> j * size < k * size
         /\ j = k <=> j * size = k * size
<1>1. j * size \in Nat /\ k * size \in Nat
  BY SMT
<1>2. \A x, y \in Nat : x < y => x * size + size <= y * size
  <2> TAKE x \in Nat, y \in Nat
  <2> HAVE x < y
  <2>1. (x + 1) * size <= y * size
    BY SMT
  <2>2. (x + 1) * size = x * size + size
    BY SMT
  <2> QED
    BY <2>1, <2>2
<1>3. j < k => j * size + size <= k * size
  BY <1>2
<1>4. k < j => k * size + size <= j * size
  BY <1>2
<1> QED
  BY <1>1, <1>3, <1>4

(* The links that are written form a chain. *)
LEMMA WrittenChain ==
  ASSUME NEW size, SizeOK(size), NEW start \in Nat, NEW n \in Nat, ItemCnt(size, n) > 0
  PROVE  Chain(Written(size, start, n), start)
<1> DEFINE cnt == ItemCnt(size, n)
           G == Good(size, n)
           w == Written(size, start, n)
           P(k) == k * size
           At(k) == start + P(k)
           D == DOMAIN w
<1>1. size \in Nat \ {0} /\ cnt \in Nat /\ cnt > 0
  BY ItemRoom DEF SizeOK
<1>2. /\ 0 \in G /\ cnt - 1 \in G
      /\ \A k \in G : k \in Nat /\ k <= cnt - 1
      /\ \A k \in G : k # cnt - 1 => NextGood(size, k) \in G /\ NextGood(size, k) > k
      /\ \A j, k \in G : NextGood(size, j) = NextGood(size, k) => j = k
      /\ \A k \in G : k # 0 => \E j \in G : j # cnt - 1 /\ NextGood(size, j) = k
  BY <1>1, GoodChain DEF Good
<1>3. ASSUME NEW j \in Nat, NEW k \in Nat
      PROVE  /\ P(k) \in Nat
             /\ j < k <=> P(j) < P(k)
             /\ j = k <=> P(j) = P(k)
  BY <1>1, PlacesDiffer
<1>n. \A k \in Nat : P(k) \in Nat
  BY <1>3
<1>p. /\ P(0) = 0
      /\ \A k \in Nat : P(k + 1) = P(k) + size /\ P(k + 2) = P(k) + 2 * size
  BY <1>1, SMT
<1>q. /\ Items(size, n) = {P(k) : k \in G}
      /\ \A k \in Nat : Bad(size, k + 1) <=>
           NeedsCare(size) /\ P(k + 1) % PageSize = memForbidden
  BY ItemFacts DEF Bad
<1>r. w = [a \in Objects(size, start, n) |->
             IF a = At(cnt - 1) THEN null ELSE start + Link(size, a - start)]
  BY DEF Written
<1> HIDE DEF P
<1>4. \A k \in Nat : At(k) \in Nat
  BY <1>n
<1>5. \A j, k \in Nat : (j < k <=> At(j) < At(k)) /\ (j = k <=> At(j) = At(k))
  <2> TAKE j \in Nat, k \in Nat
  <2>1. P(j) \in Nat /\ P(k) \in Nat
    BY <1>n
  <2>2. (j < k <=> P(j) < P(k)) /\ (j = k <=> P(j) = P(k))
    BY <1>3
  <2> QED
    BY <2>1, <2>2
<1>6. At(0) = start
  BY <1>p
<1>7. D = {At(k) : k \in G}
  <2>1. Items(size, n) = {P(k) : k \in G}
    BY <1>q
  <2>2. D = {start + i : i \in Items(size, n)}
    BY DEF Written, Objects
  <2> QED
    BY <2>1, <2>2
<1>8. \A k \in Nat : Link(size, P(k)) = P(NextGood(size, k))
  <2> TAKE k \in Nat
  <2>1. P(k + 1) = P(k) + size /\ P(k + 2) = P(k) + 2 * size
    BY <1>p
  <2> QED
    BY <1>q, <2>1 DEF Link, NextGood
<1>9. \A k \in G : w[At(k)] = IF k = cnt - 1 THEN null ELSE At(NextGood(size, k))
  <2> TAKE k \in G
  <2>1. At(k) \in D /\ k \in Nat /\ cnt - 1 \in Nat
    BY <1>1, <1>2, <1>7
  <2>2. At(k) = At(cnt - 1) <=> k = cnt - 1
    BY <1>5, <2>1
  <2>3. At(k) - start = P(k)
    BY <1>n, <2>1
  <2>4. w[At(k)] = IF At(k) = At(cnt - 1) THEN null ELSE start + Link(size, At(k) - start)
    BY <1>r, <2>1
  <2> QED
    BY <1>8, <2>1, <2>2, <2>3, <2>4
<1> HIDE DEF G, cnt, w, At, D
<1>10. D \subseteq Nat /\ start \in D
  BY <1>1, <1>2, <1>4, <1>6, <1>7
<1>11. IsFiniteSet(D)
  <2>1. \A a \in D : a <= At(cnt - 1)
    <3> TAKE a \in D
    <3>1. PICK k \in G : a = At(k)
      BY <1>7
    <3>2. k \in Nat /\ cnt - 1 \in Nat /\ k <= cnt - 1 /\ At(k) \in Nat /\ At(cnt - 1) \in Nat
      BY <1>1, <1>2, <1>4
    <3>3. k = cnt - 1 \/ At(k) < At(cnt - 1)
      BY <1>5, <3>2
    <3> QED
      BY <3>1, <3>2, <3>3
  <2>2. At(cnt - 1) \in Nat
    BY <1>1, <1>4
  <2> QED
    BY <1>10, <2>1, <2>2, FS_BoundedSetOfNaturals
<1>12. ASSUME NEW a \in D
       PROVE  w[a] = null \/ (w[a] \in D /\ w[a] > a)
  <2>1. PICK k \in G : a = At(k)
    BY <1>7
  <2>2. k \in Nat
    BY <1>2
  <2>3. CASE k = cnt - 1
    BY <1>9, <2>1, <2>3
  <2>4. CASE k # cnt - 1
    <3>1. NextGood(size, k) \in G /\ NextGood(size, k) \in Nat /\ NextGood(size, k) > k
      BY <1>1, <1>2, <2>4
    <3>2. At(NextGood(size, k)) \in D /\ At(k) < At(NextGood(size, k))
          /\ At(k) \in Nat /\ At(NextGood(size, k)) \in Nat
      BY <1>4, <1>5, <1>7, <2>2, <3>1
    <3> QED
      BY <1>9, <2>1, <2>4, <3>2
  <2> QED
    BY <2>3, <2>4
<1>13. ASSUME NEW a \in D, NEW b \in D, w[a] = w[b], w[a] # null
       PROVE  a = b
  <2>1. PICK j \in G : a = At(j)
    BY <1>7
  <2>2. PICK k \in G : b = At(k)
    BY <1>7
  <2>3. j # cnt - 1 /\ k # cnt - 1
    BY <1>9, <1>13, <2>1, <2>2
  <2>4. At(NextGood(size, j)) = At(NextGood(size, k))
    BY <1>9, <1>13, <2>1, <2>2, <2>3
  <2>5. NextGood(size, j) = NextGood(size, k)
    <3>1. NextGood(size, j) \in Nat /\ NextGood(size, k) \in Nat
      BY <1>1, <1>2, <2>3
    <3> QED
      BY <1>5, <2>4, <3>1
  <2> QED
    BY <1>2, <2>1, <2>2, <2>5
<1>14. ASSUME NEW a \in D
       PROVE  w[a] # start
  <2>1. PICK k \in G : a = At(k)
    BY <1>7
  <2>2. w[a] = null \/ w[a] > a
    BY <1>12
  <2>3. a \in Nat /\ k \in Nat /\ (k = 0 \/ At(0) < At(k))
    BY <1>2, <1>5, <1>10
  <2> QED
    BY <1>6, <2>1, <2>2, <2>3 DEF null
<1>15. ASSUME NEW a \in D, a # start
       PROVE  \E b \in D : w[b] = a
  <2>1. PICK k \in G : a = At(k)
    BY <1>7
  <2>2. k # 0
    BY <1>6, <1>15, <2>1
  <2>3. PICK j \in G : j # cnt - 1 /\ NextGood(size, j) = k
    BY <1>2, <2>2
  <2> QED
    BY <1>7, <1>9, <2>1, <2>3
<1> QED
  BY <1>10, <1>11, <1>12, <1>13, <1>14, <1>15 DEF Chain, D, w

-----------------------------------------------------------------------------
(***************************************************************************)
(* Where the objects of a multipage lie.  Its pages are those of the slots *)
(* it begins with; no other multipage has any of them.                     *)
(***************************************************************************)
AllMultipages == UNION {Multipages(i) : i \in Idx}

PageOf(m, k) == idxToPageAddr(m.block, m.idx, m.slot + k)

Part == 0 .. MultipagePageCnt - 1

(* A multiple of c below another is at least c below it. *)
LEMMA MultiplesApart ==
  ASSUME NEW c \in Nat, c > 0, NEW x \in Nat, NEW y \in Nat,
         x % c = 0, y % c = 0, x < y
  PROVE  x + c <= y
<1>1. PICK p \in Nat : x = p * c
  BY Multiple
<1>2. PICK q \in Nat : y = q * c
  BY Multiple
<1>3. p < q
  <2> SUFFICES ASSUME q <= p PROVE FALSE
    OBVIOUS
  <2>1. q * c <= p * c
    BY SMT
  <2> QED
    BY <1>1, <1>2, <2>1
<1>4. (p + 1) * c <= q * c /\ (p + 1) * c = p * c + c
  BY <1>3, SMT
<1> QED
  BY <1>1, <1>2, <1>4

(* The slots of a multipage are slots of its bucket. *)
LEMMA MultipageFacts ==
  ASSUME NEW m \in AllMultipages
  PROVE  /\ m.block \in Bases /\ m.block \in Nat /\ m.idx \in Idx
         /\ m.slot \in Nat /\ m.slot % MultipagePageCnt = 0
         /\ m = [block |-> m.block, idx |-> m.idx, slot |-> m.slot]
         /\ MultipagePageCnt \in Nat /\ MultipagePageCnt > 0
         /\ \A k \in Part : k \in Nat /\ m.slot + k \in Slot
<1>1. /\ m.block \in Bases /\ m.idx \in Idx /\ m.slot \in Slot
      /\ m.slot % MultipagePageCnt = 0
      /\ m = [block |-> m.block, idx |-> m.idx, slot |-> m.slot]
  BY DEF AllMultipages, Multipages
<1>2. /\ MultipagePageCnt \in Nat /\ MultipagePageCnt > 0
      /\ PagesPerBucket % MultipagePageCnt = 0 /\ PagesPerBucket \in Nat
      /\ m.slot \in Nat /\ m.slot < PagesPerBucket
  BY <1>1, MultipageAssumption, PagesPerBucketAssumption DEF Slot
<1>3. m.slot + MultipagePageCnt <= PagesPerBucket
  BY <1>1, <1>2, MultiplesApart
<1>4. \A k \in Part : k \in Nat /\ m.slot + k \in Slot
  BY <1>2, <1>3 DEF Part, Slot
<1> QED
  BY <1>1, <1>2, <1>4, PlacesAssumption

(* A page of a multipage lies in its block and sounds as its bucket. *)
LEMMA PageOfFacts ==
  ASSUME NEW m \in AllMultipages, NEW k \in Part
  PROVE  /\ PageOf(m, k) \in Nat /\ PageOf(m, k) \in BlockPages(m.block)
         /\ addressToIdx(PageOf(m, k)) = m.idx
  BY MultipageFacts, PageAddressCorrect DEF PageOf

(* No page is in two multipages, or in one of them twice. *)
LEMMA PageOfInjective ==
  ASSUME NEW m \in AllMultipages, NEW k \in Part,
         NEW w \in AllMultipages, NEW j \in Part, PageOf(m, k) = PageOf(w, j)
  PROVE  m = w /\ k = j
<1>1. m.block = w.block
  <2>1. /\ PageOf(m, k) \in BlockPages(m.block) /\ PageOf(m, k) \in BlockPages(w.block)
        /\ m.block \in Bases /\ w.block \in Bases
    BY PageOfFacts, MultipageFacts
  <2> QED
    BY <2>1, PlacesAssumption
<1>2. m.idx = w.idx /\ m.slot + k = w.slot + j
  <2> DEFINE x == m.slot + k
             y == w.slot + j
  <2>1. /\ x \in Slot /\ y \in Slot /\ m.block \in Nat /\ m.idx \in Idx /\ w.idx \in Idx
    BY MultipageFacts
  <2>2. idxToPageAddr(m.block, m.idx, x) = idxToPageAddr(m.block, w.idx, y)
    BY <1>1 DEF PageOf
  <2> HIDE DEF x, y
  <2>3. m.idx = w.idx /\ x = y
    BY <2>1, <2>2, PageAddressInjective
  <2> QED
    BY <2>3 DEF x, y
<1>3. /\ m.slot \in Nat /\ w.slot \in Nat /\ MultipagePageCnt \in Nat /\ MultipagePageCnt > 0
      /\ m.slot % MultipagePageCnt = 0 /\ w.slot % MultipagePageCnt = 0
      /\ k \in Nat /\ j \in Nat /\ k < MultipagePageCnt /\ j < MultipagePageCnt
  BY MultipageFacts DEF Part
<1>4. m.slot = w.slot
  <2>1. ~(m.slot < w.slot)
    <3> SUFFICES ASSUME m.slot < w.slot PROVE FALSE
      OBVIOUS
    <3>1. m.slot + MultipagePageCnt <= w.slot
      BY <1>3, MultiplesApart
    <3> QED
      BY <1>2, <1>3, <3>1
  <2>2. ~(w.slot < m.slot)
    <3> SUFFICES ASSUME w.slot < m.slot PROVE FALSE
      OBVIOUS
    <3>1. w.slot + MultipagePageCnt <= m.slot
      BY <1>3, MultiplesApart
    <3> QED
      BY <1>2, <1>3, <3>1
  <2> QED
    BY <1>3, <2>1, <2>2
<1> QED
  BY <1>1, <1>2, <1>3, <1>4, MultipageFacts

(* The two segments are the pages of the multipage in order.               *)
LEMMA SegmentFacts ==
  ASSUME NEW m \in AllMultipages
  PROVE  LET s == Segments[m]
         IN  /\ s.sz1 \in Nat /\ s.sz1 > 0 /\ s.sz1 <= MultipagePageCnt
             /\ s.sz2 = MultipagePageCnt - s.sz1
             /\ s.ptr1 = PageOf(m, 0) * PageSize
             /\ IsCut(m) <=> s.sz1 < MultipagePageCnt
             /\ IsCut(m) => s.ptr2 = PageOf(m, s.sz1) * PageSize
             /\ \A k \in 0 .. s.sz1 - 1 : PageOf(m, k) = PageOf(m, 0) + k
             /\ \A k \in 0 .. s.sz2 - 1 :
                  PageOf(m, s.sz1 + k) = PageOf(m, s.sz1) + k
<1> DEFINE M == MultipagePageCnt
           Breaks(c) == /\ \A k \in 1 .. c - 1 : PageOf(m, k) = PageOf(m, 0) + k
                        /\ c < M => PageOf(m, c) # PageOf(m, 0) + c
           sz1 == CHOOSE c \in 1 .. M : Breaks(c)
<1>1. /\ M \in Nat /\ M > 0 /\ m.block \in Nat /\ m.idx \in Idx /\ m.slot \in Nat
      /\ \A k \in Part : k \in Nat /\ m.slot + k \in Slot
  BY MultipageFacts
<1>2. PICK base \in Int, cut \in Int :
        \A k \in Slot : idxToPageAddr(m.block, m.idx, k)
                         = base + k + IF k < cut THEN ReservationPages ELSE 0
  BY <1>1, SlotPages
<1>3. \A k \in Part : PageOf(m, k) = base + (m.slot + k)
                         + IF m.slot + k < cut THEN ReservationPages ELSE 0
  BY <1>1, <1>2 DEF PageOf
<1>4. ReservationPages \in Nat /\ ReservationPages > 0
  BY BucketCntAssumption, PagesPerBucketAssumption, SMT DEF ReservationPages
<1>p. \A k : k \in Part <=> k \in Nat /\ k < M
  BY <1>1 DEF Part
<1>z. 0 \in Part /\ m.slot + 0 = m.slot /\ \A k \in Part : PageOf(m, k) \in Nat
  BY <1>1, <1>p, PageOfFacts
<1>5. \E c \in 1 .. M : Breaks(c)
  <2> DEFINE T == {c \in 1 .. M : c < M => PageOf(m, c) # PageOf(m, 0) + c}
  <2>1. T \in SUBSET Nat /\ M \in T
    BY <1>1
  <2> HIDE DEF T
  <2>2. PICK c \in T : \A k \in T : c <= k
    BY <2>1, LeastNat
  <2>3. c \in 1 .. M /\ (c < M => PageOf(m, c) # PageOf(m, 0) + c)
    BY DEF T
  <2>4. ASSUME NEW k \in 1 .. c - 1 PROVE PageOf(m, k) = PageOf(m, 0) + k
    <3>1. k \in 1 .. M /\ k < M /\ ~(c <= k)
      BY <1>1, <2>3
    <3> QED
      BY <2>2, <3>1 DEF T
  <2> QED
    BY <2>3, <2>4
<1>6. sz1 \in 1 .. M /\ Breaks(sz1)
  <2> HIDE DEF Breaks
  <2> QED
    BY <1>5
<1>7. /\ Segments[m].ptr1 = PageOf(m, 0) * PageSize
      /\ Segments[m].sz1 = sz1 /\ Segments[m].sz2 = M - sz1
      /\ Segments[m].ptr2 = IF sz1 = M THEN null ELSE PageOf(m, sz1) * PageSize
  BY DEF Segments, AllMultipages, PageOf
<1> HIDE DEF sz1, M
<1>8. sz1 \in Nat /\ sz1 > 0 /\ sz1 <= M
  BY <1>1, <1>6
<1>9. \A k \in 0 .. sz1 - 1 : PageOf(m, k) = PageOf(m, 0) + k
  <2> TAKE k \in 0 .. sz1 - 1
  <2>1. CASE k = 0
    BY <1>z, <2>1
  <2>2. CASE k # 0
    BY <1>6, <2>2
  <2> QED
    BY <2>1, <2>2
<1>10. ASSUME sz1 < M
       PROVE  \A k \in 0 .. (M - sz1) - 1 : PageOf(m, sz1 + k) = PageOf(m, sz1) + k
  <2>1. PageOf(m, sz1) # PageOf(m, 0) + sz1 /\ sz1 \in Part
    BY <1>6, <1>8, <1>10, <1>p
  <2>2. m.slot + sz1 >= cut
    BY <1>1, <1>3, <1>4, <1>8, <1>z, <2>1
  <2> TAKE k \in 0 .. (M - sz1) - 1
  <2>3. sz1 + k \in Part
    BY <1>1, <1>8, <1>p
  <2>4. /\ PageOf(m, sz1) = base + (m.slot + sz1)
        /\ PageOf(m, sz1 + k) = base + (m.slot + (sz1 + k))
    BY <1>1, <1>3, <1>8, <2>1, <2>2, <2>3
  <2> QED
    BY <1>1, <1>8, <2>4
<1>11. IsCut(m) <=> sz1 < M
  <2>1. sz1 # M => PageOf(m, sz1) * PageSize # null
    <3> SUFFICES ASSUME sz1 # M PROVE PageOf(m, sz1) * PageSize # null
      OBVIOUS
    <3>1. sz1 \in Part
      BY <1>1, <1>8, <1>p
    <3>2. PageOf(m, sz1) \in Nat
      BY <1>z, <3>1
    <3>3. PageOf(m, sz1) * PageSize \in Nat
      BY <3>2, PageSizeFacts, SMT
    <3> QED
      BY <3>3 DEF null
  <2> QED
    BY <1>1, <1>7, <1>8, <2>1 DEF IsCut
<1> QED
  BY <1>1, <1>7, <1>8, <1>9, <1>10, <1>11 DEF M

(* The segments of a multipage, each with the number of its first page.    *)
Segs(m) ==
  {[start |-> Segments[m].ptr1, n |-> Segments[m].sz1, from |-> 0]}
    \union (IF IsCut(m)
              THEN {[start |-> Segments[m].ptr2, n |-> Segments[m].sz2,
                     from |-> Segments[m].sz1]}
              ELSE {})

InSeg(g, x) == g.start <= x /\ x < g.start + g.n * PageSize

(* A segment is whole pages of the multipage, one after the other.         *)
LEMMA SegFacts ==
  ASSUME NEW m \in AllMultipages, NEW g \in Segs(m)
  PROVE  /\ g.start \in Nat /\ g.n \in Nat /\ g.n > 0 /\ g.n * PageSize \in Nat
         /\ g.from \in Nat /\ g.from + g.n <= MultipagePageCnt
         /\ g.from \in Part /\ g.start = PageOf(m, g.from) * PageSize
         /\ \A k \in 0 .. g.n - 1 :
              g.from + k \in Part /\ PageOf(m, g.from + k) = PageOf(m, g.from) + k
<1> DEFINE s == Segments[m]
           M == MultipagePageCnt
<1>1. /\ s.sz1 \in Nat /\ s.sz1 > 0 /\ s.sz1 <= M /\ s.sz2 = M - s.sz1
      /\ s.ptr1 = PageOf(m, 0) * PageSize
      /\ IsCut(m) <=> s.sz1 < M
      /\ IsCut(m) => s.ptr2 = PageOf(m, s.sz1) * PageSize
      /\ \A k \in 0 .. s.sz1 - 1 : PageOf(m, k) = PageOf(m, 0) + k
      /\ \A k \in 0 .. s.sz2 - 1 : PageOf(m, s.sz1 + k) = PageOf(m, s.sz1) + k
  BY SegmentFacts
<1>2. M \in Nat /\ M > 0
  BY MultipageFacts
<1> HIDE DEF s
<1>p. \A k : k \in Part <=> k \in Nat /\ k < M
  BY <1>2 DEF Part
<1>3. \/ g = [start |-> s.ptr1, n |-> s.sz1, from |-> 0]
      \/ IsCut(m) /\ g = [start |-> s.ptr2, n |-> s.sz2, from |-> s.sz1]
  BY DEF Segs, s
<1>4. /\ g.n \in Nat /\ g.n > 0 /\ g.from \in Nat /\ g.from + g.n <= M
      /\ g.from \in Part /\ g.start = PageOf(m, g.from) * PageSize
  BY <1>1, <1>2, <1>3, <1>p
<1>5. ASSUME NEW k \in 0 .. g.n - 1
      PROVE  g.from + k \in Part /\ PageOf(m, g.from + k) = PageOf(m, g.from) + k
  <2>1. g.from + k \in Part
    BY <1>2, <1>4, <1>p
  <2>2. CASE g = [start |-> s.ptr1, n |-> s.sz1, from |-> 0]
    <3>1. g.from + k = k
      BY <2>2
    <3> QED
      BY <1>1, <2>1, <2>2, <3>1
  <2>3. CASE IsCut(m) /\ g = [start |-> s.ptr2, n |-> s.sz2, from |-> s.sz1]
    BY <1>1, <2>1, <2>3
  <2> QED
    BY <1>3, <2>2, <2>3
<1>6. g.start \in Nat /\ g.n * PageSize \in Nat
  <2>1. PageOf(m, g.from) \in Nat
    BY <1>4, PageOfFacts
  <2> QED
    BY <1>4, <2>1, PageSizeFacts, SMT
<1> QED
  BY <1>4, <1>5, <1>6

(* Different segments of a multipage have none of its pages in common.     *)
LEMMA SegsApart ==
  ASSUME NEW m \in AllMultipages, NEW g \in Segs(m), NEW h \in Segs(m),
         NEW j \in 0 .. g.n - 1, NEW k \in 0 .. h.n - 1, g.from + j = h.from + k
  PROVE  g = h
<1> DEFINE s == Segments[m]
           one == [start |-> s.ptr1, n |-> s.sz1, from |-> 0]
           two == [start |-> s.ptr2, n |-> s.sz2, from |-> s.sz1]
<1>1. s.sz1 \in Nat
  BY SegmentFacts
<1>2. (g = one \/ g = two) /\ (h = one \/ h = two)
  BY DEF Segs
<1>3. one.n = s.sz1 /\ one.from = 0 /\ two.from = s.sz1
  OBVIOUS
<1> HIDE DEF one, two, s
<1>4. ASSUME NEW a \in 0 .. one.n - 1, NEW n, NEW b \in 0 .. n - 1
      PROVE  one.from + a # two.from + b
  BY <1>1, <1>3
<1>5. ~(g = one /\ h = two)
  BY <1>4
<1>6. ~(g = two /\ h = one)
  BY <1>4
<1> QED
  BY <1>2, <1>5, <1>6

(* An address in a segment is on one of its pages, as far from its start   *)
(* as from the start of the segment.                                       *)
LEMMA ByteInSeg ==
  ASSUME NEW m \in AllMultipages, NEW g \in Segs(m), NEW o \in Nat, o < g.n * PageSize
  PROVE  /\ (g.start + o) % PageSize = o % PageSize
         /\ \E k \in 0 .. g.n - 1 : (g.start + o) \div PageSize = PageOf(m, g.from + k)
<1> DEFINE P == PageSize
           first == PageOf(m, g.from)
           q == o \div P
           r == o % P
<1>1. /\ g.n \in Nat /\ g.n > 0 /\ g.from \in Part /\ g.start = first * P
      /\ \A k \in 0 .. g.n - 1 : PageOf(m, g.from + k) = first + k
  BY SegFacts
<1>2. first \in Nat /\ P \in Nat /\ P > 0
  BY <1>1, PageOfFacts, PageSizeFacts
<1>3. q \in Nat /\ r \in Nat /\ r < P /\ o = q * P + r
  BY <1>2, DivisionFacts
<1> HIDE DEF first, q, r, P
<1>4. q < g.n
  <2> SUFFICES ASSUME g.n <= q PROVE FALSE
    BY <1>1, <1>3
  <2>1. g.n * P <= q * P
    BY <1>1, <1>2, <1>3, SMT
  <2>2. g.n * P \in Nat /\ q * P \in Nat
    BY <1>1, <1>2, <1>3, SMT
  <2> QED
    BY <1>3, <2>1, <2>2 DEF P
<1>5. g.start + o = (first + q) * P + r
  <2>1. (first + q) * P = first * P + q * P /\ first * P \in Nat /\ q * P \in Nat
    BY <1>2, <1>3, SMT
  <2> QED
    BY <1>1, <1>3, <2>1
<1> DEFINE y == first + q
<1>6. y \in Nat
  BY <1>2, <1>3
<1>7. g.start + o = y * P + r /\ (y = first + q)
  BY <1>5
<1> HIDE DEF y
<1>8. (y * P + r) % P = r /\ (y * P + r) \div P = y
  BY <1>2, <1>3, <1>6, DivisionUnique
<1>9. y = PageOf(m, g.from + q)
  BY <1>1, <1>3, <1>4, <1>7
<1> QED
  BY <1>1, <1>3, <1>4, <1>7, <1>8, <1>9 DEF P, r

(* The objects a multipage is formatted into. *)
ObjectsOf(m) == UNION {Objects(BucketSize[m.idx], g.start, g.n) : g \in Segs(m)}

(* They lie in the segments of the multipage, never at memForbidden, and   *)
(* their addresses sound as its bucket.                                    *)
LEMMA ObjectFacts ==
  ASSUME NEW m \in AllMultipages, NEW a \in ObjectsOf(m)
  PROVE  /\ a \in Nat /\ a % PageSize # memForbidden
         /\ addressToIdx(a \div PageSize) = m.idx
         /\ \E g \in Segs(m) : /\ g.start <= a
                               /\ a + BucketSize[m.idx] <= g.start + g.n * PageSize
         /\ \A x \in Bytes(a, BucketSize[m.idx]) :
              \E k \in Part : x \div PageSize = PageOf(m, k)
<1> DEFINE size == BucketSize[m.idx]
<1>1. m.idx \in Idx
  BY MultipageFacts
<1>2. SizeOK(size) /\ size \in Nat \ {0}
  BY <1>1, BucketSizesOK DEF SizeOK
<1>3. PICK g \in Segs(m) : a \in Objects(size, g.start, g.n)
  BY DEF ObjectsOf
<1>4. PICK o \in Items(size, g.n) : a = g.start + o
  BY <1>3 DEF Objects
<1>5. /\ g.start \in Nat /\ g.n \in Nat /\ g.n * PageSize \in Nat
      /\ \A k \in 0 .. g.n - 1 : g.from + k \in Part
  BY SegFacts
<1> HIDE DEF size
<1>6. o \in Nat /\ o + size <= g.n * PageSize /\ o % PageSize # memForbidden
  BY <1>2, <1>5, ItemFacts
<1>7. ASSUME NEW p \in Nat, p < g.n * PageSize
      PROVE  /\ (g.start + p) % PageSize = p % PageSize
             /\ \E k \in Part : (g.start + p) \div PageSize = PageOf(m, k)
  BY <1>5, <1>7, ByteInSeg
<1>8. o < g.n * PageSize
  BY <1>2, <1>5, <1>6
<1>9. a \in Nat /\ a % PageSize # memForbidden
  BY <1>4, <1>5, <1>6, <1>7, <1>8
<1>10. addressToIdx(a \div PageSize) = m.idx
  BY <1>4, <1>6, <1>7, <1>8, PageOfFacts
<1>11. g.start <= a /\ a + size <= g.start + g.n * PageSize
  BY <1>2, <1>4, <1>5, <1>6
<1>12. ASSUME NEW x \in Bytes(a, size)
       PROVE  \E k \in Part : x \div PageSize = PageOf(m, k)
  <2>1. x - g.start \in Nat /\ x - g.start < g.n * PageSize /\ g.start + (x - g.start) = x
    BY <1>2, <1>5, <1>9, <1>11 DEF Bytes
  <2> QED
    BY <1>7, <2>1
<1> QED
  BY <1>9, <1>10, <1>11, <1>12 DEF size

(* No two objects, of any multipages, have a byte in common.               *)
LEMMA ObjectsApart ==
  ASSUME NEW m \in AllMultipages, NEW a \in ObjectsOf(m),
         NEW w \in AllMultipages, NEW b \in ObjectsOf(w),
         NEW x, x \in Bytes(a, BucketSize[m.idx]), x \in Bytes(b, BucketSize[w.idx])
  PROVE  m = w /\ a = b
<1>1. m = w
  <2>1. PICK k \in Part : x \div PageSize = PageOf(m, k)
    BY ObjectFacts
  <2>2. PICK j \in Part : x \div PageSize = PageOf(w, j)
    BY ObjectFacts
  <2> QED
    BY <2>1, <2>2, PageOfInjective
<1> DEFINE size == BucketSize[m.idx]
<1>2. SizeOK(size) /\ size \in Nat \ {0}
  BY MultipageFacts, BucketSizesOK DEF SizeOK
<1>3. PICK g \in Segs(m) : a \in Objects(size, g.start, g.n)
  BY DEF ObjectsOf
<1>4. PICK h \in Segs(m) : b \in Objects(size, h.start, h.n)
  BY <1>1 DEF ObjectsOf
<1>5. PICK o \in Items(size, g.n) : a = g.start + o
  BY <1>3 DEF Objects
<1>6. PICK p \in Items(size, h.n) : b = h.start + p
  BY <1>4 DEF Objects
<1>7. x \in Bytes(a, size) /\ x \in Bytes(b, size)
  BY <1>1
<1> HIDE DEF size
<1>8. /\ g.start \in Nat /\ g.n \in Nat /\ g.n * PageSize \in Nat
      /\ h.start \in Nat /\ h.n \in Nat /\ h.n * PageSize \in Nat
      /\ \A k \in 0 .. g.n - 1 : g.from + k \in Part
      /\ \A k \in 0 .. h.n - 1 : h.from + k \in Part
  BY SegFacts
<1>9. /\ o \in Nat /\ o + size <= g.n * PageSize
      /\ p \in Nat /\ p + size <= h.n * PageSize
  BY <1>2, <1>8, ItemFacts
<1>10. g = h
  <2> DEFINE y == x - g.start
             z == x - h.start
  <2>1. /\ y \in Nat /\ y < g.n * PageSize /\ g.start + y = x
        /\ z \in Nat /\ z < h.n * PageSize /\ h.start + z = x
    BY <1>2, <1>5, <1>6, <1>7, <1>8, <1>9 DEF Bytes
  <2> HIDE DEF y, z
  <2>2. PICK j \in 0 .. g.n - 1 : x \div PageSize = PageOf(m, g.from + j)
    BY <2>1, ByteInSeg
  <2>3. PICK k \in 0 .. h.n - 1 : x \div PageSize = PageOf(m, h.from + k)
    BY <2>1, ByteInSeg
  <2>4. g.from + j = h.from + k
    BY <1>8, <2>2, <2>3, PageOfInjective
  <2> QED
    BY <2>4, SegsApart
<1>11. \A e, f \in Items(size, g.n) : e < f => e + size <= f
  BY <1>2, <1>8, ItemFacts
<1>12. o = p
  <2>1. ~(o < p) /\ ~(p < o)
    BY <1>2, <1>5, <1>6, <1>7, <1>8, <1>9, <1>10, <1>11 DEF Bytes
  <2> QED
    BY <1>9, <2>1
<1> QED
  BY <1>1, <1>5, <1>6, <1>10, <1>12

-----------------------------------------------------------------------------
(***************************************************************************)
(* The free lists.  F are the free objects, D those that were lost.  The   *)
(* links join objects of one bucket, never two to the same one, and never  *)
(* in a circle, in the sense that matters for losing nothing: of any free  *)
(* objects, one is linked to by none of them.  What is not lost is the     *)
(* first of its bucket or linked to; what is lost stays apart.             *)
(***************************************************************************)
Home(a) == addressToIdx(a \div PageSize)

NoCircle(nx, F) ==
  \A S \in SUBSET F : S # {} => \E a \in S : \A b \in S : nx[b] # a

LinksInv(nx, F, D) ==
  /\ F \subseteq Nat /\ D \subseteq F
  /\ \A a \in F : nx[a] # null =>
       nx[a] \in F /\ Home(nx[a]) = Home(a) /\ (a \in D <=> nx[a] \in D)
  /\ \A a, b \in F : nx[a] = nx[b] /\ nx[a] # null => a = b
  /\ NoCircle(nx, F)

HeadsInv(bk, nx, F, D) ==
  /\ bk \in [Idx -> Nat \union {null}]
  /\ \A i \in Idx : bk[i] # null =>
       bk[i] \in F \ D /\ Home(bk[i]) = i /\ \A a \in F : nx[a] # bk[i]
  /\ \A a \in F \ D : bk[Home(a)] = a \/ \E b \in F : nx[b] = a

FreeInv(bk, nx, F, D) == LinksInv(nx, F, D) /\ HeadsInv(bk, nx, F, D)

(* Every address sounds as some bucket. *)
LEMMA HomeIsIdx == \A a \in Nat : Home(a) \in Idx
<1> TAKE a \in Nat
<1> DEFINE R == ReservationPages
           r == (a \div PageSize) % R
<1>1. R \in Nat /\ R > 0 /\ R = BucketCnt * PagesPerBucket
  BY BucketCntAssumption, PagesPerBucketAssumption, SMT DEF ReservationPages
<1>2. r \in Nat /\ r < R
  BY <1>1, PageSizeFacts, DivisionFacts
<1> HIDE DEF r, R
<1> DEFINE q == r \div PagesPerBucket
           o == r % PagesPerBucket
<1>3. PagesPerBucket \in Nat /\ PagesPerBucket > 0 /\ BucketCnt \in Nat
  BY BucketCntAssumption, PagesPerBucketAssumption
<1>4. q \in Nat /\ o \in Nat /\ r = q * PagesPerBucket + o
  BY <1>2, <1>3, DivisionFacts
<1> HIDE DEF o
<1>5. q < BucketCnt
  <2> SUFFICES ASSUME BucketCnt <= q PROVE FALSE
    BY <1>3, <1>4
  <2> HIDE DEF q
  <2>1. BucketCnt * PagesPerBucket <= q * PagesPerBucket
    BY <1>3, <1>4, SMT
  <2>2. R <= q * PagesPerBucket
    BY <1>1, <2>1
  <2>3. q * PagesPerBucket \in Nat
    BY <1>3, <1>4, SMT
  <2> QED
    BY <1>1, <1>2, <1>4, <2>2, <2>3
<1>6. q \in Idx
  BY <1>3, <1>4, <1>5 DEF Idx
<1> QED
  BY <1>6 DEF Home, addressToIdx, r, R

(* An address is no null. *)
LEMMA NullFacts == null \notin Nat
  BY DEF null

(* The first object of a bucket leaves it. *)
LEMMA Pop ==
  ASSUME NEW bk, NEW nx, NEW F, NEW D, FreeInv(bk, nx, F, D),
         NEW i \in Idx, bk[i] # null,
         NEW nx2, \A a \in F \ {bk[i]} : nx2[a] = nx[a]
  PROVE  FreeInv([bk EXCEPT ![i] = nx[bk[i]]], nx2, F \ {bk[i]}, D)
<1> DEFINE x == bk[i]
           G == F \ {x}
           bk2 == [bk EXCEPT ![i] = nx[x]]
<1>1. /\ F \subseteq Nat /\ D \subseteq F
      /\ \A a \in F : nx[a] # null =>
           nx[a] \in F /\ Home(nx[a]) = Home(a) /\ (a \in D <=> nx[a] \in D)
      /\ \A a, b \in F : nx[a] = nx[b] /\ nx[a] # null => a = b
      /\ NoCircle(nx, F)
  BY DEF FreeInv, LinksInv
<1>2. /\ bk \in [Idx -> Nat \union {null}]
      /\ \A j \in Idx : bk[j] # null =>
           bk[j] \in F \ D /\ Home(bk[j]) = j /\ \A a \in F : nx[a] # bk[j]
      /\ \A a \in F \ D : bk[Home(a)] = a \/ \E b \in F : nx[b] = a
  BY DEF FreeInv, HeadsInv
<1>3. /\ x \in F /\ x \notin D /\ Home(x) = i /\ \A a \in F : nx[a] # x
      /\ \A a \in G : nx2[a] = nx[a]
  BY <1>2
<1>4. /\ bk2 \in [Idx -> Nat \union {null}] /\ bk2[i] = nx[x]
      /\ \A j \in Idx : j # i => bk2[j] = bk[j]
  BY <1>1, <1>2, <1>3
<1> HIDE DEF x, bk2
<1>5. LinksInv(nx2, G, D)
  <2>1. NoCircle(nx2, G)
    <3> SUFFICES ASSUME NEW S \in SUBSET G, S # {}
                 PROVE  \E a \in S : \A b \in S : nx2[b] # a
      BY DEF NoCircle
    <3>1. PICK a \in S : \A b \in S : nx[b] # a
      BY <1>1 DEF NoCircle
    <3> QED
      BY <1>3, <3>1
  <2>2. \A a \in G : nx2[a] # null =>
           nx2[a] \in G /\ Home(nx2[a]) = Home(a) /\ (a \in D <=> nx2[a] \in D)
    BY <1>1, <1>3
  <2>3. \A a, b \in G : nx2[a] = nx2[b] /\ nx2[a] # null => a = b
    BY <1>1, <1>3
  <2> QED
    BY <1>1, <1>3, <2>1, <2>2, <2>3 DEF LinksInv
<1>6. HeadsInv(bk2, nx2, G, D)
  <2>1. ASSUME NEW j \in Idx, bk2[j] # null
        PROVE  bk2[j] \in G \ D /\ Home(bk2[j]) = j /\ \A a \in G : nx2[a] # bk2[j]
    <3>1. CASE j = i
      BY <1>1, <1>3, <1>4, <2>1, <3>1
    <3>2. CASE j # i
      BY <1>2, <1>3, <1>4, <2>1, <3>2
    <3> QED
      BY <3>1, <3>2
  <2>2. ASSUME NEW a \in G \ D, \A b \in G : nx2[b] # a
        PROVE  bk2[Home(a)] = a
    <3>1. CASE nx[x] = a
      <4>1. a \in Nat /\ Home(a) = i
        BY <1>1, <1>3, <3>1, NullFacts
      <4> QED
        BY <1>4, <3>1, <4>1
    <3>2. CASE nx[x] # a
      <4>1. \A b \in F : nx[b] # a
        BY <1>3, <2>2, <3>2
      <4>2. bk[Home(a)] = a
        BY <1>2, <4>1
      <4>3. Home(a) # i
        BY <4>2 DEF x
      <4>4. Home(a) \in Idx
        <5>1. a \in Nat
          BY <1>1
        <5> QED
          BY <5>1, HomeIsIdx
      <4> QED
        BY <1>4, <4>2, <4>3, <4>4
    <3> QED
      BY <3>1, <3>2
  <2> QED
    BY <1>4, <2>1, <2>2 DEF HeadsInv
<1> QED
  BY <1>5, <1>6 DEF FreeInv, x, bk2

(* An object becomes the first of its bucket. *)
LEMMA Push ==
  ASSUME NEW bk, NEW nx, NEW F, NEW D, FreeInv(bk, nx, F, D),
         NEW x \in Nat \ F,
         NEW nx2, \A a \in F : nx2[a] = nx[a], nx2[x] = bk[Home(x)]
  PROVE  FreeInv([bk EXCEPT ![Home(x)] = x], nx2, F \union {x}, D)
<1> DEFINE i == Home(x)
           G == F \union {x}
           bk2 == [bk EXCEPT ![i] = x]
<1>i. i \in Idx
  BY HomeIsIdx
<1>1. /\ F \subseteq Nat /\ D \subseteq F
      /\ \A a \in F : nx[a] # null =>
           nx[a] \in F /\ Home(nx[a]) = Home(a) /\ (a \in D <=> nx[a] \in D)
      /\ \A a, b \in F : nx[a] = nx[b] /\ nx[a] # null => a = b
      /\ NoCircle(nx, F)
  BY DEF FreeInv, LinksInv
<1>2. /\ bk \in [Idx -> Nat \union {null}]
      /\ \A j \in Idx : bk[j] # null =>
           bk[j] \in F \ D /\ Home(bk[j]) = j /\ \A a \in F : nx[a] # bk[j]
      /\ \A a \in F \ D : bk[Home(a)] = a \/ \E b \in F : nx[b] = a
  BY DEF FreeInv, HeadsInv
<1>3. /\ x \in Nat /\ x \notin F /\ x # null /\ x \notin D
      /\ \A a \in F : nx2[a] = nx[a] /\ nx[a] # x
      /\ nx2[x] = bk[i]
  BY <1>1, NullFacts
<1>4. /\ bk2 \in [Idx -> Nat \union {null}] /\ bk2[i] = x
      /\ \A j \in Idx : j # i => bk2[j] = bk[j]
  BY <1>2, <1>3, <1>i
<1>5. \A a \in G : nx2[a] # x
  BY <1>2, <1>3, <1>i
<1> HIDE DEF bk2
<1>6. LinksInv(nx2, G, D)
  <2>1. NoCircle(nx2, G)
    <3> SUFFICES ASSUME NEW S \in SUBSET G, S # {}
                 PROVE  \E a \in S : \A b \in S : nx2[b] # a
      BY DEF NoCircle
    <3>1. CASE x \in S
      BY <1>5, <3>1
    <3>2. CASE x \notin S
      <4>1. S \in SUBSET F
        BY <3>2
      <4>2. PICK a \in S : \A b \in S : nx[b] # a
        BY <1>1, <4>1 DEF NoCircle
      <4> QED
        BY <1>3, <4>1, <4>2
    <3> QED
      BY <3>1, <3>2
  <2>2. ASSUME NEW a \in G, nx2[a] # null
        PROVE  nx2[a] \in G /\ Home(nx2[a]) = Home(a) /\ (a \in D <=> nx2[a] \in D)
    <3>1. CASE a = x
      BY <1>2, <1>3, <1>i, <2>2, <3>1
    <3>2. CASE a \in F
      BY <1>1, <1>3, <2>2, <3>2
    <3> QED
      BY <3>1, <3>2
  <2>3. ASSUME NEW a \in G, NEW b \in G, nx2[a] = nx2[b], nx2[a] # null
        PROVE  a = b
    <3>1. CASE a \in F /\ b \in F
      BY <1>1, <1>3, <2>3, <3>1
    <3>2. CASE a = x /\ b \in F
      BY <1>2, <1>3, <1>i, <2>3, <3>2
    <3>3. CASE a \in F /\ b = x
      BY <1>2, <1>3, <1>i, <2>3, <3>3
    <3> QED
      BY <3>1, <3>2, <3>3
  <2> QED
    BY <1>1, <1>3, <2>1, <2>2, <2>3 DEF LinksInv
<1>7. HeadsInv(bk2, nx2, G, D)
  <2>1. ASSUME NEW j \in Idx, bk2[j] # null
        PROVE  bk2[j] \in G \ D /\ Home(bk2[j]) = j /\ \A a \in G : nx2[a] # bk2[j]
    <3>1. CASE j = i
      BY <1>3, <1>4, <1>5, <3>1
    <3>2. CASE j # i
      <4>1. bk[j] # null /\ bk2[j] = bk[j]
        BY <1>4, <2>1, <3>2
      <4>2. bk[j] \in F \ D /\ Home(bk[j]) = j /\ \A a \in F : nx[a] # bk[j]
        BY <1>2, <4>1
      <4>3. nx2[x] # bk[j]
        <5> SUFFICES ASSUME bk[i] = bk[j] PROVE FALSE
          BY <1>3
        <5>1. Home(bk[i]) = i
          BY <1>2, <1>i, <4>1
        <5> QED
          BY <3>2, <4>2, <5>1
      <4> QED
        BY <1>3, <4>1, <4>2, <4>3
    <3> QED
      BY <3>1, <3>2
  <2>2. ASSUME NEW a \in G \ D, \A b \in G : nx2[b] # a
        PROVE  bk2[Home(a)] = a
    <3>1. CASE a = x
      BY <1>4, <3>1
    <3>2. CASE a \in F
      <4>1. \A b \in F : nx[b] # a
        BY <1>3, <2>2
      <4>2. bk[Home(a)] = a
        BY <1>2, <2>2, <3>2, <4>1
      <4>3. Home(a) # i
        BY <1>3, <2>2, <4>2
      <4>4. Home(a) \in Idx
        BY <1>1, <3>2, HomeIsIdx
      <4> QED
        BY <1>4, <4>2, <4>3, <4>4
    <3> QED
      BY <3>1, <3>2
  <2> QED
    BY <1>4, <2>1, <2>2 DEF HeadsInv
<1> QED
  BY <1>6, <1>7 DEF FreeInv, bk2

(* A new chain of one bucket joins the free objects: either as objects     *)
(* that are lost, or as the list of the bucket, if that was empty.         *)
LEMMA Attach ==
  ASSUME NEW bk, NEW nx, NEW F, NEW D, FreeInv(bk, nx, F, D),
         NEW w, NEW first, Chain(w, first), DOMAIN w \intersect F = {},
         NEW i \in Idx, \A a \in DOMAIN w : Home(a) = i,
         NEW nx2, \A a \in F : nx2[a] = nx[a], \A a \in DOMAIN w : nx2[a] = w[a]
  PROVE  /\ FreeInv(bk, nx2, F \union DOMAIN w, D \union DOMAIN w)
         /\ bk[i] = null =>
              FreeInv([bk EXCEPT ![i] = first], nx2, F \union DOMAIN w, D)
<1> DEFINE W == DOMAIN w
           G == F \union W
           bk2 == [bk EXCEPT ![i] = first]
<1>1. /\ F \subseteq Nat /\ D \subseteq F
      /\ \A a \in F : nx[a] # null =>
           nx[a] \in F /\ Home(nx[a]) = Home(a) /\ (a \in D <=> nx[a] \in D)
      /\ \A a, b \in F : nx[a] = nx[b] /\ nx[a] # null => a = b
      /\ NoCircle(nx, F)
  BY DEF FreeInv, LinksInv
<1>2. /\ bk \in [Idx -> Nat \union {null}]
      /\ \A j \in Idx : bk[j] # null =>
           bk[j] \in F \ D /\ Home(bk[j]) = j /\ \A a \in F : nx[a] # bk[j]
      /\ \A a \in F \ D : bk[Home(a)] = a \/ \E b \in F : nx[b] = a
  BY DEF FreeInv, HeadsInv
<1>3. /\ W \subseteq Nat /\ first \in W
      /\ \A a \in W : w[a] = null \/ (w[a] \in W /\ w[a] > a)
      /\ \A a, b \in W : w[a] = w[b] /\ w[a] # null => a = b
      /\ \A a \in W : w[a] # first
      /\ \A a \in W : a # first => \E b \in W : w[b] = a
  BY DEF Chain
<1>4. /\ W \intersect F = {}
      /\ \A a \in W : Home(a) = i
      /\ \A a \in F : nx2[a] = nx[a]
      /\ \A a \in W : nx2[a] = w[a]
  OBVIOUS
<1>n. null \notin Nat
  BY NullFacts
<1>b. /\ bk2 \in [Idx -> Nat \union {null}] /\ bk2[i] = first
      /\ \A j \in Idx : j # i => bk2[j] = bk[j]
  BY <1>2, <1>3
<1> HIDE DEF W, bk2
<1>5. NoCircle(nx2, G)
  <2> SUFFICES ASSUME NEW S \in SUBSET G, S # {}
               PROVE  \E a \in S : \A b \in S : nx2[b] # a
    BY DEF NoCircle
  <2>1. CASE S \intersect W = {}
    <3>1. S \in SUBSET F
      BY <2>1
    <3>2. PICK a \in S : \A b \in S : nx[b] # a
      BY <1>1, <3>1 DEF NoCircle
    <3> QED
      BY <1>4, <3>1, <3>2
  <2>2. CASE S \intersect W # {}
    <3> DEFINE T == S \intersect W
    <3>1. T \in SUBSET Nat /\ T # {}
      BY <1>3, <2>2
    <3> HIDE DEF T
    <3>2. PICK a \in T : \A b \in T : a <= b
      BY <3>1, LeastNat
    <3>3. a \in S /\ a \in W /\ a \in Nat
      BY <1>3, <3>2 DEF T
    <3>4. ASSUME NEW b \in S PROVE nx2[b] # a
      <4>1. CASE b \in F
        BY <1>1, <1>4, <1>n, <3>3, <4>1
      <4>2. CASE b \in W
        <5> SUFFICES ASSUME w[b] = a PROVE FALSE
          BY <1>4, <4>2
        <5>1. b \in Nat /\ b < a
          BY <1>3, <1>n, <3>3, <4>2
        <5>2. b \in T
          BY <4>2 DEF T
        <5> QED
          BY <3>2, <3>3, <5>1, <5>2
      <4> QED
        BY <4>1, <4>2
    <3> QED
      BY <3>3, <3>4
  <2> QED
    BY <2>1, <2>2
<1>6. \A a, b \in G : nx2[a] = nx2[b] /\ nx2[a] # null => a = b
  <2> SUFFICES ASSUME NEW a \in G, NEW b \in G, nx2[a] = nx2[b], nx2[a] # null
               PROVE  a = b
    OBVIOUS
  <2>1. CASE a \in F /\ b \in F
    BY <1>1, <1>4, <2>1
  <2>2. CASE a \in W /\ b \in W
    BY <1>3, <1>4, <2>2
  <2>3. \A c \in F : nx2[c] # null => nx2[c] \in F
    BY <1>1, <1>4
  <2>4. \A c \in W : nx2[c] # null => nx2[c] \in W
    BY <1>3, <1>4
  <2>5. a \in F <=> b \in F
    BY <1>4, <2>3, <2>4
  <2> QED
    BY <2>1, <2>2, <2>5
<1>7. ASSUME NEW a \in G, nx2[a] # null
      PROVE  /\ nx2[a] \in G /\ Home(nx2[a]) = Home(a)
             /\ (a \in D <=> nx2[a] \in D)
             /\ (a \in D \union W <=> nx2[a] \in D \union W)
  <2>1. CASE a \in F
    BY <1>1, <1>4, <1>7, <2>1
  <2>2. CASE a \in W
    <3>1. nx2[a] \in W
      BY <1>3, <1>4, <1>7, <2>2
    <3>2. a \notin D /\ nx2[a] \notin D
      BY <1>1, <1>4, <2>2, <3>1
    <3> QED
      BY <1>4, <2>2, <3>1, <3>2
  <2> QED
    BY <2>1, <2>2
<1>8. LinksInv(nx2, G, D) /\ LinksInv(nx2, G, D \union W)
  BY <1>1, <1>3, <1>5, <1>6, <1>7 DEF LinksInv
<1>9. HeadsInv(bk, nx2, G, D \union W)
  <2>1. ASSUME NEW j \in Idx, bk[j] # null
        PROVE  /\ bk[j] \in G \ (D \union W) /\ Home(bk[j]) = j
               /\ \A a \in G : nx2[a] # bk[j]
    BY <1>2, <1>3, <1>4, <2>1
  <2>2. \A a \in G \ (D \union W) : bk[Home(a)] = a \/ \E b \in G : nx2[b] = a
    BY <1>2, <1>4
  <2> QED
    BY <1>2, <2>1, <2>2 DEF HeadsInv
<1>10. ASSUME bk[i] = null PROVE HeadsInv(bk2, nx2, G, D)
  <2>1. ASSUME NEW j \in Idx, bk2[j] # null
        PROVE  bk2[j] \in G \ D /\ Home(bk2[j]) = j /\ \A a \in G : nx2[a] # bk2[j]
    <3>1. CASE j = i
      <4>1. \A a \in F : nx[a] # first
        BY <1>1, <1>3, <1>4, <1>n
      <4>2. first \notin D /\ Home(first) = i
        BY <1>1, <1>3, <1>4
      <4> QED
        BY <1>3, <1>4, <1>b, <3>1, <4>1, <4>2
    <3>2. CASE j # i
      <4>1. bk2[j] = bk[j] /\ bk[j] # null
        BY <1>b, <2>1, <3>2
      <4>2. bk[j] \in F \ D /\ Home(bk[j]) = j /\ \A a \in F : nx[a] # bk[j]
        BY <1>2, <4>1
      <4>3. \A a \in W : w[a] # bk[j]
        BY <1>3, <1>4, <4>1, <4>2
      <4> QED
        BY <1>4, <4>1, <4>2, <4>3
    <3> QED
      BY <3>1, <3>2
  <2>2. ASSUME NEW a \in G \ D, \A b \in G : nx2[b] # a
        PROVE  bk2[Home(a)] = a
    <3>1. CASE a \in W
      BY <1>3, <1>4, <1>b, <2>2, <3>1
    <3>2. CASE a \in F
      <4>1. bk[Home(a)] = a /\ a \in Nat
        BY <1>1, <1>2, <1>4, <2>2, <3>2
      <4>2. Home(a) \in Idx /\ Home(a) # i
        BY <1>10, <1>n, <4>1, HomeIsIdx
      <4> QED
        BY <1>b, <4>1, <4>2
    <3> QED
      BY <3>1, <3>2
  <2> QED
    BY <1>b, <2>1, <2>2 DEF HeadsInv
<1> QED
  BY <1>8, <1>9, <1>10 DEF FreeInv, W, bk2

(* What is free but not lost is led to from the first object of its        *)
(* bucket: a set of free objects that holds those, and with an object the  *)
(* one it is linked to, holds all that is not lost.                        *)
LEMMA ListedByAll ==
  ASSUME NEW bk, NEW nx, NEW F, NEW D, FreeInv(bk, nx, F, D), NEW L,
         \A i \in Idx : bk[i] # null => bk[i] \in L,
         \A a \in L \intersect F : nx[a] # null => nx[a] \in L
  PROVE  F \ D \subseteq L
<1>1. /\ F \subseteq Nat /\ D \subseteq F
      /\ \A a \in F : nx[a] # null =>
           nx[a] \in F /\ Home(nx[a]) = Home(a) /\ (a \in D <=> nx[a] \in D)
      /\ NoCircle(nx, F)
  BY DEF FreeInv, LinksInv
<1>2. \A a \in F \ D : bk[Home(a)] = a \/ \E b \in F : nx[b] = a
  BY DEF FreeInv, HeadsInv
<1> DEFINE S == F \ (D \union L)
<1> SUFFICES ASSUME S # {} PROVE FALSE
  OBVIOUS
<1>3. PICK a \in S : \A b \in S : nx[b] # a
  BY <1>1 DEF NoCircle
<1>4. a \in Nat /\ a # null /\ Home(a) \in Idx
  BY <1>1, NullFacts, HomeIsIdx
<1>5. PICK b \in F : nx[b] = a
  BY <1>2, <1>3, <1>4
<1>6. b \notin D /\ b \notin L
  BY <1>1, <1>3, <1>4, <1>5
<1> QED
  BY <1>3, <1>5, <1>6

(* The objects of a segment lie in it.                                     *)
LEMMA SegObjects ==
  ASSUME NEW m \in AllMultipages, NEW g \in Segs(m),
         NEW a \in Objects(BucketSize[m.idx], g.start, g.n)
  PROVE  /\ a \in Nat /\ InSeg(g, a)
         /\ Bytes(a, BucketSize[m.idx]) \subseteq Bytes(g.start, g.n * PageSize)
<1> DEFINE size == BucketSize[m.idx]
           room == g.n * PageSize
<1>1. SizeOK(size) /\ size \in Nat /\ size > 0
  BY MultipageFacts, BucketSizesOK DEF SizeOK
<1>2. g.start \in Nat /\ g.n \in Nat /\ room \in Nat
  BY SegFacts
<1>3. PICK o \in Items(size, g.n) : a = g.start + o
  BY DEF Objects
<1>4. o \in Nat /\ o + size <= room
  BY <1>1, <1>2, <1>3, ItemFacts
<1> HIDE DEF size, room
<1>5. a \in Nat /\ g.start <= a /\ a < g.start + room
  BY <1>1, <1>2, <1>3, <1>4
<1>6. Bytes(a, size) \subseteq Bytes(g.start, room)
  BY <1>1, <1>2, <1>3, <1>4 DEF Bytes
<1> QED
  BY <1>5, <1>6 DEF InSeg, size, room

(* No address is in two segments of a multipage.                           *)
LEMMA SegOfByte ==
  ASSUME NEW m \in AllMultipages, NEW g \in Segs(m), NEW h \in Segs(m),
         NEW x \in Nat, InSeg(g, x), InSeg(h, x)
  PROVE  g = h
<1> DEFINE y == x - g.start
           z == x - h.start
<1>1. /\ g.start \in Nat /\ g.n \in Nat /\ g.n * PageSize \in Nat
      /\ h.start \in Nat /\ h.n \in Nat /\ h.n * PageSize \in Nat
      /\ \A k \in 0 .. g.n - 1 : g.from + k \in Part
      /\ \A k \in 0 .. h.n - 1 : h.from + k \in Part
  BY SegFacts
<1>2. /\ y \in Nat /\ y < g.n * PageSize /\ g.start + y = x
      /\ z \in Nat /\ z < h.n * PageSize /\ h.start + z = x
  BY <1>1 DEF InSeg
<1> HIDE DEF y, z
<1>3. PICK j \in 0 .. g.n - 1 : x \div PageSize = PageOf(m, g.from + j)
  BY <1>2, ByteInSeg
<1>4. PICK k \in 0 .. h.n - 1 : x \div PageSize = PageOf(m, h.from + k)
  BY <1>2, ByteInSeg
<1>5. g.from + j = h.from + k
  BY <1>1, <1>3, <1>4, PageOfInjective
<1> QED
  BY <1>5, SegsApart

(* At least one segment of a multipage has room for an object: together    *)
(* they have room for two.                                                 *)
LEMMA SomeRoom ==
  ASSUME NEW m \in AllMultipages
  PROVE  LET s    == Segments[m]
             size == BucketSize[m.idx]
         IN  ItemCnt(size, s.sz1) > 0 \/ (IsCut(m) /\ ItemCnt(size, s.sz2) > 0)
<1> DEFINE size == BucketSize[m.idx]
           n1 == Segments[m].sz1
           n2 == Segments[m].sz2
           M == MultipagePageCnt
<1>1. /\ n1 \in Nat /\ n2 \in Nat /\ n1 + n2 = M
      /\ (IsCut(m) \/ n2 = 0)
  <2>1. /\ n1 \in Nat /\ n1 <= M /\ n2 = M - n1
        /\ (IsCut(m) <=> n1 < M)
    BY SegmentFacts
  <2>2. M \in Nat
    BY MultipageFacts
  <2> QED
    BY <2>1, <2>2
<1>2. SizeOK(size) /\ size \in Nat /\ size > 0 /\ 2 * size <= M * PageSize
  BY MultipageFacts, BucketSizesOK, BucketSizeAssumption DEF SizeOK
<1> HIDE DEF size, n1, n2, M
<1>3. /\ n1 * PageSize \in Nat /\ n2 * PageSize \in Nat
      /\ (n1 + n2) * PageSize = n1 * PageSize + n2 * PageSize
  BY <1>1, PageSizeFacts, SMT
<1>4. \A n \in Nat : /\ ItemCnt(size, n) \in Nat
                     /\ 0 < ItemCnt(size, n) <=> size <= n * PageSize
  <2> TAKE n \in Nat
  <2>1. /\ ItemCnt(size, n) \in Nat /\ 0 * size \in Nat /\ n * PageSize \in Nat
        /\ 0 < ItemCnt(size, n) <=> 0 * size + size <= n * PageSize
    BY <1>2, ItemRoom
  <2>2. 0 * size = 0
    BY <1>2, SMT
  <2> QED
    BY <1>2, <2>1, <2>2
<1>5. size <= n1 * PageSize \/ (n2 # 0 /\ size <= n2 * PageSize)
  <2>1. n2 = 0 => n2 * PageSize = 0
    BY PageSizeFacts, SMT
  <2>2. 2 * size <= n1 * PageSize + n2 * PageSize
    BY <1>1, <1>2, <1>3
  <2> QED
    BY <1>1, <1>2, <1>3, <2>1, <2>2
<1>6. 0 < ItemCnt(size, n1) \/ (IsCut(m) /\ 0 < ItemCnt(size, n2))
  BY <1>1, <1>4, <1>5
<1>7. ItemCnt(size, n1) \in Nat /\ ItemCnt(size, n2) \in Nat
  BY <1>1, <1>4
<1>8. ItemCnt(size, n1) > 0 \/ (IsCut(m) /\ ItemCnt(size, n2) > 0)
  BY <1>6, <1>7
<1> QED
  BY <1>8 DEF size, n1, n2

(* No room for an object, no object.                                       *)
LEMMA NoRoom ==
  ASSUME NEW size, NEW start, NEW n, ItemCnt(size, n) = 0
  PROVE  Objects(size, start, n) = {}
<1>1. Items(size, n) = {}
  BY DEF Items, ItemCnt
<1> QED
  BY <1>1 DEF Objects

(* Over(w, f) is w where that is defined, and f elsewhere.                 *)
LEMMA OverFacts ==
  ASSUME NEW w, NEW f, DOMAIN w \intersect DOMAIN f = {}
  PROVE  /\ DOMAIN Over(w, f) = DOMAIN f \union DOMAIN w
         /\ \A a \in DOMAIN f : Over(w, f)[a] = f[a]
         /\ \A a \in DOMAIN w : Over(w, f)[a] = w[a]
  BY DEF Over

(* The heap once both segments of a multipage have been formatted.         *)
RefilledHeap(nx, first, mk, m) ==
  LET s     == Segments[m]
      none  == [next |-> nx, first |-> first, made |-> mk]
      heap1 == format(none, m.idx, s.ptr1, s.sz1)
  IN  IF IsCut(m) THEN format(heap1, m.idx, s.ptr2, s.sz2) ELSE heap1

(* The free objects are the heap's then, but for some of the first segment *)
(* of a multipage that is cut, which are lost.                             *)
LosesFirstSegment(bk, heap, m, D) ==
  \E lost \in SUBSET Objects(BucketSize[m.idx], Segments[m].ptr1, Segments[m].sz1) :
    /\ IsCut(m) \/ lost = {}
    /\ FreeInv([bk EXCEPT ![m.idx] = heap.first], heap.next,
               DOMAIN heap.next, D \union lost)

(* Formatting a multipage for an empty bucket makes the objects of the     *)
(* multipage, leaves the bucket with a list of them, and loses no object   *)
(* but those of the first segment of a multipage that is cut.              *)
LEMMA Refill ==
  ASSUME NEW bk, NEW nx, NEW D, FreeInv(bk, nx, DOMAIN nx, D),
         NEW m \in AllMultipages, bk[m.idx] = null,
         ObjectsOf(m) \intersect DOMAIN nx = {}, NEW M
  PROVE  LET heap == RefilledHeap(nx, bk[m.idx], M, m)
         IN  /\ heap.first # null
             /\ DOMAIN heap.next = DOMAIN nx \union ObjectsOf(m)
             /\ heap.made = M \union ObjectsOf(m)
             /\ IsFiniteSet(ObjectsOf(m))
             /\ LosesFirstSegment(bk, heap, m, D)
<1> DEFINE i == m.idx
           size == BucketSize[i]
           p1 == Segments[m].ptr1
           p2 == Segments[m].ptr2
           n1 == Segments[m].sz1
           n2 == Segments[m].sz2
           O1 == Objects(size, p1, n1)
           O2 == Objects(size, p2, n2)
           w1 == Written(size, p1, n1)
           w2 == Written(size, p2, n2)
           none == [next |-> nx, first |-> bk[i], made |-> M]
           heap1 == format(none, i, p1, n1)
           heap == IF IsCut(m) THEN format(heap1, i, p2, n2) ELSE heap1
           one == [start |-> p1, n |-> n1, from |-> 0]
           two == [start |-> p2, n |-> n2, from |-> n1]
           OK == /\ heap.first # null
                 /\ DOMAIN heap.next = DOMAIN nx \union ObjectsOf(m)
                 /\ heap.made = M \union ObjectsOf(m)
                 /\ IsFiniteSet(ObjectsOf(m))
                 /\ \E lost \in SUBSET O1 :
                      /\ IsCut(m) \/ lost = {}
                      /\ FreeInv([bk EXCEPT ![i] = heap.first], heap.next,
                                 DOMAIN heap.next, D \union lost)
<1>1. i \in Idx /\ SizeOK(size)
  BY MultipageFacts, BucketSizesOK
<1>2. /\ one \in Segs(m) /\ (IsCut(m) => two \in Segs(m))
      /\ \A g \in Segs(m) : g = one \/ (IsCut(m) /\ g = two)
  BY DEF Segs
<1>3. one # two
  BY SegmentFacts
<1>4. ObjectsOf(m) = O1 \union (IF IsCut(m) THEN O2 ELSE {})
  <2>1. ObjectsOf(m) = UNION {Objects(size, g.start, g.n) : g \in Segs(m)}
    BY DEF ObjectsOf
  <2>2. Segs(m) = {one} \union (IF IsCut(m) THEN {two} ELSE {})
    BY DEF Segs
  <2>3. one.start = p1 /\ one.n = n1 /\ two.start = p2 /\ two.n = n2
    OBVIOUS
  <2> HIDE DEF one, two, O1, O2, p1, p2, n1, n2, size
  <2> QED
    BY <2>1, <2>2, <2>3 DEF O1, O2
<1>5. p1 \in Nat /\ n1 \in Nat /\ (IsCut(m) => p2 \in Nat /\ n2 \in Nat)
  <2>1. one.start \in Nat /\ one.n \in Nat
    BY <1>2, SegFacts
  <2>2. IsCut(m) => two.start \in Nat /\ two.n \in Nat
    BY <1>2, SegFacts
  <2> QED
    BY <2>1, <2>2
<1>6. ASSUME IsCut(m) PROVE O1 \intersect O2 = {}
  <2> SUFFICES ASSUME NEW a \in O1, a \in O2 PROVE FALSE
    OBVIOUS
  <2>1. a \in Nat /\ InSeg(one, a)
    BY <1>2, SegObjects
  <2>2. InSeg(two, a)
    BY <1>2, <1>6, SegObjects
  <2> QED
    BY <1>2, <1>3, <1>6, <2>1, <2>2, SegOfByte
<1>7. \A a \in ObjectsOf(m) : Home(a) = i
  BY ObjectFacts DEF Home
<1>8. DOMAIN w1 = O1 /\ DOMAIN w2 = O2
  BY DEF Written
<1>9. /\ ItemCnt(size, n1) \in Nat
      /\ ItemCnt(size, n1) > 0 => Chain(w1, p1)
      /\ ItemCnt(size, n1) = 0 => O1 = {}
  BY <1>1, <1>5, WrittenChain, NoRoom, ItemRoom
<1>10. ASSUME IsCut(m)
       PROVE  /\ ItemCnt(size, n2) \in Nat
              /\ ItemCnt(size, n2) > 0 => Chain(w2, p2)
              /\ ItemCnt(size, n2) = 0 => O2 = {}
  BY <1>1, <1>5, <1>10, WrittenChain, NoRoom, ItemRoom
<1>11. ItemCnt(size, n1) > 0 \/ (IsCut(m) /\ ItemCnt(size, n2) > 0)
  BY SomeRoom
<1>12. /\ none.next = nx /\ none.first = null /\ none.made = M
       /\ bk[i] = null
  OBVIOUS
<1>13. heap1 = IF ItemCnt(size, n1) = 0 THEN none
               ELSE [next |-> Over(w1, none.next), first |-> p1,
                     made |-> none.made \union DOMAIN w1]
  <2> HIDE DEF none, i, p1, n1
  <2> QED
    BY <1>1, FormatIsWriting
<1>14. IsCut(m) => heap = IF ItemCnt(size, n2) = 0 THEN heap1
               ELSE [next |-> Over(w2, heap1.next), first |-> p2,
                     made |-> heap1.made \union DOMAIN w2]
  <2>1. format(heap1, i, p2, n2)
          = IF ItemCnt(size, n2) = 0 THEN heap1
            ELSE [next |-> Over(w2, heap1.next), first |-> p2,
                  made |-> heap1.made \union DOMAIN w2]
    <3> HIDE DEF heap1, p2, n2, i
    <3> QED
      BY <1>1, FormatIsWriting
  <2> HIDE DEF heap1
  <2> QED
    BY <2>1
<1>15. ~IsCut(m) => heap = heap1
  OBVIOUS
<1>16. p1 # null /\ (IsCut(m) => p2 # null)
  BY <1>5, NullFacts
<1>18. FreeInv(bk, nx, DOMAIN nx, D) /\ ObjectsOf(m) \intersect DOMAIN nx = {}
  OBVIOUS
<1> HIDE DEF none, heap1, heap, w1, w2, O1, O2, p1, p2, n1, n2, size, i, one, two
<1>19. ASSUME ItemCnt(size, n1) > 0, ~(IsCut(m) /\ ItemCnt(size, n2) > 0)
       PROVE  OK
  <2> DEFINE nx2 == Over(w1, nx)
  <2>1. heap = [next |-> nx2, first |-> p1, made |-> M \union O1]
    BY <1>8, <1>9, <1>10, <1>12, <1>13, <1>14, <1>15, <1>19
  <2>2. ObjectsOf(m) = O1
    BY <1>4, <1>10, <1>19
  <2>3. Chain(w1, p1) /\ IsFiniteSet(O1)
    BY <1>8, <1>9, <1>19 DEF Chain
  <2>4. /\ DOMAIN nx2 = DOMAIN nx \union O1
        /\ \A a \in DOMAIN nx : nx2[a] = nx[a]
        /\ \A a \in DOMAIN w1 : nx2[a] = w1[a]
    <3>1. DOMAIN w1 \intersect DOMAIN nx = {}
      BY <1>8, <1>18, <2>2
    <3> QED
      BY <1>8, <3>1, OverFacts
  <2> HIDE DEF nx2
  <2>5. FreeInv([bk EXCEPT ![i] = p1], nx2, DOMAIN nx \union DOMAIN w1, D)
    <3>1. DOMAIN w1 \intersect DOMAIN nx = {} /\ \A a \in DOMAIN w1 : Home(a) = i
      BY <1>7, <1>8, <1>18, <2>2
    <3> QED
      BY <1>1, <1>12, <1>18, <2>3, <2>4, <3>1, Attach
  <2>6. FreeInv([bk EXCEPT ![i] = p1], nx2, DOMAIN nx2, D \union {})
    BY <1>8, <2>4, <2>5
  <2> QED
    BY <1>16, <2>1, <2>2, <2>3, <2>4, <2>6
<1>20. ASSUME ItemCnt(size, n1) = 0
       PROVE  OK
  <2> DEFINE nx2 == Over(w2, nx)
  <2>0. IsCut(m) /\ ItemCnt(size, n2) > 0
    BY <1>11, <1>20
  <2>1. heap = [next |-> nx2, first |-> p2, made |-> M \union O2]
    BY <1>8, <1>10, <1>12, <1>13, <1>14, <1>20, <2>0
  <2>2. ObjectsOf(m) = O2
    BY <1>4, <1>9, <1>20, <2>0
  <2>3. Chain(w2, p2) /\ IsFiniteSet(O2)
    BY <1>8, <1>10, <2>0 DEF Chain
  <2>4. /\ DOMAIN nx2 = DOMAIN nx \union O2
        /\ \A a \in DOMAIN nx : nx2[a] = nx[a]
        /\ \A a \in DOMAIN w2 : nx2[a] = w2[a]
    <3>1. DOMAIN w2 \intersect DOMAIN nx = {}
      BY <1>8, <1>18, <2>2
    <3> QED
      BY <1>8, <3>1, OverFacts
  <2> HIDE DEF nx2
  <2>5. FreeInv([bk EXCEPT ![i] = p2], nx2, DOMAIN nx \union DOMAIN w2, D)
    <3>1. DOMAIN w2 \intersect DOMAIN nx = {} /\ \A a \in DOMAIN w2 : Home(a) = i
      BY <1>7, <1>8, <1>18, <2>2
    <3> QED
      BY <1>1, <1>12, <1>18, <2>3, <2>4, <3>1, Attach
  <2>6. FreeInv([bk EXCEPT ![i] = p2], nx2, DOMAIN nx2, D \union {})
    BY <1>8, <2>4, <2>5
  <2> QED
    BY <1>16, <2>0, <2>1, <2>2, <2>3, <2>4, <2>6
<1>21. ASSUME ItemCnt(size, n1) > 0, IsCut(m), ItemCnt(size, n2) > 0
       PROVE  OK
  <2> DEFINE nx1 == Over(w1, nx)
             nx2 == Over(w2, nx1)
  <2>1. heap = [next |-> nx2, first |-> p2, made |-> (M \union O1) \union O2]
    BY <1>8, <1>9, <1>10, <1>12, <1>13, <1>14, <1>21
  <2>2. ObjectsOf(m) = O1 \union O2 /\ O1 \intersect O2 = {}
    BY <1>4, <1>6, <1>21
  <2>3. Chain(w1, p1) /\ Chain(w2, p2) /\ IsFiniteSet(O1) /\ IsFiniteSet(O2)
    BY <1>8, <1>9, <1>10, <1>21 DEF Chain
  <2>4. /\ DOMAIN nx1 = DOMAIN nx \union O1
        /\ \A a \in DOMAIN nx : nx1[a] = nx[a]
        /\ \A a \in DOMAIN w1 : nx1[a] = w1[a]
    <3>1. DOMAIN w1 \intersect DOMAIN nx = {}
      BY <1>8, <1>18, <2>2
    <3> QED
      BY <1>8, <3>1, OverFacts
  <2> HIDE DEF nx1
  <2>5. /\ DOMAIN nx2 = DOMAIN nx1 \union O2
        /\ \A a \in DOMAIN nx1 : nx2[a] = nx1[a]
        /\ \A a \in DOMAIN w2 : nx2[a] = w2[a]
    <3>1. DOMAIN w2 \intersect DOMAIN nx1 = {}
      BY <1>8, <1>18, <2>2, <2>4
    <3> QED
      BY <1>8, <3>1, OverFacts
  <2> HIDE DEF nx2
  <2>6. FreeInv(bk, nx1, DOMAIN nx \union DOMAIN w1, D \union DOMAIN w1)
    <3>1. DOMAIN w1 \intersect DOMAIN nx = {} /\ \A a \in DOMAIN w1 : Home(a) = i
      BY <1>7, <1>8, <1>18, <2>2
    <3> QED
      BY <1>1, <1>18, <2>3, <2>4, <3>1, Attach
  <2>7. FreeInv(bk, nx1, DOMAIN nx1, D \union O1)
    BY <1>8, <2>4, <2>6
  <2>8. FreeInv([bk EXCEPT ![i] = p2], nx2, DOMAIN nx1 \union DOMAIN w2, D \union O1)
    <3>1. DOMAIN w2 \intersect DOMAIN nx1 = {} /\ \A a \in DOMAIN w2 : Home(a) = i
      BY <1>7, <1>8, <1>18, <2>2, <2>4
    <3> QED
      BY <1>1, <1>12, <2>3, <2>5, <2>7, <3>1, Attach
  <2>9. FreeInv([bk EXCEPT ![i] = p2], nx2, DOMAIN nx2, D \union O1)
    BY <1>8, <2>5, <2>8
  <2>10. IsFiniteSet(ObjectsOf(m))
    BY <2>2, <2>3, FS_Union
  <2> QED
    BY <1>16, <1>21, <2>1, <2>2, <2>4, <2>5, <2>9, <2>10
<1> HIDE DEF OK
<1>22. OK
  BY <1>9, <1>19, <1>20, <1>21
<1> QED
  BY <1>22 DEF OK, none, heap1, heap, O1, p1, p2, n1, n2, size, i,
       RefilledHeap, LosesFirstSegment

-----------------------------------------------------------------------------
(***************************************************************************)
(* The inductive invariant.  The objects of the multipages taken are free  *)
(* or with a caller, never both; the free ones are in sound lists, but for *)
(* those lost with the first segment of a cut multipage; what is out       *)
(* besides are chunks, one for each pointer at memForbidden.               *)
(***************************************************************************)
ObjectsIn(tk) == UNION {ObjectsOf(m) : m \in tk}

LostIn(tk, a) ==
  \E m \in tk :
    /\ m.idx = Home(a) /\ IsCut(m)
    /\ a \in Objects(BucketSize[m.idx], Segments[m].ptr1, Segments[m].sz1)

FreeListsInv(bk, nx, tk) ==
  \E D : FreeInv(bk, nx, DOMAIN nx, D) /\ \A a \in D : LostIn(tk, a)

OfBucket(lv) == {p \in DOMAIN lv : p % PageSize # memForbidden}

PartedInv(nx, lv, tk) ==
  /\ tk \subseteq AllMultipages
  /\ DOMAIN nx \intersect DOMAIN lv = {}
  /\ ObjectsIn(tk) = DOMAIN nx \union OfBucket(lv)
  /\ IsFiniteSet(DOMAIN nx)

MadeInv(mk, tk) ==
  mk = [i \in Idx |-> ObjectsIn({m \in tk : m.idx = i})]

SizesInv(lv, ck) ==
  \A p \in DOMAIN lv :
    /\ p \in Nat
    /\ p % PageSize # memForbidden => lv[p] = BucketSize[Home(p)]
    /\ p % PageSize = memForbidden =>
         /\ p \div PageSize \in DOMAIN ck
         /\ lv[p] = ck[p \div PageSize] * PageSize - memForbidden

ChunksInv(ck) ==
  /\ DOMAIN ck \subseteq LargePages
  /\ \A p \in DOMAIN ck : /\ ck[p] \in 1 .. MaxLargePages
                          /\ ChunkPages(p, ck[p]) \subseteq LargePages
  /\ \A p, q \in DOMAIN ck :
       p # q => ChunkPages(p, ck[p]) \intersect ChunkPages(q, ck[q]) = {}

CountInv(lv, n) == IsFiniteSet(DOMAIN lv) /\ n = Cardinality(DOMAIN lv)

IInv ==
  /\ FreeListsInv(buckets, next, taken)
  /\ PartedInv(next, live, taken)
  /\ MadeInv(made, taken)
  /\ SizesInv(live, chunks)
  /\ ChunksInv(chunks)
  /\ CountInv(live, out)
  /\ status = "ok"

(* An object of a multipage taken is an address of its bucket, and no      *)
(* pointer into a chunk.                                                   *)
LEMMA ObjectsInFacts ==
  ASSUME NEW tk, tk \subseteq AllMultipages, NEW a \in ObjectsIn(tk)
  PROVE  a \in Nat /\ a % PageSize # memForbidden /\ Home(a) \in Idx
<1>1. PICK m \in tk : a \in ObjectsOf(m)
  BY DEF ObjectsIn
<1> QED
  BY <1>1, ObjectFacts, HomeIsIdx

(* A caller more is one out more; a caller less, one out less.             *)
LEMMA CountFollows ==
  ASSUME NEW lv, NEW n, CountInv(lv, n), NEW p, NEW s
  PROVE  /\ n \in Nat
         /\ p \notin DOMAIN lv => CountInv(With(lv, p, s), n + 1)
         /\ p \in DOMAIN lv => CountInv(Without(lv, p), n - 1)
<1>1. IsFiniteSet(DOMAIN lv) /\ n = Cardinality(DOMAIN lv) /\ n \in Nat
  BY FS_CardinalityType DEF CountInv
<1>2. /\ DOMAIN With(lv, p, s) = DOMAIN lv \union {p}
      /\ DOMAIN Without(lv, p) = DOMAIN lv \ {p}
  BY DEF With, Without
<1>3. ASSUME p \notin DOMAIN lv
      PROVE  /\ IsFiniteSet(DOMAIN lv \union {p})
             /\ Cardinality(DOMAIN lv \union {p}) = n + 1
  BY <1>1, <1>3, FS_AddElement
<1>4. ASSUME p \in DOMAIN lv
      PROVE  /\ IsFiniteSet(DOMAIN lv \ {p})
             /\ Cardinality(DOMAIN lv \ {p}) = n - 1
  BY <1>1, <1>4, FS_RemoveElement
<1> QED
  BY <1>1, <1>2, <1>3, <1>4 DEF CountInv

(* The first object of a bucket goes to a caller.                          *)
LEMMA TakeFirst ==
  ASSUME NEW bk, NEW nx, NEW lv, NEW tk, NEW i \in Idx, NEW s,
         FreeListsInv(bk, nx, tk), PartedInv(nx, lv, tk), bk[i] # null
  PROVE  /\ FreeListsInv([bk EXCEPT ![i] = nx[bk[i]]], Without(nx, bk[i]), tk)
         /\ PartedInv(Without(nx, bk[i]), With(lv, bk[i], s), tk)
         /\ bk[i] \notin DOMAIN lv /\ bk[i] \in ObjectsIn(tk) /\ Home(bk[i]) = i
<1> DEFINE x == bk[i]
           nx2 == Without(nx, x)
           lv2 == With(lv, x, s)
<1>1. PICK D : FreeInv(bk, nx, DOMAIN nx, D) /\ \A a \in D : LostIn(tk, a)
  BY DEF FreeListsInv
<1>2. x \in DOMAIN nx /\ Home(x) = i
  BY <1>1 DEF FreeInv, HeadsInv
<1>3. DOMAIN nx2 = DOMAIN nx \ {x} /\ \A a \in DOMAIN nx2 : nx2[a] = nx[a]
  BY DEF Without
<1>4. DOMAIN lv2 = DOMAIN lv \union {x}
  BY DEF With
<1>5. FreeInv([bk EXCEPT ![i] = nx[x]], nx2, DOMAIN nx2, D)
  <2> HIDE DEF nx2
  <2> QED
    BY <1>1, <1>3, Pop
<1>6. FreeListsInv([bk EXCEPT ![i] = nx[x]], nx2, tk)
  BY <1>1, <1>5 DEF FreeListsInv
<1>7. /\ tk \subseteq AllMultipages /\ DOMAIN nx \intersect DOMAIN lv = {}
      /\ ObjectsIn(tk) = DOMAIN nx \union OfBucket(lv) /\ IsFiniteSet(DOMAIN nx)
  BY DEF PartedInv
<1>8. x % PageSize # memForbidden
  BY <1>2, <1>7, ObjectsInFacts
<1> HIDE DEF nx2, lv2, x
<1>9. OfBucket(lv2) = OfBucket(lv) \union {x}
  BY <1>4, <1>8 DEF OfBucket
<1>10. IsFiniteSet(DOMAIN nx2)
  BY <1>3, <1>7, FS_Subset
<1>11. PartedInv(nx2, lv2, tk)
  BY <1>2, <1>3, <1>4, <1>7, <1>9, <1>10 DEF PartedInv
<1> QED
  BY <1>2, <1>6, <1>7, <1>11 DEF nx2, lv2, x

(* A pointer that goes out has the size its address tells.                 *)
LEMMA SizesGrow ==
  ASSUME NEW lv, NEW ck, SizesInv(lv, ck), NEW x \in Nat, NEW s,
         x % PageSize # memForbidden, s = BucketSize[Home(x)]
  PROVE  SizesInv(With(lv, x, s), ck)
  BY DEF SizesInv, With

(* The invariant holds at the start.                                       *)
LEMMA InitIInv == Init => IInv
<1> SUFFICES ASSUME Init PROVE IInv
  OBVIOUS
<1> USE DEF Init
<1>1. DOMAIN Empty = {}
  BY DEF Empty
<1>2. FreeInv(buckets, next, {}, {})
  <2>1. LinksInv(next, {}, {})
    BY DEF LinksInv, NoCircle
  <2>2. HeadsInv(buckets, next, {}, {})
    BY DEF HeadsInv
  <2> QED
    BY <2>1, <2>2 DEF FreeInv
<1>3. FreeListsInv(buckets, next, taken)
  BY <1>1, <1>2 DEF FreeListsInv
<1>4. ObjectsIn({}) = {}
  BY DEF ObjectsIn
<1>5. PartedInv(next, live, taken)
  BY <1>1, <1>4, FS_EmptySet DEF PartedInv, OfBucket
<1>6. MadeInv(made, taken)
  <2>1. \A i \in Idx : {m \in taken : m.idx = i} = {}
    OBVIOUS
  <2> QED
    BY <1>4, <2>1 DEF MadeInv
<1>7. SizesInv(live, chunks) /\ ChunksInv(chunks)
  BY <1>1 DEF SizesInv, ChunksInv
<1>8. CountInv(live, out)
  BY <1>1, FS_EmptySet DEF CountInv
<1> QED
  BY <1>3, <1>5, <1>6, <1>7, <1>8 DEF IInv

(* Taking the first object of a bucket keeps the invariant.                *)
LEMMA AllocateKeeps ==
  ASSUME IInv, NEW idx \in Idx, allocate(idx)
  PROVE  IInv'
<1> DEFINE x == buckets[idx]
           s == BucketSize[idx]
<1>1. /\ FreeListsInv(buckets, next, taken) /\ PartedInv(next, live, taken)
      /\ MadeInv(made, taken) /\ SizesInv(live, chunks) /\ ChunksInv(chunks)
      /\ CountInv(live, out) /\ status = "ok"
  BY DEF IInv
<1>2. /\ x # null
      /\ buckets' = [buckets EXCEPT ![idx] = next[x]] /\ next' = Without(next, x)
      /\ live' = With(live, x, s) /\ out' = out + 1
      /\ chunks' = chunks /\ taken' = taken /\ made' = made /\ status' = status
  BY DEF allocate, Hold
<1>3. /\ FreeListsInv(buckets', next', taken') /\ PartedInv(next', live', taken')
      /\ x \notin DOMAIN live /\ x \in ObjectsIn(taken) /\ Home(x) = idx
  BY <1>1, <1>2, TakeFirst
<1>4. x \in Nat /\ x % PageSize # memForbidden
  BY <1>1, <1>3, ObjectsInFacts DEF PartedInv
<1>5. SizesInv(live', chunks')
  BY <1>1, <1>2, <1>3, <1>4, SizesGrow
<1>6. CountInv(live', out')
  BY <1>1, <1>2, <1>3, CountFollows
<1>7. MadeInv(made', taken') /\ ChunksInv(chunks') /\ status' = "ok"
  BY <1>1, <1>2
<1> QED
  BY <1>3, <1>5, <1>6, <1>7 DEF IInv

(* The objects of a multipage are not those of others. *)
LEMMA NewObjects ==
  ASSUME NEW tk, tk \subseteq AllMultipages, NEW m \in AllMultipages, m \notin tk
  PROVE  ObjectsOf(m) \intersect ObjectsIn(tk) = {}
<1> SUFFICES ASSUME NEW a \in ObjectsOf(m), a \in ObjectsIn(tk) PROVE FALSE
  OBVIOUS
<1>1. PICK w \in tk : a \in ObjectsOf(w)
  BY DEF ObjectsIn
<1>2. /\ a \in Bytes(a, BucketSize[m.idx]) /\ a \in Bytes(a, BucketSize[w.idx])
      /\ w \in AllMultipages
  <2>1. w \in AllMultipages /\ a \in Nat
    BY <1>1, ObjectFacts
  <2>2. \A i \in Idx : BucketSize[i] \in Nat \ {0}
    BY BucketSizeAssumption
  <2>3. m.idx \in Idx /\ w.idx \in Idx
    BY <2>1, MultipageFacts
  <2> QED
    BY <2>1, <2>2, <2>3 DEF Bytes
<1> QED
  BY <1>1, <1>2, ObjectsApart

(* A multipage more: its objects are free, in the list of its bucket       *)
(* unless they are lost with its first segment.                            *)
LEMMA RefillKeeps ==
  ASSUME NEW idx \in Idx, NEW m \in Multipages(idx) \ taken,
         FreeListsInv(buckets, next, taken), PartedInv(next, live, taken),
         MadeInv(made, taken), buckets[idx] = null
  PROVE  LET heap == Formatted(idx, m)
             tk   == taken \union {m}
         IN  /\ heap.first # null
             /\ FreeListsInv([buckets EXCEPT ![idx] = heap.first], heap.next, tk)
             /\ PartedInv(heap.next, live, tk)
             /\ MadeInv([made EXCEPT ![idx] = heap.made], tk)
<1> DEFINE heap == Formatted(idx, m)
           tk == taken \union {m}
           FirstSeg == Objects(BucketSize[idx], Segments[m].ptr1, Segments[m].sz1)
<1>1. m \in AllMultipages /\ m.idx = idx /\ m \notin taken
  BY DEF AllMultipages, Multipages
<1>2. PICK D : FreeInv(buckets, next, DOMAIN next, D) /\ \A a \in D : LostIn(taken, a)
  BY DEF FreeListsInv
<1>3. /\ taken \subseteq AllMultipages /\ DOMAIN next \intersect DOMAIN live = {}
      /\ ObjectsIn(taken) = DOMAIN next \union OfBucket(live)
      /\ IsFiniteSet(DOMAIN next)
  BY DEF PartedInv
<1>4. ObjectsOf(m) \intersect ObjectsIn(taken) = {}
  BY <1>1, <1>3, NewObjects
<1>5. ObjectsOf(m) \intersect DOMAIN next = {}
  BY <1>3, <1>4
<1>6. /\ heap.first # null
      /\ DOMAIN heap.next = DOMAIN next \union ObjectsOf(m)
      /\ heap.made = made[idx] \union ObjectsOf(m)
      /\ IsFiniteSet(ObjectsOf(m))
      /\ LosesFirstSegment(buckets, heap, m, D)
  <2>1. buckets[m.idx] = null /\ FreeInv(buckets, next, DOMAIN next, D)
    BY <1>1, <1>2
  <2> DEFINE hp == Formatted(m.idx, m)
  <2>2. /\ hp.first # null
        /\ DOMAIN hp.next = DOMAIN next \union ObjectsOf(m)
        /\ hp.made = made[m.idx] \union ObjectsOf(m)
        /\ IsFiniteSet(ObjectsOf(m))
        /\ LosesFirstSegment(buckets, hp, m, D)
    <3> DEFINE new == RefilledHeap(next, buckets[m.idx], made[m.idx], m)
    <3>1. /\ new.first # null
          /\ DOMAIN new.next = DOMAIN next \union ObjectsOf(m)
          /\ new.made = made[m.idx] \union ObjectsOf(m)
          /\ IsFiniteSet(ObjectsOf(m))
          /\ LosesFirstSegment(buckets, new, m, D)
      BY <1>1, <1>5, <2>1, Refill
    <3>2. hp = new
      BY DEF Formatted, RefilledHeap
    <3> HIDE DEF hp, new
    <3> QED
      BY <3>1, <3>2
  <2> HIDE DEF hp
  <2>3. hp = heap /\ m.idx = idx
    BY <1>1 DEF hp
  <2> HIDE DEF heap
  <2> QED
    BY <2>2, <2>3
<1> HIDE DEF heap
<1>7. PICK lost \in SUBSET FirstSeg :
           /\ IsCut(m) \/ lost = {}
           /\ FreeInv([buckets EXCEPT ![idx] = heap.first], heap.next,
                      DOMAIN heap.next, D \union lost)
  BY <1>1, <1>6 DEF LosesFirstSegment
<1>8. \A a \in D \union lost : LostIn(tk, a)
  <2>1. \A a \in D : LostIn(tk, a)
    BY <1>2 DEF LostIn
  <2>2. ASSUME NEW a \in lost PROVE LostIn(tk, a)
    <3>1. a \in ObjectsOf(m)
      <4>1. [start |-> Segments[m].ptr1, n |-> Segments[m].sz1, from |-> 0] \in Segs(m)
        BY DEF Segs
      <4> QED
        BY <1>1, <1>7, <4>1 DEF ObjectsOf
    <3>2. Home(a) = m.idx
      BY <1>1, <3>1, ObjectFacts DEF Home
    <3> QED
      BY <1>1, <1>7, <3>2 DEF LostIn
  <2> QED
    BY <2>1, <2>2
<1>9. FreeListsInv([buckets EXCEPT ![idx] = heap.first], heap.next, tk)
  BY <1>7, <1>8 DEF FreeListsInv
<1>10. ObjectsIn(tk) = ObjectsIn(taken) \union ObjectsOf(m)
  BY DEF ObjectsIn
<1>11. ObjectsOf(m) \intersect DOMAIN live = {}
  <2> SUFFICES ASSUME NEW a \in ObjectsOf(m), a \in DOMAIN live PROVE FALSE
    OBVIOUS
  <2>1. a % PageSize # memForbidden
    BY <1>1, ObjectFacts
  <2>2. a \in OfBucket(live)
    BY <2>1 DEF OfBucket
  <2> QED
    BY <1>3, <1>4, <2>2
<1>12. PartedInv(heap.next, live, tk)
  <2>1. IsFiniteSet(DOMAIN heap.next)
    <3>1. IsFiniteSet(DOMAIN next \union ObjectsOf(m))
      BY <1>3, <1>6, FS_Union
    <3> QED
      BY <1>6, <3>1
  <2>2. DOMAIN heap.next \intersect DOMAIN live = {}
    BY <1>3, <1>6, <1>11
  <2>3. ObjectsIn(tk) = DOMAIN heap.next \union OfBucket(live)
    BY <1>3, <1>6, <1>10
  <2>4. tk \subseteq AllMultipages
    BY <1>1, <1>3
  <2> QED
    BY <2>1, <2>2, <2>3, <2>4 DEF PartedInv
<1>13. MadeInv([made EXCEPT ![idx] = heap.made], tk)
  <2> DEFINE Of(i) == {w \in taken : w.idx = i}
             OfNow(i) == {w \in tk : w.idx = i}
             now == [made EXCEPT ![idx] = heap.made]
  <2>1. made = [i \in Idx |-> ObjectsIn(Of(i))]
    BY DEF MadeInv
  <2>2. OfNow(idx) = Of(idx) \union {m} /\ \A i \in Idx : i # idx => OfNow(i) = Of(i)
    BY <1>1
  <2>3. ObjectsIn(OfNow(idx)) = ObjectsIn(Of(idx)) \union ObjectsOf(m)
    BY <2>2 DEF ObjectsIn
  <2> HIDE DEF Of, OfNow
  <2>4. ASSUME NEW i \in Idx PROVE now[i] = ObjectsIn(OfNow(i))
    BY <1>6, <2>1, <2>2, <2>3
  <2>5. now = [i \in Idx |-> ObjectsIn(OfNow(i))]
    BY <2>1, <2>4
  <2> QED
    BY <2>5 DEF MadeInv, OfNow
<1> QED
  BY <1>6, <1>9, <1>12, <1>13 DEF heap

(* Formatting a multipage and taking its first object keeps the invariant. *)
(* There always is one.                                                    *)
LEMMA AllocateInCaseNoFreeBucketKeeps ==
  ASSUME IInv, NEW idx \in Idx, allocateInCaseNoFreeBucket(idx)
  PROVE  IInv'
<1> DEFINE s == BucketSize[idx]
<1>1. /\ FreeListsInv(buckets, next, taken) /\ PartedInv(next, live, taken)
      /\ MadeInv(made, taken) /\ SizesInv(live, chunks) /\ ChunksInv(chunks)
      /\ CountInv(live, out) /\ status = "ok"
  BY DEF IInv
<1>2. PICK m \in Multipages(idx) \ taken :
        LET heap == Formatted(idx, m)
        IN  /\ taken' = taken \union {m}
            /\ made' = [made EXCEPT ![idx] = heap.made]
            /\ IF heap.first = null
                THEN status' = "nullRead" /\ UNCHANGED <<buckets, next, live, out>>
                ELSE /\ buckets' = [buckets EXCEPT ![idx] = heap.next[heap.first]]
                     /\ next' = Without(heap.next, heap.first)
                     /\ Hold(heap.first, BucketSize[idx])
                     /\ UNCHANGED status
  BY DEF allocateInCaseNoFreeBucket
<1>3. buckets[idx] = null /\ chunks' = chunks
  BY DEF allocateInCaseNoFreeBucket
<1> DEFINE heap == Formatted(idx, m)
           x == heap.first
           bk == [buckets EXCEPT ![idx] = x]
<1>4. /\ x # null
      /\ FreeListsInv(bk, heap.next, taken') /\ PartedInv(heap.next, live, taken')
      /\ MadeInv(made', taken')
  BY <1>1, <1>2, <1>3, RefillKeeps
<1>5. /\ buckets' = [buckets EXCEPT ![idx] = heap.next[x]]
      /\ next' = Without(heap.next, x) /\ status' = status
      /\ live' = With(live, x, s) /\ out' = out + 1
  BY <1>2, <1>4 DEF Hold
<1>6. buckets \in [Idx -> Nat \union {null}]
  BY <1>1 DEF FreeListsInv, FreeInv, HeadsInv
<1> HIDE DEF heap
<1>7. bk[idx] = x /\ buckets' = [bk EXCEPT ![idx] = heap.next[x]]
  BY <1>5, <1>6
<1> HIDE DEF bk, x
<1>8. /\ FreeListsInv(buckets', next', taken') /\ PartedInv(next', live', taken')
      /\ x \notin DOMAIN live /\ x \in ObjectsIn(taken') /\ Home(x) = idx
  <2> DEFINE nx == heap.next
             tk == taken'
             y == bk[idx]
  <2>1. FreeListsInv(bk, nx, tk) /\ PartedInv(nx, live, tk) /\ bk[idx] # null
    BY <1>4, <1>7
  <2> HIDE DEF nx, tk
  <2>2. /\ FreeListsInv([bk EXCEPT ![idx] = nx[y]], Without(nx, y), tk)
        /\ PartedInv(Without(nx, y), With(live, y, s), tk)
        /\ y \notin DOMAIN live /\ y \in ObjectsIn(tk) /\ Home(y) = idx
    BY <2>1, TakeFirst
  <2>3. y = x
    BY <1>7
  <2> HIDE DEF y
  <2> QED
    BY <1>5, <1>7, <2>2, <2>3 DEF nx, tk
<1>9. x \in Nat /\ x % PageSize # memForbidden
  BY <1>8, ObjectsInFacts DEF PartedInv
<1>10. SizesInv(live', chunks')
  BY <1>1, <1>3, <1>5, <1>8, <1>9, SizesGrow
<1>11. CountInv(live', out')
  BY <1>1, <1>5, <1>8, CountFollows
<1>12. ChunksInv(chunks') /\ status' = "ok"
  BY <1>1, <1>3, <1>5
<1> QED
  BY <1>4, <1>8, <1>10, <1>11, <1>12 DEF IInv

(* An object coming back to its bucket keeps the invariant.                *)
LEMMA DeallocateToBucketKeeps ==
  ASSUME IInv, NEW ptr \in DOMAIN live, deallocateToBucket(ptr)
  PROVE  IInv'
<1> DEFINE i == Home(ptr)
<1>1. /\ FreeListsInv(buckets, next, taken) /\ PartedInv(next, live, taken)
      /\ MadeInv(made, taken) /\ SizesInv(live, chunks) /\ ChunksInv(chunks)
      /\ CountInv(live, out) /\ status = "ok"
  BY DEF IInv
<1>2. /\ ptr % PageSize # memForbidden
      /\ next' = With(next, ptr, buckets[i]) /\ buckets' = [buckets EXCEPT ![i] = ptr]
      /\ live' = Without(live, ptr) /\ out' = out - 1
      /\ chunks' = chunks /\ taken' = taken /\ made' = made /\ status' = status
  BY DEF deallocateToBucket, getOffsetInPage, ptrToPageStart, Home, GiveUp
<1>3. /\ taken \subseteq AllMultipages /\ DOMAIN next \intersect DOMAIN live = {}
      /\ ObjectsIn(taken) = DOMAIN next \union OfBucket(live)
      /\ IsFiniteSet(DOMAIN next)
  BY <1>1 DEF PartedInv
<1>4. PICK D : FreeInv(buckets, next, DOMAIN next, D) /\ \A a \in D : LostIn(taken, a)
  BY <1>1 DEF FreeListsInv
<1>5. ptr \in Nat \ DOMAIN next
  BY <1>1, <1>3 DEF SizesInv
<1>6. /\ DOMAIN next' = DOMAIN next \union {ptr} /\ next'[ptr] = buckets[i]
      /\ \A a \in DOMAIN next : next'[a] = next[a]
  BY <1>2, <1>5 DEF With
<1>7. FreeListsInv(buckets', next', taken')
  <2>1. FreeInv(buckets', next', DOMAIN next', D)
    <3> DEFINE nx2 == next'
    <3>1. /\ \A a \in DOMAIN next : nx2[a] = next[a]
          /\ nx2[ptr] = buckets[Home(ptr)]
      BY <1>6
    <3> HIDE DEF nx2
    <3>2. FreeInv([buckets EXCEPT ![Home(ptr)] = ptr], nx2, DOMAIN next \union {ptr}, D)
      BY <1>4, <1>5, <3>1, Push
    <3> QED
      BY <1>2, <1>6, <3>2 DEF nx2
  <2> QED
    BY <1>2, <1>4, <2>1 DEF FreeListsInv
<1>8. DOMAIN live' = DOMAIN live \ {ptr} /\ \A p \in DOMAIN live' : live'[p] = live[p]
  BY <1>2 DEF Without
<1>9. PartedInv(next', live', taken')
  <2>1. OfBucket(live') = OfBucket(live) \ {ptr} /\ ptr \in OfBucket(live)
    BY <1>2, <1>8 DEF OfBucket
  <2>2. IsFiniteSet(DOMAIN next')
    BY <1>3, <1>6, FS_AddElement
  <2> QED
    BY <1>2, <1>3, <1>6, <1>8, <2>1, <2>2 DEF PartedInv
<1>10. SizesInv(live', chunks')
  BY <1>1, <1>2, <1>8 DEF SizesInv
<1>11. CountInv(live', out')
  BY <1>1, <1>2, CountFollows
<1> QED
  BY <1>1, <1>2, <1>7, <1>9, <1>10, <1>11 DEF IInv

(* The object of a chunk lies at memForbidden of the first page, and the   *)
(* address tells that page.                                                *)
LEMMA ChunkObject ==
  ASSUME NEW p \in Nat
  PROVE  LET x == p * PageSize + memForbidden
         IN  x \in Nat /\ x % PageSize = memForbidden /\ x \div PageSize = p
<1>1. p * PageSize + memForbidden \in Nat
  <2>1. p * PageSize \in Nat
    BY PageSizeFacts, SMT
  <2> QED
    BY <2>1, PageSizeFacts
<1> QED
  BY <1>1, PageSizeFacts, DivisionUnique

(* A new chunk keeps the invariant.                                        *)
LEMMA AllocateInCaseTooLargeForBucketKeeps ==
  ASSUME IInv, NEW n \in 1 .. MaxLargePages, allocateInCaseTooLargeForBucket(n)
  PROVE  IInv'
<1>1. /\ FreeListsInv(buckets, next, taken) /\ PartedInv(next, live, taken)
      /\ MadeInv(made, taken) /\ SizesInv(live, chunks) /\ ChunksInv(chunks)
      /\ CountInv(live, out) /\ status = "ok"
  BY DEF IInv
<1>2. /\ buckets' = buckets /\ next' = next /\ taken' = taken
      /\ made' = made /\ status' = status
  BY DEF allocateInCaseTooLargeForBucket
<1>3. PICK p \in LargePages :
       /\ ChunkPages(p, n) \subseteq LargePages
       /\ \A q \in DOMAIN chunks :
            ChunkPages(p, n) \intersect ChunkPages(q, chunks[q]) = {}
       /\ chunks' = With(chunks, p, n)
       /\ Hold(p * PageSize + memForbidden, n * PageSize - memForbidden)
  BY DEF allocateInCaseTooLargeForBucket
<1> DEFINE x == p * PageSize + memForbidden
           s == n * PageSize - memForbidden
<1>4. live' = With(live, x, s) /\ out' = out + 1
  BY <1>3 DEF Hold
<1>5. p \in Nat
  BY PlacesAssumption
<1>6. x \in Nat /\ x % PageSize = memForbidden /\ x \div PageSize = p
  BY <1>5, ChunkObject
<1>7. p \notin DOMAIN chunks
  <2> SUFFICES ASSUME p \in DOMAIN chunks PROVE FALSE
    OBVIOUS
  <2>1. chunks[p] \in 1 .. MaxLargePages
    BY <1>1 DEF ChunksInv
  <2>2. p \in ChunkPages(p, n) /\ p \in ChunkPages(p, chunks[p])
    BY <1>5, <2>1, PageSizeAssumption DEF ChunkPages
  <2> QED
    BY <1>3, <2>2
<1>8. x \notin DOMAIN live
  BY <1>1, <1>6, <1>7 DEF SizesInv
<1> HIDE DEF x
<1>9. /\ DOMAIN live' = DOMAIN live \union {x} /\ live'[x] = s
      /\ \A y \in DOMAIN live : live'[y] = live[y]
  BY <1>4, <1>8 DEF With
<1>10. /\ DOMAIN chunks' = DOMAIN chunks \union {p} /\ chunks'[p] = n
       /\ \A q \in DOMAIN chunks : chunks'[q] = chunks[q]
  BY <1>3, <1>7 DEF With
<1> HIDE DEF s
<1>11. FreeListsInv(buckets', next', taken') /\ MadeInv(made', taken')
  BY <1>1, <1>2
<1>12. PartedInv(next', live', taken')
  <2>1. /\ taken \subseteq AllMultipages /\ DOMAIN next \intersect DOMAIN live = {}
        /\ ObjectsIn(taken) = DOMAIN next \union OfBucket(live)
        /\ IsFiniteSet(DOMAIN next)
    BY <1>1 DEF PartedInv
  <2>2. OfBucket(live') = OfBucket(live)
    BY <1>6, <1>9 DEF OfBucket
  <2>3. x \notin DOMAIN next
    BY <1>6, <2>1, ObjectsInFacts
  <2> QED
    BY <1>2, <1>9, <2>1, <2>2, <2>3 DEF PartedInv
<1>13. SizesInv(live', chunks')
  <2> SUFFICES ASSUME NEW y \in DOMAIN live'
               PROVE  /\ y \in Nat
                      /\ y % PageSize # memForbidden => live'[y] = BucketSize[Home(y)]
                      /\ y % PageSize = memForbidden =>
                           /\ y \div PageSize \in DOMAIN chunks'
                           /\ live'[y] = chunks'[y \div PageSize] * PageSize - memForbidden
    BY DEF SizesInv
  <2>1. CASE y = x
    <3>1. live'[y] = n * PageSize - memForbidden
      BY <1>9, <2>1 DEF s
    <3> QED
      BY <1>6, <1>10, <2>1, <3>1
  <2>2. CASE y \in DOMAIN live
    <3>1. /\ y \in Nat
          /\ y % PageSize # memForbidden => live[y] = BucketSize[Home(y)]
          /\ y % PageSize = memForbidden =>
               /\ y \div PageSize \in DOMAIN chunks
               /\ live[y] = chunks[y \div PageSize] * PageSize - memForbidden
      BY <1>1, <2>2 DEF SizesInv
    <3> QED
      BY <1>9, <1>10, <2>2, <3>1
  <2> QED
    BY <1>9, <2>1, <2>2
<1>14. ChunksInv(chunks')
  <2>1. /\ DOMAIN chunks \subseteq LargePages
        /\ \A q \in DOMAIN chunks : /\ chunks[q] \in 1 .. MaxLargePages
                                    /\ ChunkPages(q, chunks[q]) \subseteq LargePages
        /\ \A q, r \in DOMAIN chunks :
             q # r => ChunkPages(q, chunks[q]) \intersect ChunkPages(r, chunks[r]) = {}
    BY <1>1 DEF ChunksInv
  <2>2. \A q \in DOMAIN chunks' : /\ chunks'[q] \in 1 .. MaxLargePages
                                  /\ ChunkPages(q, chunks'[q]) \subseteq LargePages
    BY <1>3, <1>10, <2>1
  <2>3. ASSUME NEW q \in DOMAIN chunks', NEW r \in DOMAIN chunks', q # r
        PROVE  ChunkPages(q, chunks'[q]) \intersect ChunkPages(r, chunks'[r]) = {}
    <3>1. CASE q = p
      <4>1. r \in DOMAIN chunks
        BY <1>10, <2>3, <3>1
      <4> QED
        BY <1>3, <1>10, <3>1, <4>1
    <3>2. CASE r = p
      <4>1. q \in DOMAIN chunks
        BY <1>10, <2>3, <3>2
      <4> QED
        BY <1>3, <1>10, <3>2, <4>1
    <3>3. CASE q # p /\ r # p
      BY <1>10, <2>1, <2>3, <3>3
    <3> QED
      BY <3>1, <3>2, <3>3
  <2> QED
    BY <1>10, <2>1, <2>2, <2>3 DEF ChunksInv
<1>15. CountInv(live', out')
  BY <1>1, <1>4, <1>8, CountFollows
<1> QED
  BY <1>1, <1>2, <1>11, <1>12, <1>13, <1>14, <1>15 DEF IInv

(* A chunk coming back keeps the invariant: the page of the pointer does   *)
(* begin a chunk.                                                          *)
LEMMA DeallocateChunkKeeps ==
  ASSUME IInv, NEW ptr \in DOMAIN live, deallocateChunk(ptr)
  PROVE  IInv'
<1> DEFINE p == ptr \div PageSize
<1>1. /\ FreeListsInv(buckets, next, taken) /\ PartedInv(next, live, taken)
      /\ MadeInv(made, taken) /\ SizesInv(live, chunks) /\ ChunksInv(chunks)
      /\ CountInv(live, out) /\ status = "ok"
  BY DEF IInv
<1>2. ptr % PageSize = memForbidden
  BY DEF deallocateChunk, getOffsetInPage
<1>3. ptr \in Nat /\ p \in DOMAIN chunks
  BY <1>1, <1>2 DEF SizesInv
<1>4. /\ chunks' = Without(chunks, p) /\ live' = Without(live, ptr) /\ out' = out - 1
      /\ buckets' = buckets /\ next' = next /\ taken' = taken
      /\ made' = made /\ status' = status
  BY <1>3 DEF deallocateChunk, ptrToPageStart, GiveUp
<1>5. /\ DOMAIN live' = DOMAIN live \ {ptr}
      /\ \A y \in DOMAIN live' : live'[y] = live[y]
      /\ DOMAIN chunks' = DOMAIN chunks \ {p}
      /\ \A q \in DOMAIN chunks' : chunks'[q] = chunks[q]
  BY <1>4 DEF Without
<1>6. PartedInv(next', live', taken')
  <2>1. OfBucket(live') = OfBucket(live)
    BY <1>2, <1>5 DEF OfBucket
  <2> QED
    BY <1>1, <1>4, <1>5, <2>1 DEF PartedInv
<1>7. SizesInv(live', chunks')
  <2> SUFFICES ASSUME NEW y \in DOMAIN live'
               PROVE  /\ y \in Nat
                      /\ y % PageSize # memForbidden => live'[y] = BucketSize[Home(y)]
                      /\ y % PageSize = memForbidden =>
                           /\ y \div PageSize \in DOMAIN chunks'
                           /\ live'[y] = chunks'[y \div PageSize] * PageSize - memForbidden
    BY DEF SizesInv
  <2>1. /\ y \in DOMAIN live /\ y # ptr /\ y \in Nat
        /\ y % PageSize # memForbidden => live[y] = BucketSize[Home(y)]
        /\ y % PageSize = memForbidden =>
             /\ y \div PageSize \in DOMAIN chunks
             /\ live[y] = chunks[y \div PageSize] * PageSize - memForbidden
    BY <1>1, <1>5 DEF SizesInv
  <2>2. y % PageSize = memForbidden => y \div PageSize # p
    <3> SUFFICES ASSUME y % PageSize = memForbidden, y \div PageSize = p PROVE FALSE
      OBVIOUS
    <3>1. ptr = p * PageSize + memForbidden
      BY <1>2, <1>3, PageSizeFacts, DivisionFacts
    <3>2. y = p * PageSize + memForbidden
      BY <2>1, PageSizeFacts, DivisionFacts
    <3> QED
      BY <2>1, <3>1, <3>2
  <2> QED
    BY <1>5, <2>1, <2>2
<1>8. ChunksInv(chunks')
  BY <1>1, <1>5 DEF ChunksInv
<1>9. CountInv(live', out')
  BY <1>1, <1>4, CountFollows
<1> QED
  BY <1>1, <1>4, <1>6, <1>7, <1>8, <1>9 DEF IInv

(* The invariant is inductive.                                             *)
LEMMA NextKeeps == IInv /\ [Next]_vars => IInv'
<1> SUFFICES ASSUME IInv, [Next]_vars PROVE IInv'
  OBVIOUS
<1>1. CASE UNCHANGED vars
  BY <1>1 DEF vars, IInv
<1>2. CASE Next
  BY <1>2, AllocateKeeps, AllocateInCaseNoFreeBucketKeeps,
     AllocateInCaseTooLargeForBucketKeeps, DeallocateToBucketKeeps,
     DeallocateChunkKeeps DEF Next
<1> QED
  BY <1>1, <1>2

(* It holds in every behaviour.                                            *)
THEOREM Invariance == Spec => []IInv
  BY InitIInv, NextKeeps, PTL DEF Spec

-----------------------------------------------------------------------------
(* The history variable made knows the objects of every bucket.            *)
LEMMA MadeFacts ==
  ASSUME IInv, NEW i \in Idx, NEW a
  PROVE  a \in made[i] <=> a \in ObjectsIn(taken) /\ Home(a) = i
<1>1. made[i] = ObjectsIn({m \in taken : m.idx = i}) /\ taken \subseteq AllMultipages
  BY DEF IInv, MadeInv, PartedInv
<1>2. \A m \in taken : a \in ObjectsOf(m) => m.idx = Home(a)
  BY <1>1, ObjectFacts DEF Home
<1> QED
  BY <1>1, <1>2 DEF ObjectsIn

(* The sizes callers hold are no zero.                                     *)
LEMMA LiveSizes ==
  ASSUME IInv, NEW p \in DOMAIN live
  PROVE  live[p] \in ObjectSize /\ live[p] \in Nat \ {0}
<1>1. /\ p \in Nat
      /\ p % PageSize # memForbidden => live[p] = BucketSize[Home(p)]
      /\ p % PageSize = memForbidden =>
           /\ p \div PageSize \in DOMAIN chunks
           /\ live[p] = chunks[p \div PageSize] * PageSize - memForbidden
  BY DEF IInv, SizesInv
<1>2. CASE p % PageSize # memForbidden
  <2>1. Home(p) \in Idx
    BY <1>1, HomeIsIdx
  <2> QED
    BY <1>1, <1>2, <2>1, BucketSizeAssumption DEF ObjectSize
<1>3. CASE p % PageSize = memForbidden
  <2>1. PICK n \in 1 .. MaxLargePages : live[p] = n * PageSize - memForbidden
    BY <1>1, <1>3 DEF IInv, ChunksInv
  <2>2. n \in Nat /\ n >= 1
    BY PageSizeAssumption
  <2>3. n * PageSize >= 1 * PageSize /\ n * PageSize \in Nat
    BY <2>2, PageSizeFacts, SMT
  <2>4. n * PageSize - memForbidden \in Nat \ {0}
    BY <2>3, PageSizeFacts
  <2> QED
    BY <2>1, <2>4 DEF ObjectSize
<1> QED
  BY <1>2, <1>3

(* Every variable has its shape; a bucket starts with an object made for   *)
(* it.                                                                     *)
THEOREM TypesHold == Spec => []TypeOK
<1>1. IInv => TypeOK
  <2> SUFFICES ASSUME IInv PROVE TypeOK
    OBVIOUS
  <2>1. PICK D : FreeInv(buckets, next, DOMAIN next, D)
    BY DEF IInv, FreeListsInv
  <2>2. /\ taken \subseteq AllMultipages
        /\ ObjectsIn(taken) = DOMAIN next \union OfBucket(live)
    BY DEF IInv, PartedInv
  <2>3. ASSUME NEW i \in Idx PROVE buckets[i] \in made[i] \union {null}
    <3>1. buckets[i] # null => buckets[i] \in DOMAIN next /\ Home(buckets[i]) = i
      BY <2>1 DEF FreeInv, HeadsInv
    <3> QED
      BY <2>2, <3>1, MadeFacts
  <2>4. DOMAIN next \subseteq UNION {made[i] : i \in Idx}
    <3> SUFFICES ASSUME NEW a \in DOMAIN next PROVE \E i \in Idx : a \in made[i]
      OBVIOUS
    <3>1. a \in ObjectsIn(taken) /\ Home(a) \in Idx
      BY <2>2, ObjectsInFacts
    <3> QED
      BY <3>1, MadeFacts
  <2>5. \A ptr \in DOMAIN live : live[ptr] \in Nat \ {0}
    BY LiveSizes
  <2>6. \A p \in DOMAIN chunks : chunks[p] \in 1 .. MaxLargePages
    BY DEF IInv, ChunksInv
  <2>7. taken \subseteq UNION {Multipages(i) : i \in Idx}
    BY <2>2 DEF AllMultipages
  <2>8. out \in Nat /\ status = "ok"
    BY FS_CardinalityType DEF IInv, CountInv
  <2> QED
    BY <2>3, <2>4, <2>5, <2>6, <2>7, <2>8 DEF TypeOK
<1> QED
  BY Invariance, <1>1, PTL

(* Objects lie in the pages they were made of, whatever is left over.      *)
THEOREM ObjectsFitHold == Spec => []ObjectsFit
<1>1. IInv => ObjectsFit
  <2> SUFFICES ASSUME IInv, NEW i \in Idx, NEW a \in made[i]
               PROVE  \E m \in taken :
                 LET s == Segments[m]
                 IN  /\ m.idx = i
                     /\ \/ Bytes(a, BucketSize[i]) \subseteq Bytes(s.ptr1, s.sz1 * PageSize)
                        \/ /\ IsCut(m)
                           /\ Bytes(a, BucketSize[i]) \subseteq Bytes(s.ptr2, s.sz2 * PageSize)
    BY DEF ObjectsFit
  <2>1. taken \subseteq AllMultipages
    BY DEF IInv, PartedInv
  <2>2. a \in ObjectsIn({m \in taken : m.idx = i})
    BY DEF IInv, MadeInv
  <2>3. PICK m \in taken : m.idx = i /\ a \in ObjectsOf(m)
    BY <2>2 DEF ObjectsIn
  <2>4. PICK g \in Segs(m) : a \in Objects(BucketSize[m.idx], g.start, g.n)
    BY <2>3 DEF ObjectsOf
  <2>5. Bytes(a, BucketSize[i]) \subseteq Bytes(g.start, g.n * PageSize)
    BY <2>1, <2>3, <2>4, SegObjects
  <2>6. \/ g.start = Segments[m].ptr1 /\ g.n = Segments[m].sz1
        \/ IsCut(m) /\ g.start = Segments[m].ptr2 /\ g.n = Segments[m].sz2
    BY DEF Segs
  <2> QED
    BY <2>3, <2>5, <2>6
<1> QED
  BY Invariance, <1>1, PTL

(* What deallocate reads off a pointer is right.                           *)
THEOREM RoutedHomeHolds == Spec => []RoutedHome
<1>1. IInv => RoutedHome
  BY DEF IInv, SizesInv, RoutedHome, getOffsetInPage, ptrToPageStart, Home
<1> QED
  BY Invariance, <1>1, PTL

(* No sequence of calls reads a link or a header that is none.             *)
THEOREM NeverStopsHolds == Spec => []NeverStops
<1>1. IInv => NeverStops
  BY DEF IInv, NeverStops
<1> QED
  BY Invariance, <1>1, PTL

(***************************************************************************)
(* The lists from object to object.  The recursion of InOrder defines a    *)
(* function: there is one up to every length.                              *)
(***************************************************************************)
After(nx, a) == IF a \in DOMAIN nx THEN nx[a] ELSE null

Follows(at, nx, first, n) ==
  at = [k \in 0 .. n |-> IF k = 0 THEN first ELSE After(nx, at[k - 1])]

(* There is such a list of every length.                                   *)
LEMMA OrderExists ==
  ASSUME NEW nx, NEW first, NEW n \in Nat
  PROVE  \E at : Follows(at, nx, first, n)
<1> DEFINE T == {k \in Nat : \E at : Follows(at, nx, first, k)}
<1>1. 0 \in T
  <2>1. Follows([k \in 0 .. 0 |-> first], nx, first, 0)
    BY DEF Follows
  <2> QED
    BY <2>1
<1>2. ASSUME NEW m \in 0 .. n - 1, m \in T
      PROVE  m + 1 \in T
  <2>1. PICK r : Follows(r, nx, first, m)
    BY <1>2
  <2> DEFINE s == [k \in 0 .. m + 1 |-> IF k = m + 1 THEN After(nx, r[m]) ELSE r[k]]
  <2>2. m \in Nat /\ m + 1 \in Nat
    OBVIOUS
  <2>3. \A k \in 0 .. m + 1 : s[k] = IF k = 0 THEN first ELSE After(nx, s[k - 1])
    <3> TAKE k \in 0 .. m + 1
    <3>1. CASE k = m + 1
      <4>1. s[m] = r[m] /\ s[k] = After(nx, r[m]) /\ k - 1 = m /\ k # 0
        BY <2>2, <3>1
      <4> QED
        BY <4>1
    <3>2. CASE k # m + 1
      <4>1. k \in 0 .. m /\ s[k] = r[k]
        BY <2>2, <3>2
      <4>2. r[k] = IF k = 0 THEN first ELSE After(nx, r[k - 1])
        BY <2>1, <4>1 DEF Follows
      <4>3. k # 0 => k - 1 \in 0 .. m + 1 /\ s[k - 1] = r[k - 1]
        BY <2>2, <4>1
      <4> QED
        BY <4>1, <4>2, <4>3
    <3> QED
      BY <3>1, <3>2
  <2>4. s = [k \in 0 .. m + 1 |-> s[k]]
    OBVIOUS
  <2> HIDE DEF s
  <2>5. s = [k \in 0 .. m + 1 |-> IF k = 0 THEN first ELSE After(nx, s[k - 1])]
    BY <2>3, <2>4
  <2>6. Follows(s, nx, first, m + 1)
    BY <2>5 DEF Follows
  <2> QED
    BY <2>2, <2>6
<1> HIDE DEF T
<1>3. n \in T
  BY <1>1, <1>2, UpTo
<1> QED
  BY <1>3 DEF T

(* What it begins with and goes on with.                                   *)
LEMMA FollowsFacts ==
  ASSUME NEW nx, NEW first, NEW n \in Nat, NEW at, Follows(at, nx, first, n)
  PROVE  /\ DOMAIN at = 0 .. n /\ at[0] = first
         /\ \A k \in 0 .. n - 1 : at[k + 1] = After(nx, at[k])
<1>1. /\ DOMAIN at = 0 .. n
      /\ \A k \in 0 .. n : at[k] = IF k = 0 THEN first ELSE After(nx, at[k - 1])
  BY DEF Follows
<1>2. ASSUME NEW k \in 0 .. n - 1 PROVE at[k + 1] = After(nx, at[k])
  <2>1. k + 1 \in 0 .. n /\ k + 1 # 0 /\ (k + 1) - 1 = k
    OBVIOUS
  <2> QED
    BY <1>1, <2>1
<1> QED
  BY <1>1, <1>2

(* InOrder is such a list.                                                 *)
LEMMA InOrderFollows ==
  ASSUME NEW i, Cardinality(DOMAIN next) \in Nat
  PROVE  Follows(InOrder(i), next, buckets[i], Cardinality(DOMAIN next))
<1> DEFINE n == Cardinality(DOMAIN next)
           at == CHOOSE f : Follows(f, next, buckets[i], n)
<1>1. Follows(at, next, buckets[i], n)
  BY OrderExists
<1>2. InOrder(i) = at
  BY DEF InOrder, Follows, After
<1> QED
  BY <1>1, <1>2

(* The list of a bucket meets just the free objects of the bucket that are *)
(* not lost, and has come to its end when it could have met all objects:   *)
(* for links lead to no object twice, and never to the first one.          *)
LEMMA ListEnds ==
  ASSUME NEW bk, NEW nx, NEW F, NEW D, FreeInv(bk, nx, F, D),
         IsFiniteSet(F), F \subseteq DOMAIN nx, null \notin DOMAIN nx,
         NEW n \in Nat, Cardinality(F) <= n, NEW i \in Idx,
         NEW at, Follows(at, nx, bk[i], n)
  PROVE  /\ at[n] = null
         /\ {at[k] : k \in DOMAIN at} \ {null} = {a \in F \ D : Home(a) = i}
<1>1. IsFiniteSet(F) /\ n \in Nat /\ Cardinality(F) \in Nat /\ Cardinality(F) <= n
  BY FS_CardinalityType
<1>2. /\ DOMAIN at = 0 .. n /\ at[0] = bk[i]
      /\ \A k \in 0 .. n - 1 : at[k + 1] = After(nx, at[k])
  <2>1. DOMAIN at = 0 .. n
    BY FollowsFacts
  <2>2. at[0] = bk[i]
    BY FollowsFacts
  <2>3. \A k \in 0 .. n - 1 : at[k + 1] = After(nx, at[k])
    BY FollowsFacts
  <2> QED
    BY <2>1, <2>2, <2>3
<1>3. /\ F \subseteq Nat /\ D \subseteq F
      /\ \A a \in F : nx[a] # null =>
           nx[a] \in F /\ Home(nx[a]) = Home(a) /\ (a \in D <=> nx[a] \in D)
      /\ \A a, b \in F : nx[a] = nx[b] /\ nx[a] # null => a = b
  BY DEF FreeInv, LinksInv
<1>4. bk[i] # null =>
        bk[i] \in F \ D /\ Home(bk[i]) = i /\ \A a \in F : nx[a] # bk[i]
  BY DEF FreeInv, HeadsInv
<1>5. /\ \A a \in F : After(nx, a) = nx[a]
      /\ After(nx, null) = null
      /\ null \notin F
  BY <1>3, NullFacts DEF After
<1>6. \A k \in 0 .. n : at[k] = null \/ (at[k] \in F \ D /\ Home(at[k]) = i)
  <2> DEFINE T == {k \in Nat : k <= n => at[k] = null \/ (at[k] \in F \ D /\ Home(at[k]) = i)}
  <2>1. 0 \in T
    BY <1>2, <1>4
  <2>2. ASSUME NEW k \in 0 .. n - 1, k \in T PROVE k + 1 \in T
    <3>1. k \in Nat /\ k <= n /\ k + 1 \in Nat
      BY <1>1
    <3>2. at[k] = null \/ (at[k] \in F \ D /\ Home(at[k]) = i)
      BY <2>2, <3>1
    <3>3. at[k + 1] = null \/ (at[k + 1] \in F \ D /\ Home(at[k + 1]) = i)
      <4>1. CASE at[k] = null
        BY <1>2, <1>5, <4>1
      <4>2. CASE at[k] \in F \ D /\ Home(at[k]) = i
        BY <1>2, <1>3, <1>5, <4>2
      <4> QED
        BY <3>2, <4>1, <4>2
    <3> QED
      BY <3>1, <3>3
  <2> HIDE DEF T
  <2>3. \A k \in 0 .. n : k \in T
    BY <1>1, <2>1, <2>2, UpTo
  <2> QED
    BY <1>1, <2>3 DEF T
<1>7. ASSUME at[n] # null
      PROVE  FALSE
  <2>1. \A k \in 0 .. n : at[n - k] # null
    <3> DEFINE T == {k \in Nat : at[n - k] # null}
    <3>1. 0 \in T
      BY <1>1, <1>7
    <3>2. ASSUME NEW k \in 0 .. n - 1, k \in T PROVE k + 1 \in T
      <4>1. n - (k + 1) \in 0 .. n - 1 /\ (n - (k + 1)) + 1 = n - k /\ k + 1 \in Nat
        BY <1>1
      <4>2. at[n - k] = After(nx, at[n - (k + 1)])
        BY <1>2, <4>1
      <4>3. at[n - k] # null
        BY <3>2
      <4> QED
        BY <1>5, <4>1, <4>2, <4>3
    <3> HIDE DEF T
    <3>3. \A k \in 0 .. n : k \in T
      BY <1>1, <3>1, <3>2, UpTo
    <3> QED
      BY <3>3 DEF T
  <2>2. \A k \in 0 .. n : at[k] \in F
    <3> TAKE k \in 0 .. n
    <3>1. n - k \in 0 .. n /\ n - (n - k) = k
      BY <1>1
    <3>2. at[k] # null
      BY <2>1, <3>1
    <3> QED
      BY <1>6, <3>2
  <2>3. \A k \in 0 .. n - 1 : at[k + 1] = nx[at[k]] /\ at[k + 1] # null
    <3> TAKE k \in 0 .. n - 1
    <3>1. k \in 0 .. n /\ k + 1 \in 0 .. n
      BY <1>1
    <3>2. at[k] \in F /\ at[k + 1] \in F
      BY <2>2, <3>1
    <3> QED
      BY <1>2, <1>5, <3>2
  <2>4. \A j \in 0 .. n : \A k \in 0 .. n : j < k => at[j] # at[k]
    <3> DEFINE T == {j \in Nat : \A k \in 0 .. n : j < k => at[j] # at[k]}
    <3>1. 0 \in T
      <4> SUFFICES ASSUME NEW k \in 0 .. n, 0 < k PROVE at[0] # at[k]
        OBVIOUS
      <4>1. k - 1 \in 0 .. n - 1 /\ (k - 1) + 1 = k /\ k - 1 \in 0 .. n /\ 0 \in 0 .. n
        BY <1>1
      <4>2. at[k] = nx[at[k - 1]] /\ at[k - 1] \in F /\ at[0] \in F
        BY <2>2, <2>3, <4>1
      <4> QED
        BY <1>2, <1>4, <1>5, <4>2
    <3>2. ASSUME NEW j \in 0 .. n - 1, j \in T PROVE j + 1 \in T
      <4> SUFFICES ASSUME NEW k \in 0 .. n, j + 1 < k, at[j + 1] = at[k] PROVE FALSE
        BY <1>1
      <4>1. /\ k - 1 \in 0 .. n - 1 /\ (k - 1) + 1 = k /\ k - 1 \in 0 .. n
            /\ j \in 0 .. n /\ j < k - 1
        BY <1>1
      <4>2. /\ at[k] = nx[at[k - 1]] /\ at[k - 1] \in F
            /\ at[j + 1] = nx[at[j]] /\ at[j] \in F /\ at[j + 1] # null
        BY <2>2, <2>3, <4>1
      <4>3. at[j] = at[k - 1]
        BY <1>3, <4>2
      <4>4. at[j] # at[k - 1]
        BY <3>2, <4>1
      <4> QED
        BY <4>3, <4>4
    <3> HIDE DEF T
    <3>3. \A j \in 0 .. n : j \in T
      BY <1>1, <3>1, <3>2, UpTo
    <3> QED
      BY <3>3 DEF T
  <2> DEFINE f == [k \in 0 .. n |-> at[k]]
  <2>5. f \in [0 .. n -> F]
    BY <2>2
  <2>6. IsFiniteSet(0 .. n) /\ Cardinality(0 .. n) = n + 1
    BY <1>1, FS_Interval
  <2>7. Cardinality(F) < Cardinality(0 .. n)
    BY <1>1, <2>6
  <2> HIDE DEF f
  <2>8. PICK j, k \in 0 .. n : j # k /\ f[j] = f[k]
    BY <1>1, <2>5, <2>6, <2>7, FS_PigeonHole
  <2>9. at[j] = at[k] /\ (j < k \/ k < j)
    BY <1>1, <2>8 DEF f
  <2> QED
    BY <2>4, <2>9
<1>8. {a \in F \ D : Home(a) = i} \subseteq {at[k] : k \in DOMAIN at}
  <2> DEFINE Met == {at[k] : k \in DOMAIN at}
             L == Met \union {x \in Nat : Home(x) # i}
  <2>1. ASSUME NEW j \in Idx, bk[j] # null
        PROVE  bk[j] \in L
    <3>1. CASE j = i
      BY <1>1, <1>2, <3>1
    <3>2. CASE j # i
      BY <1>3, <2>1, <3>2 DEF FreeInv, HeadsInv
    <3> QED
      BY <3>1, <3>2
  <2>2. ASSUME NEW x \in L \intersect F, nx[x] # null
        PROVE  nx[x] \in L
    <3>1. CASE x \in Met
      <4>1. PICK k \in 0 .. n : x = at[k] /\ x # null
        BY <1>2, <1>5, <3>1
      <4>2. k \in 0 .. n - 1 /\ k + 1 \in 0 .. n
        BY <1>1, <1>7, <4>1
      <4>3. at[k + 1] = nx[x]
        BY <1>2, <1>5, <4>1, <4>2
      <4> QED
        BY <1>2, <4>2, <4>3
    <3>2. CASE x \in Nat /\ Home(x) # i
      BY <1>3, <2>2, <3>2
    <3> QED
      BY <3>1, <3>2
  <2> HIDE DEF L
  <2>3. F \ D \subseteq L
    BY <2>1, <2>2, ListedByAll
  <2> QED
    BY <1>3, <2>3 DEF L
<1> QED
  BY <1>2, <1>5, <1>6, <1>7, <1>8

(* So it is with the lists of Buckets.                                     *)
LEMMA ListedFacts ==
  ASSUME IInv, NEW i \in Idx, NEW D, FreeInv(buckets, next, DOMAIN next, D)
  PROVE  /\ InOrder(i)[Cardinality(DOMAIN next)] = null
         /\ Listed(i) = {a \in DOMAIN next \ D : Home(a) = i}
<1> DEFINE n == Cardinality(DOMAIN next)
           at == InOrder(i)
<1>1. IsFiniteSet(DOMAIN next) /\ n \in Nat /\ n <= n /\ null \notin DOMAIN next
  BY NullFacts, FS_CardinalityType DEF IInv, PartedInv, FreeInv, LinksInv
<1>2. Follows(at, next, buckets[i], n)
  BY <1>1, InOrderFollows
<1> HIDE DEF n, at
<1>3. /\ at[n] = null
      /\ {at[k] : k \in DOMAIN at} \ {null} = {a \in DOMAIN next \ D : Home(a) = i}
  <2>1. Cardinality(DOMAIN next) <= n
    BY <1>1 DEF n
  <2> QED
    BY <1>1, <1>2, <2>1, ListEnds
<1> QED
  BY <1>3 DEF n, at, Listed

(* Following a bucket's list, one meets only free objects of the bucket    *)
(* and comes to its end.                                                   *)
THEOREM BucketListsSound == Spec => []ListsSound
<1>1. IInv => ListsSound
  <2> SUFFICES ASSUME IInv, NEW i \in Idx
               PROVE  /\ Listed(i) \subseteq made[i] \ DOMAIN live
                      /\ InOrder(i)[Cardinality(DOMAIN next)] = null
    BY DEF ListsSound
  <2>1. PICK D : FreeInv(buckets, next, DOMAIN next, D)
    BY DEF IInv, FreeListsInv
  <2>2. /\ DOMAIN next \intersect DOMAIN live = {}
        /\ DOMAIN next \subseteq ObjectsIn(taken)
    BY DEF IInv, PartedInv
  <2>3. Listed(i) = {a \in DOMAIN next \ D : Home(a) = i}
    BY <2>1, ListedFacts
  <2>4. Listed(i) \subseteq made[i] \ DOMAIN live
    BY <2>2, <2>3, MadeFacts
  <2> QED
    BY <2>1, <2>4, ListedFacts
<1> QED
  BY Invariance, <1>1, PTL

(* An object neither in its bucket nor with a caller was in the first      *)
(* segment of a multipage cut in two.                                      *)
THEOREM LostOnlyWhenCutHolds == Spec => []LostOnlyWhenCut
<1>1. IInv => LostOnlyWhenCut
  <2> SUFFICES ASSUME IInv, NEW i \in Idx,
                      NEW a \in made[i] \ (Listed(i) \union DOMAIN live)
               PROVE  \E m \in taken :
                        /\ m.idx = i /\ IsCut(m)
                        /\ a \in Bytes(Segments[m].ptr1, Segments[m].sz1 * PageSize)
    BY DEF LostOnlyWhenCut
  <2>1. PICK D : /\ FreeInv(buckets, next, DOMAIN next, D)
                 /\ \A x \in D : LostIn(taken, x)
    BY DEF IInv, FreeListsInv
  <2>2. /\ taken \subseteq AllMultipages
        /\ ObjectsIn(taken) = DOMAIN next \union OfBucket(live)
    BY DEF IInv, PartedInv
  <2>3. a \in DOMAIN next /\ Home(a) = i
    <3>1. a \in ObjectsIn(taken) /\ Home(a) = i
      BY MadeFacts
    <3> QED
      BY <2>2, <3>1 DEF OfBucket
  <2>4. Listed(i) = {x \in DOMAIN next \ D : Home(x) = i}
    BY <2>1, ListedFacts
  <2>5. a \in D
    BY <2>3, <2>4
  <2>6. PICK m \in taken :
           /\ m.idx = i /\ IsCut(m)
           /\ a \in Objects(BucketSize[m.idx], Segments[m].ptr1, Segments[m].sz1)
    BY <2>1, <2>3, <2>5 DEF LostIn
  <2>7. a \in Bytes(Segments[m].ptr1, Segments[m].sz1 * PageSize)
    <3> DEFINE one == [start |-> Segments[m].ptr1, n |-> Segments[m].sz1, from |-> 0]
    <3>1. m \in AllMultipages /\ one \in Segs(m)
      BY <2>2 DEF Segs
    <3>2. a \in Objects(BucketSize[m.idx], one.start, one.n)
      BY <2>6
    <3>3. one.start = Segments[m].ptr1 /\ one.n = Segments[m].sz1
      OBVIOUS
    <3> HIDE DEF one
    <3>4. a \in Nat /\ Bytes(a, BucketSize[m.idx]) \subseteq Bytes(one.start, one.n * PageSize)
      BY <3>1, <3>2, SegObjects
    <3>5. a \in Bytes(a, BucketSize[m.idx])
      <4>1. BucketSize[m.idx] \in Nat \ {0}
        BY <2>6, BucketSizeAssumption
      <4> QED
        BY <3>4, <4>1 DEF Bytes
    <3> QED
      BY <3>3, <3>4, <3>5
  <2> QED
    BY <2>6, <2>7
<1> QED
  BY Invariance, <1>1, PTL

-----------------------------------------------------------------------------
(***************************************************************************)
(* Callers see a heap of objects.                                          *)
(***************************************************************************)
(* A byte of a chunk's object is on a page of the chunk.                   *)
LEMMA ChunkByte ==
  ASSUME NEW p \in Nat, NEW n \in Nat, NEW x,
         x \in Bytes(p * PageSize + memForbidden, n * PageSize - memForbidden)
  PROVE  x \in Nat /\ x \div PageSize \in ChunkPages(p, n)
<1> DEFINE P == PageSize
           q == x \div P
           r == x % P
<1>1. p * P \in Nat /\ n * P \in Nat /\ (p + n) * P = p * P + n * P
  BY PageSizeFacts, SMT
<1>2. x \in Nat /\ p * P <= x /\ x < (p + n) * P
  BY <1>1, PageSizeFacts DEF Bytes
<1>3. q \in Nat /\ r \in Nat /\ r < P /\ x = q * P + r /\ P \in Nat
  BY <1>2, PageSizeFacts, DivisionFacts
<1> HIDE DEF q, r, P
<1>4. q * P \in Nat /\ (q + 1) * P = q * P + P
  BY <1>3, SMT
<1>5. p <= q
  <2> SUFFICES ASSUME q + 1 <= p PROVE FALSE
    BY <1>3
  <2>1. (q + 1) * P <= p * P
    BY <1>3, SMT
  <2> QED
    BY <1>1, <1>2, <1>3, <1>4, <2>1
<1>6. q < p + n
  <2> SUFFICES ASSUME p + n <= q PROVE FALSE
    BY <1>3
  <2>1. (p + n) * P <= q * P
    BY <1>3, SMT
  <2>2. (p + n) * P \in Nat
    BY <1>1
  <2> QED
    BY <1>2, <1>3, <1>4, <2>1, <2>2
<1> QED
  BY <1>2, <1>3, <1>5, <1>6 DEF ChunkPages, q, P

(* A pointer callers hold is an object of a multipage or of a chunk.       *)
LEMMA LiveKinds ==
  ASSUME IInv, NEW p \in DOMAIN live
  PROVE  \/ \E m \in taken : /\ m \in AllMultipages /\ p \in ObjectsOf(m)
                             /\ live[p] = BucketSize[m.idx]
         \/ \E c \in DOMAIN chunks :
              /\ c \in Nat /\ chunks[c] \in Nat
              /\ ChunkPages(c, chunks[c]) \subseteq LargePages
              /\ p = c * PageSize + memForbidden
              /\ live[p] = chunks[c] * PageSize - memForbidden
<1>1. /\ p \in Nat
      /\ p % PageSize # memForbidden => live[p] = BucketSize[Home(p)]
      /\ p % PageSize = memForbidden =>
           /\ p \div PageSize \in DOMAIN chunks
           /\ live[p] = chunks[p \div PageSize] * PageSize - memForbidden
  BY DEF IInv, SizesInv
<1>2. CASE p % PageSize # memForbidden
  <2>1. p \in ObjectsIn(taken) /\ taken \subseteq AllMultipages
    BY <1>2 DEF IInv, PartedInv, OfBucket
  <2>2. PICK m \in taken : p \in ObjectsOf(m)
    BY <2>1 DEF ObjectsIn
  <2>3. Home(p) = m.idx
    BY <2>1, <2>2, ObjectFacts DEF Home
  <2> QED
    BY <1>1, <1>2, <2>1, <2>2, <2>3
<1>3. CASE p % PageSize = memForbidden
  <2> DEFINE c == p \div PageSize
  <2>1. p = c * PageSize + memForbidden /\ c \in Nat
    BY <1>1, <1>3, PageSizeFacts, DivisionFacts
  <2>2. c \in DOMAIN chunks /\ live[p] = chunks[c] * PageSize - memForbidden
    BY <1>1, <1>3
  <2> HIDE DEF c
  <2>3. chunks[c] \in 1 .. MaxLargePages /\ ChunkPages(c, chunks[c]) \subseteq LargePages
    BY <2>2 DEF IInv, ChunksInv
  <2>4. chunks[c] \in Nat
    BY <2>3, PageSizeAssumption
  <2> QED
    BY <2>1, <2>2, <2>3, <2>4
<1> QED
  BY <1>2, <1>3

(* Its first byte is an address, and no other pointer has a byte of it.    *)
LiveSound ==
  /\ \A p \in DOMAIN live : p \in Address /\ live[p] \in ObjectSize
  /\ \A p, q \in DOMAIN live :
       p # q => Bytes(p, live[p]) \intersect Bytes(q, live[q]) = {}

(* The invariant is enough for that.                                       *)
LEMMA LiveIsSound == IInv => LiveSound
<1> SUFFICES ASSUME IInv PROVE LiveSound
  OBVIOUS
<1> DEFINE InBucket(p, m) == /\ m \in AllMultipages /\ p \in ObjectsOf(m)
                             /\ live[p] = BucketSize[m.idx]
           InChunk(p, c) == /\ c \in Nat /\ chunks[c] \in Nat
                            /\ ChunkPages(c, chunks[c]) \subseteq LargePages
                            /\ p = c * PageSize + memForbidden
                            /\ live[p] = chunks[c] * PageSize - memForbidden
<1>1. \A p \in DOMAIN live : \/ \E m \in taken : InBucket(p, m)
                             \/ \E c \in DOMAIN chunks : InChunk(p, c)
  BY LiveKinds
<1>2. ASSUME NEW p \in DOMAIN live, NEW m, InBucket(p, m), NEW x \in Bytes(p, live[p])
      PROVE  x \div PageSize \in BlockPages(m.block) /\ m.block \in Bases
  <2>1. PICK k \in Part : x \div PageSize = PageOf(m, k)
    BY <1>2, ObjectFacts
  <2> QED
    BY <1>2, <2>1, PageOfFacts, MultipageFacts
<1>3. ASSUME NEW p \in DOMAIN live, NEW c, InChunk(p, c), NEW x \in Bytes(p, live[p])
      PROVE  x \div PageSize \in ChunkPages(c, chunks[c]) /\ x \div PageSize \in LargePages
  <2>1. x \div PageSize \in ChunkPages(c, chunks[c])
    BY <1>3, ChunkByte
  <2> QED
    BY <1>3, <2>1
<1>4. ASSUME NEW p \in DOMAIN live
      PROVE  p \in Address /\ live[p] \in ObjectSize
  <2>1. p \in Nat /\ live[p] \in ObjectSize /\ p \in Bytes(p, live[p])
    BY LiveSizes DEF Bytes, IInv, SizesInv
  <2> DEFINE g == p \div PageSize
             r == p % PageSize
  <2>2. g \in Nat /\ r \in Nat /\ r < PageSize /\ p = g * PageSize + r
    BY <2>1, PageSizeFacts, DivisionFacts
  <2>3. g \in BucketPage \union LargePages
    <3>1. CASE \E m \in taken : InBucket(p, m)
      BY <1>2, <2>1, <3>1 DEF BucketPage
    <3>2. CASE \E c \in DOMAIN chunks : InChunk(p, c)
      BY <1>3, <2>1, <3>2
    <3> QED
      BY <1>1, <3>1, <3>2
  <2> HIDE DEF g, r
  <2>4. g * PageSize \in Nat
    BY <2>2, PageSizeFacts, SMT
  <2>5. p \in Bytes(g * PageSize, PageSize)
    BY <2>2, <2>4, PageSizeFacts DEF Bytes
  <2> QED
    BY <2>1, <2>3, <2>5 DEF Address
<1>5. ASSUME NEW p \in DOMAIN live, NEW q \in DOMAIN live, p # q,
             NEW x \in Bytes(p, live[p]), x \in Bytes(q, live[q])
      PROVE  FALSE
  <2>1. ASSUME NEW a \in DOMAIN live, NEW b \in DOMAIN live,
               x \in Bytes(a, live[a]), x \in Bytes(b, live[b]),
               NEW m \in taken, InBucket(a, m), NEW c \in DOMAIN chunks, InChunk(b, c)
        PROVE  FALSE
    <3>1. x \div PageSize \in BlockPages(m.block) /\ m.block \in Bases
      BY <1>2, <2>1
    <3>2. x \div PageSize \in LargePages
      BY <1>3, <2>1
    <3> QED
      BY <3>1, <3>2, PlacesAssumption
  <2>2. ASSUME NEW m \in taken, InBucket(p, m), NEW w \in taken, InBucket(q, w)
        PROVE  FALSE
    BY <1>5, <2>2, ObjectsApart
  <2>3. ASSUME NEW c \in DOMAIN chunks, InChunk(p, c), NEW d \in DOMAIN chunks, InChunk(q, d)
        PROVE  FALSE
    <3>1. c # d
      BY <1>5, <2>3
    <3>2. /\ x \div PageSize \in ChunkPages(c, chunks[c])
          /\ x \div PageSize \in ChunkPages(d, chunks[d])
      BY <1>3, <1>5, <2>3
    <3>3. ChunkPages(c, chunks[c]) \intersect ChunkPages(d, chunks[d]) = {}
      BY <2>3, <3>1 DEF IInv, ChunksInv
    <3> QED
      BY <3>2, <3>3
  <2> HIDE DEF InBucket, InChunk
  <2> QED
    BY <1>1, <1>5, <2>1, <2>2, <2>3
<1> QED
  BY <1>4, <1>5 DEF LiveSound

(* A step gives an object out, takes one back, or neither.                 *)
LiveSteps ==
  \/ \E x, s : /\ x \notin DOMAIN live
               /\ live' = With(live, x, s) /\ out' = out + 1
  \/ \E x \in DOMAIN live : live' = Without(live, x) /\ out' = out - 1
  \/ live' = live /\ out' = out

(* Every action does one of these.                                         *)
LEMMA StepsOfLive == IInv /\ [Next]_vars => LiveSteps
<1> SUFFICES ASSUME IInv, [Next]_vars PROVE LiveSteps
  OBVIOUS
<1>1. CASE UNCHANGED vars
  BY <1>1 DEF vars, LiveSteps
<1>2. ASSUME NEW x, NEW s, Hold(x, s), x \notin DOMAIN live
      PROVE  LiveSteps
  BY <1>2 DEF Hold, LiveSteps
<1>3. ASSUME NEW x \in DOMAIN live, GiveUp(x)
      PROVE  LiveSteps
  BY <1>3 DEF GiveUp, LiveSteps
<1>4. ASSUME NEW idx \in Idx, allocate(idx)
      PROVE  LiveSteps
  <2>1. Hold(buckets[idx], BucketSize[idx]) /\ buckets[idx] # null
    BY <1>4 DEF allocate
  <2>2. buckets[idx] \notin DOMAIN live
    BY <2>1, TakeFirst DEF IInv
  <2> QED
    BY <1>2, <2>1, <2>2
<1>5. ASSUME NEW idx \in Idx, allocateInCaseNoFreeBucket(idx)
      PROVE  LiveSteps
  <2>1. PICK m \in Multipages(idx) \ taken :
          LET heap == Formatted(idx, m)
          IN  IF heap.first = null THEN live' = live /\ out' = out
              ELSE Hold(heap.first, BucketSize[idx])
    BY <1>5 DEF allocateInCaseNoFreeBucket
  <2> DEFINE heap == Formatted(idx, m)
             f == heap.first
             bk == [buckets EXCEPT ![idx] = f]
             tk == taken \union {m}
  <2>2. /\ f # null /\ FreeListsInv(bk, heap.next, tk) /\ PartedInv(heap.next, live, tk)
    BY <1>5, RefillKeeps DEF IInv, allocateInCaseNoFreeBucket
  <2>3. bk[idx] = f
    BY DEF IInv, FreeListsInv, FreeInv, HeadsInv
  <2> DEFINE nx == heap.next
  <2> HIDE DEF bk, tk, nx
  <2>4. bk[idx] \notin DOMAIN live
    <3>1. FreeListsInv(bk, nx, tk) /\ PartedInv(nx, live, tk) /\ bk[idx] # null
      BY <2>2, <2>3 DEF nx
    <3> QED
      BY <3>1, TakeFirst
  <2> QED
    BY <1>2, <2>1, <2>2, <2>3, <2>4
<1>6. ASSUME NEW n \in 1 .. MaxLargePages, allocateInCaseTooLargeForBucket(n)
      PROVE  LiveSteps
  <2>1. PICK p \in LargePages :
         /\ ChunkPages(p, n) \subseteq LargePages
         /\ \A q \in DOMAIN chunks :
              ChunkPages(p, n) \intersect ChunkPages(q, chunks[q]) = {}
         /\ Hold(p * PageSize + memForbidden, n * PageSize - memForbidden)
    BY <1>6 DEF allocateInCaseTooLargeForBucket
  <2> DEFINE x == p * PageSize + memForbidden
  <2>2. p \in Nat
    BY PlacesAssumption
  <2>3. x % PageSize = memForbidden /\ x \div PageSize = p
    BY <2>2, ChunkObject
  <2>4. p \notin DOMAIN chunks
    <3> SUFFICES ASSUME p \in DOMAIN chunks PROVE FALSE
      OBVIOUS
    <3>1. chunks[p] \in 1 .. MaxLargePages
      BY DEF IInv, ChunksInv
    <3>2. p \in ChunkPages(p, n) /\ p \in ChunkPages(p, chunks[p])
      BY <2>2, <3>1, PageSizeAssumption DEF ChunkPages
    <3> QED
      BY <2>1, <3>2
  <2>5. x \notin DOMAIN live
    BY <2>3, <2>4 DEF IInv, SizesInv
  <2> QED
    BY <1>2, <2>1, <2>5
<1>7. ASSUME NEW ptr \in DOMAIN live, deallocateToBucket(ptr)
      PROVE  LiveSteps
  BY <1>3, <1>7 DEF deallocateToBucket
<1>8. ASSUME NEW ptr \in DOMAIN live, deallocateChunk(ptr)
      PROVE  LiveSteps
  BY <1>3, <1>8 DEF deallocateChunk, LiveSteps
<1> QED
  BY <1>1, <1>4, <1>5, <1>6, <1>7, <1>8 DEF Next

(* Callers see a heap of objects that never overlap and never change size, *)
(* whether they come from buckets or from chunks.                          *)
THEOREM ImplementsObjectHeap == Spec => IsObjectHeap
<1>1. Init => AsHeap!HeapInit
  BY DEF Init, Empty, AsHeap!HeapInit
<1>2. ASSUME LiveSound, LiveSound', LiveSteps
      PROVE  [AsHeap!HeapNext]_<<live, out>>
  <2>1. ASSUME NEW x, NEW s, x \notin DOMAIN live,
               live' = With(live, x, s), out' = out + 1
        PROVE  AsHeap!HeapNext
    <3>1. /\ DOMAIN live' = DOMAIN live \union {x} /\ live'[x] = s
          /\ \A p \in DOMAIN live : live'[p] = live[p]
      BY <2>1 DEF With
    <3>2. x \in Address /\ s \in ObjectSize
      BY <1>2, <3>1 DEF LiveSound
    <3>3. \A p \in DOMAIN live : Bytes(p, live[p]) \intersect Bytes(x, s) = {}
      BY <1>2, <2>1, <3>1 DEF LiveSound
    <3>4. \A p \in DOMAIN live :
            AsHeap!Extent(p, live[p]) \intersect AsHeap!Extent(x, s) = {}
      BY <3>3 DEF AsHeap!Extent, Bytes
    <3>5. live' = [p \in DOMAIN live \union {x} |-> IF p = x THEN s ELSE live[p]]
      BY <2>1 DEF With
    <3>6. AsHeap!Grant(x)
      BY <2>1, <3>1, <3>2, <3>4, <3>5 DEF AsHeap!Grant
    <3> QED
      BY <3>2, <3>6 DEF AsHeap!HeapNext
  <2>2. ASSUME NEW x \in DOMAIN live, live' = Without(live, x), out' = out - 1
        PROVE  AsHeap!HeapNext
    <3>1. AsHeap!GiveBack(x) /\ x \in Address
      BY <1>2, <2>2 DEF AsHeap!GiveBack, Without, LiveSound
    <3> QED
      BY <3>1 DEF AsHeap!HeapNext
  <2> QED
    BY <1>2, <2>1, <2>2 DEF LiveSteps
<1> QED
  BY <1>1, <1>2, Invariance, LiveIsSound, StepsOfLive, PTL
     DEF Spec, IsObjectHeap, AsHeap!HeapSpec
=============================================================================
