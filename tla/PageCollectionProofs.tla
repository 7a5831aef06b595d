------------------------ MODULE PageCollectionProofs ------------------------
(***************************************************************************)
(* PageCollection: items are sound and pages go back, for items of any     *)
(* size and any places.                                                    *)
(***************************************************************************)
EXTENDS PageCollection, FiniteSetTheorems, TLAPS

(* The collection has whole pages, as many as it counts. *)
WholePages ==
  /\ \A a \in DOMAIN next : /\ PageOf(a) \in Places
                            /\ a \in ItemsOf(PageOf(a))
                            /\ ItemsOf(PageOf(a)) \subseteq DOMAIN next
  /\ pageCnt = Cardinality(Pages)

CreatedOnce ==
  \A j, k \in 1 .. Len(created) : created[j] = created[k] => j = k

CreatedInPages == \A k \in 1 .. Len(created) : created[k] \in DOMAIN next

(* The k-th item of the list from head, or null after its end. *)
At(k) == IF k \in 1 .. Len(created) THEN created[k] ELSE null

LinkedFrom(k) == \A j \in k .. Len(created) : next[created[j]] = At(j + 1)

LastOfPage(a) == PageOf(a) * ItemsPerPage + ItemsPerPage - 1
Unused == IF freeList = null THEN {} ELSE freeList .. LastOfPage(freeList)

(* The free items are the end of a page, but not all of it, as a new page  *)
(* is begun at once: no page starts with a free item.                      *)
FreeIsEnd ==
  /\ freeList # null => freeList \in DOMAIN next /\ ~PageStart(freeList)
  /\ DOMAIN next \ CreatedItems = Unused
  /\ \A a \in Unused : next[a] = IF a = LastOfPage(freeList) THEN null ELSE a + 1

(* x is the last page start of the first k - 1 items, or null. *)
IsStartBefore(k, x) ==
  \/ x = null /\ \A m \in 1 .. k - 1 : ~PageStart(created[m])
  \/ \E m \in 1 .. k - 1 :
       /\ x = created[m] /\ PageStart(created[m])
       /\ \A n \in m + 1 .. k - 1 : ~PageStart(created[n])

(* The list of page starts has those of the first k - 1 items, the last    *)
(* first.                                                                  *)
CollectedTo(k) ==
  /\ IsStartBefore(k, pageStartHead)
  /\ \A j \in 1 .. k - 1 :
       PageStart(created[j]) => IsStartBefore(j, next[created[j]])

(* Only pages that start with one of the first k - 1 items are left. *)
LeftTo(k) ==
  /\ \A j \in 1 .. k - 1 : PageStart(created[j]) => created[j] \in DOMAIN next
  /\ \A a \in DOMAIN next : \E j \in 1 .. k - 1 :
       PageStart(created[j]) /\ PageOf(created[j]) = PageOf(a)

Position == 1 .. Len(created) + 1

PhaseInv ==
  /\ pc # "release" => CreatedInPages /\ FreeIsEnd
  /\ pc \in {"idle", "each"} =>
       head = At(1) /\ LinkedFrom(1) /\ pageStartHead = null
  /\ pc \in {"idle", "release"} => curr = null
  /\ pc = "each" => \E k \in Position : curr = At(k)
  /\ pc = "collectUsed" => \E k \in Position : /\ curr = At(k) /\ LinkedFrom(k)
                                               /\ CollectedTo(k)
  /\ pc = "collectFree" => /\ CollectedTo(Len(created) + 1)
                           /\ curr \in Unused \union {null}
  /\ pc = "release" => \E k \in Position : CollectedTo(k) /\ LeftTo(k)

IInv == TypeOK /\ WholePages /\ CreatedOnce /\ PhaseInv

(* Items and their pages.                                                  *)
LEMMA PageFacts ==
  ASSUME NEW p \in Nat \ {0}
  PROVE  /\ p * ItemsPerPage \in Nat \ {0}
         /\ p * ItemsPerPage \in ItemsOf(p)
         /\ \A a \in ItemsOf(p) :
              /\ a \in Nat \ {0}
              /\ PageOf(a) = p
              /\ PageStart(a) <=> a = p * ItemsPerPage
<1> USE ItemsPerPageAssumption
<1> DEFINE r == ItemsPerPage
           f == p * r
<1>1. r \in Nat /\ r > 0
  OBVIOUS
<1>2. f \in Nat /\ f >= r
  BY <1>1, SMT
<1>3. ASSUME NEW a \in ItemsOf(p)
      PROVE  /\ a \in Nat \ {0} /\ PageOf(a) = p
             /\ PageStart(a) <=> a = f
  <2>1. a \in Int /\ f <= a /\ a < f + r
    BY <1>1, <1>2, <1>3 DEF ItemsOf
  <2>2. a = r * (a \div r) + (a % r) /\ 0 <= a % r /\ a % r < r
        /\ a \div r \in Int /\ a % r \in Int
    BY <1>1, <2>1, SMT
  <2>3. a \div r = p
    BY <1>1, <2>1, <2>2, SMT
  <2>4. a = f + (a % r)
    BY <1>1, <2>2, <2>3, SMT
  <2> QED
    BY <1>2, <1>1, <2>1, <2>2, <2>3, <2>4 DEF PageOf, PageStart
<1> QED
  BY <1>1, <1>2, <1>3 DEF ItemsOf

(* What a sequence with one more item in front has where.                  *)
LEMMA Pushed ==
  ASSUME NEW S, NEW s \in Seq(S), NEW x \in S, NEW t, t = <<x>> \o s
  PROVE  /\ t \in Seq(S)
         /\ Len(t) = Len(s) + 1
         /\ t[1] = x
         /\ \A k \in 1 .. Len(s) : t[k + 1] = s[k]
         /\ \A k \in 2 .. Len(t) : t[k] = s[k - 1]
BY SMT

(* The items of the pages there are, whatever the loops do.                *)
LEMMA ItemFacts ==
  ASSUME IInv
  PROVE  /\ null \notin DOMAIN next
         /\ \A a \in DOMAIN next :
              /\ a \in Nat \ {0} /\ a \in Item
              /\ PageOf(a) \in Pages /\ PageOf(a) \in Nat \ {0}
              /\ PageStart(a) <=> a = PageOf(a) * ItemsPerPage
              /\ a \in PageOf(a) * ItemsPerPage .. LastOfPage(a)
              /\ PageOf(a) * ItemsPerPage \in DOMAIN next
              /\ PageStart(PageOf(a) * ItemsPerPage)
              /\ PageOf(PageOf(a) * ItemsPerPage) = PageOf(a)
<1> USE PlacesAssumption
<1>1. ASSUME NEW a \in DOMAIN next
      PROVE  /\ PageOf(a) \in Nat \ {0} /\ a \in ItemsOf(PageOf(a))
             /\ ItemsOf(PageOf(a)) \subseteq DOMAIN next
  BY DEF IInv, WholePages
<1>2. ASSUME NEW a \in DOMAIN next
      PROVE  /\ a \in Nat \ {0} /\ a \in Item
             /\ PageOf(a) \in Pages /\ PageOf(a) \in Nat \ {0}
             /\ PageStart(a) <=> a = PageOf(a) * ItemsPerPage
             /\ a \in PageOf(a) * ItemsPerPage .. LastOfPage(a)
             /\ PageOf(a) * ItemsPerPage \in DOMAIN next
             /\ PageStart(PageOf(a) * ItemsPerPage)
             /\ PageOf(PageOf(a) * ItemsPerPage) = PageOf(a)
  <2> DEFINE q == PageOf(a)
  <2>1. q \in Nat \ {0} /\ a \in ItemsOf(q) /\ ItemsOf(q) \subseteq DOMAIN next
    BY <1>1
  <2>2. a \in q * ItemsPerPage .. LastOfPage(a)
    BY <2>1 DEF ItemsOf, LastOfPage
  <2>3. a \in Item /\ q \in Pages
    BY DEF IInv, TypeOK, Pages
  <2> HIDE DEF q
  <2>4. /\ q * ItemsPerPage \in ItemsOf(q)
        /\ \A b \in ItemsOf(q) :
             /\ b \in Nat \ {0}
             /\ PageOf(b) = q
             /\ PageStart(b) <=> b = q * ItemsPerPage
    BY <2>1, PageFacts
  <2>5. /\ a \in Nat \ {0}
        /\ PageStart(a) <=> a = q * ItemsPerPage
        /\ q * ItemsPerPage \in DOMAIN next
        /\ PageStart(q * ItemsPerPage) /\ PageOf(q * ItemsPerPage) = q
    BY <2>1, <2>4
  <2> QED
    BY <2>1, <2>2, <2>3, <2>5 DEF q
<1> QED
  BY <1>2 DEF null

(* The loops only stand on items of pages there are.                       *)
LEMMA LocalsInPages ==
  ASSUME IInv
  PROVE  {curr, pageStartHead} \subseteq DOMAIN next \union {null}
<1> USE DEF IInv, PhaseInv
<1>1. pc \in {"idle", "each", "collectUsed", "collectFree", "release"}
  BY DEF TypeOK
<1>2. CASE pc \in {"idle", "each"}
  BY <1>2 DEF At, CreatedInPages
<1>3. CASE pc = "collectUsed"
  BY <1>3 DEF At, CreatedInPages, Position, CollectedTo, IsStartBefore, TypeOK
<1>4. CASE pc = "collectFree"
  BY <1>4 DEF CreatedInPages, CollectedTo, IsStartBefore, FreeIsEnd, TypeOK
<1>5. CASE pc = "release"
  BY <1>5 DEF Position, CollectedTo, IsStartBefore, LeftTo
<1> QED
  BY <1>1, <1>2, <1>3, <1>4, <1>5

(* The first of the free items, the end of a page, becomes the newest item *)
(* of a chain: both forms of createNew, with the links of the pages that   *)
(* there are then.                                                         *)
LEMMA TakeFreeStep ==
  ASSUME NEW links, NEW item \in Nat \ {0},
         created \in Seq(Item), CreatedOnce, head = At(1),
         DOMAIN links \subseteq Item,
         \A k \in 1 .. Len(created) :
           created[k] \in DOMAIN links /\ links[created[k]] = At(k + 1),
         LastOfPage(item) \in Nat, item <= LastOfPage(item),
         DOMAIN links \ CreatedItems = item .. LastOfPage(item),
         \A a \in item .. LastOfPage(item) :
           /\ PageOf(a) = PageOf(item)
           /\ a # item => ~PageStart(a)
           /\ links[a] = IF a = LastOfPage(item) THEN null ELSE a + 1,
         TakeFree(links, item)
  PROVE  /\ created' \in Seq(Item)
         /\ DOMAIN next' = DOMAIN links
         /\ CreatedOnce' /\ CreatedInPages' /\ FreeIsEnd'
         /\ head' = At(1)' /\ LinkedFrom(1)'
<1> DEFINE n == Len(created)
<1>1. /\ freeList' = links[item] /\ head' = item
      /\ next' = [links EXCEPT ![item] = head] /\ created' = <<item>> \o created
  BY DEF TakeFree
<1>2. item \in DOMAIN links \ CreatedItems /\ item \in Item
  OBVIOUS
<1>3. /\ created' \in Seq(Item) /\ Len(created') = n + 1 /\ n \in Nat
      /\ created'[1] = item
      /\ \A k \in 1 .. n : created'[k + 1] = created[k]
      /\ \A k \in 2 .. n + 1 : created'[k] = created[k - 1]
  BY <1>1, <1>2, Pushed
<1>4. /\ DOMAIN next' = DOMAIN links
      /\ next'[item] = head
      /\ \A a \in DOMAIN links : a # item => next'[a] = links[a]
  BY <1>1, <1>2
<1>5. \A k \in 1 .. n : created[k] \in CreatedItems /\ created[k] # item
  BY <1>2 DEF CreatedItems
<1>6. CreatedItems' = CreatedItems \union {item}
  <2>1. \A k \in 1 .. n + 1 : created'[k] \in CreatedItems \union {item}
    <3> SUFFICES ASSUME NEW k \in 1 .. n + 1
                 PROVE  created'[k] \in CreatedItems \union {item}
      OBVIOUS
    <3>1. CASE k = 1
      BY <1>3, <3>1
    <3>2. CASE k # 1
      <4>1. k - 1 \in 1 .. n /\ created'[k] = created[k - 1]
        BY <1>3, <3>2
      <4> QED
        BY <1>5, <4>1
    <3> QED
      BY <3>1, <3>2
  <2>2. item \in CreatedItems'
    BY <1>3 DEF CreatedItems
  <2>3. ASSUME NEW a \in CreatedItems PROVE a \in CreatedItems'
    <3>1. PICK k \in 1 .. n : a = created[k]
      BY DEF CreatedItems
    <3>2. k + 1 \in 1 .. Len(created') /\ created'[k + 1] = a
      BY <1>3, <3>1
    <3> QED
      BY <3>2 DEF CreatedItems
  <2>4. CreatedItems' \subseteq CreatedItems \union {item}
    BY <2>1, <1>3 DEF CreatedItems
  <2> QED
    BY <2>2, <2>3, <2>4
<1>7. \A k \in 2 .. n + 1 :
        /\ k - 1 \in 1 .. n
        /\ created'[k] = created[k - 1]
        /\ created[k - 1] \in DOMAIN links /\ created[k - 1] # item
  BY <1>3, <1>5
<1>8. CreatedOnce'
  <2> SUFFICES ASSUME NEW j \in 1 .. n + 1, NEW k \in 1 .. n + 1, created'[j] = created'[k]
               PROVE  j = k
    BY <1>3 DEF CreatedOnce
  <2>0. \A i \in 1 .. n + 1 : i = 1 \/ i \in 2 .. n + 1
    BY <1>3
  <2>1. CASE j = 1
    BY <1>3, <1>7, <2>0, <2>1
  <2>2. CASE k = 1
    BY <1>3, <1>7, <2>0, <2>2
  <2>3. CASE j # 1 /\ k # 1
    <3>1. j \in 2 .. n + 1 /\ k \in 2 .. n + 1
      BY <1>3, <2>3
    <3>2. created[j - 1] = created[k - 1] /\ j - 1 \in 1 .. n /\ k - 1 \in 1 .. n
      BY <1>7, <3>1
    <3>3. j - 1 = k - 1
      BY <3>2 DEF CreatedOnce
    <3> QED
      BY <1>3, <3>3
  <2> QED
    BY <2>1, <2>2, <2>3
<1>12. CreatedInPages'
  <2> SUFFICES ASSUME NEW k \in 1 .. n + 1 PROVE created'[k] \in DOMAIN next'
    BY <1>3 DEF CreatedInPages
  <2>1. CASE k = 1
    BY <1>2, <1>3, <1>4, <2>1
  <2>2. CASE k # 1
    <3>1. k \in 2 .. n + 1
      BY <1>3, <2>2
    <3> QED
      BY <1>4, <1>7, <3>1
  <2> QED
    BY <2>1, <2>2
<1>9. head' = At(1)'
  BY <1>1, <1>3 DEF At
<1>10. LinkedFrom(1)'
  <2> SUFFICES ASSUME NEW j \in 1 .. n + 1
               PROVE  next'[created'[j]] = At(j + 1)'
    BY <1>3 DEF LinkedFrom
  <2>1. CASE j = 1
    <3>1. At(2)' = At(1)
      BY <1>3 DEF At
    <3> QED
      BY <1>3, <1>4, <2>1, <3>1
  <2>2. CASE j # 1
    <3>1. created'[j] = created[j - 1] /\ j - 1 \in 1 .. n
      BY <1>3, <2>2
    <3>2. next'[created'[j]] = At(j)
      BY <1>4, <1>5, <3>1
    <3>3. At(j + 1)' = At(j)
      BY <1>3, <2>2 DEF At
    <3> QED
      BY <3>2, <3>3
  <2> QED
    BY <2>1, <2>2
<1>11. FreeIsEnd'
  <2>1. CASE item = LastOfPage(item)
    <3>1. freeList' = null
      BY <1>1, <2>1
    <3>2. Unused' = {} /\ DOMAIN links \ CreatedItems' = {}
      BY <1>6, <2>1, <3>1 DEF Unused
    <3> QED
      BY <1>4, <3>1, <3>2 DEF FreeIsEnd
  <2>2. CASE item # LastOfPage(item)
    <3>1. freeList' = item + 1 /\ freeList' # null
      BY <1>1, <2>2 DEF null
    <3>2. item + 1 \in item .. LastOfPage(item)
      BY <2>2
    <3>3. LastOfPage(freeList') = LastOfPage(item)
      BY <3>1, <3>2 DEF LastOfPage
    <3>4. Unused' = (item .. LastOfPage(item)) \ {item}
      BY <3>1, <3>3 DEF Unused, LastOfPage
    <3>5. DOMAIN next' \ CreatedItems' = Unused'
      BY <1>4, <1>6, <3>4
    <3>6. freeList' \in DOMAIN next' /\ ~PageStart(freeList')
      BY <1>4, <3>1, <3>2
    <3>7. ASSUME NEW a \in Unused'
          PROVE  next'[a] = IF a = LastOfPage(freeList') THEN null ELSE a + 1
      BY <1>4, <3>3, <3>4, <3>7
    <3> QED
      BY <3>5, <3>6, <3>7 DEF FreeIsEnd, LastOfPage, PageStart
  <2> QED
    BY <2>1, <2>2
<1> QED
  BY <1>3, <1>4, <1>8, <1>9, <1>10, <1>11, <1>12

LEMMA PagesFinite ==
  ASSUME IInv
  PROVE  Pages \subseteq Places /\ IsFiniteSet(Pages)
<1>1. Pages \subseteq Places
  BY DEF IInv, WholePages, Pages
<1> QED
  BY <1>1, FS_Subset, PlacesAssumption

LEMMA CreateNewStep ==
  ASSUME IInv, createNew
  PROVE  IInv'
<1> DEFINE item == freeList
<1>1. /\ pc = "idle" /\ item # null /\ TakeFree(next, item)
      /\ pageCnt' = pageCnt
  BY DEF createNew
<1>2. /\ TypeOK /\ WholePages /\ CreatedOnce /\ CreatedInPages /\ FreeIsEnd
      /\ head = At(1) /\ LinkedFrom(1) /\ pageStartHead = null /\ curr = null
  BY <1>1 DEF IInv, PhaseInv
<1>3. item \in DOMAIN next /\ ~PageStart(item) /\ Unused = item .. LastOfPage(item)
  BY <1>1, <1>2 DEF FreeIsEnd, Unused
<1> DEFINE q == PageOf(item)
           f == q * ItemsPerPage
<1>4. /\ item \in Nat \ {0} /\ q \in Nat \ {0} /\ item \in Item
      /\ item # f /\ item \in f .. LastOfPage(item)
  BY <1>3, ItemFacts
<1>5. /\ f \in Nat /\ LastOfPage(item) \in Nat /\ ItemsOf(q) = f .. LastOfPage(item)
  <2>1. f \in Nat
    BY <1>4, PageFacts
  <2>2. LastOfPage(item) = f + ItemsPerPage - 1
    BY DEF LastOfPage
  <2>3. ItemsOf(q) = f .. f + ItemsPerPage - 1
    BY DEF ItemsOf
  <2> QED
    BY <2>1, <2>2, <2>3, ItemsPerPageAssumption
<1>6. ASSUME NEW a \in item .. LastOfPage(item)
      PROVE  PageOf(a) = q /\ ~PageStart(a)
  <2>1. a \in ItemsOf(q) /\ a # f
    BY <1>4, <1>5, <1>6
  <2> QED
    BY <1>4, <2>1, PageFacts
<1>7. DOMAIN next \subseteq Item
  BY <1>2 DEF TypeOK
<1>8. /\ created' \in Seq(Item)
      /\ DOMAIN next' = DOMAIN next
      /\ CreatedOnce' /\ CreatedInPages' /\ FreeIsEnd'
      /\ head' = At(1)' /\ LinkedFrom(1)'
  <2> HIDE DEF q, f
  <2> DEFINE it == item
  <2>1. it \in Nat \ {0} /\ it <= LastOfPage(it) /\ LastOfPage(it) \in Nat
    BY <1>4, <1>5
  <2>2. DOMAIN next \ CreatedItems = it .. LastOfPage(it)
    BY <1>2, <1>3 DEF FreeIsEnd
  <2>3. \A a \in it .. LastOfPage(it) :
          /\ PageOf(a) = PageOf(it)
          /\ a # it => ~PageStart(a)
          /\ next[a] = IF a = LastOfPage(it) THEN null ELSE a + 1
    BY <1>2, <1>3, <1>6 DEF FreeIsEnd, q
  <2>4. \A k \in 1 .. Len(created) :
          created[k] \in DOMAIN next /\ next[created[k]] = At(k + 1)
    BY <1>2 DEF CreatedInPages, LinkedFrom
  <2>5. TakeFree(next, it) /\ created \in Seq(Item)
    BY <1>1, <1>2 DEF TypeOK
  <2> HIDE DEF it
  <2> QED
    BY <1>2, <1>7, <2>1, <2>2, <2>3, <2>4, <2>5, TakeFreeStep
<1>9. TypeOK'
  BY <1>1, <1>2, <1>3, <1>8 DEF TypeOK, TakeFree, ItemLink
<1>10. WholePages'
  BY <1>1, <1>2, <1>8 DEF WholePages, Pages
<1>11. PhaseInv'
  BY <1>1, <1>2, <1>8 DEF PhaseInv, TakeFree
<1> QED
  BY <1>8, <1>9, <1>10, <1>11 DEF IInv

LEMMA CreateNewInNewPageStep ==
  ASSUME IInv, createNewInNewPage
  PROVE  IInv'
<1>1. /\ pc = "idle" /\ freeList = null
      /\ pageCnt' = pageCnt + 1
  BY DEF createNewInNewPage
<1>2. PICK p \in Places \ Pages : TakeFree(WithPage(p), p * ItemsPerPage)
  BY DEF createNewInNewPage
<1>3. /\ TypeOK /\ WholePages /\ CreatedOnce /\ CreatedInPages /\ FreeIsEnd
      /\ head = At(1) /\ LinkedFrom(1) /\ pageStartHead = null /\ curr = null
  BY <1>1 DEF IInv, PhaseInv
<1> DEFINE item == p * ItemsPerPage
           links == WithPage(p)
<1>4. /\ p \in Nat \ {0} /\ item \in Nat \ {0} /\ item \in ItemsOf(p)
      /\ \A a \in ItemsOf(p) :
           /\ a \in Nat \ {0}
           /\ PageOf(a) = p
           /\ PageStart(a) <=> a = item
  BY PageFacts, PlacesAssumption
<1>5. ItemsOf(p) = item .. LastOfPage(item) /\ LastOfPage(item) \in Nat
      /\ item <= LastOfPage(item)
  <2>1. PageOf(item) = p
    BY <1>4
  <2>2. LastOfPage(item) = item + ItemsPerPage - 1
    BY <2>1 DEF LastOfPage
  <2> HIDE DEF item
  <2> QED
    BY <2>2, <1>4, ItemsPerPageAssumption DEF ItemsOf, item
<1>6. /\ DOMAIN links = DOMAIN next \union ItemsOf(p)
      /\ \A a \in DOMAIN next : a \notin ItemsOf(p) /\ links[a] = next[a]
      /\ \A a \in ItemsOf(p) : links[a] = IF a = LastOfPage(item) THEN null ELSE a + 1
  <2>1. \A a \in DOMAIN next : a \notin ItemsOf(p)
    BY <1>4, <1>2 DEF Pages
  <2>2. /\ DOMAIN links = DOMAIN next \union ItemsOf(p)
        /\ \A a \in DOMAIN next : links[a] = next[a]
        /\ \A a \in ItemsOf(p) : links[a] = IF a + 1 \in ItemsOf(p) THEN a + 1 ELSE null
    BY <2>1 DEF WithPage
  <2>3. \A a \in ItemsOf(p) : a + 1 \in ItemsOf(p) <=> a # LastOfPage(item)
    <3> HIDE DEF item
    <3> QED
      BY <1>4, <1>5
  <2> QED
    BY <2>1, <2>2, <2>3
<1>7. DOMAIN next \ CreatedItems = {} /\ \A k \in 1 .. Len(created) : created[k] \in DOMAIN next
  BY <1>1, <1>3 DEF FreeIsEnd, Unused, CreatedInPages
<1>8. /\ created' \in Seq(Item)
      /\ DOMAIN next' = DOMAIN links
      /\ CreatedOnce' /\ CreatedInPages' /\ FreeIsEnd'
      /\ head' = At(1)' /\ LinkedFrom(1)'
  <2>1. DOMAIN links \subseteq Item
    BY <1>3, <1>6, <1>2 DEF TypeOK, Item
  <2>2. DOMAIN links \ CreatedItems = item .. LastOfPage(item)
    <3>1. ItemsOf(p) \intersect CreatedItems = {}
      BY <1>6, <1>7 DEF CreatedItems
    <3> QED
      BY <1>5, <1>6, <1>7, <3>1
  <2>3. \A a \in item .. LastOfPage(item) :
          /\ PageOf(a) = PageOf(item)
          /\ a # item => ~PageStart(a)
          /\ links[a] = IF a = LastOfPage(item) THEN null ELSE a + 1
    BY <1>4, <1>5, <1>6
  <2>4. \A k \in 1 .. Len(created) :
          created[k] \in DOMAIN links /\ links[created[k]] = At(k + 1)
    BY <1>3, <1>6, <1>7 DEF LinkedFrom
  <2>5. TakeFree(links, item) /\ created \in Seq(Item)
    BY <1>2, <1>3 DEF TypeOK
  <2> HIDE DEF item, links
  <2> QED
    BY <1>3, <1>4, <1>5, <2>1, <2>2, <2>3, <2>4, <2>5, TakeFreeStep
<1>9. TypeOK'
  <2>1. /\ item \in Item /\ ItemsOf(p) \subseteq Item
        /\ head' = item /\ freeList' = links[item]
        /\ next' = [links EXCEPT ![item] = head]
    BY <1>2, <1>4 DEF TakeFree, Item
  <2>2. \A a \in DOMAIN links : links[a] \in ItemLink
    <3> HIDE DEF item, links
    <3>1. \A a \in DOMAIN next : links[a] \in ItemLink
      BY <1>3, <1>6 DEF TypeOK
    <3>2. \A a \in ItemsOf(p) : links[a] \in ItemLink
      BY <1>4, <1>5, <1>6, <2>1 DEF ItemLink
    <3> QED
      BY <1>6, <3>1, <3>2
  <2>3. DOMAIN links \subseteq Item
    BY <1>3, <1>6, <2>1 DEF TypeOK
  <2> HIDE DEF item, links
  <2> QED
    BY <1>1, <1>2, <1>3, <1>4, <1>6, <1>8, <2>1, <2>2, <2>3 DEF TypeOK, TakeFree, ItemLink
<1>10. WholePages'
  <2>1. \A a \in DOMAIN next' :
          /\ PageOf(a) \in Places /\ a \in ItemsOf(PageOf(a))
          /\ ItemsOf(PageOf(a)) \subseteq DOMAIN next'
    BY <1>2, <1>3, <1>4, <1>6, <1>8 DEF WholePages
  <2>2. Pages' = Pages \union {p}
    <3>1. DOMAIN next' = DOMAIN next \union ItemsOf(p)
      BY <1>6, <1>8
    <3>2. {PageOf(a) : a \in ItemsOf(p)} = {p}
      BY <1>4
    <3> QED
      BY <3>1, <3>2 DEF Pages
  <2>3. Cardinality(Pages') = Cardinality(Pages) + 1
    BY <1>2, <2>2, PagesFinite, FS_AddElement
  <2> QED
    BY <1>1, <1>3, <2>1, <2>3 DEF WholePages, PageOf, ItemsOf
<1>11. PhaseInv'
  BY <1>1, <1>2, <1>3, <1>8 DEF PhaseInv, TakeFree
<1> QED
  BY <1>8, <1>9, <1>10, <1>11 DEF IInv

(* The free items are on one page, whose start they do not include, and    *)
(* each is linked to a free one or to null.                                *)
LEMMA UnusedFacts ==
  ASSUME IInv, FreeIsEnd
  PROVE  /\ freeList \in Unused \union {null}
         /\ \A a \in Unused :
              /\ a \in DOMAIN next \ CreatedItems
              /\ ~PageStart(a)
              /\ next[a] \in Unused \union {null}
<1>1. CASE freeList = null
  BY <1>1 DEF Unused
<1>2. CASE freeList # null
  <2>1. /\ freeList \in DOMAIN next /\ ~PageStart(freeList)
        /\ Unused = freeList .. LastOfPage(freeList)
    BY <1>2 DEF FreeIsEnd, Unused
  <2> DEFINE q == PageOf(freeList)
             f == q * ItemsPerPage
  <2>2. /\ freeList \in Nat \ {0} /\ q \in Nat \ {0} /\ freeList # f
        /\ freeList \in f .. LastOfPage(freeList)
    BY <2>1, ItemFacts
  <2>3. f \in Nat /\ LastOfPage(freeList) = f + ItemsPerPage - 1
    BY <2>2, PageFacts DEF LastOfPage
  <2>4. ASSUME NEW a \in Unused
        PROVE  /\ a \in DOMAIN next \ CreatedItems
               /\ ~PageStart(a)
               /\ next[a] \in Unused \union {null}
    <3>1. a \in ItemsOf(q) /\ a # f
      <4> HIDE DEF f, q
      <4> QED
        BY <2>1, <2>2, <2>3, <2>4, ItemsPerPageAssumption DEF ItemsOf, f
    <3>2. ~PageStart(a)
      BY <2>2, <3>1, PageFacts
    <3>3. next[a] \in Unused \union {null}
      <4>1. a \in freeList .. LastOfPage(freeList)
        BY <2>1, <2>4
      <4>2. next[a] = IF a = LastOfPage(freeList) THEN null ELSE a + 1
        BY DEF FreeIsEnd
      <4> HIDE DEF f, q
      <4> QED
        BY <2>1, <2>2, <2>3, <4>1, <4>2, ItemsPerPageAssumption
    <3>4. a \in DOMAIN next \ CreatedItems
      BY DEF FreeIsEnd
    <3> QED
      BY <3>2, <3>3, <3>4
  <2>5. freeList \in Unused
    <3> HIDE DEF f, q
    <3> QED
      BY <2>1, <2>2, <2>3, ItemsPerPageAssumption
  <2> QED
    BY <2>4, <2>5
<1> QED
  BY <1>1, <1>2

(* The steps of doForEach. *)
LEMMA ForEachStep ==
  ASSUME IInv, doForEach \/ showItem \/ doForEachEnds
  PROVE  IInv'
<1>1. /\ UNCHANGED <<head, freeList, next, pageCnt, pageStartHead, created>>
      /\ pc \in {"idle", "each"} /\ pc' \in {"idle", "each"}
  BY DEF doForEach, showItem, doForEachEnds
<1>2. /\ TypeOK /\ WholePages /\ CreatedOnce /\ CreatedInPages /\ FreeIsEnd
      /\ head = At(1) /\ LinkedFrom(1) /\ pageStartHead = null
  BY <1>1 DEF IInv, PhaseInv
<1>3. created \in Seq(Item) /\ Len(created) \in Nat
  BY <1>2 DEF TypeOK
<1>4. pc' = "idle" => curr' = null
  BY DEF doForEach, showItem, doForEachEnds
<1>5. pc' = "each" => \E k \in Position : curr' = At(k)
  <2>1. CASE doForEach
    <3>1. curr' = At(1) /\ 1 \in Position
      BY <1>2, <1>3, <2>1 DEF doForEach, Position
    <3> QED
      BY <3>1
  <2>2. CASE showItem
    <3>1. PICK k \in Position : curr = At(k)
      BY <2>2 DEF showItem, IInv, PhaseInv
    <3>2. k \in 1 .. Len(created) /\ curr = created[k]
      BY <2>2, <3>1 DEF showItem, At
    <3>3. curr' = At(k + 1) /\ k + 1 \in Position
      BY <1>2, <1>3, <2>2, <3>2 DEF showItem, LinkedFrom, Position
    <3> QED
      BY <3>3
  <2>3. CASE doForEachEnds
    BY <2>3 DEF doForEachEnds
  <2> QED
    BY <2>1, <2>2, <2>3
<1>6. curr' \in ItemLink
  <2>1. head \in ItemLink /\ null \in ItemLink /\ \A a \in DOMAIN next : next[a] \in ItemLink
    BY <1>2 DEF TypeOK, ItemLink
  <2>2. curr \in DOMAIN next \union {null}
    BY LocalsInPages
  <2> QED
    BY <2>1, <2>2, <1>4 DEF doForEach, showItem, doForEachEnds
<1>7. TypeOK'
  BY <1>1, <1>2, <1>6 DEF TypeOK
<1>8. PhaseInv'
  BY <1>1, <1>2, <1>4, <1>5
  DEF PhaseInv, CreatedInPages, FreeIsEnd, CreatedItems, Unused, LinkedFrom, At, Position
<1> QED
  BY <1>1, <1>2, <1>7, <1>8 DEF IInv, WholePages, Pages, CreatedOnce

LEMMA DeinitializeStep ==
  ASSUME IInv, deinitialize
  PROVE  IInv'
<1>1. /\ UNCHANGED <<head, freeList, next, pageCnt, created>>
      /\ pc = "idle" /\ pc' = "collectUsed" /\ curr' = head /\ pageStartHead' = null
  BY DEF deinitialize
<1>2. /\ TypeOK /\ WholePages /\ CreatedOnce /\ CreatedInPages /\ FreeIsEnd
      /\ head = At(1) /\ LinkedFrom(1)
  BY <1>1 DEF IInv, PhaseInv
<1>3. created \in Seq(Item) /\ Len(created) \in Nat
  BY <1>2 DEF TypeOK
<1>4. 1 \in Position /\ curr' = At(1) /\ LinkedFrom(1)' /\ At(1) = At(1)'
  BY <1>1, <1>2, <1>3 DEF Position, LinkedFrom, At
<1>5. CollectedTo(1)'
  BY <1>1 DEF CollectedTo, IsStartBefore
<1>6. CreatedInPages' /\ FreeIsEnd' /\ Position' = Position
  BY <1>1, <1>2 DEF CreatedInPages, FreeIsEnd, CreatedItems, Unused, Position
<1>7. PhaseInv'
  BY <1>1, <1>4, <1>5, <1>6 DEF PhaseInv
<1>8. TypeOK'
  BY <1>1, <1>2 DEF TypeOK, ItemLink
<1> QED
  BY <1>1, <1>2, <1>7, <1>8 DEF IInv, WholePages, Pages, CreatedOnce

(* One more page start in the list. *)
LEMMA StartBeforeNext ==
  ASSUME NEW k \in Nat \ {0}, NEW x
  PROVE  /\ PageStart(created[k]) => IsStartBefore(k + 1, created[k])
         /\ ~PageStart(created[k]) /\ IsStartBefore(k, x) => IsStartBefore(k + 1, x)
<1>1. k \in 1 .. (k + 1) - 1 /\ (k + 1) .. (k + 1) - 1 = {}
  OBVIOUS
<1>2. \A n \in 1 .. (k + 1) - 1 : n = k \/ n \in 1 .. k - 1
  OBVIOUS
<1>3. \A m \in 1 .. k - 1 : m \in 1 .. (k + 1) - 1
  OBVIOUS
<1>4. \A m \in 1 .. k - 1 : \A n \in m + 1 .. (k + 1) - 1 : n = k \/ n \in m + 1 .. k - 1
  OBVIOUS
<1>5. PageStart(created[k]) => IsStartBefore(k + 1, created[k])
  BY <1>1 DEF IsStartBefore
<1>6. ~PageStart(created[k]) /\ IsStartBefore(k, x) => IsStartBefore(k + 1, x)
  BY <1>2, <1>3, <1>4 DEF IsStartBefore
<1> QED
  BY <1>5, <1>6

LEMMA CollectPageStartStep ==
  ASSUME IInv, collectPageStart
  PROVE  IInv'
<1>1. /\ UNCHANGED <<head, freeList, pageCnt, pc, created>>
      /\ pc \in {"collectUsed", "collectFree"} /\ curr # null /\ PageStart(curr)
      /\ curr' = next[curr] /\ pageStartHead' = curr
      /\ next' = [next EXCEPT ![curr] = pageStartHead]
  BY DEF collectPageStart, Collecting
<1>2. TypeOK /\ WholePages /\ CreatedOnce /\ CreatedInPages /\ FreeIsEnd
  BY <1>1 DEF IInv, PhaseInv
<1>3. created \in Seq(Item) /\ Len(created) \in Nat
  BY <1>2 DEF TypeOK
<1>4. pc = "collectUsed"
  <2>1. pc = "collectFree" => curr \in Unused
    BY <1>1 DEF IInv, PhaseInv
  <2> QED
    BY <1>1, <1>2, <2>1, UnusedFacts
<1>5. PICK k \in Position : curr = At(k) /\ LinkedFrom(k) /\ CollectedTo(k)
  BY <1>4 DEF IInv, PhaseInv
<1>6. k \in 1 .. Len(created) /\ curr = created[k] /\ curr \in DOMAIN next
  BY <1>1, <1>2, <1>5 DEF At, CreatedInPages
<1>7. /\ DOMAIN next' = DOMAIN next
      /\ next'[curr] = pageStartHead
      /\ \A a \in DOMAIN next : a # curr => next'[a] = next[a]
  BY <1>1, <1>6
<1>8. \A j \in 1 .. Len(created) : j # k =>
        created[j] \in DOMAIN next /\ created[j] # curr
  BY <1>2, <1>6 DEF CreatedOnce, CreatedInPages
<1>9. k + 1 \in Position /\ curr' = At(k + 1)
  BY <1>1, <1>3, <1>5, <1>6 DEF Position, LinkedFrom
<1>10. LinkedFrom(k + 1)'
  <2> SUFFICES ASSUME NEW j \in k + 1 .. Len(created)
               PROVE  next'[created[j]] = At(j + 1)
    BY <1>1 DEF LinkedFrom, At
  <2>1. j \in 1 .. Len(created) /\ j # k /\ j \in k .. Len(created)
    BY <1>3, <1>6
  <2> QED
    BY <1>5, <1>7, <1>8, <2>1 DEF LinkedFrom
<1>11. CollectedTo(k + 1)'
  <2>1. IsStartBefore(k + 1, curr)
    BY <1>1, <1>6, StartBeforeNext
  <2>2. ASSUME NEW j \in 1 .. (k + 1) - 1, PageStart(created[j])
        PROVE  IsStartBefore(j, next'[created[j]])
    <3>1. CASE j = k
      BY <1>5, <1>6, <1>7, <3>1 DEF CollectedTo
    <3>2. CASE j # k
      <4>1. j \in 1 .. k - 1 /\ j \in 1 .. Len(created)
        BY <1>3, <1>6, <3>2
      <4>2. next'[created[j]] = next[created[j]]
        BY <1>7, <1>8, <3>2, <4>1
      <4> QED
        BY <1>5, <2>2, <4>1, <4>2 DEF CollectedTo
    <3> QED
      BY <3>1, <3>2
  <2> QED
    BY <1>1, <2>1, <2>2 DEF CollectedTo, IsStartBefore
<1>12. CreatedInPages' /\ FreeIsEnd' /\ Position' = Position /\ At(k + 1)' = At(k + 1)
  <2>1. \A a \in Unused : a \in DOMAIN next /\ a # curr
    BY <1>2, <1>6, UnusedFacts DEF CreatedItems
  <2> QED
    BY <1>1, <1>2, <1>7, <2>1 DEF CreatedInPages, FreeIsEnd, CreatedItems, Unused, Position, At
<1>13. PhaseInv'
  BY <1>1, <1>4, <1>9, <1>10, <1>11, <1>12 DEF PhaseInv
<1>14. TypeOK'
  <2>1. pageStartHead \in ItemLink /\ \A a \in DOMAIN next : next[a] \in ItemLink
    BY <1>2 DEF TypeOK
  <2> QED
    BY <1>1, <1>2, <1>6, <1>7, <2>1 DEF TypeOK
<1> QED
  BY <1>1, <1>2, <1>7, <1>13, <1>14 DEF IInv, WholePages, Pages, CreatedOnce

LEMMA SkipItemStep ==
  ASSUME IInv, skipItem
  PROVE  IInv'
<1>1. /\ UNCHANGED <<head, freeList, next, pageCnt, pc, pageStartHead, created>>
      /\ pc \in {"collectUsed", "collectFree"} /\ curr # null /\ ~PageStart(curr)
      /\ curr' = next[curr]
  BY DEF skipItem, Collecting
<1>2. TypeOK /\ WholePages /\ CreatedOnce /\ CreatedInPages /\ FreeIsEnd
  BY <1>1 DEF IInv, PhaseInv
<1>3. created \in Seq(Item) /\ Len(created) \in Nat
  BY <1>2 DEF TypeOK
<1>4. pc = "collectUsed" =>
        \E k \in Position : curr' = At(k) /\ LinkedFrom(k) /\ CollectedTo(k)
  <2> SUFFICES ASSUME pc = "collectUsed"
               PROVE  \E k \in Position : curr' = At(k) /\ LinkedFrom(k) /\ CollectedTo(k)
    OBVIOUS
  <2>1. PICK k \in Position : curr = At(k) /\ LinkedFrom(k) /\ CollectedTo(k)
    BY DEF IInv, PhaseInv
  <2>2. k \in 1 .. Len(created) /\ curr = created[k]
    BY <1>1, <2>1 DEF At
  <2>3. k + 1 \in Position /\ curr' = At(k + 1) /\ LinkedFrom(k + 1)
    BY <1>1, <1>3, <2>1, <2>2 DEF Position, LinkedFrom
  <2>4. CollectedTo(k + 1)
    <3>1. IsStartBefore(k + 1, pageStartHead)
      BY <1>1, <2>1, <2>2, StartBeforeNext DEF CollectedTo
    <3>2. \A j \in 1 .. (k + 1) - 1 : j = k \/ j \in 1 .. k - 1
      BY <2>2
    <3> QED
      BY <1>1, <2>1, <2>2, <3>1, <3>2 DEF CollectedTo
  <2> QED
    BY <2>3, <2>4
<1>5. pc = "collectFree" =>
        CollectedTo(Len(created) + 1) /\ curr' \in Unused \union {null}
  BY <1>1, <1>2, UnusedFacts DEF IInv, PhaseInv
<1>6. CreatedInPages' /\ FreeIsEnd' /\ Position' = Position /\ Unused' = Unused
  BY <1>1, <1>2 DEF CreatedInPages, FreeIsEnd, CreatedItems, Unused, Position
<1>7. PhaseInv'
  BY <1>1, <1>4, <1>5, <1>6 DEF PhaseInv, LinkedFrom, At, CollectedTo, IsStartBefore
<1>8. TypeOK'
  <2>1. curr \in DOMAIN next
    BY <1>1, LocalsInPages
  <2> QED
    BY <1>1, <1>2, <2>1 DEF TypeOK
<1> QED
  BY <1>1, <1>2, <1>7, <1>8 DEF IInv, WholePages, Pages, CreatedOnce

LEMMA CollectPageStartsEndsStep ==
  ASSUME IInv, collectPageStartsEnds
  PROVE  IInv'
<1>1. /\ UNCHANGED <<head, freeList, next, pageCnt, pageStartHead, created>>
      /\ pc \in {"collectUsed", "collectFree"} /\ curr = null
  BY DEF collectPageStartsEnds, Collecting
<1>2. TypeOK /\ WholePages /\ CreatedOnce /\ CreatedInPages /\ FreeIsEnd
  BY <1>1 DEF IInv, PhaseInv
<1>3. created \in Seq(Item) /\ Len(created) \in Nat
  BY <1>2 DEF TypeOK
<1>4. /\ CreatedInPages' /\ FreeIsEnd' /\ Unused' = Unused
      /\ \A k : CollectedTo(k) => CollectedTo(k)'
      /\ \A k : LeftTo(k) => LeftTo(k)'
      /\ Position' = Position /\ Len(created)' = Len(created)
  BY <1>1, <1>2 DEF CreatedInPages, FreeIsEnd, CreatedItems, Unused, CollectedTo,
     IsStartBefore, LeftTo, Position
<1>5. CASE pc = "collectUsed"
  <2>1. pc' = "collectFree" /\ curr' = freeList
    BY <1>5 DEF collectPageStartsEnds
  <2>2. PICK k \in Position : curr = At(k) /\ CollectedTo(k)
    BY <1>5 DEF IInv, PhaseInv
  <2>3. k = Len(created) + 1
    <3>1. k \notin 1 .. Len(created)
      <4> SUFFICES ASSUME k \in 1 .. Len(created)
                   PROVE  FALSE
        OBVIOUS
      <4>1. created[k] = null /\ created[k] \in DOMAIN next
        BY <1>1, <1>2, <2>2 DEF At, CreatedInPages
      <4> QED
        BY <4>1, ItemFacts
    <3> QED
      BY <1>3, <3>1 DEF Position
  <2>4. PhaseInv'
    BY <1>2, <1>4, <2>1, <2>2, <2>3, UnusedFacts DEF PhaseInv
  <2>5. TypeOK'
    BY <1>1, <1>2, <2>1 DEF TypeOK
  <2> QED
    BY <1>1, <1>2, <2>4, <2>5 DEF IInv, WholePages, Pages, CreatedOnce
<1>6. CASE pc = "collectFree"
  <2>1. pc' = "release" /\ curr' = null
    BY <1>1, <1>6 DEF collectPageStartsEnds
  <2> DEFINE k == Len(created) + 1
  <2>2. k \in Position /\ CollectedTo(k) /\ k - 1 = Len(created)
    BY <1>3, <1>6 DEF Position, IInv, PhaseInv
  <2>3. ASSUME NEW a \in DOMAIN next
        PROVE  \E j \in 1 .. k - 1 :
                 PageStart(created[j]) /\ PageOf(created[j]) = PageOf(a)
    <3> DEFINE f == PageOf(a) * ItemsPerPage
    <3>1. f \in DOMAIN next /\ PageStart(f) /\ PageOf(f) = PageOf(a)
      BY ItemFacts
    <3> HIDE DEF f
    <3>2. f \in CreatedItems
      BY <1>2, <3>1, UnusedFacts DEF FreeIsEnd
    <3>3. PICK j \in 1 .. Len(created) : f = created[j]
      BY <3>2 DEF CreatedItems
    <3> QED
      BY <2>2, <3>1, <3>3
  <2>4. LeftTo(k)
    BY <1>2, <2>2, <2>3 DEF LeftTo, CreatedInPages
  <2>5. PhaseInv'
    <3> HIDE DEF k
    <3> QED
      BY <1>4, <2>1, <2>2, <2>4 DEF PhaseInv
  <2>6. TypeOK'
    BY <1>1, <1>2, <2>1 DEF TypeOK, ItemLink
  <2> QED
    BY <1>1, <1>2, <2>5, <2>6 DEF IInv, WholePages, Pages, CreatedOnce
<1> QED
  BY <1>1, <1>5, <1>6

LEMMA FreePageStep ==
  ASSUME IInv, freePage
  PROVE  IInv'
<1> DEFINE p == PageOf(pageStartHead)
<1>1. /\ UNCHANGED <<head, freeList, pc, curr, created>>
      /\ pc = "release" /\ pageStartHead # null
      /\ pageStartHead' = next[pageStartHead] /\ pageCnt' = pageCnt - 1
      /\ next' = [a \in DOMAIN next \ ItemsOf(p) |-> next[a]]
  BY DEF freePage
<1>2. TypeOK /\ WholePages /\ CreatedOnce /\ curr = null
  BY <1>1 DEF IInv, PhaseInv
<1>3. created \in Seq(Item) /\ Len(created) \in Nat
  BY <1>2 DEF TypeOK
<1>4. PICK k \in Position : CollectedTo(k) /\ LeftTo(k)
  BY <1>1 DEF IInv, PhaseInv
<1>5. PICK m \in 1 .. k - 1 :
        /\ pageStartHead = created[m] /\ PageStart(created[m])
        /\ \A n \in m + 1 .. k - 1 : ~PageStart(created[n])
  BY <1>1, <1>4 DEF CollectedTo, IsStartBefore
<1>6. /\ m \in Position /\ k \in Nat
      /\ \A j \in 1 .. m - 1 : j \in 1 .. k - 1 /\ j \in 1 .. Len(created) /\ j # m
      /\ m \in 1 .. Len(created)
      /\ \A j \in 1 .. k - 1 : PageStart(created[j]) => j = m \/ j \in 1 .. m - 1
  <2>1. \A j \in 1 .. k - 1 : j \in m + 1 .. k - 1 \/ j = m \/ j \in 1 .. m - 1
    BY <1>3 DEF Position
  <2>2. \A j \in 1 .. k - 1 : PageStart(created[j]) => j = m \/ j \in 1 .. m - 1
    BY <1>5, <2>1
  <2> QED
    BY <1>3, <2>2 DEF Position
<1>7. pageStartHead \in DOMAIN next /\ p \in Pages /\ p \in Nat \ {0}
  BY <1>4, <1>5, ItemFacts DEF LeftTo
<1>8. /\ \A a \in DOMAIN next : a \in ItemsOf(p) <=> PageOf(a) = p
      /\ DOMAIN next' = DOMAIN next \ ItemsOf(p)
      /\ \A a \in DOMAIN next' : next'[a] = next[a]
  <2>1. \A a \in DOMAIN next : a \in ItemsOf(PageOf(a))
    BY <1>2 DEF WholePages
  <2> HIDE DEF p
  <2>2. \A a \in ItemsOf(p) : PageOf(a) = p
    BY <1>7, PageFacts
  <2>3. /\ DOMAIN next' = DOMAIN next \ ItemsOf(p)
        /\ \A a \in DOMAIN next' : next'[a] = next[a]
    BY <1>1
  <2> QED
    BY <2>1, <2>2, <2>3
<1>9. ASSUME NEW j \in 1 .. m - 1, PageStart(created[j])
      PROVE  created[j] \in DOMAIN next'
  <2>1. created[j] \in DOMAIN next /\ created[j] # created[m]
    BY <1>2, <1>4, <1>6, <1>9 DEF LeftTo, CreatedOnce
  <2>2. PageOf(created[j]) # p
    <3> SUFFICES ASSUME PageOf(created[j]) = p
                 PROVE  FALSE
      OBVIOUS
    <3>1. created[j] = PageOf(created[j]) * ItemsPerPage
      BY <1>9, <2>1, ItemFacts
    <3>2. created[m] = PageOf(created[m]) * ItemsPerPage
      BY <1>5, <1>7, ItemFacts
    <3> QED
      BY <1>5, <2>1, <3>1, <3>2
  <2> QED
    BY <1>8, <2>1, <2>2
<1>10. CollectedTo(m)'
  <2>1. IsStartBefore(m, next[created[m]])
    BY <1>4, <1>5 DEF CollectedTo
  <2>2. ASSUME NEW j \in 1 .. m - 1, PageStart(created[j])
        PROVE  IsStartBefore(j, next'[created[j]])
    BY <1>4, <1>6, <1>8, <1>9, <2>2 DEF CollectedTo
  <2> QED
    BY <1>1, <1>5, <2>1, <2>2 DEF CollectedTo, IsStartBefore
<1>11. LeftTo(m)'
  <2>1. ASSUME NEW a \in DOMAIN next'
        PROVE  \E j \in 1 .. m - 1 :
                 PageStart(created[j]) /\ PageOf(created[j]) = PageOf(a)
    <3>1. a \in DOMAIN next /\ PageOf(a) # p
      BY <1>8
    <3>2. PICK j \in 1 .. k - 1 : PageStart(created[j]) /\ PageOf(created[j]) = PageOf(a)
      BY <1>4, <3>1 DEF LeftTo
    <3>3. j # m
      BY <1>5, <3>1, <3>2
    <3> QED
      BY <1>6, <3>2, <3>3
  <2> QED
    BY <1>1, <1>9, <2>1 DEF LeftTo, PageStart, PageOf
<1>12. PhaseInv'
  <2>1. Position' = Position
    BY <1>1 DEF Position
  <2> QED
    BY <1>1, <1>2, <1>6, <1>10, <1>11, <2>1 DEF PhaseInv
<1>13. WholePages'
  <2> HIDE DEF p
  <2>1. Pages' = Pages \ {p}
    BY <1>8 DEF Pages
  <2>2. Cardinality(Pages') = Cardinality(Pages) - 1
    BY <1>7, <2>1, PagesFinite, FS_RemoveElement
  <2>3. ASSUME NEW a \in DOMAIN next'
        PROVE  ItemsOf(PageOf(a)) \subseteq DOMAIN next'
    <3>1. a \in DOMAIN next /\ PageOf(a) # p /\ ItemsOf(PageOf(a)) \subseteq DOMAIN next
      BY <1>2, <1>8 DEF WholePages
    <3>2. \A b \in ItemsOf(PageOf(a)) : PageOf(b) = PageOf(a)
      BY <3>1, ItemFacts, PageFacts
    <3> QED
      BY <1>8, <3>1, <3>2
  <2> QED
    BY <1>1, <1>2, <1>8, <2>2, <2>3 DEF WholePages, PageOf, ItemsOf
<1>14. TypeOK'
  <2>1. Cardinality(Pages) # 0 /\ Cardinality(Pages) \in Nat
    BY <1>7, PagesFinite, FS_EmptySet, FS_CardinalityType
  <2>2. pageCnt' \in Nat
    BY <1>1, <1>2, <2>1 DEF WholePages
  <2> QED
    BY <1>1, <1>2, <1>7, <1>8, <2>2 DEF TypeOK
<1> QED
  BY <1>1, <1>2, <1>12, <1>13, <1>14 DEF IInv, CreatedOnce

LEMMA DeinitializeEndsStep ==
  ASSUME IInv, deinitializeEnds
  PROVE  IInv'
<1>1. /\ UNCHANGED <<next, pageCnt, curr, pageStartHead>>
      /\ pc = "release" /\ pageStartHead = null /\ pageCnt = 0
      /\ head' = null /\ freeList' = null /\ pc' = "idle" /\ created' = << >>
  BY DEF deinitializeEnds
<1>2. TypeOK /\ WholePages /\ curr = null
  BY <1>1 DEF IInv, PhaseInv
<1>3. Pages = {} /\ DOMAIN next = {}
  <2>1. Cardinality(Pages) = 0 /\ IsFiniteSet(Pages)
    BY <1>1, <1>2, PagesFinite DEF WholePages
  <2>2. Pages = {}
    BY <2>1, FS_EmptySet
  <2> QED
    BY <2>2 DEF Pages
<1>4. /\ Len(created') = 0 /\ created' \in Seq(Item) /\ CreatedItems' = {}
      /\ At(1)' = null
  BY <1>1 DEF CreatedItems, At
<1>5. PhaseInv'
  BY <1>1, <1>2, <1>3, <1>4
  DEF PhaseInv, CreatedInPages, FreeIsEnd, Unused, LinkedFrom
<1>6. TypeOK'
  BY <1>1, <1>2, <1>4 DEF TypeOK, ItemLink
<1> QED
  BY <1>1, <1>2, <1>4, <1>5, <1>6 DEF IInv, WholePages, Pages, CreatedOnce

LEMMA InitIInv == Init => IInv
<1> SUFFICES ASSUME Init PROVE IInv
  OBVIOUS
<1>1. /\ head = null /\ freeList = null /\ DOMAIN next = {} /\ pageCnt = 0
      /\ pc = "idle" /\ curr = null /\ pageStartHead = null /\ created = << >>
  BY DEF Init
<1>2. Len(created) = 0 /\ created \in Seq(Item) /\ CreatedItems = {} /\ At(1) = null
  BY <1>1 DEF CreatedItems, At
<1>3. Pages = {} /\ Cardinality(Pages) = 0
  BY <1>1, FS_EmptySet DEF Pages
<1>4. PhaseInv
  BY <1>1, <1>2 DEF PhaseInv, CreatedInPages, FreeIsEnd, Unused, LinkedFrom
<1> QED
  BY <1>1, <1>2, <1>3, <1>4 DEF IInv, TypeOK, ItemLink, WholePages, CreatedOnce

LEMMA IInvStep == IInv /\ [Next]_vars => IInv'
<1> SUFFICES ASSUME IInv, [Next]_vars
             PROVE  IInv'
  OBVIOUS
<1>1. CASE Next
  BY <1>1, CreateNewStep, CreateNewInNewPageStep, ForEachStep, DeinitializeStep,
     CollectPageStartStep, SkipItemStep, CollectPageStartsEndsStep, FreePageStep,
     DeinitializeEndsStep DEF Next, Loop
<1>2. CASE UNCHANGED vars
  BY <1>2 DEF vars, IInv, TypeOK, WholePages, Pages, CreatedOnce, PhaseInv, CreatedInPages,
     FreeIsEnd, CreatedItems, Unused, At, LinkedFrom, CollectedTo, IsStartBefore, LeftTo,
     Position
<1> QED
  BY <1>1, <1>2

LEMMA Invariance == Spec => []IInv
BY InitIInv, IInvStep, PTL DEF Spec

(* At rest the items given out are exactly those along the list from head, *)
(* none of them twice, and the others the free ones in address order.      *)
LEMMA AtRest ==
  ASSUME IInv, pc \in {"idle", "each"}
  PROVE  UsedSound /\ UnusedSound
<1>1. /\ TypeOK /\ CreatedOnce /\ CreatedInPages /\ FreeIsEnd
      /\ head = At(1) /\ LinkedFrom(1)
  BY DEF IInv, PhaseInv
<1> DEFINE n == Len(created)
<1>2. created \in Seq(Item) /\ n \in Nat /\ DOMAIN created = 1 .. n
  BY <1>1 DEF TypeOK
<1>3. IsChain(head, created)
  <2>1. head = IF created = << >> THEN null ELSE created[1]
    BY <1>1, <1>2 DEF At
  <2>2. ASSUME NEW k \in 1 .. n
        PROVE  /\ created[k] \in DOMAIN next
               /\ next[created[k]] = IF k = n THEN null ELSE created[k + 1]
    <3>1. created[k] \in DOMAIN next /\ next[created[k]] = At(k + 1)
      BY <1>1, <1>2 DEF CreatedInPages, LinkedFrom
    <3>2. At(k + 1) = IF k = n THEN null ELSE created[k + 1]
      <4>1. n \in Nat /\ k \in 1 .. n
        BY <1>2
      <4> HIDE DEF n
      <4>2. k + 1 \in 1 .. n <=> k # n
        BY <4>1
      <4> QED
        BY <4>2 DEF At, n
    <3> QED
      BY <3>1, <3>2
  <2> QED
    BY <2>1, <2>2 DEF IsChain
<1>4. Cardinality(CreatedItems) = n
  <2>1. created \in [1 .. n -> CreatedItems]
    BY <1>2 DEF CreatedItems
  <2>2. created \in Bijection(1 .. n, CreatedItems)
    BY <1>1, <2>1 DEF Bijection, Injection, Surjection, IsInjective, CreatedOnce, CreatedItems
  <2>3. ExistsBijection(1 .. n, CreatedItems)
    BY <2>2 DEF ExistsBijection
  <2>4. IsFiniteSet(1 .. n) /\ Cardinality(1 .. n) = n
    BY <1>2, FS_Interval
  <2> QED
    BY <2>3, <2>4, FS_Bijection
<1>5. UnusedSound
  <2>1. CASE freeList = null
    <3>1. CreatedItems \subseteq DOMAIN next /\ DOMAIN next \ CreatedItems = {}
      BY <1>1, <2>1 DEF CreatedItems, CreatedInPages, FreeIsEnd, Unused
    <3> QED
      BY <2>1, <3>1 DEF UnusedSound
  <2>2. CASE freeList # null
    <3> DEFINE e == LastOfPage(freeList)
               c == Cardinality(freeList .. e)
               items == [k \in 1 .. c |-> freeList + k - 1]
    <3>1. freeList \in Nat \ {0} /\ freeList <= e /\ e \in Int
      <4>1. freeList \in DOMAIN next
        BY <1>1, <2>2 DEF FreeIsEnd
      <4>2. PageOf(freeList) \in Nat \ {0}
        BY <4>1, ItemFacts
      <4>3. e \in Int
        BY <4>2, PageFacts, ItemsPerPageAssumption DEF LastOfPage
      <4> QED
        BY <4>1, <4>3, ItemFacts
    <3>2. DOMAIN next \ CreatedItems = freeList .. e
      BY <1>1, <2>2 DEF FreeIsEnd, Unused
    <3>3. \A a \in freeList .. e : next[a] = IF a = e THEN null ELSE a + 1
      BY <1>1, <2>2 DEF FreeIsEnd, Unused
    <3> HIDE DEF e
    <3>4. c = e - freeList + 1 /\ c \in Nat /\ c > 0
      <4>1. Cardinality(freeList .. e) = IF freeList > e THEN 0 ELSE e - freeList + 1
        BY <3>1, FS_Interval
      <4> QED
        BY <3>1, <4>1
    <3> HIDE DEF c
    <3>5. items \in Seq(Int) /\ Len(items) = c /\ items # << >> /\ items[1] = freeList
      BY <3>1, <3>4
    <3>6. \A k \in 1 .. c :
            /\ items[k] \in freeList .. e
            /\ items[k] = e <=> k = c
            /\ k # c => items[k + 1] = items[k] + 1
      BY <3>1, <3>4
    <3>7. IsChain(freeList, items)
      <4> HIDE DEF items
      <4> QED
        BY <3>2, <3>3, <3>5, <3>6 DEF IsChain
    <3> QED
      BY <2>2, <3>2, <3>7 DEF UnusedSound, e, c, LastOfPage
  <2> QED
    BY <2>1, <2>2
<1> QED
  BY <1>3, <1>4, <1>5 DEF UsedSound

(* createNew gives no item twice, and items in use and items not in use    *)
(* are in two chains that together have all items of all pages.            *)
THEOREM ItemsAreSound == Spec => []ItemsSound
<1>1. IInv => ItemsSound
  BY AtRest DEF IInv, ItemsSound
<1> QED
  BY <1>1, Invariance, PTL

(* deinitialize reads no link of a page that is gone, and gives back every *)
(* page once although it overwrites the links it walks along.              *)
THEOREM PagesGoBack == Spec => []PagesReturned
<1>1. ASSUME IInv PROVE PagesReturned
  <2>1. ASSUME pc = "release", pageStartHead = null
        PROVE  Pages = {}
    <3>1. PICK k \in Position : CollectedTo(k) /\ LeftTo(k)
      BY <1>1, <2>1 DEF IInv, PhaseInv
    <3>2. \A m \in 1 .. k - 1 : PageStart(created[m]) => created[m] # null
      BY <1>1, <3>1, ItemFacts DEF LeftTo
    <3>3. \A m \in 1 .. k - 1 : ~PageStart(created[m])
      BY <2>1, <3>1, <3>2 DEF CollectedTo, IsStartBefore
    <3> QED
      BY <3>1, <3>3 DEF LeftTo, Pages
  <2> QED
    BY <1>1, <2>1, LocalsInPages DEF PagesReturned, IInv, WholePages
<1> QED
  BY <1>1, Invariance, PTL
=============================================================================
