------------------------ MODULE SoundingPagesProofs ------------------------
(***************************************************************************)
(* Theorems about SoundingPages for every number of buckets, every size of *)
(* the ranges and every set of places the OS may put a block at.           *)
(***************************************************************************)
EXTENDS SoundingPages, PageAddressProofs

Counters(l, h, idx, use, commit) ==
  [l EXCEPT ![h].nextToUse[idx] = use, ![h].nextToCommit[idx] = commit]

(* m is l with the two counters of one bucket of one descriptor set. *)
HasCounters(m, l, h, idx, use, commit) ==
  /\ m \in Seq(Descriptor)
  /\ Len(m) = Len(l)
  /\ \A g \in 1 .. Len(l) :
       /\ m[g].blockAddress = l[g].blockAddress
       /\ \A i \in Idx :
            /\ m[g].nextToUse[i] =
                 IF g = h /\ i = idx THEN use ELSE l[g].nextToUse[i]
            /\ m[g].nextToCommit[i] =
                 IF g = h /\ i = idx THEN commit ELSE l[g].nextToCommit[i]

(* Setting the counters changes those two numbers and nothing else. *)
LEMMA CountersUpdate ==
  ASSUME NEW l \in Seq(Descriptor), NEW h \in 1 .. Len(l), NEW idx \in Idx,
         NEW use \in 0 .. PagesPerBucket, NEW commit \in 0 .. PagesPerBucket
  PROVE  HasCounters(Counters(l, h, idx, use, commit), l, h, idx, use, commit)
<1> DEFINE m == Counters(l, h, idx, use, commit)
           d == [l[h] EXCEPT !.nextToUse[idx] = use, !.nextToCommit[idx] = commit]
<1>1. l[h] \in Descriptor
  OBVIOUS
<1>2. /\ d \in Descriptor
      /\ d.blockAddress = l[h].blockAddress
      /\ \A i \in Idx :
           /\ d.nextToUse[i] = IF i = idx THEN use ELSE l[h].nextToUse[i]
           /\ d.nextToCommit[i] = IF i = idx THEN commit ELSE l[h].nextToCommit[i]
  BY <1>1 DEF Descriptor
<1>3. m = [l EXCEPT ![h] = d]
  BY <1>1 DEF Counters, Descriptor
<1> HIDE DEF m, d
<1>4. m \in Seq(Descriptor) /\ Len(m) = Len(l)
  BY <1>2, <1>3
<1>5. \A g \in 1 .. Len(l) : m[g] = IF g = h THEN d ELSE l[g]
  BY <1>3
<1> QED
  BY <1>2, <1>4, <1>5 DEF m, HasCounters

(* A range that starts inside a bucket ends inside it. *)
LEMMA RangeInBucket ==
  ASSUME NEW slot \in Nat, slot < PagesPerBucket, slot % CommitPageCnt = 0
  PROVE  /\ slot + CommitPageCnt <= PagesPerBucket
         /\ (slot + CommitPageCnt) % CommitPageCnt = 0
<1> DEFINE C == CommitPageCnt
           q == slot \div C
           p == PagesPerBucket \div C
<1>1. C \in Nat /\ C > 0 /\ PagesPerBucket \in Nat
  BY CommitPageCntAssumption, PagesPerBucketAssumption
<1>2. q \in Nat /\ p \in Nat /\ slot = q * C /\ PagesPerBucket = p * C
  BY <1>1, DivisionFacts, CommitPageCntAssumption
<1> HIDE DEF q, p, C
<1>3. q < p
  <2>1. SUFFICES ASSUME p <= q PROVE FALSE
    BY <1>2
  <2>2. p * C <= q * C
    BY <1>1, <1>2, <2>1, SMT
  <2> QED
    BY <1>1, <1>2, <2>2, SMT
<1>4. (q + 1) * C <= p * C /\ (q + 1) * C = q * C + C
  BY <1>1, <1>2, <1>3, SMT
<1>5. slot + C = (q + 1) * C + 0 /\ q + 1 \in Nat
  BY <1>1, <1>2, <1>4, SMT
<1>6. (slot + C) % C = 0
  <2> DEFINE r == q + 1
  <2>1. r \in Nat /\ slot + C = r * C + 0
    BY <1>5
  <2> HIDE DEF r
  <2>2. 0 \in Nat /\ 0 < C
    BY <1>1
  <2>3. (r * C + 0) % C = 0
    BY <1>1, <2>1, <2>2, DivisionUnique
  <2> QED
    BY <2>1, <2>3
<1> QED
  BY <1>1, <1>2, <1>4, <1>5, <1>6 DEF C

(* The runs of a range cover it, no more and no less. *)
LEMMA RunsCoverRange ==
  ASSUME NEW block, NEW idx, NEW from \in Nat
  PROVE  UNION CommitRuns(block, idx, from)
           = {idxToPageAddr(block, idx, k) : k \in from .. from + CommitPageCnt - 1}
<1>1. CommitPageCnt \in Nat
  BY CommitPageCntAssumption
<1> QED
  BY <1>1 DEF CommitRuns

-----------------------------------------------------------------------------
(***************************************************************************)
(* The inductive invariant.  TypeOK and the properties lean on the list of *)
(* descriptors (its blocks are apart), on the two counters of each bucket  *)
(* (commits keep ahead of use and in whole ranges) and on the place of a   *)
(* request in its block (requests start at multiples of their size).  The  *)
(* parts are stated for any list, since getPage may first append one.      *)
(***************************************************************************)
Apart(b, c) == BlockPages(b) \intersect BlockPages(c) = {}

ListInv(l) ==
  /\ l \in Seq(Descriptor)
  /\ Len(l) >= 1
  /\ l[1] = pageBlockListStart
  /\ \A h \in 2 .. Len(l) : l[h].blockAddress \in Bases
  /\ \A g, h \in 2 .. Len(l) : g # h => Apart(l[g].blockAddress, l[h].blockAddress)

CountersInv(l) ==
  \A h \in 1 .. Len(l), i \in Idx :
    /\ l[h].nextToUse[i] <= l[h].nextToCommit[i]
    /\ l[h].nextToCommit[i] % CommitPageCnt = 0

(* Unless the OS refused, every page below nextToCommit is committed. *)
BackedInv(l) ==
  ~refused =>
    \A h \in 2 .. Len(l), i \in Idx : \A k \in 0 .. l[h].nextToCommit[i] - 1 :
      idxToPageAddr(l[h].blockAddress, i, k) \in committed

BlocksOf(l) == UNION {BlockPages(l[h].blockAddress) : h \in 2 .. Len(l)}

HandedInv(l) ==
  /\ handed \in [Idx -> SUBSET Page]
  /\ given \in Nat
  /\ BucketFromAddress
  /\ status = "ok" => \A i \in Idx : /\ handed[i] = UsedPages(l, i)
                                     /\ UsedInOrder(l, i, indexHead[i])

RequestInv ==
  /\ request \in Request
  /\ request.active => request.count < MultipagePageCnt
  /\ request.sz1 + request.sz2 = request.count
  /\ request.ptr2 = None => request.sz2 = 0

Collecting(i) == IF request.active /\ request.idx = i THEN request.count ELSE 0

AlignedInv ==
  status = "ok" =>
    \A i \in Idx :
      list[indexHead[i]].nextToUse[i] % MultipagePageCnt = Collecting(i)

OutcomeInv ==
  /\ refused \in BOOLEAN
  /\ status \in {"ok", "fault", "scattered", "noSpace"}
  /\ FaultOnlyIfRefused

IInv ==
  /\ ListInv(list) /\ Len(list) <= MaxBlocks + 1
  /\ indexHead \in [Idx -> 1 .. Len(list)]
  /\ CountersInv(list)
  /\ BackedInv(list)
  /\ committed \subseteq BlocksOf(list)
  /\ HandedInv(list)
  /\ RequestInv
  /\ AlignedInv
  /\ OutcomeInv

(* Every page of a block of the list is an address the model knows. *)
LEMMA BlocksArePages ==
  ASSUME NEW l, ListInv(l)
  PROVE  BlocksOf(l) \subseteq Page
  BY DEF ListInv, BlocksOf, Page

(* The invariant includes the shape of every variable. *)
LEMMA InvImpliesTypeOK == IInv => TypeOK
<1> SUFFICES ASSUME IInv PROVE TypeOK
  OBVIOUS
<1>1. Len(list) \in 1 .. MaxBlocks + 1 /\ list \in Seq(Descriptor)
  BY MaxBlocksAssumption DEF IInv, ListInv
<1>2. committed \subseteq Page
  BY BlocksArePages DEF IInv
<1> QED
  BY <1>1, <1>2 DEF IInv, TypeOK, HandedInv, RequestInv, OutcomeInv

(* The static descriptor alone satisfies all that is asked of a list. *)
LEMMA StartList ==
  LET l == <<pageBlockListStart>>
  IN  /\ ListInv(l) /\ Len(l) = 1
      /\ CountersInv(l)
      /\ BackedInv(l)
      /\ BlocksOf(l) = {}
      /\ \A i \in Idx : /\ UsedPages(l, i) = {}
                        /\ UsedInOrder(l, i, 1)
                        /\ l[1].nextToUse[i] % MultipagePageCnt = 0
<1> DEFINE l == <<pageBlockListStart>>
<1>1. pageBlockListStart \in Descriptor
  BY PagesPerBucketAssumption DEF pageBlockListStart, Descriptor
<1>2. l \in Seq(Descriptor) /\ Len(l) = 1 /\ l[1] = pageBlockListStart
  BY <1>1
<1>3. 2 .. Len(l) = {}
  BY <1>2
<1>4. \A i \in Idx : /\ l[1].nextToUse[i] = PagesPerBucket
                     /\ l[1].nextToCommit[i] = PagesPerBucket
  BY <1>2 DEF pageBlockListStart
<1> HIDE DEF l
<1>5. ListInv(l)
  BY <1>2, <1>3 DEF ListInv
<1>6. CountersInv(l)
  BY <1>2, <1>4, CommitPageCntAssumption, PagesPerBucketAssumption DEF CountersInv
<1>7. BackedInv(l) /\ BlocksOf(l) = {}
  BY <1>3 DEF BackedInv, BlocksOf
<1>8. ASSUME NEW i \in Idx
      PROVE  /\ UsedPages(l, i) = {}
             /\ UsedInOrder(l, i, 1)
             /\ l[1].nextToUse[i] % MultipagePageCnt = 0
  <2>1. UsedPages(l, i) = {}
    BY <1>3 DEF UsedPages
  <2>2. UsedInOrder(l, i, 1)
    BY <1>2 DEF UsedInOrder
  <2> QED
    BY <2>1, <2>2, <1>4, MultipagePageCntAssumption
<1> QED
  BY <1>2, <1>5, <1>6, <1>7, <1>8 DEF l

(* The initial state satisfies the invariant. *)
LEMMA InitInv == Init => IInv
<1> SUFFICES ASSUME Init PROVE IInv
  OBVIOUS
<1>1. Len(list) <= MaxBlocks + 1
  BY MaxBlocksAssumption, StartList DEF Init
<1>2. HandedInv(list)
  BY StartList DEF Init, HandedInv, BucketFromAddress
<1>3. RequestInv
  BY BucketCntAssumption, MultipagePageCntAssumption
     DEF Init, RequestInv, Request, NoRequest, Idx
<1>4. AlignedInv
  BY StartList DEF Init, AlignedInv, Collecting, NoRequest
<1>5. OutcomeInv
  BY DEF Init, OutcomeInv, FaultOnlyIfRefused
<1> QED
  BY <1>1, <1>2, <1>3, <1>4, <1>5, StartList DEF Init, IInv

(* A new descriptor changes nothing of what the list already holds. *)
LEMMA AppendBlock ==
  ASSUME NEW block \in Bases,
         ListInv(list), CountersInv(list), BackedInv(list),
         BlockPages(block) \intersect BlocksOf(list) = {}
  PROVE  LET l == Append(list, NewDescriptor(block))
         IN  /\ ListInv(l) /\ Len(l) = Len(list) + 1
             /\ CountersInv(l)
             /\ BackedInv(l)
             /\ BlocksOf(list) \subseteq BlocksOf(l)
             /\ \A i \in Idx :
                  /\ l[Len(l)].nextToUse[i] = 0
                  /\ \A h \in 1 .. Len(list) : l[h] = list[h]
                  /\ UsedPages(l, i) = UsedPages(list, i)
                  /\ \A h \in 1 .. Len(list) :
                       UsedInOrder(list, i, h) => UsedInOrder(l, i, h)
<1> DEFINE d == NewDescriptor(block)
           l == Append(list, d)
           n == Len(list)
<1>1. /\ d \in Descriptor /\ d.blockAddress = block
      /\ \A i \in Idx : d.nextToUse[i] = 0 /\ d.nextToCommit[i] = 0
  BY PagesPerBucketAssumption DEF NewDescriptor, Descriptor
<1>2. list \in Seq(Descriptor) /\ n \in Nat /\ n >= 1
  BY DEF ListInv
<1> HIDE DEF d
<1>3. /\ l \in Seq(Descriptor) /\ Len(l) = n + 1 /\ l[n + 1] = d
      /\ \A h \in 1 .. n : l[h] = list[h]
  BY <1>1, <1>2
<1> HIDE DEF l, n
<1>4. 2 .. Len(l) = (2 .. n) \union {n + 1}
  BY <1>2, <1>3
<1>5. \A h \in 2 .. n : BlockPages(list[h].blockAddress) \subseteq BlocksOf(list)
  BY DEF BlocksOf, n
<1>6. ListInv(l)
  <2>1. l[1] = pageBlockListStart
    BY <1>2, <1>3 DEF ListInv
  <2>2. \A h \in 2 .. Len(l) : l[h].blockAddress \in Bases
    BY <1>1, <1>2, <1>3, <1>4 DEF ListInv, n
  <2>3. ASSUME NEW g \in 2 .. Len(l), NEW h \in 2 .. Len(l), g # h
        PROVE  Apart(l[g].blockAddress, l[h].blockAddress)
    <3>1. CASE g \in 2 .. n /\ h \in 2 .. n
      BY <1>2, <1>3, <2>3, <3>1 DEF ListInv, n
    <3>2. CASE g = n + 1
      BY <1>1, <1>2, <1>3, <1>4, <1>5, <2>3, <3>2 DEF Apart
    <3>3. CASE h = n + 1
      BY <1>1, <1>2, <1>3, <1>4, <1>5, <2>3, <3>3 DEF Apart
    <3> QED
      BY <1>4, <3>1, <3>2, <3>3
  <2> QED
    BY <1>2, <1>3, <2>1, <2>2, <2>3 DEF ListInv
<1>7. CountersInv(l)
  BY <1>1, <1>2, <1>3, CommitPageCntAssumption DEF CountersInv, n
<1>8. BackedInv(l)
  <2>1. \A h \in 2 .. Len(l), i \in Idx : h = n + 1 => 0 .. l[h].nextToCommit[i] - 1 = {}
    BY <1>1, <1>3
  <2>2. \A h \in 2 .. n : l[h] = list[h]
    BY <1>2, <1>3
  <2> QED
    BY <1>4, <2>1, <2>2 DEF BackedInv, n
<1>9. BlocksOf(list) \subseteq BlocksOf(l)
  BY <1>2, <1>3, <1>4 DEF BlocksOf, n
<1>10. ASSUME NEW i \in Idx
       PROVE  UsedPages(l, i) = UsedPages(list, i)
  <2>1. 0 .. l[n + 1].nextToUse[i] - 1 = {}
    BY <1>1, <1>3
  <2>2. \A h \in 2 .. n : l[h] = list[h]
    BY <1>2, <1>3
  <2> QED
    BY <1>4, <2>1, <2>2 DEF UsedPages, n
<1>11. ASSUME NEW i \in Idx, NEW h \in 1 .. n, UsedInOrder(list, i, h)
       PROVE  UsedInOrder(l, i, h)
  <2>1. \A g \in h + 1 .. Len(l) : g = n + 1 \/ g \in h + 1 .. n
    BY <1>2, <1>3
  <2>2. \A g \in 1 .. h - 1 : l[g] = list[g]
    BY <1>2, <1>3
  <2>3. \A g \in h + 1 .. n : l[g] = list[g]
    BY <1>2, <1>3
  <2>4. l[n + 1].nextToUse[i] = 0
    BY <1>1, <1>3
  <2> QED
    BY <1>11, <2>1, <2>2, <2>3, <2>4 DEF UsedInOrder, n
<1>12. \A i \in Idx : l[Len(l)].nextToUse[i] = 0
  BY <1>1, <1>3
<1> QED
  BY <1>3, <1>6, <1>7, <1>8, <1>9, <1>10, <1>11, <1>12 DEF l, n, d

(* A reservation has at least one page. *)
LEMMA ReservationPagesNat == ReservationPages \in Nat /\ ReservationPages > 0
  BY BucketCntAssumption, PagesPerBucketAssumption, SMT DEF ReservationPages

(* What collecting one page does to a request. *)
LEMMA CollectOne ==
  ASSUME RequestInv, request.active, NEW page \in Page
  PROVE  LET r == [Collected(page) EXCEPT
                     !.active = Collected(page).count < MultipagePageCnt]
         IN  /\ r \in Request
             /\ r.active = (request.count + 1 < MultipagePageCnt)
             /\ r.idx = request.idx
             /\ r.count = request.count + 1
             /\ r.sz1 + r.sz2 = r.count
             /\ r.ptr2 = None => r.sz2 = 0
<1> DEFINE c == Collected(page)
<1>1. /\ request \in Request /\ MultipagePageCnt \in Nat
      /\ request.count < MultipagePageCnt
      /\ request.sz1 + request.sz2 = request.count
      /\ request.ptr2 = None => request.sz2 = 0
  BY MultipagePageCntAssumption DEF RequestInv
<1>n. page # None
  BY BasesAssumption, ReservationPagesNat DEF Page, BlockPages, None
<1>2. /\ request.count \in Nat /\ request.sz1 \in Nat /\ request.sz2 \in Nat
      /\ request.count + 1 \in 0 .. MultipagePageCnt
      /\ request.sz1 + 1 \in 0 .. MultipagePageCnt
      /\ request.sz2 + 1 \in 0 .. MultipagePageCnt
      /\ 1 \in 0 .. MultipagePageCnt
  BY <1>1 DEF Request
<1>3. /\ c \in Request
      /\ c.idx = request.idx
      /\ c.count = request.count + 1
      /\ c.sz1 + c.sz2 = c.count
      /\ c.ptr2 = None => c.sz2 = 0
  <2>1. CASE request.count = 0
    <3>1. c = [request EXCEPT !.count = 1, !.ptr1 = page, !.sz1 = 1]
      BY <2>1 DEF Collected
    <3>2. request.sz2 = 0
      BY <1>1, <1>2, <2>1
    <3>3. c \in Request
      BY <1>1, <1>2, <3>1 DEF Request
    <3>4. c.idx = request.idx /\ c.count = 1 /\ c.sz1 = 1 /\ c.sz2 = 0
      BY <1>1, <3>1, <3>2 DEF Request
    <3> QED
      BY <2>1, <3>2, <3>3, <3>4
  <2>2. CASE request.count > 0 /\ request.ptr2 = None /\ request.ptr1 + request.sz1 = page
    <3>1. c = [request EXCEPT !.count = request.count + 1, !.sz1 = request.sz1 + 1]
      BY <1>1, <1>2, <2>2 DEF Collected
    <3>2. c \in Request
      BY <1>1, <1>2, <3>1 DEF Request
    <3>3. /\ c.idx = request.idx /\ c.count = request.count + 1
          /\ c.sz1 = request.sz1 + 1 /\ c.sz2 = request.sz2
          /\ c.ptr2 = request.ptr2
      BY <1>1, <3>1 DEF Request
    <3> QED
      BY <1>1, <1>2, <3>2, <3>3
  <2>3. CASE request.count > 0 /\ request.ptr2 = None /\ request.ptr1 + request.sz1 # page
    <3>1. c = [request EXCEPT !.count = request.count + 1, !.ptr2 = page, !.sz2 = 1]
      BY <1>1, <1>2, <2>3 DEF Collected
    <3>2. c \in Request
      BY <1>1, <1>2, <3>1 DEF Request
    <3>3. /\ c.idx = request.idx /\ c.count = request.count + 1
          /\ c.sz1 = request.sz1 /\ c.sz2 = 1
          /\ c.ptr2 = page
      BY <1>1, <3>1 DEF Request
    <3> QED
      BY <1>1, <1>n, <1>2, <2>3, <3>2, <3>3
  <2>4. CASE request.count > 0 /\ request.ptr2 # None
    <3>1. c = [request EXCEPT !.count = request.count + 1, !.sz2 = request.sz2 + 1]
      BY <1>1, <1>2, <2>4 DEF Collected
    <3>2. c \in Request
      BY <1>1, <1>2, <3>1 DEF Request
    <3>3. /\ c.idx = request.idx /\ c.count = request.count + 1
          /\ c.sz1 = request.sz1 /\ c.sz2 = request.sz2 + 1
          /\ c.ptr2 = request.ptr2
      BY <1>1, <3>1 DEF Request
    <3> QED
      BY <1>1, <1>2, <2>4, <3>2, <3>3
  <2> QED
    BY <1>2, <2>1, <2>2, <2>3, <2>4
<1> HIDE DEF c
<1> DEFINE b == c.count < MultipagePageCnt
           r == [c EXCEPT !.active = b]
<1>4. b \in BOOLEAN
  OBVIOUS
<1> HIDE DEF b
<1>5. r \in Request
  BY <1>3, <1>4 DEF Request
<1>6. /\ r.active = b /\ r.idx = c.idx /\ r.count = c.count
      /\ r.sz1 = c.sz1 /\ r.sz2 = c.sz2 /\ r.ptr2 = c.ptr2
  BY <1>3 DEF Request
<1> QED
  BY <1>3, <1>5, <1>6 DEF b, c

(* A request that has not got all its pages stays aligned by one more.     *)
LEMMA SlotAdvance ==
  ASSUME NEW slot \in Nat, NEW count \in Nat, count < MultipagePageCnt,
         slot % MultipagePageCnt = count
  PROVE  (slot + 1) % MultipagePageCnt
           = IF count + 1 < MultipagePageCnt THEN count + 1 ELSE 0
<1> DEFINE M == MultipagePageCnt
           q == slot \div M
<1>1. M \in Nat /\ M > 1
  BY MultipagePageCntAssumption
<1>2. q \in Nat /\ slot = q * M + count
  BY <1>1, DivisionFacts
<1> HIDE DEF q, M
<1>3. CASE count + 1 < M
  <2>1. slot + 1 = q * M + (count + 1)
    BY <1>1, <1>2, SMT
  <2> QED
    BY <1>1, <1>2, <1>3, <2>1, DivisionUnique DEF M
<1>4. CASE ~(count + 1 < M)
  <2>1. slot + 1 = (q + 1) * M + 0 /\ q + 1 \in Nat
    <3>1. (q + 1) * M = q * M + M
      BY <1>1, <1>2, SMT
    <3>2. count + 1 = M
      BY <1>1, <1>4 DEF M
    <3> QED
      BY <1>1, <1>2, <3>1, <3>2, SMT
  <2> QED
    BY <1>1, <1>4, <2>1, DivisionUnique DEF M
<1> QED
  BY <1>3, <1>4

(* Different blocks of a list share no page, different slots of one block  *)
(* are different pages: the next page of a bucket is new to all of them.   *)
LEMMA NextPageIsNew ==
  ASSUME NEW l, ListInv(l), NEW idx \in Idx, NEW h \in 2 .. Len(l),
         l[h].nextToUse[idx] < PagesPerBucket,
         NEW i \in Idx
  PROVE  idxToPageAddr(l[h].blockAddress, idx, l[h].nextToUse[idx])
           \notin UsedPages(l, i)
<1> DEFINE slot == l[h].nextToUse[idx]
           page == idxToPageAddr(l[h].blockAddress, idx, slot)
<1> SUFFICES ASSUME NEW g \in 2 .. Len(l), NEW k \in 0 .. l[g].nextToUse[i] - 1,
                    page = idxToPageAddr(l[g].blockAddress, i, k)
             PROVE  FALSE
  BY DEF UsedPages
<1>1. l[g] \in Descriptor /\ l[h] \in Descriptor
  BY DEF ListInv
<1>2. l[g].nextToUse[i] \in 0 .. PagesPerBucket /\ slot \in 0 .. PagesPerBucket
  BY <1>1 DEF Descriptor
<1>3. k \in Slot /\ slot \in Slot
  BY <1>2, PagesPerBucketAssumption DEF Slot
<1>4. l[g].blockAddress \in Nat /\ l[h].blockAddress \in Nat
  BY BasesAssumption DEF ListInv
<1>5. page \in BlockPages(l[g].blockAddress) /\ page \in BlockPages(l[h].blockAddress)
  BY <1>3, <1>4, PageAddressCorrect
<1>6. g = h
  BY <1>5 DEF ListInv, Apart
<1>7. i = idx /\ k = slot
  <2>1. idxToPageAddr(l[h].blockAddress, i, k) = idxToPageAddr(l[h].blockAddress, idx, slot)
    BY <1>6
  <2> HIDE DEF slot
  <2> QED
    BY <1>3, <1>4, <2>1, PageAddressInjective
<1> QED
  BY <1>2, <1>6, <1>7

(***************************************************************************)
(* getPage, whichever of its branches: from a list l that satisfies the    *)
(* invariant, taking the next page of the descriptor at h keeps it.        *)
(***************************************************************************)
TakePageReady(idx, l, h) ==
  /\ ListInv(l) /\ Len(l) <= MaxBlocks + 1
  /\ indexHead \in [Idx -> 1 .. Len(l)]
  /\ CountersInv(l)
  /\ BackedInv(l)
  /\ committed \subseteq BlocksOf(l)
  /\ HandedInv(l)
  /\ RequestInv
  /\ OutcomeInv
  /\ status = "ok"
  /\ request.active /\ request.idx = idx
  /\ l[h].nextToUse[idx] < PagesPerBucket
  /\ l[h].nextToUse[idx] % MultipagePageCnt = request.count
  /\ \A i \in Idx \ {idx} : l[indexHead[i]].nextToUse[i] % MultipagePageCnt = 0
  /\ UsedInOrder(l, idx, h)

(* Taking a page from a descriptor that is ready for it keeps the invariant. *)
LEMMA TakePageInv ==
  ASSUME NEW idx \in Idx, NEW l, NEW h \in 2 .. Len(l),
         TakePageReady(idx, l, h), TakePage(idx, l, h)
  PROVE  IInv'
<1> DEFINE d    == l[h]
           b    == l[h].blockAddress
           slot == l[h].nextToUse[idx]
           upTo == l[h].nextToCommit[idx]
           full == slot = upTo
           newUpTo == IF full THEN upTo + CommitPageCnt ELSE upTo
           page == idxToPageAddr(b, idx, slot)
<1>1. /\ l \in Seq(Descriptor) /\ l[h] \in Descriptor /\ Len(l) \in Nat
      /\ h \in 1 .. Len(l) /\ b \in Nat
      /\ \A g \in 1 .. Len(l) : l[g] \in Descriptor
  <2>1. l \in Seq(Descriptor) /\ \A g \in 2 .. Len(l) : l[g].blockAddress \in Bases
    BY DEF TakePageReady, ListInv
  <2>2. Len(l) \in Nat /\ \A g \in 1 .. Len(l) : l[g] \in Descriptor
    BY <2>1
  <2>3. h \in 1 .. Len(l)
    BY <2>2
  <2>4. b \in Nat
    BY <2>1, BasesAssumption
  <2> QED
    BY <2>1, <2>2, <2>3, <2>4
<1>2. /\ PagesPerBucket \in Nat /\ CommitPageCnt \in Nat /\ CommitPageCnt > 0
      /\ slot \in Nat /\ slot < PagesPerBucket
      /\ upTo \in 0 .. PagesPerBucket /\ slot <= upTo
      /\ upTo % CommitPageCnt = 0
  <2>1. slot \in 0 .. PagesPerBucket /\ upTo \in 0 .. PagesPerBucket
    BY <1>1 DEF Descriptor
  <2>2. slot <= upTo /\ upTo % CommitPageCnt = 0
    BY <1>1 DEF TakePageReady, CountersInv
  <2> QED
    BY <2>1, <2>2, PagesPerBucketAssumption, CommitPageCntAssumption DEF TakePageReady
<1>3. /\ newUpTo \in 0 .. PagesPerBucket
      /\ newUpTo % CommitPageCnt = 0
      /\ slot + 1 <= newUpTo
      /\ upTo <= newUpTo
      /\ full => \A k \in slot .. slot + CommitPageCnt - 1 : k \in Slot
  <2>1. CASE full
    <3>1. slot + CommitPageCnt <= PagesPerBucket /\ (slot + CommitPageCnt) % CommitPageCnt = 0
      BY <1>2, <2>1, RangeInBucket
    <3>2. newUpTo = slot + CommitPageCnt
      BY <2>1
    <3> HIDE DEF newUpTo, slot
    <3>3. \A k \in slot .. slot + CommitPageCnt - 1 : k \in Slot
      BY <1>2, <3>1 DEF Slot
    <3> QED
      BY <1>2, <2>1, <3>1, <3>2, <3>3
  <2>2. CASE ~full
    <3>1. newUpTo = upTo
      BY <2>2
    <3> HIDE DEF newUpTo, slot, upTo
    <3> QED
      BY <1>2, <2>2, <3>1 DEF full
  <2> QED
    BY <2>1, <2>2
<1>4. /\ page \in Nat /\ page \in BlockPages(b) /\ addressToIdx(page) = idx
      /\ page \in BlocksOf(l) /\ page \in Page
  <2>1. slot \in Slot
    BY <1>2 DEF Slot
  <2> HIDE DEF slot
  <2>2. page \in Nat /\ page \in BlockPages(b) /\ addressToIdx(page) = idx
    BY <1>1, <2>1, PageAddressCorrect
  <2>3. page \in BlocksOf(l)
    BY <2>2 DEF BlocksOf
  <2> QED
    BY <2>2, <2>3, BlocksArePages DEF TakePageReady
<1>5. /\ list' = Counters(l, h, idx, slot + 1, newUpTo)
      /\ indexHead' = [indexHead EXCEPT ![idx] = h]
      /\ HandOut(idx, page)
      /\ IF full THEN Commit(b, idx, slot) ELSE UNCHANGED <<committed, refused>>
  BY DEF TakePage, Counters
<1>6. /\ list' \in Seq(Descriptor)
      /\ Len(list') = Len(l)
      /\ \A g \in 1 .. Len(l) :
           /\ list'[g].blockAddress = l[g].blockAddress
           /\ \A i \in Idx :
                /\ list'[g].nextToUse[i] =
                     IF g = h /\ i = idx THEN slot + 1 ELSE l[g].nextToUse[i]
                /\ list'[g].nextToCommit[i] =
                     IF g = h /\ i = idx THEN newUpTo ELSE l[g].nextToCommit[i]
  <2>1. slot + 1 \in 0 .. PagesPerBucket
    BY <1>2
  <2>2. newUpTo \in 0 .. PagesPerBucket
    BY <1>3
  <2> HIDE DEF slot, newUpTo
  <2> DEFINE m == Counters(l, h, idx, slot + 1, newUpTo)
  <2>3. HasCounters(m, l, h, idx, slot + 1, newUpTo)
    BY <1>1, <2>1, <2>2, CountersUpdate
  <2>4. list' = m
    BY <1>5
  <2> HIDE DEF m
  <2> QED
    BY <2>3, <2>4 DEF HasCounters
<1>7. /\ committed \subseteq committed' /\ committed' \subseteq BlocksOf(l)
      /\ refused' \in BOOLEAN /\ (refused => refused')
      /\ ~refused' /\ full => \A k \in slot .. slot + CommitPageCnt - 1 :
                                idxToPageAddr(b, idx, k) \in committed'
  <2>1. CASE full
    <3>1. PICK granted \in SUBSET CommitRuns(b, idx, slot) :
            /\ committed' = committed \union UNION granted
            /\ refused' = (refused \/ granted # CommitRuns(b, idx, slot))
      BY <1>5, <2>1 DEF Commit
    <3>2. UNION granted \subseteq UNION CommitRuns(b, idx, slot)
      OBVIOUS
    <3>3. UNION CommitRuns(b, idx, slot)
            = {idxToPageAddr(b, idx, k) : k \in slot .. slot + CommitPageCnt - 1}
      BY <1>2, RunsCoverRange
    <3>4. \A k \in slot .. slot + CommitPageCnt - 1 : idxToPageAddr(b, idx, k) \in BlocksOf(l)
      BY <1>1, <1>3, <2>1, PageAddressCorrect DEF BlocksOf
    <3>5. committed \subseteq BlocksOf(l) /\ refused \in BOOLEAN
      BY DEF TakePageReady, OutcomeInv
    <3>6. committed' \subseteq BlocksOf(l) /\ committed \subseteq committed'
      <4> HIDE DEF slot, b
      <4> QED
        BY <3>1, <3>2, <3>3, <3>4, <3>5
    <3>7. refused' \in BOOLEAN /\ (refused => refused')
      BY <3>1, <3>5
    <3>8. ~refused' => granted = CommitRuns(b, idx, slot)
      BY <3>1
    <3>9. ~refused' => \A k \in slot .. slot + CommitPageCnt - 1 :
                         idxToPageAddr(b, idx, k) \in committed'
      <4> HIDE DEF slot, b
      <4> QED
        BY <3>1, <3>3, <3>8
    <3> QED
      BY <3>6, <3>7, <3>9
  <2>2. CASE ~full
    BY <1>5, <2>2 DEF TakePageReady, OutcomeInv
  <2> QED
    BY <2>1, <2>2
<1> HIDE DEF newUpTo, page
<1>8. BlocksOf(list') = BlocksOf(l)
  BY <1>1, <1>6 DEF BlocksOf
<1>9. ListInv(list') /\ Len(list') <= MaxBlocks + 1
  <2>1. list'[1] = pageBlockListStart
    <3>1. l[1] = pageBlockListStart /\ l[1] \in Descriptor /\ 1 \in 1 .. Len(l)
      BY <1>1 DEF TakePageReady, ListInv
    <3>2. list'[1] = l[1]
      BY <1>5, <1>1, <3>1 DEF Counters
    <3> QED
      BY <3>1, <3>2
  <2>2. /\ \A g \in 2 .. Len(l) : l[g].blockAddress \in Bases
        /\ \A f, g \in 2 .. Len(l) : f # g => Apart(l[f].blockAddress, l[g].blockAddress)
        /\ Len(l) >= 1 /\ Len(l) <= MaxBlocks + 1
    BY DEF TakePageReady, ListInv
  <2>3. \A g \in 2 .. Len(l) : list'[g].blockAddress = l[g].blockAddress
    BY <1>1, <1>6
  <2> QED
    BY <1>6, <2>1, <2>2, <2>3 DEF ListInv
<1>10. indexHead' \in [Idx -> 1 .. Len(list')]
  BY <1>1, <1>5, <1>6 DEF TakePageReady
<1>11. CountersInv(list')
  <2> HIDE DEF slot, upTo, newUpTo, full
  <2> QED
    BY <1>3, <1>6 DEF TakePageReady, CountersInv
<1>12. BackedInv(list)'
  <2> SUFFICES ASSUME ~refused',
                      NEW g \in 2 .. Len(l), NEW i \in Idx,
                      NEW k \in 0 .. list'[g].nextToCommit[i] - 1
               PROVE  idxToPageAddr(l[g].blockAddress, i, k) \in committed'
    BY <1>1, <1>6 DEF BackedInv
  <2>1. \A j \in 0 .. l[g].nextToCommit[i] - 1 :
          idxToPageAddr(l[g].blockAddress, i, j) \in committed
    BY <1>7 DEF TakePageReady, BackedInv
  <2>2. CASE g = h /\ i = idx
    <3>1. k \in 0 .. newUpTo - 1
      BY <1>1, <1>6, <2>2
    <3>2. k \in 0 .. upTo - 1 \/ (full /\ k \in slot .. slot + CommitPageCnt - 1)
      <4>1. k \in Nat /\ k < newUpTo
        BY <1>3, <3>1
      <4>2. newUpTo = IF full THEN slot + CommitPageCnt ELSE upTo
        BY DEF newUpTo
      <4> HIDE DEF slot, upTo, full
      <4> QED
        BY <1>2, <1>3, <4>1, <4>2
    <3> QED
      BY <1>7, <2>1, <2>2, <3>2
  <2>3. CASE ~(g = h /\ i = idx)
    <3>1. list'[g].nextToCommit[i] = l[g].nextToCommit[i]
      BY <1>1, <1>6, <2>3
    <3> QED
      BY <1>7, <2>1, <3>1
  <2> QED
    BY <2>2, <2>3
<1>13. ASSUME NEW i \in Idx
       PROVE  /\ UsedPages(list', i)
                   = IF i = idx THEN UsedPages(l, i) \union {page} ELSE UsedPages(l, i)
              /\ UsedInOrder(l, i, IF i = idx THEN h ELSE indexHead[i])
                   => UsedInOrder(list', i, indexHead'[i])
  <2>1. CASE i = idx
    <3>1. \A g \in 2 .. Len(l) : g # h => list'[g].nextToUse[i] = l[g].nextToUse[i]
      BY <1>1, <1>6
    <3>2. list'[h].nextToUse[i] = slot + 1 /\ l[h].nextToUse[i] = slot
      BY <1>1, <1>6, <2>1
    <3>3. 0 .. slot = (0 .. slot - 1) \union {slot}
      BY <1>2
    <3>4. \A g \in 2 .. Len(l) : list'[g].blockAddress = l[g].blockAddress
      BY <1>1, <1>6
    <3>5. UsedPages(list', i) \subseteq UsedPages(l, i) \union {page}
      <4> SUFFICES ASSUME NEW g \in 2 .. Len(l), NEW k \in 0 .. list'[g].nextToUse[i] - 1
                   PROVE  idxToPageAddr(l[g].blockAddress, i, k) \in UsedPages(l, i) \union {page}
        BY <1>6, <3>4 DEF UsedPages
      <4>1. CASE g # h
        BY <3>1, <4>1 DEF UsedPages
      <4>2. CASE g = h
        <5>1. k \in 0 .. slot - 1 \/ k = slot
          BY <1>2, <3>2, <4>2
        <5> QED
          BY <2>1, <3>2, <4>2, <5>1 DEF UsedPages, page
      <4> QED
        BY <4>1, <4>2
    <3>6. UsedPages(l, i) \union {page} \subseteq UsedPages(list', i)
      <4>1. ASSUME NEW g \in 2 .. Len(l), NEW k \in 0 .. l[g].nextToUse[i] - 1
            PROVE  idxToPageAddr(l[g].blockAddress, i, k) \in UsedPages(list', i)
        <5>1. k \in 0 .. list'[g].nextToUse[i] - 1
          <6> HIDE DEF slot
          <6> QED
            BY <1>2, <3>1, <3>2
        <5> QED
          BY <1>6, <3>4, <5>1 DEF UsedPages
      <4>2. page \in UsedPages(list', i)
        <5>1. slot \in 0 .. list'[h].nextToUse[i] - 1
          BY <1>2, <3>2
        <5> QED
          BY <1>6, <2>1, <3>4, <5>1 DEF UsedPages, page
      <4> QED
        BY <4>1, <4>2 DEF UsedPages
    <3>7. UsedInOrder(l, i, h) => UsedInOrder(list', i, h)
      <4> SUFFICES ASSUME UsedInOrder(l, i, h) PROVE UsedInOrder(list', i, h)
        OBVIOUS
      <4>1. \A g \in 1 .. h - 1 : list'[g].nextToUse[i] = l[g].nextToUse[i]
        BY <1>1, <1>6
      <4>2. \A g \in h + 1 .. Len(l) : list'[g].nextToUse[i] = l[g].nextToUse[i]
        BY <1>1, <1>6
      <4> QED
        BY <1>6, <4>1, <4>2 DEF UsedInOrder
    <3>8. indexHead'[i] = h
      BY <1>5, <2>1 DEF TakePageReady
    <3> QED
      BY <2>1, <3>5, <3>6, <3>7, <3>8
  <2>2. CASE i # idx
    <3>1. \A g \in 1 .. Len(l) : list'[g].nextToUse[i] = l[g].nextToUse[i]
      BY <1>6, <2>2
    <3>2. \A g \in 2 .. Len(l) : /\ list'[g].nextToUse[i] = l[g].nextToUse[i]
                                 /\ list'[g].blockAddress = l[g].blockAddress
      BY <1>1, <1>6, <3>1
    <3>3. UsedPages(list', i) = UsedPages(l, i)
      BY <1>6, <3>2 DEF UsedPages
    <3>4. indexHead'[i] = indexHead[i] /\ indexHead[i] \in 1 .. Len(l)
      BY <1>5, <2>2 DEF TakePageReady
    <3>5. ASSUME UsedInOrder(l, i, indexHead[i]) PROVE UsedInOrder(list', i, indexHead[i])
      <4>1. /\ \A g \in 1 .. indexHead[i] - 1 : list'[g].nextToUse[i] = l[g].nextToUse[i]
            /\ \A g \in indexHead[i] + 1 .. Len(l) : list'[g].nextToUse[i] = l[g].nextToUse[i]
        BY <1>1, <3>1, <3>4
      <4> QED
        BY <1>6, <3>5, <4>1 DEF UsedInOrder
    <3> QED
      BY <2>2, <3>3, <3>4, <3>5
  <2> QED
    BY <2>1, <2>2
<1>14. HandedInv(list)' /\ RequestInv' /\ AlignedInv' /\ OutcomeInv'
  <2>1. /\ handed \in [Idx -> SUBSET Page] /\ given \in Nat
        /\ BucketFromAddress
        /\ \A i \in Idx : handed[i] = UsedPages(l, i) /\ UsedInOrder(l, i, indexHead[i])
        /\ UsedInOrder(l, idx, h)
        /\ status = "ok" /\ RequestInv
        /\ request.active /\ request.idx = idx
    BY DEF TakePageReady, HandedInv
  <2>2. CASE page \notin committed'
    <3>1. /\ status' = "fault" /\ handed' = handed /\ request' = request
          /\ given' = given
      BY <1>5, <2>2 DEF HandOut
    <3>2. refused'
      <4>1. SUFFICES ASSUME ~refused' PROVE FALSE
        BY <1>7
      <4>2. slot \in 0 .. list'[h].nextToCommit[idx] - 1
        BY <1>1, <1>2, <1>3, <1>6
      <4>3. list'[h].blockAddress = b /\ h \in 2 .. Len(list')
        BY <1>1, <1>6
      <4>4. idxToPageAddr(b, idx, slot) \in committed'
        BY <1>12, <4>1, <4>2, <4>3 DEF BackedInv
      <4> QED
        BY <2>2, <4>4 DEF page
    <3>3. HandedInv(list)'
      BY <2>1, <3>1 DEF HandedInv, BucketFromAddress
    <3>4. RequestInv'
      BY <2>1, <3>1 DEF RequestInv
    <3>5. AlignedInv' /\ OutcomeInv'
      BY <1>7, <3>1, <3>2 DEF AlignedInv, OutcomeInv, FaultOnlyIfRefused
    <3> QED
      BY <3>3, <3>4, <3>5
  <2>3. CASE page \in committed'
    <3>1. handed' = [handed EXCEPT ![idx] = @ \union {page}] /\ given' = given + 1
      BY <1>5, <2>3 DEF HandOut
    <3>8. given' \in Nat
      BY <2>1, <3>1
    <3>2. /\ handed' \in [Idx -> SUBSET Page]
          /\ \A i \in Idx : handed'[i] = IF i = idx THEN handed[i] \union {page} ELSE handed[i]
      BY <1>4, <2>1, <3>1
    <3>3. BucketFromAddress'
      BY <1>4, <2>1, <3>2 DEF BucketFromAddress
    <3>4. \A i \in Idx : handed'[i] = UsedPages(list', i) /\ UsedInOrder(list', i, indexHead'[i])
      BY <1>13, <2>1, <3>2
    <3>5. HandedInv(list)'
      BY <3>2, <3>3, <3>4, <3>8 DEF HandedInv
    <3>6. CASE Scattered(page)
      <4>1. status' = "scattered" /\ request' = request
        BY <1>5, <2>3, <3>6 DEF HandOut
      <4> QED
        BY <1>7, <2>1, <3>5, <4>1
           DEF RequestInv, AlignedInv, OutcomeInv, FaultOnlyIfRefused
    <3>7. CASE ~Scattered(page)
      <4> DEFINE r == [Collected(page) EXCEPT
                         !.active = Collected(page).count < MultipagePageCnt]
      <4>1. status' = "ok" /\ request' = r
        BY <1>5, <2>1, <2>3, <3>7 DEF HandOut
      <4>2. /\ r \in Request
            /\ r.active = (request.count + 1 < MultipagePageCnt)
            /\ r.idx = request.idx
            /\ r.count = request.count + 1
            /\ r.sz1 + r.sz2 = r.count
            /\ r.ptr2 = None => r.sz2 = 0
        BY <1>4, <2>1, CollectOne
      <4> HIDE DEF r
      <4>3. RequestInv'
        BY <4>1, <4>2 DEF RequestInv
      <4>4. OutcomeInv'
        BY <1>7, <4>1 DEF OutcomeInv, FaultOnlyIfRefused
      <4>5. ASSUME NEW i \in Idx
            PROVE  list'[indexHead'[i]].nextToUse[i] % MultipagePageCnt = Collecting(i)'
        <5>1. CASE i = idx
          <6>1. indexHead'[i] = h /\ list'[h].nextToUse[i] = slot + 1
            BY <1>1, <1>5, <1>6, <5>1 DEF TakePageReady
          <6>2. request.count \in Nat /\ request.count < MultipagePageCnt
            BY <2>1, MultipagePageCntAssumption DEF RequestInv, Request
          <6>3. slot % MultipagePageCnt = request.count
            BY DEF TakePageReady
          <6> HIDE DEF slot
          <6>4. (slot + 1) % MultipagePageCnt
                  = IF request.count + 1 < MultipagePageCnt THEN request.count + 1 ELSE 0
            BY <1>2, <6>2, <6>3, SlotAdvance
          <6> QED
            BY <2>1, <4>1, <4>2, <5>1, <6>1, <6>4 DEF Collecting
        <5>2. CASE i # idx
          <6>1. indexHead'[i] = indexHead[i] /\ indexHead[i] \in 1 .. Len(l)
            BY <1>5, <5>2 DEF TakePageReady
          <6>2. list'[indexHead[i]].nextToUse[i] = l[indexHead[i]].nextToUse[i]
            BY <1>6, <5>2, <6>1
          <6>3. l[indexHead[i]].nextToUse[i] % MultipagePageCnt = 0
            BY <5>2 DEF TakePageReady
          <6>4. Collecting(i)' = 0
            BY <2>1, <4>1, <4>2, <5>2 DEF Collecting
          <6> QED
            BY <6>1, <6>2, <6>3, <6>4
        <5> QED
          BY <5>1, <5>2
      <4>6. AlignedInv'
        BY <4>5 DEF AlignedInv
      <4> QED
        BY <3>5, <4>3, <4>4, <4>6
    <3> QED
      BY <3>6, <3>7
  <2> QED
    BY <2>2, <2>3
<1> QED
  BY <1>6, <1>7, <1>8, <1>9, <1>10, <1>11, <1>12, <1>14 DEF IInv

(* Each branch of getPage finds the list ready for TakePage. *)
LEMMA HeadIsReady ==
  ASSUME IInv, NEW idx \in Idx, getPageFromHead(idx)
  PROVE  indexHead[idx] \in 2 .. Len(list) /\ TakePageReady(idx, list, indexHead[idx])
<1> DEFINE h == indexHead[idx]
<1>1. h \in 1 .. Len(list) /\ Len(list) \in Nat
  BY DEF IInv, ListInv
<1>2. list[h].nextToUse[idx] < PagesPerBucket
  BY DEF getPageFromHead, InUse
<1>3. h # 1
  <2>1. list[1].nextToUse[idx] = PagesPerBucket
    BY DEF IInv, ListInv, pageBlockListStart
  <2> QED
    BY <1>2, <2>1, PagesPerBucketAssumption
<1>4. status = "ok" /\ request.active /\ request.idx = idx
  BY DEF getPageFromHead, Busy
<1>5. /\ list[h].nextToUse[idx] % MultipagePageCnt = request.count
      /\ \A i \in Idx \ {idx} : list[indexHead[i]].nextToUse[i] % MultipagePageCnt = 0
  BY <1>4 DEF IInv, AlignedInv, Collecting
<1>6. UsedInOrder(list, idx, h)
  BY <1>4 DEF IInv, HandedInv
<1>7. /\ ListInv(list) /\ Len(list) <= MaxBlocks + 1
      /\ indexHead \in [Idx -> 1 .. Len(list)]
      /\ CountersInv(list) /\ BackedInv(list) /\ committed \subseteq BlocksOf(list)
      /\ HandedInv(list) /\ RequestInv /\ OutcomeInv
  BY DEF IInv
<1> QED
  BY <1>1, <1>2, <1>3, <1>4, <1>5, <1>6, <1>7 DEF TakePageReady

(* A bucket that has used its block up is at the start of a request. *)
LEMMA UsedUpAtStart ==
  ASSUME IInv, NEW idx \in Idx, Busy(idx), HeadUsedUp(idx)
  PROVE  /\ request.count = 0
         /\ \A i \in Idx \ {idx} :
              list[indexHead[i]].nextToUse[i] % MultipagePageCnt = 0
<1>1. status = "ok" /\ request.active /\ request.idx = idx
  BY DEF Busy
<1>2. list[indexHead[idx]].nextToUse[idx] = PagesPerBucket
  BY DEF HeadUsedUp, InUse
<1> QED
  BY <1>1, <1>2, MultipagePageCntAssumption DEF IInv, AlignedInv, Collecting

(* The next block of the list is ready for a bucket that used up its own. *)
LEMMA NextIsReady ==
  ASSUME IInv, NEW idx \in Idx, getPageFromNext(idx)
  PROVE  /\ indexHead[idx] + 1 \in 2 .. Len(list)
         /\ TakePageReady(idx, list, indexHead[idx] + 1)
<1> DEFINE h == indexHead[idx]
<1>1. h \in 1 .. Len(list) /\ Len(list) \in Nat /\ h < Len(list)
  BY DEF IInv, ListInv, getPageFromNext
<1>2. status = "ok" /\ request.active /\ request.idx = idx
  BY DEF getPageFromNext, Busy
<1>3. UsedInOrder(list, idx, h)
  BY <1>2 DEF IInv, HandedInv
<1>4. list[h].nextToUse[idx] = PagesPerBucket
  BY DEF getPageFromNext, HeadUsedUp, InUse
<1>5. list[h + 1].nextToUse[idx] = 0
  BY <1>1, <1>3 DEF UsedInOrder
<1>6. UsedInOrder(list, idx, h + 1)
  BY <1>1, <1>3, <1>4 DEF UsedInOrder
<1>7. /\ request.count = 0
      /\ \A i \in Idx \ {idx} : list[indexHead[i]].nextToUse[i] % MultipagePageCnt = 0
  BY UsedUpAtStart DEF getPageFromNext
<1>8. list[h + 1].nextToUse[idx] % MultipagePageCnt = request.count
      /\ list[h + 1].nextToUse[idx] < PagesPerBucket
  BY <1>5, <1>7, MultipagePageCntAssumption, PagesPerBucketAssumption
<1>9. /\ ListInv(list) /\ Len(list) <= MaxBlocks + 1
      /\ indexHead \in [Idx -> 1 .. Len(list)]
      /\ CountersInv(list) /\ BackedInv(list) /\ committed \subseteq BlocksOf(list)
      /\ HandedInv(list) /\ RequestInv /\ OutcomeInv
  BY DEF IInv
<1> QED
  BY <1>1, <1>2, <1>6, <1>7, <1>8, <1>9 DEF TakePageReady

(* So is a new block appended to the list. *)
LEMMA NewIsReady ==
  ASSUME IInv, NEW idx \in Idx, NEW block \in Bases,
         Busy(idx), HeadUsedUp(idx), indexHead[idx] = Len(list),
         Len(list) <= MaxBlocks,
         BlockPages(block) \intersect Reserved = {}
  PROVE  LET l == Append(list, NewDescriptor(block))
         IN  /\ Len(list) + 1 \in 2 .. Len(l)
             /\ TakePageReady(idx, l, Len(list) + 1)
<1> DEFINE l == Append(list, NewDescriptor(block))
           n == Len(list)
<1>1. /\ ListInv(list) /\ CountersInv(list) /\ BackedInv(list)
      /\ n \in Nat /\ n >= 1
      /\ indexHead \in [Idx -> 1 .. n] /\ committed \subseteq BlocksOf(list)
      /\ HandedInv(list) /\ RequestInv /\ OutcomeInv
  BY DEF IInv, ListInv
<1>2. BlockPages(block) \intersect BlocksOf(list) = {}
  BY DEF Reserved, BlocksOf
<1>3. /\ ListInv(l) /\ Len(l) = n + 1
      /\ CountersInv(l)
      /\ BackedInv(l)
      /\ BlocksOf(list) \subseteq BlocksOf(l)
      /\ \A i \in Idx :
           /\ l[Len(l)].nextToUse[i] = 0
           /\ \A h \in 1 .. n : l[h] = list[h]
           /\ UsedPages(l, i) = UsedPages(list, i)
           /\ \A h \in 1 .. n : UsedInOrder(list, i, h) => UsedInOrder(l, i, h)
  BY <1>1, <1>2, AppendBlock
<1>4. status = "ok" /\ request.active /\ request.idx = idx
  BY DEF Busy
<1>5. \A i \in Idx : /\ handed[i] = UsedPages(list, i)
                     /\ UsedInOrder(list, i, indexHead[i])
  BY <1>1, <1>4 DEF HandedInv
<1> HIDE DEF l
<1>6. HandedInv(l)
  BY <1>1, <1>3, <1>5 DEF HandedInv
<1>7. indexHead \in [Idx -> 1 .. Len(l)]
  BY <1>1, <1>3
<1>8. list[n].nextToUse[idx] = PagesPerBucket
  BY DEF HeadUsedUp, InUse
<1>9. UsedInOrder(l, idx, n + 1)
  <2>1. UsedInOrder(l, idx, n)
    BY <1>1, <1>3, <1>5
  <2>2. l[n].nextToUse[idx] = PagesPerBucket
    BY <1>1, <1>3, <1>8
  <2> QED
    BY <1>1, <1>3, <2>1, <2>2 DEF UsedInOrder
<1>10. /\ request.count = 0
       /\ \A i \in Idx \ {idx} : list[indexHead[i]].nextToUse[i] % MultipagePageCnt = 0
  BY UsedUpAtStart
<1>11. \A i \in Idx \ {idx} : l[indexHead[i]].nextToUse[i] % MultipagePageCnt = 0
  BY <1>1, <1>3, <1>10
<1>12. /\ l[n + 1].nextToUse[idx] < PagesPerBucket
       /\ l[n + 1].nextToUse[idx] % MultipagePageCnt = request.count
  BY <1>3, <1>10, MultipagePageCntAssumption, PagesPerBucketAssumption
<1>13. n + 1 \in 2 .. Len(l) /\ Len(l) <= MaxBlocks + 1
  BY <1>1, <1>3, MaxBlocksAssumption
<1> QED
  BY <1>1, <1>3, <1>4, <1>6, <1>7, <1>9, <1>11, <1>12, <1>13 DEF TakePageReady, l

-----------------------------------------------------------------------------
(* Starting a request keeps the invariant. *)
LEMMA RequestStarts ==
  ASSUME IInv, NEW idx \in Idx, getMultipage(idx)
  PROVE  IInv'
<1>1. /\ status = "ok" /\ ~request.active
      /\ request' = [NoRequest EXCEPT !.active = TRUE, !.idx = idx]
      /\ UNCHANGED <<list, indexHead, committed, handed, given, refused, status>>
  BY DEF getMultipage
<1>2. RequestInv'
  <2>1. 0 \in 0 .. MultipagePageCnt /\ 0 < MultipagePageCnt /\ 0 + 0 = 0
    BY MultipagePageCntAssumption
  <2>2. request' = [active |-> TRUE, idx |-> idx, count |-> 0,
                    ptr1 |-> None, sz1 |-> 0, ptr2 |-> None, sz2 |-> 0]
    BY <1>1 DEF NoRequest
  <2> QED
    BY <2>1, <2>2 DEF RequestInv, Request
<1>3. AlignedInv'
  BY <1>1 DEF IInv, AlignedInv, Collecting, NoRequest
<1>4. HandedInv(list)' /\ OutcomeInv' /\ BackedInv(list)'
  BY <1>1 DEF IInv, HandedInv, BucketFromAddress, OutcomeInv, FaultOnlyIfRefused, BackedInv
<1> QED
  BY <1>1, <1>2, <1>3, <1>4 DEF IInv

(* So does leaving one with an exception. *)
LEMMA RequestAbandoned ==
  ASSUME IInv, NEW idx \in Idx, descriptorRefused(idx)
  PROVE  IInv' /\ request'.count = 0
<1>1. /\ Busy(idx) /\ HeadUsedUp(idx)
      /\ request' = [request EXCEPT !.active = FALSE]
      /\ UNCHANGED <<list, indexHead, committed, handed, given, refused, status>>
  BY DEF descriptorRefused
<1>2. request.count = 0
  BY <1>1, UsedUpAtStart
<1>3. RequestInv' /\ request'.count = 0 /\ request'.active = FALSE
  BY <1>1, <1>2 DEF IInv, RequestInv, Request
<1>4. AlignedInv'
  BY <1>1, <1>2, <1>3 DEF IInv, AlignedInv, Collecting, Busy
<1>5. HandedInv(list)' /\ OutcomeInv' /\ BackedInv(list)'
  BY <1>1 DEF IInv, HandedInv, BucketFromAddress, OutcomeInv, FaultOnlyIfRefused, BackedInv
<1> QED
  BY <1>1, <1>3, <1>4, <1>5 DEF IInv

(* So does the end of the process. *)
LEMMA ProcessEnds ==
  ASSUME IInv, NEW idx \in Idx, reservationRefused(idx)
  PROVE  IInv'
<1>1. status' = "noSpace" /\ UNCHANGED <<list, indexHead, committed, handed, given, request, refused>>
  BY DEF reservationRefused
<1> QED
  BY <1>1 DEF IInv, HandedInv, BucketFromAddress, OutcomeInv, FaultOnlyIfRefused,
              BackedInv, RequestInv, AlignedInv

(* So does giving all blocks back. *)
LEMMA TornDown ==
  ASSUME IInv, deinitialize
  PROVE  IInv'
<1>1. status = "ok"
  BY DEF deinitialize
<1>2. /\ list' = <<pageBlockListStart>> /\ indexHead' = [i \in Idx |-> 1]
      /\ committed' = {} /\ handed' = [i \in Idx |-> {}] /\ given' = 0
      /\ request' = NoRequest /\ refused' = FALSE /\ status' = "ok"
  BY <1>1 DEF deinitialize
<1>3. Init'
  BY <1>2 DEF Init
<1> QED
  BY <1>3, InitInv, PTL

(* Every step preserves the invariant. *)
LEMMA NextInv == IInv /\ [Next]_vars => IInv'
<1> SUFFICES ASSUME IInv, [Next]_vars PROVE IInv'
  OBVIOUS
<1>1. CASE UNCHANGED vars
  BY <1>1 DEF vars, IInv, HandedInv, BucketFromAddress, OutcomeInv, FaultOnlyIfRefused,
              BackedInv, RequestInv, AlignedInv, Collecting
<1>2. ASSUME NEW idx \in Idx, getMultipage(idx) PROVE IInv'
  BY <1>2, RequestStarts
<1>3. ASSUME NEW idx \in Idx, getPageFromHead(idx) PROVE IInv'
  <2>1. TakePage(idx, list, indexHead[idx])
    BY <1>3 DEF getPageFromHead
  <2> QED
    BY <1>3, <2>1, HeadIsReady, TakePageInv
<1>4. ASSUME NEW idx \in Idx, getPageFromNext(idx) PROVE IInv'
  <2>1. TakePage(idx, list, indexHead[idx] + 1)
    BY <1>4 DEF getPageFromNext
  <2> QED
    BY <1>4, <2>1, NextIsReady, TakePageInv
<1>5. ASSUME NEW idx \in Idx, createNextBlockAndGetPage(idx) PROVE IInv'
  <2>1. PICK block \in Bases :
          /\ BlockPages(block) \intersect Reserved = {}
          /\ TakePage(idx, Append(list, NewDescriptor(block)), Len(list) + 1)
    BY <1>5 DEF createNextBlockAndGetPage
  <2>2. Busy(idx) /\ HeadUsedUp(idx) /\ indexHead[idx] = Len(list) /\ Len(list) <= MaxBlocks
    BY <1>5 DEF createNextBlockAndGetPage
  <2> QED
    BY <2>1, <2>2, NewIsReady, TakePageInv
<1>6. ASSUME NEW idx \in Idx, descriptorRefused(idx) PROVE IInv'
  BY <1>6, RequestAbandoned
<1>7. ASSUME NEW idx \in Idx, reservationRefused(idx) PROVE IInv'
  BY <1>7, ProcessEnds
<1>8. ASSUME deinitialize PROVE IInv'
  BY <1>8, TornDown
<1> QED
  BY <1>1, <1>2, <1>3, <1>4, <1>5, <1>6, <1>7, <1>8 DEF Next

(* The invariant holds in every reachable state. *)
THEOREM InvariantHolds == Spec => []IInv
<1> QED
  BY InitInv, NextInv, PTL DEF Spec

(* Type correctness. *)
THEOREM TypeCorrect == Spec => []TypeOK
<1> QED
  BY InvariantHolds, InvImpliesTypeOK, PTL

(* The bucket can always be read off a page's address: what deallocate     *)
(* relies on to find the free list of an object.                           *)
THEOREM BucketIsInAddress == Spec => []BucketFromAddress
<1>1. IInv => BucketFromAddress
  BY DEF IInv, HandedInv
<1> QED
  BY <1>1, InvariantHolds, PTL

(* No CommitMemory call ever leaves the address space reserved for it.     *)
THEOREM CommitsAreReserved == Spec => []CommitsStayReserved
<1>1. IInv => CommitsStayReserved
  BY DEF IInv, CommitsStayReserved, BlocksOf, Reserved
<1> QED
  BY <1>1, InvariantHolds, PTL

(* The slots the descriptors count as used are the pages handed out.       *)
THEOREM NoPageIsSkipped == Spec => []NoPageSkipped
<1>1. IInv => NoPageSkipped
  BY DEF IInv, HandedInv, NoPageSkipped
<1> QED
  BY <1>1, InvariantHolds, PTL

(* The test write faults only when the OS refused memory.                  *)
THEOREM FaultNeedsRefusal == Spec => []FaultOnlyIfRefused
<1>1. IInv => FaultOnlyIfRefused
  BY DEF IInv, OutcomeInv
<1> QED
  BY <1>1, InvariantHolds, PTL

(* An exception never loses a page: getMultipage is left early only before *)
(* its first page, because requests do not run from one block into the     *)
(* next.                                                                   *)
THEOREM NothingAbandoned == Spec => AbandonLosesNothing
<1>1. IInv /\ [Next]_vars => [AbandonedEmpty]_vars
  <2> SUFFICES ASSUME IInv, Next, request.active, ~request'.active
               PROVE  request'.count \in {0, MultipagePageCnt}
    BY DEF AbandonedEmpty
  <2>1. ASSUME NEW idx \in Idx, getMultipage(idx) PROVE FALSE
    BY <2>1 DEF getMultipage
  <2>2. ASSUME NEW idx \in Idx, NEW page,
               HandOut(idx, page), page \in Page \/ page \notin committed'
        PROVE  request'.count = MultipagePageCnt
    <3>1. request' # request
      OBVIOUS
    <3>2. /\ page \in committed'
          /\ request' = [Collected(page) EXCEPT
                           !.active = Collected(page).count < MultipagePageCnt]
      BY <2>2, <3>1 DEF HandOut
    <3>3. RequestInv
      BY DEF IInv
    <3>4. /\ request'.active = (request.count + 1 < MultipagePageCnt)
          /\ request'.count = request.count + 1
      BY <2>2, <3>2, <3>3, CollectOne
    <3>5. request.count \in Nat /\ request.count < MultipagePageCnt
      BY <3>3, MultipagePageCntAssumption DEF RequestInv, Request
    <3>6. ~(request.count + 1 < MultipagePageCnt)
      BY <3>4, Zenon
    <3> QED
      BY <3>4, <3>5, <3>6, MultipagePageCntAssumption
  <2>3. ASSUME NEW idx \in Idx, NEW l, NEW h, TakePage(idx, l, h)
        PROVE  request'.count = MultipagePageCnt
    <3>1. HandOut(idx, idxToPageAddr(l[h].blockAddress, idx, l[h].nextToUse[idx]))
      BY <2>3 DEF TakePage
    <3>2. committed' \subseteq Page
      BY NextInv, BlocksArePages DEF IInv
    <3> QED
      BY <2>2, <3>1, <3>2
  <2>4. ASSUME NEW idx \in Idx, descriptorRefused(idx) PROVE request'.count = 0
    BY <2>4, RequestAbandoned
  <2>5. ASSUME NEW idx \in Idx, reservationRefused(idx) PROVE FALSE
    BY <2>5 DEF reservationRefused
  <2>6. ASSUME deinitialize PROVE FALSE
    BY <2>6 DEF deinitialize
  <2> QED
    BY <2>1, <2>3, <2>4, <2>5, <2>6
       DEF Next, getPageFromHead, getPageFromNext, createNextBlockAndGetPage
<1> QED
  BY <1>1, InvariantHolds, PTL DEF Spec, AbandonLosesNothing

-----------------------------------------------------------------------------
(***************************************************************************)
(* The two segments.  A request keeps to the slots s, s + 1, ... of one    *)
(* block, whose pages are two runs at most; what it has collected is the   *)
(* pages of those slots, the first run before the second.                  *)
(***************************************************************************)
SlotPage(b, i, s, k) == idxToPageAddr(b, i, s + k)

Collects(r, b, s) ==
  /\ s \in Nat /\ s + r.count <= PagesPerBucket
  /\ r.sz1 > 0 /\ r.sz1 + r.sz2 = r.count
  /\ \A k \in 0 .. r.sz1 - 1 : SlotPage(b, r.idx, s, k) = r.ptr1 + k
  /\ r.ptr2 = None => r.sz2 = 0
  /\ r.ptr2 # None =>
       /\ r.sz2 > 0
       /\ r.ptr2 # r.ptr1 + r.sz1
       /\ \A k \in 0 .. r.sz2 - 1 : SlotPage(b, r.idx, s, r.sz1 + k) = r.ptr2 + k

(* The slots collected end where the bucket's descriptor in use has got to. *)
EndsAt(r, b, s, d) ==
  b = d.blockAddress /\ s + r.count = d.nextToUse[r.idx]

Kept(r, b, s, pages) ==
  \A k \in 0 .. r.count - 1 : SlotPage(b, r.idx, s, k) \in pages

SegmentsInv ==
  /\ status # "scattered"
  /\ request.count = 0 => request.ptr2 = None
  /\ request.count > 0 =>
       \E b \in Bases, s \in Nat :
         /\ Collects(request, b, s)
         /\ status = "ok" => Kept(request, b, s, handed[request.idx])
         /\ status = "ok" /\ request.active =>
              EndsAt(request, b, s, list[indexHead[request.idx]])

(* Where the two runs meet: a second segment starts after the cut.         *)
LEMMA CollectedRuns ==
  ASSUME NEW b \in Bases, NEW s \in Nat, NEW r \in Request, r.count > 0,
         Collects(r, b, s)
  PROVE  \E base, cut \in Int :
           /\ \A k \in Nat : s + k < PagesPerBucket =>
                SlotPage(b, r.idx, s, k)
                  = base + (s + k) + IF s + k < cut THEN ReservationPages ELSE 0
           /\ r.ptr2 # None => s + r.sz1 >= cut
<1>1. b \in Nat /\ r.idx \in Idx /\ PagesPerBucket \in Nat
  BY BasesAssumption, PagesPerBucketAssumption DEF Request
<1>2. PICK base \in Int, cut \in Int :
        \A k \in Slot : idxToPageAddr(b, r.idx, k)
                         = base + k + IF k < cut THEN ReservationPages ELSE 0
  BY <1>1, SlotPages
<1>3. ASSUME NEW k \in Nat, s + k < PagesPerBucket
      PROVE  SlotPage(b, r.idx, s, k)
               = base + (s + k) + IF s + k < cut THEN ReservationPages ELSE 0
  <2>1. s + k \in Slot
    BY <1>1, <1>3 DEF Slot
  <2> QED
    BY <1>2, <2>1 DEF SlotPage
<1>4. ASSUME r.ptr2 # None PROVE s + r.sz1 >= cut
  <2>1. /\ r.count \in Nat /\ r.sz1 \in Nat /\ r.sz2 \in Nat
        /\ r.sz1 > 0 /\ r.sz2 > 0 /\ r.sz1 + r.sz2 = r.count
        /\ s + r.count <= PagesPerBucket
    BY <1>4 DEF Collects, Request
  <2>2. r.ptr1 \in Int /\ r.ptr2 \in Int
    BY BasesAssumption, ReservationPagesNat DEF Request, Page, BlockPages, None
  <2>3. SlotPage(b, r.idx, s, r.sz1 - 1) = r.ptr1 + (r.sz1 - 1)
    BY <2>1 DEF Collects
  <2>4. SlotPage(b, r.idx, s, r.sz1) = r.ptr2
    <3>1. SlotPage(b, r.idx, s, r.sz1 + 0) = r.ptr2 + 0
      BY <1>4, <2>1 DEF Collects
    <3> QED
      BY <3>1, <2>1, <2>2
  <2>5. r.ptr2 # r.ptr1 + r.sz1
    BY <1>4 DEF Collects
  <2>6. /\ SlotPage(b, r.idx, s, r.sz1 - 1)
              = base + (s + (r.sz1 - 1))
                  + IF s + (r.sz1 - 1) < cut THEN ReservationPages ELSE 0
        /\ SlotPage(b, r.idx, s, r.sz1)
              = base + (s + r.sz1) + IF s + r.sz1 < cut THEN ReservationPages ELSE 0
    <3>1. r.sz1 - 1 \in Nat /\ s + (r.sz1 - 1) < PagesPerBucket
          /\ s + r.sz1 < PagesPerBucket
      BY <1>1, <2>1
    <3> QED
      BY <2>1, <3>1, <1>3
  <2> QED
    BY <2>1, <2>2, <2>3, <2>4, <2>5, <2>6, ReservationPagesNat
<1> QED
  BY <1>3, <1>4

(* The request after one page more. *)
NextRequest(page) ==
  [Collected(page) EXCEPT !.active = Collected(page).count < MultipagePageCnt]

(* The first page of a request is its first segment. *)
LEMMA CollectFirst ==
  ASSUME RequestInv, request.active, request.count = 0, request.ptr2 = None,
         NEW page \in Page, NEW b, NEW s \in Nat, s < PagesPerBucket,
         page = idxToPageAddr(b, request.idx, s)
  PROVE  ~Scattered(page) /\ Collects(NextRequest(page), b, s)
<1> DEFINE r == NextRequest(page)
<1>1. request \in Request /\ request.sz2 = 0 /\ PagesPerBucket \in Nat /\ page \in Int
  BY BasesAssumption, ReservationPagesNat, PagesPerBucketAssumption
     DEF RequestInv, Request, Page, BlockPages
<1>2. Collected(page) = [request EXCEPT !.count = 1, !.ptr1 = page, !.sz1 = 1]
  BY DEF Collected
<1>3. /\ r.count = 1 /\ r.idx = request.idx /\ r.sz1 = 1 /\ r.sz2 = 0
      /\ r.ptr1 = page /\ r.ptr2 = None
  BY <1>1, <1>2 DEF NextRequest, Request
<1> HIDE DEF r
<1>4. ASSUME NEW k \in 0 .. r.sz1 - 1
      PROVE  SlotPage(b, r.idx, s, k) = r.ptr1 + k
  <2>1. k = 0 /\ s + k = s
    BY <1>3, <1>4
  <2> QED
    BY <1>1, <1>3, <2>1 DEF SlotPage
<1> QED
  BY <1>1, <1>3, <1>4 DEF Collects, Scattered, r

(* Every page after it makes a segment longer or starts the second, and    *)
(* never a third.                                                          *)
LEMMA CollectNext ==
  ASSUME RequestInv, request.active, request.count > 0,
         NEW b \in Bases, NEW s \in Nat, Collects(request, b, s),
         s + request.count < PagesPerBucket,
         NEW page \in Page, page = SlotPage(b, request.idx, s, request.count)
  PROVE  ~Scattered(page) /\ Collects(NextRequest(page), b, s)
<1> DEFINE r == NextRequest(page)
           q == request
           At(k) == SlotPage(b, q.idx, s, k)
<1>1. /\ q \in Request /\ PagesPerBucket \in Nat /\ page \in Int /\ page # None
      /\ q.count \in Nat /\ q.sz1 \in Nat /\ q.sz2 \in Nat
      /\ q.ptr1 \in Int /\ q.ptr2 \in Int
  BY BasesAssumption, ReservationPagesNat, PagesPerBucketAssumption
     DEF RequestInv, Request, Page, BlockPages, None
<1>2. /\ q.sz1 > 0 /\ q.sz1 + q.sz2 = q.count
      /\ \A k \in 0 .. q.sz1 - 1 : At(k) = q.ptr1 + k
      /\ q.ptr2 = None => q.sz2 = 0
      /\ q.ptr2 # None => /\ q.sz2 > 0
                         /\ q.ptr2 # q.ptr1 + q.sz1
                         /\ \A k \in 0 .. q.sz2 - 1 : At(q.sz1 + k) = q.ptr2 + k
  BY DEF Collects
<1>3. PICK base \in Int, cut \in Int :
        /\ \A k \in Nat : s + k < PagesPerBucket =>
             At(k) = base + (s + k) + IF s + k < cut THEN ReservationPages ELSE 0
        /\ q.ptr2 # None => s + q.sz1 >= cut
  BY <1>1, CollectedRuns
<1>4. page = At(q.count)
  OBVIOUS
<1> HIDE DEF At
<1>5. ~Scattered(page)
  <2> SUFFICES ASSUME q.ptr2 # None PROVE q.ptr2 + q.sz2 = page
    BY DEF Scattered
  <2>1. At(q.sz1 + (q.sz2 - 1)) = q.ptr2 + (q.sz2 - 1)
    BY <1>1, <1>2
  <2>2. /\ q.sz1 + (q.sz2 - 1) \in Nat /\ s + (q.sz1 + (q.sz2 - 1)) < PagesPerBucket
        /\ ~(s + (q.sz1 + (q.sz2 - 1)) < cut) /\ ~(s + q.count < cut)
    BY <1>1, <1>2, <1>3
  <2>3. /\ At(q.sz1 + (q.sz2 - 1)) = base + (s + (q.sz1 + (q.sz2 - 1)))
        /\ At(q.count) = base + (s + q.count)
    BY <1>1, <1>3, <2>2
  <2> QED
    BY <1>1, <1>2, <1>4, <2>1, <2>3
<1>6. CASE q.ptr2 = None /\ q.ptr1 + q.sz1 = page
  <2>1. Collected(page) = [q EXCEPT !.count = q.count + 1, !.sz1 = q.sz1 + 1]
    BY <1>6, <1>1 DEF Collected
  <2>2. /\ r.count = q.count + 1 /\ r.idx = q.idx /\ r.sz1 = q.sz1 + 1 /\ r.sz2 = 0
        /\ r.ptr1 = q.ptr1 /\ r.ptr2 = None
    BY <1>1, <1>2, <1>6, <2>1 DEF NextRequest, Request
  <2> HIDE DEF r
  <2>3. \A k \in 0 .. r.sz1 - 1 : SlotPage(b, r.idx, s, k) = r.ptr1 + k
    <3> SUFFICES ASSUME NEW k \in 0 .. q.sz1 PROVE At(k) = q.ptr1 + k
      BY <1>1, <2>2 DEF At
    <3>1. CASE k = q.sz1
      BY <3>1, <1>1, <1>2, <1>4, <1>6
    <3>2. CASE k # q.sz1
      BY <3>2, <1>1, <1>2
    <3> QED
      BY <3>1, <3>2
  <2> QED
    BY <1>1, <1>2, <1>5, <1>6, <2>2, <2>3 DEF Collects, r
<1>7. CASE q.ptr2 = None /\ q.ptr1 + q.sz1 # page
  <2>1. Collected(page) = [q EXCEPT !.count = q.count + 1, !.ptr2 = page, !.sz2 = 1]
    BY <1>7, <1>1 DEF Collected
  <2>2. /\ r.count = q.count + 1 /\ r.idx = q.idx /\ r.sz1 = q.sz1 /\ r.sz2 = 1
        /\ r.ptr1 = q.ptr1 /\ r.ptr2 = page
    BY <1>1, <1>2, <1>7, <2>1 DEF NextRequest, Request
  <2> HIDE DEF r
  <2>3. \A k \in 0 .. r.sz1 - 1 : SlotPage(b, r.idx, s, k) = r.ptr1 + k
    BY <1>2, <2>2 DEF At
  <2>4. \A k \in 0 .. r.sz2 - 1 : SlotPage(b, r.idx, s, r.sz1 + k) = r.ptr2 + k
    <3> SUFFICES ASSUME NEW k \in 0 .. 0 PROVE At(q.sz1 + k) = page + k
      BY <1>1, <2>2 DEF At
    <3> QED
      BY <1>1, <1>2, <1>4, <1>7
  <2> QED
    BY <1>1, <1>2, <1>5, <1>7, <2>2, <2>3, <2>4 DEF Collects, r
<1>8. CASE q.ptr2 # None
  <2>1. Collected(page) = [q EXCEPT !.count = q.count + 1, !.sz2 = q.sz2 + 1]
    BY <1>8, <1>1 DEF Collected
  <2>2. /\ r.count = q.count + 1 /\ r.idx = q.idx /\ r.sz1 = q.sz1 /\ r.sz2 = q.sz2 + 1
        /\ r.ptr1 = q.ptr1 /\ r.ptr2 = q.ptr2
    BY <1>1, <1>2, <1>8, <2>1 DEF NextRequest, Request
  <2> HIDE DEF r
  <2>3. \A k \in 0 .. r.sz1 - 1 : SlotPage(b, r.idx, s, k) = r.ptr1 + k
    BY <1>2, <2>2 DEF At
  <2>4. \A k \in 0 .. r.sz2 - 1 : SlotPage(b, r.idx, s, r.sz1 + k) = r.ptr2 + k
    <3> SUFFICES ASSUME NEW k \in 0 .. q.sz2 PROVE At(q.sz1 + k) = q.ptr2 + k
      BY <1>1, <2>2 DEF At
    <3>1. CASE k = q.sz2
      BY <3>1, <1>1, <1>2, <1>4, <1>5, <1>8 DEF Scattered
    <3>2. CASE k # q.sz2
      BY <3>2, <1>1, <1>2, <1>8
    <3> QED
      BY <3>1, <3>2
  <2> QED
    BY <1>1, <1>2, <1>5, <1>8, <2>2, <2>3, <2>4 DEF Collects, r
<1> QED
  BY <1>6, <1>7, <1>8

(* The slot a page was taken from is counted. *)
LEMMA SlotCounted ==
  ASSUME NEW l \in Seq(Descriptor), NEW h \in 1 .. Len(l), NEW idx \in Idx,
         NEW use, NEW commit
  PROVE  LET m == Counters(l, h, idx, use, commit)
         IN  m[h].blockAddress = l[h].blockAddress /\ m[h].nextToUse[idx] = use
<1>1. l[h] \in Descriptor /\ h \in DOMAIN l
  OBVIOUS
<1> DEFINE d == [[l[h] EXCEPT !.nextToUse[idx] = use] EXCEPT !.nextToCommit[idx] = commit]
<1>2. Counters(l, h, idx, use, commit)[h] = d
  BY <1>1 DEF Counters, Descriptor
<1>3. d.blockAddress = l[h].blockAddress /\ d.nextToUse[idx] = use
  BY <1>1 DEF Descriptor
<1> QED
  BY <1>2, <1>3

(* getPage, whichever of its branches, collects the page after the last.   *)
LEMMA TakePageSegments ==
  ASSUME NEW idx \in Idx, NEW l, NEW h \in 2 .. Len(l),
         TakePageReady(idx, l, h), TakePage(idx, l, h), IInv', SegmentsInv,
         request.count > 0 => l[h] = list[indexHead[idx]]
  PROVE  SegmentsInv'
<1> DEFINE b    == l[h].blockAddress
           slot == l[h].nextToUse[idx]
           page == idxToPageAddr(b, idx, slot)
<1>1. /\ status = "ok" /\ request.active /\ request.idx = idx
      /\ RequestInv /\ request \in Request /\ request.count \in Nat
      /\ indexHead \in [Idx -> 1 .. Len(l)] /\ handed \in [Idx -> SUBSET Page]
  BY DEF TakePageReady, RequestInv, Request, HandedInv
<1>2. l \in Seq(Descriptor) /\ h \in 1 .. Len(l) /\ l[h] \in Descriptor /\ b \in Bases
  BY DEF TakePageReady, ListInv
<1>3. slot \in Nat /\ slot < PagesPerBucket
  BY <1>2 DEF TakePageReady, Descriptor
<1>4. committed' \subseteq Page
  BY BlocksArePages DEF IInv
<1>5. HandOut(idx, page)
  BY DEF TakePage
<1>6. CASE page \notin committed'
  <2>1. status' = "fault" /\ handed' = handed /\ request' = request
    BY <1>5, <1>6 DEF HandOut
  <2> QED
    BY <2>1 DEF SegmentsInv
<1>7. CASE page \in committed'
  <2>1. page \in Page
    BY <1>4, <1>7
  <2>2. /\ handed' = [handed EXCEPT ![idx] = @ \union {page}]
        /\ ~Scattered(page) => status' = "ok" /\ request' = NextRequest(page)
    BY <1>1, <1>5, <1>7 DEF HandOut, NextRequest
  <2>3. /\ NextRequest(page).idx = idx /\ NextRequest(page).count = request.count + 1
        /\ NextRequest(page).active = (request.count + 1 < MultipagePageCnt)
    BY <1>1, <2>1, CollectOne DEF NextRequest
  <2>4. /\ list'[indexHead'[idx]].blockAddress = b
        /\ list'[indexHead'[idx]].nextToUse[idx] = slot + 1
    <3>1. indexHead'[idx] = h
      BY <1>1 DEF TakePage
    <3>2. \E commit : list' = Counters(l, h, idx, slot + 1, commit)
      BY DEF TakePage, Counters
    <3> QED
      BY <1>2, <3>1, <3>2, SlotCounted
  <2> HIDE DEF page, slot
  <2>5. SUFFICES \E s \in Nat :
          /\ ~Scattered(page) /\ Collects(NextRequest(page), b, s)
          /\ s + request.count = slot
          /\ request.count > 0 => Kept(request, b, s, handed[idx])
    <3>1. PICK s \in Nat :
            /\ ~Scattered(page) /\ Collects(NextRequest(page), b, s)
            /\ s + request.count = slot
            /\ request.count > 0 => Kept(request, b, s, handed[idx])
      BY <2>5
    <3>2. /\ status' = "ok" /\ request' = NextRequest(page)
          /\ request'.idx = idx /\ request'.count = request.count + 1
      BY <2>2, <2>3, <3>1
    <3>3. handed'[idx] = handed[idx] \union {page}
      BY <1>1, <2>2
    <3>4. Kept(request', b, s, handed'[idx])
      <4> SUFFICES ASSUME NEW k \in 0 .. request.count
                   PROVE  SlotPage(b, idx, s, k) \in handed'[idx]
        BY <1>1, <3>2 DEF Kept
      <4>1. CASE k = request.count
        BY <3>1, <3>3, <4>1 DEF SlotPage, page
      <4>2. CASE k # request.count
        BY <1>1, <3>1, <3>3, <4>2 DEF Kept
      <4> QED
        BY <4>1, <4>2
    <3>5. EndsAt(request', b, s, list'[indexHead'[idx]])
      <4>1. s \in Nat /\ request.count \in Nat /\ s + request.count = slot
        BY <1>1, <3>1
      <4>2. request'.count = request.count + 1
        BY <3>2
      <4>3. s + (request.count + 1) = slot + 1
        BY <4>1
      <4> QED
        BY <2>4, <3>2, <4>2, <4>3 DEF EndsAt
    <3>6. request'.count > 0 /\ Collects(request', b, s)
      BY <1>1, <3>1, <3>2
    <3> QED
      BY <1>2, <3>2, <3>4, <3>5, <3>6 DEF SegmentsInv
  <2>6. CASE request.count = 0
    <3>1. request.ptr2 = None /\ page = idxToPageAddr(b, idx, slot)
      BY <2>6 DEF SegmentsInv, page
    <3>2. ~Scattered(page) /\ Collects(NextRequest(page), b, slot)
      BY <1>1, <1>3, <2>1, <2>6, <3>1, CollectFirst
    <3>3. slot + request.count = slot
      BY <1>3, <2>6
    <3> QED
      BY <1>3, <2>6, <3>2, <3>3
  <2>7. CASE request.count > 0
    <3>1. PICK c \in Bases, s \in Nat :
            /\ Collects(request, c, s)
            /\ Kept(request, c, s, handed[idx])
            /\ EndsAt(request, c, s, list[indexHead[idx]])
      BY <1>1, <2>7 DEF SegmentsInv
    <3>2. c = b /\ s + request.count = slot
      BY <1>1, <2>7, <3>1 DEF EndsAt, slot
    <3>3. page = SlotPage(b, idx, s, request.count)
      BY <3>2 DEF SlotPage, page
    <3>4. ~Scattered(page) /\ Collects(NextRequest(page), b, s)
      BY <1>1, <1>2, <1>3, <2>1, <2>7, <3>1, <3>2, <3>3, CollectNext
    <3> QED
      BY <3>1, <3>2, <3>4
  <2> QED
    BY <1>1, <2>6, <2>7
<1> QED
  BY <1>6, <1>7

(* Every step keeps to the block and the slots of the request. *)
LEMMA SegmentsNext == IInv /\ IInv' /\ SegmentsInv /\ [Next]_vars => SegmentsInv'
<1> SUFFICES ASSUME IInv, IInv', SegmentsInv, [Next]_vars PROVE SegmentsInv'
  OBVIOUS
<1>1. ASSUME NEW idx \in Idx, getMultipage(idx) PROVE SegmentsInv'
  BY <1>1 DEF getMultipage, SegmentsInv, NoRequest
<1>2. ASSUME NEW idx \in Idx, getPageFromHead(idx) PROVE SegmentsInv'
  <2>1. TakePage(idx, list, indexHead[idx])
    BY <1>2 DEF getPageFromHead
  <2> QED
    BY <1>2, <2>1, HeadIsReady, TakePageSegments
<1>3. ASSUME NEW idx \in Idx, getPageFromNext(idx) PROVE SegmentsInv'
  <2>1. TakePage(idx, list, indexHead[idx] + 1) /\ Busy(idx) /\ HeadUsedUp(idx)
    BY <1>3 DEF getPageFromNext
  <2>2. ~(request.count > 0)
    BY <2>1, UsedUpAtStart
  <2> QED
    BY <1>3, <2>1, <2>2, NextIsReady, TakePageSegments
<1>4. ASSUME NEW idx \in Idx, createNextBlockAndGetPage(idx) PROVE SegmentsInv'
  <2>1. PICK block \in Bases :
          /\ BlockPages(block) \intersect Reserved = {}
          /\ TakePage(idx, Append(list, NewDescriptor(block)), Len(list) + 1)
    BY <1>4 DEF createNextBlockAndGetPage
  <2>2. Busy(idx) /\ HeadUsedUp(idx) /\ indexHead[idx] = Len(list)
        /\ Len(list) <= MaxBlocks
    BY <1>4 DEF createNextBlockAndGetPage
  <2>3. ~(request.count > 0)
    BY <2>2, UsedUpAtStart
  <2> QED
    BY <2>1, <2>2, <2>3, NewIsReady, TakePageSegments
<1>5. ASSUME NEW idx \in Idx, descriptorRefused(idx) PROVE SegmentsInv'
  <2>1. request.count = 0
    BY <1>5, UsedUpAtStart DEF descriptorRefused
  <2>2. request'.count = 0 /\ request'.ptr2 = request.ptr2
    BY <1>5, <2>1 DEF descriptorRefused, IInv, RequestInv, Request
  <2> QED
    BY <1>5, <2>1, <2>2 DEF descriptorRefused, SegmentsInv
<1>6. ASSUME NEW idx \in Idx, reservationRefused(idx) PROVE SegmentsInv'
  BY <1>6 DEF reservationRefused, SegmentsInv
<1>7. ASSUME deinitialize PROVE SegmentsInv'
  BY <1>7 DEF deinitialize, SegmentsInv, NoRequest
<1>8. CASE UNCHANGED vars
  BY <1>8 DEF vars, SegmentsInv
<1> QED
  BY <1>1, <1>2, <1>3, <1>4, <1>5, <1>6, <1>7, <1>8 DEF Next

(* A complete request names the pages it was given, each once.             *)
LEMMA SegmentsFollow == IInv /\ SegmentsInv => SegmentsAreHanded
<1> SUFFICES ASSUME IInv, SegmentsInv, ~request.active, request.count = MultipagePageCnt
             PROVE  LET first  == Segment(request.ptr1, request.sz1)
                        second == Segment(request.ptr2, request.sz2)
                    IN  /\ request.sz1 + request.sz2 = MultipagePageCnt
                        /\ first \intersect second = {}
                        /\ status = "ok" =>
                             first \union second \subseteq handed[request.idx]
  BY DEF SegmentsAreHanded, SegmentsInv
<1> DEFINE q == request
           first  == Segment(q.ptr1, q.sz1)
           second == Segment(q.ptr2, q.sz2)
           At(b, s, k) == SlotPage(b, q.idx, s, k)
<1>1. /\ q \in Request /\ q.sz1 \in Nat /\ q.sz2 \in Nat /\ q.count \in Nat
      /\ q.count > 0 /\ q.idx \in Idx /\ q.sz1 + q.sz2 = q.count
      /\ PagesPerBucket \in Nat
  BY MultipagePageCntAssumption, PagesPerBucketAssumption DEF IInv, RequestInv, Request
<1>2. PICK b \in Bases, s \in Nat :
        Collects(q, b, s) /\ (status = "ok" => Kept(q, b, s, handed[q.idx]))
  BY <1>1 DEF SegmentsInv
<1>3. \A x \in first : \E k \in 0 .. q.sz1 - 1 : x = At(b, s, k)
  BY <1>2 DEF Segment, Collects
<1>4. \A x \in second : \E k \in 0 .. q.sz2 - 1 : x = At(b, s, q.sz1 + k)
  <2>1. q.ptr2 = None => second = {}
    BY <1>2 DEF Segment, Collects
  <2> QED
    BY <1>2, <2>1 DEF Segment, Collects
<1>5. ASSUME NEW j \in 0 .. q.count - 1, NEW k \in 0 .. q.count - 1, At(b, s, j) = At(b, s, k)
      PROVE  j = k
  <2>1. s + j \in Slot /\ s + k \in Slot /\ b \in Nat
    BY <1>1, <1>2, BasesAssumption DEF Collects, Slot
  <2>2. s + j = s + k
    BY <1>1, <1>5, <2>1, PageAddressInjective DEF SlotPage
  <2> QED
    BY <2>2
<1> HIDE DEF first, second, At
<1>6. first \intersect second = {}
  <2> SUFFICES ASSUME NEW x, x \in first, x \in second PROVE FALSE
    OBVIOUS
  <2>1. PICK j \in 0 .. q.sz1 - 1 : x = At(b, s, j)
    BY <1>3
  <2>2. PICK k \in 0 .. q.sz2 - 1 : x = At(b, s, q.sz1 + k)
    BY <1>4
  <2>3. j \in 0 .. q.count - 1 /\ q.sz1 + k \in 0 .. q.count - 1 /\ j # q.sz1 + k
    BY <1>1
  <2> QED
    BY <1>5, <2>1, <2>2, <2>3
<1>7. ASSUME status = "ok" PROVE first \union second \subseteq handed[q.idx]
  <2>1. \A k \in 0 .. q.count - 1 : At(b, s, k) \in handed[q.idx]
    BY <1>2, <1>7 DEF Kept, At
  <2>2. \A k \in 0 .. q.sz1 - 1 : k \in 0 .. q.count - 1
    BY <1>1
  <2>3. \A k \in 0 .. q.sz2 - 1 : q.sz1 + k \in 0 .. q.count - 1
    BY <1>1
  <2> QED
    BY <1>3, <1>4, <2>1, <2>2, <2>3
<1> QED
  BY <1>1, <1>6, <1>7 DEF first, second

(* getMultipage never meets a third segment, and its two segments are      *)
(* the pages it was given, each of them once and all of its own bucket.    *)
THEOREM SegmentsHanded == Spec => []SegmentsAreHanded
<1>1. Init => SegmentsInv
  BY DEF Init, SegmentsInv, NoRequest
<1> QED
  BY <1>1, InvariantHolds, SegmentsNext, SegmentsFollow, PTL DEF Spec

-----------------------------------------------------------------------------
(* A step that takes a page is, for the abstract source, a page given, or  *)
(* nothing when the process ends at the test write.                        *)
LEMMA TakePageGives ==
  ASSUME NEW idx \in Idx, NEW l, NEW h \in 2 .. Len(l),
         TakePageReady(idx, l, h), TakePage(idx, l, h), committed' \subseteq Page
  PROVE  \/ \E page \in Page : Source!Give(idx, page)
         \/ UNCHANGED <<handed, given>>
<1> DEFINE page == idxToPageAddr(l[h].blockAddress, idx, l[h].nextToUse[idx])
<1>1. HandOut(idx, page)
  BY DEF TakePage
<1>2. CASE page \notin committed'
  BY <1>1, <1>2 DEF HandOut
<1>3. CASE page \in committed'
  <2>1. /\ handed' = [handed EXCEPT ![idx] = @ \union {page}] /\ page \in Page
        /\ given' = given + 1
    BY <1>1, <1>3 DEF HandOut
  <2>2. \A i \in Idx : page \notin UsedPages(l, i)
    BY NextPageIsNew DEF TakePageReady
  <2>3. \A i \in Idx : page \notin handed[i]
    BY <2>2 DEF TakePageReady, HandedInv
  <2> QED
    BY <2>1, <2>3 DEF Source!Give
<1> QED
  BY <1>2, <1>3

(* The allocator implements the abstract source of new pages.              *)
THEOREM ImplementsPageSource == Spec => IsPageSource
<1>1. Init => Source!PageSourceInit
  BY DEF Init, Source!PageSourceInit
<1>2. IInv /\ IInv' /\ [Next]_vars => [Source!PageSourceNext]_<<handed, given>>
  <2> SUFFICES ASSUME IInv, IInv', [Next]_vars, ~UNCHANGED <<handed, given>>
               PROVE  Source!PageSourceNext
    OBVIOUS
  <2>1. committed' \subseteq Page
    BY BlocksArePages DEF IInv
  <2>2. ASSUME NEW idx \in Idx, getPageFromHead(idx) PROVE Source!PageSourceNext
    <3>1. TakePage(idx, list, indexHead[idx])
      BY <2>2 DEF getPageFromHead
    <3> QED
      BY <2>1, <2>2, <3>1, HeadIsReady, TakePageGives DEF Source!PageSourceNext
  <2>3. ASSUME NEW idx \in Idx, getPageFromNext(idx) PROVE Source!PageSourceNext
    <3>1. TakePage(idx, list, indexHead[idx] + 1)
      BY <2>3 DEF getPageFromNext
    <3> QED
      BY <2>1, <2>3, <3>1, NextIsReady, TakePageGives DEF Source!PageSourceNext
  <2>4. ASSUME NEW idx \in Idx, createNextBlockAndGetPage(idx)
        PROVE  Source!PageSourceNext
    <3>1. PICK block \in Bases :
            /\ BlockPages(block) \intersect Reserved = {}
            /\ TakePage(idx, Append(list, NewDescriptor(block)), Len(list) + 1)
      BY <2>4 DEF createNextBlockAndGetPage
    <3>2. Busy(idx) /\ HeadUsedUp(idx) /\ indexHead[idx] = Len(list)
          /\ Len(list) <= MaxBlocks
      BY <2>4 DEF createNextBlockAndGetPage
    <3> QED
      BY <2>1, <3>1, <3>2, NewIsReady, TakePageGives DEF Source!PageSourceNext
  <2>5. ASSUME deinitialize PROVE Source!PageSourceNext
    BY <2>5 DEF deinitialize, Source!PageSourceNext, Source!Reset
  <2> QED
    BY <2>2, <2>3, <2>4, <2>5
       DEF Next, vars, getMultipage, descriptorRefused, reservationRefused
<1> QED
  BY <1>1, <1>2, InvariantHolds, PTL DEF Spec, IsPageSource, Source!PageSourceSpec
=============================================================================
