--------------------------- MODULE SoundingPages ---------------------------
(***************************************************************************)
(* SoundingAddressPageAllocator: reserves blocks of address space, commits *)
(* the pages of each bucket a range at a time and hands them out, several  *)
(* pages per request (getMultipage).  The OS may put a block anywhere, may *)
(* refuse any single commit, and may refuse a reservation; the code only   *)
(* logs a refused commit and finds out when it writes to the page.         *)
(***************************************************************************)
EXTENDS PageAddress, Sequences, FiniteSets

CONSTANTS
  CommitPageCnt,     \* pages committed at a time (commit_page_cnt)
  MultipagePageCnt,  \* pages of one request (multipage_page_cnt)
  Bases,             \* page numbers the OS may place a block at
  MaxBlocks          \* bound: blocks reserved between two resets

ASSUME CommitPageCntAssumption ==
  CommitPageCnt \in Nat \ {0} /\ PagesPerBucket % CommitPageCnt = 0
\* One page per request would select a branch that does not compile (the
\* misspelt asserrt), so the code needs more.
ASSUME MultipagePageCntAssumption ==
  MultipagePageCnt \in Nat \ {0, 1} /\ PagesPerBucket % MultipagePageCnt = 0
ASSUME BasesAssumption == Bases \subseteq Nat
ASSUME MaxBlocksAssumption == MaxBlocks \in Nat

VARIABLES
  list,       \* pageBlockListStart and the descriptors linked after it
  indexHead,  \* bucket -> position in list of the descriptor in use
  committed,  \* pages the OS has committed
  handed,     \* bucket -> pages handed out
  given,      \* history: how many pages were handed out since the last reset
  request,    \* the getMultipage call: in progress, or the last one
  refused,    \* history: the OS has refused a commit since the last reset
  status      \* "ok", or how the process ended

vars == <<list, indexHead, committed, handed, given, request, refused, status>>


Page == UNION {BlockPages(b) : b \in Bases}
None == -1

Descriptor == [blockAddress : Bases \union {None},
               nextToUse : [Idx -> 0 .. PagesPerBucket],
               nextToCommit : [Idx -> 0 .. PagesPerBucket]]

(***************************************************************************)
(* The static descriptor at the head of the list has no block and looks    *)
(* used up, which makes every bucket switch to the next one.               *)
(***************************************************************************)
pageBlockListStart ==
  [blockAddress |-> None,
   nextToUse    |-> [i \in Idx |-> PagesPerBucket],
   nextToCommit |-> [i \in Idx |-> PagesPerBucket]]

NewDescriptor(block) ==
  [blockAddress |-> block,
   nextToUse    |-> [i \in Idx |-> 0],
   nextToCommit |-> [i \in Idx |-> 0]]

(* What getMultipage has collected: page numbers and page counts of its two *)
(* segments, and how many pages it has asked for.                           *)
Request == [active : BOOLEAN, idx : Idx, count : 0 .. MultipagePageCnt,
            ptr1 : Page \union {None}, sz1 : 0 .. MultipagePageCnt,
            ptr2 : Page \union {None}, sz2 : 0 .. MultipagePageCnt]

NoRequest == [active |-> FALSE, idx |-> 0, count |-> 0,
              ptr1 |-> None, sz1 |-> 0, ptr2 |-> None, sz2 |-> 0]

Init ==
  /\ list = <<pageBlockListStart>>
  /\ indexHead = [i \in Idx |-> 1]
  /\ committed = {}
  /\ handed = [i \in Idx |-> {}]
  /\ given = 0
  /\ request = NoRequest
  /\ refused = FALSE
  /\ status = "ok"

(* A mistaken loop without the CommitMemory call after it: the last run of *)
(* the range is left out.                                                  *)
CommitRunsNoTail(block, idx, from) ==
  LET page(k) == idxToPageAddr(block, idx, k)
      range   == from .. from + CommitPageCnt - 1
  IN  {{page(k) : k \in {k \in range : page(k) > page(from + CommitPageCnt - 1)}}}

(***************************************************************************)
(* commitRangeOfPageIndexes: one CommitMemory call for each run of         *)
(* adjacent addresses in the range.  The OS grants any subset of them.     *)
(***************************************************************************)
CommitRuns(block, idx, from) ==
  LET page(k) == idxToPageAddr(block, idx, k)
      range   == from .. from + CommitPageCnt - 1
      SameRun(j, k) == \A i \in range :
        (j <= i /\ i < k) \/ (k <= i /\ i < j) => page(i + 1) = page(i) + 1
  IN  {{page(j) : j \in {j \in range : SameRun(j, k)}} : k \in range}

Commit(block, idx, from) ==
  \E granted \in SUBSET CommitRuns(block, idx, from) :
    /\ committed' = committed \union UNION granted
    /\ refused' = (refused \/ granted # CommitRuns(block, idx, from))

(* A mistaken loop that keeps extending the first segment's count. *)
CollectedNoBreak(page) ==
  IF request.count = 0
    THEN [request EXCEPT !.count = 1, !.ptr1 = page, !.sz1 = 1]
    ELSE [request EXCEPT !.count = @ + 1, !.sz1 = @ + 1]

(* getMultipage's bookkeeping for one page more. *)
Collected(page) ==
  CASE request.count = 0 ->
         [request EXCEPT !.count = 1, !.ptr1 = page, !.sz1 = 1]
    [] request.count > 0 /\ request.ptr2 = None
         /\ request.ptr1 + request.sz1 = page ->
         [request EXCEPT !.count = @ + 1, !.sz1 = @ + 1]
    [] request.count > 0 /\ request.ptr2 = None
         /\ request.ptr1 + request.sz1 # page ->
         [request EXCEPT !.count = @ + 1, !.ptr2 = page, !.sz2 = 1]
    [] OTHER -> [request EXCEPT !.count = @ + 1, !.sz2 = @ + 1]

(* The page starts a third segment: the loop breaks and the assertion that *)
(* all pages were collected fails.                                         *)
Scattered(page) ==
  /\ request.count > 0
  /\ request.ptr2 # None
  /\ request.ptr2 + request.sz2 # page

(* getPage's test write, and what getMultipage does with the page.         *)
HandOut(idx, page) ==
  IF page \notin committed'
    THEN status' = "fault" /\ UNCHANGED <<handed, given, request>>
    ELSE /\ handed' = [handed EXCEPT ![idx] = @ \union {page}]
         /\ given' = given + 1
         /\ IF Scattered(page)
              THEN status' = "scattered" /\ UNCHANGED request
              ELSE /\ status' = status
                   /\ request' = [Collected(page) EXCEPT
                        !.active = Collected(page).count < MultipagePageCnt]

-----------------------------------------------------------------------------
(* A caller asks for a multipage of bucket idx. *)
getMultipage(idx) ==
  /\ status = "ok" /\ ~request.active
  /\ request' = [NoRequest EXCEPT !.active = TRUE, !.idx = idx]
  /\ UNCHANGED <<list, indexHead, committed, handed, given, refused, status>>

Busy(idx) == status = "ok" /\ request.active /\ request.idx = idx

InUse(idx) == list[indexHead[idx]]

(* A mistaken getPage that does not count the page it gives. *)
TakePageUncounted(idx, l, h) ==
  LET d    == l[h]
      slot == d.nextToUse[idx]
  IN  /\ IF slot = d.nextToCommit[idx]
           THEN Commit(d.blockAddress, idx, slot)
           ELSE UNCHANGED <<committed, refused>>
      /\ list' = l
      /\ indexHead' = [indexHead EXCEPT ![idx] = h]
      /\ HandOut(idx, idxToPageAddr(d.blockAddress, idx, slot))

(* What the three branches of getPage share: bucket idx takes its next     *)
(* page from the descriptor at position h of l, after a further range is   *)
(* committed when the last one is used up.                                 *)
TakePage(idx, l, h) ==
  LET d    == l[h]
      slot == d.nextToUse[idx]
      upTo == d.nextToCommit[idx]
      full == slot = upTo
  IN  /\ IF full THEN Commit(d.blockAddress, idx, slot)
                 ELSE UNCHANGED <<committed, refused>>
      /\ list' = [l EXCEPT
           ![h].nextToUse[idx] = slot + 1,
           ![h].nextToCommit[idx] = IF full THEN upTo + CommitPageCnt ELSE upTo]
      /\ indexHead' = [indexHead EXCEPT ![idx] = h]
      /\ HandOut(idx, idxToPageAddr(d.blockAddress, idx, slot))

(* A mistaken getPage that does not notice the end of the bucket. *)
getPageFromHeadUnbounded(idx) ==
  /\ Busy(idx)
  /\ indexHead[idx] > 1
  /\ TakePage(idx, list, indexHead[idx])

(* getPage: the descriptor in use has a page left. *)
getPageFromHead(idx) ==
  /\ Busy(idx)
  /\ InUse(idx).nextToUse[idx] < PagesPerBucket
  /\ TakePage(idx, list, indexHead[idx])

(* A mistaken limit that leaves the last page of a bucket unused. *)
HeadUsedUpEarly(idx) == InUse(idx).nextToUse[idx] >= PagesPerBucket - 1

HeadUsedUp(idx) == InUse(idx).nextToUse[idx] = PagesPerBucket

(* A mistaken getPage that goes to the newest block instead of the next. *)
getPageFromNewest(idx) ==
  /\ Busy(idx)
  /\ HeadUsedUp(idx)
  /\ indexHead[idx] < Len(list)
  /\ TakePage(idx, list, Len(list))

(* getPage: another bucket has already made the next block. *)
getPageFromNext(idx) ==
  /\ Busy(idx)
  /\ HeadUsedUp(idx)
  /\ indexHead[idx] < Len(list)
  /\ TakePage(idx, list, indexHead[idx] + 1)

Reserved == UNION {BlockPages(list[h].blockAddress) : h \in 2 .. Len(list)}

(* getPage: the last block of the list is used up, so a new one is         *)
(* reserved (createNextBlockAndGetPage).                                   *)
createNextBlockAndGetPage(idx) ==
  /\ Busy(idx)
  /\ HeadUsedUp(idx)
  /\ indexHead[idx] = Len(list)
  /\ Len(list) <= MaxBlocks
  /\ \E block \in Bases :
       /\ BlockPages(block) \intersect Reserved = {}
       /\ TakePage(idx, Append(list, NewDescriptor(block)), Len(list) + 1)

(* There is no memory for the new descriptor: bad_alloc leaves getPage     *)
(* before anything has changed, and leaves getMultipage with it.           *)
descriptorRefused(idx) ==
  /\ Busy(idx)
  /\ HeadUsedUp(idx)
  /\ indexHead[idx] = Len(list)
  /\ request' = [request EXCEPT !.active = FALSE]
  /\ UNCHANGED <<list, indexHead, committed, handed, given, refused, status>>

(* The OS refuses the reservation: nobody looks at the result, and the     *)
(* process ends at the alignment assertion or at the test write.           *)
reservationRefused(idx) ==
  /\ Busy(idx)
  /\ HeadUsedUp(idx)
  /\ indexHead[idx] = Len(list)
  /\ status' = "noSpace"
  /\ UNCHANGED <<list, indexHead, committed, handed, given, request, refused>>

(* All blocks go back to the OS. *)
deinitialize ==
  /\ status = "ok" /\ ~request.active
  /\ list' = <<pageBlockListStart>>
  /\ indexHead' = [i \in Idx |-> 1]
  /\ committed' = {}
  /\ handed' = [i \in Idx |-> {}]
  /\ given' = 0
  /\ request' = NoRequest
  /\ refused' = FALSE
  /\ UNCHANGED status

Next ==
  \/ \E idx \in Idx :
       \/ getMultipage(idx)
       \/ getPageFromHead(idx)
       \/ getPageFromNext(idx)
       \/ createNextBlockAndGetPage(idx)
       \/ descriptorRefused(idx)
       \/ reservationRefused(idx)
  \/ deinitialize

Spec == Init /\ [][Next]_vars

-----------------------------------------------------------------------------
(* Every variable has its shape; what getMultipage has collected so far    *)
(* adds up.                                                                *)
TypeOK ==
  /\ list \in Seq(Descriptor) /\ Len(list) \in 1 .. MaxBlocks + 1
  /\ indexHead \in [Idx -> 1 .. Len(list)]
  /\ committed \subseteq Page
  /\ handed \in [Idx -> SUBSET Page]
  /\ given \in Nat
  /\ request \in Request
  /\ refused \in BOOLEAN
  /\ status \in {"ok", "fault", "scattered", "noSpace"}

(* The address of a page tells its bucket (addressToIdx on any pointer to  *)
(* an object, as deallocate relies on), wherever the OS put the block and  *)
(* whichever half of a bucket cut in two the page lies in.                 *)
BucketFromAddress ==
  \A i \in Idx : \A page \in handed[i] : addressToIdx(page) = i

(* commitRangeOfPageIndexes never commits a page outside the reserved      *)
(* blocks, where it could hit memory of somebody else.                     *)
CommitsStayReserved == committed \subseteq Reserved

(* The used slots of the descriptors are exactly the pages handed out: a   *)
(* bucket leaves a block only when its last page is gone, starts the next  *)
(* at its first page, and so loses no page of address space.               *)
UsedPages(l, i) ==
  UNION {{idxToPageAddr(l[h].blockAddress, i, k) :
            k \in 0 .. l[h].nextToUse[i] - 1} : h \in 2 .. Len(l)}

UsedInOrder(l, i, head) ==
  /\ \A h \in 1 .. head - 1 : l[h].nextToUse[i] = PagesPerBucket
  /\ \A h \in head + 1 .. Len(l) : l[h].nextToUse[i] = 0

NoPageSkipped ==
  status = "ok" =>
    \A i \in Idx : /\ handed[i] = UsedPages(list, i)
                   /\ UsedInOrder(list, i, indexHead[i])

(* The test write can only fault after the OS refused a commit: the code   *)
(* asks for every page before it hands it out, both halves of a bucket cut *)
(* in two included.                                                        *)
FaultOnlyIfRefused == status = "fault" => refused

Segment(ptr, sz) == {ptr + k : k \in 0 .. sz - 1}

(* "it is reasonably assumed that returned pages are within at most two    *)
(* connected segments": getMultipage never meets a third one, and when it  *)
(* is finished its two segments are MultipagePageCnt different pages, all  *)
(* of them of the bucket asked for.                                        *)
SegmentsAreHanded ==
  /\ status # "scattered"
  /\ ~request.active /\ request.count = MultipagePageCnt =>
       LET first  == Segment(request.ptr1, request.sz1)
           second == Segment(request.ptr2, request.sz2)
       IN  /\ request.sz1 + request.sz2 = MultipagePageCnt
           /\ first \intersect second = {}
           /\ status = "ok" => first \union second \subseteq handed[request.idx]

(* A getMultipage that ends with bad_alloc has taken no page yet, so the   *)
(* exception loses none: requests never run from one block into the next.  *)
AbandonedEmpty ==
  request.active /\ ~request'.active => request'.count \in {0, MultipagePageCnt}

AbandonLosesNothing == [][AbandonedEmpty]_vars

Source == INSTANCE PageSource

(* Seen from the object allocator, this is a source of new pages.          *)
IsPageSource == Source!PageSourceSpec
=============================================================================
