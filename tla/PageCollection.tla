--------------------------- MODULE PageCollection ---------------------------
(***************************************************************************)
(* CollectionInPages: items of one type in pages got from the OS, for the  *)
(* block descriptors of SoundingAddressPageAllocator and the blocks of     *)
(* BulkAllocator.  Items are never given back one by one.  Items in use    *)
(* form a list from head, the rest of the newest page one from freeList;   *)
(* both are linked through the items.  deinitialize links the first item   *)
(* of every page to a third list, through the same links, while it walks   *)
(* over the other two, and then frees the pages, whose links it reads.     *)
(*                                                                         *)
(* The address of item i of page p is p * ItemsPerPage + i.  An exception  *)
(* from getFreeBlockNoCache leaves createNew before any change.            *)
(***************************************************************************)
EXTENDS Naturals, Sequences, FiniteSets

CONSTANTS
  ItemsPerPage,   \* PAGE_SIZE_BYTES / sizeof(ListItem)
  Places          \* page numbers the OS may give

ASSUME ItemsPerPageAssumption == ItemsPerPage \in Nat \ {0}
ASSUME PlacesAssumption == Places \subseteq Nat \ {0} /\ IsFiniteSet(Places)

VARIABLES
  head,           \* newest item in use
  freeList,       \* first item not in use yet
  next,           \* item -> the item it is linked to, for all items of pages
  pageCnt,        \* pages, as the code counts them
  pc,             \* the loop that runs, or "idle"
  curr,           \* the item the loop has come to
  pageStartHead,  \* list of page starts, while deinitialize runs
  created         \* history: items given to callers, newest first

vars == <<head, freeList, next, pageCnt, pc, curr, pageStartHead, created>>

null == 0
ItemsOf(p) == p * ItemsPerPage .. p * ItemsPerPage + ItemsPerPage - 1
Item == UNION {ItemsOf(p) : p \in Places}
ItemLink == Item \union {null}
PageStart(a) == a % ItemsPerPage = 0
PageOf(a) == a \div ItemsPerPage

(* Pages the collection has from the OS. *)
Pages == {PageOf(a) : a \in DOMAIN next}

Init ==
  /\ head = null /\ freeList = null
  /\ next = [a \in {} |-> null]
  /\ pageCnt = 0
  /\ pc = "idle" /\ curr = null /\ pageStartHead = null
  /\ created = << >>

-----------------------------------------------------------------------------
(* The links with those of a new page, whose items are in address order. *)
WithPage(p) ==
  [a \in DOMAIN next \union ItemsOf(p) |->
     IF a \notin ItemsOf(p) THEN next[a]
     ELSE IF a + 1 \in ItemsOf(p) THEN a + 1 ELSE null]

(* A mistaken step that reads the link after it has been overwritten. *)
TakeFreeLate(links, item) ==
  /\ freeList' = head
  /\ head' = item
  /\ next' = [links EXCEPT ![item] = head]
  /\ created' = <<item>> \o created
  /\ UNCHANGED <<pc, curr, pageStartHead>>

(* The first free item becomes the newest in use; links are those after a  *)
(* new page has been added, if one was.                                    *)
TakeFree(links, item) ==
  /\ freeList' = links[item]
  /\ head' = item
  /\ next' = [links EXCEPT ![item] = head]
  /\ created' = <<item>> \o created
  /\ UNCHANGED <<pc, curr, pageStartHead>>

createNew ==
  /\ pc = "idle" /\ freeList # null
  /\ TakeFree(next, freeList)
  /\ UNCHANGED pageCnt

createNewInNewPage ==
  /\ pc = "idle" /\ freeList = null
  /\ \E p \in Places \ Pages : TakeFree(WithPage(p), p * ItemsPerPage)
  /\ pageCnt' = pageCnt + 1

-----------------------------------------------------------------------------
(* doForEach shows the items from head on, one by one. *)
doForEach ==
  /\ pc = "idle"
  /\ pc' = "each" /\ curr' = head
  /\ UNCHANGED <<head, freeList, next, pageCnt, pageStartHead, created>>

showItem ==
  /\ pc = "each" /\ curr # null
  /\ curr' = next[curr]
  /\ UNCHANGED <<head, freeList, next, pageCnt, pc, pageStartHead, created>>

doForEachEnds ==
  /\ pc = "each" /\ curr = null
  /\ pc' = "idle"
  /\ UNCHANGED <<head, freeList, next, pageCnt, curr, pageStartHead, created>>

-----------------------------------------------------------------------------
deinitialize ==
  /\ pc = "idle"
  /\ pc' = "collectUsed" /\ curr' = head /\ pageStartHead' = null
  /\ UNCHANGED <<head, freeList, next, pageCnt, created>>

Collecting == pc \in {"collectUsed", "collectFree"}

(* A mistaken step that reads the link after it has been overwritten. *)
collectPageStartLate ==
  /\ Collecting /\ curr # null /\ PageStart(curr)
  /\ curr' = pageStartHead
  /\ next' = [next EXCEPT ![curr] = pageStartHead]
  /\ pageStartHead' = curr
  /\ UNCHANGED <<head, freeList, pageCnt, pc, created>>

(* collectPageStarts: the link of a page start is read, then overwritten. *)
collectPageStart ==
  /\ Collecting /\ curr # null /\ PageStart(curr)
  /\ curr' = next[curr]
  /\ next' = [next EXCEPT ![curr] = pageStartHead]
  /\ pageStartHead' = curr
  /\ UNCHANGED <<head, freeList, pageCnt, pc, created>>

(* A mistaken step that stays where it is. *)
skipItemStays ==
  /\ Collecting /\ curr # null /\ ~PageStart(curr)
  /\ UNCHANGED vars

skipItem ==
  /\ Collecting /\ curr # null /\ ~PageStart(curr)
  /\ curr' = next[curr]
  /\ UNCHANGED <<head, freeList, next, pageCnt, pc, pageStartHead, created>>

(* The second walk follows the first, the loop over the pages the second. *)
collectPageStartsEnds ==
  /\ Collecting /\ curr = null
  /\ IF pc = "collectUsed" THEN pc' = "collectFree" /\ curr' = freeList
                           ELSE pc' = "release" /\ UNCHANGED curr
  /\ UNCHANGED <<head, freeList, next, pageCnt, pageStartHead, created>>

(* The link is read before the page it lies in is gone. *)
freePage ==
  /\ pc = "release" /\ pageStartHead # null
  /\ pageStartHead' = next[pageStartHead]
  /\ next' = [a \in DOMAIN next \ ItemsOf(PageOf(pageStartHead)) |-> next[a]]
  /\ pageCnt' = pageCnt - 1
  /\ UNCHANGED <<head, freeList, pc, curr, created>>

(* The assertion in deinitialize; the process ends where it fails. *)
deinitializeEnds ==
  /\ pc = "release" /\ pageStartHead = null
  /\ pageCnt = 0
  /\ head' = null /\ freeList' = null
  /\ pc' = "idle" /\ created' = << >>
  /\ UNCHANGED <<next, pageCnt, curr, pageStartHead>>

Loop ==
  \/ showItem \/ doForEachEnds
  \/ collectPageStart \/ skipItem \/ collectPageStartsEnds
  \/ freePage \/ deinitializeEnds

Next ==
  \/ createNew
  \/ createNewInNewPage
  \/ doForEach
  \/ deinitialize
  \/ Loop

(* A thread that has entered a loop goes on with it; nothing makes it call *)
(* an operation.                                                           *)
Spec == Init /\ [][Next]_vars /\ WF_vars(Loop)

-----------------------------------------------------------------------------
TypeOK ==
  /\ head \in ItemLink /\ freeList \in ItemLink
  /\ DOMAIN next \subseteq Item
  /\ \A a \in DOMAIN next : next[a] \in ItemLink
  /\ pageCnt \in Nat
  /\ pc \in {"idle", "each", "collectUsed", "collectFree", "release"}
  /\ curr \in ItemLink /\ pageStartHead \in ItemLink
  /\ created \in Seq(Item)

CreatedItems == {created[k] : k \in 1 .. Len(created)}

(* A sequence of items, each linked to the next, from first to null. *)
IsChain(first, items) ==
  /\ first = IF items = << >> THEN null ELSE items[1]
  /\ \A k \in 1 .. Len(items) :
       /\ items[k] \in DOMAIN next
       /\ next[items[k]] = IF k = Len(items) THEN null ELSE items[k + 1]

(* No item is given out twice while the collection lives; the list from    *)
(* head, along which doForEach goes, has exactly the items given out, the  *)
(* one from freeList exactly the others, which are the end of one page.    *)
UsedSound ==
  /\ IsChain(head, created)
  /\ Cardinality(CreatedItems) = Len(created)

UnusedSound ==
  IF freeList = null THEN CreatedItems = DOMAIN next
  ELSE LET unused == freeList .. PageOf(freeList) * ItemsPerPage
                                   + ItemsPerPage - 1
       IN  /\ DOMAIN next \ CreatedItems = unused
           /\ IsChain(freeList, [k \in 1 .. Cardinality(unused) |->
                                   freeList + k - 1])

ItemsSound ==
  /\ TypeOK
  /\ pc \in {"idle", "each"} => UsedSound /\ UnusedSound

(* deinitialize never follows a link in a page it has freed, pageCnt is    *)
(* the number of pages, and when no page start is left no page is: every   *)
(* page goes back exactly once, although the walks overwrite the links     *)
(* they walk along.                                                        *)
PagesReturned ==
  /\ {curr, pageStartHead} \subseteq DOMAIN next \union {null}
  /\ pageCnt = Cardinality(Pages)
  /\ pc = "release" /\ pageStartHead = null => Pages = {}

(* doForEach and deinitialize end: no list ever runs in a circle, not even *)
(* while it is taken apart.                                                *)
LoopsEnd == pc # "idle" ~> pc = "idle"
=============================================================================
