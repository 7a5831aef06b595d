----------------------------- MODULE ChunkHeap -----------------------------
(***************************************************************************)
(* What a heap of page chunks promises: a chunk given out overlaps no      *)
(* chunk that is still out, stays where it is and keeps its size until it  *)
(* is given back, and only a chunk that is out can be given back.          *)
(***************************************************************************)
EXTENDS Integers, FiniteSets

CONSTANTS
  Page,    \* page numbers a chunk may start at
  Size     \* sizes, in pages, a caller may ask for

VARIABLES
  held,  \* first page -> size, of the chunks that are out
  out    \* how many chunks are out: grants less what came back

Extent(start, size) == start .. start + size - 1

HeapInit == held = [p \in {} |-> 0] /\ out = 0

(* A chunk of a size asked for, apart from all others, goes out. *)
Grant(start) ==
  /\ start \in DOMAIN held' \ DOMAIN held
  /\ \E size \in Size :
       /\ \A p \in DOMAIN held :
            Extent(p, held[p]) \intersect Extent(start, size) = {}
       /\ held' = [p \in DOMAIN held \union {start} |->
                     IF p = start THEN size ELSE held[p]]
  /\ out' = out + 1

GiveBack(start) ==
  /\ start \in DOMAIN held
  /\ held' = [p \in DOMAIN held \ {start} |-> held[p]]
  /\ out' = out - 1

(* The heap is torn down; some of the chunks that are out may survive it.  *)
TearDown == \E kept \in SUBSET DOMAIN held :
  held' = [p \in kept |-> held[p]] /\ out' = Cardinality(kept)

HeapNext ==
  \/ \E start \in Page : Grant(start)
  \/ \E start \in Page : GiveBack(start)
  \/ TearDown

HeapSpec == HeapInit /\ [][HeapNext]_<<held, out>>
=============================================================================
