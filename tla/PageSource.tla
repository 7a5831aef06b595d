----------------------------- MODULE PageSource -----------------------------
(***************************************************************************)
(* What a page allocator promises to the object allocator above it: every  *)
(* page it gives is new, that is, given to no bucket since the allocator   *)
(* was last reset, and pages come back only all at once.                   *)
(***************************************************************************)
EXTENDS Naturals

CONSTANTS
  Idx,    \* the buckets pages are given to
  Page    \* the pages there are

VARIABLES
  handed,  \* bucket -> pages it holds
  given    \* how many pages have been given, since the last reset

PageSourceInit == handed = [i \in Idx |-> {}] /\ given = 0

(* A page no bucket holds becomes a page of bucket i. *)
Give(i, page) ==
  /\ \A j \in Idx : page \notin handed[j]
  /\ handed' = [handed EXCEPT ![i] = @ \union {page}]
  /\ given' = given + 1

(* The whole allocator is torn down. *)
Reset == handed' = [i \in Idx |-> {}] /\ given' = 0

PageSourceNext ==
  \/ \E i \in Idx, page \in Page : Give(i, page)
  \/ Reset

PageSourceSpec == PageSourceInit /\ [][PageSourceNext]_<<handed, given>>
=============================================================================
