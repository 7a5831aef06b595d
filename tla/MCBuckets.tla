----------------------------- MODULE MCBuckets -----------------------------
(***************************************************************************)
(* Small instance of Buckets.  Pages have 8 words, the object of a chunk   *)
(* lies at word 1.  The objects of bucket 0 have 3 words, and one of a     *)
(* multipage's five would lie at the forbidden offset (word 9); those of   *)
(* bucket 1 have 6 and lie across pages.  A block of four pages at page 5  *)
(* cuts bucket 0 in two, one at page 11 cuts bucket 1.                     *)
(***************************************************************************)
EXTENDS Buckets, TLC

MCBucketSize == 0 :> 3 @@ 1 :> 6
MCBases == {5, 11}
MCLargePages == {20, 21}
=============================================================================
