--------------------------- MODULE MCSafeZombies ---------------------------
(***************************************************************************)
(* Small instance of SafeZombies: the three objects of a multipage of      *)
(* bucket 0, two of bucket 1, and two chunks, the second of which is       *)
(* followed directly by the first object of bucket 0.                      *)
(***************************************************************************)
EXTENDS SafeZombies, TLC

MCBucketSize == 0 :> 4 @@ 1 :> 6
MCBases == {4}
MCLargePages == {2, 3}
=============================================================================
