-------------------------- MODULE MCBulkAllocator --------------------------
(***************************************************************************)
(* Small instance of BulkAllocator: blocks of five pages, chunks of up to  *)
(* two (the code: 2048 and 32), two adjacent places for blocks and two for *)
(* an oversize chunk, one of them where the blocks may be.                 *)
(***************************************************************************)
EXTENDS BulkAllocator

MCPlaces == {10, 15}
MCDirectPlaces == {18, 40}
=============================================================================
