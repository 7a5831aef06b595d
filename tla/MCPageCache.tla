---------------------------- MODULE MCPageCache ----------------------------
(***************************************************************************)
(* Small instance of PageCache: four adjacent pages, blocks of up to three *)
(* pages, of which those of one and two are kept, two and one of them (the *)
(* code: 20 sizes, 32 and 4), and statistics modulo 4.                     *)
(***************************************************************************)
EXTENDS PageCache

MCPlace == 1 .. 4
MCSize == 1 .. 3
=============================================================================
