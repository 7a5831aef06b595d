-------------------------- MODULE MCPageCollection --------------------------
(***************************************************************************)
(* Small instance of PageCollection: up to four pages of three items (the  *)
(* code: 4096 bytes by 16 or more).                                        *)
(***************************************************************************)
EXTENDS PageCollection

MCPlaces == 1 .. 4
=============================================================================
