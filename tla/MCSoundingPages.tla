-------------------------- MODULE MCSoundingPages --------------------------
(***************************************************************************)
(* Small instance of SoundingPages.  A bucket has two commit ranges per    *)
(* block and a commit range has two multipages, as in the code (32, 16 and *)
(* 8 pages).  The bases cut a bucket nowhere, at a multipage's edge and in *)
(* the middle of a multipage.                                              *)
(***************************************************************************)
EXTENDS SoundingPages

\* Regions are 2 * 16 pages.  32 is aligned; 101 = 96 + 5 cuts bucket 0
\* inside a multipage; 180 = 160 + 20 cuts bucket 1 at a multipage's edge.
MCBases == {32, 101, 180}
=============================================================================
