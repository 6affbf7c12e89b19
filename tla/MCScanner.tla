----------------------------- MODULE MCScanner -----------------------------
(***************************************************************************)
(* A small instance of Scanner: three ids in batches of two, two workers,  *)
(* two keys that can both be lost, a missed set that one id fills.         *)
(***************************************************************************)
EXTENDS Scanner

CONSTANTS k1, k2

MCKeys == {k1, k2}
=============================================================================
