--------------------------- MODULE MCBackwardScan ---------------------------
(***************************************************************************)
(* Small instances of BackwardScan: seven ids, of which the scanner has    *)
(* covered two, jumps from one id upwards and batches of one or two.       *)
(***************************************************************************)
EXTENDS BackwardScan
=============================================================================
