----------------------------- MODULE MCSwrCache -----------------------------
(***************************************************************************)
(* Small instances of SwrCache: three requests for two keys of a cache     *)
(* that holds one, over a clock in which a value gets stale and then too   *)
(* old.                                                                    *)
(***************************************************************************)
EXTENDS SwrCache

CONSTANTS k1, k2, r1, r2, r3

MCKeys == {k1, k2}
MCOneKey == {k1}
MCRequests == {r1, r2, r3}
=============================================================================
