--------------------------- MODULE MCPlayerCrawl ---------------------------
(***************************************************************************)
(* Small instances of PlayerCrawl: a few raids of a player with two        *)
(* characters, pages of one raid, a clock in which a raid is played before *)
(* a crawl, falls behind the buffer after it, and is followed by another.  *)
(***************************************************************************)
EXTENDS PlayerCrawl, TLC

CONSTANTS a, b, c1, c2

MCRaids == {a, b}
MCChars == {c1, c2}
MCSymmetry == Permutations(MCRaids) \cup Permutations(MCChars)

\* Bounds: one raid at most is listed without its duration, and none begins in
\* the last two instants of the clock, too late to be put behind a watermark.
MCBound ==
    /\ Cardinality({r \in Raids : raid[r].listed /\ ~raid[r].timed}) <= 1
    /\ \A r \in Raids : raid[r].start + 1 < MaxTime
=============================================================================
