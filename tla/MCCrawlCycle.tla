---------------------------- MODULE MCCrawlCycle ----------------------------
(***************************************************************************)
(* Three seeded players and one to be found, for two places in the buckets *)
(* and one in the queue: every bucket can be too small for who is in it.   *)
(***************************************************************************)
EXTENDS CrawlCycle

CONSTANTS a, b, c

MCPlayers == {a, b, c}
MCSeeded == {a, b}
MCViewed == {a, c}
=============================================================================
