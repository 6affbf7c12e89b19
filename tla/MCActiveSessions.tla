-------------------------- MODULE MCActiveSessions --------------------------
(***************************************************************************)
(* A small instance of ActiveSessions: two players, a poll and its orphan, *)
(* and a clock that passes the stale threshold and the watchdog.           *)
(***************************************************************************)
EXTENDS ActiveSessions

CONSTANTS p1, p2

MCPlayers == {p1, p2}
MCTyped == {p2}
MCTracked == {p1}
=============================================================================
