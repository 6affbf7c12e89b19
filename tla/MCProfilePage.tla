--------------------------- MODULE MCProfilePage ---------------------------
(***************************************************************************)
(* One click, one change of raid, and one event: a write of the crawler or *)
(* of another visitor, a failed request, maintenance or an expired token.  *)
(***************************************************************************)
EXTENDS ProfilePage

\* What a profile may show: all; all but component 1000; only the fireteam.
MCShown == {Parts, Parts \ {"transitory"}, {"transitory"}}
=============================================================================
