--------------------------- MODULE MCMaintenance ---------------------------
(***************************************************************************)
(* A small instance of Maintenance: one worker's loop and the operator's   *)
(* script, with a clock of a few ticks in which a downtime can be         *)
(* reported, mature, be extended, end, and be followed by another.  Two    *)
(* workers with the script are beyond TLC when updates may interleave;     *)
(* ScriptProofs has the safety properties for any number of them.          *)
(***************************************************************************)
EXTENDS Maintenance

CONSTANTS worker, manual

MCWorkers == {worker}
MCScripts == {manual}
=============================================================================
