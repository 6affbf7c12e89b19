---------------------------- MODULE BackwardScan ----------------------------
(***************************************************************************)
(* The second phase of scripts/discover.ts beside the live scanner.  Both  *)
(* processes move the one checkpoint (crawler_state.scanner_position): the *)
(* script probes for the present, moves the checkpoint there so that the   *)
(* scanner jumps ahead, and walks back over the gap.  Each reads the       *)
(* checkpoint in one statement and writes it in another, so the two        *)
(* processes interleave in between.                                        *)
(*                                                                         *)
(* Of the scanner only what concerns the checkpoint is kept (Scanner.tla   *)
(* has the rest): a batch counts as tried as a whole.                      *)
(***************************************************************************)
EXTENDS Integers, FiniteSets

CONSTANTS
    LastId,           \* bound: no id beyond it is ever published
    Raids,            \* the ids that are raids
    FirstPosition,    \* the checkpoint when the behaviour starts
    BatchSize,        \* config.batchSize
    FirstJump,        \* jumpSize to begin with (1000)
    Resolution,       \* where the binary search stops (500)
    MaxProbes,        \* maxProbes (40)
    MaxHalvings,      \* bound of the binary search (25)
    MaxBackward,      \* BACKWARD_SCAN_MAX
    MaxMisses,        \* BACKWARD_SCAN_MAX_MISSES
    MayKill           \* may the processes be killed?

ASSUME BackwardAssumption ==
    /\ LastId \in Nat /\ Raids \subseteq 1 .. LastId
    /\ FirstPosition \in 1 .. LastId
    /\ BatchSize \in Nat \ {0}
    /\ FirstJump \in Nat \ {0} /\ Resolution \in Nat \ {0}
    /\ MaxProbes \in Nat \ {0} /\ MaxHalvings \in Nat
    /\ MaxBackward \in Nat /\ MaxMisses \in Nat
    /\ MayKill \in BOOLEAN

Ids == 1 .. LastId

VARIABLES
    published,  \* Bungie has a PGCR for (most of) the ids up to here
    saved,      \* crawler_state.scanner_position
    stored,     \* ids with a row in pgcrs
    scanner,    \* the scanner: where it is, its position, what it will save
    script,     \* the script: where it is and its local variables
    tried,      \* history: ids one of the two has looked up
    jumped,     \* history: ids a move of the checkpoint has passed over
    failed      \* history: ids of this walk whose look-up counted as a miss

backVars == <<published, saved, stored, scanner, script, tried, jumped, failed>>

Larger(a, b) == IF a > b THEN a ELSE b

ScannerPlaces == {"down", "loop", "batch", "save", "write"}
ScannerDown == [at |-> "down", position |-> 0]

DiscoverPlaces == {"off", "jumping", "halving", "found", "move", "walking",
                   "stopped", "done"}
Reasons == {"none", "no_gap", "closed", "misses", "limit"}
ScriptOff == [at |-> "off", low |-> 0, high |-> 0, jump |-> 0, probes |-> 0,
              present |-> 0, old |-> 0, current |-> 0, scanned |-> 0,
              misses |-> 0, reason |-> "none"]

BackInit ==
    /\ published \in FirstPosition .. LastId
    /\ saved = FirstPosition /\ stored = {}
    /\ scanner = ScannerDown /\ script = ScriptOff
    /\ tried = 1 .. FirstPosition /\ jumped = {} /\ failed = {}

Publish ==
    /\ published < LastId /\ published' = published + 1
    /\ UNCHANGED <<saved, stored, scanner, script, tried, jumped, failed>>

(***************************************************************************)
(* The scanner.                                                            *)
(***************************************************************************)

ScannerStart ==
    /\ scanner.at = "down"
    /\ scanner' = [at |-> "loop", position |-> saved]
    /\ UNCHANGED <<published, saved, stored, script, tried, jumped, failed>>

\* The jump to a checkpoint that is ahead, and the batch after it.
ScannerBatch ==
    LET from == Larger(saved, scanner.position) IN
    /\ scanner.at = "loop"
    /\ from + BatchSize <= LastId
    /\ scanner' = [at |-> "batch", position |-> from]
    /\ UNCHANGED <<published, saved, stored, script, tried, jumped, failed>>

BatchIds == (scanner.position + 1) .. (scanner.position + BatchSize)

BatchEndLate == scanner.position + BatchSize + 1   \* mutant: an id is skipped

\* result.lastId
BatchEnd == scanner.position + BatchSize

\* The batch is over; what has been published is found.
ScannerBatchEnd ==
    /\ scanner.at = "batch"
    /\ tried' = tried \cup BatchIds
    /\ stored' = stored \cup {id \in BatchIds \cap Raids : id <= published}
    /\ scanner' = [at |-> "save", position |-> BatchEnd]
    /\ UNCHANGED <<published, saved, script, jumped, failed>>

\* saveScannerPosition reads the checkpoint ...
ScannerReads ==
    /\ scanner.at = "save"
    /\ scanner' = [scanner EXCEPT !.at = IF saved > scanner.position THEN "loop" ELSE "write"]
    /\ UNCHANGED <<published, saved, stored, script, tried, jumped, failed>>

\* ... and writes it, whatever it has become, or finds the database busy.
ScannerWrites ==
    /\ scanner.at = "write"
    /\ saved' \in {saved, scanner.position}
    /\ scanner' = [scanner EXCEPT !.at = "loop"]
    /\ UNCHANGED <<published, stored, script, tried, jumped, failed>>

ScannerKilled ==
    /\ MayKill /\ scanner.at # "down"
    /\ scanner' = ScannerDown
    /\ UNCHANGED <<published, saved, stored, script, tried, jumped, failed>>

(***************************************************************************)
(* The script looks for the present.                                       *)
(***************************************************************************)

ScriptOnly == UNCHANGED <<published, saved, stored, scanner, tried, jumped, failed>>

\* findPresentInstanceId starts from the checkpoint or the newest stored PGCR.
ScriptStart ==
    \E start \in stored \cup {saved} :
        /\ \A id \in stored \cup {saved} : id <= start
        /\ script.at = "off"
        /\ script' = [ScriptOff EXCEPT !.at = "jumping", !.low = start, !.jump = FirstJump]
        /\ ScriptOnly

\* probeExists: only a published id answers, and any error reads as "no".
Probed(id, exists) == exists => id <= published

Jump(exists) ==
    LET id == script.low + script.jump IN
    /\ script.at = "jumping"
    /\ Probed(id, exists)
    /\ script' =
          IF exists
          THEN [script EXCEPT !.low = id, !.jump = 2 * @, !.probes = @ + 1,
                              !.at = IF script.probes + 1 < MaxProbes THEN "jumping"
                                     ELSE "found"]
          ELSE [script EXCEPT !.high = id, !.probes = 0, !.at = "halving"]
    /\ ScriptOnly

MayHalve == script.high - script.low > Resolution /\ script.probes < MaxHalvings

Halved(mid, exists) ==
    [script EXCEPT !.low  = IF exists THEN mid ELSE @,
                   !.high = IF exists THEN @ ELSE mid, !.probes = @ + 1]

Halve(exists) ==
    LET mid == script.low + (script.high - script.low) \div 2 IN
    /\ script.at = "halving" /\ MayHalve
    /\ Probed(mid, exists)
    /\ script' = Halved(mid, exists)
    /\ ScriptOnly

HalvingOver ==
    /\ script.at = "halving" /\ ~MayHalve
    /\ script' = [script EXCEPT !.at = "found"]
    /\ ScriptOnly

\* Bungie is down: the error reaches main.
ProbeDisabled ==
    /\ script.at \in {"jumping", "halving"}
    /\ script' = [script EXCEPT !.at = "done"]
    /\ ScriptOnly

(***************************************************************************)
(* It moves the checkpoint and walks back.                                 *)
(***************************************************************************)

\* getScannerPosition, once more.
OldPosition == saved

ReadOld ==
    /\ script.at = "found"
    /\ script' = IF script.low > OldPosition
                 THEN [script EXCEPT !.at = "move", !.present = script.low, !.old = OldPosition]
                 ELSE [script EXCEPT !.at = "done", !.reason = "no_gap"]
    /\ ScriptOnly

\* updateScannerPosition compares nothing.
MoveCheckpoint ==
    /\ script.at = "move"
    /\ saved' = script.present
    /\ jumped' = jumped \cup ((script.old + 1) .. script.present)
    /\ script' = [script EXCEPT !.at = "walking", !.current = script.present]
    /\ failed' = {}
    /\ UNCHANGED <<published, stored, scanner, tried>>

Bounded == script.scanned < MaxBackward /\ script.misses < MaxMisses

\* The walk has come down to the old position.
ReachedOld == script.current <= script.old

PreviousTwice == script.current - 2   \* mutant: counted down before and after

Previous == script.current - 1

\* hasPGCR, or the request: stored or found, missing or in error (which
\* counts, and is not tried again), or Bungie is down (which breaks the loop).
WalkTo(outcome) ==
    LET id == Previous IN
    /\ script.at = "walking" /\ Bounded /\ ~ReachedOld
    /\ script' =
          [script EXCEPT
              !.current = id, !.scanned = @ + 1,
              !.misses = IF outcome = "found" THEN 0
                         ELSE IF outcome = "missed" THEN @ + 1 ELSE @,
              !.at = IF outcome = "disabled" THEN "stopped" ELSE @]
    /\ id \in stored => outcome = "found"
    /\ outcome = "found" => id <= published
    /\ stored' = IF outcome = "found" /\ id \in Raids THEN stored \cup {id} ELSE stored
    /\ failed' = IF outcome = "missed" THEN failed \cup {id} ELSE failed
    /\ tried' = tried \cup {id}
    /\ UNCHANGED <<published, saved, scanner, jumped>>

\* The reason printed, whatever ended the loop: the position first, so that
\* an outage at the old position is "gap fully closed", and one before it the
\* scan limit.
WalkEnds ==
    /\ script.at = "stopped" \/ (script.at = "walking" /\ (ReachedOld \/ ~Bounded))
    /\ script' =
          [script EXCEPT
              !.at = "done",
              !.reason = IF ReachedOld THEN "closed"
                         ELSE IF script.misses >= MaxMisses THEN "misses" ELSE "limit"]
    /\ ScriptOnly

\* SIGINT, or an exception of hasPGCR.
ScriptKilled ==
    /\ MayKill /\ script.at # "off"
    /\ script' = ScriptOff
    /\ ScriptOnly

(***************************************************************************)
(* The specification.                                                      *)
(***************************************************************************)

Scan == ScannerBatch \/ ScannerBatchEnd \/ ScannerReads \/ ScannerWrites

Discover ==
    \/ \E exists \in BOOLEAN : Jump(exists) \/ Halve(exists)
    \/ HalvingOver \/ ProbeDisabled \/ ReadOld \/ MoveCheckpoint
    \/ \E outcome \in {"found", "missed", "disabled"} : WalkTo(outcome)
    \/ WalkEnds

BackNext ==
    \/ Publish \/ ScannerStart \/ Scan \/ ScannerKilled
    \/ ScriptStart \/ Discover \/ ScriptKilled

BackSpec == BackInit /\ [][BackNext]_backVars

(***************************************************************************)
(* Properties.                                                             *)
(***************************************************************************)

ScriptRecord ==
    [at : DiscoverPlaces, low : Nat, high : Nat, jump : Nat, probes : Nat,
     present : Nat, old : Nat, current : Nat, scanned : Nat, misses : Nat,
     reason : Reasons]

BackTypeOK ==
    /\ published \in Ids /\ saved \in Ids /\ stored \subseteq Raids
    /\ scanner \in [at : ScannerPlaces, position : 0 .. LastId]
    /\ script \in ScriptRecord
    /\ tried \subseteq Ids /\ jumped \subseteq Ids /\ failed \subseteq Ids

\* Where the scanner is, or would start.
Frontier == Larger(saved, scanner.position)

\* However the two processes' reads and writes of the checkpoint interleave,
\* and wherever they are killed, no id is skipped but by a move of the
\* checkpoint to the present: a lost or a stale write only repeats work.
OnlyJumpsSkip == \A id \in 1 .. Frontier : id \in tried \cup jumped

\* The ids between the two checkpoints.
Inside == (script.old + 1) .. (script.present - 1)

\* What "gap fully closed" is worth, whatever broke the loop: of the raids
\* strictly inside, only those whose look-up failed are not stored (they are
\* never tried again), and of any MaxMisses ids in a row one did not fail.
ClosedInside ==
    script.reason = "closed" =>
        /\ Inside \cap Raids \subseteq stored \cup failed
        /\ \A id \in Inside : \E near \in id .. (id + MaxMisses - 1) : near \notin failed
=============================================================================
