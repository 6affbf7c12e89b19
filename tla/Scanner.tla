------------------------------ MODULE Scanner ------------------------------
(***************************************************************************)
(* The PGCR scanner: one process that walks Bungie's PGCR instance ids in  *)
(* increasing order, in batches shared by a pool of concurrent workers,    *)
(* and checkpoints its position in crawler_state.  Ids that did not answer *)
(* are kept in an in-memory set and retried when the scanner has caught up *)
(* with the present.                                                       *)
(*                                                                         *)
(* What Bungie answers, when SQLite refuses a statement, and when the      *)
(* process is stopped or killed are nondeterministic.  The stretches of    *)
(* code between two awaits are atomic: Node runs one callback at a time.   *)
(***************************************************************************)
EXTENDS Integers, FiniteSets

CONSTANTS
    LastId,               \* bound: no batch goes past this instance id
    Raids,                \* the ids that are raids
    SharedRaids,          \* bound: raids that other processes may store
    ProbedPositions,      \* bound: positions scripts/discover.ts may probe
    Keys,                 \* the configured scanner API keys
    NumWorkers,           \* config.workers
    BatchSize,            \* config.batchSize
    MaxMissedIds,         \* MAX_MISSED_IDS
    RetryThreshold,       \* RETRY_THRESHOLD
    MaxConsecutiveMisses  \* config.maxConsecutiveMisses

ASSUME ScannerAssumption ==
    /\ LastId \in Nat /\ Raids \subseteq 1 .. LastId
    /\ SharedRaids \subseteq Raids
    /\ ProbedPositions \subseteq 0 .. LastId
    /\ NumWorkers \in Nat \ {0} /\ BatchSize \in Nat \ {0}
    /\ MaxMissedIds \in Nat /\ RetryThreshold \in Nat
    /\ MaxConsecutiveMisses \in Nat

Ids       == 1 .. LastId
Positions == 0 .. LastId   \* 0 stands for the fallback start
UpTo(p)   == {id \in Ids : id <= p}

ScannerRequestResult ==
    {"raid", "not_raid", "not_found", "error", "error_retryable",
     "system_disabled", "fatal_no_clients"}

\* What a request says of its id, good or bad; the other two say that there
\* is nobody to ask or nobody to ask with.
Verdicts == ScannerRequestResult \ {"system_disabled", "fatal_no_clients"}

VARIABLES
    mode,        \* where the process is: see Modes
    shouldStop,  \* state.shouldStop
    position,    \* state.currentInstanceId
    todo,        \* ids of the running pass that no worker has claimed
    flight,      \* requests awaited: pairs <<id, key>>, one per busy worker
    result,      \* results of the running pass, "none" until an id has one
    missed,      \* missedIdsSet
    disabled,    \* keys the client pool has disabled
    abandoned,   \* ids workers of a failed pass may still work through
    saved,       \* crawler_state.scanner_position, 0 while the row is absent
    stored,      \* ids with a row in pgcrs
    notRaid,     \* history: ids Bungie answered with something else than a raid
    accounted    \* history: ids a worker of a pass came to a verdict on, and those
                 \* a jump or a stop passed over on purpose

pass     == <<todo, flight, result>>
database == <<saved, stored>>
history  == <<notRaid, accounted>>
vars == <<mode, shouldStop, position, pass, missed, disabled, abandoned,
          database, history>>

Modes == {"down",     \* no process
          "loop",     \* scanLoopIteration is scheduled, or in its pause
          "batch",    \* inside scanBatch
          "catchup",  \* the catch-up timer is set
          "retry",    \* inside retryMissedIds
          "ended"}    \* the loop returned for good

\* state.isRunning
IsRunning == mode \in {"loop", "batch", "catchup", "retry"}

Larger(a, b) == IF a > b THEN a ELSE b

\* loadScannerPosition returns p: the checkpoint, else the highest stored PGCR,
\* else the fallback.
Loads(p) ==
    \/ saved > 0 /\ p = saved
    \/ saved = 0 /\ p \in stored /\ \A id \in stored : id <= p
    \/ saved = 0 /\ stored = {} /\ p = 0

\* saveScannerPosition never overwrites a larger checkpoint ...
CheckpointFor(p) == Larger(saved, p)
\* ... and a save that loses the race for the database is skipped.
SaveScannerPosition(p) == saved' \in {saved, CheckpointFor(p)}

NoResults == [id \in Ids |-> "none"]
NoPass    == todo' = {} /\ flight' = {} /\ result' = NoResults

SystemDisabled == \E id \in Ids : result[id] = "system_disabled"
FatalNoClients == \E id \in Ids : result[id] = "fatal_no_clients"

\* Workers take no further id once one of these holds.
Halted == shouldStop \/ SystemDisabled \/ FatalNoClients

BatchIds == (position + 1) .. (position + BatchSize)

\* result.lastId of a batch that ran without losing the last key.
BatchEnd == position + BatchSize

FatalCheckpointAtBatchEnd == BatchEnd   \* mutant: the batch counts as done

\* The position a scanner without keys leaves behind.
FatalCheckpoint == position

\* The head of scanLoopIteration.
MayGoOn == mode = "loop" /\ ~shouldStop

UnclaimedStale(id) == todo   \* mutant: nextIndex is read and not incremented

\* nextIndex++: what is left once a worker has taken id.
Unclaimed(id) == todo \ {id}

\* clientPool.activeClients === 0
NoKeyLeft(off) == off = Keys

KeptForRetryNotFoundOnly == {"not_found"}   \* mutant: a 5xx is not collected

\* The results whose ids scanBatch puts into the missed set.
KeptForRetry == {"not_found", "error_retryable"}

Init ==
    /\ mode = "down" /\ shouldStop = FALSE /\ position = 0
    /\ todo = {} /\ flight = {} /\ result = NoResults
    /\ missed = {} /\ disabled = {} /\ abandoned = {}
    /\ saved = 0 /\ stored = {}
    /\ notRaid = {} /\ accounted = {}

(***************************************************************************)
(* The process.                                                            *)
(***************************************************************************)

\* startScanner: a new process, so an empty missed set and a fresh key pool.
Start ==
    /\ mode = "down"
    /\ mode' = "loop" /\ shouldStop' = FALSE
    /\ \E p \in Positions :
          /\ Loads(p) /\ position' = p
          /\ accounted' = IF saved = 0 THEN accounted \cup UpTo(p) ELSE accounted
    /\ UNCHANGED <<pass, missed, disabled, abandoned, database, notRaid>>

\* stopScanner, from the SIGINT / SIGTERM handlers.
StopScanner ==
    /\ mode \notin {"down", "ended"} /\ ~shouldStop
    /\ shouldStop' = TRUE
    /\ UNCHANGED <<mode, position, pass, missed, disabled, abandoned,
                   database, history>>

\* The process ends: three seconds after a signal whatever the loop is doing,
\* by a crash, or because nothing keeps it alive any more.  Memory is lost.
Exit ==
    /\ mode # "down"
    /\ mode' = "down" /\ shouldStop' = FALSE /\ position' = 0
    /\ NoPass /\ missed' = {} /\ disabled' = {} /\ abandoned' = {}
    /\ UNCHANGED <<database, history>>

\* The stop branch of scanLoopIteration.  When writeScannerStats throws, the
\* guard around the iteration schedules the loop again.
FinishStop ==
    /\ mode = "loop" /\ shouldStop
    /\ SaveScannerPosition(position)
    /\ mode' = "ended"
    /\ UNCHANGED <<shouldStop, position, pass, missed, disabled, abandoned,
                   stored, history>>

FinishStopFails ==
    /\ mode = "loop" /\ shouldStop
    /\ SaveScannerPosition(position)
    /\ UNCHANGED <<mode, shouldStop, position, pass, missed, disabled,
                   abandoned, stored, history>>

(***************************************************************************)
(* One batch.                                                              *)
(***************************************************************************)

\* scanLoopIteration past the maintenance pause: jump ahead when another
\* process moved the checkpoint, then hand the next ids to the workers.
StartBatch ==
    LET from == Larger(saved, position) IN
    /\ MayGoOn
    /\ from + BatchSize <= LastId
    /\ mode' = "batch"
    /\ position' = from
    /\ todo' = (from + 1) .. (from + BatchSize)
    /\ flight' = {} /\ result' = NoResults
    /\ UNCHANGED <<shouldStop, missed, disabled, abandoned, database, history>>

\* A worker of scanBatch takes the next index; the order of the retried ids is
\* the insertion order of the missed set, which the model leaves open.
MayClaim(id) ==
    /\ mode \in {"batch", "retry"} /\ ~Halted
    /\ Cardinality(flight) < NumWorkers
    /\ id \in todo
    /\ mode = "batch" => \A other \in todo : id <= other

\* hasPGCR finds the id.
ClaimStored(id) ==
    /\ MayClaim(id) /\ id \in stored
    /\ todo' = Unclaimed(id)
    /\ result' = [result EXCEPT ![id] = "not_raid"]
    /\ accounted' = accounted \cup {id}
    /\ UNCHANGED <<mode, shouldStop, position, flight, missed, disabled,
                   abandoned, database, notRaid>>

\* acquireClient returns null.
ClaimWithoutKey(id) ==
    /\ MayClaim(id) /\ id \notin stored
    /\ NoKeyLeft(disabled)
    /\ todo' = Unclaimed(id)
    /\ result' = [result EXCEPT ![id] = "fatal_no_clients"]
    /\ UNCHANGED <<mode, shouldStop, position, flight, missed, disabled,
                   abandoned, database, history>>

\* The request goes out under a key that is still enabled.
ClaimAndFetch(id, key) ==
    /\ MayClaim(id) /\ id \notin stored
    /\ key \in Keys \ disabled
    /\ todo' = Unclaimed(id)
    /\ flight' = flight \cup {<<id, key>>}
    /\ UNCHANGED <<mode, shouldStop, position, result, missed, disabled,
                   abandoned, database, history>>

\* hasPGCR throws (the database is busy or quiesced): the pass rejects at
\* once, its results are dropped, and its other workers run on unobserved.
ClaimThrows(id) ==
    /\ MayClaim(id)
    /\ mode' = "loop"
    /\ abandoned' = abandoned \cup Unclaimed(id) \cup {f[1] : f \in flight}
    /\ NoPass
    /\ UNCHANGED <<shouldStop, position, missed, disabled, database, history>>

Answer(f, r) ==
    /\ flight' = flight \ {f}
    /\ result' = [result EXCEPT ![f[1]] = r]
    /\ accounted' = accounted \cup (IF r \in Verdicts THEN {f[1]} ELSE {})
    /\ UNCHANGED <<mode, shouldStop, position, todo, missed, abandoned, saved>>

\* A raid: its PGCR is stored, and then its players in a second transaction.
\* When that one fails the row stays and the id counts as an error.
FetchedRaid(f) ==
    /\ f \in flight /\ f[1] \in Raids
    /\ \/ Answer(f, "raid")
       \/ Answer(f, "error")
    /\ stored' = stored \cup {f[1]}
    /\ UNCHANGED <<disabled, notRaid>>

FetchedOther(f) ==
    /\ f \in flight /\ f[1] \notin Raids
    /\ Answer(f, "not_raid")
    /\ notRaid' = notRaid \cup {f[1]}
    /\ UNCHANGED <<disabled, stored>>

\* Not published yet, a 5xx, maintenance, or anything else that went wrong
\* (storing the PGCR included).
FetchFailed(f) ==
    /\ f \in flight
    /\ \E r \in {"not_found", "error_retryable", "system_disabled", "error"} :
          Answer(f, r)
    /\ UNCHANGED <<disabled, stored, notRaid>>

\* 401, 403 or 429 disables the key for the life of the process; the worker
\* goes on with another key, or gives up when there is none.
KeyRejected(f) ==
    /\ f \in flight
    /\ disabled' = disabled \cup {f[2]}
    /\ \/ /\ NoKeyLeft(disabled')
          /\ Answer(f, "fatal_no_clients")
       \/ \E key \in Keys \ disabled' :
             /\ flight' = (flight \ {f}) \cup {<<f[1], key>>}
             /\ UNCHANGED <<mode, shouldStop, position, todo, result, missed,
                            abandoned, saved, accounted>>
    /\ UNCHANGED <<stored, notRaid>>

\* Workers of a failed pass store what they fetch; nobody reads their results.
AbandonedFetch(id) ==
    /\ id \in abandoned
    /\ abandoned' = abandoned \ {id}
    /\ \/ id \in Raids /\ stored' = stored \cup {id} /\ UNCHANGED notRaid
       \/ id \notin Raids /\ notRaid' = notRaid \cup {id} /\ UNCHANGED stored
       \/ UNCHANGED <<stored, notRaid>>
    /\ UNCHANGED <<mode, shouldStop, position, pass, missed, disabled, saved,
                   accounted>>

\* They share the client pool: a key that rejects one of them is disabled for all.
AbandonedKeyRejected(id, key) ==
    /\ id \in abandoned /\ key \in Keys \ disabled
    /\ disabled' = disabled \cup {key}
    /\ abandoned' = IF NoKeyLeft(disabled') THEN abandoned \ {id} ELSE abandoned
    /\ UNCHANGED <<mode, shouldStop, position, pass, missed, database, history>>

PassOverWhenTaken == flight = {} /\ todo = {}   \* mutant: waits for ids left over

\* Every worker has left its loop.
PassOver == flight = {} /\ (todo = {} \/ Halted)

\* addMissedId, in the order of the ids: what does not fit under the cap is
\* dropped.
AddMissedIds(S) ==
    LET new  == S \ missed
        room == MaxMissedIds - Cardinality(missed)
    IN  missed \cup {id \in new : Cardinality({o \in new : o < id}) < room}

\* The ids of a batch that are kept for a retry.
Collected(r) ==
    AddMissedIds({id \in BatchIds : r[id] \in KeptForRetry})

\* Misses counted from the end of the batch.
CaughtUp(r) ==
    \E k \in 0 .. BatchSize :
        /\ k >= MaxConsecutiveMisses
        /\ \A id \in BatchIds :
              id > position + BatchSize - k => r[id] \in {"not_found", "error"}

\* Bungie is down: the position stays, so the batch is scanned again.
FinishBatchDisabled ==
    /\ mode = "batch" /\ PassOver /\ SystemDisabled
    /\ missed' = Collected(result)
    /\ mode' = "loop"
    /\ NoPass
    /\ UNCHANGED <<shouldStop, position, disabled, abandoned, database, history>>

\* No key is left: the scanner ends, or tries again when writing its
\* statistics throws.
FinishBatchFatal ==
    /\ mode = "batch" /\ PassOver /\ ~SystemDisabled /\ FatalNoClients
    /\ missed' = Collected(result)
    /\ \/ mode' = "ended" /\ SaveScannerPosition(FatalCheckpoint)
       \/ mode' = "loop" /\ UNCHANGED saved
    /\ NoPass
    /\ UNCHANGED <<shouldStop, position, disabled, abandoned, stored, history>>

\* The position moves over the whole batch, attempted or not.
FinishBatch ==
    /\ mode = "batch" /\ PassOver /\ ~SystemDisabled /\ ~FatalNoClients
    /\ missed' = Collected(result)
    /\ position' = BatchEnd
    /\ accounted' = accounted \cup (IF shouldStop THEN todo ELSE {})
    /\ SaveScannerPosition(BatchEnd)
    /\ \/ mode' = "catchup" /\ CaughtUp(result)
       \/ mode' = "loop"   \* not caught up, or the statistics could not be written
    /\ NoPass
    /\ UNCHANGED <<shouldStop, disabled, abandoned, stored, notRaid>>

(***************************************************************************)
(* The catch-up pause and the retry of the missed ids.                     *)
(***************************************************************************)

CatchupTimer ==
    /\ mode = "catchup"
    /\ IF Cardinality(missed) >= RetryThreshold
       THEN /\ mode' = "retry" /\ todo' = missed /\ missed' = {}
       ELSE /\ mode' = "loop" /\ UNCHANGED <<todo, missed>>
    /\ UNCHANGED <<shouldStop, position, flight, result, disabled, abandoned,
                   database, history>>

StillMissing(r) == {id \in Ids : r[id] \notin {"none", "raid", "not_raid"}}

\* Only ids a worker has taken can come back; the rest of the pass is gone
\* when it was cut short.
FinishRetry ==
    /\ mode = "retry" /\ PassOver
    /\ missed' = AddMissedIds(StillMissing(result))
    /\ \/ /\ FatalNoClients
          /\ SaveScannerPosition(position)
          /\ mode' \in {"ended", "loop"}   \* "loop": writing the statistics threw
       \/ ~FatalNoClients /\ UNCHANGED saved /\ mode' = "loop"
    /\ NoPass
    /\ UNCHANGED <<shouldStop, position, disabled, abandoned, stored, history>>

(***************************************************************************)
(* Other writers of the database.                                          *)
(***************************************************************************)

\* The crawler, a discovery script or a web request stores a PGCR first.
StoredElsewhere(id) ==
    /\ id \notin stored
    /\ stored' = stored \cup {id}
    /\ UNCHANGED <<mode, shouldStop, position, pass, missed, disabled,
                   abandoned, saved, history>>

\* scripts/discover.ts moves the checkpoint to the present it has probed.
MovedElsewhere(p) ==
    /\ p > saved
    /\ saved' = p
    /\ accounted' = accounted \cup UpTo(p)
    /\ UNCHANGED <<mode, shouldStop, position, pass, missed, disabled,
                   abandoned, stored, notRaid>>

(***************************************************************************)
(* The specification.                                                      *)
(***************************************************************************)

Claim(id) ==
    \/ ClaimStored(id) \/ ClaimWithoutKey(id) \/ ClaimThrows(id)
    \/ \E key \in Keys : ClaimAndFetch(id, key)

Abandoned(id) ==
    AbandonedFetch(id) \/ \E key \in Keys : AbandonedKeyRejected(id, key)

Fetched(f) ==
    FetchedRaid(f) \/ FetchedOther(f) \/ FetchFailed(f) \/ KeyRejected(f)

LoopStep ==
    \/ StartBatch \/ FinishBatchDisabled \/ FinishBatchFatal \/ FinishBatch
    \/ CatchupTimer \/ FinishRetry \/ FinishStop \/ FinishStopFails

Scan ==
    \/ LoopStep
    \/ \E id \in Ids : Claim(id) \/ Abandoned(id)
    \/ \E f \in flight : Fetched(f)

Environment ==
    \/ Start \/ StopScanner \/ Exit
    \/ \E id \in SharedRaids : StoredElsewhere(id)
    \/ \E p \in ProbedPositions : MovedElsewhere(p)

Next == Scan \/ Environment

Spec == Init /\ [][Next]_vars

\* Requests end (the client has timeouts) and timers fire.
Fairness ==
    /\ WF_vars(\E f \in flight : Fetched(f))
    /\ WF_vars(FinishBatchDisabled) /\ WF_vars(FinishBatchFatal)
    /\ WF_vars(FinishBatch) /\ WF_vars(CatchupTimer) /\ WF_vars(FinishRetry)
    /\ WF_vars(FinishStop)

FairSpec == Spec /\ Fairness

(***************************************************************************)
(* Properties.                                                             *)
(***************************************************************************)

TypeOK ==
    /\ mode \in Modes /\ shouldStop \in BOOLEAN
    /\ position \in Positions /\ saved \in Positions
    /\ todo \subseteq Ids /\ flight \subseteq Ids \X Keys
    /\ result \in [Ids -> ScannerRequestResult \cup {"none"}]
    /\ missed \subseteq Ids /\ abandoned \subseteq Ids
    /\ disabled \subseteq Keys
    /\ stored \subseteq Ids /\ notRaid \subseteq Ids
    /\ accounted \subseteq Ids

Resolved   == stored \cup notRaid
InFlight   == {f[1] : f \in flight}
Requested(id) == \E f \in flight : f[1] = id
InRetry    == IF mode = "retry" THEN todo \cup InFlight \cup StillMissing(result)
              ELSE {}
RetryQueue == missed \cup InRetry

\* The next batch of this process, or of the one started next, begins after id.
Behind(id) ==
    IF mode = "down" THEN \E p \in Positions : Loads(p) /\ id <= p
    ELSE id <= position

\* Ids behind the position that are unresolved and that nothing will look at
\* again.
Lost == {id \in Ids : Behind(id)} \ (Resolved \cup RetryQueue)

OneRequestPerId == \A f, g \in flight : f[1] = g[1] => f = g

OnePlacePerId ==
    /\ \A f \in flight : f[1] \notin todo /\ result[f[1]] = "none"
    /\ \A id \in todo : result[id] = "none"

BatchIsComplete ==
    mode = "batch" =>
        /\ position + BatchSize <= LastId
        /\ \A id \in Ids :
              id \in BatchIds <=>
                  id \in todo \/ result[id] # "none" \/ Requested(id)

NoPassOutside ==
    mode \notin {"batch", "retry"} =>
        todo = {} /\ flight = {} /\ result = NoResults

\* The shared index hands every id of a pass to one worker: an id waits, is in
\* one request, or has its result, and a batch holds exactly its own ids.
PassPartition ==
    OneRequestPerId /\ OnePlacePerId /\ BatchIsComplete /\ NoPassOutside

\* Neither the checkpoint nor the live position passes an id that no worker came
\* to a verdict on, however the workers of its batch ended (the last key lost by
\* one while others still wait for answers, maintenance, a pass that rejects) and
\* wherever the process is killed.  Two things pass over ids on purpose: a jump
\* (to the highest stored PGCR, to a probed position), and a stop in the middle
\* of a batch, whose position moves over the ids nobody took.
CheckpointBacked ==
    UpTo(saved) \cup UpTo(position) \subseteq accounted

\* The scanner gives up only when it was told to stop or every key is rejected:
\* one bad key among several never ends it.
EndedWithCause == mode = "ended" => shouldStop \/ disabled = Keys

\* A worker reports the loss of the last key only when there is none left.
FatalMeansKeyless == FatalNoClients => disabled = Keys

\* The scanner never writes the checkpoint back, although its position lags behind
\* when another process has moved the row during a pass, and the position of a
\* running process does not go back either.  (The read and the write of a save
\* are one step here; BackwardScan takes them apart.)
NeverRewinds ==
    [][ /\ saved' >= saved
        /\ mode # "down" /\ mode' # "down" => position' >= position ]_vars

\* Why an id behind the position may be given up: an unexpected error (it is
\* not collected), a stop in the middle of its batch, the cap of the missed
\* set, a retry pass cut short before the id was taken or by an exception, a
\* restart (the missed set is not persisted), a jump to another process's
\* checkpoint.
LossCause(id) ==
    \/ mode = "batch" /\ result[id] = "error"
    \/ mode = "batch" /\ result[id] = "none" /\ shouldStop
    \/ /\ mode = "batch" /\ result[id] \in {"not_found", "error_retryable"}
       /\ Cardinality(missed') = MaxMissedIds
    \/ mode = "retry" /\ todo # {} /\ (Halted => result[id] = "none")
    \/ mode = "down" \/ mode' = "down"
    \/ mode = "loop" /\ position < id /\ id <= saved

\* Nothing else loses an id: in particular not a 5xx or a missing PGCR, not
\* Bungie maintenance, not the loss of the last key, not a pass that ran to its
\* end.
LossesAreNamed == [][\A id \in Lost' \ Lost : LossCause(id)]_vars

\* A graceful stop is honoured from wherever the loop is.
StopIsHonoured == shouldStop ~> ~IsRunning
=============================================================================
