---------------------------- MODULE Maintenance ----------------------------
(***************************************************************************)
(* Database maintenance during Bungie downtime.  The crawler and the       *)
(* scanner share a pause window, two gates and the cleanup status through  *)
(* one JSON file that every writer reads, changes and rewrites without a   *)
(* lock; a lease file lets one process at a time run VACUUM.  An operator  *)
(* may run scripts/run-db-maintenance.ts, which stops the workers first.   *)
(*                                                                         *)
(* A step ends where a process has read a file, written one, or awaits:    *)
(* between the read and the write of an update every other process may     *)
(* run, so an update may overwrite another it has not seen.                *)
(***************************************************************************)
EXTENDS Integers, FiniteSets

CONSTANTS
    Workers,         \* the crawler's and the scanner's loops
    Scripts,         \* runs of run-db-maintenance
    Pause,           \* BUNGIE_SYSTEM_DISABLED_PAUSE_MS
    Delay,           \* BUNGIE_MAINTENANCE_CLEANUP_DELAY_MS
    Cooldown,        \* CLEANUP_COOLDOWN_MS
    MaxTime          \* bound: the clock stops here

Procs == Workers \cup Scripts

ASSUME MaintenanceAssumption ==
    /\ Workers \cap Scripts = {}
    /\ "free" \notin Procs /\ "stale" \notin Procs
    /\ Pause \in Nat \ {0} /\ Delay \in Nat /\ Cooldown \in Nat
    /\ MaxTime \in Nat \ {0}

VARIABLES
    now,        \* the clock, from 1: 0 stands for null in the file
    file,       \* maintenance-state.json
    lease,      \* maintenance-cleanup.lease: its owner, "free", or "stale"
                \* when the owner's process is gone
    pc,         \* where each process is: see WorkerPlaces, ScriptPlaces
    pending,    \* the state a process has computed and not yet written
    cleanupId,  \* the event a process is about to clean up for, 0 for none
    outdated,   \* history: who is about to write over a state he has not read
    reverted,   \* history: has such a write changed a flag, since the lease was
                \* taken, and not by the holder of the lease?
    lowered     \* history: has somebody else lowered isVacuuming under the
                \* present holder of the lease?

history == <<outdated, reverted, lowered>>

vars == <<now, file, lease, pc, pending, cleanupId, history>>

CleanupStatus == {"idle", "pending", "snapshotting", "quiescing", "running",
                  "succeeded", "failed"}
BusyStatus == {"snapshotting", "quiescing", "running"}

MaintenanceState ==
    [until     : Nat,              \* bungieMaintenanceUntil
     event     : Nat,              \* maintenanceEventStartedAt
     eligible  : Nat,              \* cleanupEligibleAt
     vacuuming : BOOLEAN,          \* isVacuuming
     quiesce   : BOOLEAN,          \* dbQuiesceActive: getDb throws
     status    : CleanupStatus,    \* cleanupStatus
     completed : Nat,              \* lastVacuumCompletedAt
     attempted : Nat]              \* lastCleanupAttemptedEventId

DefaultState ==
    [until |-> 0, event |-> 0, eligible |-> 0, vacuuming |-> FALSE,
     quiesce |-> FALSE, status |-> "idle", completed |-> 0, attempted |-> 0]

\* Holding the lease, from its creation to its release.
CleanupPlaces == {"leased", "snapshotting", "quiesced", "vacuuming", "ended"}

\* "work" stands for everything a loop does between two pauses, "wait" for the
\* loop of waitForBungieMaintenancePause, "eligible" for the moment between
\* isCleanupEligibleNow and the lease.
WorkerPlaces == {"down", "work", "wait", "eligible"} \cup CleanupPlaces

\* A run of the script is "done" in the end, or "down" when it was killed; the
\* model has the operator repeat it only over a gate that is up.  It takes such a
\* gate for stale and lowers it, "clearing" if it goes on after that, "tidying" if
\* it does not.  "checked" and "gated" are before and after it raises its own,
\* "maturing" and "sawPause" its wait for the cleanup window, "finally" its
\* finally block.
ScriptPlaces ==
    {"planned", "clearing", "tidying", "checked", "gated", "maturing",
     "sawPause", "acquiring", "finally", "done", "down"} \cup CleanupPlaces

Init ==
    /\ now = 1 /\ file = DefaultState /\ lease = "free"
    /\ pc = [p \in Procs |-> IF p \in Workers THEN "down" ELSE "planned"]
    /\ pending = [p \in Procs |-> {}]
    /\ cleanupId = [p \in Procs |-> 0]
    /\ outdated = {} /\ reverted = FALSE /\ lowered = FALSE

Goto(p, place) == pc' = [pc EXCEPT ![p] = place]

\* updateMaintenanceState: the file is read here and written by WriteState.
Update(p, state) == pending' = [pending EXCEPT ![p] = {state}]

Ready(p) == pending[p] = {}

PauseActive == file.until > now

(***************************************************************************)
(* The state file and the lease.                                           *)
(***************************************************************************)

Flags == <<file.vacuuming, file.quiesce>>

\* The rename of the temporary file.
WriteState(p) ==
    /\ pending[p] # {}
    /\ file' \in pending[p]
    /\ pending' = [pending EXCEPT ![p] = {}]
    /\ outdated' = IF file' = file THEN outdated \ {p}
                   ELSE {q \in Procs \ {p} : ~Ready(q)}
    /\ reverted' = (reverted \/ (p \in outdated /\ p # lease /\ Flags' # Flags))
    /\ lowered' = (lowered \/ ( /\ lease \in Procs \ {p}
                                /\ file.vacuuming /\ ~file'.vacuuming))
    /\ UNCHANGED <<now, lease, pc, cleanupId>>

LeaseIsFreeUnchecked == TRUE   \* mutant: the flag is 'w', not 'wx'

\* The flag 'wx' of tryAcquireCleanupLease.
LeaseIsFree == lease = "free"

Acquire(p) ==
    /\ LeaseIsFree /\ lease' = p
    /\ Goto(p, "leased")
    /\ reverted' = FALSE /\ UNCHANGED <<outdated, lowered>>

\* releaseCleanupLease: the file is removed only by its owner.
Release(p) ==
    /\ lease' = IF lease = p THEN "free" ELSE lease
    /\ lowered' = (lowered /\ lease # p)
    /\ UNCHANGED <<outdated, reverted>>

(***************************************************************************)
(* Updates of the state.                                                   *)
(***************************************************************************)

GateKeptInWindow == PauseActive   \* mutant: a running VACUUM is not asked about

\* Does a cleanup in progress survive the report of a new downtime?
GateKept == PauseActive \/ file.vacuuming

\* recordBungieMaintenancePause: a longer window for the running event, or a
\* new event, which starts without a gate unless VACUUM may be running.
PauseRecorded ==
    LET started == IF PauseActive /\ file.event # 0 THEN file.event ELSE now
        until   == now + Pause
    IN  [file EXCEPT
            !.until    = IF @ > until THEN @ ELSE until,
            !.event    = started,
            !.eligible = started + Delay,
            !.status   = IF GateKept THEN @ ELSE "pending",
            !.quiesce  = GateKept /\ @]

CleanupBegun(id) ==
    [file EXCEPT !.status = "snapshotting", !.vacuuming = TRUE, !.attempted = id]

Quiesced == [file EXCEPT !.quiesce = TRUE, !.status = "quiescing"]

Running == [file EXCEPT !.status = "running"]

SucceededVacuuming ==   \* mutant: isVacuuming stays
    [file EXCEPT !.quiesce = FALSE, !.status = "succeeded", !.completed = now]

Succeeded ==
    [file EXCEPT !.vacuuming = FALSE, !.quiesce = FALSE,
                 !.status = "succeeded", !.completed = now]

FailedGateUp ==   \* mutant: the catch block forgets dbQuiesceActive
    [file EXCEPT !.vacuuming = FALSE, !.status = "failed"]

Failed == [file EXCEPT !.vacuuming = FALSE, !.quiesce = FALSE, !.status = "failed"]

(***************************************************************************)
(* runMaintenanceCleanup, by whoever holds the lease.                      *)
(***************************************************************************)

BeginCleanup(p) ==
    /\ pc[p] = "leased"
    /\ Update(p, CleanupBegun(cleanupId[p])) /\ Goto(p, "snapshotting")
    /\ UNCHANGED <<now, file, lease, cleanupId, history>>

Quiesce(p) ==
    /\ pc[p] = "snapshotting"
    /\ Update(p, Quiesced) /\ Goto(p, "quiesced")
    /\ UNCHANGED <<now, file, lease, cleanupId, history>>

GraceOver(p) ==
    /\ pc[p] = "quiesced"
    /\ Update(p, Running) /\ Goto(p, "vacuuming")
    /\ UNCHANGED <<now, file, lease, cleanupId, history>>

VacuumDone(p) ==
    /\ pc[p] = "vacuuming"
    /\ Update(p, Succeeded) /\ Goto(p, "ended")
    /\ UNCHANGED <<now, file, lease, cleanupId, history>>

\* A snapshot fails, the process is stopping, quick_check reports an error, or
\* SQLite stays busy for the whole retry window.
CleanupFails(p) ==
    /\ pc[p] \in {"snapshotting", "quiesced", "vacuuming"}
    /\ Update(p, Failed) /\ Goto(p, "ended")
    /\ UNCHANGED <<now, file, lease, cleanupId, history>>

\* A worker returns to its wait loop, the script to its finally block.
AfterCleanup(p) == IF p \in Workers THEN "wait" ELSE "finally"

LeaveCleanup(p) ==
    /\ pc[p] = "ended"
    /\ Release(p)
    /\ Goto(p, AfterCleanup(p))
    /\ cleanupId' = [cleanupId EXCEPT ![p] = 0]
    /\ UNCHANGED <<now, file, pending>>

Cleanup(p) ==
    \/ BeginCleanup(p) \/ Quiesce(p) \/ GraceOver(p) \/ VacuumDone(p)
    \/ CleanupFails(p) \/ LeaveCleanup(p)

(***************************************************************************)
(* A worker.                                                               *)
(***************************************************************************)

\* A worker reads the database before its loop: while the database is quiesced
\* it dies at once, and pm2 tries again.
StartWorker(w) ==
    /\ pc[w] = "down"
    /\ Goto(w, IF file.quiesce THEN "down" ELSE "wait")
    /\ UNCHANGED <<now, file, lease, pending, cleanupId, history>>

\* A request is answered with SystemDisabled; others may still be in flight.
RecordPause(w) ==
    /\ pc[w] = "work"
    /\ now + Pause <= MaxTime
    /\ Update(w, PauseRecorded)
    /\ Goto(w, "work") \/ Goto(w, "wait")
    /\ UNCHANGED <<now, file, lease, cleanupId, history>>

NextIteration(w) ==
    /\ pc[w] = "work"
    /\ Goto(w, "wait")
    /\ UNCHANGED <<now, file, lease, pending, cleanupId, history>>

\* The wait is over.
Resume(w) ==
    /\ pc[w] = "wait"
    /\ ~PauseActive /\ ~file.quiesce /\ ~file.vacuuming
    /\ Goto(w, "work")
    /\ UNCHANGED <<now, file, lease, pending, cleanupId, history>>

CooldownSatisfied == file.completed = 0 \/ now - file.completed >= Cooldown

IsCleanupEligibleNow ==
    /\ PauseActive /\ file.event # 0 /\ file.eligible # 0
    /\ ~file.vacuuming /\ ~file.quiesce
    /\ now >= file.eligible
    /\ file.attempted # file.event
    /\ CooldownSatisfied

\* maybeRunDowntimeCleanup.
SeeEligible(w) ==
    /\ pc[w] = "wait"
    /\ IsCleanupEligibleNow
    /\ cleanupId' = [cleanupId EXCEPT ![w] = file.event]
    /\ Goto(w, "eligible")
    /\ UNCHANGED <<now, file, lease, pending, history>>

TryAcquire(w) ==
    /\ pc[w] = "eligible"
    /\ \/ Acquire(w) /\ UNCHANGED cleanupId
       \/ /\ ~LeaseIsFree /\ Goto(w, "wait")
          /\ cleanupId' = [cleanupId EXCEPT ![w] = 0]
          /\ UNCHANGED <<lease, history>>
    /\ UNCHANGED <<now, file, pending>>

Worker(w) ==
    \/ StartWorker(w) \/ RecordPause(w) \/ NextIteration(w) \/ Resume(w)
    \/ SeeEligible(w) \/ TryAcquire(w)

(***************************************************************************)
(* The operator's script.                                                  *)
(***************************************************************************)

\* What main refuses to start over.
CleanupInProgress == file.status \in BusyStatus \/ file.quiesce

\* The checks at the start of main, all on the state it has read first.  It ends
\* when the last cleanup is recent, or when Bungie is up and the operator has not
\* asked for it (--force).
StartScript(s) ==
    /\ pc[s] = "planned" \/ (pc[s] = "down" /\ file.vacuuming)
    /\ ~CleanupInProgress
    /\ \/ /\ CooldownSatisfied
          /\ Goto(s, IF file.vacuuming THEN "clearing" ELSE "checked")
          /\ cleanupId' = [cleanupId EXCEPT ![s] = file.event]
       \/ /\ ~CooldownSatisfied \/ ~PauseActive
          /\ Goto(s, IF file.vacuuming THEN "tidying" ELSE "done")
          /\ UNCHANGED cleanupId
    /\ UNCHANGED <<now, file, lease, pending, history>>

\* setVacuumingActive(false), on a state read anew.
ClearGate(s) ==
    /\ pc[s] \in {"clearing", "tidying"}
    /\ Update(s, [file EXCEPT !.vacuuming = FALSE])
    /\ Goto(s, IF pc[s] = "clearing" THEN "checked" ELSE "done")
    /\ UNCHANGED <<now, file, lease, cleanupId, history>>

\* setVacuumingActive(true), once pm2 has listed the workers.
RaiseGate(s) ==
    /\ pc[s] = "checked"
    /\ Update(s, [file EXCEPT !.vacuuming = TRUE])
    /\ Goto(s, "gated")
    /\ UNCHANGED <<now, file, lease, cleanupId, history>>

\* The end of process p, and of the processes P that go with it.
Gone(P, others) ==
    /\ pc' = [p \in Procs |-> IF p \in P THEN "down" ELSE others[p]]
    /\ pending' = [p \in Procs |-> IF p \in P THEN {} ELSE pending[p]]
    /\ cleanupId' = [p \in Procs |-> IF p \in P THEN 0 ELSE cleanupId[p]]
    /\ lease' = IF lease \in P THEN "stale" ELSE lease
    /\ outdated' = outdated \ P
    /\ UNCHANGED <<reverted, lowered>>

\* pm2 stops the workers it listed (one started since then stays): after 1.6
\* seconds they are killed, wherever they are.  When pm2 reports an error the
\* script is through.
StopWorkers(s) ==
    /\ pc[s] = "gated"
    /\ \E P \in SUBSET Workers, place \in {"maturing", "finally"} :
          Gone(P, [pc EXCEPT ![s] = place])
    /\ UNCHANGED <<now, file>>

\* waitForEligibleCleanup looks at the window.
Mature(s) ==
    /\ pc[s] \in {"maturing", "sawPause"}
    /\ \/ ~PauseActive /\ pc[s] = "maturing" /\ Goto(s, "acquiring")
       \/ ~PauseActive /\ pc[s] = "sawPause" /\ Goto(s, "finally")
       \/ PauseActive /\ file.eligible # 0 /\ now >= file.eligible
             /\ Goto(s, "acquiring")
       \/ PauseActive /\ (file.eligible = 0 \/ now < file.eligible)
             /\ pc[s] = "maturing" /\ Goto(s, "sawPause")
    /\ UNCHANGED <<now, file, lease, pending, cleanupId, history>>

\* executeMaintenanceCleanup.
ScriptAcquires(s) ==
    /\ pc[s] = "acquiring"
    /\ \/ Acquire(s)
       \/ ~LeaseIsFree /\ Goto(s, "finally") /\ UNCHANGED <<lease, history>>
    /\ UNCHANGED <<now, file, pending, cleanupId>>

\* The gate comes down and pm2 starts the workers again (StartWorker).
Finally(s) ==
    /\ pc[s] = "finally"
    /\ Update(s, [file EXCEPT !.vacuuming = FALSE])
    /\ Goto(s, "done")
    /\ cleanupId' = [cleanupId EXCEPT ![s] = 0]
    /\ UNCHANGED <<now, file, lease, history>>

Script(s) ==
    \/ StartScript(s) \/ ClearGate(s) \/ RaiseGate(s) \/ StopWorkers(s)
    \/ Mature(s) \/ ScriptAcquires(s) \/ Finally(s)

(***************************************************************************)
(* The specification.                                                      *)
(***************************************************************************)

Tick ==
    /\ now < MaxTime /\ now' = now + 1
    /\ UNCHANGED <<file, lease, pc, pending, cleanupId, history>>

\* A crash, a signal, a reboot: the file and the lease stay.
Kill(p) ==
    /\ pc[p] \notin {"planned", "done", "down"}
    /\ Gone({p}, pc)
    /\ UNCHANGED <<now, file>>

Step(p) ==
    \/ WriteState(p)
    \/ /\ Ready(p)
       /\ Cleanup(p) \/ (p \in Workers /\ Worker(p)) \/ (p \in Scripts /\ Script(p))

Next == Tick \/ \E p \in Procs : Step(p) \/ Kill(p)

Spec == Init /\ [][Next]_vars

\* Time passes, and a process that is not killed goes on: with its write, with
\* its cleanup, round its wait loop once a second, and to the end of the script.
Fairness ==
    /\ WF_vars(Tick)
    /\ \A p \in Procs :
          WF_vars(WriteState(p)) /\ WF_vars(Ready(p) /\ Cleanup(p))
    /\ \A w \in Workers :
          /\ WF_vars(Ready(w) /\ Resume(w))
          /\ WF_vars(Ready(w) /\ TryAcquire(w))
    /\ \A s \in Scripts :
          WF_vars(Ready(s) /\ Script(s) /\ pc[s] \notin {"planned", "down"})

FairSpec == Spec /\ Fairness

(***************************************************************************)
(* Properties.                                                             *)
(***************************************************************************)

TypeOK ==
    /\ now \in 1 .. MaxTime
    /\ file \in MaintenanceState
    /\ lease \in Procs \cup {"free", "stale"}
    /\ pc \in [Procs -> WorkerPlaces \cup ScriptPlaces]
    /\ \A w \in Workers : pc[w] \in WorkerPlaces
    /\ \A s \in Scripts : pc[s] \in ScriptPlaces
    /\ pending \in [Procs -> SUBSET MaintenanceState]
    /\ \A p \in Procs : \A a, b \in pending[p] : a = b
    /\ cleanupId \in [Procs -> Nat]
    /\ outdated \in SUBSET Procs
    /\ reverted \in BOOLEAN /\ lowered \in BOOLEAN

\* At most one process is between taking the lease and giving it back, however
\* the processes interleave and whenever they are killed: two VACUUMs never
\* run at once.
OneCleaner ==
    \A p, q \in Procs :
        pc[p] \in CleanupPlaces /\ pc[q] \in CleanupPlaces => p = q

\* Whoever finds the database quiesced can rely on a cleanup that holds the
\* lease, alive or killed, unless a process has overwritten that cleanup's end
\* with the state it had read before: a cleanup never ends with its gate up.
QuiesceIsOwned == file.quiesce /\ lease = "free" => reverted

\* While VACUUM may run the database is closed to everybody else, whatever
\* downtimes are reported meanwhile, unless an update was overwritten or the
\* script has lowered isVacuuming under the cleanup, which takes from it what
\* protects its gate against the report of a new downtime.
GateCoversVacuum ==
    \A p \in Procs :
        pc[p] = "vacuuming" /\ Ready(p) => file.quiesce \/ reverted \/ lowered

\* What a killed process leaves behind and no other process takes down: its
\* lease, or the gate of a script that is gone.
LeftBehind ==
    \/ lease = "stale"
    \/ file.vacuuming /\ \E s \in Scripts : pc[s] = "down"

\* A flag that an overwritten update has left up: nobody may be there to lower it.
Orphaned == reverted /\ (file.vacuuming \/ file.quiesce)

\* No worker waits for ever in waitForBungieMaintenancePause, unless for what
\* a killed process has left behind or a lost update has put back.
WaitEnds ==
    \A w \in Workers :
        pc[w] = "wait" ~> pc[w] \in {"work", "down"} \/ LeftBehind \/ Orphaned
=============================================================================
