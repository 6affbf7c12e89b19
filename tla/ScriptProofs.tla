---------------------------- MODULE ScriptProofs -----------------------------
(***************************************************************************)
(* The two kinds of scripts that run beside live processes and share state *)
(* with them, a file or a row: database maintenance (Maintenance) and the  *)
(* second phase of discover.ts (BackwardScan, at the end of the module).   *)
(* The two specifications share no name and no theorem.                    *)
(*                                                                         *)
(* Safety of the maintenance protocol for every set of processes, every    *)
(* pause, delay and cooldown, with kills at any point.  That two cleanups  *)
(* never overlap holds because whoever cleans up holds the lease file.     *)
(* That a cleanup has its gate up while it vacuums and down when it ends   *)
(* rests on what the others write: a state they have read and that nobody  *)
(* has replaced since keeps the gate as it is, and a write over a state    *)
(* they have not read is recorded in the history.                          *)
(***************************************************************************)
EXTENDS Maintenance, BackwardScan, TLAPS

(***************************************************************************)
(* Types.                                                                  *)
(***************************************************************************)

\* What the processes compute from the state file is a state.
LEMMA UpdatesAreStates ==
    ASSUME TypeOK
    PROVE  /\ PauseRecorded \in MaintenanceState
           /\ \A id \in Nat : CleanupBegun(id) \in MaintenanceState
           /\ Quiesced \in MaintenanceState /\ Running \in MaintenanceState
           /\ Succeeded \in MaintenanceState /\ Failed \in MaintenanceState
           /\ \A b \in BOOLEAN : [file EXCEPT !.vacuuming = b] \in MaintenanceState
<1> file \in MaintenanceState /\ now \in Nat
  BY DEF TypeOK
<1>1. PauseRecorded \in MaintenanceState
  <2> DEFINE started == IF PauseActive /\ file.event # 0 THEN file.event ELSE now
             until   == IF file.until > now + Pause THEN file.until ELSE now + Pause
             status  == IF GateKept THEN file.status ELSE "pending"
             quiesce == GateKept /\ file.quiesce
  <2>1. /\ started \in Nat /\ until \in Nat /\ started + Delay \in Nat
        /\ status \in CleanupStatus /\ quiesce \in BOOLEAN
    BY MaintenanceAssumption DEF MaintenanceState, CleanupStatus
  <2>2. PauseRecorded = [file EXCEPT !.until = until, !.event = started,
                             !.eligible = started + Delay, !.status = status,
                             !.quiesce = quiesce]
    BY DEF PauseRecorded, MaintenanceState
  <2> HIDE DEF started, until, status, quiesce
  <2> QED
    BY <2>1, <2>2 DEF MaintenanceState
<1>2. /\ \A id \in Nat : CleanupBegun(id) \in MaintenanceState
      /\ Quiesced \in MaintenanceState /\ Running \in MaintenanceState
  BY DEF CleanupBegun, Quiesced, Running, MaintenanceState, CleanupStatus
<1>3. /\ Succeeded \in MaintenanceState /\ Failed \in MaintenanceState
      /\ \A b \in BOOLEAN : [file EXCEPT !.vacuuming = b] \in MaintenanceState
  BY DEF Succeeded, Failed, MaintenanceState, CleanupStatus
<1> QED
  BY <1>1, <1>2, <1>3

\* Processes end only through Gone, which keeps the types.
LEMMA GoneKeepsTypes ==
    ASSUME TypeOK, NEW P \in SUBSET Procs,
           NEW others \in [Procs -> WorkerPlaces \cup ScriptPlaces],
           \A w \in Workers : others[w] \in WorkerPlaces,
           \A s \in Scripts : others[s] \in ScriptPlaces,
           Gone(P, others), UNCHANGED <<now, file>>
    PROVE  TypeOK'
<1>1. /\ pc' \in [Procs -> WorkerPlaces \cup ScriptPlaces]
      /\ \A w \in Workers : pc'[w] \in WorkerPlaces
      /\ \A s \in Scripts : pc'[s] \in ScriptPlaces
  BY DEF Gone, Procs, WorkerPlaces, ScriptPlaces
<1>2. /\ pending' \in [Procs -> SUBSET MaintenanceState]
      /\ \A p \in Procs : \A a, b \in pending'[p] : a = b
  BY DEF Gone, TypeOK
<1>3. /\ cleanupId' \in [Procs -> Nat] /\ lease' \in Procs \cup {"free", "stale"}
      /\ outdated' \in SUBSET Procs /\ reverted' \in BOOLEAN /\ lowered' \in BOOLEAN
  BY DEF Gone, TypeOK
<1> QED
  BY <1>1, <1>2, <1>3 DEF TypeOK

\* A step that leaves the file alone, moves p to a place of its own kind and
\* leaves it at most one state to write keeps the types.
LEMMA MoveKeepsTypes ==
    ASSUME TypeOK, NEW p \in Procs, NEW place,
           Goto(p, place), UNCHANGED <<now, file>>,
           p \in Workers => place \in WorkerPlaces,
           p \in Scripts => place \in ScriptPlaces,
           \/ UNCHANGED pending
           \/ \E state \in MaintenanceState : Update(p, state),
           lease' \in {lease, p, "free"}, UNCHANGED outdated,
           reverted' \in {reverted, FALSE},
           lowered' \in {lowered, lowered /\ lease # p},
           \/ UNCHANGED cleanupId
           \/ \E id \in Nat : cleanupId' = [cleanupId EXCEPT ![p] = id]
    PROVE  TypeOK'
<1>1. /\ pc' \in [Procs -> WorkerPlaces \cup ScriptPlaces]
      /\ \A w \in Workers : pc'[w] \in WorkerPlaces
      /\ \A s \in Scripts : pc'[s] \in ScriptPlaces
  BY MaintenanceAssumption DEF Goto, TypeOK, Procs
<1>2. /\ pending' \in [Procs -> SUBSET MaintenanceState]
      /\ \A q \in Procs : \A a, b \in pending'[q] : a = b
  BY DEF Update, TypeOK
<1>3. /\ cleanupId' \in [Procs -> Nat] /\ lease' \in Procs \cup {"free", "stale"}
      /\ outdated' \in SUBSET Procs /\ reverted' \in BOOLEAN /\ lowered' \in BOOLEAN
  BY DEF TypeOK
<1> QED
  BY <1>1, <1>2, <1>3 DEF TypeOK

\* Before anything runs.
LEMMA InitTypes == Init => TypeOK
<1> SUFFICES ASSUME Init PROVE TypeOK
  OBVIOUS
<1>1. now \in 1 .. MaxTime /\ file \in MaintenanceState
  BY MaintenanceAssumption
     DEF Init, DefaultState, MaintenanceState, CleanupStatus
<1>2. /\ pc \in [Procs -> WorkerPlaces \cup ScriptPlaces]
      /\ \A w \in Workers : pc[w] \in WorkerPlaces
      /\ \A s \in Scripts : pc[s] \in ScriptPlaces
  BY DEF Init, Procs, WorkerPlaces, ScriptPlaces
<1>3. /\ pending \in [Procs -> SUBSET MaintenanceState]
      /\ \A p \in Procs : \A a, b \in pending[p] : a = b
      /\ cleanupId \in [Procs -> Nat] /\ lease \in Procs \cup {"free", "stale"}
      /\ outdated \in SUBSET Procs /\ reverted \in BOOLEAN /\ lowered \in BOOLEAN
  BY DEF Init
<1> QED
  BY <1>1, <1>2, <1>3 DEF TypeOK

\* The cleanup, whoever runs it.
LEMMA CleanupKeepsTypes ==
    ASSUME TypeOK, NEW p \in Procs, Cleanup(p)
    PROVE  TypeOK'
<1> USE DEF WorkerPlaces, ScriptPlaces, CleanupPlaces, history
<1>1. CASE BeginCleanup(p)
  <2>1. cleanupId[p] \in Nat
    BY DEF TypeOK
  <2> QED
    BY <1>1, <2>1, UpdatesAreStates, MoveKeepsTypes DEF BeginCleanup
<1>2. CASE Quiesce(p) \/ GraceOver(p) \/ VacuumDone(p) \/ CleanupFails(p)
  BY <1>2, UpdatesAreStates, MoveKeepsTypes
     DEF Quiesce, GraceOver, VacuumDone, CleanupFails
<1>3. CASE LeaveCleanup(p)
  <2>1. 0 \in Nat
    OBVIOUS
  <2>2. /\ p \in Workers => AfterCleanup(p) \in WorkerPlaces
        /\ p \in Scripts => AfterCleanup(p) \in ScriptPlaces
    BY MaintenanceAssumption DEF AfterCleanup
  <2> QED
    BY <1>3, <2>1, <2>2, MoveKeepsTypes DEF LeaveCleanup, Release
<1> QED
  BY <1>1, <1>2, <1>3 DEF Cleanup

\* A worker outside the cleanup.
LEMMA WorkerKeepsTypes ==
    ASSUME TypeOK, NEW w \in Workers, Worker(w)
    PROVE  TypeOK'
<1> USE DEF WorkerPlaces, ScriptPlaces, CleanupPlaces, history
<1> w \in Procs /\ w \notin Scripts
  BY MaintenanceAssumption DEF Procs
<1>1. CASE StartWorker(w)
  <2>1. PICK place \in {"down", "wait"} : Goto(w, place)
    BY <1>1 DEF StartWorker
  <2> QED
    BY <1>1, <2>1, MoveKeepsTypes DEF StartWorker
<1>2. CASE RecordPause(w)
  BY <1>2, UpdatesAreStates, MoveKeepsTypes DEF RecordPause
<1>3. CASE NextIteration(w) \/ Resume(w)
  BY <1>3, MoveKeepsTypes DEF NextIteration, Resume
<1>4. CASE SeeEligible(w)
  <2>1. file.event \in Nat
    BY DEF TypeOK, MaintenanceState
  <2> QED
    BY <1>4, <2>1, MoveKeepsTypes DEF SeeEligible
<1>5. CASE TryAcquire(w)
  <2>1. 0 \in Nat
    OBVIOUS
  <2>2. PICK place \in {"leased", "wait"} : Goto(w, place)
    BY <1>5 DEF TryAcquire, Acquire
  <2> QED
    BY <1>5, <2>1, <2>2, MoveKeepsTypes DEF TryAcquire, Acquire
<1> QED
  BY <1>1, <1>2, <1>3, <1>4, <1>5 DEF Worker

\* The operator's script outside the cleanup.
LEMMA ScriptKeepsTypes ==
    ASSUME TypeOK, NEW s \in Scripts, Script(s)
    PROVE  TypeOK'
<1> USE DEF WorkerPlaces, ScriptPlaces, CleanupPlaces, history
<1> s \in Procs /\ s \notin Workers
  BY MaintenanceAssumption DEF Procs
<1> 0 \in Nat /\ file.event \in Nat
  BY DEF TypeOK, MaintenanceState
<1>1. CASE StartScript(s)
  <2>1. PICK place \in {"clearing", "tidying", "checked", "done"} : Goto(s, place)
    BY <1>1 DEF StartScript
  <2> QED
    BY <1>1, <2>1, MoveKeepsTypes DEF StartScript
<1>2. CASE ClearGate(s) \/ RaiseGate(s) \/ Finally(s)
  <2>1. \E state \in MaintenanceState : Update(s, state)
    BY <1>2, UpdatesAreStates DEF ClearGate, RaiseGate, Finally
  <2>2. PICK place \in {"checked", "gated", "done"} : Goto(s, place)
    BY <1>2 DEF ClearGate, RaiseGate, Finally
  <2> QED
    BY <1>2, <2>1, <2>2, MoveKeepsTypes DEF ClearGate, RaiseGate, Finally
<1>3. CASE StopWorkers(s)
  <2>0. PICK place \in {"maturing", "finally"} :
            \E P \in SUBSET Workers : Gone(P, [pc EXCEPT ![s] = place])
    BY <1>3 DEF StopWorkers
  <2> DEFINE others == [pc EXCEPT ![s] = place]
  <2>1. PICK P \in SUBSET Workers : Gone(P, others)
    BY <2>0
  <2>2. P \in SUBSET Procs
    BY DEF Procs
  <2>3. /\ others \in [Procs -> WorkerPlaces \cup ScriptPlaces]
        /\ \A x \in Workers : others[x] \in WorkerPlaces
        /\ \A x \in Scripts : others[x] \in ScriptPlaces
    BY MaintenanceAssumption DEF TypeOK, Procs
  <2> HIDE DEF others
  <2> QED
    BY <1>3, <2>1, <2>2, <2>3, GoneKeepsTypes DEF StopWorkers
<1>4. CASE Mature(s) \/ ScriptAcquires(s)
  <2>1. PICK place \in {"acquiring", "finally", "sawPause", "leased"} :
            Goto(s, place)
    BY <1>4 DEF Mature, ScriptAcquires, Acquire
  <2> QED
    BY <1>4, <2>1, MoveKeepsTypes DEF Mature, ScriptAcquires, Acquire
<1> QED
  BY <1>1, <1>2, <1>3, <1>4 DEF Script

\* Every step keeps the types.
LEMMA NextKeepsTypes == TypeOK /\ [Next]_vars => TypeOK'
<1> SUFFICES ASSUME TypeOK, [Next]_vars PROVE TypeOK'
  OBVIOUS
<1>1. CASE Tick
  BY <1>1, MaintenanceAssumption DEF Tick, TypeOK, history
<1>2. ASSUME NEW p \in Procs, WriteState(p) PROVE TypeOK'
  BY <1>2 DEF WriteState, TypeOK
<1>3. ASSUME NEW p \in Procs, Kill(p) PROVE TypeOK'
  BY <1>3, GoneKeepsTypes DEF Kill, TypeOK
<1>4. ASSUME NEW p \in Procs, Step(p) PROVE TypeOK'
  BY <1>2, <1>4, CleanupKeepsTypes, WorkerKeepsTypes, ScriptKeepsTypes DEF Step
<1>5. CASE UNCHANGED vars
  BY <1>5 DEF vars, history, TypeOK
<1> QED
  BY <1>1, <1>3, <1>4, <1>5 DEF Next

\* Types are respected: a worker is never in the script's code, nor the script
\* in a worker's, and the file holds a state.
THEOREM MaintenanceTypeOK == Spec => []TypeOK
<1> QED
  BY InitTypes, NextKeepsTypes, PTL DEF Spec

(***************************************************************************)
(* Mutual exclusion.                                                       *)
(***************************************************************************)

\* Whoever cleans up is the owner of the lease file.
LeaseIsHeld == \A p \in Procs : pc[p] \in CleanupPlaces => lease = p

\* A step of a process leaves the other processes where they are, and moves
\* itself into the cleanup only with the lease.
LEMMA StepKeepsLeaseHeld ==
    ASSUME TypeOK, LeaseIsHeld, NEW p \in Procs, Step(p)
    PROVE  LeaseIsHeld'
<1> USE DEF CleanupPlaces
<1>0. lease = "free" => \A q \in Procs : pc[q] \notin CleanupPlaces
  BY MaintenanceAssumption DEF LeaseIsHeld
<1>1. CASE WriteState(p)
  BY <1>1 DEF WriteState, LeaseIsHeld
<1>2. CASE Cleanup(p)
  <2>1. CASE BeginCleanup(p) \/ Quiesce(p) \/ GraceOver(p) \/ VacuumDone(p)
                \/ CleanupFails(p)
    <3>1. /\ pc[p] \in CleanupPlaces
          /\ \E place \in CleanupPlaces : Goto(p, place)
          /\ UNCHANGED lease
      BY <2>1 DEF BeginCleanup, Quiesce, GraceOver, VacuumDone, CleanupFails
    <3> QED
      BY <3>1 DEF Goto, LeaseIsHeld, TypeOK
  <2>2. CASE LeaveCleanup(p)
    BY <2>2 DEF LeaveCleanup, Release, Goto, AfterCleanup, LeaseIsHeld, TypeOK
  <2> QED
    BY <1>2, <2>1, <2>2 DEF Cleanup
<1>3. CASE p \in Workers /\ Worker(p)
  <2>1. CASE TryAcquire(p)
    BY <2>1, <1>0 DEF TryAcquire, Acquire, LeaseIsFree, Goto, LeaseIsHeld, TypeOK
  <2>2. CASE StartWorker(p) \/ RecordPause(p) \/ NextIteration(p) \/ Resume(p)
                \/ SeeEligible(p)
    <3>1. /\ \E place \in {"down", "work", "wait", "eligible"} : Goto(p, place)
          /\ UNCHANGED lease
      BY <2>2 DEF StartWorker, RecordPause, NextIteration, Resume, SeeEligible
    <3> QED
      BY <3>1 DEF Goto, LeaseIsHeld, TypeOK
  <2> QED
    BY <1>3, <2>1, <2>2 DEF Worker
<1>4. CASE p \in Scripts /\ Script(p)
  <2>1. CASE ScriptAcquires(p)
    BY <2>1, <1>0
       DEF ScriptAcquires, Acquire, LeaseIsFree, Goto, LeaseIsHeld, TypeOK
  <2>2. CASE StopWorkers(p)
    BY <2>2 DEF StopWorkers, Gone, LeaseIsHeld, TypeOK, Procs
  <2>3. CASE StartScript(p) \/ ClearGate(p) \/ RaiseGate(p) \/ Mature(p)
                \/ Finally(p)
    <3>1. /\ \E place \in {"clearing", "tidying", "checked", "gated", "sawPause",
                           "acquiring", "finally", "done"} : Goto(p, place)
          /\ UNCHANGED lease
      BY <2>3 DEF StartScript, ClearGate, RaiseGate, Mature, Finally
    <3> QED
      BY <3>1 DEF Goto, LeaseIsHeld, TypeOK
  <2> QED
    BY <1>4, <2>1, <2>2, <2>3 DEF Script
<1> QED
  BY <1>1, <1>2, <1>3, <1>4 DEF Step

\* The lease stays with its owner until he gives it back or dies.
THEOREM MaintenanceLeaseIsHeld == Spec => []LeaseIsHeld
<1>1. Init => LeaseIsHeld
  BY DEF Init, LeaseIsHeld, CleanupPlaces
<1>2. TypeOK /\ LeaseIsHeld /\ [Next]_vars => LeaseIsHeld'
  <2> SUFFICES ASSUME TypeOK, LeaseIsHeld, [Next]_vars PROVE LeaseIsHeld'
    OBVIOUS
  <2>1. CASE Tick \/ UNCHANGED vars
    BY <2>1 DEF Tick, vars, LeaseIsHeld
  <2>2. ASSUME NEW p \in Procs, Kill(p) PROVE LeaseIsHeld'
    BY <2>2 DEF Kill, Gone, LeaseIsHeld, CleanupPlaces
  <2>3. ASSUME NEW p \in Procs, Step(p) PROVE LeaseIsHeld'
    BY <2>3, StepKeepsLeaseHeld
  <2> QED
    BY <2>1, <2>2, <2>3 DEF Next
<1> QED
  BY <1>1, <1>2, MaintenanceTypeOK, PTL DEF Spec

\* Two processes never clean up at once, whatever the interleaving of their
\* file accesses and whoever is killed (tryAcquireCleanupLease,
\* releaseCleanupLease).
THEOREM MaintenanceOneCleaner == Spec => []OneCleaner
<1>1. LeaseIsHeld => OneCleaner
  BY DEF LeaseIsHeld, OneCleaner
<1> QED
  BY <1>1, MaintenanceLeaseIsHeld, PTL

(***************************************************************************)
(* The gate of a cleanup: up while it vacuums, down when it ends.          *)
(***************************************************************************)

\* A state about to be written by somebody who has seen the present one raises
\* the gate only if he holds the lease, and lowers it only with isVacuuming.
SeenStatesKeepGate ==
    \A q \in Procs \ outdated : \A state \in pending[q] :
        /\ state.quiesce => file.quiesce \/ lease = q
        /\ file.vacuuming /\ file.quiesce /\ state.vacuuming => state.quiesce

\* The flags a cleanup relies on at a place, in a given state of the file.
GateUpAt(place, state) ==
    /\ place \in {"snapshotting", "quiesced", "vacuuming"} => state.vacuuming
    /\ place \in {"quiesced", "vacuuming"} => state.quiesce

\* They are in the file, or in what the cleanup is about to write.
CleanupGateIsUp ==
    \A p \in Procs :
        \/ reverted \/ lowered
        \/ /\ Ready(p) => GateUpAt(pc[p], file)
           /\ \A state \in pending[p] : GateUpAt(pc[p], state)

\* Who is about to give the lease back has taken the gate down.
EndedGateIsDown ==
    \A p \in Procs :
        pc[p] = "ended" =>
            /\ Ready(p) => ~file.quiesce \/ reverted
            /\ \A state \in pending[p] : ~state.quiesce

GateParts ==
    SeenStatesKeepGate /\ CleanupGateIsUp /\ EndedGateIsDown /\ QuiesceIsOwned

\* The inductive invariant behind QuiesceIsOwned and GateCoversVacuum.
GateInv == TypeOK /\ LeaseIsHeld /\ GateParts

\* The write of another process: outdated, and then it changes no flag or is
\* recorded, or not, and then it keeps the gate.
LEMMA WriteKeepsGate ==
    ASSUME GateInv, NEW p \in Procs, WriteState(p)
    PROVE  GateParts'
<1> USE DEF GateInv, GateParts
<1>1. /\ file' \in pending[p] /\ pending' = [pending EXCEPT ![p] = {}]
      /\ UNCHANGED <<lease, pc>>
      /\ \A state \in pending[p] : state = file'
  BY DEF WriteState, TypeOK
<1>2. file' = file \/ \A q \in Procs \ {p} : q \notin outdated' => pending[q] = {}
  BY DEF WriteState, Ready
<1>3. /\ reverted => reverted'
      /\ lowered => lowered'
      /\ file.vacuuming /\ ~file'.vacuuming /\ lease \in Procs \ {p} => lowered'
  BY DEF WriteState
<1>4. file \in MaintenanceState /\ file' \in MaintenanceState
  BY <1>1 DEF TypeOK
<1>5. CASE p \in outdated /\ p # lease /\ Flags' # Flags
  <2>1. reverted'
    BY <1>5 DEF WriteState
  <2>2. SeenStatesKeepGate'
    <3> SUFFICES ASSUME NEW q \in Procs, q \notin outdated', NEW state \in pending'[q]
                 PROVE  /\ state.quiesce => file'.quiesce \/ lease = q
                        /\ file'.vacuuming /\ file'.quiesce /\ state.vacuuming
                              => state.quiesce
      BY <1>1 DEF SeenStatesKeepGate
    <3>1. q # p /\ state \in pending[q]
      BY <1>1 DEF TypeOK
    <3>2. file' = file
      BY <1>2, <3>1
    <3> QED
      BY <1>5, <3>2 DEF Flags
  <2>3. CleanupGateIsUp' /\ QuiesceIsOwned'
    BY <2>1 DEF CleanupGateIsUp, QuiesceIsOwned
  <2>4. EndedGateIsDown'
    BY <1>1, <2>1 DEF EndedGateIsDown, TypeOK
  <2> QED
    BY <2>2, <2>3, <2>4
<1>6. CASE p \notin outdated \/ p = lease \/ Flags' = Flags
  <2>1. file'.quiesce => file.quiesce \/ lease = p
    BY <1>1, <1>6 DEF SeenStatesKeepGate, Flags
  <2>2. lease # p /\ file.vacuuming /\ file.quiesce /\ file'.vacuuming
            => file'.quiesce
    BY <1>1, <1>6 DEF SeenStatesKeepGate, Flags
  <2>3. SeenStatesKeepGate'
    <3> SUFFICES ASSUME NEW q \in Procs, q \notin outdated', NEW state \in pending'[q]
                 PROVE  /\ state.quiesce => file'.quiesce \/ lease = q
                        /\ file'.vacuuming /\ file'.quiesce /\ state.vacuuming
                              => state.quiesce
      BY <1>1 DEF SeenStatesKeepGate
    <3>1. q # p /\ state \in pending[q]
      BY <1>1 DEF TypeOK
    <3>2. file' = file /\ q \notin outdated
      BY <1>2, <3>1 DEF WriteState
    <3> QED
      BY <3>1, <3>2 DEF SeenStatesKeepGate
  <2>4. QuiesceIsOwned'
    BY <1>1, <1>3, <2>1, MaintenanceAssumption DEF QuiesceIsOwned
  <2>5. EndedGateIsDown'
    <3> SUFFICES ASSUME NEW q \in Procs, pc[q] = "ended"
                 PROVE  /\ Ready(q)' => ~file'.quiesce \/ reverted'
                        /\ \A state \in pending'[q] : ~state.quiesce
      BY <1>1 DEF EndedGateIsDown
    <3>1. lease = q
      BY DEF LeaseIsHeld, CleanupPlaces
    <3>2. CASE q = p
      BY <1>1, <3>2 DEF EndedGateIsDown, TypeOK
    <3>3. CASE q # p
      BY <1>1, <1>3, <2>1, <3>1, <3>3 DEF EndedGateIsDown, Ready, TypeOK
    <3> QED
      BY <3>2, <3>3
  <2>6. CleanupGateIsUp'
    <3> SUFFICES ASSUME NEW q \in Procs, ~reverted', ~lowered'
                 PROVE  /\ Ready(q)' => GateUpAt(pc[q], file')
                        /\ \A state \in pending'[q] : GateUpAt(pc[q], state)
      BY <1>1 DEF CleanupGateIsUp
    <3>1. /\ Ready(q) => GateUpAt(pc[q], file)
          /\ \A state \in pending[q] : GateUpAt(pc[q], state)
      BY <1>3 DEF CleanupGateIsUp
    <3>2. CASE q = p
      BY <1>1, <3>1, <3>2 DEF TypeOK
    <3>3. CASE q # p
      <4>1. pending'[q] = pending[q]
        BY <1>1, <3>3 DEF TypeOK
      <4>2. ASSUME Ready(q), pc[q] \in CleanupPlaces PROVE GateUpAt(pc[q], file')
        <5>1. lease = q
          BY <4>2 DEF LeaseIsHeld
        <5>2. file.vacuuming => file'.vacuuming
          BY <1>3, <1>4, <3>3, <5>1 DEF MaintenanceState
        <5> QED
          BY <2>2, <3>1, <3>3, <4>2, <5>1, <5>2 DEF GateUpAt
      <4>3. ASSUME pc[q] \notin CleanupPlaces PROVE GateUpAt(pc[q], file')
        BY <4>3 DEF GateUpAt, CleanupPlaces
      <4> QED
        BY <3>1, <4>1, <4>2, <4>3 DEF Ready
    <3> QED
      BY <3>2, <3>3
  <2> QED
    BY <2>3, <2>4, <2>5, <2>6
<1> QED
  BY <1>5, <1>6

\* Outside the cleanup a process that computes a state keeps the gate in it, or
\* lowers isVacuuming.
LEMMA OutsideKeepsGate ==
    ASSUME GateInv, NEW p \in Procs, UNCHANGED file,
           pc'[p] \notin CleanupPlaces \/ pc'[p] = "leased",
           \A q \in Procs \ {p} : pc'[q] = pc[q] /\ pending'[q] = pending[q],
           \A state \in pending'[p] :
              /\ state.quiesce => file.quiesce
              /\ file.vacuuming /\ file.quiesce /\ state.vacuuming => state.quiesce,
           \/ UNCHANGED <<lease, history>>
           \/ lease = "free" /\ lease' = p /\ UNCHANGED <<outdated, lowered>>
    PROVE  GateParts'
<1> USE DEF GateInv, GateParts
<1>0. lease = "free" => \A q \in Procs : pc[q] \notin CleanupPlaces
  BY MaintenanceAssumption DEF LeaseIsHeld
<1>1. outdated' = outdated
  BY DEF history
<1>2. SeenStatesKeepGate'
  BY <1>1, MaintenanceAssumption DEF SeenStatesKeepGate
<1>3. CASE UNCHANGED <<lease, history>>
  <2>1. QuiesceIsOwned' /\ EndedGateIsDown'
    BY <1>3 DEF QuiesceIsOwned, EndedGateIsDown, Ready, CleanupPlaces, history
  <2>2. CleanupGateIsUp'
    BY <1>3 DEF CleanupGateIsUp, GateUpAt, Ready, CleanupPlaces, history
  <2> QED
    BY <1>2, <2>1, <2>2
<1>4. CASE lease = "free" /\ lease' = p
  <2>1. \A q \in Procs : pc'[q] \notin CleanupPlaces \/ pc'[q] = "leased"
    BY <1>0, <1>4
  <2>2. EndedGateIsDown' /\ CleanupGateIsUp'
    BY <2>1 DEF EndedGateIsDown, CleanupGateIsUp, GateUpAt, CleanupPlaces
  <2>3. QuiesceIsOwned'
    BY <1>4, MaintenanceAssumption DEF QuiesceIsOwned
  <2> QED
    BY <1>2, <2>2, <2>3
<1> QED
  BY <1>3, <1>4

\* The end of processes takes their pending states with it, and leaves a stale
\* lease at worst.
LEMMA GoneKeepsGate ==
    ASSUME GateInv, NEW P \in SUBSET Procs, NEW others, UNCHANGED file,
           Gone(P, others),
           \A q \in Procs : others[q] = pc[q] \/ others[q] \notin CleanupPlaces
    PROVE  GateParts'
<1> USE DEF GateInv, GateParts
<1>1. \A q \in Procs : pc'[q] \in CleanupPlaces =>
          pc'[q] = pc[q] /\ pending'[q] = pending[q]
  BY DEF Gone, CleanupPlaces
<1>2. /\ \A q \in Procs : pending'[q] # {} =>
              /\ pending'[q] = pending[q]
              /\ q \in outdated' <=> q \in outdated
              /\ lease = q => lease' = q
      /\ lease' = "free" => lease = "free"
      /\ UNCHANGED <<reverted, lowered>>
  BY DEF Gone
<1>3. SeenStatesKeepGate'
  BY <1>2 DEF SeenStatesKeepGate
<1>4. QuiesceIsOwned'
  BY <1>2 DEF QuiesceIsOwned
<1>5. EndedGateIsDown'
  BY <1>1, <1>2 DEF EndedGateIsDown, Ready, CleanupPlaces
<1>6. CleanupGateIsUp'
  <2> SUFFICES ASSUME NEW q \in Procs, pc'[q] \in CleanupPlaces, ~reverted, ~lowered
               PROVE  /\ Ready(q)' => GateUpAt(pc'[q], file)
                      /\ \A state \in pending'[q] : GateUpAt(pc'[q], state)
    BY <1>2 DEF CleanupGateIsUp, GateUpAt, CleanupPlaces
  <2> QED
    BY <1>1 DEF CleanupGateIsUp, Ready
<1> QED
  BY <1>3, <1>4, <1>5, <1>6

\* The cleanup raises both flags before it vacuums, and lowers them before it
\* gives the lease back.
LEMMA CleanupKeepsGate ==
    ASSUME GateInv, NEW p \in Procs, Ready(p), Cleanup(p)
    PROVE  GateParts'
<1> USE DEF GateInv, GateParts
<1>0. /\ pc[p] \in CleanupPlaces /\ lease = p /\ p # "free"
      /\ \A q \in Procs \ {p} : pc[q] \notin CleanupPlaces
      /\ file \in MaintenanceState
  <2>1. pc[p] \in CleanupPlaces
    BY DEF Cleanup, BeginCleanup, Quiesce, GraceOver, VacuumDone, CleanupFails,
           LeaveCleanup, CleanupPlaces
  <2> QED
    BY <2>1, MaintenanceAssumption DEF LeaseIsHeld, TypeOK
<1>1. CASE LeaveCleanup(p)
  <2>1. /\ \A q \in Procs : pc'[q] \notin CleanupPlaces
        /\ UNCHANGED <<file, pending, outdated, reverted>>
        /\ ~file.quiesce \/ reverted
    BY <1>0, <1>1 DEF LeaveCleanup, Release, Goto, AfterCleanup, CleanupPlaces,
                      EndedGateIsDown, TypeOK
  <2>2. SeenStatesKeepGate'
    BY <1>0, <1>1, <2>1
       DEF SeenStatesKeepGate, LeaveCleanup, Release, Ready
  <2>3. EndedGateIsDown' /\ CleanupGateIsUp' /\ QuiesceIsOwned'
    BY <2>1 DEF EndedGateIsDown, CleanupGateIsUp, QuiesceIsOwned, GateUpAt,
                CleanupPlaces
  <2> QED
    BY <2>2, <2>3
<1>2. CASE BeginCleanup(p) \/ Quiesce(p) \/ GraceOver(p) \/ VacuumDone(p)
               \/ CleanupFails(p)
  <2>1. /\ UNCHANGED <<file, lease, history>>
        /\ \A q \in Procs \ {p} : pc'[q] = pc[q] /\ pending'[q] = pending[q]
    BY <1>2 DEF BeginCleanup, Quiesce, GraceOver, VacuumDone, CleanupFails,
                Update, Goto, TypeOK
  <2>2. /\ ~reverted /\ ~lowered =>
              \A state \in pending'[p] : GateUpAt(pc'[p], state)
        /\ pc'[p] = "ended" => \A state \in pending'[p] : ~state.quiesce
        /\ \A state \in pending'[p] :
              file.vacuuming /\ file.quiesce /\ state.vacuuming => state.quiesce
        /\ ~Ready(p)'
    <3>1. CASE BeginCleanup(p)
      <4>1. pc'[p] = "snapshotting" /\ pending'[p] = {CleanupBegun(cleanupId[p])}
        BY <3>1 DEF BeginCleanup, Goto, Update, TypeOK
      <4>2. LET state == CleanupBegun(cleanupId[p])
            IN  state.vacuuming /\ state.quiesce = file.quiesce
        BY <1>0 DEF CleanupBegun, MaintenanceState
      <4> QED
        BY <4>1, <4>2 DEF GateUpAt, Ready
    <3>2. CASE Quiesce(p)
      <4>1. pc'[p] = "quiesced" /\ pending'[p] = {Quiesced}
        BY <3>2 DEF Quiesce, Goto, Update, TypeOK
      <4>2. ~reverted /\ ~lowered => file.vacuuming
        BY <3>2 DEF Quiesce, CleanupGateIsUp, GateUpAt
      <4>3. Quiesced.quiesce /\ Quiesced.vacuuming = file.vacuuming
        BY <1>0 DEF Quiesced, MaintenanceState
      <4> QED
        BY <4>1, <4>2, <4>3 DEF GateUpAt, Ready
    <3>3. CASE GraceOver(p)
      <4>1. pc'[p] = "vacuuming" /\ pending'[p] = {Running}
        BY <3>3 DEF GraceOver, Goto, Update, TypeOK
      <4>2. ~reverted /\ ~lowered => file.vacuuming /\ file.quiesce
        BY <3>3 DEF GraceOver, CleanupGateIsUp, GateUpAt
      <4>3. /\ Running.vacuuming = file.vacuuming
            /\ Running.quiesce = file.quiesce
        BY <1>0 DEF Running, MaintenanceState
      <4> QED
        BY <4>1, <4>2, <4>3 DEF GateUpAt, Ready
    <3>4. CASE VacuumDone(p) \/ CleanupFails(p)
      <4>1. /\ pc'[p] = "ended"
            /\ pending'[p] = {Succeeded} \/ pending'[p] = {Failed}
        BY <3>4 DEF VacuumDone, CleanupFails, Goto, Update, TypeOK
      <4>2. /\ ~Succeeded.quiesce /\ ~Succeeded.vacuuming
            /\ ~Failed.quiesce /\ ~Failed.vacuuming
        BY <1>0 DEF Succeeded, Failed, MaintenanceState
      <4> QED
        BY <4>1, <4>2 DEF GateUpAt, Ready
    <3> QED
      BY <1>2, <3>1, <3>2, <3>3, <3>4
  <2>3. SeenStatesKeepGate'
    BY <1>0, <2>1, <2>2 DEF SeenStatesKeepGate, history
  <2>4. EndedGateIsDown' /\ QuiesceIsOwned'
    BY <2>1, <2>2 DEF EndedGateIsDown, QuiesceIsOwned, Ready, history
  <2>5. CleanupGateIsUp'
    BY <2>1, <2>2 DEF CleanupGateIsUp, Ready, history
  <2> QED
    BY <2>3, <2>4, <2>5
<1> QED
  BY <1>1, <1>2 DEF Cleanup

\* A worker outside the cleanup: the report of a downtime lowers no gate of a
\* cleanup that has isVacuuming up (recordBungieMaintenancePause).
LEMMA WorkerKeepsGate ==
    ASSUME GateInv, NEW w \in Workers, Ready(w), Worker(w)
    PROVE  GateParts'
<1> USE DEF GateInv
<1> w \in Procs
  BY DEF Procs
<1>1. /\ UNCHANGED file
      /\ pc'[w] \notin CleanupPlaces \/ pc'[w] = "leased"
  BY DEF Worker, StartWorker, RecordPause, NextIteration, Resume, SeeEligible,
         TryAcquire, Acquire, Goto, CleanupPlaces, TypeOK
<1>2. \A q \in Procs \ {w} : pc'[q] = pc[q] /\ pending'[q] = pending[q]
  BY DEF Worker, StartWorker, RecordPause, NextIteration, Resume, SeeEligible,
         TryAcquire, Acquire, Goto, Update, TypeOK
<1>3. \/ UNCHANGED <<lease, history>>
      \/ lease = "free" /\ lease' = w /\ UNCHANGED <<outdated, lowered>>
  BY DEF Worker, StartWorker, RecordPause, NextIteration, Resume, SeeEligible,
         TryAcquire, Acquire, LeaseIsFree
<1>4. \A state \in pending'[w] : state = PauseRecorded
  BY DEF Worker, StartWorker, RecordPause, NextIteration, Resume, SeeEligible,
         TryAcquire, Update, Ready, TypeOK
<1>5. /\ PauseRecorded.quiesce => file.quiesce
      /\ file.vacuuming /\ file.quiesce => PauseRecorded.quiesce
  BY DEF PauseRecorded, GateKept, TypeOK, MaintenanceState
<1> QED
  BY <1>1, <1>2, <1>3, <1>4, <1>5, OutsideKeepsGate

\* The script outside the cleanup writes nothing but isVacuuming.
LEMMA ScriptKeepsGate ==
    ASSUME GateInv, NEW s \in Scripts, Ready(s), Script(s)
    PROVE  GateParts'
<1> USE DEF GateInv
<1> s \in Procs
  BY DEF Procs
<1>1. CASE StopWorkers(s)
  <2>1. PICK P \in SUBSET Workers, place \in {"maturing", "finally"} :
            Gone(P, [pc EXCEPT ![s] = place])
    BY <1>1 DEF StopWorkers
  <2> DEFINE others == [pc EXCEPT ![s] = place]
  <2>2. \A q \in Procs : others[q] = pc[q] \/ others[q] \notin CleanupPlaces
    BY DEF TypeOK, CleanupPlaces
  <2>3. P \in SUBSET Procs /\ UNCHANGED file /\ Gone(P, others)
    BY <1>1, <2>1 DEF StopWorkers, Procs
  <2> HIDE DEF others
  <2> QED
    BY <2>2, <2>3, GoneKeepsGate
<1>2. CASE StartScript(s) \/ ClearGate(s) \/ RaiseGate(s) \/ Mature(s)
              \/ ScriptAcquires(s) \/ Finally(s)
  <2>1. /\ UNCHANGED file
        /\ pc'[s] \notin CleanupPlaces \/ pc'[s] = "leased"
    BY <1>2 DEF StartScript, ClearGate, RaiseGate, Mature, ScriptAcquires,
                Finally, Acquire, Goto, CleanupPlaces, TypeOK
  <2>2. \A q \in Procs \ {s} : pc'[q] = pc[q] /\ pending'[q] = pending[q]
    BY <1>2 DEF StartScript, ClearGate, RaiseGate, Mature, ScriptAcquires,
                Finally, Acquire, Goto, Update, TypeOK
  <2>3. \/ UNCHANGED <<lease, history>>
        \/ lease = "free" /\ lease' = s /\ UNCHANGED <<outdated, lowered>>
    BY <1>2 DEF StartScript, ClearGate, RaiseGate, Mature, ScriptAcquires,
                Finally, Acquire, LeaseIsFree
  <2>4. \A state \in pending'[s] : state.quiesce = file.quiesce
    <3>1. \A b \in BOOLEAN : [file EXCEPT !.vacuuming = b].quiesce = file.quiesce
      BY DEF TypeOK, MaintenanceState
    <3>2. pending'[s] = {} \/ \E b \in BOOLEAN :
              pending'[s] = {[file EXCEPT !.vacuuming = b]}
      BY <1>2 DEF StartScript, ClearGate, RaiseGate, Mature, ScriptAcquires,
                  Finally, Update, Ready, TypeOK
    <3> QED
      BY <3>1, <3>2
  <2> QED
    BY <2>1, <2>2, <2>3, <2>4, OutsideKeepsGate
<1> QED
  BY <1>1, <1>2 DEF Script

\* Every step keeps the gate.
LEMMA NextKeepsGateInv ==
    GateInv /\ TypeOK' /\ LeaseIsHeld' /\ [Next]_vars => GateInv'
<1> SUFFICES ASSUME GateInv, TypeOK', LeaseIsHeld', [Next]_vars PROVE GateParts'
  BY DEF GateInv
<1> USE DEF GateInv
<1>1. CASE Tick \/ UNCHANGED vars
  BY <1>1 DEF Tick, vars, history, GateParts, SeenStatesKeepGate,
              CleanupGateIsUp, GateUpAt, EndedGateIsDown, QuiesceIsOwned, Ready
<1>2. ASSUME NEW p \in Procs, Kill(p) PROVE GateParts'
  BY <1>2, GoneKeepsGate DEF Kill
<1>3. ASSUME NEW p \in Procs, Step(p) PROVE GateParts'
  BY <1>3, WriteKeepsGate, CleanupKeepsGate, WorkerKeepsGate, ScriptKeepsGate
     DEF Step
<1> QED
  BY <1>1, <1>2, <1>3 DEF Next

\* Before anything runs, no gate is up.
LEMMA InitGateInv == Init => GateInv
<1> SUFFICES ASSUME Init PROVE GateInv
  OBVIOUS
<1>1. \A p \in Procs : pending[p] = {} /\ pc[p] \in {"down", "planned"}
  BY DEF Init
<1>2. ~file.quiesce
  BY DEF Init, DefaultState
<1>3. LeaseIsHeld
  BY <1>1 DEF LeaseIsHeld, CleanupPlaces
<1> QED
  BY <1>1, <1>2, <1>3, InitTypes
     DEF GateInv, GateParts, SeenStatesKeepGate, CleanupGateIsUp, GateUpAt,
         EndedGateIsDown, QuiesceIsOwned

\* The invariant holds in every behaviour.
LEMMA MaintenanceGateInv == Spec => []GateInv
<1> QED
  BY InitGateInv, NextKeepsGateInv, MaintenanceTypeOK, MaintenanceLeaseIsHeld, PTL
     DEF Spec

\* No order of downtime reports, cleanups, scripts and kills leaves the database
\* quiesced behind a cleanup that ended by itself, unless a process has written
\* over that end what it had read before (runMaintenanceCleanup's catch and
\* executeMaintenanceCleanup's finally; updateMaintenanceState).
THEOREM MaintenanceQuiesceIsOwned == Spec => []QuiesceIsOwned
<1>1. GateInv => QuiesceIsOwned
  BY DEF GateInv, GateParts
<1> QED
  BY <1>1, MaintenanceGateInv, PTL

\* While VACUUM may run the database is closed to everybody else, unless an
\* update was overwritten or a script has lowered isVacuuming meanwhile: the
\* report of a downtime alone never opens it (recordBungieMaintenancePause asks
\* for isVacuuming).
THEOREM MaintenanceGateCoversVacuum == Spec => []GateCoversVacuum
<1>1. GateInv => GateCoversVacuum
  BY DEF GateInv, GateParts, CleanupGateIsUp, GateUpAt, GateCoversVacuum
<1> QED
  BY <1>1, MaintenanceGateInv, PTL

(***************************************************************************)
(* BackwardScan, for any ids, limits and jumps: only the move to the       *)
(* present skips ids, whatever the order in which the scanner and the      *)
(* script read and write the checkpoint, and the walk back leaves out      *)
(* nothing strictly inside its gap but failed look-ups, never many in a    *)
(* row.                                                                    *)
(***************************************************************************)

Seen == tried \cup jumped

\* Everything up to p has been seen.
Covered(p) == \A id \in 1 .. p : id \in Seen

\* Every position that is, or is about to become, the checkpoint is covered;
\* what the script has read stays covered while it probes.
PositionsCovered ==
    /\ Covered(saved) /\ Covered(scanner.position)
    /\ script.at = "move" => Covered(script.old)

\* From this id up to the new checkpoint, a raid that is not stored has failed.
Filled(from) ==
    \A id \in from .. (script.present - 1) : id \in Raids => id \in stored \cup failed

\* From this id on, a look-up that did not fail is never far.
Spaced(from) ==
    MaxMisses > 0 =>
        \A id \in Int : id >= from =>
            \E near \in id .. (id + MaxMisses - 1) : near \notin failed

\* What the walk has passed.  An outage leaves out the id it meets; the ids
\* failed in a row are those from the current one on.
WalkPassed ==
    /\ script.at \in {"move", "walking", "stopped"} => script.old < script.present
    /\ script.at = "walking" =>
          /\ Filled(script.current) /\ Spaced(script.current + 1)
          /\ \A id \in failed : id >= script.current
          /\ script.misses >= 0 /\ script.current + script.misses \notin failed
          /\ MaxMisses = 0 => script.current = script.present
    /\ script.at = "stopped" =>
          /\ Filled(script.current + 1) /\ Spaced(script.current + 1)
          /\ MaxMisses > 0
    /\ script.reason = "closed" =>
          /\ script.at = "done" /\ MaxMisses > 0
          /\ Filled(script.old + 1) /\ Spaced(script.old + 1)

ScriptType ==
    [at : DiscoverPlaces, low : Int, high : Int, jump : Int, probes : Int,
     present : Int, old : Int, current : Int, scanned : Int, misses : Nat,
     reason : Reasons]

Numbers ==
    /\ saved \in Int /\ published \in Int /\ stored \subseteq Int /\ failed \subseteq Int
    /\ scanner \in [at : ScannerPlaces, position : Int]
    /\ script \in ScriptType

BackInv == Numbers /\ PositionsCovered /\ WalkPassed

LEMMA BackInitial == ASSUME BackwardAssumption PROVE BackInit => BackInv
  <1> SUFFICES ASSUME BackInit PROVE BackInv  OBVIOUS
  <1>1. Numbers
    BY DEF BackwardAssumption, BackInit, Numbers, ScriptType, ScannerDown, ScriptOff, ScannerPlaces,
           DiscoverPlaces, Reasons, Ids
  <1>2. PositionsCovered
    BY DEF BackwardAssumption, BackInit, PositionsCovered, Covered, Seen, ScannerDown, ScriptOff
  <1>3. WalkPassed
    BY DEF BackInit, WalkPassed, ScriptOff
  <1> QED  BY <1>1, <1>2, <1>3 DEF BackInv

LEMMA OvershotTyped ==
  ASSUME NEW s \in ScriptType, NEW x \in Int, NEW y \in Int, NEW a \in DiscoverPlaces
  PROVE  [s EXCEPT !.high = x, !.probes = y, !.at = a] \in ScriptType
  BY DEF ScriptType

LEMMA HalvedTyped ==
  ASSUME NEW s \in ScriptType, NEW l \in Int, NEW h \in Int, NEW n \in Int
  PROVE  [s EXCEPT !.low = l, !.high = h, !.probes = n] \in ScriptType
  BY DEF ScriptType

LEMMA WalkTyped ==
  ASSUME NEW s \in ScriptType, NEW c \in Int, NEW n \in Int, NEW m \in Nat,
         NEW a \in DiscoverPlaces
  PROVE  [s EXCEPT !.current = c, !.scanned = n, !.misses = m, !.at = a] \in ScriptType
  BY DEF ScriptType

LEMMA ScriptTyped ==
  ASSUME Numbers, ScriptOnly, script' \in ScriptType  PROVE Numbers'
  BY DEF Numbers, ScriptOnly

\* What the scanner does to the walk: it may store a raid for it.
LEMMA WalkStays ==
  ASSUME WalkPassed, script' = script, failed' = failed, stored \subseteq stored'
  PROVE  WalkPassed'
  <1>1. \A from : Filled(from) => Filled(from)'  BY DEF Filled
  <1>2. \A from : Spaced(from) => Spaced(from)'  BY DEF Spaced
  <1> QED  BY <1>1, <1>2 DEF WalkPassed

\* A step of the script that moves only the script, and neither walks nor ends
\* with "closed" nor is about to move the checkpoint, disturbs nothing.
LEMMA ProbeStep ==
  ASSUME BackInv, ScriptOnly, Numbers',
         script'.at \notin {"move", "walking", "stopped"}, script'.reason # "closed"
  PROVE  BackInv'
  BY DEF BackInv, PositionsCovered, WalkPassed, Covered, Seen, ScriptOnly

LEMMA BackStep ==
  ASSUME BackwardAssumption, BackInv, [BackNext]_backVars
  PROVE  BackInv'
  <1> USE DEF BackInv
  <1>1. CASE Publish
    BY <1>1, WalkStays DEF Publish, Numbers, ScriptType, PositionsCovered, Covered, Seen
  <1>2. CASE ScannerStart
    BY <1>2, WalkStays
    DEF ScannerStart, Numbers, ScriptType, PositionsCovered, Covered, Seen, ScannerPlaces
  <1>3. CASE ScannerBatch
    BY <1>3, WalkStays
    DEF ScannerBatch, Numbers, ScriptType, PositionsCovered, Covered, Seen, ScannerPlaces, Larger
  <1>4. CASE ScannerBatchEnd
    <2>1. Numbers'
      <3>1. stored' \subseteq Int
        <4>1. Raids \subseteq Int  BY DEF BackwardAssumption
        <4>2. {id \in BatchIds \cap Raids : id <= published} \subseteq Raids  OBVIOUS
        <4> QED  BY <1>4, <4>1, <4>2 DEF ScannerBatchEnd, Numbers
      <3>2. scanner' \in [at : ScannerPlaces, position : Int]
        BY <1>4 DEF ScannerBatchEnd, Numbers, ScriptType, BatchEnd, ScannerPlaces, BackwardAssumption
      <3> QED  BY <1>4, <3>1, <3>2 DEF ScannerBatchEnd, Numbers, ScriptType
    <2>2. PositionsCovered'
      <3>1. scanner'.position = scanner.position + BatchSize
        BY <1>4 DEF ScannerBatchEnd, BatchEnd
      <3>2. \A id \in 1 .. scanner'.position : id \in 1 .. scanner.position \/ id \in BatchIds
        BY <3>1 DEF Numbers, ScriptType, BackwardAssumption, BatchIds
      <3> QED
        BY <1>4, <3>2 DEF ScannerBatchEnd, PositionsCovered, Covered, Seen
    <2>3. WalkPassed'  BY <1>4, WalkStays DEF ScannerBatchEnd
    <2> QED  BY <2>1, <2>2, <2>3
  <1>5. CASE ScannerReads
    BY <1>5, WalkStays
    DEF ScannerReads, Numbers, ScriptType, PositionsCovered, Covered, Seen, ScannerPlaces
  <1>6. CASE ScannerWrites
    BY <1>6, WalkStays
    DEF ScannerWrites, Numbers, ScriptType, PositionsCovered, Covered, Seen, ScannerPlaces
  <1>7. CASE ScannerKilled
    BY <1>7, WalkStays
    DEF ScannerKilled, ScannerDown, Numbers, ScriptType, PositionsCovered, Covered, Seen,
        ScannerPlaces
  <1>8. CASE ScriptStart
    <2>0. PICK start \in stored \cup {saved} :
            /\ script' = [ScriptOff EXCEPT !.at = "jumping", !.low = start,
                                           !.jump = FirstJump]
            /\ ScriptOnly
      BY <1>8 DEF ScriptStart
    <2>1. Numbers'
      <3>1. start \in Int /\ FirstJump \in Int
        BY DEF Numbers, ScriptType, BackwardAssumption
      <3> QED
        <4>1. script' = [at |-> "jumping", low |-> start, high |-> 0, jump |-> FirstJump,
                         probes |-> 0, present |-> 0, old |-> 0, current |-> 0,
                         scanned |-> 0, misses |-> 0, reason |-> "none"]
          BY <2>0 DEF ScriptOff
        <4>2. script' \in ScriptType
          BY <3>1, <4>1 DEF ScriptType, DiscoverPlaces, Reasons
        <4> QED  BY <2>0, <4>2, ScriptTyped
    <2>2. script'.at = "jumping" /\ script'.reason = "none" /\ ScriptOnly
      BY <2>0 DEF ScriptOff
    <2> QED  BY <2>1, <2>2, ProbeStep
  <1>9. ASSUME NEW exists \in BOOLEAN, Jump(exists)  PROVE BackInv'
    <2>1. Numbers'
      <3>1. CASE exists
        <4>1. PICK place \in {"jumping", "found"} :
                script' = [script EXCEPT !.low = script.low + script.jump, !.jump = 2 * @,
                                         !.probes = @ + 1, !.at = place]
          BY <1>9, <3>1 DEF Jump
        <4>2. /\ script.low + script.jump \in Int /\ 2 * script.jump \in Int
              /\ script.probes + 1 \in Int
          BY DEF Numbers, ScriptType
        <4> QED
          BY <1>9, <4>1, <4>2 DEF Jump, ScriptOnly, Numbers, ScriptType, DiscoverPlaces
      <3>2. CASE ~exists
        <4>1. script' = [script EXCEPT !.high = script.low + script.jump, !.probes = 0,
                                       !.at = "halving"]
          BY <1>9, <3>2 DEF Jump
        <4>2. script.low + script.jump \in Int  BY DEF Numbers, ScriptType
        <4>3. script \in ScriptType /\ "halving" \in DiscoverPlaces /\ 0 \in Int
          BY DEF Numbers, DiscoverPlaces
        <4>4. script' \in ScriptType
          BY <4>1, <4>2, <4>3, OvershotTyped
        <4> QED  BY <1>9, <4>4, ScriptTyped DEF Jump
      <3> QED  BY <3>1, <3>2
    <2>2. script'.at \in {"jumping", "found", "halving"} /\ script'.reason = script.reason
      BY <1>9 DEF Jump, Numbers, ScriptType
    <2>3. script.reason # "closed" /\ ScriptOnly  BY <1>9 DEF Jump, WalkPassed
    <2> QED  BY <2>1, <2>2, <2>3, ProbeStep
  <1>10. ASSUME NEW exists \in BOOLEAN, Halve(exists)  PROVE BackInv'
    <2>1. Numbers'
      <3>1. PICK mid \in Int : script' = Halved(mid, exists)
        <4>1. script.low + (script.high - script.low) \div 2 \in Int
          BY DEF Numbers, ScriptType
        <4> QED  BY <1>10, <4>1 DEF Halve
      <3>2. CASE exists
        <4>1. script' = [script EXCEPT !.low = mid,
                                       !.high = script.high,
                                       !.probes = script.probes + 1]
          BY <3>1, <3>2 DEF Halved
        <4>2. /\ script \in ScriptType /\ script.low \in Int /\ script.high \in Int
              /\ script.probes + 1 \in Int
          BY DEF Numbers, ScriptType
        <4>3. script' \in ScriptType  BY <4>1, <4>2, HalvedTyped
        <4> QED  BY <1>10, <4>3, ScriptTyped DEF Halve
      <3>3. CASE ~exists
        <4>1. script' = [script EXCEPT !.low = script.low,
                                       !.high = mid,
                                       !.probes = script.probes + 1]
          BY <3>1, <3>3 DEF Halved
        <4>2. /\ script \in ScriptType /\ script.low \in Int /\ script.high \in Int
              /\ script.probes + 1 \in Int
          BY DEF Numbers, ScriptType
        <4>3. script' \in ScriptType  BY <4>1, <4>2, HalvedTyped
        <4> QED  BY <1>10, <4>3, ScriptTyped DEF Halve
      <3> QED  BY <3>2, <3>3
    <2>2. script'.at = "halving" /\ script'.reason = script.reason
      BY <1>10 DEF Halve, Halved, Numbers, ScriptType
    <2>3. script.reason # "closed" /\ ScriptOnly  BY <1>10 DEF Halve, WalkPassed
    <2> QED  BY <2>1, <2>2, <2>3, ProbeStep
  <1>11. CASE HalvingOver
    <2>1. Numbers' /\ script'.at = "found" /\ script'.reason = script.reason
      BY <1>11 DEF HalvingOver, ScriptOnly, Numbers, ScriptType, DiscoverPlaces
    <2>2. script.reason # "closed" /\ ScriptOnly  BY <1>11 DEF HalvingOver, WalkPassed
    <2> QED  BY <2>1, <2>2, ProbeStep
  <1>12. CASE ProbeDisabled
    <2>1. Numbers' /\ script'.at = "done" /\ script'.reason # "closed"
      BY <1>12 DEF ProbeDisabled, ScriptOnly, Numbers, ScriptType, DiscoverPlaces, Reasons, WalkPassed
    <2>2. ScriptOnly  BY <1>12 DEF ProbeDisabled
    <2> QED  BY <2>1, <2>2, ProbeStep
  <1>13. CASE ReadOld
    <2>1. CASE script.low > OldPosition
      <3>1. script' = [script EXCEPT !.at = "move", !.present = script.low, !.old = saved]
        BY <1>13, <2>1 DEF ReadOld, OldPosition
      <3>2. ScriptOnly /\ script.reason # "closed"
        BY <1>13 DEF ReadOld, WalkPassed
      <3>3. Numbers' /\ PositionsCovered'
        BY <3>1, <3>2
        DEF ScriptOnly, Numbers, ScriptType, PositionsCovered, Covered, Seen, DiscoverPlaces
      <3>4. WalkPassed'
        <4>1. script'.at = "move" /\ script'.reason = script.reason /\ script'.old < script'.present
          BY <2>1, <3>1 DEF Numbers, ScriptType, OldPosition
        <4> QED  BY <3>2, <4>1 DEF WalkPassed
      <3> QED  BY <3>3, <3>4
    <2>2. CASE ~(script.low > OldPosition)
      <3>1. /\ script' = [script EXCEPT !.at = "done", !.reason = "no_gap"]
            /\ ScriptOnly
        BY <1>13, <2>2 DEF ReadOld
      <3>2. Numbers' /\ script'.at = "done" /\ script'.reason = "no_gap"
        BY <3>1 DEF ScriptOnly, Numbers, ScriptType, DiscoverPlaces, Reasons
      <3> QED  BY <3>1, <3>2, ProbeStep
    <2> QED  BY <2>1, <2>2
  <1>14. CASE MoveCheckpoint
    <2>1. /\ saved' = script.present
          /\ jumped' = jumped \cup ((script.old + 1) .. script.present)
          /\ script' = [script EXCEPT !.at = "walking", !.current = script.present]
          /\ UNCHANGED <<published, stored, scanner, tried>>
          /\ failed' = {} /\ script.at = "move"
      BY <1>14 DEF MoveCheckpoint, Numbers, ScriptType
    <2>2. Numbers'
      BY <2>1 DEF Numbers, ScriptType, DiscoverPlaces
    <2>3. PositionsCovered'
      <3>1. \A id \in 1 .. script.present :
               id \in 1 .. script.old \/ id \in (script.old + 1) .. script.present
        BY DEF Numbers, ScriptType
      <3> QED
        BY <2>1, <3>1 DEF Numbers, ScriptType, PositionsCovered, Covered, Seen
    <2>4. WalkPassed'
      <3>1. /\ script'.at = "walking" /\ script'.current = script.present
            /\ script'.present = script.present /\ script'.old = script.old
            /\ script'.misses = script.misses /\ script'.reason # "closed"
        BY <2>1 DEF Numbers, ScriptType, WalkPassed
      <3>2. Filled(script.current)'
        <4>1. \A id \in Int : ~ (script.present <= id /\ id <= script.present - 1)
          BY DEF Numbers, ScriptType
        <4> QED  BY <3>1, <4>1 DEF Filled, Numbers, ScriptType
      <3>3. Spaced(script.current + 1)'
        BY <2>1 DEF Spaced, BackwardAssumption
      <3>4. script.old < script.present /\ script.misses >= 0
        BY <2>1 DEF WalkPassed, Numbers, ScriptType
      <3> QED  BY <2>1, <3>1, <3>2, <3>3, <3>4 DEF WalkPassed
    <2> QED  BY <2>2, <2>3, <2>4
  <1>15. ASSUME NEW outcome \in {"found", "missed", "disabled"}, WalkTo(outcome)
         PROVE  BackInv'
    <2> DEFINE id == script.current - 1
    <2>1. /\ script'.current = id /\ script'.present = script.present
          /\ script'.old = script.old
          /\ script'.at = (IF outcome = "disabled" THEN "stopped" ELSE "walking")
          /\ script'.misses = (IF outcome = "found" THEN 0
                               ELSE IF outcome = "missed" THEN script.misses + 1
                               ELSE script.misses)
          /\ script'.reason = script.reason
          /\ script.at = "walking" /\ Bounded /\ ~ReachedOld
          /\ stored' = IF outcome = "found" /\ id \in Raids THEN stored \cup {id} ELSE stored
          /\ failed' = IF outcome = "missed" THEN failed \cup {id} ELSE failed
          /\ tried' = tried \cup {id} /\ jumped' = jumped
          /\ UNCHANGED <<published, saved, scanner>>
      BY <1>15 DEF WalkTo, Previous, Numbers, ScriptType
    <2>2. Numbers'
      <3>1. PICK m \in Nat, a \in DiscoverPlaces :
              script' = [script EXCEPT !.current = id, !.scanned = script.scanned + 1,
                                       !.misses = m, !.at = a]
        <4>1. /\ script.misses \in Nat /\ script.misses + 1 \in Nat /\ 0 \in Nat
              /\ script.at \in DiscoverPlaces /\ "stopped" \in DiscoverPlaces
          BY DEF Numbers, ScriptType, DiscoverPlaces, Reasons
        <4> QED  BY <1>15, <4>1 DEF WalkTo, Previous
      <3>2. script' \in ScriptType
        <4>1. script \in ScriptType /\ id \in Int /\ script.scanned + 1 \in Int
          BY DEF Numbers, ScriptType
        <4> QED  BY <3>1, <4>1, WalkTyped
      <3>3. stored' \subseteq Int /\ failed' \subseteq Int
        <4>1. id \in Int /\ stored \subseteq Int /\ failed \subseteq Int
          BY DEF Numbers, ScriptType
        <4>2. stored' \in {stored, stored \cup {id}} /\ failed' \in {failed, failed \cup {id}}
          BY <2>1
        <4> QED  BY <4>1, <4>2
      <3>4. UNCHANGED <<published, saved, scanner>>  BY <2>1
      <3> QED  BY <3>2, <3>3, <3>4 DEF Numbers
    <2>3. PositionsCovered'
      BY <2>1 DEF PositionsCovered, Covered, Seen
    <2>4. WalkPassed'
      <3>00. PICK c \in Int : c = script.current - 1
        BY DEF Numbers, ScriptType
      <3>0. /\ script.current = c + 1 /\ script.current \in Int /\ id = c
            /\ script'.current = c /\ script'.present = script.present
            /\ script.misses \in Int /\ script.present \in Int /\ failed \subseteq Int
            /\ MaxMisses \in Nat
        BY <2>1, <3>00 DEF Numbers, ScriptType, BackwardAssumption
      <3>1. /\ script.misses >= 0 /\ script.misses < MaxMisses /\ script.reason # "closed"
            /\ script.current + script.misses \notin failed
            /\ \A i \in failed : i >= script.current
            /\ Filled(script.current) /\ Spaced(script.current + 1)
            /\ script.old < script.present
        BY <2>1 DEF WalkPassed, Bounded
      <3>2. Filled(c + 1)'
        BY <2>1, <3>0, <3>1 DEF Filled
      <3>3. outcome # "disabled" => Filled(c)'
        <4>1. SUFFICES ASSUME outcome # "disabled", NEW i \in c .. (script.present - 1),
                              i \in Raids
                       PROVE  i \in stored' \cup failed'
          BY <2>1, <3>0 DEF Filled
        <4>2. i = c \/ i \in script.current .. (script.present - 1)
          BY <3>0
        <4>3. CASE i = c
          BY <2>1, <3>0, <4>1, <4>3
        <4> QED  BY <2>1, <3>1, <4>1, <4>2, <4>3 DEF Filled
      <3>4. Spaced(c + 1)'
        <4>1. SUFFICES ASSUME NEW i \in Int, i >= script.current
                       PROVE  \E near \in i .. (i + MaxMisses - 1) : near \notin failed'
          BY <3>0 DEF Spaced
        <4>2. PICK near \in i .. (i + MaxMisses - 1) : near \notin failed
          <5>1. CASE i = script.current
            <6>1. script.current + script.misses \in i .. (i + MaxMisses - 1)
              BY <3>0, <3>1, <5>1
            <6> QED  BY <3>1, <6>1
          <5>2. CASE i >= script.current + 1
            BY <3>0, <3>1, <5>2 DEF Spaced
          <5> QED  BY <3>0, <4>1, <5>1, <5>2
        <4>3. near # c  BY <3>0, <4>1, <4>2
        <4> QED  BY <2>1, <3>0, <4>2, <4>3
      <3>5. /\ \A i \in failed' : i >= c
            /\ outcome # "disabled" =>
                  script'.misses >= 0 /\ c + script'.misses \notin failed'
        <4>1. /\ c \notin failed /\ c + (script.misses + 1) = script.current + script.misses
              /\ c + (script.misses + 1) # c /\ c + 0 = c
          BY <3>0, <3>1
        <4>2. \A i \in failed' : i >= c
          BY <2>1, <3>0, <3>1
        <4>3. CASE outcome = "found"
          BY <2>1, <3>0, <4>1, <4>2, <4>3
        <4>4. CASE outcome = "missed"
          BY <2>1, <3>0, <3>1, <4>1, <4>2, <4>4
        <4> QED  BY <4>2, <4>3, <4>4
      <3>6. MaxMisses > 0  BY <3>0, <3>1
      <3>7. Spaced(script.current + 1)' /\ Filled(script.current + 1)'
        BY <3>0, <3>2, <3>4 DEF Spaced, Filled
      <3>8. outcome # "disabled" => Filled(script.current)'
        BY <3>0, <3>3 DEF Filled
      <3>9. MaxMisses # 0  BY <3>0, <3>6
      <3> QED
        BY <2>1, <3>0, <3>1, <3>5, <3>6, <3>7, <3>8, <3>9 DEF WalkPassed
    <2> QED  BY <2>2, <2>3, <2>4
  <1>16. CASE WalkEnds
    <2>1. /\ script'.at = "done" /\ script'.current = script.current
          /\ script'.present = script.present /\ script'.old = script.old
          /\ script'.reason = "closed" => ReachedOld
          /\ script.at \in {"walking", "stopped"} /\ ScriptOnly
      BY <1>16 DEF WalkEnds, Numbers, ScriptType
    <2>2. Numbers'
      BY <1>16 DEF WalkEnds, ScriptOnly, Numbers, ScriptType, DiscoverPlaces, Reasons
    <2>3. PositionsCovered'
      BY <2>1 DEF PositionsCovered, Covered, Seen, ScriptOnly
    <2>4. WalkPassed'
      <3>1. SUFFICES ASSUME ReachedOld
                     PROVE  MaxMisses > 0 /\ Filled(script.old + 1)' /\ Spaced(script.old + 1)'
        BY <2>1 DEF WalkPassed
      <3>2. /\ script.current \in Int /\ script.old \in Int /\ script.present \in Int
            /\ MaxMisses \in Nat
        BY DEF Numbers, ScriptType, BackwardAssumption
      <3>3. script.current <= script.old /\ script.old < script.present
        BY <2>1, <3>1 DEF WalkPassed, ReachedOld
      <3>4. Spaced(script.current + 1) /\ MaxMisses > 0
        BY <2>1, <3>2, <3>3 DEF WalkPassed
      <3>5. Filled(script.current + 1)
        BY <2>1, <3>2 DEF WalkPassed, Filled
      <3>6. Filled(script.old + 1)'
        BY <2>1, <3>2, <3>3, <3>5 DEF Filled, ScriptOnly
      <3>7. Spaced(script.old + 1)'
        BY <2>1, <3>2, <3>3, <3>4 DEF Spaced, ScriptOnly
      <3> QED  BY <3>4, <3>6, <3>7
    <2> QED  BY <2>2, <2>3, <2>4
  <1>17. CASE ScriptKilled
    <2>1. Numbers' /\ script'.at = "off" /\ script'.reason = "none" /\ ScriptOnly
      BY <1>17 DEF ScriptKilled, ScriptOnly, ScriptOff, Numbers, ScriptType, DiscoverPlaces, Reasons
    <2> QED  BY <2>1, ProbeStep
  <1>18. CASE UNCHANGED backVars
    BY <1>18, WalkStays DEF backVars, Numbers, ScriptType, PositionsCovered, Covered, Seen
  <1> QED
    BY <1>1, <1>2, <1>3, <1>4, <1>5, <1>6, <1>7, <1>8, <1>9, <1>10, <1>11, <1>12, <1>13,
       <1>14, <1>15, <1>16, <1>17, <1>18
    DEF BackNext, Scan, Discover

\* Whatever the order of reads and writes of the checkpoint (discover.ts, scanner.ts),
\* every id up to a position was tried or jumped, and the walk stored or missed the
\* raids it passed.
THEOREM BackInvariant == ASSUME BackwardAssumption PROVE BackSpec => []BackInv
  <1>1. BackInit => BackInv  BY BackInitial
  <1>2. BackInv /\ [BackNext]_backVars => BackInv'  BY BackStep
  <1> QED  BY <1>1, <1>2, PTL DEF BackSpec

(***************************************************************************)
(* Reading and writing the checkpoint in separate statements loses no id:  *)
(* up to the furthest position of the scanner, every id has been tried or  *)
(* lies in the gap of a move to the present.                               *)
(***************************************************************************)
THEOREM BackOnlyJumpsSkip == ASSUME BackwardAssumption PROVE BackSpec => []OnlyJumpsSkip
  <1>1. BackInv => OnlyJumpsSkip
    BY DEF BackInv, PositionsCovered, Covered, Seen, OnlyJumpsSkip, Frontier, Larger
  <1> QED  BY <1>1, BackInvariant, PTL

(***************************************************************************)
(* In a gap the script calls fully closed (discover.ts 367-371), whatever  *)
(* ended its loop, a raid that is not stored failed its look-up, and never *)
(* MaxMisses ids in a row did.                                             *)
(***************************************************************************)
THEOREM BackClosedInside == ASSUME BackwardAssumption PROVE BackSpec => []ClosedInside
  <1>1. ASSUME BackInv PROVE ClosedInside
    <2> SUFFICES ASSUME script.reason = "closed"
                 PROVE  /\ Inside \cap Raids \subseteq stored \cup failed
                        /\ \A id \in Inside :
                              \E near \in id .. (id + MaxMisses - 1) : near \notin failed
      BY DEF ClosedInside
    <2>1. MaxMisses > 0 /\ Filled(script.old + 1) /\ Spaced(script.old + 1)
      BY <1>1 DEF BackInv, WalkPassed
    <2>2. \A id \in Inside : id \in Int /\ id >= script.old + 1
      BY <1>1 DEF BackInv, Numbers, ScriptType, Inside
    <2> QED  BY <2>1, <2>2 DEF Filled, Spaced, Inside
  <1> QED  BY <1>1, BackInvariant, PTL
=============================================================================
