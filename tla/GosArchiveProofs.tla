-------------------------- MODULE GosArchiveProofs --------------------------
(***************************************************************************)
(* Theorems about the PGCR detail pass and the archive it shares with the  *)
(* history crawl.  The safety of the pass is proved against any history    *)
(* crawl (PgcrBackfill!Collect) and carried over to the composition by     *)
(* ArchiveImplementsBackfill.                                              *)
(***************************************************************************)
EXTENDS GosArchive, FiniteSetTheorems, TLAPS

-----------------------------------------------------------------------------
(* The rows parsePgcr makes of a report carry its id, and each weapon row   *)
(* names a player row: the foreign keys of storePgcr's inserts hold.        *)

LEMMA RowsCarryId ==
  ASSUME NEW report
  PROVE  /\ \A x \in PlayerRows(report) : x.instance = report.id
         /\ \A x \in WeaponRows(report) : x.instance = report.id
  BY DEF PlayerRows, WeaponRows

LEMMA WeaponHasPlayer ==
  ASSUME NEW report, NEW x \in WeaponRows(report)
  PROVE  \E y \in PlayerRows(report) : <<x.instance, x.char>> = <<y.instance, y.char>>
<1>1. PICK k \in Kept(report.entries) :
        x \in {[instance |-> report.id, char |-> report.entries[k].char, weapon |-> h]
                 : h \in report.entries[k].weapons}
  BY DEF WeaponRows
<1>2. x.instance = report.id /\ x.char = report.entries[k].char
  BY <1>1
<1>3. [instance |-> report.id, char |-> report.entries[k].char,
       member |-> report.entries[k].member, completed |-> report.entries[k].completed]
        \in PlayerRows(report)
  BY DEF PlayerRows
<1> QED BY <1>2, <1>3

LEMMA StatusType ==
  ASSUME NEW reply
  PROVE  RowStatus(reply) \in {"ok", "privacy", "missing", "error", "http"}
  BY DEF RowStatus

LEMMA VerdictType ==
  ASSUME NEW w, NEW reply
  PROVE  Verdict(w, reply) \in Statuses \ {"absent", "none"}
  BY StatusType DEF Verdict, Statuses

-----------------------------------------------------------------------------
(* The inductive invariant: a row is held by the cursor or by one worker    *)
(* until it is settled or the run is stopped, and a row that is held is not *)
(* archived yet.                                                            *)

Held(w) == worker[w].at = "fetch"

Ownership ==
    /\ \A w \in Workers : Held(w) =>
            /\ worker[w].id \in pending /\ worker[w].id \notin todo
            /\ runs[worker[w].id].status # "ok"
    /\ \A w, v \in Workers : Held(w) /\ Held(v) /\ w # v => worker[w].id # worker[v].id
    /\ \A i \in todo : runs[i].status # "ok"
    /\ \A i \in pending : runs[i].status # "absent"

Progress ==
    process = "running" /\ ~fatal =>
        /\ \A i \in pending : \/ i \in todo \/ runs[i].status # "none"
                              \/ \E w \in Workers : Held(w) /\ worker[w].id = i
        /\ todo # {} => \E w \in Workers : worker[w] # Done

IInv == TypeOK /\ Ownership /\ Progress /\ ClosesIdle /\ OutageIsContained /\ Reconciles

\* A pass that has not started holds no row and has written nothing (pgcr backfill).
THEOREM InitIInv == Init => IInv
<1> SUFFICES ASSUME Init PROVE IInv
  OBVIOUS
<1>1. TypeOK
  <2>1. runs \in [Instances -> [status : Statuses, columns : Columns]]
    BY DEF Init, Absent, Collected, Statuses, Columns
  <2>2. worker \in [Workers -> WorkerStates]
    BY DEF Init, WorkerStates
  <2>3. raw \in [Instances -> Reports \cup {None}] /\ streak \in 0..FailureLimit
    BY BackfillConstants DEF Init
  <2>4. /\ players \subseteq UNION {PlayerRows(r) : r \in Reports}
        /\ weapons \subseteq UNION {WeaponRows(r) : r \in Reports}
    BY DEF Init
  <2>5. process \in {"down", "running"} /\ todo \subseteq pending /\ pending \subseteq Instances
        /\ fatal \in BOOLEAN
    BY DEF Init
  <2> QED BY <2>1, <2>2, <2>3, <2>4, <2>5 DEF TypeOK
<1>2. Ownership /\ Progress
  BY DEF Init, Ownership, Progress, Held, Done
<1>3. ClosesIdle /\ OutageIsContained
  BY BackfillConstants DEF Init, ClosesIdle, OutageIsContained
<1>4. Reconciles
  BY DEF Init, Reconciles, RowsOf, Absent, Collected
<1> QED BY <1>1, <1>2, <1>3, <1>4 DEF IInv

-----------------------------------------------------------------------------
(* One lemma per action *)

LEMMA StatesDiffer ==
  ASSUME NEW i, NEW n
  PROVE  /\ Done # Ready /\ Done # Fetching(i, n)
         /\ Done.at # "fetch" /\ Ready.at # "fetch"
         /\ Fetching(i, n).at = "fetch" /\ Fetching(i, n).id = i
  BY DEF Done, Ready, Fetching

LEMMA WorkerKinds ==
  ASSUME TypeOK, NEW w \in Workers, worker[w].at = "fetch"
  PROVE  \E i \in Instances, n \in 0..MaxRetries : worker[w] = Fetching(i, n)
  BY StatesDiffer DEF TypeOK, WorkerStates

\* What the head of the loop does to the pool and to the rows that are left.
LEMMA NextRowEffect ==
  ASSUME TypeOK, NEW w \in Workers, NEW stop \in BOOLEAN, NextRow(w, stop)
  PROVE  /\ worker' \in [Workers -> WorkerStates]
         /\ todo' \subseteq todo
         /\ \A v \in Workers \ {w} : worker'[v] = worker[v]
         /\ \/ worker'[w] = Done /\ todo' = todo /\ (stop \/ todo = {})
            \/ /\ ~stop
               /\ \E i \in todo : worker'[w] = Fetching(i, 0) /\ todo' = todo \ {i}
<1>1. CASE (stop \/ todo = {}) /\ worker' = [worker EXCEPT ![w] = Done] /\ todo' = todo
  BY <1>1 DEF TypeOK, WorkerStates
<1>2. CASE /\ ~stop
           /\ \E i \in todo :
                /\ \A j \in todo : i <= j
                /\ worker' = [worker EXCEPT ![w] = Fetching(i, 0)]
                /\ todo' = todo \ {i}
  <2>1. PICK i \in todo : worker' = [worker EXCEPT ![w] = Fetching(i, 0)] /\ todo' = todo \ {i}
    BY <1>2
  <2>2. Fetching(i, 0) \in WorkerStates
    BY BackfillConstants DEF WorkerStates, TypeOK
  <2> QED BY <1>2, <2>1, <2>2 DEF TypeOK
<1> QED BY <1>1, <1>2 DEF NextRow

\* The head of the loop keeps the sharing of the rows, the row the worker had
\* being settled by then.
LEMMA NextRowShares ==
  ASSUME IInv, NEW w \in Workers, NEW stop \in BOOLEAN, NextRow(w, stop),
         UNCHANGED <<process, pending>>,
         stop = fatal',
         fatal => fatal',
         \A i \in Instances : i # worker[w].id \/ ~Held(w) => runs'[i] = runs[i],
         Held(w) => runs'[worker[w].id].status \notin {"none", "absent"}
  PROVE  Ownership' /\ Progress'
<1>1. /\ worker' \in [Workers -> WorkerStates]
      /\ todo' \subseteq todo
      /\ \A v \in Workers \ {w} : worker'[v] = worker[v]
      /\ \/ worker'[w] = Done /\ todo' = todo /\ (stop \/ todo = {})
         \/ /\ ~stop
            /\ \E i \in todo : worker'[w] = Fetching(i, 0) /\ todo' = todo \ {i}
  BY NextRowEffect DEF IInv
<1>2. TypeOK /\ Ownership /\ Progress
  BY DEF IInv
<1>3. \A v \in Workers \ {w} : Held(v)' <=> Held(v)
  BY <1>1 DEF Held
<1>4. Held(w)' => /\ worker'[w].id \in todo /\ worker'[w].id \notin todo'
  BY <1>1, StatesDiffer DEF Held
<1>5. \A v \in Workers \ {w} : Held(v) =>
        /\ worker[v].id \in pending /\ worker[v].id \notin todo
        /\ Held(w) => worker[v].id # worker[w].id
        /\ worker[v].id \in Instances
        /\ runs'[worker[v].id] = runs[worker[v].id]
  BY <1>2 DEF Ownership, TypeOK
<1>6. \A i \in todo : i \in Instances /\ runs'[i] = runs[i]
  BY <1>2 DEF Ownership, TypeOK
<1>7. Ownership'
  <2>1. \A v \in Workers : Held(v)' =>
            /\ worker'[v].id \in pending' /\ worker'[v].id \notin todo'
            /\ runs'[worker'[v].id].status # "ok"
    BY <1>1, <1>2, <1>3, <1>4, <1>5, <1>6 DEF Ownership, TypeOK
  <2>2. \A u, v \in Workers : Held(u)' /\ Held(v)' /\ u # v => worker'[u].id # worker'[v].id
    BY <1>1, <1>2, <1>3, <1>4, <1>5 DEF Ownership
  <2>3. \A i \in todo' : runs'[i].status # "ok"
    BY <1>1, <1>2, <1>6 DEF Ownership
  <2>4. \A i \in pending' : runs'[i].status # "absent"
    BY <1>2 DEF Ownership, TypeOK
  <2> QED BY <2>1, <2>2, <2>3, <2>4 DEF Ownership, Held
<1>8. Progress'
  <2> SUFFICES ASSUME process' = "running", ~fatal'
               PROVE  /\ \A i \in pending' :
                            \/ i \in todo' \/ runs'[i].status # "none"
                            \/ \E v \in Workers : Held(v)' /\ worker'[v].id = i
                      /\ todo' # {} => \E v \in Workers : worker'[v] # Done
    BY DEF Progress, Held
  <2>1. todo' # {} => worker'[w] # Done
    BY <1>1, StatesDiffer
  <2>2. ASSUME NEW i \in pending', i \notin todo', runs'[i].status = "none"
        PROVE  \E v \in Workers : Held(v)' /\ worker'[v].id = i
    <3>1. i \in todo \/ \E v \in Workers : Held(v) /\ worker[v].id = i
      <4>1. i \in Instances /\ (Held(w) => i # worker[w].id)
        BY <2>2, <1>2 DEF TypeOK
      <4>2. runs[i].status = "none"
        BY <4>1, <2>2
      <4> QED BY <4>2, <2>2, <1>2 DEF Progress
    <3>2. CASE i \in todo
      BY <3>2, <2>2, <1>1, StatesDiffer DEF Held
    <3>3. CASE \E v \in Workers : Held(v) /\ worker[v].id = i
      <4>1. PICK v \in Workers : Held(v) /\ worker[v].id = i
        BY <3>3
      <4>2. v # w
        BY <4>1, <2>2
      <4> QED BY <4>1, <4>2, <1>1, <1>3
    <3> QED BY <3>1, <3>2, <3>3
  <2> QED BY <2>1, <2>2
<1> QED BY <1>7, <1>8

\* Steps that leave the four tables alone keep what relates them.
LEMMA SameTables ==
  ASSUME IInv, UNCHANGED tables
  PROVE  /\ Reconciles'
         /\ runs' \in [Instances -> [status : Statuses, columns : Columns]]
         /\ raw' \in [Instances -> Reports \cup {None}]
         /\ players' \subseteq UNION {PlayerRows(r) : r \in Reports}
         /\ weapons' \subseteq UNION {WeaponRows(r) : r \in Reports}
  BY DEF IInv, TypeOK, Reconciles, RowsOf, tables

LEMMA StartKeeps ==
  ASSUME IInv, NEW retry \in BOOLEAN, NEW limit \in Limits, Start(retry, limit)
  PROVE  IInv'
<1>1. /\ process' = "running" /\ todo' = pending' /\ fatal' = FALSE /\ streak' = 0
      /\ runs' = runs /\ UNCHANGED tables
  BY DEF Start, tables
<1>2. pending' \subseteq Wanted(retry)
  BY DEF Start, Oldest
<1>3. \A i \in pending' : i \in Instances /\ runs[i].status \notin {"ok", "absent"}
  BY <1>2 DEF Wanted
<1>4. PICK pool \in SUBSET Workers :
        pool # {} /\ worker' = [w \in Workers |-> IF w \in pool THEN Ready ELSE Done]
  BY DEF Start
<1>5. \A w \in Workers : worker'[w] \in {Ready, Done} /\ ~Held(w)'
  BY <1>4, StatesDiffer DEF Held
<1>6. TypeOK'
  <2>1. worker' \in [Workers -> WorkerStates]
    BY <1>4 DEF WorkerStates
  <2>2. /\ process' \in {"down", "running"} /\ todo' \subseteq pending' /\ pending' \subseteq Instances
        /\ fatal' \in BOOLEAN /\ streak' \in 0..FailureLimit
    <3>1. streak' \in 0..FailureLimit
      BY <1>1, BackfillConstants
    <3>2. pending' \subseteq Instances
      BY <1>3
    <3> QED BY <1>1, <3>1, <3>2
  <2> QED BY <2>1, <2>2, <1>1, SameTables DEF TypeOK
<1>7. Ownership'
  BY <1>1, <1>3, <1>5 DEF Ownership, Held
<1>8. Progress'
  <2>1. \E w \in Workers : worker'[w] # Done
    BY <1>4, StatesDiffer
  <2> QED BY <2>1, <1>1 DEF Progress, Held
<1>9. ClosesIdle' /\ OutageIsContained'
  BY <1>1, BackfillConstants DEF ClosesIdle, OutageIsContained
<1> QED BY <1>1, <1>6, <1>7, <1>8, <1>9, SameTables DEF IInv

LEMMA FirstRowKeeps ==
  ASSUME IInv, NEW w \in Workers, FirstRow(w)
  PROVE  IInv'
<1>1. NextRow(w, fatal) /\ UNCHANGED <<process, pending, fatal, streak>> /\ UNCHANGED tables
  BY DEF FirstRow, tables
<1>2. ~Held(w) /\ worker[w] # Done /\ fatal \in BOOLEAN /\ runs' = runs
  BY <1>1, StatesDiffer DEF FirstRow, Held, IInv, TypeOK, Done, tables
<1>3. Ownership' /\ Progress'
  BY <1>1, <1>2, NextRowShares
<1>4. TypeOK'
  BY <1>1, <1>2, NextRowEffect, SameTables DEF IInv, TypeOK
<1>5. ClosesIdle' /\ OutageIsContained'
  <2>1. process # "down"
    BY <1>2 DEF IInv, ClosesIdle
  <2> QED BY <2>1, <1>1 DEF ClosesIdle, OutageIsContained, IInv
<1> QED BY <1>1, <1>3, <1>4, <1>5, SameTables DEF IInv

LEMMA RetryKeeps ==
  ASSUME IInv, NEW w \in Workers, Retry(w)
  PROVE  IInv'
<1>1. /\ Held(w) /\ worker' = [worker EXCEPT ![w].attempt = @ + 1]
      /\ UNCHANGED <<process, pending, todo, fatal, streak>> /\ UNCHANGED tables
      /\ worker[w].attempt < MaxRetries
  BY DEF Retry, InFlight, Held, tables
<1>2. PICK i \in Instances, n \in 0..MaxRetries : worker[w] = Fetching(i, n)
  BY <1>1, WorkerKinds DEF IInv, Held
<1>3. worker'[w] = Fetching(i, n + 1) /\ n + 1 \in 0..MaxRetries
  BY <1>1, <1>2, BackfillConstants DEF IInv, TypeOK, Fetching
<1>4. worker' \in [Workers -> WorkerStates] /\ \A v \in Workers \ {w} : worker'[v] = worker[v]
  BY <1>1, <1>3 DEF IInv, TypeOK, WorkerStates
<1>5. \A v \in Workers : (Held(v)' <=> Held(v)) /\ worker'[v].id = worker[v].id
                         /\ (worker'[v] = Done <=> worker[v] = Done)
  BY <1>2, <1>3, <1>4, StatesDiffer DEF Held
<1>6. TypeOK'
  BY <1>1, <1>4, SameTables DEF IInv, TypeOK
<1>7. Ownership'
  BY <1>1, <1>5 DEF IInv, Ownership, tables
<1>8. Progress'
  BY <1>1, <1>5 DEF IInv, Progress, tables
<1>9. ClosesIdle' /\ OutageIsContained'
  BY <1>1, <1>5 DEF IInv, ClosesIdle, OutageIsContained
<1> QED BY <1>1, <1>6, <1>7, <1>8, <1>9, SameTables DEF IInv

\* A worker comes home, with or without stopping the run.
LEMMA HomeKeeps ==
  ASSUME IInv, NEW w \in Workers, Held(w), fatal', streak' \in {0, streak},
         worker' = [worker EXCEPT ![w] = Done],
         UNCHANGED <<process, pending, todo>>, UNCHANGED tables, fatal' \in BOOLEAN
  PROVE  IInv'
<1>1. worker' \in [Workers -> WorkerStates] /\ worker'[w] = Done
      /\ \A v \in Workers \ {w} : worker'[v] = worker[v]
  BY DEF IInv, TypeOK, WorkerStates
<1>2. \A v \in Workers : Held(v)' => Held(v) /\ v # w /\ worker'[v] = worker[v]
  BY <1>1, StatesDiffer DEF Held
<1>3. TypeOK'
  BY <1>1, SameTables, BackfillConstants DEF IInv, TypeOK
<1>4. Ownership'
  BY <1>2 DEF IInv, Ownership, tables, Held
<1>5. Progress'
  BY DEF Progress, Held
<1>6. ClosesIdle'
  BY <1>1 DEF IInv, ClosesIdle
<1>7. OutageIsContained'
  BY BackfillConstants DEF IInv, OutageIsContained, TypeOK
<1> QED BY <1>3, <1>4, <1>5, <1>6, <1>7, SameTables DEF IInv

LEMMA RecordFailureKeeps ==
  ASSUME IInv, NEW w \in Workers, NEW reply \in Replies, RecordFailure(w, reply)
  PROVE  IInv'
<1> DEFINE j == worker[w].id
           s == Verdict(w, reply)
<1>1. /\ Held(w) /\ ~fatal /\ NextRow(w, fatal')
      /\ UNCHANGED <<players, weapons, raw, process, pending>>
      /\ runs' = [runs EXCEPT ![j].status = s]
      /\ s # "ok" /\ s \in Statuses \ {"absent", "none"}
      /\ streak' = streak + 1 /\ fatal' = (fatal \/ streak' >= FailureLimit)
  BY VerdictType DEF RecordFailure, InFlight, Held, Stopped
<1>2. j \in Instances /\ runs[j].status # "ok"
  BY <1>1 DEF IInv, TypeOK, Ownership
<1>3. fatal' \in BOOLEAN /\ streak' \in 0..FailureLimit /\ (streak' = FailureLimit => fatal')
  <2>1. streak \in 0..FailureLimit /\ streak # FailureLimit /\ FailureLimit \in Nat
    BY <1>1, BackfillConstants DEF IInv, TypeOK, OutageIsContained
  <2>2. streak' \in 0..FailureLimit /\ streak' = streak + 1
    BY <2>1, <1>1
  <2>3. fatal' <=> streak' >= FailureLimit
    BY <1>1
  <2>4. fatal' \in BOOLEAN
    BY <1>1
  <2> QED BY <2>1, <2>2, <2>3, <2>4
<1> HIDE DEF j, s
<1>4. /\ runs' \in [Instances -> [status : Statuses, columns : Columns]]
      /\ runs'[j].status = s
      /\ \A i \in Instances : i # j => runs'[i] = runs[i]
  BY <1>1, <1>2 DEF IInv, TypeOK
<1>5. Ownership' /\ Progress'
  BY <1>1, <1>2, <1>3, <1>4, NextRowShares DEF j
<1>6. TypeOK'
  BY <1>1, <1>3, <1>4, NextRowEffect DEF IInv, TypeOK
<1>7. ClosesIdle' /\ OutageIsContained'
  <2>1. process = "running"
    BY <1>1, StatesDiffer DEF IInv, ClosesIdle, Held, TypeOK
  <2> QED BY <2>1, <1>1, <1>3 DEF ClosesIdle, OutageIsContained
<1>8. Reconciles'
  BY <1>1, <1>2, <1>4 DEF IInv, Reconciles, RowsOf
<1> QED BY <1>5, <1>6, <1>7, <1>8 DEF IInv

LEMMA StoreKeeps ==
  ASSUME IInv, NEW w \in Workers, NEW reply \in Replies, Store(w, reply)
  PROVE  IInv'
<1> DEFINE r == reply.response
           j == worker[w].id
<1>1. /\ Held(w) /\ ~fatal /\ fatal' = fatal /\ NextRow(w, fatal) /\ StorePgcr(r)
      /\ UNCHANGED <<process, pending, fatal>> /\ streak' = 0
      /\ Verdict(w, reply) = "ok" /\ r # Garbage
  BY DEF Store, InFlight, Held, Stopped
<1>2. RowStatus(reply) = "ok" /\ r.id = j
  BY <1>1 DEF Verdict
<1>3. r # None
  BY <1>2 DEF RowStatus, Success
<1>4. r \in Reports
  BY <1>1, <1>3 DEF Reports
<1>5. j \in Instances /\ runs[j].status # "ok" /\ fatal \in BOOLEAN
  BY <1>1 DEF IInv, TypeOK, Ownership
<1> HIDE DEF r, j
<1>6. /\ weapons' = {x \in weapons : x.instance # j} \cup WeaponRows(r)
      /\ players' = {x \in players : \A y \in PlayerRows(r) :
                        <<x.instance, x.char>> # <<y.instance, y.char>>} \cup PlayerRows(r)
      /\ raw' = [raw EXCEPT ![j] = r]
      /\ runs' = [runs EXCEPT ![j] = [status |-> "ok", columns |-> RunColumns(r)]]
  BY <1>1, <1>2 DEF StorePgcr
<1>7. RowsOf(players, j) = {} /\ RowsOf(weapons, j) = {}
  BY <1>5 DEF IInv, Reconciles
<1>8. /\ \A x \in PlayerRows(r) : x.instance = j
      /\ \A x \in WeaponRows(r) : x.instance = j
  BY <1>2, RowsCarryId
<1>9. players' = players \cup PlayerRows(r) /\ weapons' = weapons \cup WeaponRows(r)
  BY <1>6, <1>7, <1>8 DEF RowsOf
<1>10. /\ runs' \in [Instances -> [status : Statuses, columns : Columns]]
       /\ runs'[j] = [status |-> "ok", columns |-> RunColumns(r)]
       /\ \A i \in Instances : i # j => runs'[i] = runs[i] /\ raw'[i] = raw[i]
       /\ raw'[j] = r /\ raw' \in [Instances -> Reports \cup {None}]
  <2>1. [status |-> "ok", columns |-> RunColumns(r)] \in [status : Statuses, columns : Columns]
    BY <1>4 DEF Statuses, Columns
  <2> QED BY <2>1, <1>4, <1>5, <1>6 DEF IInv, TypeOK
<1>11. Ownership' /\ Progress'
  BY <1>1, <1>5, <1>10, NextRowShares DEF j
<1>12. TypeOK'
  <2>1. /\ players' \subseteq UNION {PlayerRows(q) : q \in Reports}
        /\ weapons' \subseteq UNION {WeaponRows(q) : q \in Reports}
    BY <1>4, <1>9 DEF IInv, TypeOK
  <2>2. worker' \in [Workers -> WorkerStates] /\ todo' \subseteq todo
    BY <1>1, <1>5, NextRowEffect DEF IInv
  <2> QED BY <2>1, <2>2, <1>1, <1>10, BackfillConstants DEF IInv, TypeOK
<1>13. ClosesIdle' /\ OutageIsContained'
  <2>1. process = "running"
    BY <1>1, StatesDiffer DEF IInv, ClosesIdle, Held, TypeOK
  <2> QED BY <2>1, <1>1, BackfillConstants DEF ClosesIdle, OutageIsContained
<1>14. Reconciles'
  <2>1. \A i \in Instances \ {j} : /\ RowsOf(players', i) = RowsOf(players, i)
                                  /\ RowsOf(weapons', i) = RowsOf(weapons, i)
    BY <1>8, <1>9 DEF RowsOf
  <2>2. RowsOf(players', j) = PlayerRows(r) /\ RowsOf(weapons', j) = WeaponRows(r)
    BY <1>7, <1>8, <1>9 DEF RowsOf
  <2>3. \A x \in weapons' : \E y \in players' : <<x.instance, x.char>> = <<y.instance, y.char>>
    BY <1>9, WeaponHasPlayer DEF IInv, Reconciles
  <2>4. ASSUME NEW i \in Instances
        PROVE  IF runs'[i].status = "ok"
               THEN /\ raw'[i] # None /\ raw'[i].id = i
                    /\ runs'[i].columns = RunColumns(raw'[i])
                    /\ RowsOf(players', i) = PlayerRows(raw'[i])
                    /\ RowsOf(weapons', i) = WeaponRows(raw'[i])
               ELSE /\ raw'[i] = None
                    /\ RowsOf(players', i) = {} /\ RowsOf(weapons', i) = {}
    <3>1. CASE i = j
      BY <3>1, <1>2, <1>3, <1>10, <2>2 DEF r, j
    <3>2. CASE i # j
      BY <3>2, <1>10, <2>1 DEF IInv, Reconciles
    <3> QED BY <3>1, <3>2
  <2> QED BY <2>3, <2>4 DEF Reconciles, RowsOf
<1> QED BY <1>11, <1>12, <1>13, <1>14 DEF IInv

LEMMA WorkKeeps ==
  ASSUME IInv, NEW w \in Workers, Work(w)
  PROVE  IInv'
<1>1. CASE FirstRow(w)
  BY <1>1, FirstRowKeeps
<1>2. CASE Retry(w)
  BY <1>2, RetryKeeps
<1>3. ASSUME InFlight(w), Throw(w), streak' \in {0, streak}
      PROVE  IInv'
  BY <1>3, HomeKeeps DEF InFlight, Held, Throw, tables
<1>4. CASE GiveUp(w)
  BY <1>3, <1>4 DEF GiveUp
<1>5. CASE Discard(w)
  BY <1>5, HomeKeeps DEF Discard, Stopped, InFlight, Held, tables, IInv, TypeOK
<1>6. CASE Settle(w)
  <2>1. PICK reply \in Replies :
          \/ StopRun(w, reply) \/ RecordFailure(w, reply) \/ Store(w, reply)
          \/ ParseThrows(w, reply) \/ WriteThrows(w, reply)
    BY <1>6 DEF Settle
  <2>2. CASE StopRun(w, reply) \/ ParseThrows(w, reply) \/ WriteThrows(w, reply)
    BY <2>2, <1>3 DEF StopRun, ParseThrows, WriteThrows
  <2> QED BY <2>1, <2>2, RecordFailureKeeps, StoreKeeps
<1> QED BY <1>1, <1>2, <1>4, <1>5, <1>6 DEF Work

LEMMA CollectKeeps ==
  ASSUME IInv, NEW new \in SUBSET Instances, Collect(new)
  PROVE  IInv'
<1>1. /\ runs' = [i \in Instances |-> IF i \in new THEN Collected ELSE runs[i]]
      /\ UNCHANGED <<players, weapons, raw>> /\ UNCHANGED pass
      /\ \A i \in new : runs[i].status = "absent"
  BY DEF Collect, Absent
<1>2. /\ runs' \in [Instances -> [status : Statuses, columns : Columns]]
      /\ \A i \in new : runs'[i].status = "none" /\ i \notin pending
      /\ \A i \in Instances \ new : runs'[i] = runs[i]
  BY <1>1 DEF IInv, TypeOK, Ownership, Collected, Statuses, Columns
<1>3. TypeOK'
  BY <1>1, <1>2 DEF IInv, TypeOK, pass
<1>4. Ownership'
  BY <1>1, <1>2 DEF IInv, TypeOK, Ownership, Held, pass
<1>5. Progress'
  BY <1>1, <1>2 DEF IInv, TypeOK, Progress, Held, pass
<1>6. ClosesIdle' /\ OutageIsContained'
  BY <1>1 DEF IInv, ClosesIdle, OutageIsContained, pass
<1>7. Reconciles'
  BY <1>1, <1>2 DEF IInv, Reconciles, RowsOf
<1> QED BY <1>3, <1>4, <1>5, <1>6, <1>7 DEF IInv

\* Every step of a worker, of a run's start, end or kill keeps the rows with their owners
\* and the archive with the parse (workerLoop, storePgcr).
THEOREM NextIInv == IInv /\ [Next]_vars => IInv'
<1> SUFFICES ASSUME IInv, [Next]_vars PROVE IInv'
  OBVIOUS
<1>1. ASSUME NEW retry \in BOOLEAN, NEW limit \in Limits, Start(retry, limit) PROVE IInv'
  BY <1>1, StartKeeps
<1>2. ASSUME NEW w \in Workers, Work(w) PROVE IInv'
  BY <1>2, WorkKeeps
<1>3. CASE Finish
  <2>1. TypeOK' /\ Ownership'
    BY <1>3, SameTables DEF Finish, IInv, TypeOK, Ownership, Held, tables
  <2>2. Progress' /\ ClosesIdle' /\ OutageIsContained'
    BY <1>3 DEF Finish, IInv, Progress, ClosesIdle, OutageIsContained, Held
  <2> QED BY <2>1, <2>2, <1>3, SameTables DEF Finish, IInv
<1>4. CASE Kill
  <2>1. worker' \in [Workers -> WorkerStates] /\ \A w \in Workers : worker'[w] = Done
    BY <1>4 DEF Kill, WorkerStates
  <2>2. TypeOK'
    <3>1. /\ process' = "down" /\ todo' = {} /\ pending' = {} /\ fatal' = FALSE /\ streak' = 0
          /\ UNCHANGED tables
      BY <1>4 DEF Kill
    <3>2. streak' \in 0..FailureLimit
      BY <3>1, BackfillConstants
    <3> QED BY <3>1, <3>2, <2>1, SameTables DEF TypeOK
  <2>4. ClosesIdle' /\ OutageIsContained'
    BY <1>4, <2>1, BackfillConstants DEF Kill, ClosesIdle, OutageIsContained
  <2>3. Ownership' /\ Progress'
    BY <1>4, <2>1, StatesDiffer DEF Kill, Ownership, Progress, Held
  <2> QED BY <2>2, <2>3, <2>4, <1>4, SameTables DEF Kill, IInv
<1>5. ASSUME NEW new \in SUBSET Instances, Collect(new) PROVE IInv'
  BY <1>5, CollectKeeps
<1>6. CASE UNCHANGED vars
  <2>1. UNCHANGED tables /\ UNCHANGED pass
    BY <1>6 DEF vars
  <2> QED BY <2>1, SameTables DEF pass, tables, IInv, TypeOK, Ownership, Progress, ClosesIdle,
             OutageIsContained, Held
<1> QED BY <1>1, <1>2, <1>3, <1>4, <1>5, <1>6 DEF Next, Backfill

-----------------------------------------------------------------------------
(* Theorems about the pass beside any history crawl *)

BackfillRun == Init /\ [][Next]_vars

\* The invariant holds in every state of the pass.
THEOREM BackfillInvariant == BackfillRun => []IInv
  BY InitIInv, NextIInv, PTL DEF BackfillRun

\* Every variable of the pass keeps its type.
THEOREM BackfillTypeOK == BackfillRun => []TypeOK
<1>1. IInv => TypeOK
  BY DEF IInv
<1> QED BY <1>1, BackfillInvariant, PTL

\* The archive never disagrees with the parse (storePgcr).
THEOREM BackfillReconciles == BackfillRun => []Reconciles
<1>1. IInv => Reconciles
  BY DEF IInv
<1> QED BY <1>1, BackfillInvariant, PTL

\* A run that was not stopped settled every row it selected, one that was marked
\* no more than FailureLimit rows in a row, and the database closes when no
\* request is out (workerLoop, recordFailure, Promise.all).
THEOREM BackfillAccounts == BackfillRun => []RunAccounts
<1>1. IInv => RunAccounts
  <2> SUFFICES ASSUME IInv PROVE SettlesAll
    BY DEF IInv, RunAccounts
  <2> SUFFICES ASSUME process = "running", ~fatal, \A w \in Workers : worker[w] = Done,
                      NEW i \in pending
               PROVE  runs[i].status # "none"
    BY DEF SettlesAll
  <2>1. todo = {} /\ \A w \in Workers : ~Held(w)
    BY StatesDiffer DEF IInv, Progress, Held
  <2> QED BY <2>1 DEF IInv, Progress
<1> QED BY <1>1, BackfillInvariant, PTL

\* Nothing the pass writes lands after the decision to stop.
THEOREM BackfillStops == BackfillRun => StopIsFinal
<1> DEFINE Final == fatal /\ process = "running" =>
                        /\ UNCHANGED <<players, weapons, raw>>
                        /\ \A i \in pending : runs'[i] = runs[i]
<1>1. IInv /\ [Next]_vars => [Final]_vars
  <2> SUFFICES ASSUME IInv, Next, fatal, process = "running"
               PROVE  /\ UNCHANGED <<players, weapons, raw>>
                      /\ \A i \in pending : runs'[i] = runs[i]
    OBVIOUS
  <2>1. ASSUME NEW w \in Workers, Work(w) PROVE UNCHANGED tables
    BY <2>1 DEF Work, FirstRow, Retry, GiveUp, Throw, Discard, Settle, StopRun, RecordFailure, Store,
       ParseThrows, WriteThrows, Stopped
  <2>2. ASSUME NEW new \in SUBSET Instances, Collect(new)
        PROVE  /\ UNCHANGED <<players, weapons, raw>>
               /\ \A i \in pending : runs'[i] = runs[i]
    BY <2>2 DEF Collect, Absent, IInv, Ownership, TypeOK
  <2>3. CASE (\E retry \in BOOLEAN, limit \in Limits : Start(retry, limit)) \/ Finish \/ Kill
    BY <2>3 DEF Start, Finish, Kill, tables
  <2> QED BY <2>1, <2>2, <2>3 DEF Next, Backfill, tables
<1> QED BY <1>1, BackfillInvariant, PTL DEF BackfillRun, StopIsFinal

\* The report's headline number is a fact of the archived reports alone: it can
\* be counted again from gos_10k_pgcr_raw (printReport).
THEOREM HeadlineFromArchive ==
  ASSUME NEW member
  PROVE  Reconciles =>
            FullClearsCompleted(member) =
                {i \in Instances :
                    /\ raw[i] # None /\ IsFullClear(raw[i])
                    /\ \E x \in PlayerRows(raw[i]) : x.member = member /\ x.completed = 1}
<1> SUFFICES ASSUME Reconciles, NEW i \in Instances
             PROVE  (/\ runs[i].status = "ok" /\ runs[i].columns.fullClear
                     /\ \E x \in players : x.instance = i /\ x.member = member /\ x.completed = 1)
                    <=> (/\ raw[i] # None /\ IsFullClear(raw[i])
                         /\ \E x \in PlayerRows(raw[i]) : x.member = member /\ x.completed = 1)
  BY DEF FullClearsCompleted
<1>1. CASE runs[i].status = "ok"
  <2>1. /\ raw[i] # None /\ runs[i].columns = RunColumns(raw[i])
        /\ RowsOf(players, i) = PlayerRows(raw[i])
    BY <1>1 DEF Reconciles
  <2>2. runs[i].columns.fullClear = IsFullClear(raw[i])
    BY <2>1 DEF RunColumns
  <2> QED BY <1>1, <2>1, <2>2 DEF RowsOf
<1>2. CASE runs[i].status # "ok"
  BY <1>2 DEF Reconciles
<1> QED BY <1>1, <1>2

-----------------------------------------------------------------------------
(* The composition *)

\* Every step of the archive is a step of the pass, a page the history crawl
\* adds, or no step of the pass at all: the two scripts on one file are one of
\* the environments the theorems above allow.
THEOREM ArchiveImplementsBackfill == ArchiveSpec => BackfillRun
<1>1. ArchiveInit => Init
  BY DEF ArchiveInit
<1>2. [ArchiveNext]_archiveVars => [Next]_vars
  <2>1. CASE Backfill
    BY <2>1 DEF Next
  <2>2. CASE H!History /\ UNCHANGED <<players, weapons, raw, pass>>
    <3>1. ASSUME NEW c \in Chars, H!ReadPage(c)
          PROVE  \E new \in SUBSET Instances : Collect(new)
      <4>1. PICK new \in SUBSET (H!Page(c, crawl.page) \cap Gos) :
              /\ H!IsInsert(new, H!Page(c, crawl.page) \cap Gos, Target - crawl.recorded)
              /\ runs' = [i \in Instances |-> IF i \in new THEN Collected ELSE runs[i]]
        BY <3>1 DEF H!ReadPage
      <4>2. new \subseteq Instances /\ \A i \in new : runs[i] = Absent
        BY <4>1, HistoryConstants DEF H!IsInsert
      <4> QED BY <4>1, <4>2, <2>2 DEF Collect
    <3>2. CASE \E c \in Chars : H!Play(c)
      BY <3>2, <2>2 DEF H!Play, vars, tables, pass
    <3>3. CASE H!Begin \/ H!Abort \/ \E c \in Chars : H!UnreadablePage(c)
      BY <3>3, <2>2 DEF H!Begin, H!Abort, H!UnreadablePage, vars, tables, pass
    <3> QED BY <2>2, <3>1, <3>2, <3>3 DEF H!History, Next
  <2>3. CASE UNCHANGED archiveVars
    BY <2>3 DEF archiveVars
  <2> QED BY <2>1, <2>2, <2>3 DEF ArchiveNext
<1> QED BY <1>1, <1>2, PTL DEF ArchiveSpec, BackfillRun

-----------------------------------------------------------------------------
(* The history crawl: a run that was played before the pass began has a row *)
(* or stands where the crawl still has to read, behind its page or in the   *)
(* history of a character that is left.                                     *)

CrawlType ==
    /\ log \in [Chars -> Seq(Instances)]
    /\ due \subseteq Gos
    /\ crawl.page \in Nat /\ crawl.recorded \in Nat
    /\ crawl.at \in {"off", "reading", "over"}
    /\ crawl.left \subseteq Chars

Ahead(i) ==
    \E c \in Chars : \E k \in 1..Len(log[c]) :
        /\ log[c][k] = i
        /\ c \in crawl.left \/ (crawl.char = {c} /\ k > crawl.page * PageCount)

CrawlInv ==
    /\ CrawlType
    /\ crawl.at = "reading" => \A i \in due \ hidden : runs[i] # Absent \/ Ahead(i)
    /\ PassCovers

LEMMA RowsStay ==
  ASSUME TypeOK, [Next]_vars, NEW i \in Instances, runs[i] # Absent
  PROVE  runs'[i] # Absent
<1>1. ASSUME NEW w \in Workers, NEW reply \in Replies, RecordFailure(w, reply)
      PROVE  runs'[i] # Absent
  <2>1. /\ runs' = [runs EXCEPT ![worker[w].id].status = Verdict(w, reply)]
        /\ Verdict(w, reply) # "absent"
    BY <1>1, VerdictType DEF RecordFailure
  <2> QED BY <2>1 DEF TypeOK, Absent
<1>2. ASSUME NEW w \in Workers, NEW reply \in Replies, Store(w, reply)
      PROVE  runs'[i] # Absent
  <2>1. PICK j, c : runs' = [runs EXCEPT ![j] = [status |-> "ok", columns |-> c]]
    BY <1>2 DEF Store, StorePgcr
  <2> QED BY <2>1 DEF TypeOK, Absent
<1>3. ASSUME NEW w \in Workers, Work(w)
      PROVE  runs'[i] # Absent
  BY <1>1, <1>2, <1>3 DEF Work, FirstRow, Retry, GiveUp, Throw, Discard, Settle, StopRun, ParseThrows,
     WriteThrows, tables
<1>4. ASSUME NEW new \in SUBSET Instances, Collect(new)
      PROVE  runs'[i] # Absent
  BY <1>4 DEF Collect, Collected, Absent
<1>5. CASE (\E retry \in BOOLEAN, limit \in Limits : Start(retry, limit)) \/ Finish \/ Kill
  BY <1>5 DEF Start, Finish, Kill, tables
<1>6. CASE UNCHANGED vars
  BY <1>6 DEF vars, tables
<1> QED BY <1>3, <1>4, <1>5, <1>6 DEF Next, Backfill

LEMMA SameCardinality == \A S : H!Cardinality(S) = Cardinality(S)
  BY DEF H!Cardinality, Cardinality

LEMMA PlayKeeps ==
  ASSUME CrawlInv, NEW c \in Chars, H!Play(c)
  PROVE  CrawlInv'
<1>1. PICK a \in Instances : log' = [log EXCEPT ![c] = <<a>> \o @]
  BY DEF H!Play
<1>2. UNCHANGED <<runs, crawl, due, hidden>>
  BY DEF H!Play
<1>3. /\ log' \in [Chars -> Seq(Instances)]
      /\ log'[c] = <<a>> \o log[c] /\ log[c] \in Seq(Instances)
      /\ \A d \in Chars \ {c} : log'[d] = log[d]
  BY <1>1 DEF CrawlInv, CrawlType
<1>4. /\ Len(log'[c]) = Len(log[c]) + 1 /\ Len(log[c]) \in Nat
      /\ \A k \in 1..Len(log[c]) : log'[c][k + 1] = log[c][k]
  BY <1>3
<1>5. ASSUME NEW i, Ahead(i) PROVE Ahead(i)'
  <2>1. PICK d \in Chars : \E k \in 1..Len(log[d]) :
          /\ log[d][k] = i
          /\ d \in crawl.left \/ (crawl.char = {d} /\ k > crawl.page * PageCount)
    BY <1>5 DEF Ahead
  <2>2. PICK k \in 1..Len(log[d]) :
          /\ log[d][k] = i
          /\ d \in crawl.left \/ (crawl.char = {d} /\ k > crawl.page * PageCount)
    BY <2>1
  <2>3. CASE d # c
    BY <2>2, <2>3, <1>2, <1>3 DEF Ahead
  <2>4. CASE d = c
    <3>1. crawl.page * PageCount \in Nat
      BY HistoryConstants DEF CrawlInv, CrawlType
    <3>2. /\ k + 1 \in 1..Len(log'[c]) /\ log'[c][k + 1] = i
          /\ k > crawl.page * PageCount => k + 1 > crawl.page * PageCount
      BY <2>2, <2>4, <1>4, <3>1
    <3> QED BY <2>2, <2>4, <3>2, <1>2 DEF Ahead
  <2> QED BY <2>3, <2>4
<1> QED BY <1>2, <1>3, <1>5 DEF CrawlInv, CrawlType, PassCovers

LEMMA BeginKeeps ==
  ASSUME CrawlInv, H!Begin
  PROVE  CrawlInv'
<1>1. PICK c \in Chars : crawl' = H!Reading(c, 0, Chars \ {c}, 0)
  BY DEF H!Begin
<1>2. /\ crawl'.at = "reading" /\ crawl'.char = {c} /\ crawl'.page = 0
      /\ crawl'.left = Chars \ {c} /\ crawl'.recorded = 0
  BY <1>1 DEF H!Reading
<1>3. due' = H!Played \cap Gos /\ UNCHANGED <<runs, log>>
  BY DEF H!Begin
<1>4. \A i \in due' : Ahead(i)'
  <2> SUFFICES ASSUME NEW i \in due' PROVE Ahead(i)'
    OBVIOUS
  <2>1. PICK d \in Chars : \E k \in DOMAIN log[d] : log[d][k] = i
    BY <1>3 DEF H!Played
  <2>2. PICK k \in 1..Len(log[d]) : log[d][k] = i
    BY <2>1 DEF CrawlInv, CrawlType
  <2>3. k > 0 * PageCount
    BY <2>2, HistoryConstants
  <2> QED BY <1>2, <1>3, <2>2, <2>3 DEF Ahead
<1> QED BY <1>2, <1>3, <1>4 DEF CrawlInv, CrawlType, PassCovers

LEMMA ReadPageKeeps ==
  ASSUME CrawlInv, NEW c \in Chars, H!ReadPage(c)
  PROVE  CrawlInv'
<1> DEFINE page == H!Page(c, crawl.page)
           fresh == {i \in page \cap Gos : runs[i] = Absent}
           more == H!HasMorePages(c, crawl.page)
           budget == Target - crawl.recorded
<1>1. crawl.at = "reading" /\ crawl.char = {c} /\ UNCHANGED <<log, due, hidden>>
  BY DEF H!ReadPage
<1>2. PICK new \in SUBSET (page \cap Gos) :
        /\ H!IsInsert(new, page \cap Gos, budget)
        /\ runs' = [i \in Instances |-> IF i \in new THEN Collected ELSE runs[i]]
        /\ \/ /\ more /\ crawl.recorded + Cardinality(new) < Target
              /\ crawl' = H!Reading(c, crawl.page + 1, crawl.left, crawl.recorded + Cardinality(new))
           \/ /\ ~more /\ crawl.recorded + Cardinality(new) < Target
              /\ \E d \in crawl.left :
                    crawl' = H!Reading(d, 0, crawl.left \ {d}, crawl.recorded + Cardinality(new))
           \/ /\ \/ crawl.recorded + Cardinality(new) >= Target
                 \/ ~more /\ crawl.left = {}
              /\ crawl' = [H!Over EXCEPT !.recorded = crawl.recorded + Cardinality(new)]
  BY SameCardinality DEF H!ReadPage
<1> DEFINE recorded == crawl.recorded + Cardinality(new)
<1>3. Cardinality(new) \in Nat /\ recorded \in Nat
  <2>1. IsFiniteSet(new)
    <3>1. new \in SUBSET Instances /\ IsFiniteSet(Instances)
      BY <1>2, BackfillConstants, HistoryConstants
    <3> QED BY <3>1, FS_Subset
  <2> QED BY <2>1, FS_CardinalityType DEF CrawlInv, CrawlType
<1>4. recorded < Target => new = fresh
  <2>1. new = fresh \/ Cardinality(new) = budget
    BY <1>2, SameCardinality DEF H!IsInsert
  <2> QED BY <2>1, <1>3, HistoryConstants DEF CrawlInv, CrawlType
<1>5. \A i \in Instances : /\ runs[i] # Absent => runs'[i] # Absent
                           /\ i \in new => runs'[i] # Absent
  BY <1>2 DEF Collected, Absent, H!IsInsert
<1>6. crawl.page * PageCount \in Nat /\ (crawl.page + 1) * PageCount = crawl.page * PageCount + PageCount
  BY HistoryConstants DEF CrawlInv, CrawlType
<1> HIDE DEF page, more, budget, recorded
\* A run this page held has a row now, one behind it shows that there are more.
<1>7. ASSUME NEW i \in due \ hidden, runs'[i] = Absent, recorded < Target
      PROVE  \E d \in Chars : \E k \in 1..Len(log[d]) :
                /\ log[d][k] = i
                /\ d \in crawl.left \/ (d = c /\ more /\ k > (crawl.page + 1) * PageCount)
  <2>1. i \in Gos /\ i \in Instances
    BY HistoryConstants DEF CrawlInv, CrawlType
  <2>2. runs[i] = Absent
    BY <2>1, <1>5, <1>7
  <2>3. PICK d \in Chars : \E k \in 1..Len(log[d]) :
          /\ log[d][k] = i
          /\ d \in crawl.left \/ (crawl.char = {d} /\ k > crawl.page * PageCount)
    BY <2>2, <1>1 DEF CrawlInv, Ahead
  <2>4. PICK k \in 1..Len(log[d]) :
          /\ log[d][k] = i
          /\ d \in crawl.left \/ (crawl.char = {d} /\ k > crawl.page * PageCount)
    BY <2>3
  <2>5. ASSUME d \notin crawl.left
        PROVE  d = c /\ more /\ k > (crawl.page + 1) * PageCount
    <3>1. d = c /\ k > crawl.page * PageCount
      BY <2>4, <2>5, <1>1
    <3>2. log[c] \in Seq(Instances) /\ Len(log[c]) \in Nat /\ DOMAIN log[c] = 1..Len(log[c])
      BY DEF CrawlInv, CrawlType
    <3>3. ~(k <= (crawl.page + 1) * PageCount)
      <4> SUFFICES ASSUME k <= (crawl.page + 1) * PageCount PROVE FALSE
        OBVIOUS
      <4>1. k \in (crawl.page * PageCount + 1)..((crawl.page + 1) * PageCount)
        BY <3>1, <2>4, <1>6, HistoryConstants
      <4>2. i \in page
        BY <4>1, <3>1, <3>2, <2>4 DEF page, H!Page
      <4>3. i \in new
        BY <4>2, <2>1, <2>2, <1>4, <1>7
      <4> QED BY <4>3, <2>1, <1>5, <1>7
    <3>4. more
      BY <3>1, <3>2, <3>3, <2>4, <1>6, HistoryConstants DEF more, H!HasMorePages
    <3>5. k > (crawl.page + 1) * PageCount
      BY <3>3, <2>4, <1>6, <3>1, HistoryConstants
    <3> QED BY <3>1, <3>4, <3>5
  <2> QED BY <2>4, <2>5
<1>8. CASE more /\ recorded < Target /\ crawl' = H!Reading(c, crawl.page + 1, crawl.left, recorded)
  <2>1. /\ crawl'.at = "reading" /\ crawl'.char = {c} /\ crawl'.page = crawl.page + 1
        /\ crawl'.left = crawl.left /\ crawl'.recorded = recorded
    BY <1>8 DEF H!Reading
  <2>2. \A i \in due' \ hidden' : runs'[i] # Absent \/ Ahead(i)'
    BY <2>1, <1>1, <1>7, <1>8 DEF Ahead
  <2> QED BY <2>1, <2>2, <1>1, <1>3 DEF CrawlInv, CrawlType, PassCovers
<1>9. CASE /\ ~more /\ recorded < Target
           /\ \E d \in crawl.left : crawl' = H!Reading(d, 0, crawl.left \ {d}, recorded)
  <2>1. PICK e \in crawl.left : crawl' = H!Reading(e, 0, crawl.left \ {e}, recorded)
    BY <1>9
  <2>2. /\ crawl'.at = "reading" /\ crawl'.char = {e} /\ crawl'.page = 0
        /\ crawl'.left = crawl.left \ {e} /\ crawl'.recorded = recorded
    BY <2>1 DEF H!Reading
  <2>3. ASSUME NEW i \in due' \ hidden', runs'[i] = Absent PROVE Ahead(i)'
    <3>1. PICK d \in crawl.left : d \in Chars /\ \E k \in 1..Len(log[d]) : log[d][k] = i
      BY <2>3, <1>1, <1>7, <1>9
    <3>2. PICK k \in 1..Len(log[d]) : log[d][k] = i
      BY <3>1
    <3>3. k > 0 * PageCount
      BY <3>2, HistoryConstants
    <3> QED BY <3>1, <3>2, <3>3, <2>2, <1>1 DEF Ahead
  <2> QED BY <2>2, <2>3, <1>1, <1>3 DEF CrawlInv, CrawlType, PassCovers
<1>10. CASE /\ recorded >= Target \/ (~more /\ crawl.left = {})
            /\ crawl' = [H!Over EXCEPT !.recorded = recorded]
  <2>1. /\ crawl'.at = "over" /\ crawl'.page = 0 /\ crawl'.left = {} /\ crawl'.recorded = recorded
    BY <1>10 DEF H!Over, H!Off
  <2>2. PassCovers'
    <3> SUFFICES ASSUME recorded < Target, NEW i \in due' \ hidden' PROVE runs'[i] # Absent
      BY <2>1 DEF PassCovers
    <3>1. ~more /\ crawl.left = {}
      BY <1>10, <1>3, HistoryConstants
    <3> QED BY <3>1, <1>1, <1>7
  <2> QED BY <2>1, <2>2, <1>1, <1>3 DEF CrawlInv, CrawlType
<1> QED BY <1>2, <1>8, <1>9, <1>10 DEF recorded

\* An unreadable page ends the character: what is still ahead of the crawl there is
\* hidden.
LEMMA UnreadableKeeps ==
  ASSUME CrawlInv, NEW c \in Chars, H!UnreadablePage(c)
  PROVE  CrawlInv'
<1>1. /\ crawl.at = "reading" /\ crawl.char = {c} /\ UNCHANGED <<runs, log, due>>
      /\ hidden \subseteq hidden'
      /\ \A k \in DOMAIN log[c] : k > crawl.page * PageCount => log[c][k] \in hidden'
  BY DEF H!UnreadablePage
<1>2. DOMAIN log[c] = 1..Len(log[c])
  BY DEF CrawlInv, CrawlType
<1>3. ASSUME NEW i \in due' \ hidden', runs'[i] = Absent
      PROVE  \E d \in Chars \cap crawl.left : \E k \in 1..Len(log[d]) : log[d][k] = i
  <2>1. Ahead(i)
    BY <1>1, <1>3 DEF CrawlInv
  <2>2. PICK d \in Chars : \E k \in 1..Len(log[d]) :
          /\ log[d][k] = i
          /\ d \in crawl.left \/ (crawl.char = {d} /\ k > crawl.page * PageCount)
    BY <2>1 DEF Ahead
  <2> QED BY <2>2, <1>1, <1>2, <1>3
<1>4. CASE \E d \in crawl.left : crawl' = H!Reading(d, 0, crawl.left \ {d}, crawl.recorded)
  <2>1. PICK e \in crawl.left : crawl' = H!Reading(e, 0, crawl.left \ {e}, crawl.recorded)
    BY <1>4
  <2>2. /\ crawl'.at = "reading" /\ crawl'.char = {e} /\ crawl'.page = 0
        /\ crawl'.left = crawl.left \ {e} /\ crawl'.recorded = crawl.recorded
    BY <2>1 DEF H!Reading
  <2>3. ASSUME NEW i \in due' \ hidden', runs'[i] = Absent PROVE Ahead(i)'
    <3>1. PICK d \in Chars \cap crawl.left : \E k \in 1..Len(log[d]) : log[d][k] = i
      BY <2>3, <1>3
    <3>2. PICK k \in 1..Len(log[d]) : log[d][k] = i
      BY <3>1
    <3>3. k > 0 * PageCount
      BY <3>2, HistoryConstants
    <3> QED BY <3>1, <3>2, <3>3, <2>2, <1>1 DEF Ahead
  <2> QED BY <2>2, <2>3, <1>1 DEF CrawlInv, CrawlType, PassCovers
<1>5. CASE crawl.left = {} /\ crawl' = [H!Over EXCEPT !.recorded = crawl.recorded]
  <2>1. /\ crawl'.at = "over" /\ crawl'.page = 0 /\ crawl'.left = {}
        /\ crawl'.recorded = crawl.recorded
    BY <1>5 DEF H!Over, H!Off
  <2> QED BY <2>1, <1>1, <1>3, <1>5 DEF CrawlInv, CrawlType, PassCovers
<1> QED BY <1>4, <1>5 DEF H!UnreadablePage

\* A history pass that ends by itself has found every run played before it began
\* (gos_10k.ts run), whatever is played and whatever the detail pass does
\* meanwhile, but for what an unreadable answer hid from it.
THEOREM ArchivePassCovers == ArchiveSpec => []PassCovers
<1>1. ArchiveInit => CrawlInv
  BY DEF ArchiveInit, H!HistoryInit, CrawlInv, CrawlType, PassCovers, H!Off
<1>2. TypeOK /\ CrawlInv /\ [Next]_vars /\ [ArchiveNext]_archiveVars => CrawlInv'
  <2> SUFFICES ASSUME TypeOK, CrawlInv, [Next]_vars, [ArchiveNext]_archiveVars PROVE CrawlInv'
    OBVIOUS
  <2>1. CASE UNCHANGED <<log, crawl, due, hidden>>
    <3>1. \A i \in due : runs[i] # Absent => runs'[i] # Absent
      BY RowsStay, HistoryConstants DEF CrawlInv, CrawlType
    <3>2. \A i : Ahead(i) => Ahead(i)'
      BY <2>1 DEF Ahead
    <3> QED BY <2>1, <3>1, <3>2 DEF CrawlInv, CrawlType, PassCovers
  <2>2. CASE H!Abort
    BY <2>2 DEF H!Abort, H!Off, CrawlInv, CrawlType, PassCovers
  <2>3. CASE H!History
    BY <2>2, <2>3, PlayKeeps, BeginKeeps, ReadPageKeeps, UnreadableKeeps DEF H!History
  <2> QED BY <2>1, <2>3 DEF ArchiveNext, archiveVars
<1>3. IInv => TypeOK
  BY DEF IInv
<1>4. ArchiveSpec => []TypeOK /\ [][Next]_vars
  BY ArchiveImplementsBackfill, BackfillTypeOK, PTL DEF BackfillRun
<1>5. CrawlInv => PassCovers
  BY DEF CrawlInv
<1> QED BY <1>1, <1>2, <1>4, <1>5, PTL DEF ArchiveSpec

=============================================================================
