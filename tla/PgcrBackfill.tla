---------------------------- MODULE PgcrBackfill ----------------------------
(***************************************************************************)
(* The PGCR detail pass over the archive of one player's raids             *)
(* (src/gos10k/gos_10k_pgcr.ts): every run of it selects the rows that     *)
(* were not fetched yet, lets a pool of workers fetch them, and stores     *)
(* each answer in one transaction, until the rows are used up, a worker    *)
(* decides to stop, or the process is killed.  A later run resumes from    *)
(* what the table says.                                                    *)
(*                                                                         *)
(* Instances are numbered in the order of their period, the order in which *)
(* the rows are selected.  The fetch is the only step a worker awaits: what *)
(* follows an answer, up to the next fetch, is one action.                 *)
(***************************************************************************)
EXTENDS PgcrParse

CONSTANTS
    Instances,      \* raid instance ids, ordered by period
    Workers,        \* requests in flight at once (CONFIG.concurrency)
    Replies,        \* what the API may answer to a request
    MaxRetries,     \* retries of a dropped connection or of a 429
    FailureLimit,   \* failures in a row that end a run
    Limits          \* the values of --limit, All for no limit

CONSTANT All

ASSUME BackfillConstants ==
    /\ Instances \subseteq Nat
    /\ 0 \notin Instances
    /\ IsFiniteSet(Instances)
    /\ MaxRetries \in Nat
    /\ FailureLimit \in Nat \ {0}
    /\ Limits \subseteq Nat \cup {All}
    /\ Garbage # None

VARIABLES
    runs,       \* gos_10k_runs: a row's fetch status and the columns the pass fills
    players,    \* gos_10k_pgcr_players
    weapons,    \* gos_10k_pgcr_weapons
    raw,        \* gos_10k_pgcr_raw: the report archived for an instance
    process,    \* whether the script runs
    pending,    \* the instances this run selected
    todo,       \* those the shared cursor has not reached
    worker,     \* what each worker does
    fatal,      \* fatalError is set
    streak      \* consecutiveFailures

tables == <<runs, players, weapons, raw>>
pass == <<process, pending, todo, worker, fatal, streak>>
vars == <<tables, pass>>

Statuses == {"absent", "none", "ok", "privacy", "missing", "error", "http", "id-mismatch"}
Absent == [status |-> "absent", columns |-> None]
Collected == [status |-> "none", columns |-> None]
Reports == {r \in {reply.response : reply \in Replies} : r \notin {None, Garbage}}

Columns == {None} \cup {RunColumns(r) : r \in Reports}

Done == [at |-> "done", id |-> 0, attempt |-> 0]
Ready == [at |-> "ready", id |-> 0, attempt |-> 0]
Fetching(i, n) == [at |-> "fetch", id |-> i, attempt |-> n]
WorkerStates == {Done, Ready} \cup {Fetching(i, n) : i \in Instances, n \in 0..MaxRetries}

Init ==
    /\ runs \in [Instances -> {Absent, Collected}]
    /\ players = {} /\ weapons = {}
    /\ raw = [i \in Instances |-> None]
    /\ process = "down"
    /\ pending = {} /\ todo = {}
    /\ worker = [w \in Workers |-> Done]
    /\ fatal = FALSE
    /\ streak = 0

-----------------------------------------------------------------------------
(* Starting a run *)

WantedEvenIfOk(retry) == {i \in Instances : runs[i].status = "none" \/ (retry /\ runs[i].status # "absent")}

\* NULL pgcr_fetched_at is "never attempted"; --retry-failed adds what did not
\* land.  A row that did is never selected again.
Wanted(retry) ==
    {i \in Instances : \/ runs[i].status = "none"
                       \/ /\ retry
                          /\ runs[i].status \notin {"absent", "ok"}}

\* ORDER BY period LIMIT n
Oldest(S, n) == IF n = All THEN S ELSE {i \in S : Cardinality({j \in S : j < i}) < n}

\* As many workers as there are rows for, and always one.
Start(retry, limit) ==
    /\ process = "down"
    /\ process' = "running"
    /\ pending' = Oldest(Wanted(retry), limit)
    /\ todo' = pending'
    /\ \E pool \in SUBSET Workers :
        /\ pool # {}
        /\ Cardinality(pool) <= Cardinality(pending') \/ Cardinality(pool) = 1
        /\ worker' = [w \in Workers |-> IF w \in pool THEN Ready ELSE Done]
    /\ fatal' = FALSE
    /\ streak' = 0
    /\ UNCHANGED tables

-----------------------------------------------------------------------------
(* The workers *)

\* The head of the loop: leave if the run is stopped or the rows are used up,
\* otherwise take the next row.
NextRow(w, stop) ==
    \/ /\ stop \/ todo = {}
       /\ worker' = [worker EXCEPT ![w] = Done]
       /\ UNCHANGED todo
    \/ /\ ~stop
       /\ \E i \in todo :
            /\ \A j \in todo : i <= j
            /\ worker' = [worker EXCEPT ![w] = Fetching(i, 0)]
            /\ todo' = todo \ {i}

FirstRow(w) ==
    /\ worker[w].at = "ready"
    /\ NextRow(w, fatal)
    /\ UNCHANGED <<tables, process, pending, fatal, streak>>

ThrowRejectsAll(w) ==
    /\ fatal' = TRUE
    /\ worker' = [worker EXCEPT ![w] = Done]
    /\ process' = "down"
    /\ UNCHANGED <<tables, pending, todo>>

\* What a throw in the loop becomes: the flag, for the others to see.
Throw(w) ==
    /\ fatal' = TRUE
    /\ worker' = [worker EXCEPT ![w] = Done]
    /\ UNCHANGED <<tables, process, pending, todo>>

InFlight(w) == worker[w].at = "fetch"

RetryForEver(w) ==
    /\ InFlight(w)
    /\ worker' = [worker EXCEPT ![w].attempt = (@ + 1) % (MaxRetries + 1)]
    /\ UNCHANGED <<tables, process, pending, todo, fatal, streak>>

\* fetchRaw: a dropped connection and a 429 are retried after a pause, and
\* throw when the retries are used up.
Retry(w) ==
    /\ InFlight(w)
    /\ worker[w].attempt < MaxRetries
    /\ worker' = [worker EXCEPT ![w].attempt = @ + 1]
    /\ UNCHANGED <<tables, process, pending, todo, fatal, streak>>

GiveUp(w) ==
    /\ InFlight(w)
    /\ worker[w].attempt >= MaxRetries
    /\ Throw(w)
    /\ UNCHANGED streak

\* The check after the await: another worker stopped the run meanwhile.
Stopped == fatal
Discard(w) ==
    /\ InFlight(w) /\ Stopped
    /\ worker' = [worker EXCEPT ![w] = Done]
    /\ UNCHANGED <<tables, process, pending, todo, fatal, streak>>

StopRun(w, reply) ==
    /\ InFlight(w) /\ ~Stopped
    /\ Fatal(reply)
    /\ Throw(w)
    /\ UNCHANGED streak

\* The row's status, or that the report is another instance's.
Verdict(w, reply) ==
    IF RowStatus(reply) = "ok" /\ reply.response # Garbage /\ reply.response.id # worker[w].id
    THEN "id-mismatch" ELSE RowStatus(reply)

RecordFailureUnstopped(w, reply) ==
    /\ InFlight(w) /\ ~Stopped
    /\ ~Fatal(reply)
    /\ Verdict(w, reply) # "ok"
    /\ runs' = [runs EXCEPT ![worker[w].id].status = Verdict(w, reply)]
    /\ streak' = streak + 1
    /\ fatal' = (fatal \/ streak' > FailureLimit)
    /\ NextRow(w, fatal')
    /\ UNCHANGED <<players, weapons, raw, process, pending>>

\* recordFailure: the row is marked, and the failure that completes the
\* series stops the run.
RecordFailure(w, reply) ==
    /\ InFlight(w) /\ ~Stopped
    /\ ~Fatal(reply)
    /\ Verdict(w, reply) # "ok"
    /\ runs' = [runs EXCEPT ![worker[w].id].status = Verdict(w, reply)]
    /\ streak' = streak + 1
    /\ fatal' = (fatal \/ streak' >= FailureLimit)
    /\ NextRow(w, fatal')
    /\ UNCHANGED <<players, weapons, raw, process, pending>>

\* storePgcr: one transaction.  Weapon rows are replaced, the others updated
\* in place.
StorePgcr(report) ==
    LET rows == PlayerRows(report) IN
    /\ weapons' = {x \in weapons : x.instance # report.id} \cup WeaponRows(report)
    /\ players' = {x \in players : \A y \in rows :
                        <<x.instance, x.char>> # <<y.instance, y.char>>} \cup rows
    /\ raw' = [raw EXCEPT ![report.id] = report]
    /\ runs' = [runs EXCEPT ![report.id] = [status |-> "ok", columns |-> RunColumns(report)]]

Store(w, reply) ==
    /\ InFlight(w) /\ ~Stopped
    /\ ~Fatal(reply)
    /\ Verdict(w, reply) = "ok" /\ reply.response # Garbage
    /\ streak' = 0
    /\ StorePgcr(reply.response)
    /\ NextRow(w, fatal)
    /\ UNCHANGED <<process, pending, fatal>>

\* A Response that cannot be parsed throws before the streak is reset, a
\* transaction that fails after it; a failed markRunFailed is a throw too.
ParseThrows(w, reply) ==
    /\ InFlight(w) /\ ~Stopped
    /\ ~Fatal(reply)
    /\ Verdict(w, reply) = "ok" /\ reply.response = Garbage
    /\ Throw(w)
    /\ UNCHANGED streak

WriteThrows(w, reply) ==
    /\ InFlight(w) /\ ~Stopped
    /\ ~Fatal(reply)
    /\ reply.response # Garbage
    /\ streak' = IF Verdict(w, reply) = "ok" THEN 0 ELSE streak
    /\ Throw(w)

Settle(w) ==
    \E reply \in Replies :
        \/ StopRun(w, reply) \/ RecordFailure(w, reply) \/ Store(w, reply)
        \/ ParseThrows(w, reply) \/ WriteThrows(w, reply)

Work(w) == FirstRow(w) \/ Retry(w) \/ GiveUp(w) \/ Discard(w) \/ Settle(w)

\* Every worker has returned; the database is closed.
Finish ==
    /\ process = "running"
    /\ \A w \in Workers : worker[w] = Done
    /\ process' = "down"
    /\ UNCHANGED <<tables, pending, todo, worker, fatal, streak>>

\* The process is killed; what is committed stays.
Kill ==
    /\ process = "running"
    /\ process' = "down"
    /\ pending' = {} /\ todo' = {}
    /\ worker' = [w \in Workers |-> Done]
    /\ fatal' = FALSE
    /\ streak' = 0
    /\ UNCHANGED tables

Backfill ==
    \/ \E retry \in BOOLEAN, limit \in Limits : Start(retry, limit)
    \/ \E w \in Workers : Work(w)
    \/ Finish
    \/ Kill

\* Beside it the history crawl adds rows (GosHistory).
Collect(new) ==
    /\ \A i \in new : runs[i] = Absent
    /\ runs' = [i \in Instances |-> IF i \in new THEN Collected ELSE runs[i]]
    /\ UNCHANGED <<players, weapons, raw, pass>>

Next == Backfill \/ \E new \in SUBSET Instances : Collect(new)

Fairness == (\A w \in Workers : WF_pass(process = "running" /\ Work(w))) /\ WF_pass(Finish)

Spec == Init /\ [][Next]_vars /\ Fairness

\* printReport's headline: the full clears a player completed, over the rows
\* that were fetched.
FullClearsCompleted(member) ==
    {i \in Instances :
        /\ runs[i].status = "ok" /\ runs[i].columns.fullClear
        /\ \E x \in players : x.instance = i /\ x.member = member /\ x.completed = 1}

-----------------------------------------------------------------------------
(* Properties *)

TypeOK ==
    /\ runs \in [Instances -> [status : Statuses, columns : Columns]]
    /\ raw \in [Instances -> Reports \cup {None}]
    /\ players \subseteq UNION {PlayerRows(r) : r \in Reports}
    /\ weapons \subseteq UNION {WeaponRows(r) : r \in Reports}
    /\ process \in {"down", "running"}
    /\ todo \subseteq pending /\ pending \subseteq Instances
    /\ worker \in [Workers -> WorkerStates]
    /\ fatal \in BOOLEAN /\ streak \in 0..FailureLimit

RowsOf(table, i) == {x \in table : x.instance = i}

\* "The archive can never disagree with the parse" (gos_10k_pgcr.ts:363): a row
\* is 'ok' exactly when its report is archived, its columns, players and weapons
\* are what parsePgcr makes of that report, and a row that is not 'ok' has none
\* of them; every weapon belongs to a player row.
Reconciles ==
    /\ \A i \in Instances :
        IF runs[i].status = "ok"
        THEN /\ raw[i] # None /\ raw[i].id = i
             /\ runs[i].columns = RunColumns(raw[i])
             /\ RowsOf(players, i) = PlayerRows(raw[i])
             /\ RowsOf(weapons, i) = WeaponRows(raw[i])
        ELSE /\ raw[i] = None
             /\ RowsOf(players, i) = {} /\ RowsOf(weapons, i) = {}
    /\ \A x \in weapons : \E y \in players : <<x.instance, x.char>> = <<y.instance, y.char>>

\* "Nothing lands after the decision to stop" (gos_10k_pgcr.ts:581-583): while the
\* workers come home no row the pass selected changes any more.
StopIsFinal ==
    [][fatal /\ process = "running" =>
        /\ UNCHANGED <<players, weapons, raw>>
        /\ \A i \in pending : runs'[i] = runs[i]]_vars

\* What a run accounts for.  One that was not stopped has settled every row it
\* selected, the workers having shared them without leaving one out.  However it
\* ends, at most FailureLimit rows were marked failed since the last success, so
\* that one systemic cause cannot mark the table (gos_10k_pgcr.ts:43-46).  The
\* database is closed only when no request is out (gos_10k_pgcr.ts:738-740).
SettlesAll ==
    (process = "running" /\ ~fatal /\ \A w \in Workers : worker[w] = Done) =>
        \A i \in pending : runs[i].status # "none"
OutageIsContained == streak <= FailureLimit /\ (streak = FailureLimit => fatal)
ClosesIdle == process = "down" => \A w \in Workers : worker[w] = Done
RunAccounts == SettlesAll /\ OutageIsContained /\ ClosesIdle

\* Every run comes to its end, whatever the API answers and however the workers
\* leave.
Drains == (process = "running") ~> (process = "down")
=============================================================================
