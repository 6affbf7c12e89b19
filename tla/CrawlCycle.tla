----------------------------- MODULE CrawlCycle -----------------------------
(***************************************************************************)
(* crawlLoop and crawlCycle: the crawler drains the crawl queue, fills its *)
(* budget with players from three buckets, lets a pool of workers crawl    *)
(* them, and records who was found.  PlayerCrawl has the crawl of one      *)
(* player in detail; here it is a step with its outcome.  A step is what   *)
(* the process does between two awaits.                                    *)
(***************************************************************************)
EXTENDS Integers, Sequences, FiniteSets

CONSTANTS
    Players,
    Seeded,             \* the players the discovery script left in the table
    Viewed,             \* the players that are looked at, or whose raids end
    Concurrency,        \* crawlConcurrency
    Total,              \* maxPlayersPerCycle
    HotPct, WarmPct,    \* bucketHotPct, bucketWarmPct
    QueueMax,           \* queueMaxPerCycle
    MaxFailures,        \* MAX_CONSECUTIVE_FAILURES
    MaxTroubles         \* bound: crawls that do not succeed, outages, stops, kills

ASSUME CycleAssumption ==
    /\ IsFiniteSet(Players) /\ Seeded \subseteq Players /\ Viewed \subseteq Players
    /\ Total \in Nat /\ HotPct \in Nat /\ WarmPct \in Nat /\ HotPct + WarmPct <= 100
    /\ Concurrency \in Nat \ {0} /\ QueueMax \in Nat /\ MaxFailures \in Nat \ {0} /\ MaxTroubles \in Nat

VARIABLES
    known,      \* the players with a row
    active,     \* is_active
    resting,    \* next_eligible_at is in the future
    failures,   \* consecutive_failures
    line,       \* who was attempted, the oldest last_attempt_at first; a set
                \* for each second
    queue,      \* crawl_queue in the order of enqueued_at
    urgent,     \* the rows of it with the priority of an ended session
    loop,       \* crawlLoop: "idle" (timer, or waits for the pause to end), "cycle",
                \* "stopped"
    stop,       \* shouldStop
    pause,      \* external: a gate of the maintenance state is up; what others
                \* report only delays a cycle
    drained,    \* queueIds
    todo,       \* the tasks nobody has taken, bucket after bucket
    running,    \* whom the workers crawl
    disabled,   \* maintenanceDetected
    tried,      \* whose outcome the last cycle recorded
    buffer,     \* discoveredPlayersBuffer
    again,      \* history: whom the cycle drained, and who was enqueued anew after
                \* a worker had taken the task
    troubles    \* history: what went wrong so far

rowVars == <<known, active, resting, failures, line>>
cycleVars == <<drained, todo, running, disabled, tried, buffer, again>>
vars == <<rowVars, queue, urgent, loop, stop, pause, cycleVars, troubles>>

Init ==
    /\ known = Seeded /\ active = Seeded /\ resting = {}
    /\ failures = [p \in Players |-> 0]
    /\ line = <<>> /\ queue = <<>> /\ urgent = {}
    /\ loop = "idle" /\ stop = FALSE /\ pause = FALSE
    /\ drained = {} /\ todo = <<>> /\ running = {} /\ disabled = FALSE
    /\ tried = {} /\ buffer = {} /\ again = {} /\ troubles = 0

Trouble == troubles < MaxTroubles /\ troubles' = troubles + 1

(***************************************************************************)
(* The crawl queue.                                                        *)
(***************************************************************************)

Queued == {queue[i] : i \in DOMAIN queue}

\* The rows of q that are not of S, in their order.
Without(q, S) ==
    LET kept == {i \in DOMAIN q : q[i] \notin S}
    IN  [n \in 1 .. Cardinality(kept) |->
           q[CHOOSE i \in kept : Cardinality(kept \cap (1 .. i)) = n]]

\* enqueueCrawl: a row that is there goes to the end, and keeps the higher
\* priority.  A profile view of a player who is backing off enqueues nothing; it
\* may be of a player without a row.
Enqueue(p) ==
    /\ p \in Viewed
    /\ queue' = Append(Without(queue, {p}), p)
    /\ \/ urgent' = urgent \cup {p}
       \/ p \notin resting /\ UNCHANGED urgent
    /\ again' = IF p \in drained \cap (running \cup tried) THEN again \cup {p} ELSE again
    /\ UNCHANGED <<rowVars, loop, stop, pause, drained, todo, running, disabled, tried, buffer,
                   troubles>>

\* drainCrawlQueue deletes the rows of players who are backing off, and returns
\* the first of the rest, the urgent ones before the others.
AfterDrop == Without(queue, resting)

Drained ==
    LET first  == SelectSeq(AfterDrop, LAMBDA p : p \in urgent)
        second == SelectSeq(AfterDrop, LAMBDA p : p \notin urgent)
        rows   == first \o second
    IN  {rows[i] : i \in {j \in DOMAIN rows : j <= QueueMax}}

(***************************************************************************)
(* The buckets.                                                            *)
(***************************************************************************)

Buckets == {"hot", "warm", "cold"}

HotTarget == (Total * HotPct) \div 100
WarmTarget == (Total * WarmPct) \div 100
ColdTarget == Total - HotTarget - WarmTarget

Place(p) == IF \E i \in DOMAIN line : p \in line[i]
            THEN CHOOSE i \in DOMAIN line : p \in line[i] ELSE 0

\* The rows a query without its limit may return, of the players whose
\* last_seen_at puts them in the bucket.
Candidates(seen, bucket, excluded) ==
    {p \in (known \cap active) \ (resting \cup excluded) : seen[p] = bucket}

SelectNewest(S, n) ==   \* mutant: the last attempted come first
    IF n <= 0 THEN {{}}
    ELSE {T \in SUBSET S :
            /\ Cardinality(T) <= n /\ (Cardinality(T) < n => T = S)
            /\ \A p \in T, q \in S \ T : Place(p) >= Place(q)}

\* ORDER BY last_attempt_at ASC LIMIT n: NULL comes first, equal seconds in any
\* order.  The cold bucket looks at players.priority before, which nobody sets.
Select(S, n) ==
    IF n <= 0 THEN {{}}
    ELSE {T \in SUBSET S :
            /\ Cardinality(T) <= n /\ (Cardinality(T) < n => T = S)
            /\ \A p \in T, q \in S \ T : Place(p) <= Place(q)}

Picked(s) == UNION {s[i] : i \in DOMAIN s}

PicksAgain(s, seen, bucket, n) ==   \* mutant: only the queue is excluded
    {Append(s, T) : T \in Select(Candidates(seen, bucket, s[1]), n)}

\* One more query, which excludes all that is picked already.
Picks(s, seen, bucket, n) ==
    {Append(s, T) : T \in Select(Candidates(seen, bucket, Picked(s)), n)}

HotShort(s) == HotTarget - Cardinality(s[2])
WarmShort(s) == WarmTarget - Cardinality(s[3])

SelectionsHotOnly(seen, Q) ==   \* mutant: what warm leaves is lost
    LET hot     == Picks(<<Q>>, seen, "hot", HotTarget)
        warm    == UNION {Picks(s, seen, "warm", WarmTarget) : s \in hot}
        cold    == UNION {Picks(s, seen, "cold", ColdTarget) : s \in warm}
        more    == UNION {Picks(s, seen, "warm", HotShort(s)) : s \in cold}
        still   == UNION {Picks(s, seen, "cold", HotShort(s) - Cardinality(s[5])) : s \in more}
    IN  {Append(s, {}) : s \in still}

\* What crawlCycle may select when the queue gave Q: the three buckets, then what
\* hot left of the budget goes to warm and to cold, and what warm left to cold.
Selections(seen, Q) ==
    LET hot     == Picks(<<Q>>, seen, "hot", HotTarget)
        warm    == UNION {Picks(s, seen, "warm", WarmTarget) : s \in hot}
        cold    == UNION {Picks(s, seen, "cold", ColdTarget) : s \in warm}
        more    == UNION {Picks(s, seen, "warm", HotShort(s)) : s \in cold}
        still   == UNION {Picks(s, seen, "cold", HotShort(s) - Cardinality(s[5])) : s \in more}
    IN  UNION {Picks(s, seen, "cold", WarmShort(s)) : s \in still}

\* The order of allTasks: queue, hot, warm, cold.
InOrder(s) == <<s[1], s[2], s[3], s[5], s[4], s[6], s[7]>>

(***************************************************************************)
(* A cycle.                                                                *)
(***************************************************************************)

\* Which raids were stored meanwhile, and how old they are by now, decides the
\* buckets: any division is possible.
BeginCycle ==
    /\ loop = "idle" /\ ~stop /\ ~pause
    /\ queue' = AfterDrop
    /\ urgent' = urgent \ resting
    /\ drained' = Drained
    /\ \E seen \in [Players -> Buckets] : \E s \in Selections(seen, Drained) : todo' = InOrder(s)
    /\ loop' = "cycle"
    /\ tried' = {} /\ disabled' = FALSE
    /\ UNCHANGED <<rowVars, stop, pause, running, buffer, again, troubles>>

Left == UNION {todo[i] : i \in DOMAIN todo}

\* A worker takes a task of the first bucket that has one.
TakeTask(p) ==
    \E i \in DOMAIN todo :
      /\ p \in todo[i] /\ \A j \in DOMAIN todo : j < i => todo[j] = {}
      /\ todo' = [todo EXCEPT ![i] = @ \ {p}]

Take(p) ==
    /\ loop = "cycle" /\ Cardinality(running) < Concurrency /\ ~(stop \/ disabled)
    /\ TakeTask(p)
    /\ running' = running \cup {p}
    /\ UNCHANGED <<rowVars, queue, urgent, loop, stop, pause, drained, disabled, tried, buffer, again,
                   troubles>>

\* A task taken while the crawler stops, or after another met Bungie's
\* maintenance, is dropped.
Skip(p) ==
    /\ loop = "cycle" /\ Cardinality(running) < Concurrency /\ (stop \/ disabled)
    /\ TakeTask(p)
    /\ UNCHANGED <<rowVars, queue, urgent, loop, stop, pause, drained, running, disabled, tried, buffer,
                   again, troubles>>

\* last_attempt_at = unixepoch(): of the second of the attempts before it, if
\* they belong to this cycle, or of a later one.
Attempt(p) ==
    LET others == SelectSeq([i \in DOMAIN line |-> line[i] \ {p}], LAMBDA T : T # {})
        last   == Len(others)
    IN  /\ tried' = tried \cup {p}
        /\ \/ p \notin known /\ UNCHANGED line
           \/ p \in known /\ line' = Append(others, {p})
           \/ /\ p \in known /\ last > 0 /\ others[last] \subseteq tried
              /\ line' = [others EXCEPT ![last] = @ \cup {p}]

Ends(p) ==
    /\ loop = "cycle" /\ p \in running
    /\ running' = running \ {p}
    /\ Attempt(p)
    /\ UNCHANGED <<queue, urgent, loop, stop, pause, drained, todo, disabled, again>>

\* bulkUpsertPlayers: a row that is there stays as it is.
Upsert(S) ==
    /\ known' = known \cup S
    /\ active' = active \cup (S \ known)

\* The crawl succeeds and finds players.  The buffer is flushed when it holds
\* enough entries, known players and repetitions among them.
Succeeds(p) ==
    /\ Ends(p)
    /\ resting' = resting \ {p} /\ failures' = [failures EXCEPT ![p] = 0]
    /\ \E D \in SUBSET (Players \ known) :
         \/ buffer' = buffer \cup D /\ UNCHANGED <<known, active>>
         \/ buffer' = {} /\ Upsert(buffer \cup D)
    /\ UNCHANGED troubles

\* recordCrawlOutcome: 'transient', 'privacy', 'not_found'; without a row there
\* is nothing to update.
Fails(p) ==
    /\ Ends(p) /\ Trouble
    /\ \/ p \notin known /\ UNCHANGED <<resting, failures, active>>
       \/ /\ p \in known
          /\ failures' = [failures EXCEPT ![p] = @ + 1]
          /\ resting' = resting \cup {p}
          /\ active' = IF failures[p] + 1 >= MaxFailures THEN active \ {p} ELSE active
       \/ p \in known /\ resting' = resting \cup {p} /\ UNCHANGED <<failures, active>>
       \/ p \in known /\ active' = active \ {p} /\ UNCHANGED <<failures, resting>>
    /\ UNCHANGED <<known, buffer>>

\* SystemDisabled: the pause is recorded, no outcome is.
MeetsMaintenance(p) ==
    /\ loop = "cycle" /\ p \in running /\ Trouble
    /\ running' = running \ {p}
    /\ disabled' = TRUE /\ pause' = TRUE
    /\ UNCHANGED <<rowVars, queue, urgent, loop, stop, drained, todo, tried, buffer, again>>

RemainingNone(done) == <<>>   \* mutant: the whole queue is deleted

Remaining(done) == Without(queue, done)

\* The rows of the drained players are deleted and the buffer is flushed before
\* crawlCycle throws, if it does.
EndCycle ==
    /\ loop = "cycle" /\ Left = {} /\ running = {}
    /\ queue' = Remaining(drained)
    /\ urgent' = urgent \cap {queue'[i] : i \in DOMAIN queue'}
    /\ Upsert(buffer)
    /\ buffer' = {} /\ drained' = {} /\ todo' = <<>> /\ again' = {}
    /\ loop' = "idle"
    /\ UNCHANGED <<resting, failures, line, stop, pause, running, disabled, tried, troubles>>

\* crawlLoop comes back, after its interval or while it waits for the pause.
EndLoop ==
    /\ loop = "idle" /\ stop
    /\ loop' = "stopped"
    /\ UNCHANGED <<rowVars, queue, urgent, stop, pause, cycleVars, troubles>>

(***************************************************************************)
(* What happens around it.                                                 *)
(***************************************************************************)

\* The backoff of a player ends.
Rested(p) ==
    /\ p \in resting /\ resting' = resting \ {p}
    /\ UNCHANGED <<known, active, failures, line, queue, urgent, loop, stop, pause, cycleVars, troubles>>

PauseEnds ==
    /\ pause /\ pause' = FALSE
    /\ UNCHANGED <<rowVars, queue, urgent, loop, stop, cycleVars, troubles>>

Stop ==
    /\ ~stop /\ Trouble /\ stop' = TRUE
    /\ UNCHANGED <<rowVars, queue, urgent, loop, pause, cycleVars>>

\* The process ends after a stop, or is killed, and is started again.
Restart ==
    /\ (stop /\ UNCHANGED troubles) \/ Trouble
    /\ loop' = "idle" /\ stop' = FALSE
    /\ drained' = {} /\ todo' = <<>> /\ running' = {} /\ disabled' = FALSE
    /\ tried' = {} /\ buffer' = {} /\ again' = {}
    /\ UNCHANGED <<rowVars, queue, urgent, pause>>

(***************************************************************************)
(* The specification.                                                      *)
(***************************************************************************)

WorkerStep(p) == Take(p) \/ Skip(p) \/ Succeeds(p) \/ Fails(p) \/ MeetsMaintenance(p)

LoopStep == BeginCycle \/ (\E p \in Players : WorkerStep(p)) \/ EndCycle \/ EndLoop

Environment ==
    \/ \E p \in Players : Enqueue(p) \/ Rested(p)
    \/ PauseEnds \/ Stop \/ Restart

Next == LoopStep \/ Environment

\* The loop comes back by its timer, requests have timeouts, backoffs and pauses
\* are spans of time.
Fairness ==
    /\ WF_vars(LoopStep) /\ WF_vars(PauseEnds)
    /\ WF_vars(\E p \in Players : Rested(p))

Spec == Init /\ [][Next]_vars /\ Fairness

(***************************************************************************)
(* Properties.                                                             *)
(***************************************************************************)

TypeOK ==
    /\ Seeded \subseteq known /\ known \subseteq Players
    /\ active \subseteq known /\ resting \subseteq known
    /\ failures \in [Players -> Nat]
    /\ \A i \in DOMAIN line : line[i] # {} /\ line[i] \subseteq known
    /\ \A i, j \in DOMAIN line : i # j => line[i] \cap line[j] = {}
    /\ Queued \subseteq Viewed /\ urgent \subseteq Queued
    /\ loop \in {"idle", "cycle", "stopped"}
    /\ stop \in BOOLEAN /\ pause \in BOOLEAN /\ disabled \in BOOLEAN
    /\ drained \subseteq Players /\ Left \subseteq Players /\ tried \subseteq Players
    /\ running \subseteq Players /\ Cardinality(running) <= Concurrency
    /\ buffer \subseteq Players /\ troubles \in 0 .. MaxTroubles

\* crawlCycle puts a list together from the queue and six queries: no player is
\* in it twice, so that two workers never crawl one player at the same time and
\* overwrite his watermark, his backoff and his cached characters.
OneCrawlAtATime ==
    /\ running \cap Left = {}
    /\ \A i, j \in DOMAIN todo : i # j => todo[i] \cap todo[j] = {}

\* crawlCycle fills the remaining budget "with spillover when a bucket is thin":
\* what hot leaves goes to warm and what is still left to cold, never the other
\* way.  So a place of the budget stays empty only when no cold player is left,
\* the share of hot only when no hot one is, the shares of hot and warm only when
\* no warm one is; what a thin cold bucket leaves goes to nobody.  The budget is
\* never exceeded, and nobody who backs off is taken.
BudgetIsUsed ==
    LET Q == Drained IN
    loop = "idle" =>
      \A seen \in [Players -> Buckets] : \A s \in Selections(seen, Q) :
        LET chosen == Picked(s) \ Q
            left(b) == Candidates(seen, b, Picked(s))
            hot     == {p \in chosen : seen[p] = "hot"}
            warm    == {p \in chosen : seen[p] = "warm"}
        IN  /\ Cardinality(chosen) <= Total /\ chosen \cap resting = {}
            /\ Cardinality(chosen) < Total => left("cold") = {}
            /\ Cardinality(hot) < HotTarget => left("hot") = {}
            /\ Cardinality(hot) + Cardinality(warm) < HotTarget + WarmTarget => left("warm") = {}

\* The request of the row was met: a crawl that was begun after the player was
\* last enqueued is recorded.
Met(p) == p \in tried \ again

\* A row leaves the queue when a cycle begins, because the player is backing off,
\* or at the end of the cycle that drained it: its request was met, or the cycle
\* was cut short by a stop or an outage, or the player was enqueued anew when the
\* crawl had begun, and the row, deleted by its id, goes with the old one.  The
\* row of a player whom the cycle did not drain stays, though it may have come
\* while the player, of a bucket, was crawled.
RowsAreServed ==
    [][\A p \in Queued \ Queued' :
         \/ loop = "idle" /\ p \in resting
         \/ loop = "cycle" /\ p \in drained /\ (Met(p) \/ stop \/ disabled \/ p \in again)]_vars

\* However the raids of the others come in and move players between the buckets,
\* an active player is crawled again and again.
EveryoneIsCrawled ==
    \A p \in Players : (p \in known \cap active) ~> (p \in tried \/ p \notin active \/ stop)
=============================================================================
