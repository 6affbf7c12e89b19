# Verification of Destiny Farm Finder

Destiny Farm Finder watches Bungie's public game API for Destiny 2 raids. Its
processes share one SQLite database and a few files; most of what can go wrong
happens between them, between concurrent callbacks inside one of them, and when
one of them is stopped in the middle of something. This directory holds TLA+
models of that part of the program, the TLC configurations that check them on
small instances, and TLAPS proofs of the properties that hold for every
instance. Paths below are relative to the repository; `lib/` stands for
`src/lib/`.

Check one run with `tlc -config MCScanner.cfg MCScanner.tla`, the proofs of a
module with `tlapm ScannerProofs.tla`.

## 1. Inventory

### Processes and what they share

| process | entry point | what it runs |
| --- | --- | --- |
| crawler | `scripts/start-crawler.ts`, `lib/crawler/index.ts` | three loops on one event loop: crawl cycle, active-session poll, cleanup of old raids |
| scanner | `scripts/start-scanner.ts`, `lib/scanner/index.ts` | one loop over PGCR instance ids |
| web (2 in a PM2 cluster) | Next.js `src/app` | pages, API routes, one in-memory cache each, a warmer on instance 0 |
| discovery | `scripts/discover.ts` | by hand or by a timer: backward scan, then snowball over teammates |
| db maintenance | `scripts/run-db-maintenance.ts` | by hand: stops the workers, VACUUM, starts them |
| browser | `src/app/player/.../PlayerProfileClient.tsx` | a visitor's page: asks Bungie by itself and posts what it saw to three routes |
| gos10k | `gos10k/gos_10k.ts`, `gos_10k_pgcr.ts` | by hand: an archive of one player's Garden of Salvation runs, in a database file of its own |

All but the last share the SQLite database (`pgcrs`, `pgcr_players`, `players`,
`crawl_queue`, `active_sessions`, `crawler_state`), the file
`maintenance-state.json` (rewritten as a whole, without a lock), the cleanup
lease (a file created exclusively), and snapshot files. SQLite makes each
statement and each transaction atomic; a read and a later write are not. Each
process is a single Node event loop: code between two `await`s is not
interrupted inside the process, but two processes interleave anywhere. pm2 kills
a worker 1.6 s after a stop signal; the crawler exits 2 s and the scanner 3 s
after it by themselves, whatever their loops are doing.

### Components

| component | state | operations | hard behaviour | what makes it correct |
| --- | --- | --- | --- | --- |
| scanner | position, missed set, key pool (memory); checkpoint, raids (database) | start, stop, batch, retry, catch-up pause, jump | workers around a shared cursor; rejected keys, 5xx, maintenance and stop in the middle of a batch or retry; two writers of the checkpoint | each id is handed out once; the checkpoint passes no id without a verdict, but by a jump or a stop, nor goes back; an id is given up only for a known reason |
| backward scan | checkpoint, local walk | probe, jump, walk | races with the live scanner on the checkpoint; kill in the middle | only a deliberate jump skips ids; a gap reported closed is closed but for look-ups that failed |
| downtime maintenance | state file, lease | report an outage, wait, clean up, operator's script | lost updates, a report during VACUUM, kill at any step, script beside workers | one VACUUM at a time; the gate is up while it runs and comes down afterwards; nobody waits for ever; each but for what a lost update or a killed process does |
| SWR cache | values, negative markers, in-flight promises | `getOrCompute`, refresh, evict | failures and evictions between awaits, waiters on another request's computation | one computation per key, bounded, every request answered |
| player crawl | watermark, backoff, cached character ids, queue row | profile, pages, refresh, PGCRs, outcome | the history changes while it is paged; partial failures; restart | no raid is taken for covered that was not stored, but for known reasons |
| crawl cycle | `crawl_queue`, buckets, list of tasks, buffer of players found | drain, select, crawl, skip, record, delete rows | players change buckets and are queued while a cycle runs; stop and outage in the middle | one crawl of a player at a time; what a thin bucket leaves goes where the code says; a row goes for a reason that is named; nobody starves |
| active sessions | `active_sessions`, check backoff, queue | poll, re-verify, probe teammates, candidates, resolve members, browser post | hung requests, watchdog and orphaned polls beside the next one, failures that are not "offline" | rows are removed and written only on a signal; an ended raid is queued |
| profile page and write routes | the page's spinners and last answer; `active_sessions`, `players`, guards | fetch, live check, refresh, slider, three posts | checks overlap and finish out of order, private accounts, expired tokens, maintenance | the newest live answer is shown, the row of a raid in progress stays, the crawl is queued once, no spinner stays |
| API client, rate limiter | next slot, promise chain | ask, sleep, grant, pause | pauses while grants sleep, timers that fire early, fetches that hang | a slot between two requests, none inside a throttle, each one leaves |
| snowball discovery | shared sets of processed players, raids, players found | waves over a pool of workers | shared sets across awaits, failed tasks, crash | each raid once; the pool finds what a walk without concurrency finds |
| raid store | `pgcrs`, `pgcr_players`, `players` | insert, upsert, expire | insert and upsert are two transactions of several processes | a raid implies its players |
| queries, leaderboard cache keys | none | full clears, completions, statistics, ranking | the same predicate written apart in several queries; keys that leave something out | queries agree, over players of several membership types too; a key names what its value depends on |
| gos10k archive | four tables, shared cursor, stop flag, streak | history page, select, fetch, retry, store, stop | two scripts on one file, workers around a shared cursor, kill and rerun, pages that shift | tables agree with the archived reports; a run accounts for its rows; a pass misses nothing but behind a page it could not read |
| cache warmer, middleware, other routes and pages, manifest, one-off tools, process supervision | a timer, a counter | warm, count, read, render | overlapping passes | not modelled, see section 5 |

`PROJECT.json` lists the same components with their sources and status, and
under "hazards" every place where the code is exposed to one of these
behaviours, with the property that would catch it going wrong or the reason
there is none.

## 2. Modules

Each component has a module with its state, one action per operation, its
properties and a type invariant; an `MC` module and one or more `.cfg` files
that instantiate it; and, where there are theorems, a `Proofs` module. Components
that run in the same kind of process share one (`WebServerProofs`, `CrawlerProofs`,
`ScriptProofs`), which extends them all; for that no two of them use a name for
different things (`CacheSpec`, `BackSpec`, `PlayerSpec`, `TableSpec` beside
`Spec`). A definition marked `mutant` is a plausible bug of the definition that follows it;
it is used by no specification and shows that a property can fail.

| module | models | composed of |
| --- | --- | --- |
| `Scanner` | `lib/scanner/index.ts` | scanner process, database, environment that stores raids and moves the checkpoint |
| `BackwardScan` | `scripts/discover.ts` 44-390 and the scanner's side of the checkpoint | both processes and the checkpoint row |
| `Maintenance` | `lib/bungie/maintenance.ts`, `lib/maintenance/state.ts`, `scripts/run-db-maintenance.ts` | any number of workers and scripts, state file, lease |
| `SwrCache` | `lib/cache/swr-cache.ts` | concurrent requests of one web process |
| `KeyBudget` | what `BungieClient` promises about a key | abstract specification |
| `BungieClient` | `lib/bungie/client.ts`, `lib/utils/rate-limiter.ts` | any number of callers of one key in one process |
| `CrawlCycle` | `lib/crawler/index.ts`, selection and queue in `db/queries.ts` | the loop, its workers, everybody who queues a player |
| `RaidStore`, `Snowball` | the writes of `db/queries.ts`, `lib/discovery/snowball-concurrent.ts` | discovery beside the other writers and the cleanup of old raids |
| `RaidReads` | the queries of `db/queries.ts`, `lib/cache/leaderboard-cache.ts` | pure operators over a table of raids |
| `RaidTables` | the tables `RaidReads` is asked of | raids inserted in any order and expired in any batch |
| `ClientWrites`, `ProfilePage` | the routes a profile page talks to, `PlayerProfileClient.tsx` | page, routes, Bungie's answers, the crawler |
| `PgcrParse`, `PgcrBackfill` | `gos10k/pgcr-parse.ts`, `pgcr-errors.ts`, `gos_10k_pgcr.ts` | workers of one detail pass, run after run |
| `GosHistory`, `GosArchive` | `gos10k/gos_10k.ts` | history crawl beside the detail pass on one file |
| `PlayerCrawl` | `lib/crawler/players.ts`, `pgcr.ts`, the queue of `crawler/index.ts`, outcomes in `db/queries.ts` | one player's game, the crawl cycle, the queue row |
| `ActiveSessions` | `lib/crawler/active-sessions.ts`, the session loop of `crawler/index.ts`, `utils/concurrent.ts`, the route `active-session-update` | loop, polls and their orphans, the browser, the players |

### Scanner

`mode` says where the process is: `down`, `loop` (head of `scanLoopIteration`),
`batch` (inside `scanBatch`), `catchup` (the pause after catching up), `retry`
(inside `retryMissedIds`), `ended`. A pass is `todo` (what `nextIndex` has not
reached), `flight` (requests awaited, with their keys) and `result`. A worker's
turn between two awaits is one action: `ClaimStored` (`hasPGCR` finds the id),
`ClaimAndFetch`, `ClaimWithoutKey`, `ClaimThrows`; then `FetchedRaid`,
`FetchedOther`, `FetchFailed` or `KeyRejected`. The ends of a batch
(`FinishBatch`, `FinishBatchDisabled`, `FinishBatchFatal`) and of a retry
(`FinishRetry`) contain everything the code does until the loop is scheduled
again: collecting missed ids under the cap, consecutive misses, position,
checkpoint (which a busy database may refuse: `SaveScannerPosition`).
`abandoned` holds ids that workers of a rejected pass still fetch unobserved
(`Promise.all` rejects at once, its other workers run on; a key they find rejected is lost
for all). `accounted` and `notRaid` are history: `accounted` are the ids that a worker came
to a verdict on, and those that a jump, or a stop in the middle of a batch, passed over on
purpose.

### BackwardScan

The script's phases: `jumping` and `halving` (the probes of
`findPresentInstanceId`), `found` (`ReadOld`), `move` (`MoveCheckpoint`),
`walking` (`WalkTo`), `stopped` (an outage broke the loop), `done` with its `reason`.
`WalkEnds` computes the reason as the code does, from the position first, whatever ended
the loop. The scanner is reduced to what it does to the checkpoint, in separate steps
`ScannerReads` and `ScannerWrites`, so that the script's `MoveCheckpoint` can fall between
them. `tried`, `jumped` and `failed` are history; `failed` are the ids of this walk whose
look-up counted as a miss, for an error like for an answer, and which nobody repeats.

### Maintenance

`file` is `maintenance-state.json`; an update is a read (`Update`, which puts the
new state into `pending`) and a write (`WriteState`), and any other process may run in
between: nothing in `maintenance/state.ts` prevents it, so updates get lost. `pc` follows
each worker through `work`, `wait`, `eligible` and the places of a cleanup, and the script
through its checks, gate, wait for the window, cleanup and `finally`; `ClearGate` is the
script taking down a stale gate before its other checks, after which it may end. `Kill`
takes a process away anywhere and turns its lease into `"stale"`.

What a lost update does is kept apart by history: `outdated` are the processes about to
write over a state they have not read; `reverted` says that such a write has changed one of
the two gates since the lease was last taken, and was not the lease holder's; `lowered`
that somebody else took `isVacuuming` down under the holder of the lease, as the script's
`finally` may. The properties make an exception for these two, `WaitEnds` also for what a
killed process has left up, and for nothing else.

### SwrCache

`values`, `negatives`, `inflight` are the three maps, `request` is each caller
of `getOrCompute` and `job` the computation it started, if any. `Receive`
contains the branches of `getOrCompute` up to its first await; `Reuse` and
`ComputeAfterAll` are what a waiter does when it wakes; `Succeeds` and `Fails`
end a computation, with its store, eviction, marker and `finally`.

### PlayerCrawl

`raid` is what the player plays (begin, end, listed later by Bungie); `crawl` the
local state of one `crawlPlayer`. `WalkPage` is one page of one character's
history with both stop conditions; `FetchPGCR` stores one raid or swallows its
error; `EndCrawl` records the outcome. A raid may be listed without its duration (not
`timed`); its end is then its start, which can end the walk. `Rank` makes pages shift when a raid is
listed while the history is being read. The queue row is drained by `BeginCycle`
and deleted by `EndCycle`; `CrawlCycle` has the queue of all players.

### ActiveSessions

`poll` holds the polls whose work is not over: the one the loop awaits
(`current`) and orphans that the watchdog gave up. A poll is in phase `stale`,
`candidates` or `resolve` with one task per player in `processWithConcurrency`.
`Reply` is Bungie's answer (at that moment it shows what the player does), the
continuation (`AnchorActive`, `NoSigns`, `NextProbe`, `CandidateActive`,
`CandidateGone`, ...) follows in a later step, because the answer is a promise.
`TurnIsOver` gives microtasks their precedence. `EndStale` includes the
age-based force-delete with the early return that skips it, `EndCandidates`
and `EndPoll` the schedule. `in` and `out` of a poll are history: who was seen in
or out of the game at some time since it began.

### BungieClient

`queue` is the chain of promises of `RateLimiter.wait`, of which only the head
looks at the slot; `ahead` is `nextSlot - now`, `timer` the rest of the sleep,
which may end `Early`. `Grant` sends the request of the head, which may hang; `Answer` takes a
reply with what it does to the slot (`Throttle`: status 429, ThrottleSeconds,
error code 1672), `Reject` is a timeout or a network error. `rest` and `quiet`
are history: what remains of the last slot and of the longest throttle named so
far. `KeyBudget` knows only who waits, who flies, `rest` and `quiet`, and lets a
request leave when both are 0.

### CrawlCycle

`loop` is `idle`, `cycle` or `stopped`; `todo` the list of tasks in the order of
their parts (queue, then the buckets), `running` the workers' players. `Selections`
is what the queue and the six bucket queries can return, one after the other,
each excluding who was picked before, with the spill of an unused hot
budget to warm and of what is left to cold. `BeginCycle` drains and selects in
one step, as no await lies between; `Take`, `Skip` (a stop, or an outage seen
by an earlier task), `Succeeds`, `Fails`, `MeetsMaintenance` are the task's;
`EndCycle` flushes the players found and deletes the drained rows. `line` orders
the players by their last attempt, `tried` remembers the attempts of this cycle and
`again` who was enqueued anew when his crawl had begun.

### RaidStore and Snowball

`RaidStore` has the three tables, `OtherStores` and `OtherUpserts` for the two
transactions of any other writer, `OtherCrashes` between them, and the cleanup
in batches. `Snowball` runs beside it: `wave` and `next`, `taken` and `claimed`
as the shared sets, and per worker the stage it awaits in. Between two awaits
(`GotCharacters`, `GotHistory`, `LookUp`, `Answered`, `TaskEnds`, `EndWave`) a
step is atomic. `orphans` remembers the players whose upsert a crash or a failed
task has lost.

### RaidReads and RaidTables

A query is an operator of the table `T` and the cutoff. `QueriesAgree` relates queries
that state one predicate in different words of SQL: completions listed, summed per raid,
counted with a teammate, counted for the leaderboard. `RecentCompletions` is the set of the
lists that the limit of the page may leave, `TeammateSummary` has a row for each raid,
teammate and membership type, as the GROUP BY has, and the property adds the rows of one
teammate up (`RunsWith`). `Percentile` is the code's walk
over the sorted rows, `PercentilesAreNearestRank` its reference definition. `CacheKey`,
`Computed` and `Body` are the key of a request, what a miss computes and what the route
cuts from it; `Uncached` is the answer the request would get without a cache. The states
of `RaidTables` are the tables that `Insert` and `Expire` lead to; its properties ask
every query of every one of them, for every cutoff. A report lists an entry for each
character; `StoredRow` is what `INSERT OR IGNORE` keeps of it: the first entry of each
member, beside a `completed` and a count of players that were taken from all entries. `Grouped` is the leaderboard's GROUP
BY, `Ahead` its ORDER BY down to the membership id, `RowAt` a row with the rank it gets
once the limit has cut the ranking.

### ClientWrites and ProfilePage

What Bungie knows is a counter that is odd while the player is in a raid.
`privacy` is the account-wide setting and, for a profile that Bungie does give, the parts
it shows: that it is public, component 204, component 1000. The routes see only those
(`IsPrivate`, `Active`, `Clears`), never what the player does. `checks` are the live checks
under way, numbered by their start; each is in a stage (`baseline`, `profile`, `containing`,
`update`, then `linked`, `identity`, `reread`, or `mate`, `mateUpdate`, `contained`), has a
profile to post and waits for a reply. `Answer` is the server's or Bungie's turn,
`Handle...` what the page does with it, so that anything may come between. `CrawlerWrites`
stores what the crawler learned at any time before, `VisitorPosts` is another visitor's
browser that posts what Bungie told it at any time before.
`ClientWrites` has the guards (`Admitted`: page token and cooldown), the
maintenance gate (`closed`) and what each post does to `active_sessions` and `players`.
`late`, `live`, `outdated`, `gone` and `spoiled` are history: whether an older check showed
its own after the newest check's answer, that answer, whether somebody stored an older raid
after the newest check's post, why the row of the player is not of the raid in progress, and
whether a request failed.

### PgcrParse, PgcrBackfill, GosHistory, GosArchive

`PgcrParse` classifies replies and turns a report into rows. `PgcrBackfill` is the
detail pass: `Start` selects (`--retry-failed` and `--limit` are parameters), a
worker awaits only its fetch, and what follows an answer is one action: `Retry`,
`GiveUp`, `Discard` after a stop, `StopRun`, `RecordFailure`, `Store` (one
transaction), `ParseThrows`, `WriteThrows`; `Finish` is the end of
`Promise.allSettled`; `Kill` may come anywhere. `GosHistory` pages through the history
while `Play` shifts it; `UnreadablePage` is a body that is not JSON, which the code takes for
the end of a character's history. `GosArchive` interleaves the two scripts transaction by
transaction.

## 3. Runs

Every run passes; one that checks a sentence of a comment or an output which
the program does not keep would fail, and those sentences are listed below.

| run | instance | properties | question |
| --- | --- | --- | --- |
| `MCScanner` | 3 ids in batches of 2, 2 workers, 2 keys, missed set of 1 | `PassPartition` `CheckpointBacked` `LossesAreNamed` `StopIsHonoured` | Is every id of a pass handed out once, does the checkpoint pass no id without a verdict, is every loss one of the named ones, is a stop honoured? |
| `MCBackwardScan` | 7 ids, jumps from 1, batches of 2, kills | `OnlyJumpsSkip` `ClosedInside` | Do only jumps skip ids, whatever reads and writes of the checkpoint interleave? Which raids can a gap reported closed still lack? |
| `MCMaintenance` | 1 worker, 1 script, 5 ticks | `OneCleaner` `QuiesceIsOwned` `GateCoversVacuum` `WaitEnds` | One cleanup at a time, the gate up during VACUUM and owned when it is up, and do waits end, under every interleaving of the file's reads and writes? |
| `MCSwrCache` | 3 requests, 2 keys, 1 entry, 5 ticks | `InflightIsLive` `SingleFlight` `EveryRequestIsAnswered` | Can an entry dangle, is a key computed twice at once, is anybody left waiting? |
| `MCBungieClient` | 3 callers, slot of 2, pauses up to 5 | `ImplementsBudget` `EveryRequestLeaves` | Does the chain of grants keep the key's budget under pauses that come from any answer, and let everybody leave though fetches hang? |
| `MCPlayerCrawl` | 2 raids, 2 characters, 2 pages of 1, 4 ticks | `LossesAreNamed` | Does only a named cause put an unstored raid behind the watermark? |
| `MCCrawlCycle` | 3 players, budget of 3, queue of 1, 2 workers | `OneCrawlAtATime` `BudgetIsUsed` `RowsAreServed` `EveryoneIsCrawled` | Are players crawled once at a time, what a bucket leaves passed on, rows deleted for a named reason, and does nobody starve? |
| `MCActiveSessions` | 2 players, poll and orphan, 1 external event, 3 ticks | `DeletedOnSignal` `WrittenOnSignal` `LiveRaiderNotBenched` `EndedRaidIsQueued` | Are rows deleted and written, and players backed off, only on a signal? Is an ended raid queued? |
| `MCProfilePage` | a player and a teammate; 1 click, 1 raid that begins or ends, 1 event | `QueuedOnceUnlessPrivate` `LiveAnswerIsShown` `RaidRowIsKept` `MembersBecomeKnown` `PageSettles` | What does the page show and write when its checks overlap? |
| `MCSnowball` | 4 players, 3 raids, 2 workers, 2 waves, 1 trouble | `MembersAreKnown` `SeenIsCurrent` `ClaimedOnce` `DiscoveryIsComplete` | Does the pool find what a sequential walk finds, and lose nobody unseen? |
| `MCRaidReads` | every table of up to 3 raids of a small repertoire | `QueriesAgree` `PercentilesAreNearestRank` `CacheIsTransparent` | Do queries agree, and does a cached answer equal the computed one? |
| `MCGosArchive` | 3 instances, 2 workers, 1 retry, 2 characters | `Reconciles` `RunAccounts` `PassCovers` `Drains` | Do tables agree with the reports, is every row accounted for, does a history pass miss nothing but behind an unreadable page, does every run end? |

### Divergences between the code and its comments

Met while modelling; each is what the model's code-derived definitions do, and
none is a property of a run.

* `scripts/discover.ts:245` prints "Gap fully closed!" though the id to which the
  checkpoint was moved is looked up by nobody; `ClosedInside` states what is true.
* `scripts/discover.ts:367`: the reason printed knows no outage; one in the middle of the
  walk reads as "scan limit reached", one at the old position as "gap fully closed". An id
  whose look-up failed with an error counts as a miss and is not tried again, so a gap
  reported closed may lack it.
* `lib/maintenance/state.ts:154` says that a future cleanup overwrites a lease
  that could not be released; a lease whose owner was killed is never overcome.
* `lib/cache/swr-cache.ts:85`: the negative marker is to keep a failing key from
  being hammered; it holds back misses only, every hit on a stale value starts
  another refresh (line 158).
* `lib/crawler/players.ts:297` and `499`: "everything older is covered" is not
  true after a crawl whose PGCR request failed; `LossesAreNamed` names the causes.
* `lib/crawler/players.ts:298`: "Missing duration (0): don't stop here"; the run's end is
  then its period, which does stop the walk once it is behind the watermark (line 300), so a
  run that was in progress at the last crawl is taken for covered.
* `lib/db/queries.ts:523`: rows are deleted "after crawl attempt"; those of tasks
  that were skipped after a stop or an outage go too, and those of drained players enqueued
  anew when the crawl had begun (`crawler/index.ts:380`); `RowsAreServed` names both.
* `lib/discovery/snowball-concurrent.ts:352` adds to a player's completions once per
  raid the number of all of them (N squared); the sequential version
  (`snowball.ts:132`) adds one.
* `lib/cache/leaderboard-cache.ts:80`: "The client max limit is 100"; the route
  accepts 500 (`app/api/leaderboard/route.ts:53`), and a cached shape has 100 rows.
* `lib/crawler/active-sessions.ts`: the early return at 319 skips the force-delete
  that the comments at 344 and 405 call the ultimate backstop; line 360 speaks of
  enqueueing the anchor only, while the whole fireteam is enqueued.

### Bounds, and why they are enough

Every bound is a constant of its module. *Scanner*: with three ids and batches
of two a second batch starts inside the bound after a jump or a retry; a missed
set of one id overflows; two keys can be lost one after the other or both in one
pass. *BackwardScan*: seven ids leave room for a jump, a halving, a gap with and
without raids, a walk that ends for each of its reasons, and two scanner batches
on either side. *Maintenance*: five ticks fit a downtime that is reported,
matures, is extended, ends and is followed by another; a worker and the script are the
fewest processes that overwrite each other's updates. A second worker beside them is beyond
TLC when any step may fall between a read and a write, and the proofs have any number. *SwrCache*: with
three requests one computes, one waits behind it and a third arrives as either
ends or as the value is evicted, gets stale or too old. *BungieClient*: a slot of
two ticks can be cut by a timer that fires one early, and pauses of two and five
are shorter and longer than what two waiters need. *PlayerCrawl*: two
raids shift each other's page; four ticks put a raid before, during and after a
crawl and behind the buffer; at most one raid is listed without its duration, and none
begins in the last two ticks (`MCBound`), when nothing can be lost any more. *CrawlCycle*: every bucket and the queue can be too
small for who is in it, one player is found by a crawl and one never queued; one
trouble is a stop, an outage, a kill or a failure. *ActiveSessions*: two polls are
an orphan and its successor; one event is a player who leaves, comes, or whose
browser posts; the three ticks pass the stale threshold, the age limit and the
watchdog. *ProfilePage*: one click makes a second check that may overtake the
first or a second fetch; the initial states have a hidden account, and profiles that show
all, all but component 1000, or component 1000 only (`MCShown`), with
and without rows and known teammates; the event is a write of the crawler or of another
visitor, a failed request, maintenance or the expiry of the token. *Snowball*: the second
wave is met by two workers with raids in common, and one raid is not completed
in one of its reports. *RaidReads*: three raids are enough for two that agree in
all but one column and one that differs, or for three completions, which the page's limit of
two cuts; the reports have a player under two membership types and a raid completed only by
an entry that is not stored; the limit of two cuts the ranking.
*GosArchive*: with a row more than workers the cursor is shared, two failures in
a row reach the limit, and a page of one shifts with every raid that is played.

### Fairness and deadlock

The liveness properties of `Scanner`, `CrawlCycle`, `PgcrBackfill`, `SwrCache` and `ProfilePage` assume that the requests of their own component
end, as `AbortSignal.timeout` and the browser are to see to: they say that nothing else
stands still, and are void for a process with a request that hangs. Only the session poll has a
watchdog for that, and `ActiveSessions` keeps the hung requests.

`Scanner!FairSpec`: requests end (`AbortSignal.timeout` in `client.ts`) and
timers fire; no fairness is assumed for the scanner being started, stopped or
killed. `Maintenance!FairSpec`: time passes, a process that is not killed
goes on with its write and its cleanup, and a waiting worker looks again after a second;
`SQLITE_BUSY` for the whole retry window is a failure of the cleanup, so VACUUM
ends either way. `SwrCache!FairSpec`: callbacks run and computations end.
`BungieClient`: time passes and the promise chain runs; nothing is assumed of a fetch,
which may hang for ever: `crawler/index.ts:161` records that requests did so past their own
timeout, and `EveryRequestLeaves` shows that one which does keeps no other from leaving.
`CrawlCycle`: the loop and its requests go on, backoffs and pauses are spans of
time; nothing is assumed about stop, restart or who queues whom.
`PgcrBackfill`: each worker's fetch ends (`Drains` needs it per worker, since the end of the run waits for
all). `ProfilePage`: a request of the browser is answered or fails, and its answer is
handled; nothing is assumed about clicks, raids or the crawler. `ActiveSessions`
and `PlayerCrawl` assume none, since hung requests must not be assumed away and
the clock is bounded. Deadlock is checked except where an instance may have nothing
else to do: the clock's bound (`SwrCache`, `ActiveSessions`, `Snowball` after its
last wave), a stopped crawler (`CrawlCycle`), a page at rest (`ProfilePage`), an
archive that is complete (`GosArchive`).

## 4. Proofs

The theorems hold for every number of ids, keys, workers, requests, processes and every
length of time, from the assumptions on the constants named in each module
(`ScannerAssumption`, `BackwardAssumption`, `SwrAssumption`, `ClientConstants`,
`BackfillConstants`, ...).

*ScannerProofs.* `IInv` joins types, `PassPartition`, `CheckpointBacked`,
`EndedWithCause`, `FatalMeansKeyless` and `VerdictsAreKept`. `CheckpointBacked` is about
`accounted`, which grows when a worker comes to a verdict and not when the position moves:
a batch that ends by itself has a result for every id (`BatchIsComplete`), each a verdict
(`VerdictsAreKept`) unless maintenance or the last key ended it, and then the position
stays; only a stop accounts for ids that nobody took. `PassPartition` is inductive only with the
types of the pass; it is needed to know that the position can move by a whole batch
inside the bound (`BatchIsComplete`). `EndedWithCause` needs `FatalMeansKeyless`: a
worker reports the last key lost only when none is left, and keys do not come back.
`NeverRewinds` is an action property: for the checkpoint by `SaveIsMonotone`, for the
position because jumps are taken only ahead and a batch ends behind its start. It speaks
of a save as one step; that the script may write between the two statements of a save,
and that this repeats work and loses none, is `BackwardScan`'s subject. `LossesAreNamed`
rests on `LossInv`: an id that is waiting to be tried again fits under the cap, because
the missed set is emptied before a retry and refilled only by what the retry leaves
(`MissedFits`, `RetryFits`), and a result that needs no retry is backed by the database
(`ResultsAreResolved`). So an id is dropped only by a set that is full: `FirstFills`, by
an argument on ranks whose least and greatest elements come from the well-founded order
of strict subsets.

*ScriptProofs.* Maintenance: every theorem is about every interleaving of the reads and
writes of the state file, and every kill. `OneCleaner` follows from `LeaseIsHeld` (whoever
is in a cleanup holds the lease). `QuiesceIsOwned` and `GateCoversVacuum` share an
invariant, `GateInv`. Its first part, `SeenStatesKeepGate`, is what makes the exceptions as
narrow as they are: a state about to be written by a process that has seen the present one
raises the gate only for the holder of the lease and never lowers it alone. So a gate that
changes otherwise was changed by an overwriting update (`reverted`) or with `isVacuuming`
(`lowered`). `CleanupGateIsUp` has the gate in the file, or in what the cleanup is about to
write, at each of its places; `EndedGateIsDown` that it is down before the lease is free.

The script's scan: `BackInv` strengthens `OnlyJumpsSkip` by `PositionsCovered`: not only
the frontier but also each position that a process has read and not yet written (the
scanner's between batch and save, the script's probed present) is covered by ids tried
or jumped. With that, a stale write of the checkpoint repeats work and loses none.
For `ClosedInside`, `WalkPassed` says of the ids the walk has behind it that each raid
is stored or failed (`Filled`), and that of as many in a row as misses are allowed one did
not fail (`Spaced`): the failed ones in a row are those at the present position.

*WebServerProofs.* The profile page: `IInv` says of each check what its stage and reply
can be (`CheckOK`), of the server that its rows are of raids that were begun and that an
identity post it took made the teammate known (`ServerOK`), and of the newest check with
a live answer that it only looks up names from then on, while the stored row is of the
same raid or a later one (`LiveOK`, `RowKeeps`). For `PageQueuedOnceUnlessPrivate`,
`QueueOK` has that until the crawl is queued some check is on its way to decide it; for
`PageMembersBecomeKnown`, `NamesOK` has that who has no name is being looked up.
The proof of `PageLiveAnswerIsShown` found an exception that the instance of the run
cannot show: with a third check, an older one's post reaches the server behind the newer
one's, and the newer one then reads the older row again. That is a case of `outdated`, as
is a crawler or a visitor that stores an older raid after the newest check's post; `late`
is an older check that shows its own answer after the newest one's. Whatever is stored or
handled otherwise, the answer stays. `PageRaidRowIsKept` is inductive with the types: each
writer of the row either keeps it or gives the reason it is remembered for.

The cache of the routes: `InflightIsLive` needs `Awaits` and `Owned`: an entry names the
request whose job it is, and a waiter waits for a computation of its own key.
`SingleFlight` is proved from `Flight`: as long as a key had neither a failure nor an
eviction, each of its running computations is the one its inflight entry names, and a
waiter whose computation ended finds a value.

What is read from the tables: `TablesCacheIsTransparent` holds for any raids, people,
manifest and limit. Requests under one key ask for the same rows (`KeysTell`), and a row
depends on the groups and its place but not on the limit (`RowAt`), so what is cut from
the cached rows is what a query with the smaller limit gives (`CutRows`).
`TablesPercentilesAreNearestRank` rests on KDAs compared crosswise being a total
preorder (`WorseIsOrder`, `CrossProducts`), on every row number having a run
(`RowExists`, by sets of runs that are smallest by inclusion), and on the arithmetic of
the ceiling (`NearestRankIs`). `TablesQueriesAgree` goes query by query, over what insertions leave of the reports
(`StoredIsRow`: a raid that somebody completed has a row, though maybe none that is
completed; the count of full clears needs it). `RunsWithIs` adds the rows of a teammate up
over his membership types. Its sums are
those of sizes of sets with nothing in common: `SumOfSizes` says that `SumFunction` then
gives the size of their union, for a finite number of them; that stands in for an
induction over data, since the size of the union is itself a solution of the recursion
and a smallest set on which two solutions differ leads to a contradiction. For the ranks
of the leaderboard the order must be total (`AheadIsOrder`); then each place is taken
(`PlaceExists`), and the rank of a tie is one more than the number of those with more
completions (`RankIsCount`).

*CrawlerProofs.* The client: `ClientImplementsBudget` needs `Ahead`: the slot lies
behind the rest of the last slot and behind every throttle named so far. `PauseCovers`
shows that for a reply, case by case; `FirstLeaves` and `LastJoins` that the queue as a
sequence behaves like the abstract set of waiters. It holds for any number of callers,
any interval and replies, and for timers that fire early, because a caller looks at the
slot again when it wakes.

The crawl of a player: `PlayerLossesAreNamed` says that a raid which the watermark
covers, unstored, was lost for one of the causes the code knows. `PlayerInv` joins the
types; `RaidsOK` (the raids of a character follow one another and are listed within
`Lag`); `CrawlOK` (a crawl under way is no longer than `CrawlTime`, its watermark not
ahead of the player's); and `WalkOK`: of each character whose walk is over without an
error or a cut, and of the one being walked up to its page, every raid that Bungie
listed when the crawl began and that does not end the walk is stored, found or failed.
Pages shift while they are read, always backwards: `Rank` only grows, by raids that are
newer than all the walk has to find, so what is on a page already read was read.
`SuccessKeeps` turns the walk's invariant into the watermark's when the crawl is
recorded, and needs `BufferCoversDelays`. The causes are five: a PGCR that gave an error, the
page limit, a character newer than the cached ids, the backfill, and a raid listed without
its duration. A raid of the last kind does end walks, and then the walk's invariant claims
nothing for it. `PlayerTypeIsOK` includes that the backoff is
a number of the range the code allows, for any count of failures (`BackoffIsNat`).

*CrawlCycleProofs.* `OneCrawlAtATime` follows from `SelectionsArePartitions`: each of
the six queries adds a part that is disjoint from all before it (`PicksKeepsPartition`),
and reordering the parts keeps that (`InOrderIsPartition`); a step then only moves
players out of the list. `CycleBudgetIsUsed`: the three shares and the queue's part add
up to the limit whatever the percentages and their rounding, each query takes as many as
its share and its bucket allow, and the last ones take what hot and warm leave. So the
limit is never exceeded, and a place stays free only if no cold player is left; what a thin
cold bucket or the queue leaves goes to nobody, as in the code. `CycleRowsAreServed` needs that
the queue is a list and that in a cycle not cut short everybody drained is on the list,
with a worker or tried (`ServedInv`). A row goes for a reason that is named, and the drained
player who is enqueued anew when his crawl has begun is one: his new row is deleted by id
with the old one, and nothing serves it. `Without` writes out which row is the n-th that
stays, since `SelectSeq` is recursive and means nothing to the provers.

*ActiveSessionsProofs.* All the tables' changes are judged by polls, so `IInv` says of
each poll what its pieces tell (`PollOK`): who is in the game now is among those the
poll has seen in it, and likewise out of it; an answer "active" names a player who was
in the game since the poll began, together with his party, "inactive" one who was out; a
teammate is asked only about a player found out; a player covered by another's answer
was in; and a row the poll re-verifies was not too old when it began. `GoodStep(k)` is
what poll k may do to the tables with that knowledge: delete a row of who was out or
whose row is too old, write one of who was in, back off who was out, and enqueue the
party of a raid row it deletes. Every action is a good step of a poll, or changes no row
(`SessionsInvariant` and the judgement of each action); the four properties
`SessionsDeletedOnSignal`, `SessionsWrittenOnSignal`, `SessionsLiveRaiderNotBenched` and
`SessionsEndedRaidIsQueued` follow. They hold for any number of players, of overlapping
polls that the watchdog gave up, and of browsers.

*GosArchiveProofs.* `IInv` joins types, `Reconciles`, `Ownership` (a row is in the hands
of at most one worker, and of none while the cursor has not reached it), `Progress` (an
unsettled row of the selection is at the cursor or in a worker's hands, and somebody is
left while the cursor is not at the end), `ClosesIdle` and `OutageIsContained`.
`HeadlineFromArchive` derives from `Reconciles` that the printed count of full clears is
a function of the archived reports alone. `ArchiveImplementsBackfill`: beside the
history crawl the pass behaves as it does alone, so its theorems hold for both.
`ArchivePassCovers` needs `Ahead`: a run that was played before the history pass began
and is not in the table lies behind the crawl's page or in a character that is left, and
activities only move it further back; or it stood behind a page whose body was unreadable
(`hidden`), of which the code knows nothing.

*SnowballProofs.* `GoesTo` reads every action of a worker as one move: it claims only
raids that nobody claimed and has counted only raids it had in hand. Types and
`ClaimedOnce` follow from that together, since what is in hand must be claimed before it
can be disjoint from what another claims. `MembersAreKnown` is inductive once an idle
worker is known to hold nothing; each step moves players between rows, pending upserts,
memory and the recorded failures. `SeenIsCurrent` needs `SeenInv`: what is stored as a
raid's end is 0 or what would be stored now (so storing it again bumps enough), and
whoever of a stored raid has no row is recorded as a stranger to it, hence still is when
the row comes. All three hold for any number of workers, raids, other writers, cleanups,
failures and any reports, those without durations included (`DurationIsNat`).

`SnowballDiscoveryIsComplete` compares the pool with a walk without concurrency, as long
as nothing failed. `HandsOK` says that what is claimed is counted or in hand and that a
raid not yet looked up is not stored by this run, `WalksOK` that nobody's history is
passed over: it is claimed, or a worker still asks for it. `WavesOK` follows the
sequential walk `f`, wave by wave: taken and wave together are what `f` has reached, the
next wave is what it adds. The walk is a function given by its recursion (`IsWalk`);
that there is one of each length (`WalkExists`) is shown by the least length without
one.

Types are proved where a theorem is listed (`SnowballTypes`, `ScannerTypeOK`,
`MaintenanceTypeOK`, `SwrTypeOK`, `ClientTypeOK`, `PlayerTypeIsOK`, `BackfillTypeOK`,
and as part of `SessionsInvariant`), as are `ScannerEndedWithCause`,
`ScannerNeverRewinds` and `BackfillStops`; no run repeats them. The other modules'
`TypeOK` documents the types of their state.

Only model-checked: the liveness properties (`StopIsHonoured`, `WaitEnds`,
`EveryRequestIsAnswered`, `EveryRequestLeaves`, `EveryoneIsCrawled`, `Drains`,
`PageSettles`), since the prover knows neither fairness nor `ENABLED`. Every safety and
action property of the runs is a theorem for all values of the constants that the named
assumptions admit.

## 5. What the models leave out

*Scanner*: statistics, logging and rates. The retry pass takes ids in any order
(the code in insertion order). Storing a raid and upserting its players are one
step, except that the second may fail; `RaidStore` has them apart.

The jump of another process is taken to be ahead of the saved position
(`MovedElsewhere`), though `discover.ts` 97-106 compares nothing; `BackwardScan` has the
other case.

*BackwardScan*: the script ignores the answers' other content.

*Maintenance*: a write of the state file is one rename; processes that
write the shared temporary file at once are left out, and so is a torn file,
which a reader takes for the default state. There is one loop per worker. The
scripts that only toggle the vacuum gate are left out. `maybeRunDowntimeCleanup` reads the
file twice in a row, taken as one read. Updates do get lost: when a pause is recorded on a
state read before the cleanup's end and written after it, `isVacuuming` and the gate are up
with nobody to lower them, and every worker waits for ever, no process having been killed;
`WaitEnds` and `QuiesceIsOwned` name it (`reverted`). With default settings the
pause equals the cleanup delay (300 s each), so a cleanup happens only when a
later report extends the pause. A process killed in the middle of a cleanup
leaves the lease, and with it the gate, for ever. A script
whose `pm2 stop` fails while a worker cleans up lowers `isVacuuming` in its
`finally`; the next report then lowers the gate during VACUUM (`lowered`).

*SwrCache*: values carry their age and no content. Several waiters behind a
failed computation compute at once, hence `SingleFlight` excepts keys in
trouble; a waiter reuses whatever value is left after a failed refresh, however
old.

*BungieClient*: URLs, payloads and what a caller makes of a failure. A rate of 0
or one that is not a number switches the limiter off or lets it spin. A 503 whose
body has ErrorCode 5 is not taken for maintenance
(`isBungieSystemDisabledError`, `maintenance.ts:259`). The budget is a process's: processes that share a key
do not see each other's pauses.

*PlayerCrawl*: one player, pages of a constant size; a cached id list expires at
any time; database errors are left out; raids of one character do not overlap.
The assumption
`BufferCoversDelays` (Bungie's listing lag and the length of a crawl fit in the
recrawl buffer) is needed: without it `LossesAreNamed` fails.

*CrawlCycle*: the crawl of a player is one step with an outcome; whether he is hot,
warm or cold is chosen anew at each selection, since raids of others move him. A
budget of 1 gives the hot bucket nothing. Players without an attempt come first,
so an endless stream of new ones would starve the cold; the instance is finite.
A second enqueue moves a row to the back; the row of a drained player who is enqueued anew
after his crawl has begun goes at the end of the cycle, unserved. Cold budget that is left over does not
go back to hot. A start that races a stop and database errors are left out.

*ActiveSessions*: limits of a poll that do not bite, database errors, snapshots
and the order of items are left out; a party is one fireteam; the instance has
raids only, so the guard that enqueues nothing for other activities
is not exercised. Bungie's party lists normally carry no membership type, in
which case no teammate is probed: both cases are in the model (`Typed`). A
process restart equals a poll whose requests hang. A raid row that
an orbit row or the browser's route replaces ends without being enqueued, and
`EndedRaidIsQueued` excepts rows replaced since their selection. The code also takes a
profile without component 1000 for inactive; here that is a player who hides.

*ProfilePage*: there is one teammate, whose profile shows everything. A hash that is given
in component 1000 while component 204 is withheld counts as a readable 204. What
crawler and visitors write may be of any earlier raid, however old; that the crawler's
polls are bounded in time is not used. The fetched tables, sorting, filters and preferences
are left out; what a fetch
for an older range returns late is displayed under the newer range's title, which is not
modelled. A check that shows its answer late overwrites a newer one, as requests carry no
number: `LiveAnswerIsShown` excepts it. A public player in a raid who withholds component
1000 alone is taken for offline, and his row deleted: `RaidRowIsKept` names it (`blind`). A refresh within 30 s of the last post is
turned down by the cooldown, and the cooldown is recorded even if the post is
refused for maintenance. After 15 minutes the page's token expires and its posts
fail silently. A private player who is offline shows a teammate's stored row
until it expires. The arrival of the queue request is one step with its sending.

*Snowball, RaidStore*: names, snapshots and counters by raid. The cap on a wave is
a `Math.max` and never caps. A failed task drops its results while its raids stay
claimed, and `MembersAreKnown` records who was lost that way, or to a crash between the two
transactions, rather than forbid it; a raid that is stored already does not extend the
discovery. In the run every player may be found, so the clause of `DiscoveryIsComplete`
about less than the limit is the theorem's. An upsert never
sets `last_seen_at` of the row it makes, and nothing sets `is_active` to 1 again.

*RaidReads*: display names, search and session history. The averages of a teammate's runs.
The rows of one teammate under two membership types are two lines on the page, each with its
own count; the property speaks of their sum. Which of the completions that ended together a
limit cuts is left open. A set of raids with a duplicate
counts as full by its length; the ranking over all raids does not ask for a raid
key; a limit above 100
(the route accepts up to 500) gets 100 rows of a cached shape.

*gos10k*: arguments, printed reports and the columns no key or verdict depends on. The rows
of one report are stored in one step, as they are one transaction.

Not modelled at all: the cache warmer (its overlapping passes are more requests
to `SwrCache`), the middleware's counter by address, other routes and pages
(they read), the manifest and other static tables, one-off tools (run by hand on
a quiet database), pm2 itself (its stops and kills are actions of the modules).

## 6. Plan

Done, in order: `Scanner`, `Maintenance`, `SwrCache`, `BackwardScan`,
`PlayerCrawl`, `ActiveSessions`, the gos10k archive, `BungieClient` with `KeyBudget`,
`RaidStore` with `Snowball`, `RaidReads`, `CrawlCycle`, `ProfilePage`.

Next: a torn or half-written state file and writers that share its temporary path;
`lib/active-session/dedupe.ts`, which merges the rows of one fireteam for the list of
active sessions; the warmer's schedule on top of `SwrCache`; `PlayerCrawl` as the
refinement of one player's part of `CrawlCycle`.

Abstract specifications worth stating: a ledger of instance ids that advances by
attempts and deliberate skips only, implemented by `BackwardScan` and by
`Scanner`; a memo cell, implemented by `SwrCache`; the life of a session row,
implemented by `ActiveSessions`.

Theorems next: every safety property of the runs is proved, so what is left is stronger
statements: the ledger implemented by `BackwardScan` and by `Scanner`, the memo cell by
`SwrCache`, the life of a session row by `ActiveSessions` (its `GoodStep` is most of it).
