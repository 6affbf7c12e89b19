---------------------------- MODULE PlayerCrawl ----------------------------
(***************************************************************************)
(* The crawler and one player: the raids the player plays, the crawls that *)
(* page through the history of each character, the coverage watermark that *)
(* lets the next crawl stop early, the backoff after failures, and the     *)
(* player's row in the crawl queue.  A step is what crawlPlayer does       *)
(* between two awaits; the rest of a cycle, other players, is left out.    *)
(***************************************************************************)
EXTENDS Integers, FiniteSets

CONSTANTS
    Raids,
    Chars,              \* the characters the player may have
    PageSize,           \* pageCount
    MaxPages,           \* maxPages
    Buffer,             \* recrawlBufferSeconds
    MaxBackfill,        \* maxBackfillHours
    BackoffBase,        \* FAIL_BACKOFF_BASE_SEC
    BackoffCap,         \* FAIL_BACKOFF_CAP_SEC
    PrivacyBackoff,     \* PRIVACY_BACKOFF_SEC
    MaxFailures,        \* MAX_CONSECUTIVE_FAILURES
    Lag,                \* external: an ended raid is in the history by then
    CrawlTime,          \* external: a crawl takes no longer
    MaxTime             \* bound: the clock stops here

ASSUME CrawlAssumption ==
    /\ "none" \notin Chars
    /\ IsFiniteSet(Raids)
    /\ PageSize \in Nat \ {0} /\ MaxPages \in Nat \ {0} /\ MaxFailures \in Nat \ {0}
    /\ Buffer \in Nat /\ MaxBackfill \in Nat
    /\ BackoffBase \in Nat \ {0} /\ BackoffCap \in Nat \ {0} /\ PrivacyBackoff \in Nat \ {0}
    /\ Lag \in Nat /\ CrawlTime \in Nat /\ MaxTime \in Nat \ {0}

\* The default buffer of 30 minutes is there to cover both.
ASSUME BufferCoversDelays == Lag + CrawlTime <= Buffer

VARIABLES
    now,       \* the clock, from 1: 0 stands for NULL and for "never"
    raid,      \* each raid: its character, start (period), end, in the history?
               \* with a duration?
    chars,     \* the characters the player has
    stored,    \* the raids whose PGCR is in the database
    player,    \* the player's row, without the cached ids
    ids,       \* character_ids of that row
    queued,    \* is the player in crawl_queue?
    cycle,     \* where the crawl cycle is with this player
    crawl      \* the local state of crawlPlayer

playerVars == <<now, raid, chars, stored, player, ids, queued, cycle, crawl>>

RaidRecord ==
    [char : Chars \cup {"none"}, start : Nat, end : Nat, listed : BOOLEAN, timed : BOOLEAN]

PlayerRow ==
    [lastCrawled : Nat, failures : Nat, eligible : Nat, active : BOOLEAN]

\* "selected": in allTasks; "profile", "walk", "refresh" and "pgcrs": in
\* crawlPlayer; "over": this task has ended, others of the cycle may not have.
Cycle == {"idle", "selected", "profile", "walk", "refresh", "pgcrs", "over"}
Crawling == {"profile", "walk", "refresh", "pgcrs"}

CrawlState ==
    [drained   : BOOLEAN,            \* the task comes from the queue
     watermark : Nat,                \* player.lastCrawledAt
     begun     : Nat,
     fromCache : BOOLEAN,
     todo      : SUBSET Chars,       \* characters to walk
     done      : SUBSET Chars,       \* processedCharIds
     at        : Chars \cup {"none"},\* the character being walked
     page      : Nat,
     found     : SUBSET Raids,       \* uniqueInstanceIds still to be fetched
     hadError  : BOOLEAN,
     refresh   : BOOLEAN,            \* needsCharIdRefresh
     failed    : SUBSET Raids,       \* history: PGCRs that gave null on an error
     cut       : SUBSET Chars]       \* history: walks that ended at maxPages

NoCrawl ==
    [drained |-> FALSE, watermark |-> 0, begun |-> 0, fromCache |-> FALSE,
     todo |-> {}, done |-> {}, at |-> "none", page |-> 0, found |-> {},
     hadError |-> FALSE, refresh |-> FALSE, failed |-> {}, cut |-> {}]

PlayerInit ==
    /\ now = 1
    /\ raid = [r \in Raids |-> [char |-> "none", start |-> 0, end |-> 0, listed |-> FALSE,
                               timed |-> FALSE]]
    /\ \E c \in Chars : chars = {c}
    /\ stored = {}
    /\ player = [lastCrawled |-> 0, failures |-> 0, eligible |-> 0, active |-> TRUE]
    /\ ids = {} /\ queued = FALSE
    /\ cycle = "idle" /\ crawl = NoCrawl

(***************************************************************************)
(* The player and Bungie's history.                                        *)
(***************************************************************************)

Played(r) == raid[r].start # 0
Ended(r)  == raid[r].end # 0

\* A character is in one raid at a time.
Begin(r, c) ==
    /\ ~Played(r) /\ c \in chars
    /\ \A q \in Raids : Played(q) /\ raid[q].char = c => Ended(q) /\ raid[q].end < now
    /\ raid' = [raid EXCEPT ![r].char = c, ![r].start = now]
    /\ UNCHANGED <<now, chars, stored, player, ids, queued, cycle, crawl>>

End(r) ==
    /\ Played(r) /\ ~Ended(r)
    /\ raid' = [raid EXCEPT ![r].end = now]
    /\ UNCHANGED <<now, chars, stored, player, ids, queued, cycle, crawl>>

\* An entry of the history may come without its duration.
Listed(r) ==
    /\ Ended(r) /\ ~raid[r].listed
    /\ \E timed \in BOOLEAN :
         raid' = [raid EXCEPT ![r].listed = TRUE, ![r].timed = timed]
    /\ UNCHANGED <<now, chars, stored, player, ids, queued, cycle, crawl>>

CreateCharacter(c) ==
    /\ chars' = chars \cup {c}
    /\ UNCHANGED <<now, raid, stored, player, ids, queued, cycle, crawl>>

\* The scanner, or the crawl of another player of the raid.
StoredElsewhere(r) ==
    /\ Ended(r)
    /\ stored' = stored \cup {r}
    /\ UNCHANGED <<now, raid, chars, player, ids, queued, cycle, crawl>>

\* The history of a character is listed newest first, PageSize to a page.
History(c) == {r \in Raids : raid[r].listed /\ raid[r].char = c}
Rank(r) == Cardinality({q \in History(raid[r].char) : raid[q].start > raid[r].start})
Page(c, n) ==
    {r \in History(c) : n * PageSize <= Rank(r) /\ Rank(r) < (n + 1) * PageSize}

(***************************************************************************)
(* recordCrawlOutcome.                                                     *)
(***************************************************************************)

BackoffTime ==
    LET shift == IF player.failures < 20 THEN player.failures ELSE 20
        wait  == BackoffBase * 2 ^ shift
    IN  IF wait < BackoffCap THEN wait ELSE BackoffCap

Succeeded ==
    [player EXCEPT !.lastCrawled = now, !.failures = 0, !.eligible = 0]

Transient ==
    [player EXCEPT !.failures = @ + 1, !.eligible = now + BackoffTime,
                   !.active = @ /\ player.failures + 1 < MaxFailures]

Private == [player EXCEPT !.eligible = now + PrivacyBackoff]

NotFound == [player EXCEPT !.active = FALSE]

BackingOff == player.eligible > now

(***************************************************************************)
(* The queue and the cycle.                                                *)
(***************************************************************************)

\* A profile view or the end of a session.
Enqueue ==
    /\ queued' = TRUE
    /\ UNCHANGED <<now, raid, chars, stored, player, ids, cycle, crawl>>

\* drainCrawlQueue, then the buckets; both have a limit, so the player may be
\* left out.  A row of the queue carries no watermark.
BeginCycle ==
    /\ cycle = "idle" /\ ~BackingOff
    /\ \/ /\ queued
          /\ crawl' = [NoCrawl EXCEPT !.drained = TRUE]
       \/ /\ player.active
          /\ crawl' = [NoCrawl EXCEPT !.watermark = player.lastCrawled]
    /\ cycle' = "selected"
    /\ UNCHANGED <<now, raid, chars, stored, player, ids, queued>>

\* The row of a player who is backing off.
DropQueued ==
    /\ cycle = "idle" /\ queued /\ BackingOff
    /\ queued' = FALSE
    /\ UNCHANGED <<now, raid, chars, stored, player, ids, cycle, crawl>>

\* The crawler is stopping, or another task has met Bungie's maintenance.
Skip ==
    /\ cycle = "selected" /\ cycle' = "over"
    /\ UNCHANGED <<now, raid, chars, stored, player, ids, queued, crawl>>

\* deleteCrawlQueueRows, once every task of the cycle has ended.
EndCycle ==
    /\ cycle = "over" /\ cycle' = "idle"
    /\ queued' = (queued /\ ~crawl.drained)
    /\ crawl' = NoCrawl
    /\ UNCHANGED <<now, raid, chars, stored, player, ids>>

\* The process ends, or is killed, and another is started.
Restart ==
    /\ cycle # "idle" /\ cycle' = "idle"
    /\ crawl' = NoCrawl
    /\ UNCHANGED <<now, raid, chars, stored, player, ids, queued>>

(***************************************************************************)
(* crawlPlayer.                                                            *)
(***************************************************************************)

\* getCharacterIdsCached: the cache is used unless it is empty or too old.
StartCrawl ==
    /\ cycle = "selected"
    /\ \/ /\ ids # {} /\ cycle' = "walk"
          /\ crawl' = [crawl EXCEPT !.begun = now, !.fromCache = TRUE, !.todo = ids]
       \/ /\ cycle' = "profile"
          /\ crawl' = [crawl EXCEPT !.begun = now]
    /\ UNCHANGED <<now, raid, chars, stored, player, ids, queued>>

\* crawlPlayer returns or throws: its local state is gone.
Returns ==
    /\ cycle' = "over"
    /\ crawl' = [NoCrawl EXCEPT !.drained = crawl.drained]

\* The crawl ends with an outcome.
Ends(row) ==
    /\ Returns
    /\ player' = row
    /\ UNCHANGED <<now, raid, chars, stored, ids, queued>>

\* fetchAndCacheCharacterIds.
ProfileAnswers ==
    /\ cycle = "profile"
    /\ ids' = chars /\ cycle' = "walk"
    /\ crawl' = [crawl EXCEPT !.todo = chars]
    /\ UNCHANGED <<now, raid, chars, stored, player, queued>>

\* An error gives no ids, which is a failure like a player without characters.
ProfileFails ==
    /\ cycle = "profile"
    /\ Ends(Transient) \/ Ends(Private) \/ Ends(NotFound)

\* Bungie's maintenance goes up to the cycle without an outcome.
SystemDisabled ==
    /\ cycle \in Crawling
    /\ Returns
    /\ UNCHANGED <<now, raid, chars, stored, player, ids, queued>>

OldestWanted == crawl.begun - MaxBackfill
CoveredCutoff == crawl.watermark - Buffer

\* What the walk takes for the end of a raid: a missing duration counts as 0.
EndedAt(r) == IF raid[r].timed THEN raid[r].end ELSE raid[r].start

CoveredUnbuffered(r) ==   \* mutant: the buffer is not subtracted
    crawl.watermark > 0 /\ EndedAt(r) < crawl.watermark

\* Ended before the last successful crawl, minus the buffer.
Covered(r) ==
    /\ crawl.watermark > 0 /\ CoveredCutoff > 0
    /\ EndedAt(r) < CoveredCutoff

Stops(r) == raid[r].start < OldestWanted \/ Covered(r)

\* The raids of a page before the first that stops the walk.
Collected(P) ==
    {r \in P : \A q \in P : raid[q].start >= raid[r].start => ~Stops(q)}

\* The walk of a character ends with this page.
IsLast(P) ==
    \/ \E r \in P : Stops(r)
    \/ Cardinality(P) < PageSize
    \/ crawl.page + 1 >= MaxPages

\* The page limit ends it, and nothing else does.
CutShort(P) == (\A r \in P : ~Stops(r)) /\ Cardinality(P) = PageSize

MayWalk(c) ==
    cycle = "walk" /\ c \in crawl.todo /\ crawl.at \in {"none", c}

WalkPage(c) ==
    LET P == Page(c, crawl.page) IN
    /\ MayWalk(c)
    /\ crawl' =
         IF IsLast(P)
         THEN [crawl EXCEPT !.found = @ \cup Collected(P), !.at = "none", !.page = 0,
                            !.todo = @ \ {c}, !.done = @ \cup {c},
                            !.cut = IF CutShort(P) THEN @ \cup {c} ELSE @]
         ELSE [crawl EXCEPT !.found = @ \cup Collected(P), !.at = c, !.page = @ + 1]
    /\ UNCHANGED <<now, raid, chars, stored, player, ids, queued, cycle>>

\* A page fails: what came before is kept, the walk goes on with the next
\* character.
WalkFails(c) ==
    /\ MayWalk(c)
    /\ crawl' = [crawl EXCEPT !.at = "none", !.page = 0,
                              !.todo = @ \ {c}, !.done = @ \cup {c},
                              !.hadError = TRUE, !.refresh = @ \/ crawl.fromCache]
    /\ UNCHANGED <<now, raid, chars, stored, player, ids, queued, cycle>>

\* A private history, or an account that is gone, ends the crawl; nothing of
\* what was found is fetched.
WalkRefused(c) ==
    /\ MayWalk(c)
    /\ Ends(Private) \/ Ends(NotFound)

\* The walks are over: once, after an error on cached ids, the ids are fetched
\* again.
EndWalk ==
    /\ cycle = "walk" /\ crawl.todo = {}
    /\ cycle' = IF crawl.refresh THEN "refresh" ELSE "pgcrs"
    /\ UNCHANGED <<now, raid, chars, stored, player, ids, queued, crawl>>

RefreshAnswers ==
    /\ cycle = "refresh" /\ cycle' = "walk"
    /\ ids' = chars
    /\ crawl' = [crawl EXCEPT !.todo = chars \ crawl.done, !.refresh = FALSE,
                              !.fromCache = FALSE]
    /\ UNCHANGED <<now, raid, chars, stored, player, queued>>

RefreshFails ==
    /\ cycle = "refresh" /\ cycle' = "pgcrs"
    /\ UNCHANGED <<now, raid, chars, stored, player, ids, queued, crawl>>

\* fetchAndStorePGCR: there already, fetched and stored, or null on an error.
FetchPGCR(r) ==
    /\ cycle = "pgcrs" /\ r \in crawl.found
    /\ \/ /\ stored' = stored \cup {r}
          /\ crawl' = [crawl EXCEPT !.found = @ \ {r}]
       \/ /\ r \notin stored
          /\ crawl' = [crawl EXCEPT !.found = @ \ {r}, !.failed = @ \cup {r}]
          /\ UNCHANGED stored
    /\ UNCHANGED <<now, raid, chars, player, ids, queued, cycle>>

EndCrawl ==
    /\ cycle = "pgcrs" /\ crawl.found = {}
    /\ Ends(IF crawl.hadError THEN Transient ELSE Succeeded)

(***************************************************************************)
(* The specification.                                                      *)
(***************************************************************************)

\* Bungie lists an ended raid within Lag, a crawl ends within CrawlTime.
PlayerTick ==
    /\ now < MaxTime /\ now' = now + 1
    /\ \A r \in Raids : Ended(r) /\ ~raid[r].listed => now - raid[r].end < Lag
    /\ cycle \in Crawling => now - crawl.begun < CrawlTime
    /\ UNCHANGED <<raid, chars, stored, player, ids, queued, cycle, crawl>>

CrawlStep ==
    \/ StartCrawl \/ ProfileAnswers \/ ProfileFails \/ SystemDisabled
    \/ \E c \in Chars : WalkPage(c) \/ WalkFails(c) \/ WalkRefused(c)
    \/ EndWalk \/ RefreshAnswers \/ RefreshFails
    \/ \E r \in Raids : FetchPGCR(r)
    \/ EndCrawl

CycleStep == BeginCycle \/ DropQueued \/ Skip \/ CrawlStep \/ EndCycle

Environment ==
    \/ PlayerTick \/ Enqueue \/ Restart
    \/ \E r \in Raids : End(r) \/ Listed(r) \/ StoredElsewhere(r)
    \/ \E c \in Chars : CreateCharacter(c) \/ \E r \in Raids : Begin(r, c)

PlayerNext == CycleStep \/ Environment

PlayerSpec == PlayerInit /\ [][PlayerNext]_playerVars

(***************************************************************************)
(* Properties.                                                             *)
(***************************************************************************)

PlayerTypeOK ==
    /\ now \in 1 .. MaxTime
    /\ raid \in [Raids -> RaidRecord]
    /\ chars \subseteq Chars /\ ids \subseteq chars /\ stored \subseteq Raids
    /\ player \in PlayerRow /\ player.lastCrawled <= now
    /\ queued \in BOOLEAN /\ cycle \in Cycle
    /\ crawl \in CrawlState
    /\ crawl.page < MaxPages

\* The raids every later crawl takes for covered that are not in the database:
\* only the scanner or another player's crawl can still find them.
Lost ==
    {r \in Raids \ stored : Ended(r) /\ raid[r].end < player.lastCrawled - Buffer}

\* Why a crawl may end in success and put a raid behind the watermark that is
\* not stored: its PGCR gave an error, the page limit hid it, its character is
\* newer than the cached ids, it is older than the backfill, or it was listed
\* without its duration, so that its start stood for its end.
LossCause(r) ==
    \/ r \in crawl.failed
    \/ raid[r].char \in crawl.cut
    \/ raid[r].char \notin crawl.done
    \/ raid[r].start < OldestWanted
    \/ ~raid[r].timed /\ Covered(r)

\* Nothing else is lost: not a raid that was in progress or not yet listed when
\* the history was read (unless it came without its duration), not one that
\* moved to a later page meanwhile, not one of a crawl that met an error, was
\* refused, interrupted by maintenance, or killed.
LossesAreNamed == [][\A r \in Lost' \ Lost : LossCause(r)]_playerVars
=============================================================================
