----------------------------- MODULE RaidStore -----------------------------
(***************************************************************************)
(* The tables pgcrs, pgcr_players and players, and those who write them:   *)
(* any process that stores a raid and then, in another transaction, the    *)
(* players of it; the cleanup loop that deletes old raids batch by batch.  *)
(* The rows of pgcr_players come and go with their raid in a transaction,  *)
(* so they are the entries of the report of a stored raid.                 *)
(***************************************************************************)
EXTENDS Integers, FiniteSets, Functions, FiniteSetsExt

CONSTANTS
    Players,
    Raids,              \* instance ids
    Reports,            \* Reports[r]: what the PGCR endpoint may say of raid r
    Invalid,            \* the players with a membership type outside 1, 2, 3, 5, 6
    Seeded,             \* the players known at the start
    Skew,               \* FUTURE_ENDED_SKEW_SECONDS
    MaxAge,             \* cleanupMaxAgeHours
    BatchSize,          \* cleanupBatchSize
    FirstTime, MaxTime  \* the clock starts and, a bound, stops here

\* An entry of a report; a span is startSeconds + timePlayedSeconds, 0 where the
\* player has no time played.
Entry == [done : BOOLEAN, span : Nat, kills : Nat, deaths : Nat, assists : Nat,
          class : STRING]

IsReport(x) ==
    /\ DOMAIN x = {"key", "period", "length", "fresh", "tier", "entries"}
    /\ x.period \in Nat \ {0} /\ x.length \in Nat
    /\ x.fresh \in BOOLEAN /\ x.tier \in Int
    /\ DOMAIN x.entries \subseteq Players
    /\ \A p \in DOMAIN x.entries : x.entries[p] \in Entry

ASSUME StoreAssumption ==
    /\ IsFiniteSet(Players) /\ IsFiniteSet(Raids)
    /\ \A r \in Raids : \A x \in Reports[r] : IsReport(x)
    /\ Invalid \subseteq Players /\ Seeded \subseteq Players \ Invalid
    /\ Skew \in Nat /\ MaxAge \in Nat /\ BatchSize \in Nat \ {0}
    /\ FirstTime \in Nat \ {0} /\ MaxTime \in Nat /\ FirstTime <= MaxTime

VARIABLES
    now,
    report,     \* external: what Bungie says of each raid
    pgcrs,      \* the stored raids, each with its ended_at, 0 for NULL
    players,    \* the players with a row
    seen,       \* last_seen_at, 0 for NULL
    pending,    \* the players other processes have yet to upsert
    cutoff,     \* the cleanup in progress deletes what began before; 0 when none
    orphans,    \* history: players whose upsert was lost with a process or a task
    strangers   \* history: <<raid, player>> stored while the player had no row

storeVars == <<now, report, pgcrs, players, seen, pending, cutoff, orphans, strangers>>

Stored == DOMAIN pgcrs
Party(r) == DOMAIN report[r].entries

\* processPGCR: a raid is completed when any entry is.
Completed(r) == \E p \in Party(r) : report[r].entries[p].done

StoreInit ==
    /\ now = FirstTime
    /\ report \in {f \in [Raids -> UNION {Reports[r] : r \in Raids}] : \A r \in Raids : f[r] \in Reports[r]}
    /\ pgcrs = [r \in {} |-> 0]
    /\ players = Seeded
    /\ seen = [p \in Players |-> 0]
    /\ pending = {} /\ cutoff = 0
    /\ orphans = {} /\ strangers = {}

(***************************************************************************)
(* insertFullPGCR.                                                         *)
(***************************************************************************)

\* computeActivityDurationSeconds: Bungie's, or the longest span, or none (0).
DurationOf(x) ==
    IF x.length > 0 THEN x.length
    ELSE Max({x.entries[p].span : p \in DOMAIN x.entries} \cup {0})

\* An end too far in the future is not believed.
EndedAt(r) ==
    LET ended == report[r].period + DurationOf(report[r])
    IN  IF DurationOf(report[r]) = 0 \/ ended > now + Skew THEN 0 ELSE ended

SeenOverwritten(r) ==   \* mutant: the last raid stored wins
    [p \in Players |->
       IF p \in Party(r) \cap players /\ EndedAt(r) # 0 THEN EndedAt(r) ELSE seen[p]]

\* The bump reaches only players with a row.
SeenAfter(r) ==
    [p \in Players |->
       IF p \in Party(r) \cap players /\ EndedAt(r) > seen[p] THEN EndedAt(r) ELSE seen[p]]

\* One transaction.  A raid that is there stays as it is, but the bump is done.
InsertFullPGCR(r) ==
    /\ pgcrs' = IF r \in Stored THEN pgcrs
                ELSE [q \in Stored \cup {r} |-> IF q = r THEN EndedAt(r) ELSE pgcrs[q]]
    /\ seen' = SeenAfter(r)
    /\ strangers' = {s \in strangers : s[1] # r} \cup ({r} \X (Party(r) \ players))

(***************************************************************************)
(* bulkUpsertPlayers: rows with an invalid membership type are skipped.    *)
(***************************************************************************)

UpsertedOrNone(S) ==   \* mutant: one invalid row aborts the transaction
    IF S \cap Invalid = {} THEN players \cup S ELSE players

Upserted(S) == players \cup (S \ Invalid)

(***************************************************************************)
(* The other writers: scanner, crawler and discovery script.               *)
(***************************************************************************)

\* The raid was not stored when the process looked, before its request.
OtherStores(r) ==
    /\ InsertFullPGCR(r)
    /\ pending' = pending \cup Party(r)
    /\ UNCHANGED <<now, report, players, cutoff, orphans>>

OtherUpserts ==
    /\ pending # {}
    /\ players' = Upserted(pending)
    /\ pending' = {}
    /\ UNCHANGED <<now, report, pgcrs, seen, cutoff, orphans, strangers>>

\* Between the two transactions.
OtherCrashes ==
    /\ pending # {}
    /\ pending' = {}
    /\ orphans' = orphans \cup (pending \ players)
    /\ UNCHANGED <<now, report, pgcrs, players, seen, cutoff, strangers>>

(***************************************************************************)
(* cleanupLoop and deleteExpiredPGCRBatch.                                 *)
(***************************************************************************)

Expired == {r \in Stored : report[r].period < cutoff}

BeginCleanup ==
    /\ cutoff = 0 /\ now > MaxAge
    /\ cutoff' = now - MaxAge
    /\ UNCHANGED <<now, report, pgcrs, players, seen, pending, orphans, strangers>>

\* The loop ends with a batch that is not full; the process may also stop
\* between two batches.
DeleteBatch ==
    /\ cutoff # 0
    /\ \E B \in SUBSET Expired :
         /\ Cardinality(B) = Min({BatchSize, Cardinality(Expired)})
         /\ pgcrs' = Restrict(pgcrs, Stored \ B)
         /\ strangers' = {s \in strangers : s[1] \notin B}
         /\ cutoff' \in IF Cardinality(B) < BatchSize THEN {0} ELSE {cutoff, 0}
    /\ UNCHANGED <<now, report, players, seen, pending, orphans>>

Tick ==
    /\ now < MaxTime /\ now' = now + 1
    /\ UNCHANGED <<report, pgcrs, players, seen, pending, cutoff, orphans, strangers>>

StoreNext ==
    \/ \E r \in Raids : OtherStores(r)
    \/ OtherUpserts \/ OtherCrashes \/ BeginCleanup \/ DeleteBatch \/ Tick

(***************************************************************************)
(* Properties of the tables.                                               *)
(***************************************************************************)

StoreTypeOK ==
    /\ now \in FirstTime .. MaxTime
    /\ Stored \subseteq Raids
    /\ \A r \in Raids : report[r] \in Reports[r]
    /\ \A r \in Stored : pgcrs[r] \in Nat
    /\ players \subseteq Players \ Invalid /\ Seeded \subseteq players
    /\ seen \in [Players -> Nat] /\ \A p \in Players \ players : seen[p] = 0
    /\ pending \subseteq Players /\ orphans \subseteq Players
    /\ strangers \subseteq Raids \X Players
    /\ cutoff \in Nat

\* insertFullPGCR keeps players.last_seen_at, which the crawl buckets and the
\* session poll read instead of the raids: whatever the order raids are stored
\* in, it is not older than any stored raid of the player that was stored, or
\* stored again, when the player had a row, and it never lies in the future by
\* more than the skew, whatever durations Bungie reports.
SeenIsCurrent ==
    \A p \in players :
      /\ seen[p] <= now + Skew
      /\ \A r \in Stored :
           p \in Party(r) /\ <<r, p>> \notin strangers => seen[p] >= pgcrs[r]
=============================================================================
