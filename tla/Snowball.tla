----------------------------- MODULE Snowball ------------------------------
(***************************************************************************)
(* runConcurrentDiscovery: wave after wave, a pool of workers walks the    *)
(* recent raids of the players of the wave, stores those the database does *)
(* not have, and collects the players met for the next wave.  The scanner, *)
(* the crawler and the cleanup of RaidStore go on meanwhile.  A step is    *)
(* what a worker does between two awaits.                                  *)
(***************************************************************************)
EXTENDS RaidStore, Sequences

CONSTANTS
    Seeds,              \* seedPlayers
    History,            \* History[p]: recent raids, a set for each character of p
    Workers,            \* concurrency
    MaxDepth,           \* maxDepth
    MaxFound,           \* maxPlayers
    MaxTroubles         \* bound: failures of requests, and stores by others

ASSUME SnowballAssumption ==
    /\ Seeds \subseteq Players
    /\ History \in [Players -> Seq(SUBSET Raids)]
    /\ IsFiniteSet(Workers) /\ Workers # {}
    /\ "none" \notin Players \cup Raids
    /\ MaxDepth \in Nat \ {0} /\ MaxFound \in Nat \ {0} /\ MaxTroubles \in Nat

VARIABLES
    phase,      \* "wave", "over" once the last wave is, "done", "crashed"
    depth,
    wave,       \* the players of the wave no worker has taken yet
    next,       \* nextWave
    found,      \* the keys of allPlayers
    completions,\* completions of allPlayers, 0 for the others
    taken,      \* processedPlayerIds
    claimed,    \* processedPGCRs
    counted,    \* the raids in totalNewPGCRs
    worker,     \* where each worker is
    troubles    \* history: what went wrong so far

runVars == <<phase, depth, wave, next, found, completions, taken, claimed, counted, worker, troubles>>
vars == <<storeVars, runVars>>

\* "characters" and "history": a request is on its way; "fetch": the raids in
\* todo are looked up one after the other, raid is the one requested.
WorkerState ==
    [stage : {"idle", "characters", "history", "fetch", "request"},
     player : Players \cup {"none"}, char : Nat, todo : SUBSET Raids,
     raid : Raids \cup {"none"},
     got : SUBSET Raids]                 \* the raids fetchAndStorePGCR returned

Idle == [stage |-> "idle", player |-> "none", char |-> 0, todo |-> {}, raid |-> "none",
         got |-> {}]

Init ==
    /\ StoreInit
    /\ phase = "wave" /\ depth = 0
    /\ wave = Seeds /\ next = {} /\ found = {}
    /\ completions = [p \in Players |-> 0]
    /\ taken = {} /\ claimed = {}
    /\ counted = {}
    /\ worker = [w \in Workers |-> Idle]
    /\ troubles = 0

(***************************************************************************)
(* A worker and its player: processWithConcurrency and processPlayer.      *)
(***************************************************************************)

Running == phase = "wave"
Trouble == troubles < MaxTroubles /\ troubles' = troubles + 1

RunUnchanged == UNCHANGED <<phase, depth, next, found, completions, counted>>

\* The wave was filtered when it began.
Take(w, p) ==
    /\ Running /\ worker[w] = Idle /\ p \in wave
    /\ wave' = wave \ {p} /\ taken' = taken \cup {p}
    /\ worker' = [worker EXCEPT ![w].stage = "characters", ![w].player = p, ![w].char = 1]
    /\ RunUnchanged /\ UNCHANGED <<storeVars, claimed, troubles>>

Characters(w) == Len(History[worker[w].player])

GotCharacters(w) ==
    /\ Running /\ worker[w].stage = "characters"
    /\ worker' = [worker EXCEPT ![w].stage = IF Characters(w) = 0 THEN "fetch" ELSE "history"]
    /\ RunUnchanged /\ UNCHANGED <<storeVars, wave, taken, claimed, troubles>>

ClaimNothing(S) == claimed   \* mutant: a raid is claimed by whoever finds it

Claim(S) == claimed \cup S

\* The raids of a character, claimed as the answer is read.
GotHistory(w) ==
    LET char  == worker[w].char
        fresh == History[worker[w].player][char] \ claimed
    IN  /\ Running /\ worker[w].stage = "history"
        /\ claimed' = Claim(fresh)
        /\ worker' = [worker EXCEPT ![w].todo = @ \cup fresh, ![w].char = @ + 1,
                                    ![w].stage = IF char = Characters(w) THEN "fetch" ELSE @]
        /\ RunUnchanged /\ UNCHANGED <<storeVars, wave, taken, troubles>>

\* An error gives no raids; a private history ends the walk of the characters.
LostHistory(w) ==
    /\ Running /\ worker[w].stage = "history" /\ Trouble
    /\ \/ worker' = [worker EXCEPT ![w].stage = "fetch"]
       \/ worker' = [worker EXCEPT ![w].char = @ + 1,
                       ![w].stage = IF worker[w].char = Characters(w) THEN "fetch" ELSE @]
    /\ RunUnchanged /\ UNCHANGED <<storeVars, wave, taken, claimed>>

\* fetchAndStorePGCR: nothing to do for a raid that is stored.
LookUp(w, r) ==
    /\ Running /\ worker[w].stage = "fetch" /\ r \in worker[w].todo
    /\ worker' = [worker EXCEPT ![w].todo = @ \ {r},
                                ![w].stage = IF r \in Stored THEN @ ELSE "request",
                                ![w].raid = IF r \in Stored THEN @ ELSE r]
    /\ RunUnchanged /\ UNCHANGED <<storeVars, wave, taken, claimed, troubles>>

\* The raid counts as new whoever stored it first.
Answered(w) ==
    LET r == worker[w].raid IN
    /\ Running /\ worker[w].stage = "request"
    /\ InsertFullPGCR(r)
    /\ worker' = [worker EXCEPT ![w].stage = "fetch", ![w].raid = "none",
                                ![w].got = @ \cup {r}]
    /\ RunUnchanged
    /\ UNCHANGED <<now, report, players, pending, cutoff, orphans, wave, taken, claimed, troubles>>

RequestFails(w) ==
    /\ Running /\ worker[w].stage = "request" /\ Trouble
    /\ worker' = [worker EXCEPT ![w].stage = "fetch", ![w].raid = "none"]
    /\ RunUnchanged /\ UNCHANGED <<storeVars, wave, taken, claimed>>

Met(got) == UNION {Party(r) : r \in got}

\* Bungie's maintenance goes up through the task: its result is dropped.
TaskFails(w) ==
    /\ Running /\ worker[w] # Idle /\ worker[w].stage # "fetch" /\ Trouble
    /\ worker' = [worker EXCEPT ![w] = Idle]
    /\ orphans' = orphans \cup (Met(worker[w].got) \ players)
    /\ RunUnchanged
    /\ UNCHANGED <<now, report, pgcrs, players, seen, pending, cutoff, strangers, wave, taken, claimed>>

(***************************************************************************)
(* onResult.                                                               *)
(***************************************************************************)

With(got, p) == {r \in got : p \in Party(r)}
Clears(got, p) == {r \in With(got, p) : Completed(r)}

\* playerCompletions[p] is added once for every time p occurs in the
\* discoveredPlayers of the task.
Added(got, p) == Cardinality(With(got, p)) * Cardinality(Clears(got, p))

TaskEnds(w) ==
    LET got == worker[w].got IN
    /\ Running /\ worker[w].stage = "fetch" /\ worker[w].todo = {}
    /\ counted' = counted \cup got
    /\ found' = found \cup Met(got)
    /\ next' = next \cup (Met(got) \ found)
    /\ completions' = [p \in Players |-> completions[p] + Added(got, p)]
    /\ worker' = [worker EXCEPT ![w] = Idle]
    /\ UNCHANGED <<storeVars, phase, depth, wave, taken, claimed, troubles>>

(***************************************************************************)
(* The waves.                                                              *)
(***************************************************************************)

LastWaveEarly ==   \* mutant: one wave too few
    depth + 2 >= MaxDepth \/ next = {} \/ Cardinality(found) >= MaxFound

LastWave == depth + 1 = MaxDepth \/ next = {} \/ Cardinality(found) >= MaxFound

\* The players of the wave are upserted, the next wave is filtered; the cap on
\* the wave, slice(0, max(remaining, length)), cuts nothing.
EndWave ==
    /\ Running /\ wave = {} /\ \A w \in Workers : worker[w] = Idle
    /\ players' = Upserted(next)
    /\ depth' = depth + 1
    /\ wave' = next \ taken
    /\ next' = {}
    /\ phase' = IF LastWave THEN "over" ELSE phase
    /\ UNCHANGED <<now, report, pgcrs, seen, pending, cutoff, orphans, strangers>>
    /\ UNCHANGED <<found, completions, taken, claimed, counted, worker, troubles>>

\* The last upsert, of all players.
Finish ==
    /\ phase = "over" /\ phase' = "done"
    /\ players' = Upserted(found)
    /\ UNCHANGED <<now, report, pgcrs, seen, pending, cutoff, orphans, strangers>>
    /\ UNCHANGED <<depth, wave, next, found, completions, taken, claimed, counted, worker, troubles>>

\* What the workers and the maps held is gone; the raids stay stored.
Crash ==
    /\ phase \in {"wave", "over"} /\ Trouble
    /\ phase' = "crashed"
    /\ orphans' = orphans \cup ((found \cup UNION {Met(worker[w].got) : w \in Workers}) \ players)
    /\ worker' = [w \in Workers |-> Idle]
    /\ wave' = {} /\ next' = {}
    /\ UNCHANGED <<now, report, pgcrs, players, seen, pending, cutoff, strangers>>
    /\ UNCHANGED <<depth, found, completions, taken, claimed, counted>>

(***************************************************************************)
(* The specification.                                                      *)
(***************************************************************************)

WorkerStep(w) ==
    \/ \E p \in Players : Take(w, p)
    \/ GotCharacters(w) \/ GotHistory(w) \/ Answered(w) \/ TaskEnds(w)
    \/ \E r \in Raids : LookUp(w, r)

Failures ==
    \/ \E w \in Workers : LostHistory(w) \/ RequestFails(w) \/ TaskFails(w)
    \/ Crash

RunStep == (\E w \in Workers : WorkerStep(w)) \/ EndWave \/ Finish

\* What the others store is bounded like the failures.
OthersStep ==
    \/ \E r \in Raids : OtherStores(r) /\ Trouble
    \/ (OtherUpserts \/ OtherCrashes \/ BeginCleanup \/ DeleteBatch \/ Tick) /\ UNCHANGED troubles

Others ==
    /\ OthersStep
    /\ UNCHANGED <<phase, depth, wave, next, found, completions, taken, claimed, counted, worker>>

Next == RunStep \/ Failures \/ Others

\* The requests have timeouts, and the event loop runs what is ready.
Spec == Init /\ [][Next]_vars /\ WF_vars(RunStep)

(***************************************************************************)
(* Properties.                                                             *)
(***************************************************************************)

TypeOK ==
    /\ StoreTypeOK
    /\ phase \in {"wave", "over", "done", "crashed"} /\ depth \in 0 .. MaxDepth
    /\ wave \subseteq Players /\ next \subseteq found /\ found \subseteq Players
    /\ completions \in [Players -> Nat]
    /\ taken \subseteq Players /\ claimed \subseteq Raids /\ counted \subseteq claimed
    /\ worker \in [Workers -> WorkerState]
    /\ troubles \in 0 .. MaxTroubles

\* The players the discovery holds in memory only.
Held ==
    IF phase \in {"wave", "over"}
    THEN found \cup UNION {Met(worker[w].got) : w \in Workers} ELSE {}

\* fetchAndStorePGCR, bulkUpsertPlayers: a player of a stored raid has a row in
\* players, or one is coming, unless the membership type is invalid or the one
\* process or task that would have written it failed between its transactions.
MembersAreKnown ==
    \A r \in Stored : Party(r) \ Invalid \subseteq players \cup pending \cup Held \cup orphans

\* processPlayer: workers that find the same raid at the same time do not fetch
\* it twice, and a raid is counted once, for one task.
ClaimedOnce ==
    \A v, w \in Workers :
      LET Of(u) == worker[u].todo \cup worker[u].got \cup ({worker[u].raid} \ {"none"})
      IN  /\ v # w => Of(v) \cap Of(w) = {}
          /\ Of(v) \cap counted = {}

HistoryOf(p) == UNION {History[p][c] : c \in 1 .. Len(History[p])}
RaidsOf(S) == UNION {HistoryOf(p) : p \in S}

\* Who is reached in some number of waves, one player after the other.
Reached ==
    LET reached[d \in 0 .. MaxDepth - 1] ==
          IF d = 0 THEN Seeds ELSE reached[d - 1] \cup Met(RaidsOf(reached[d - 1]))
    IN  reached[MaxDepth - 1]

\* runConcurrentDiscovery: when nothing fails and no other process is faster, the
\* workers find together what a walk without concurrency finds, no player is
\* lost between two waves, and all are in the database; only the limit on the
\* number of players makes it less.
DiscoveryIsComplete ==
    phase = "done" /\ troubles = 0 =>
      /\ found \subseteq Met(RaidsOf(Reached))
      /\ Cardinality(found) < MaxFound =>
           found = Met(RaidsOf(Reached)) /\ counted = RaidsOf(Reached)
      /\ found \ Invalid \subseteq players
=============================================================================
