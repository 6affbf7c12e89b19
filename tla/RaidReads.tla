----------------------------- MODULE RaidReads -----------------------------
(***************************************************************************)
(* What the pages and the leaderboard read from the stored raids: the      *)
(* predicates of a full clear and a completion, the queries built on them, *)
(* the rows of the leaderboard, and the keys they are cached under.        *)
(*                                                                         *)
(* A query is a function of the stored raids T, each                       *)
(*   [key, period, ended, completed, fresh, tier, players, entries],       *)
(* where ended is 0 for NULL, key is "none" and tier is -1 for NULL, and   *)
(* entries maps the players of the raid to their rows in pgcr_players,     *)
(*   [who, type, done, kills, deaths, assists, class],                     *)
(* and of the cutoff c that its hoursBack gives.  A player may be stored   *)
(* under different membership types in different raids, and a raid may be  *)
(* completed although none of its rows is: see RaidTables.                 *)
(***************************************************************************)
EXTENDS Integers, FiniteSets, SequencesExt

CONSTANTS
    People,         \* the membership ids, of which only the order matters
    MembershipTypes, \* the membership types, 0 among them
    RaidKeys,       \* the raid keys of the manifest
    PageLimit,      \* the completions a profile page asks for
    CachedLimit     \* CACHED_LIMIT

ASSUME ReadsAssumption ==
    /\ People \subseteq Nat /\ IsFiniteSet(People)
    /\ IsFiniteSet(RaidKeys) /\ "none" \notin RaidKeys
    /\ IsFiniteSet(MembershipTypes) /\ PageLimit \in Nat
    /\ CachedLimit \in Nat \ {0}

Party(T, r) == DOMAIN T[r].entries
Took(T, r) == T[r].ended - T[r].period

\* FULL_CLEAR.
FullClear(T, r) == T[r].completed /\ T[r].fresh

PresentInFullClear(T, r, p) ==   \* mutant: one predicate for both populations
    p \in Party(T, r) /\ FullClear(T, r)

\* COMPLETION.
Completion(T, r, p) ==
    p \in Party(T, r) /\ T[r].entries[p].done /\ FullClear(T, r)

\* p.ended_at >= cutoff: NULL is in no window.
InWindow(T, c) == {r \in DOMAIN T : T[r].ended # 0 /\ T[r].ended >= c}
KeyedIn(T, c) == {r \in InWindow(T, c) : T[r].key # "none"}

(***************************************************************************)
(* buildRaidFilterClause; a number of 0 is a filter not asked for.         *)
(***************************************************************************)

Filters == [difficulty : {"any", "normal", "master"}, exact : {0, 1, 2}, max : {0, 1, 2}]

NoFilter == [difficulty |-> "any", exact |-> 0, max |-> 0]

Passes(T, r, f) ==
    /\ f.difficulty = "master" => T[r].tier > 0
    /\ f.difficulty = "normal" => T[r].tier <= 0
    /\ f.exact # 0 => T[r].players = f.exact
    /\ f.exact = 0 /\ f.max # 0 => T[r].players <= f.max

(***************************************************************************)
(* Queries about a player.                                                 *)
(***************************************************************************)

CompletedBy(T, c, p) == {r \in KeyedIn(T, c) : Completion(T, r, p)}

\* getPlayerRecentCompletions: the latest of them, up to the limit.  Which of those
\* that ended together are cut is SQLite's choice, so there may be several lists;
\* each is the set of its raids.
RecentCompletions(T, c, p, limit) ==
    LET all == CompletedBy(T, c, p) IN
    {S \in SUBSET all :
       /\ Cardinality(S) = Min({limit, Cardinality(all)})
       /\ \A r \in S, o \in all \ S : T[o].ended <= T[r].ended}

Cleared(T, c, p, k) == {r \in CompletedBy(T, c, p) : T[r].key = k}
TotalTook(T, S) == FoldSet(LAMBDA r, n : Took(T, r) + n, 0, S)

\* getPlayerRaidCompletionSummary; an average is kept as its total and count.
CompletionSummary(T, c, p) ==
    [k \in {T[r].key : r \in CompletedBy(T, c, p)} |->
       [completions |-> Cardinality(Cleared(T, c, p, k)),
        took        |-> TotalTook(T, Cleared(T, c, p, k))]]

\* getPlayerRaidPerformanceStats: one pass over every raid of the player.
PerformanceStats(T, c, p) ==
    LET Attempts(k) == {r \in KeyedIn(T, c) : T[r].key = k /\ p \in Party(T, r)}
        Clears(k)   == {r \in Attempts(k) : Completion(T, r, p)}
    IN  [k \in {j \in RaidKeys : Clears(j) # {}} |->
           [completions |-> Cardinality(Clears(k)),
            took        |-> TotalTook(T, Clears(k)),
            fastest     |-> Min({Took(T, r) : r \in Clears(k)}),
            unfinished  |-> Cardinality({r \in Attempts(k) : ~T[r].entries[p].done}),
            attempts    |-> Cardinality(Attempts(k))]]

\* The raids the player cleared that q finished, and those q is stored under type in.
Together(T, c, p, k, q) ==
    {r \in Cleared(T, c, p, k) : q \in Party(T, r) /\ T[r].entries[q].done}
TogetherAs(T, c, p, k, q, type) ==
    {r \in Together(T, c, p, k, q) : T[r].entries[q].type = type}

\* getPlayerRaidTeammateSummary: a row for each raid, teammate and membership type.
TeammateSummary(T, c, p) ==
    [x \in {y \in RaidKeys \X (People \ {p}) \X MembershipTypes :
              TogetherAs(T, c, p, y[1], y[2], y[3]) # {}} |->
       Cardinality(TogetherAs(T, c, p, x[1], x[2], x[3]))]

(***************************************************************************)
(* getRaidStats and queryScope.                                            *)
(***************************************************************************)

\* RAID_SCOPE_PREDICATES.
Scopes == {"fullClear", "allAttempts"}
InScope(T, r, s) == s = "fullClear" => FullClear(T, r)

\* The runs of the query: an entry with its instance and player.
RunsOf(T, c, k, f, s) ==
    {[raid |-> x[1], player |-> x[2], row |-> T[x[1]].entries[x[2]]] :
       x \in {y \in KeyedIn(T, c) \X People :
                /\ y[2] \in Party(T, y[1]) /\ T[y[1]].key = k
                /\ Passes(T, y[1], f) /\ InScope(T, y[1], s)}}

AtLeastOne(n) == Max({n, 1})

\* A KDA is a quotient: the two are multiplied out.
Worse(x, y) ==
    (x.row.kills + x.row.assists) * AtLeastOne(y.row.deaths)
      < (y.row.kills + y.row.assists) * AtLeastOne(x.row.deaths)

RankDown(n, percent) == AtLeastOne((n * percent) \div 100)   \* mutant: rounded down

NearestRank(n, percent) == AtLeastOne((n * percent + 99) \div 100)

\* The run in the n-th row when the runs are numbered in the order of their KDA.
InRow(S, n) ==
    CHOOSE x \in S : /\ Cardinality({y \in S : Worse(y, x)}) < n
                     /\ Cardinality({y \in S : ~Worse(x, y)}) >= n

Percentile(S, percent) == InRow(S, NearestRank(Cardinality(S), percent))

\* The aggregate guards its own quotient; no runs, no percentiles.
ScopeStats(S) ==
    [sampleSize |-> Cardinality(S),
     kda        |-> IF S = {} THEN <<>>
                    ELSE <<Percentile(S, 25), Percentile(S, 50), Percentile(S, 75)>>,
     numerator  |-> SumFunction([x \in S |-> x.row.kills + x.row.assists]),
     denominator |-> AtLeastOne(SumFunction([x \in S |-> x.row.deaths])),
     classes    |-> [class \in {x.row.class : x \in S} |->
                       Cardinality({x \in S : x.row.class = class})]]

RaidStats(T, c, f) ==
    LET Instances(k) == {r \in KeyedIn(T, c) : T[r].key = k /\ Passes(T, r, f)}
    IN  [k \in {j \in RaidKeys : Instances(j) # {}} |->
           [instances  |-> Cardinality(Instances(k)),
            unfinished |-> Cardinality({r \in Instances(k) : ~T[r].completed}),
            scope      |-> [s \in Scopes |-> ScopeStats(RunsOf(T, c, k, f, s))]]]

FullClearCount(T, c) == Cardinality({r \in KeyedIn(T, c) : FullClear(T, r)})

(***************************************************************************)
(* runLeaderboardRows.  No key asked for means no condition on the key,    *)
(* not even the raid_key IS NOT NULL of the other queries.                 *)
(***************************************************************************)

Counted(T, c, p, ks, f) ==
    {r \in InWindow(T, c) :
       Completion(T, r, p) /\ (ks # {} => T[r].key \in ks) /\ Passes(T, r, f)}

LastClear(T, S) == Max({T[r].ended : r \in S})

\* GROUP BY, HAVING completions > 0.
Grouped(T, c, ks, f) ==
    {[player      |-> p,
      completions |-> Cardinality(Counted(T, c, p, ks, f)),
      last        |-> LastClear(T, Counted(T, c, p, ks, f))] :
       p \in {q \in People : Counted(T, c, q, ks, f) # {}}}

\* ORDER BY: most completions, then the earliest to get there, then the id.
Ahead(x, y) ==
    \/ x.completions > y.completions
    \/ /\ x.completions = y.completions
       /\ x.last < y.last \/ (x.last = y.last /\ x.player < y.player)

\* The group in place i has as many ahead of it as there are places before.
Ranking(S) ==
    [i \in 1 .. Cardinality(S) |->
       CHOOSE x \in S : Cardinality({y \in S : Ahead(y, x)}) = i - 1]

\* The row in place i; in a tie all have the rank of its first row.
RowAt(S, i) ==
    LET order == Ranking(S)
        tie   == {j \in 1 .. i : \A m \in j .. i : order[m].completions = order[i].completions}
    IN  [player |-> order[i].player, completions |-> order[i].completions, rank |-> Min(tie)]

\* The rows get their ranks after the limit has cut them.
LeaderboardRows(T, c, ks, limit, f) ==
    LET S == Grouped(T, c, ks, f)
    IN  [i \in 1 .. Min({limit, Cardinality(S)}) |-> RowAt(S, i)]

(***************************************************************************)
(* getLeaderboardResponse: the key of the cache, what is computed under    *)
(* it, and the body cut from that.  A key also holds the window, which is  *)
(* the same for all requests here.                                         *)
(***************************************************************************)

BoardRequests == [mode : {"aggregate", "individual"}, keys : SUBSET RaidKeys, filters : Filters]

KeySuffixShort(f) == <<f.exact, f.max>>   \* mutant: the difficulty is forgotten

\* filterKeySuffix: the query looks at max only without exact, the key has both.
KeySuffix(f) == <<f.difficulty, f.exact, f.max>>

IsAll(q) == q.keys = {} \/ q.keys = RaidKeys
IsBypass(q) == ~IsAll(q) /\ Cardinality(q.keys) # 1

\* A single raid has one key for both modes.
CacheKey(q) ==
    IF IsAll(q) THEN <<q.mode, {}, KeySuffix(q.filters)>>
    ELSE <<"single", q.keys, KeySuffix(q.filters)>>

Boards(T, c, ks, limit, f) == [k \in ks |-> LeaderboardRows(T, c, {k}, limit, f)]

\* A request that fills the cache, and one that finds what it left.
SharingAKey ==
    {x \in BoardRequests \X BoardRequests :
       ~IsBypass(x[1]) /\ ~IsBypass(x[2]) /\ CacheKey(x[1]) = CacheKey(x[2])}

\* What a miss of the request's key computes.
Computed(T, c, q) ==
    IF IsAll(q) /\ q.mode = "individual" THEN Boards(T, c, RaidKeys, CachedLimit, q.filters)
    ELSE LeaderboardRows(T, c, IF IsAll(q) THEN {} ELSE q.keys, CachedLimit, q.filters)

FirstRows(rows, limit) == SubSeq(rows, 1, Min({limit, Len(rows)}))

\* The body of a request that finds value under its key.
Body(q, limit, value) ==
    IF q.mode = "aggregate" THEN FirstRows(value, limit)
    ELSE IF IsAll(q) THEN [k \in RaidKeys |-> FirstRows(value[k], limit)]
    ELSE [k \in q.keys |-> FirstRows(value, limit)]

\* The body of a request that bypasses the cache.
Uncached(T, c, q, limit) ==
    IF q.mode = "individual"
    THEN Boards(T, c, IF IsAll(q) THEN RaidKeys ELSE q.keys, limit, q.filters)
    ELSE LeaderboardRows(T, c, IF IsAll(q) THEN {} ELSE q.keys, limit, q.filters)

(***************************************************************************)
(* Properties, of some stored raids T and a cutoff c.                      *)
(***************************************************************************)

\* What a list of teammates says of the raids k with q, over all types of q.
RunsWith(mates, k, q) ==
    SumFunction([x \in {y \in DOMAIN mates : y[1] = k /\ y[2] = q} |-> mates[x]])

CompletionsIn(summary, k) == IF k \in DOMAIN summary THEN summary[k].completions ELSE 0

\* The queries of the pages were written apart from each other and agree: the
\* summary, the performance table, every list of completions a limit leaves, the
\* rows of the leaderboard of a raid, and what two teammates' pages count of each
\* other, once the rows of one teammate under several membership types are added
\* up; the two scopes of the statistics, the count of full clears (also of raids
\* that no stored row completes), the filters.
QueriesOfAgree(T, c) ==
    LET stats == RaidStats(T, c, NoFilter)
        summary == [p \in People |-> CompletionSummary(T, c, p)]
        mates == [p \in People |-> TeammateSummary(T, c, p)]
    IN
    /\ \A p \in People :
         /\ LET table == PerformanceStats(T, c, p) IN
            /\ DOMAIN table = DOMAIN summary[p]
            /\ \A k \in DOMAIN table :
                 /\ table[k].completions = summary[p][k].completions
                 /\ table[k].took = summary[p][k].took
                 /\ table[k].completions + table[k].unfinished <= table[k].attempts
         /\ \A S \in RecentCompletions(T, c, p, PageLimit) :
              /\ Cardinality(S) = Min({PageLimit,
                   SumFunction([k \in DOMAIN summary[p] |-> summary[p][k].completions])})
              /\ \A k \in RaidKeys :
                   Cardinality({r \in S : T[r].key = k}) <= CompletionsIn(summary[p], k)
         /\ \A k \in RaidKeys, q \in People \ {p} :
              /\ RunsWith(mates[p], k, q) = RunsWith(mates[q], k, p)
              /\ RunsWith(mates[p], k, q) <= CompletionsIn(summary[p], k)
    /\ \A k \in RaidKeys :
         LET rows == LeaderboardRows(T, c, {k}, CachedLimit, NoFilter) IN
         \A i \in DOMAIN rows :
           /\ rows[i].completions = summary[rows[i].player][k].completions
           /\ rows[i].rank
                = 1 + Cardinality({p \in People :
                        k \in DOMAIN summary[p] /\ summary[p][k].completions > rows[i].completions})
    /\ \A k \in DOMAIN stats :
         /\ stats[k].scope["fullClear"].sampleSize <= stats[k].scope["allAttempts"].sampleSize
         /\ SumFunction([p \in {x \in People : k \in DOMAIN summary[x]} |-> summary[p][k].completions])
              <= stats[k].scope["fullClear"].sampleSize
         /\ stats[k].instances = SumFunction([d \in {"normal", "master"} |->
              LET part == RaidStats(T, c, [NoFilter EXCEPT !.difficulty = d])
              IN  IF k \in DOMAIN part THEN part[k].instances ELSE 0])
    /\ FullClearCount(T, c)
         = Cardinality({x.raid : x \in UNION {RunsOf(T, c, k, NoFilter, "fullClear") : k \in RaidKeys}})

\* queryScope: a published percentile is the nearest-rank one, the least KDA some
\* player achieved such that that share of the runs is not better.
PercentilesOfAreNearestRank(T, c) ==
    \A k \in RaidKeys, s \in Scopes :
      LET S == RunsOf(T, c, k, NoFilter, s)
          kda == ScopeStats(S).kda
          percents == <<25, 50, 75>>
      IN  \A i \in DOMAIN kda :
            /\ 100 * Cardinality({x \in S : ~Worse(kda[i], x)}) >= percents[i] * Cardinality(S)
            /\ 100 * Cardinality({x \in S : Worse(x, kda[i])}) < percents[i] * Cardinality(S)

\* getLeaderboardResponse: a request that finds under its key what another
\* request put there, of another mode or with all keys spelt out, gets the body
\* it would have got without the cache, up to the limit the client may ask for.
CacheOfIsTransparent(T, c) ==
    \A x \in SharingAKey :
      LET value == Computed(T, c, x[1]) IN
      \A limit \in 1 .. CachedLimit : Body(x[2], limit, value) = Uncached(T, c, x[2], limit)
=============================================================================
