----------------------------- MODULE RaidTables -----------------------------
(***************************************************************************)
(* The tables that the queries of RaidReads are asked of: reports of raids *)
(* are stored in any order, each once, and deleted in any batch, whatever  *)
(* they hold.  RaidStore has the transactions that do it.                  *)
(*                                                                         *)
(* A report is [key, period, ended, fresh, tier, entries], its entries a   *)
(* sequence with one for each character, so that a player may be there     *)
(* more than once.                                                         *)
(***************************************************************************)
EXTENDS RaidReads

CONSTANTS
    InstanceIds, \* the instance ids
    Reports,    \* the reports of raids
    Cutoffs     \* the cutoffs that hoursBack may give

\* A row of pgcr_players, as an entry of the report has it.
RunRecord ==
    [who : People, type : MembershipTypes, done : BOOLEAN, kills : Nat, deaths : Nat,
     assists : Nat, class : STRING]

IsReport(x) ==
    /\ x.key \in RaidKeys \cup {"none"}
    /\ x.period \in Nat /\ x.ended \in Nat /\ x.fresh \in BOOLEAN /\ x.tier \in Int
    /\ x.entries \in Seq(RunRecord)

ASSUME TableAssumption ==
    /\ IsFiniteSet(InstanceIds) /\ \A x \in Reports : IsReport(x)
    /\ Cutoffs \subseteq Nat

\* PRIMARY KEY and INSERT OR IGNORE: the first entry of each player.
FirstEntries(entries) ==
    {i \in DOMAIN entries : \A j \in 1 .. i - 1 : entries[j].who # entries[i].who}

Whoever(entries) == {entries[i].who : i \in DOMAIN entries}

\* What is stored of a report: that anybody finished, and how many players it names,
\* is taken from all entries, the rows from the first of each player.
StoredRow(x) ==
    LET kept == FirstEntries(x.entries) IN
    [key |-> x.key, period |-> x.period, ended |-> x.ended, fresh |-> x.fresh, tier |-> x.tier,
     completed |-> \E i \in DOMAIN x.entries : x.entries[i].done,
     players   |-> Cardinality(Whoever(x.entries)),
     entries   |-> [p \in {x.entries[i].who : i \in kept} |->
                      x.entries[CHOOSE i \in kept : x.entries[i].who = p]]]

VARIABLE table

TableInit == table = [i \in {} |-> {}]

\* insertFullPGCR: a raid that is there stays as it is.
Insert(i, x) ==
    /\ i \notin DOMAIN table
    /\ table' = [j \in DOMAIN table \cup {i} |-> IF j = i THEN StoredRow(x) ELSE table[j]]

\* deleteExpiredPGCRBatch.
Expire(i) ==
    /\ i \in DOMAIN table
    /\ table' = [j \in DOMAIN table \ {i} |-> table[j]]

TableNext == \E i \in InstanceIds : Expire(i) \/ \E x \in Reports : Insert(i, x)

TableSpec == TableInit /\ [][TableNext]_table

(***************************************************************************)
(* Properties.                                                             *)
(***************************************************************************)

TableTypeOK ==
    /\ DOMAIN table \subseteq InstanceIds
    /\ \A i \in DOMAIN table : \E x \in Reports : table[i] = StoredRow(x)

\* The queries of the pages agree with each other: see QueriesOfAgree.
QueriesAgree == \A c \in Cutoffs : QueriesOfAgree(table, c)

\* Published percentiles are nearest-rank: see PercentilesOfAreNearestRank.
PercentilesAreNearestRank == \A c \in Cutoffs : PercentilesOfAreNearestRank(table, c)

\* Whoever filled the cache, a request gets its own body: see CacheOfIsTransparent.
CacheIsTransparent == \A c \in Cutoffs : CacheOfIsTransparent(table, c)
=============================================================================
