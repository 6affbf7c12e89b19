----------------------------- MODULE GosHistory -----------------------------
(***************************************************************************)
(* The history crawl of gos10k (src/gos10k/gos_10k.ts): it pages through   *)
(* the Activity History of every character, newest first, and adds a row   *)
(* for each Garden of Salvation run, one transaction per page.  The player *)
(* plays on while it reads, which moves older activities to later pages.   *)
(***************************************************************************)
EXTENDS Integers, Sequences, FiniteSets

CONSTANTS
    Instances,      \* activity ids, numbered in the order they are played
    Gos,            \* those of Garden of Salvation (GOS_HASHES)
    Chars,          \* the characters of the account, deleted ones included
    PageCount,      \* activities asked for per page (PAGE_COUNT)
    Target,         \* new rows that end the crawl (targetPgcrCount)
    Absent,         \* no row
    Collected       \* a row as this crawl inserts it

VARIABLES
    runs,       \* gos_10k_runs
    log,        \* the API's history of each character, newest first
    crawl,      \* where the crawl is: character, page, characters left, rows added
    due,        \* what a pass must have found when it ends: played before it began
    hidden      \* history: what stood behind a page of this pass with an unreadable body

historyVars == <<runs, log, crawl, due, hidden>>

Played == UNION {{log[c][k] : k \in DOMAIN log[c]} : c \in Chars}

Off == [at |-> "off", char |-> {}, page |-> 0, left |-> {}, recorded |-> 0]
Reading(c, page, left, n) ==
    [at |-> "reading", char |-> {c}, page |-> page, left |-> left, recorded |-> n]
Over == [Off EXCEPT !.at = "over"]

HistoryInit ==
    /\ runs = [i \in Instances |-> Absent]
    /\ log = [c \in Chars |-> <<>>]
    /\ crawl = Off
    /\ due = {} /\ hidden = {}

\* The player finishes an activity.
Play(c) ==
    \E i \in Instances \ Played :
        /\ \A j \in Instances \ Played : i <= j
        /\ log' = [log EXCEPT ![c] = <<i>> \o @]
        /\ UNCHANGED <<runs, crawl, due, hidden>>

\* The characters are listed, deleted ones included.
Begin ==
    /\ crawl.at # "reading"
    /\ \E c \in Chars : crawl' = Reading(c, 0, Chars \ {c}, 0)
    /\ due' = Played \cap Gos /\ hidden' = {}
    /\ UNCHANGED <<runs, log>>

Page(c, k) ==
    {log[c][n] : n \in (DOMAIN log[c]) \cap (k * PageCount + 1)..((k + 1) * PageCount)}

\* INSERT OR IGNORE in page order, until the target is reached.
IsInsert(new, rows, budget) ==
    LET fresh == {i \in rows : runs[i] = Absent} IN
    /\ new \subseteq fresh
    /\ \A i \in new, j \in fresh \ new : i > j
    /\ Cardinality(new) <= budget
    /\ new = fresh \/ Cardinality(new) = budget

MayHaveNewRows(c, k) ==
    Len(log[c]) >= (k + 1) * PageCount /\ \E i \in Page(c, k) \cap Gos : runs[i] = Absent

\* A page as long as asked for has another one behind it.
HasMorePages(c, k) == Len(log[c]) >= (k + 1) * PageCount

ReadPage(c) ==
    /\ crawl.at = "reading" /\ crawl.char = {c}
    /\ \E new \in SUBSET (Page(c, crawl.page) \cap Gos) :
        LET recorded == crawl.recorded + Cardinality(new)
            more == HasMorePages(c, crawl.page)
        IN /\ IsInsert(new, Page(c, crawl.page) \cap Gos, Target - crawl.recorded)
           /\ runs' = [i \in Instances |-> IF i \in new THEN Collected ELSE runs[i]]
           /\ \/ /\ more /\ recorded < Target
                 /\ crawl' = Reading(c, crawl.page + 1, crawl.left, recorded)
              \/ /\ ~more /\ recorded < Target
                 /\ \E d \in crawl.left : crawl' = Reading(d, 0, crawl.left \ {d}, recorded)
              \/ /\ recorded >= Target \/ (~more /\ crawl.left = {})
                 /\ crawl' = [Over EXCEPT !.recorded = recorded]
    /\ UNCHANGED <<log, due, hidden>>

\* An answer with status 200 whose body is not JSON comes through as null, like a
\* page without activities: it ends the history of the character.
UnreadablePage(c) ==
    /\ crawl.at = "reading" /\ crawl.char = {c}
    /\ hidden' = hidden \cup {log[c][n] : n \in {m \in DOMAIN log[c] : m > crawl.page * PageCount}}
    /\ \/ \E d \in crawl.left : crawl' = Reading(d, 0, crawl.left \ {d}, crawl.recorded)
       \/ crawl.left = {} /\ crawl' = [Over EXCEPT !.recorded = crawl.recorded]
    /\ UNCHANGED <<runs, log, due>>

\* A request fails, or the process is killed: the pages read so far stay.
Abort ==
    /\ crawl.at = "reading"
    /\ crawl' = Off /\ hidden' = {}
    /\ UNCHANGED <<runs, log, due>>

History == (\E c \in Chars : Play(c) \/ ReadPage(c) \/ UnreadablePage(c)) \/ Begin \/ Abort
=============================================================================
