----------------------------- MODULE GosArchive -----------------------------
(***************************************************************************)
(* The gos10k archive: the history crawl and the PGCR detail pass, two     *)
(* scripts that may run at the same time on one database file.  A page of  *)
(* the crawl and a report of the pass are one transaction each, so the     *)
(* scripts interleave transaction by transaction.                          *)
(***************************************************************************)
EXTENDS PgcrBackfill

CONSTANTS
    Gos,            \* the activities of Garden of Salvation (GOS_HASHES)
    Chars,          \* the characters of the account, deleted ones included
    PageCount,      \* activities asked for per page (PAGE_COUNT)
    Target          \* new rows that end the crawl (targetPgcrCount)

ASSUME HistoryConstants ==
    /\ Gos \subseteq Instances
    /\ PageCount \in Nat \ {0}
    /\ Target \in Nat \ {0}

VARIABLES log, crawl, due, hidden

H == INSTANCE GosHistory

archiveVars == <<vars, log, crawl, due, hidden>>

ArchiveInit == Init /\ H!HistoryInit

ArchiveNext ==
    \/ Backfill /\ UNCHANGED <<log, crawl, due, hidden>>
    \/ H!History /\ UNCHANGED <<players, weapons, raw, pass>>

ArchiveSpec == ArchiveInit /\ [][ArchiveNext]_archiveVars /\ Fairness

-----------------------------------------------------------------------------
(* Property *)

\* A history pass that ends by itself has found every run that was played before
\* it began, though newer activities shift the pages while it reads, but for what
\* stood behind a page that came with an unreadable body: fetchOk, made to keep an
\* API error from looking like the end of the history, lets that one through.
PassCovers ==
    crawl.at = "over" /\ crawl.recorded < Target => \A i \in due \ hidden : runs[i] # Absent
=============================================================================
