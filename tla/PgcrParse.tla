------------------------------ MODULE PgcrParse ------------------------------
(***************************************************************************)
(* What the PGCR detail pass of gos10k makes of one answer of the API:     *)
(* classifyPgcrOutcome (pgcr-errors.ts) tells a broken instance from a     *)
(* broken service, parsePgcr (pgcr-parse.ts) turns a report into the rows  *)
(* of three tables.                                                        *)
(*                                                                         *)
(* A reply is [http, code, response]; code and response are None where the *)
(* body does not carry them, and Garbage is a Response without             *)
(* activityDetails.  A report is                                           *)
(*   [id, phase, fromBeginning, entries]                                   *)
(* with one [char, member, completed, duration, weapons] per entry, the    *)
(* weapons a set of hashes.  Names, counters and hashes that no table key  *)
(* and no verdict depends on are left out.                                 *)
(***************************************************************************)
EXTENDS Integers, Sequences, FiniteSets

CONSTANTS None, Garbage

-----------------------------------------------------------------------------
(* classifyPgcrOutcome *)

FatalCodes == {5, 51, 1672}
PrivacyCodes == {1665}

Success(reply) == reply.http = 200 /\ reply.code \in {None, 1}

Fatal(reply) ==
    \/ reply.http \in {401, 403} \/ reply.http >= 500
    \/ reply.http = 200 /\ reply.code \in FatalCodes

\* What a reply that is not fatal records on the row it was asked for.
RowStatus(reply) ==
    CASE reply.http = 404 -> "missing"
      [] reply.http \notin {200, 404} -> "http"
      [] reply.http = 200 /\ reply.code \in PrivacyCodes -> "privacy"
      [] ~Success(reply) /\ reply.http = 200 /\ reply.code \notin PrivacyCodes -> "error"
      [] Success(reply) /\ reply.response = None -> "missing"
      [] OTHER -> "ok"

-----------------------------------------------------------------------------
(* parsePgcr *)

IsFullClear(report) == report.fromBeginning = TRUE \/ report.phase \in {0, None}

\* The first entry of each character; a later one is skipped and counted.
Firsts(entries) ==
    {k \in DOMAIN entries : \A j \in 1..(k - 1) : entries[j].char # entries[k].char}

\* Of those, the entries with an identity become rows.
Kept(entries) == {k \in Firsts(entries) : entries[k].member # None}

Durations(entries) == {entries[k].duration : k \in DOMAIN entries} \ {None}
Members(entries) == {entries[k].member : k \in DOMAIN entries} \ {None}

PlayerRows(report) ==
    {[instance |-> report.id, char |-> report.entries[k].char,
      member |-> report.entries[k].member, completed |-> report.entries[k].completed]
        : k \in Kept(report.entries)}

WeaponRows(report) ==
    UNION {{[instance |-> report.id, char |-> report.entries[k].char, weapon |-> h]
        : h \in report.entries[k].weapons} : k \in Kept(report.entries)}

RunColumns(report) ==
    LET durations == Durations(report.entries) IN
    [phase |-> report.phase, fromBeginning |-> report.fromBeginning,
     fullClear |-> IsFullClear(report),
     duration |-> IF durations = {} THEN None
                  ELSE CHOOSE d \in durations : \A e \in durations : e <= d,
     disagreement |-> Cardinality(durations) > 1,
     entryCount |-> Len(report.entries),
     playerCount |-> Cardinality(Members(report.entries))]
=============================================================================
