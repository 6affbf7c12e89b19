--------------------------- MODULE ActiveSessions ---------------------------
(***************************************************************************)
(* The active-session loop of the crawler: polls that re-verify old rows of *)
(* active_sessions, look for new ones and resolve unknown members, each    *)
(* racing a watchdog that abandons it and leaves its work running.  Beside *)
(* them the browser of a visitor posts a profile to the web server, which  *)
(* writes the same table.  A step of a poll is what its code does between  *)
(* two awaits.                                                             *)
(***************************************************************************)
EXTENDS Integers, FiniteSets, FiniteSetsExt

CONSTANTS
    Players,
    Typed,            \* external: members that a party lists with a type
    MaxPolls,         \* bound: polls whose work is not over at a time
    Tracked,          \* the players table at the start
    Activities,       \* external: what a player may be doing in the game
    NoPlayer,
    Concurrency,      \* playerCheckConcurrency, staleCheckConcurrency
    Probes,           \* STALE_REVERIFY_TEAMMATE_FALLBACK_LIMIT
    Stale,            \* STALE_THRESHOLD_SECONDS
    MaxAge,           \* MAX_SESSION_AGE_SECONDS
    Interval,         \* activeSessionIntervalMs
    Watchdog,         \* ACTIVE_SESSION_POLL_WATCHDOG_MS
    OfflineBase,      \* SESSION_OFFLINE_BACKOFF_BASE_SEC
    OfflineCap,       \* SESSION_OFFLINE_BACKOFF_CAP_SEC
    MaxShift,         \* 20: the backoff no longer tells more misses apart
    PrivacyBackoff,   \* SESSION_PRIVACY_BACKOFF_SEC
    MaxEvents,        \* bound: moves of the players and posts
    MaxTime           \* bound: the clock stops here

ASSUME SessionsAssumption ==
    /\ Typed \subseteq Players /\ Tracked \subseteq Players /\ NoPlayer \notin Players
    /\ Activities \subseteq {"orbit", "raid"} /\ MaxPolls \in Nat \ {0}
    /\ Concurrency \in Nat \ {0} /\ Probes \in Nat
    /\ Stale \in Nat /\ MaxAge \in Nat \ {0} /\ Stale <= MaxAge
    /\ Interval \in Nat /\ Watchdog \in Nat \ {0}
    /\ OfflineBase \in Nat \ {0} /\ OfflineCap \in Nat \ {0} /\ PrivacyBackoff \in Nat \ {0} /\ MaxShift \in Nat
    /\ MaxEvents \in Nat /\ MaxTime \in Nat \ {0}

VARIABLES
    now,       \* the clock, from 1: 0 stands for NULL and for "never"
    doing,     \* external: what each player does, as Bungie knows it
    known,     \* the players table
    session,   \* active_sessions
    check,     \* each player's next_session_eligible_at, consecutive_offline_checks
    queued,    \* crawl_queue
    poll,      \* the polls whose work is not over
    current,   \* the poll that the loop is awaiting, or 0
    wakes,     \* when the loop's timer is due
    paused,    \* is the maintenance pause on?
    events     \* bound: external events so far

vars == <<now, doing, known, session, check, queued, poll, current, wakes, paused, events>>
database == <<known, session, check, queued>>
world == <<now, doing, events>>

Polls == 1 .. MaxPolls

\* What a row says: is it a raid (raid_key or mode 4), and the members.
NoSession == [raid |-> FALSE, party |-> {}, checked |-> 0]
Session == [raid : BOOLEAN, party : SUBSET Players, checked : Nat]

\* The results of checkPlayerActivityDetailed, and its exception.  Until Bungie
\* has shown a profile the request of a task is "pending".
Answer ==
    [status : {"pending", "active", "inactive", "privacyRestricted", "error", "disabled"},
     raid : BOOLEAN, party : SUBSET Players]
Bare(status) == [status |-> status, raid |-> FALSE, party |-> {}]

\* A task: the player it asks for (the anchor or a teammate), the teammates
\* still to be probed, and sawTeammateError.
Task == [asks : Players, answer : Answer, left : SUBSET Players, sawError : BOOLEAN]

NoTask == [asks |-> NoPlayer, answer |-> Bare("pending"), left |-> {}, sawError |-> FALSE]

PollState ==
    [phase    : {"none", "stale", "candidates", "resolve"},
     start    : Nat,
     rows     : [Players -> Session],          \* staleSessions
     batch    : SUBSET Players,                \* toCheck
     todo     : SUBSET Players,                \* items no worker has taken
     task     : [Players -> Task \cup {NoTask}],
     covered  : [Players -> Answer],           \* coveredBy: "active" or "pending"
     met      : SUBSET Players,                \* collectPartyMemberIds(sessions)
     disabled : BOOLEAN,                       \* a result was SystemDisabled
     in       : SUBSET Players,                \* history: in the game since start
     out      : SUBSET Players]                \* history: out of it, or hidden

NoWork ==
    [phase |-> "none", start |-> 0, rows |-> [p \in Players |-> NoSession],
     batch |-> {}, todo |-> {}, task |-> [p \in Players |-> NoTask],
     covered |-> [p \in Players |-> Bare("pending")], met |-> {}, disabled |-> FALSE,
     in |-> {}, out |-> {}]

Init ==
    /\ now = 1
    /\ doing \in [Players -> Activities \cup {"offline"}]
    /\ known = Tracked
    /\ session = [p \in Players |-> NoSession]
    /\ check = [p \in Players |-> [eligible |-> 0, misses |-> 0]]
    /\ queued = {}
    /\ poll = [k \in Polls |-> NoWork]
    /\ current = 0 /\ wakes = 1
    /\ paused = FALSE
    /\ events = 0

(***************************************************************************)
(* Bungie: the profile of a player.                                        *)
(***************************************************************************)

\* Players who do the same thing are in one fireteam.
Profile(p) ==
    IF doing[p] = "offline"
    THEN Bare("inactive")
    ELSE [status |-> "active", raid |-> doing[p] = "raid",
          party |-> {q \in Players : doing[q] = doing[p]}]

InGame == {p \in Players : doing[p] # "offline"}

(***************************************************************************)
(* The tables.                                                             *)
(***************************************************************************)

\* upsertActiveSession with what an answer says; checked_at is the clock, not
\* the time of the answer.
Upsert(p, a) ==
    session' = [session EXCEPT ![p] = [raid |-> a.raid, party |-> a.party, checked |-> now]]

Delete(p) == session' = [session EXCEPT ![p] = NoSession]

Least(m, n) == IF m < n THEN m ELSE n

\* recordSessionCheck.
Online(p) == check' = [check EXCEPT ![p] = [eligible |-> 0, misses |-> 0]]
Offline(p) ==
    check' = [check EXCEPT ![p] =
        [eligible |-> now + Least(OfflineCap, OfflineBase * 2 ^ @.misses),
         misses   |-> Least(@.misses + 1, MaxShift)]]
Hidden(p) == check' = [check EXCEPT ![p].eligible = now + PrivacyBackoff]

\* Mutant: the anchor only.
EnqueueAnchor(p, row) == queued' = IF row.raid THEN queued \cup {p} ELSE queued

\* enqueueEndedSession: only for a raid, and only members of the players table.
EnqueueEnded(p, row) ==
    queued' = IF row.raid THEN queued \cup {p} \cup (row.party \cap known) ELSE queued

\* getPlayersForSessionPolling, when the limit does not bite.
Candidates == {p \in known : check[p].eligible <= now}

\* The rows refreshStaleSessionsWithOptions selects, within its limit.
StaleRows ==
    {p \in Players : session[p] # NoSession /\ session[p].checked < now - Stale
                                            /\ session[p].checked >= now - MaxAge}

(***************************************************************************)
(* The workers of processWithConcurrency, in any phase of poll k.          *)
(***************************************************************************)

Busy(k) == {p \in Players : poll[k].task[p] # NoTask}

\* No poll has something left to do in this turn of the event loop: no worker is
\* free beside an item, no phase over.  Timers and answers come between turns.
TurnIsOver ==
    \A k \in Polls :
        poll[k].phase \in {"stale", "candidates"} =>
            IF poll[k].todo = {} THEN Busy(k) # {} ELSE Cardinality(Busy(k)) >= Concurrency

MayTake(k, p) ==
    /\ p \in poll[k].todo
    /\ Cardinality(Busy(k)) < Concurrency

Asking(p) == [asks |-> p, answer |-> Bare("pending"), left |-> {}, sawError |-> FALSE]

\* getTeammateCandidates of a row, up to the limit.
TeammateChoices(p, row) ==
    LET typed == (row.party \cap Typed) \ {p}
    IN  kSubset(Least(Probes, Cardinality(typed)), typed)

\* A worker takes an item and sends a request for it.
Take(k, p) ==
    /\ MayTake(k, p)
    /\ poll[k].covered[p].status = "pending" \/ poll[k].phase # "candidates"
    /\ \E L \in IF poll[k].phase = "stale" THEN TeammateChoices(p, poll[k].rows[p]) ELSE {{}} :
          poll' = [poll EXCEPT ![k].todo = @ \ {p},
                               ![k].task[p] = [Asking(p) EXCEPT !.left = L]]
    /\ UNCHANGED <<database, world, current, wakes, paused>>

\* Bungie shows the profile; the code will see it later, or never.
Reply(k, p) ==
    LET t == poll[k].task[p]
    IN  /\ t # NoTask /\ TurnIsOver /\ t.answer.status = "pending"
        /\ poll' = [poll EXCEPT ![k].task[p].answer = Profile(t.asks)]
        /\ UNCHANGED <<database, world, current, wakes, paused>>

\* What the task of poll k for p may go on with in this phase: the profile that
\* Bungie showed, or a failure.
Outcomes(k, p, phase) ==
    IF poll[k].phase # phase \/ poll[k].task[p] = NoTask \/ ~TurnIsOver THEN {}
    ELSE IF poll[k].task[p].answer.status # "pending" THEN {poll[k].task[p].answer}
    ELSE {Bare("privacyRestricted"), Bare("error"), Bare("disabled")}

\* The players poll k knows were out of the game or hidden, after an answer.
OutAfter(k, p, a) ==
    IF a.status = "privacyRestricted" THEN poll[k].out \cup {poll[k].task[p].asks}
                                      ELSE poll[k].out

Finish(k, p, a) ==
    poll' = [poll EXCEPT ![k].task[p] = NoTask, ![k].out = OutAfter(k, p, a)]

\* A task that throws SystemDisabled, in either phase.
Refused(k, p) ==
    /\ \E a \in Outcomes(k, p, poll[k].phase) : a.status = "disabled"
    /\ poll' = [poll EXCEPT ![k].task[p] = NoTask, ![k].disabled = TRUE]
    /\ UNCHANGED <<database, world, current, wakes, paused>>

(***************************************************************************)
(* refreshStaleSessionsWithOptions: the anchor first, then the teammates.  *)
(***************************************************************************)

\* An active anchor or teammate gets its own row, by parseAndStoreActivity; an
\* active teammate ends the anchor's.
AnchorActive(k, p) ==
    \E a \in Outcomes(k, p, "stale") :
        /\ poll[k].task[p].asks = p /\ a.status = "active"
        /\ Upsert(p, a)
        /\ Finish(k, p, a)
        /\ UNCHANGED <<known, check, queued, world, current, wakes, paused>>

TeammateActive(k, p) ==
    \E a \in Outcomes(k, p, "stale") :
        LET q == poll[k].task[p].asks
        IN  /\ q # p /\ a.status = "active"
            /\ session' = [session EXCEPT
                  ![q] = [raid |-> a.raid, party |-> a.party, checked |-> now],
                  ![p] = NoSession]
            /\ EnqueueEnded(p, poll[k].rows[p])
            /\ Finish(k, p, a)
            /\ UNCHANGED <<known, check, world, current, wakes, paused>>

\* An error of the anchor keeps the row; no teammate is probed.
AnchorError(k, p) ==
    \E a \in Outcomes(k, p, "stale") :
        /\ poll[k].task[p].asks = p /\ a.status = "error"
        /\ Finish(k, p, a)
        /\ UNCHANGED <<database, world, current, wakes, paused>>

\* Mutant: an error of the anchor counts as its absence.
NoSignsOrError(k, p) ==
    {a \in Outcomes(k, p, "stale") : a.status \in {"inactive", "privacyRestricted", "error"}}

\* The answers after which the anchor is cleanly gone, or a teammate gave no
\* sign of the raid.
NoSigns(k, p) ==
    {a \in Outcomes(k, p, "stale") :
        \/ a.status \in {"inactive", "privacyRestricted"}
        \/ a.status = "error" /\ poll[k].task[p].asks # p}

SawError(k, p, a) == poll[k].task[p].sawError \/ a.status = "error"

NextProbe(k, p) ==
    \E a \in NoSigns(k, p), q \in poll[k].task[p].left :
        /\ poll' = [poll EXCEPT
              ![k].task[p] = [Asking(q) EXCEPT !.left = poll[k].task[p].left \ {q},
                                               !.sawError = SawError(k, p, a)],
              ![k].out = OutAfter(k, p, a)]
        /\ UNCHANGED <<database, world, current, wakes, paused>>

\* No teammate is left: without an error on the way the raid has ended.
Conclude(k, p) ==
    \E a \in NoSigns(k, p) :
        /\ poll[k].task[p].left = {}
        /\ IF SawError(k, p, a)
           THEN UNCHANGED <<session, queued>>
           ELSE Delete(p) /\ EnqueueEnded(p, poll[k].rows[p])
        /\ Finish(k, p, a)
        /\ UNCHANGED <<known, check, world, current, wakes, paused>>

(***************************************************************************)
(* The candidates of pollActiveSessions.                                   *)
(***************************************************************************)

\* A teammate whose fireteam is confirmed: synthesizeSessionFromFireteam.
TakeCovered(k, p) ==
    /\ poll[k].phase = "candidates" /\ MayTake(k, p)
    /\ poll[k].covered[p].status = "active"
    /\ Upsert(p, poll[k].covered[p])
    /\ Online(p)
    /\ poll' = [poll EXCEPT ![k].todo = @ \ {p}]
    /\ UNCHANGED <<known, queued, world, current, wakes, paused>>

\* Mutant: the whole batch is covered, whatever the party.
CoversBatch(k, p, a) ==
    [q \in Players |->
        IF q \in poll[k].batch \ {p} /\ poll[k].covered[q].status = "pending"
        THEN a ELSE poll[k].covered[q]]

\* The members of the batch that an answer covers from now on.
Covers(k, p, a) ==
    [q \in Players |->
        IF q \in (a.party \cap poll[k].batch) \ {p} /\ poll[k].covered[q].status = "pending"
        THEN a ELSE poll[k].covered[q]]

CandidateActive(k, p) ==
    \E a \in Outcomes(k, p, "candidates") :
        /\ a.status = "active"
        /\ Upsert(p, a)
        /\ Online(p)
        /\ poll' = [poll EXCEPT ![k].task[p] = NoTask, ![k].met = @ \cup a.party,
                                ![k].covered = Covers(k, p, a)]
        /\ UNCHANGED <<known, queued, world, current, wakes, paused>>

\* Mutant: an error backs the player off too.
CandidateGoneOnError(k, p) ==
    \E a \in Outcomes(k, p, "candidates") :
        /\ \/ a.status \in {"inactive", "error"} /\ Offline(p)
           \/ a.status = "privacyRestricted" /\ Hidden(p)
        /\ Finish(k, p, a)
        /\ UNCHANGED <<known, session, queued, world, current, wakes, paused>>

\* A clean answer backs the player off; an error leaves the eligibility alone.
CandidateGone(k, p) ==
    \E a \in Outcomes(k, p, "candidates") :
        /\ \/ a.status = "inactive" /\ Offline(p)
           \/ a.status = "privacyRestricted" /\ Hidden(p)
           \/ a.status = "error" /\ UNCHANGED check
        /\ Finish(k, p, a)
        /\ UNCHANGED <<known, session, queued, world, current, wakes, paused>>

(***************************************************************************)
(* The end of each phase, once every task is over, and of the poll.        *)
(***************************************************************************)

PhaseOver(k, phase) ==
    poll[k].phase = phase /\ poll[k].todo = {} /\ Busy(k) = {}

\* The loop's catch: SystemDisabled starts a pause.  Nobody awaits an orphan.
Throw(k) ==
    /\ poll' = [poll EXCEPT ![k] = NoWork]
    /\ IF k = current THEN current' = 0 /\ paused' = TRUE
                      ELSE UNCHANGED <<current, paused>>

\* The force-delete goes by the clock at the start of the poll.
EndStale(k) ==
    /\ PhaseOver(k, "stale")
    /\ IF poll[k].disabled
       THEN Throw(k) /\ UNCHANGED session
       ELSE /\ session' = [p \in Players |->
                  IF session[p].checked < poll[k].start - MaxAge THEN NoSession ELSE session[p]]
            /\ poll' = [poll EXCEPT ![k].phase = "candidates", ![k].todo = poll[k].batch,
                                    ![k].rows = NoWork.rows]
            /\ UNCHANGED <<current, paused>>
    /\ UNCHANGED <<known, check, queued, world, wakes>>

Completes(k) ==
    /\ poll' = [poll EXCEPT ![k] = NoWork]
    /\ current' = IF k = current THEN 0 ELSE current
    /\ UNCHANGED paused

EndCandidates(k) ==
    /\ PhaseOver(k, "candidates")
    /\ \/ poll[k].disabled /\ Throw(k)
       \/ ~poll[k].disabled /\ poll[k].met \subseteq known /\ Completes(k)
       \/ /\ ~poll[k].disabled /\ ~(poll[k].met \subseteq known)
          /\ poll' = [poll EXCEPT ![k] = [NoWork EXCEPT
                !.phase = "resolve", !.start = poll[k].start, !.met = poll[k].met]]
          /\ UNCHANGED <<current, paused>>
    /\ UNCHANGED <<database, world, wakes>>

\* resolveUnknownPartyMembers: each member whose accounts Bungie gives joins the
\* players table; the rest fail, up to the limit or all of them.
Resolve(k, p) ==
    /\ poll[k].phase = "resolve" /\ TurnIsOver
    /\ p \in poll[k].met \ known /\ known' = known \cup {p}
    /\ UNCHANGED <<session, check, queued, world, poll, current, wakes, paused>>

EndPoll(k) ==
    /\ poll[k].phase = "resolve" /\ TurnIsOver
    /\ Completes(k) \/ Throw(k)
    /\ UNCHANGED <<database, world, wakes>>

(***************************************************************************)
(* activeSessionLoop: it waits for its timer and for the end of a pause,   *)
(* starts a poll, and awaits that poll or the watchdog.                    *)
(***************************************************************************)

BeginPoll(k) ==
    /\ current = 0 /\ ~paused /\ now >= wakes /\ TurnIsOver
    \* The interval counts from the timer, which a pause may have followed.
    /\ \E s \in wakes .. now : wakes' = s + Interval
    /\ poll[k].phase = "none" /\ \A j \in 1 .. k - 1 : poll[j].phase # "none"
    /\ current' = k
    /\ poll' = [poll EXCEPT ![k] =
          [NoWork EXCEPT
              !.phase = IF StaleRows = {} THEN "candidates" ELSE "stale",
              !.start = now,
              !.rows  = [p \in Players |-> IF p \in StaleRows THEN session[p] ELSE NoSession],
              !.batch = Candidates,
              !.todo  = IF StaleRows = {} THEN Candidates ELSE StaleRows,
              !.in    = InGame,
              !.out   = Players \ InGame]]
    /\ UNCHANGED <<database, world, paused>>

\* PollWatchdogError: the poll is abandoned where it is.
WatchdogFires ==
    /\ TurnIsOver /\ current # 0
    /\ now >= poll[current].start + Watchdog
    /\ current' = 0
    /\ UNCHANGED <<database, world, poll, wakes, paused>>

PauseEnds ==
    /\ TurnIsOver /\ paused /\ paused' = FALSE
    /\ UNCHANGED <<database, world, poll, current, wakes>>

(***************************************************************************)
(* The web server and the players.  A restart of the crawler is no action: *)
(* it leaves what a hung request leaves, the tables as they are.           *)
(***************************************************************************)

Event == events < MaxEvents /\ events' = events + 1

\* A browser posts the profile it has just read to active-session-update.  One
\* that is private and shows no activity changes no row.
BrowserPosts(p) ==
    /\ Event
    /\ known' = known \cup {p}
    /\ \/ Profile(p).status = "active" /\ Upsert(p, Profile(p))
       \/ Profile(p).status = "inactive" /\ Delete(p)
       \/ Profile(p).status = "inactive" /\ UNCHANGED session
    /\ UNCHANGED <<check, queued, now, doing, poll, current, wakes, paused>>

Move(p) ==
    /\ TurnIsOver /\ Event
    /\ \E d \in (Activities \cup {"offline"}) \ {doing[p]} :
          /\ doing' = [doing EXCEPT ![p] = d]
          /\ poll' = [k \in Polls |->
                IF poll[k].phase = "none" THEN poll[k]
                ELSE IF d = "offline" THEN [poll[k] EXCEPT !.out = @ \cup {p}]
                                      ELSE [poll[k] EXCEPT !.in = @ \cup {p}]]
    /\ UNCHANGED <<database, now, current, wakes, paused>>

Tick ==
    /\ TurnIsOver /\ now < MaxTime /\ now' = now + 1
    /\ UNCHANGED <<database, doing, events, poll, current, wakes, paused>>

\* What poll k goes on with in the same turn of the event loop.
Continues(k) ==
    EndStale(k) \/ EndCandidates(k) \/ \E p \in Players : Take(k, p) \/ TakeCovered(k, p)

TaskStep(k, p) ==
    \/ Reply(k, p) \/ Refused(k, p)
    \/ AnchorActive(k, p) \/ TeammateActive(k, p) \/ AnchorError(k, p)
    \/ NextProbe(k, p) \/ Conclude(k, p)
    \/ CandidateActive(k, p) \/ CandidateGone(k, p) \/ Resolve(k, p)

Next ==
    \/ \E k \in Polls :
          BeginPoll(k) \/ Continues(k) \/ EndPoll(k) \/ \E p \in Players : TaskStep(k, p)
    \/ WatchdogFires \/ PauseEnds \/ Tick
    \/ \E p \in Players : BrowserPosts(p) \/ Move(p)

Spec == Init /\ [][Next]_vars

\* What the process does by itself: a turn ends, a timer that is due fires, a
\* pause ends, the clock advances.  No request need ever be answered.
Running ==
    \/ WatchdogFires \/ PauseEnds \/ Tick
    \/ \E k \in Polls : BeginPoll(k) \/ Continues(k)

(***************************************************************************)
(* Properties.                                                             *)
(***************************************************************************)

TypeOK ==
    /\ now \in 1 .. MaxTime
    /\ doing \in [Players -> Activities \cup {"offline"}]
    /\ known \subseteq Players /\ queued \subseteq Players
    /\ session \in [Players -> Session]
    /\ check \in [Players -> [eligible : Nat, misses : Nat]]
    /\ poll \in [Polls -> PollState]
    /\ current \in 0 .. MaxPolls /\ wakes \in Nat
    /\ current # 0 => poll[current].phase # "none"
    /\ paused \in BOOLEAN
    /\ events \in 0 .. MaxEvents

\* The step is one of a worker, or of the end of a phase, of poll k.
By(k) == poll[k].phase # "none" /\ poll'[k] # poll[k]

\* The history that poll k's step leaves it with.
OutOf(k) == poll[k].out \cup poll'[k].out

\* "Timeout is not offline": whatever requests fail, hang or are answered late, a
\* poll removes a row only if the player was out of the game, or hidden, at some
\* time since the poll began, or if the row was older than MaxAge by then.
DeletedOnSignal ==
    [][ \A p \in Players, k \in Polls :
          session[p] # NoSession /\ session'[p] = NoSession /\ By(k) =>
              p \in OutOf(k) \/ session[p].checked < poll[k].start - MaxAge ]_vars

\* A poll writes a row only about a player who was in the game at some time since
\* it began, also the row it makes up for a teammate it did not ask about.
WrittenOnSignal ==
    [][ \A p \in Players, k \in Polls :
          session'[p] # session[p] /\ session'[p] # NoSession /\ By(k) =>
              p \in poll[k].in ]_vars

\* A player who has been in the game since a poll began is not put on the
\* backoff of players who are offline by that poll, whatever it runs into.
LiveRaiderNotBenched ==
    [][ \A p \in Players :
          check'[p].eligible > check[p].eligible =>
              \E k \in Polls : By(k) /\ p \in OutOf(k) ]_vars

\* A raid whose row the re-verification removes leaves the anchor and the
\* members the tracker knows in the crawl queue, unless somebody replaced the
\* row after it was selected or it was past MaxAge.
EndedRaidIsQueued ==
    [][ \A p \in Players, k \in Polls :
          /\ session[p].raid /\ session'[p] = NoSession
          /\ By(k) /\ poll[k].rows[p] = session[p]
          => {p} \cup (session[p].party \cap known) \subseteq queued' ]_vars
=============================================================================
