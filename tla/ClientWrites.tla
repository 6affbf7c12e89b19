---------------------------- MODULE ClientWrites ----------------------------
(***************************************************************************)
(* The routes a profile page talks to: the read of a player's session, and *)
(* the three writes a visitor's browser may do (active-session-update,     *)
(* identity, queue-crawl) behind their guards.  A route handles a request  *)
(* in one turn of the event loop once it has the body.                     *)
(*                                                                         *)
(* One player, Self, whose page is open, and one teammate of his, Mate.    *)
(* What Bungie knows is a counter: it goes up when their raid begins or    *)
(* ends, and they are in a raid when it is odd.  A session is its number.  *)
(***************************************************************************)
EXTENDS Integers, FiniteSets

CONSTANTS Self, Mate

ASSUME WritesAssumption == Self # Mate

VARIABLES
    world,      \* external: the raids of Self and Mate, as Bungie knows them
    privacy,    \* external: if Self hides his account, and the parts his profile shows
    rows,       \* active_sessions: the number of the raid, or 0
    known,      \* the players table: whoever has a name and a membership type
    queued,     \* crawl_queue has a row of Self, and its gate his key
    cooling,    \* the keys a CooldownGate has seen less than its time ago
    fresh,      \* the page token has not expired
    closed      \* the database is in maintenance

tables == <<rows, known, queued>>
serverVars == <<tables, cooling, closed>>
routeVars == <<world, privacy, serverVars, fresh>>

Members == {Self, Mate}
InRaid(n) == n % 2 = 1

\* What a profile may withhold of what the server reads in it: that the account is
\* public, component 204 (with the hash of the activity, wherever it is given), and
\* component 1000.
Parts == {"public", "activities", "transitory"}

(***************************************************************************)
(* Replies.                                                                *)
(***************************************************************************)

\* kind "failed": no reply; "refused": a status that is not 2xx, or skipped;
\* "closed": the payload of a database in maintenance; "private": account-wide
\* privacy; "profile": a profile of Bungie's; "session", "provisional" and "none"
\* tell what Self does.  as: the number of the raid; more: there are members to
\* resolve, or teammates to ask; shows: the parts a profile does not withhold.
Reply(kind, as, more) == [kind |-> kind, as |-> as, more |-> more, shows |-> {}]
Bare(kind) == Reply(kind, 0, FALSE)
Stored(n) == IF n = 0 THEN Bare("none") ELSE Reply("session", n, FALSE)

\* GET part=active: the player's own row.
OwnSession == IF closed THEN Bare("closed") ELSE Stored(rows[Self])

\* getActiveSessionContainingPlayer: the row that was checked last, of those that
\* name Self.
Containing ==
    LET held == {p \in Members : rows[p] # 0}
    IN  IF held = {} THEN {Bare("none")} ELSE {Stored(rows[p]) : p \in held}

\* GET part=active&containing=1.
ContainingSession == IF closed THEN {Bare("none")} ELSE Containing

(***************************************************************************)
(* The guards of a write.                                                  *)
(***************************************************************************)

\* isTrustedClientWrite, then the gate, which counts a request that fails later.
Admitted(key) == fresh /\ key \notin cooling
Record(key) == cooling' = IF Admitted(key) THEN cooling \cup {key} ELSE cooling
Accepted(key) == Admitted(key) /\ ~closed

(***************************************************************************)
(* POST active-session-update.                                             *)
(***************************************************************************)

\* Bungie's answer to a request for the profile of p, when the world is n.
Profile(p, n) ==
    IF p = Self /\ privacy.account THEN Bare("private")
    ELSE [Bare("profile") EXCEPT !.as = n, !.shows = IF p = Self THEN privacy.shows ELSE Parts]

\* parseAndStoreActivity: a hash and component 1000; anything else is "inactive".
Legible(profile) == {"activities", "transitory"} \subseteq profile.shows
Active(profile) == InRaid(profile.as) /\ Legible(profile)

\* isProfilePrivate: an account that is not public, or component 204 withheld.
IsPrivate(profile) == ~({"public", "activities"} \subseteq profile.shows)

ClearsAny(profile) == ~Active(profile)   \* mutant: what is withheld counts as offline

\* "Inactive AND public": also who is in a raid and withholds component 1000 only.
Clears(profile) == ~Active(profile) /\ ~IsPrivate(profile)

\* The row of p once the profile is parsed.
ParsedRow(p, profile) ==
    IF Clears(profile) THEN 0 ELSE IF Active(profile) THEN profile.as ELSE rows[p]

UpdateKey(p) == <<"update", p>>

UpdateWrites(p, profile) ==
    /\ Record(UpdateKey(p))
    /\ IF Accepted(UpdateKey(p))
       THEN /\ known' = known \cup {p}
            /\ rows' = [rows EXCEPT ![p] = ParsedRow(p, profile)]
       ELSE UNCHANGED <<known, rows>>
    /\ UNCHANGED queued

\* Self's browser gets his session, and whether it names a member without a row;
\* when it is private, that of a stored fireteam, or a provisional one and whether
\* there is a teammate to ask.
UpdateReplies(profile) ==
    IF ~Accepted(UpdateKey(Self)) THEN {Bare("refused")}
    ELSE IF Active(profile) THEN {Reply("session", profile.as, Mate \notin known)}
    ELSE IF IsPrivate(profile) /\ \E q \in Members : rows[q] # 0 THEN Containing
    ELSE IF IsPrivate(profile) /\ InRaid(profile.as) /\ "transitory" \in profile.shows
         THEN {Reply("provisional", profile.as, Mate \in known)}
    ELSE {Reply("none", profile.as, FALSE)}

(***************************************************************************)
(* POST identity and POST queue-crawl.                                     *)
(***************************************************************************)

IdentityKey == <<"identity", Mate>>

IdentityWritesNotNew ==   \* mutant: it fills in rows, and inserts none
    /\ Record(IdentityKey)
    /\ UNCHANGED tables

\* upsertPlayerFillOnly of the teammate.
IdentityWrites ==
    /\ Record(IdentityKey)
    /\ known' = IF Accepted(IdentityKey) THEN known \cup {Mate} ELSE known
    /\ UNCHANGED <<rows, queued>>

\* A request that comes too soon is answered with status 200.
IdentityReply == IF fresh /\ (IdentityKey \in cooling \/ ~closed) THEN Bare("none") ELSE Bare("refused")

\* enqueueCrawl, behind the same guards; the limit by address, the player's cooldown
\* and the backoff of the crawler may refuse it too, or it gets lost.
QueueWrites ==
    \/ fresh /\ ~closed /\ queued' = TRUE
    \/ UNCHANGED queued
=============================================================================
