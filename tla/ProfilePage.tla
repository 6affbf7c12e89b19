---------------------------- MODULE ProfilePage -----------------------------
(***************************************************************************)
(* The profile page of one player: its fetches for a range of hours, and   *)
(* its live checks.  A check reads the last-known session from the server, *)
(* asks Bungie from the browser, posts the answer, and may go on to find   *)
(* the names of the fireteam or to ask a teammate.  Requests are neither   *)
(* cancelled nor numbered: a refresh starts a check beside the one before. *)
(*                                                                         *)
(* A request is answered in one step and its answer handled in another,    *)
(* between which everything else may happen.                               *)
(***************************************************************************)
EXTENDS ClientWrites

CONSTANTS
    Shown,                  \* the sets of parts a profile may show
    MaxClicks,              \* bound: refreshes and moves of the slider
    MaxMoves,               \* bound: raids that begin or end, or follow on another
    MaxEvents               \* bound: writes of the crawler and of other visitors, requests
                            \* that fail, maintenance of the database, expiry of the token

ASSUME PageAssumption == Shown \subseteq SUBSET Parts /\ {MaxClicks, MaxMoves, MaxEvents} \subseteq Nat

VARIABLES
    fetches,        \* fetchProfile calls under way
    profile,        \* there is data on the page
    loading, refreshing,
    checks,         \* fetchActiveSession calls under way
    shown,          \* activeSession
    private,        \* privacyRestricted
    activeLoading, liveChecking,
    asked,          \* hasQueuedOnIdentity
    posts,          \* requests to queue-crawl that were sent
    clicks, moves, events,
    spoiled,        \* history: a request failed or was refused for the state of the server
    last,           \* history: the number of checks
    live,           \* history: what the newest check found at Bungie, if the server took it
    late,           \* history: an older check showed something after that
    outdated,       \* history: somebody stored an older raid of Self after the newest
                    \* check's post
    gone            \* history: why the present raid is not in the row of Self

uiVars == <<fetches, profile, loading, refreshing, checks, shown, private,
            activeLoading, liveChecking, asked, posts>>
boundVars == <<clicks, moves, events, spoiled>>
historyVars == <<last, live, late, outdated, gone>>
vars == <<routeVars, uiVars, boundVars, historyVars>>

Pending == Bare("pending")

\* A check: its number, its request, the profile it has to post, and the reply.
NewCheck(n) == [no |-> n, stage |-> "baseline", has |-> Pending, reply |-> Pending]

Event == events < MaxEvents /\ events' = events + 1
Trouble == Event /\ spoiled' = TRUE

\* The page is opened: both effects run.
Init ==
    /\ world \in {0, 1}
    /\ \E hides \in BOOLEAN : \E s \in Shown : privacy = [account |-> hides, shows |-> IF hides THEN {} ELSE s]
    /\ rows \in [Members -> {0, 1}] /\ \A p \in Members : rows[p] <= world
    /\ known \in {{Self}, {Self, Mate}} /\ queued = FALSE
    /\ cooling = {} /\ fresh = TRUE /\ closed = FALSE
    /\ fetches = 1 /\ profile = FALSE /\ loading = TRUE /\ refreshing = FALSE
    /\ checks = {NewCheck(1)} /\ shown = Bare("none") /\ private = FALSE
    /\ activeLoading = TRUE /\ liveChecking = FALSE
    /\ asked = FALSE /\ posts = 0
    /\ clicks = 0 /\ moves = 0 /\ events = 0 /\ spoiled = FALSE
    /\ last = 1 /\ live = Pending /\ late = FALSE
    /\ outdated = FALSE /\ gone = IF InRaid(world) /\ rows[Self] = world THEN "stored" ELSE "unstored"

(***************************************************************************)
(* fetchProfile.                                                           *)
(***************************************************************************)

\* The effect of fetchProfile runs again when the range of hours changes; the slider
\* is shown beside a profile.
MoveSlider ==
    /\ profile
    /\ clicks < MaxClicks /\ clicks' = clicks + 1
    /\ fetches' = fetches + 1 /\ loading' = TRUE
    /\ UNCHANGED <<routeVars, profile, refreshing, checks, shown, private, activeLoading,
                   liveChecking, asked, posts, moves, events, spoiled, historyVars>>

\* "Refresh Player Data": shown beside a profile, disabled while one is refreshed.
Refresh ==
    /\ profile /\ ~refreshing
    /\ clicks < MaxClicks /\ clicks' = clicks + 1
    /\ fetches' = fetches + 1 /\ refreshing' = TRUE
    /\ checks' = checks \cup {NewCheck(last + 1)} /\ last' = last + 1
    /\ activeLoading' = TRUE
    /\ live' = Pending /\ late' = FALSE
    /\ UNCHANGED <<routeVars, profile, loading, shown, private, liveChecking, asked,
                   posts, moves, events, spoiled, outdated, gone>>

\* A fetch ends; any of them takes both spinners away.
FetchEnds ==
    /\ fetches > 0 /\ fetches' = fetches - 1
    /\ loading' = FALSE /\ refreshing' = FALSE
    /\ \/ profile' = TRUE /\ UNCHANGED <<events, spoiled>>
       \/ Trouble /\ UNCHANGED profile
    /\ UNCHANGED <<routeVars, checks, shown, private, activeLoading, liveChecking, asked, posts,
                   clicks, moves, historyVars>>

(***************************************************************************)
(* A request of a check is answered, by the server or by Bungie.           *)
(***************************************************************************)

Becomes(c, d) == checks' = (checks \ {c}) \cup {d}
Receives(c, r) == Becomes(c, [c EXCEPT !.reply = r])

Reads == [baseline |-> {OwnSession}, reread |-> {OwnSession},
          containing |-> ContainingSession, contained |-> ContainingSession,
          profile |-> {Profile(Self, world)}, mate |-> {Profile(Mate, world)}, linked |-> {Bare("profile")}]

\* Why the row of Self no longer has the raid in progress, when the answer of somebody
\* has been written: it was of before or after the raid, or withheld only component 1000.
Gone(answer) ==
    gone' = IF ~InRaid(world) \/ rows'[Self] = rows[Self] THEN gone
            ELSE IF rows'[Self] = world THEN "stored"
            ELSE IF answer.as # world THEN "older"
            ELSE IF answer.shows = Parts \ {"transitory"} THEN "blind" ELSE "other"

Others(answer) ==
    /\ Gone(answer)
    /\ outdated' = (outdated \/ (rows'[Self] # rows[Self] /\ rows'[Self] \notin {0, world}))

Answer(c) ==
    /\ c \in checks /\ c.reply = Pending
    /\ \/ /\ c.stage \in DOMAIN Reads
          /\ \E r \in Reads[c.stage] : Receives(c, r)
          /\ UNCHANGED <<tables, cooling, outdated, gone>>
       \/ /\ c.stage = "update"
          /\ UpdateWrites(Self, c.has)
          /\ \E r \in UpdateReplies(c.has) : Receives(c, r)
          /\ IF c.no = last THEN outdated' = FALSE /\ Gone(c.has) ELSE Others(c.has)
       \/ /\ c.stage = "mateUpdate"
          /\ UpdateWrites(Mate, c.has)
          /\ Receives(c, Bare("none"))
          /\ UNCHANGED <<outdated, gone>>
       \/ /\ c.stage = "identity"
          /\ IdentityWrites
          /\ Receives(c, IdentityReply)
          /\ UNCHANGED <<outdated, gone>>
    /\ UNCHANGED <<world, privacy, fresh, closed, fetches, profile, loading, refreshing, shown,
                   private, activeLoading, liveChecking, asked, posts, boundVars, last, live, late>>

\* No answer, or a status that is not 2xx, before or after the request was handled.
Spoiled(c) ==
    /\ c \in checks /\ c.reply.kind \notin {"failed", "refused"} /\ Trouble
    /\ \E kind \in {"failed", "refused"} : Receives(c, Bare(kind))
    /\ UNCHANGED <<routeVars, fetches, profile, loading, refreshing, shown, private,
                   activeLoading, liveChecking, asked, posts, clicks, moves, historyVars>>

(***************************************************************************)
(* The page handles the answer.                                            *)
(***************************************************************************)

Goes(c, stage) == Becomes(c, [c EXCEPT !.stage = stage, !.has = Pending, !.reply = Pending])
Posts(c, stage) == Becomes(c, [c EXCEPT !.stage = stage, !.has = c.reply, !.reply = Pending])
Ends(c) == checks' = checks \ {c}

\* setActiveSession.
Shows(c, r) ==
    /\ shown' = Reply(r.kind, r.as, FALSE)
    /\ late' = (late \/ (c.no < last /\ live # Pending))
ShowsNothingNew == UNCHANGED <<shown, late>>

queueing == <<asked, posts, queued>>

QueueCrawlAgain(skip) ==   \* mutant: every check asks
    /\ asked' = TRUE
    /\ IF skip THEN UNCHANGED <<posts, queued>>
       ELSE posts' = posts + 1 /\ QueueWrites

\* queueCrawlOnce; its request arrives at once, for nothing here reads the queue.
QueueCrawlOnce(skip) ==
    /\ asked' = TRUE
    /\ IF asked \/ skip THEN UNCHANGED <<posts, queued>>
       ELSE posts' = posts + 1 /\ QueueWrites

HandleBaseline(c) ==
    /\ c.stage = "baseline"
    /\ activeLoading' = FALSE
    /\ IF c.reply.kind \in {"failed", "refused", "closed"}
       THEN Shows(c, Bare("none")) /\ Ends(c) /\ UNCHANGED liveChecking
       ELSE Shows(c, c.reply) /\ Goes(c, "profile") /\ liveChecking' = TRUE
    /\ UNCHANGED <<private, queueing, live>>

HandleProfileThenOnly(c) ==   \* mutant: the spinner ends with an answer only
    /\ c.stage = "profile"
    /\ \/ /\ c.reply.kind = "private"
          /\ Goes(c, "containing") /\ UNCHANGED <<queueing, liveChecking>>
       \/ /\ c.reply.kind = "profile"
          /\ Posts(c, "update")
          /\ UNCHANGED <<queueing, liveChecking>>
       \/ /\ c.reply.kind \in {"failed", "refused"}
          /\ Ends(c) /\ QueueCrawlOnce(FALSE) /\ UNCHANGED liveChecking
    /\ ShowsNothingNew
    /\ UNCHANGED <<private, activeLoading, live>>

\* verifyActiveSessionLive.
HandleProfile(c) ==
    /\ c.stage = "profile"
    /\ \/ /\ c.reply.kind = "private"
          /\ Goes(c, "containing") /\ UNCHANGED <<queueing, liveChecking>>
       \/ /\ c.reply.kind = "profile"
          /\ Posts(c, "update")
          /\ UNCHANGED <<queueing, liveChecking>>
       \/ /\ c.reply.kind \in {"failed", "refused"}
          /\ Ends(c) /\ QueueCrawlOnce(FALSE) /\ liveChecking' = FALSE
    /\ ShowsNothingNew
    /\ UNCHANGED <<private, activeLoading, live>>

HandleContaining(c) ==
    /\ c.stage = "containing"
    /\ Ends(c) /\ liveChecking' = FALSE
    /\ IF c.reply.kind = "failed"
       THEN QueueCrawlOnce(FALSE) /\ ShowsNothingNew /\ UNCHANGED private
       ELSE /\ QueueCrawlOnce(TRUE) /\ private' = TRUE
            /\ Shows(c, IF c.reply.kind = "session" THEN c.reply ELSE Bare("none"))
    /\ UNCHANGED <<activeLoading, live>>

HandleUpdateAlways(c) ==   \* mutant: a check that ends without a session shows nothing new
    /\ c.stage = "update"
    /\ QueueCrawlOnce(FALSE) /\ liveChecking' = FALSE
    /\ IF c.reply.kind \in {"failed", "refused", "none"}
       THEN ShowsNothingNew /\ Ends(c) /\ UNCHANGED private
       ELSE /\ private' = (private \/ IsPrivate(c.has))
            /\ Shows(c, c.reply)
            /\ IF ~c.reply.more THEN Ends(c)
               ELSE Goes(c, IF c.reply.kind = "session" THEN "linked" ELSE "mate")
    /\ live' = IF c.no = last /\ Legible(c.has) /\ c.reply.kind \in {"session", "none"} /\ c.reply.as = c.has.as
               THEN c.reply ELSE live
    /\ UNCHANGED activeLoading

\* The live part is over; names and teammates are looked up without a spinner.
HandleUpdate(c) ==
    /\ c.stage = "update"
    /\ QueueCrawlOnce(FALSE) /\ liveChecking' = FALSE
    /\ IF c.reply.kind \in {"failed", "refused"}
       THEN ShowsNothingNew /\ Ends(c) /\ UNCHANGED private
       ELSE /\ private' = (private \/ IsPrivate(c.has))
            /\ Shows(c, c.reply)
            /\ IF ~c.reply.more THEN Ends(c)
               ELSE Goes(c, IF c.reply.kind = "session" THEN "linked" ELSE "mate")
    /\ live' = IF c.no = last /\ Legible(c.has) /\ c.reply.kind \in {"session", "none"} /\ c.reply.as = c.has.as
               THEN c.reply ELSE live
    /\ UNCHANGED activeLoading

\* resolveUnknownMembersAndRefresh and resolveFireteamActivity: a teammate whose
\* profile is posted without success is asked about all the same.
Follows == [linked |-> "identity", identity |-> "reread", mate |-> "mateUpdate", mateUpdate |-> "contained"]

HandleFollowUp(c) ==
    /\ \/ /\ c.stage \in DOMAIN Follows
          /\ IF c.reply.kind = "failed" \/ (c.reply.kind = "refused" /\ c.stage # "mateUpdate")
             THEN Ends(c)
             ELSE IF c.stage = "mate" THEN Posts(c, "mateUpdate") ELSE Goes(c, Follows[c.stage])
          /\ ShowsNothingNew
       \/ /\ c.stage \in {"reread", "contained"}
          /\ Ends(c)
          /\ IF c.reply.kind = "session" THEN Shows(c, c.reply) ELSE ShowsNothingNew
    /\ UNCHANGED <<private, activeLoading, liveChecking, queueing, live>>

Handle(c) ==
    /\ c \in checks /\ c.reply # Pending
    /\ HandleBaseline(c) \/ HandleProfile(c) \/ HandleContaining(c) \/ HandleUpdate(c) \/ HandleFollowUp(c)
    /\ UNCHANGED <<world, privacy, rows, known, cooling, closed, fresh,
                   fetches, profile, loading, refreshing, boundVars, last, outdated, gone>>

(***************************************************************************)
(* What happens around the page.                                           *)
(***************************************************************************)

\* The raid begins or ends, or gives way to another at once.
Move ==
    /\ moves < MaxMoves /\ moves' = moves + 1
    /\ world' = world + 1 \/ (InRaid(world) /\ world' = world + 2)
    /\ gone' = "unstored"
    /\ UNCHANGED <<privacy, serverVars, fresh, uiVars, clicks, events, spoiled,
                   last, live, late, outdated>>

\* The crawler writes, for p, what it learned of him or of a member of his fireteam at
\* any time before; or it stores a raid with p, which gives him a name; or his row was
\* not checked for so long that it is read no more, or the crawler finds nobody.
CrawlerWrites(p) ==
    /\ ~closed /\ Event
    /\ \/ \E n \in 1..world :
            /\ InRaid(n) /\ rows' = [rows EXCEPT ![p] = n]
            /\ Others(Profile(Mate, n)) /\ UNCHANGED known
       \/ rows' = [rows EXCEPT ![p] = 0] /\ UNCHANGED <<known, outdated>>
          /\ gone' = IF p = Self /\ rows[Self] = world /\ InRaid(world) THEN "dropped" ELSE gone
       \/ known' = known \cup {p} /\ UNCHANGED <<rows, outdated, gone>>
    /\ UNCHANGED <<world, privacy, queued, cooling, fresh, closed, uiVars, clicks, moves, spoiled,
                   last, live, late>>

\* The browser of another visitor posts what Bungie told it at any time before; his
\* cooldowns are his own.
VisitorPosts(p) ==
    /\ ~closed /\ Event
    /\ \E n \in 0..world :
         /\ Profile(p, n).kind = "profile"
         /\ rows' = [rows EXCEPT ![p] = ParsedRow(p, Profile(p, n))]
         /\ Others(Profile(p, n))
    /\ known' = known \cup {p}
    /\ UNCHANGED <<world, privacy, queued, cooling, fresh, closed, uiVars, clicks, moves, spoiled,
                   last, live, late>>

\* A cooldown is over, the token expires, the database closes and opens again.
TimePasses ==
    /\ \/ \E k \in cooling : cooling' = cooling \ {k} /\ UNCHANGED <<fresh, closed, events, spoiled>>
       \/ fresh /\ Trouble /\ fresh' = FALSE /\ UNCHANGED <<cooling, closed>>
       \/ ~closed /\ Trouble /\ closed' = TRUE /\ UNCHANGED <<cooling, fresh>>
       \/ closed /\ closed' = FALSE /\ UNCHANGED <<cooling, fresh, events, spoiled>>
    /\ UNCHANGED <<world, privacy, tables, uiVars, clicks, moves, historyVars>>

(***************************************************************************)
(* The specification.                                                      *)
(***************************************************************************)

PageStep ==
    \/ FetchEnds
    \/ \E c \in checks : Answer(c) \/ Spoiled(c) \/ Handle(c)

Next ==
    \/ PageStep
    \/ Refresh \/ MoveSlider
    \/ Move \/ TimePasses
    \/ \E p \in Members : CrawlerWrites(p) \/ VisitorPosts(p)

\* A request of a browser is answered or fails in the end.
Spec == Init /\ [][Next]_vars /\ WF_vars(PageStep)

(***************************************************************************)
(* Properties.                                                             *)
(***************************************************************************)

Quiet == fetches = 0 /\ checks = {}

\* queueCrawlOnce: "queue a background crawl once per profile visit", deferred until
\* the privacy check settles: never twice, whatever is refreshed; and, when no
\* request went wrong, for everybody but players whose account is private.
QueuedOnceUnlessPrivate ==
    /\ posts <= 1
    /\ Quiet /\ ~spoiled => (posts = 1 <=> ~privacy.account)

\* The answer of the newest check is on the page at the end, or a newer one, however
\* the visitor refreshed and the crawler wrote: unless an older check showed its own
\* after it, or somebody stored an older raid after its post.
LiveAnswerIsShown ==
    Quiet /\ ~late /\ ~outdated /\ live # Pending =>
      /\ shown.as >= live.as
      /\ live.kind = "none" => shown.kind = "none"

\* active-session-update: "we couldn't see their activity. Do NOT delete their
\* session".  A raid in progress that anybody stored for the player, the crawler from a
\* teammate's answer too, stays until it is over, whatever checks and other visitors
\* post: unless an answer was of before or after the raid, or withheld component 1000
\* and nothing else, or the row was dropped for its age.
RaidRowIsKept ==
    InRaid(world) /\ rows[Self] # world => gone \in {"unstored", "older", "blind", "dropped"}

\* A fireteam member without a name gets one while the page is open.
MembersBecomeKnown ==
    Quiet /\ ~spoiled /\ live.kind = "session" => Mate \in known

\* The page comes to rest: every check and fetch ends, whatever fails, and no spinner
\* is left.
PageSettles == <>[](Quiet /\ ~loading /\ ~refreshing /\ ~activeLoading /\ ~liveChecking)
=============================================================================
