---------------------------- MODULE BungieClient ----------------------------
(***************************************************************************)
(* The client of one API key in one process (src/lib/bungie/client.ts) and *)
(* the limiter in front of it (src/lib/utils/rate-limiter.ts).  Grants are *)
(* a chain of promises, so only the first caller of the queue looks at     *)
(* nextSlot; it sleeps until the slot it read and looks again, because an  *)
(* answer may have moved the slot meanwhile.  Any answer may pause the     *)
(* key.                                                                    *)
(*                                                                         *)
(* Instants are kept as the time left until them, in ticks: ahead is       *)
(* nextSlot - now, timer what is left of the sleep.  Whether a request     *)
(* returns data or throws concerns its caller only, whose module says      *)
(* what it makes of it.                                                    *)
(***************************************************************************)
EXTENDS Integers, Sequences

CONSTANTS
    Callers,        \* whoever may have a request under way at the same time
    Interval,       \* 1000 / maxRequestsPerSecond
    DefaultPause,   \* of a 429 without Retry-After
    Backoff,        \* getGameServerBackoffSec
    Early,          \* how much of a sleep setTimeout may cut off
    Replies         \* [http, retryAfter, code, throttle] of an answer, as parsed

ASSUME ClientConstants ==
    /\ Interval \in Nat \ {0}
    /\ DefaultPause \in Nat /\ Backoff \in Nat /\ Early \in Nat
    /\ Replies \subseteq [http : Nat, retryAfter : Nat, code : Nat, throttle : Nat]

VARIABLES
    queue,      \* callers whose wait() is not granted, in the order they asked
    flight,     \* callers whose fetch is out, some of them for ever
    ahead,      \* how far nextSlot lies ahead
    timer,      \* what is left of the first waiter's sleep
    rest,       \* history: what is left of the slot of the last grant
    quiet       \* history: what is left of the longest throttle Bungie named

vars == <<queue, flight, ahead, timer, rest, quiet>>

Queued == {queue[k] : k \in DOMAIN queue}
Larger(a, b) == IF a > b THEN a ELSE b
LessOne(n) == IF n > 0 THEN n - 1 ELSE 0

Init ==
    /\ queue = <<>> /\ flight = {}
    /\ ahead = 0 /\ timer = 0
    /\ rest = 0 /\ quiet = 0

\* A method of the client is called: request() waits for its grant.
Ask(c) ==
    /\ c \notin Queued \cup flight
    /\ queue' = Append(queue, c)
    /\ UNCHANGED <<flight, ahead, timer, rest, quiet>>

-----------------------------------------------------------------------------
(* RateLimiter.wait *)

SlotTakenAtOnce == ahead >= 0

SlotTaken == ahead > 0

\* The loop's head finds the slot ahead, and sleeps until then.
Sleep ==
    /\ queue # <<>> /\ timer = 0
    /\ SlotTaken
    /\ timer' = IF ahead > Early THEN ahead - Early ELSE 1
    /\ UNCHANGED <<queue, flight, ahead, rest, quiet>>

\* A sleeper that does not look again.
GrantAfterSleep ==
    /\ queue # <<>> /\ timer = 0
    /\ ahead' = Interval
    /\ queue' = Tail(queue)
    /\ flight' = flight \cup {Head(queue)}
    /\ rest' = Interval
    /\ UNCHANGED <<timer, quiet>>

\* The slot is free: the first waiter takes it, and its request leaves.
Grant ==
    /\ queue # <<>> /\ timer = 0
    /\ ~SlotTaken
    /\ ahead' = Interval
    /\ queue' = Tail(queue)
    /\ flight' = flight \cup {Head(queue)}
    /\ rest' = Interval
    /\ UNCHANGED <<timer, quiet>>

\* RateLimiter.pauseFor
PauseFor(seconds) == ahead' = Larger(ahead, seconds)

-----------------------------------------------------------------------------
(* BungieClient.request, from the answer on *)

Ok(reply) == reply.http \in 200..299

\* How long the answer pauses the key; 0 for not at all.
PauseSec(reply) ==
    CASE Ok(reply) -> reply.throttle
      [] reply.http = 429 -> IF reply.retryAfter > 0 THEN reply.retryAfter ELSE DefaultPause
      [] reply.code = 1672 /\ ~Ok(reply) /\ reply.http # 429 -> Larger(reply.throttle, Backoff)
      [] OTHER -> 0

\* What the answer itself says about the key.
Throttle(reply) ==
    CASE reply.http = 429 -> reply.retryAfter
      [] reply.http # 429 /\ (Ok(reply) \/ reply.code = 1672) -> reply.throttle
      [] OTHER -> 0

Answer(c) ==
    /\ c \in flight
    /\ flight' = flight \ {c}
    /\ \E reply \in Replies :
        /\ PauseFor(PauseSec(reply))
        /\ quiet' = Larger(quiet, Throttle(reply))
    /\ UNCHANGED <<queue, timer, rest>>

\* The connection breaks, the body is not JSON, or AbortSignal.timeout fires.
Reject(c) ==
    /\ c \in flight
    /\ flight' = flight \ {c}
    /\ UNCHANGED <<queue, ahead, timer, rest, quiet>>

Tick ==
    /\ ahead' = LessOne(ahead)
    /\ timer' = LessOne(timer)
    /\ rest' = LessOne(rest)
    /\ quiet' = LessOne(quiet)
    /\ UNCHANGED <<queue, flight>>

Next ==
    \/ \E c \in Callers : Ask(c) \/ Answer(c) \/ Reject(c)
    \/ Sleep \/ Grant \/ Tick

\* Time passes and the promise chain runs.  Nothing is assumed of a fetch: its
\* timeout may fail to end it (crawler/index.ts:161-166).
Fairness == WF_vars(Tick) /\ WF_vars(Sleep) /\ WF_vars(Grant)

Spec == Init /\ [][Next]_vars /\ Fairness

-----------------------------------------------------------------------------
(* Properties *)

\* A caller has one request under way, and the first waiter never sleeps past the
\* slot it waits for (rate-limiter.ts:18).
TypeOK ==
    /\ queue \in Seq(Callers) /\ flight \subseteq Callers
    /\ \A j, k \in DOMAIN queue : j # k => queue[j] # queue[k]
    /\ Queued \cap flight = {}
    /\ ahead \in Nat /\ timer \in 0..ahead
    /\ rest \in 0..Interval /\ quiet \in Nat

Budget == INSTANCE KeyBudget WITH waiting <- Queued, flying <- flight

\* "Concurrent callers can't burst past the RPS" (rate-limiter.ts:10-11) and a
\* pause "blocks all queued and future grants" (31-33): a request leaves only a
\* full slot after the one before it, and never while a throttle that any
\* answer has named is in force.
ImplementsBudget == Budget!Spec

\* Every request leaves, although the fetches of others may hang for ever and
\* their answers pause the key while it waits: a caller keeps nobody from a
\* grant but by the pauses he is answered, and he is answered only once.
EveryRequestLeaves == \A c \in Callers : c \in Queued ~> c \notin Queued
=============================================================================
