------------------------------ MODULE SwrCache ------------------------------
(***************************************************************************)
(* The in-process stale-while-revalidate cache of the web server: the      *)
(* requests of one process call getOrCompute concurrently, and their       *)
(* computations (the slow leaderboard and analytics queries) succeed or    *)
(* fail.  A step is what one request or computation does between two       *)
(* awaits, which Node runs without interruption.                           *)
(*                                                                         *)
(* A request starts at most one computation, so the computations are named *)
(* after the requests that start them.                                     *)
(***************************************************************************)
EXTENDS Integers, FiniteSets

CONSTANTS
    Keys,
    Requests,     \* bound: the calls of getOrCompute in a behaviour
    FreshMs, StaleMs, NegativeMs,   \* opts
    MaxEntries,   \* MAX_ENTRIES
    MaxTime       \* bound: the clock stops here

ASSUME SwrAssumption ==
    /\ "none" \notin Requests
    /\ FreshMs \in Nat /\ StaleMs \in Nat /\ NegativeMs \in Nat
    /\ MaxEntries \in Nat \ {0} /\ MaxTime \in Nat \ {0}

VARIABLES
    now,        \* the clock, from 1
    values,     \* when the value of each key was stored, 0 if there is none
    negatives,  \* when the last computation of a key failed, 0 if none did
    inflight,   \* the computation a key's inflight entry stands for, or "none"
    request,    \* what each request asked for and when, and where it is
    job,        \* the state of the computation each request started
    troubled    \* history: the keys one of whose computations has failed or
                \* one of whose values has been evicted

cacheVars == <<now, values, negatives, inflight, request, job, troubled>>

Places == {"new",        \* not received yet
           "waiting",    \* awaits a computation another request started
           "computing",  \* awaits its own
           "hit", "stale", "stale-error", "miss", "error"}   \* answered
Answered == {"hit", "stale", "stale-error", "miss", "error"}

JobStates == {"none", "scheduled",   \* for setImmediate
              "running", "settled"}

CacheInit ==
    /\ now = 1
    /\ values = [k \in Keys |-> 0] /\ negatives = [k \in Keys |-> 0]
    /\ inflight = [k \in Keys |-> "none"]
    /\ \E k \in Keys :
          request = [r \in Requests |->
                        [at |-> 0, key |-> k, place |-> "new", awaits |-> "none"]]
    /\ job = [r \in Requests |-> "none"]
    /\ troubled = {}

Moved(r, place) == [request EXCEPT ![r].place = place]

HasValue(k) == values[k] # 0
Age(k)      == now - values[k]
IsFresh(k)  == HasValue(k) /\ Age(k) <= FreshMs
IsStale(k)  == HasValue(k) /\ ~IsFresh(k) /\ Age(k) <= StaleMs
IsNegative(k) == negatives[k] # 0 /\ now - negatives[k] <= NegativeMs

(***************************************************************************)
(* Storing and evicting.                                                   *)
(***************************************************************************)

WithValue(k) == [values EXCEPT ![k] = now]

EntriesOf(v) == {k \in Keys : v[k] # 0}

Fits(v) == Cardinality(EntriesOf(v)) <= MaxEntries

\* evictIfNeeded: at most one entry goes, one of the oldest.
Evicted(v) ==
    IF Fits(v) THEN {v}
    ELSE {[v EXCEPT ![k] = 0] :
             k \in {old \in EntriesOf(v) : \A e \in EntriesOf(v) : v[old] <= v[e]}}

StoreValue(k) ==
    /\ values' \in Evicted(WithValue(k))
    /\ negatives' = [negatives EXCEPT ![k] = 0]
    /\ troubled' = troubled \cup {e \in EntriesOf(WithValue(k)) : values'[e] = 0}

(***************************************************************************)
(* getOrCompute.                                                           *)
(***************************************************************************)

Arrives(r, k, place) ==
    /\ request[r].place = "new"
    /\ request' = [request EXCEPT
                      ![r] = [at |-> now, key |-> k, place |-> place,
                              awaits |-> IF place = "waiting" THEN inflight[k]
                                         ELSE "none"]]

Hit(r, k) ==
    /\ IsFresh(k)
    /\ Arrives(r, k, "hit")
    /\ UNCHANGED <<now, values, negatives, inflight, job, troubled>>

NothingInFlightUnchecked(k) == TRUE   \* mutant: inflight.has is not asked

\* The test of scheduleRefresh and of computeBlocking.
NothingInFlight(k) == inflight[k] = "none"

\* The stale value is served at once and a refresh scheduled behind it.
ServeStale(r, k) ==
    /\ IsStale(k)
    /\ Arrives(r, k, IF negatives[k] # 0 THEN "stale-error" ELSE "stale")
    /\ IF NothingInFlight(k)
       THEN /\ inflight' = [inflight EXCEPT ![k] = r]
            /\ job' = [job EXCEPT ![r] = "scheduled"]
       ELSE UNCHANGED <<inflight, job>>
    /\ UNCHANGED <<now, values, negatives, troubled>>

\* throw negative.error
Refusal == "error"

\* A recent failure is repeated to the caller.
Refuse(r, k) ==
    /\ ~IsFresh(k) /\ ~IsStale(k) /\ IsNegative(k)
    /\ Arrives(r, k, Refusal)
    /\ UNCHANGED <<now, values, negatives, inflight, job, troubled>>

\* The start of computeBlocking: await what is in flight, or compute.
MissAndWait(r, k) ==
    /\ ~IsFresh(k) /\ ~IsStale(k) /\ ~IsNegative(k)
    /\ ~NothingInFlight(k)
    /\ Arrives(r, k, "waiting")
    /\ UNCHANGED <<now, values, negatives, inflight, job, troubled>>

MissAndCompute(r, k) ==
    /\ ~IsFresh(k) /\ ~IsStale(k) /\ ~IsNegative(k)
    /\ NothingInFlight(k)
    /\ Arrives(r, k, "computing")
    /\ inflight' = [inflight EXCEPT ![k] = r]
    /\ job' = [job EXCEPT ![r] = "running"]
    /\ UNCHANGED <<now, values, negatives, troubled>>

(***************************************************************************)
(* computeBlocking behind another computation.                             *)
(***************************************************************************)

AwokenBySuccess(r) ==   \* mutant: the promise is resolved in the try block
    /\ request[r].place = "waiting" /\ job[request[r].awaits] = "settled"
    /\ HasValue(request[r].key)

Awoken(r) == request[r].place = "waiting" /\ job[request[r].awaits] = "settled"

\* There is a value now.
Reuse(r) ==
    /\ Awoken(r) /\ HasValue(request[r].key)
    /\ request' = Moved(r, "miss")
    /\ UNCHANGED <<now, values, negatives, inflight, job, troubled>>

\* There is none: the request computes, whatever other requests do.
ComputeAfterAll(r) ==
    LET k == request[r].key IN
    /\ Awoken(r) /\ ~HasValue(k)
    /\ request' = Moved(r, "computing")
    /\ inflight' = [inflight EXCEPT ![k] = r]
    /\ job' = [job EXCEPT ![r] = "running"]
    /\ UNCHANGED <<now, values, negatives, troubled>>

(***************************************************************************)
(* The computations.                                                       *)
(***************************************************************************)

\* setImmediate.
RefreshRuns(r) ==
    /\ job[r] = "scheduled"
    /\ job' = [job EXCEPT ![r] = "running"]
    /\ UNCHANGED <<now, values, negatives, inflight, request, troubled>>

InflightKeptOnError(k, failed) ==   \* mutant: no finally around the delete
    IF failed THEN inflight ELSE [inflight EXCEPT ![k] = "none"]

\* inflight.delete(key) in the finally block, whoever's entry it is.
InflightDeleted(k, failed) == [inflight EXCEPT ![k] = "none"]

\* The request behind a blocking computation gets its outcome; that behind a
\* refresh was answered before.
Settles(r, outcome) ==
    /\ job' = [job EXCEPT ![r] = "settled"]
    /\ request' = IF request[r].place = "computing" THEN Moved(r, outcome)
                  ELSE request

Succeeds(r) ==
    LET k == request[r].key IN
    /\ job[r] = "running"
    /\ StoreValue(k)
    /\ inflight' = InflightDeleted(k, FALSE)
    /\ Settles(r, "miss")
    /\ UNCHANGED now

Fails(r) ==
    LET k == request[r].key IN
    /\ job[r] = "running"
    /\ negatives' = [negatives EXCEPT ![k] = now]
    /\ troubled' = troubled \cup {k}
    /\ inflight' = InflightDeleted(k, TRUE)
    /\ Settles(r, "error")
    /\ UNCHANGED <<now, values>>

(***************************************************************************)
(* The specification.                                                      *)
(***************************************************************************)

Tick ==
    /\ now < MaxTime /\ now' = now + 1
    /\ UNCHANGED <<values, negatives, inflight, request, job, troubled>>

Receive(r) ==
    \E k \in Keys :
        Hit(r, k) \/ ServeStale(r, k) \/ Refuse(r, k) \/ MissAndWait(r, k)
            \/ MissAndCompute(r, k)

Proceed(r) ==
    \/ Reuse(r) \/ ComputeAfterAll(r) \/ RefreshRuns(r)
    \/ Succeeds(r) \/ Fails(r)

CacheNext == Tick \/ \E r \in Requests : Receive(r) \/ Proceed(r)

CacheSpec == CacheInit /\ [][CacheNext]_cacheVars

\* Callbacks run, and computations end.
FairSpec == CacheSpec /\ \A r \in Requests : WF_cacheVars(Proceed(r))

(***************************************************************************)
(* Properties.                                                             *)
(***************************************************************************)

RequestRecord ==
    [at : Nat, key : Keys, place : Places, awaits : Requests \cup {"none"}]

TypeOK ==
    /\ now \in 1 .. MaxTime
    /\ values \in [Keys -> Nat] /\ negatives \in [Keys -> Nat]
    /\ inflight \in [Keys -> Requests \cup {"none"}]
    /\ request \in [Requests -> RequestRecord]
    /\ job \in [Requests -> JobStates]
    /\ troubled \subseteq Keys

Busy(r) == job[r] \in {"scheduled", "running"}

\* At most one computation of a key at a time, as long as none of the key's
\* computations has failed and none of its values has been evicted: then a
\* request that has waited finds what it waited for.
SingleFlight ==
    \A r, s \in Requests :
        /\ Busy(r) /\ Busy(s)
        /\ request[r].key = request[s].key /\ request[r].key \notin troubled
        => r = s

\* An inflight entry stands for a computation that is still to end: a stale
\* entry would block every later refresh of the key and every miss.
InflightIsLive ==
    \A k \in Keys : inflight[k] # "none" =>
        Busy(inflight[k]) /\ request[inflight[k]].key = k

\* Every request is answered.
EveryRequestIsAnswered ==
    \A r \in Requests :
        request[r].place # "new" ~> request[r].place \in Answered
=============================================================================
