--------------------------- MODULE CrawlerProofs ---------------------------
(***************************************************************************)
(* Two parts of the crawler process: its client of Bungie's API, and the   *)
(* crawl of one player.                                                    *)
(***************************************************************************)
EXTENDS BungieClient, PlayerCrawl, SequenceTheorems, FunctionTheorems,
        FiniteSetTheorems, WellFoundedInduction, TLAPS

(***************************************************************************)
(* The client.  It keeps the budget of its key for any number of callers,  *)
(* any slot and any answers.  The step that needs an argument is Grant:    *)
(* that nextSlot has passed must tell that the last slot is over and that  *)
(* no throttle is in force, which is the strengthening Ahead below, kept   *)
(* by the Math.max of pauseFor and by the look that follows each sleep.    *)
(***************************************************************************)

\* nextSlot lies behind everything the key has to wait for.
Ahead == rest <= ahead /\ quiet <= ahead

IInv == TypeOK /\ Ahead

\* What a reply makes of the slot is at least what it says of the key.
LEMMA PauseCovers ==
    ASSUME NEW reply \in Replies
    PROVE  /\ PauseSec(reply) \in Nat /\ Throttle(reply) \in Nat
           /\ Throttle(reply) <= PauseSec(reply)
<1>1. /\ reply.http \in Nat /\ reply.retryAfter \in Nat
      /\ reply.code \in Nat /\ reply.throttle \in Nat
  BY ClientConstants
<1>2. CASE Ok(reply)
  BY <1>1, <1>2 DEF PauseSec, Throttle, Ok
<1>3. CASE reply.http = 429
  BY <1>1, <1>3, ClientConstants DEF PauseSec, Throttle, Ok
<1>4. CASE ~Ok(reply) /\ reply.http # 429 /\ reply.code = 1672
  BY <1>1, <1>4, ClientConstants DEF PauseSec, Throttle, Larger
<1>5. CASE ~Ok(reply) /\ reply.http # 429 /\ reply.code # 1672
  BY <1>1, <1>5 DEF PauseSec, Throttle
<1> QED BY <1>2, <1>3, <1>4, <1>5

\* The first waiter leaves the queue, and the others keep their order.
LEMMA FirstLeaves ==
    ASSUME TypeOK, queue # <<>>
    PROVE  /\ Head(queue) \in Queued /\ Head(queue) \in Callers
           /\ Tail(queue) \in Seq(Callers)
           /\ \A j, k \in DOMAIN Tail(queue) : j # k => Tail(queue)[j] # Tail(queue)[k]
           /\ {Tail(queue)[k] : k \in DOMAIN Tail(queue)} = Queued \ {Head(queue)}
<1>1. queue \in Seq(Callers) /\ Len(queue) \in Nat /\ Len(queue) > 0
  BY DEF TypeOK
<1>2. Tail(queue) \in Seq(Callers) /\ Len(Tail(queue)) = Len(queue) - 1
  BY <1>1
<1>3. \A k \in 1..(Len(queue) - 1) : Tail(queue)[k] = queue[k + 1]
  BY <1>1
<1>4. Head(queue) = queue[1] /\ 1 \in DOMAIN queue
  BY <1>1
<1>5. DOMAIN queue = 1..Len(queue) /\ DOMAIN Tail(queue) = 1..(Len(queue) - 1)
  BY <1>1, <1>2
<1>6. \A j, k \in DOMAIN Tail(queue) : j # k => Tail(queue)[j] # Tail(queue)[k]
  BY <1>1, <1>3, <1>5 DEF TypeOK
<1>7. \A k \in DOMAIN Tail(queue) : Tail(queue)[k] \in Queued \ {Head(queue)}
  BY <1>1, <1>3, <1>4, <1>5 DEF TypeOK, Queued
<1>8. ASSUME NEW k \in DOMAIN queue, queue[k] # queue[1]
      PROVE  \E j \in DOMAIN Tail(queue) : Tail(queue)[j] = queue[k]
  <2>1. k - 1 \in 1..(Len(queue) - 1)
    BY <1>1, <1>5, <1>8
  <2>2. Tail(queue)[k - 1] = queue[k]
    BY <2>1, <1>3, <1>1, <1>5
  <2> QED BY <2>1, <2>2, <1>5
<1>9. {Tail(queue)[k] : k \in DOMAIN Tail(queue)} = Queued \ {Head(queue)}
  BY <1>4, <1>7, <1>8 DEF Queued
<1>10. Head(queue) \in Queued /\ Head(queue) \in Callers
  BY <1>1, <1>4, <1>5 DEF Queued
<1> QED BY <1>2, <1>6, <1>9, <1>10

\* A caller that is not in the queue joins it at its end.
LEMMA LastJoins ==
    ASSUME TypeOK, NEW c \in Callers, c \notin Queued
    PROVE  LET q == Append(queue, c) IN
           /\ q \in Seq(Callers)
           /\ \A j, k \in DOMAIN q : j # k => q[j] # q[k]
           /\ {q[k] : k \in DOMAIN q} = Queued \cup {c}
<1> DEFINE q == Append(queue, c)
<1>1. queue \in Seq(Callers) /\ Len(queue) \in Nat /\ DOMAIN queue = 1..Len(queue)
  BY DEF TypeOK
<1>2. q \in Seq(Callers) /\ DOMAIN q = 1..(Len(queue) + 1)
  BY <1>1
<1>3. /\ \A k \in DOMAIN queue : q[k] = queue[k]
      /\ q[Len(queue) + 1] = c
  BY <1>1
<1>4. DOMAIN q = DOMAIN queue \cup {Len(queue) + 1}
  BY <1>1, <1>2
<1>5. \A k \in DOMAIN queue : queue[k] # c
  BY DEF Queued
<1> HIDE DEF q
<1>6. \A j, k \in DOMAIN q : j # k => q[j] # q[k]
  BY <1>3, <1>4, <1>5 DEF TypeOK
<1>7. {q[k] : k \in DOMAIN q} = Queued \cup {c}
  BY <1>3, <1>4 DEF Queued
<1> QED BY <1>2, <1>6, <1>7 DEF q

\* A client that has just been built has no waiter and nothing under way (RateLimiter).
THEOREM InitIInv == Init => IInv
<1> SUFFICES ASSUME Init PROVE IInv
  OBVIOUS
<1>1. queue = <<>> /\ queue \in Seq(Callers) /\ DOMAIN queue = {}
  BY DEF Init
<1>2. Queued = {}
  BY <1>1 DEF Queued
<1> QED BY <1>1, <1>2, ClientConstants DEF Init, IInv, TypeOK, Ahead

\* Every step of a caller, the queue and the clock keeps the slot, the waiters and the
\* requests in order (waitForSlot, processQueue, the retries of get).
THEOREM NextIInv == IInv /\ [Next]_vars => IInv'
<1> SUFFICES ASSUME IInv, [Next]_vars PROVE IInv'
  OBVIOUS
<1> USE DEF IInv
<1>1. ASSUME NEW c \in Callers, Ask(c) PROVE IInv'
  <2>1. /\ queue' \in Seq(Callers)
        /\ \A j, k \in DOMAIN queue' : j # k => queue'[j] # queue'[k]
        /\ Queued' = Queued \cup {c}
    BY <1>1, LastJoins DEF Ask, Queued
  <2>2. TypeOK'
    BY <1>1, <2>1 DEF Ask, TypeOK
  <2> QED BY <1>1, <2>2 DEF Ask, Ahead
<1>2. ASSUME NEW c \in Callers, Answer(c) PROVE IInv'
  <2>1. PICK reply \in Replies : /\ PauseFor(PauseSec(reply))
                                 /\ quiet' = Larger(quiet, Throttle(reply))
    BY <1>2 DEF Answer
  <2>2. /\ PauseSec(reply) \in Nat /\ Throttle(reply) \in Nat
        /\ Throttle(reply) <= PauseSec(reply)
    BY <2>1, PauseCovers
  <2>3. /\ ahead \in Nat /\ quiet \in Nat /\ timer \in 0..ahead /\ rest \in 0..Interval
        /\ rest <= ahead /\ quiet <= ahead
    BY DEF TypeOK, Ahead
  <2>4. /\ ahead' \in Nat /\ ahead <= ahead' /\ quiet' \in Nat /\ quiet' <= ahead'
    BY <2>1, <2>2, <2>3 DEF PauseFor, Larger
  <2>5. UNCHANGED <<queue, timer, rest>> /\ flight' = flight \ {c} /\ Queued' = Queued
    BY <1>2 DEF Answer, Queued
  <2>6. timer' \in 0..ahead'
    BY <2>3, <2>4, <2>5
  <2>7. TypeOK'
    BY <2>3, <2>4, <2>5, <2>6 DEF TypeOK
  <2>8. Ahead'
    BY <2>3, <2>4, <2>5, ClientConstants DEF Ahead
  <2> QED BY <2>7, <2>8
<1>3. ASSUME NEW c \in Callers, Reject(c) PROVE IInv'
  BY <1>3 DEF Reject, TypeOK, Ahead, Queued
<1>4. CASE Sleep
  <2>1. timer' \in 0..ahead
    BY <1>4, ClientConstants DEF Sleep, SlotTaken, TypeOK
  <2> QED BY <1>4, <2>1 DEF Sleep, TypeOK, Ahead, Queued
<1>5. CASE Grant
  <2>1. /\ Head(queue) \in Queued /\ Head(queue) \in Callers
        /\ queue' \in Seq(Callers)
        /\ \A j, k \in DOMAIN queue' : j # k => queue'[j] # queue'[k]
        /\ Queued' = Queued \ {Head(queue)}
    BY <1>5, FirstLeaves DEF Grant, Queued
  <2>2. ahead' = Interval /\ rest' = Interval /\ timer' = 0 /\ quiet' = quiet
    BY <1>5 DEF Grant
  <2>3. quiet = 0
    BY <1>5 DEF Grant, SlotTaken, TypeOK, Ahead
  <2>4. TypeOK'
    BY <1>5, <2>1, <2>2, ClientConstants DEF Grant, TypeOK
  <2> QED BY <2>2, <2>3, <2>4, ClientConstants DEF Ahead
<1>6. CASE Tick
  <2>1. UNCHANGED <<queue, flight>> /\ Queued' = Queued
    BY <1>6 DEF Tick, Queued
  <2>2. /\ ahead' \in Nat /\ timer' \in 0..ahead' /\ rest' \in 0..Interval
        /\ quiet' \in Nat /\ rest' <= ahead' /\ quiet' <= ahead'
    BY <1>6, ClientConstants DEF Tick, LessOne, TypeOK, Ahead
  <2> QED BY <2>1, <2>2 DEF TypeOK, Ahead
<1>7. CASE UNCHANGED vars
  BY <1>7 DEF vars, TypeOK, Ahead, Queued
<1> QED BY <1>1, <1>2, <1>3, <1>4, <1>5, <1>6, <1>7 DEF Next

\* Callers have one request each under way, and no waiter oversleeps
\* (rate-limiter.ts:12-29), whatever the answers are.
THEOREM ClientTypeOK == Spec => []TypeOK
<1>1. IInv => TypeOK
  BY DEF IInv
<1> QED BY <1>1, InitIInv, NextIInv, PTL DEF Spec

-----------------------------------------------------------------------------
(* The client implements the budget *)

LEMMA StepIsBudgeted == IInv /\ [Next]_vars => [Budget!Next]_(Budget!budgetVars)
<1> SUFFICES ASSUME IInv, [Next]_vars
             PROVE  Budget!Next \/ UNCHANGED <<Queued, flight, rest, quiet>>
  BY DEF Budget!budgetVars
<1> USE DEF IInv
<1>1. ASSUME NEW c \in Callers, Ask(c) PROVE Budget!Ask(c)
  <2>1. Queued' = Queued \cup {c}
    BY <1>1, LastJoins DEF Ask, Queued
  <2> QED BY <1>1, <2>1 DEF Ask, Budget!Ask
<1>2. ASSUME NEW c \in Callers, Answer(c) PROVE Budget!Settle(c)
  <2>1. PICK reply \in Replies : quiet' = Larger(quiet, Throttle(reply))
    BY <1>2 DEF Answer
  <2>2. quiet' \in Nat /\ quiet' >= quiet
    BY <2>1, PauseCovers DEF Larger, TypeOK
  <2> QED BY <1>2, <2>2 DEF Answer, Budget!Settle, Queued
<1>3. ASSUME NEW c \in Callers, Reject(c) PROVE Budget!Settle(c)
  BY <1>3 DEF Reject, Budget!Settle, Queued, TypeOK
<1>4. CASE Sleep
  BY <1>4 DEF Sleep, Queued
<1>5. CASE Grant
  <2>1. Head(queue) \in Queued /\ Head(queue) \in Callers
    BY <1>5, FirstLeaves DEF Grant
  <2>2. Queued' = Queued \ {Head(queue)}
    BY <1>5, FirstLeaves DEF Grant, Queued
  <2>3. rest = 0 /\ quiet = 0
    BY <1>5, ClientConstants DEF Grant, SlotTaken, TypeOK, Ahead
  <2>4. Budget!Leave(Head(queue))
    BY <1>5, <2>1, <2>2, <2>3 DEF Grant, Budget!Leave
  <2> QED BY <2>1, <2>4 DEF Budget!Next
<1>6. CASE Tick
  BY <1>6 DEF Tick, LessOne, Budget!Pass, Budget!Next, Queued
<1>7. CASE UNCHANGED vars
  BY <1>7 DEF vars, Queued
<1> QED BY <1>1, <1>2, <1>3, <1>4, <1>5, <1>6, <1>7 DEF Next, Budget!Next

\* Requests of one key leave a slot apart and never inside a throttle that any
\* answer named (rate-limiter.ts:10-11, 31-33).
THEOREM ClientImplementsBudget == Spec => ImplementsBudget
<1>1. Init => Budget!Init
  BY DEF Init, Budget!Init, Queued
<1> QED BY <1>1, InitIInv, NextIInv, StepIsBudgeted, PTL
        DEF Spec, ImplementsBudget, Budget!Spec

(***************************************************************************)
(* The crawl of one player.  The invariant says, of each character whose   *)
(* walk is over and of the one being walked, that what Bungie listed of it *)
(* when the crawl began is kept, up to where the walk stopped, however     *)
(* the pages shift meanwhile.                                              *)
(***************************************************************************)

PlayerTypes ==
    /\ now \in Nat \ {0}
    /\ raid \in [Raids -> RaidRecord]
    /\ chars \subseteq Chars /\ ids \subseteq chars /\ stored \subseteq Raids
    /\ DOMAIN player = {"lastCrawled", "failures", "eligible", "active"}
    /\ player.lastCrawled \in Nat /\ player.lastCrawled <= now
    /\ cycle \in Cycle /\ crawl \in CrawlState

\* The raids of a character follow one another, and are listed in time.
RaidsOK ==
    /\ \A r \in Raids :
         /\ Played(r) => raid[r].start <= now /\ raid[r].char \in Chars
         /\ Ended(r) => Played(r) /\ raid[r].start <= raid[r].end /\ raid[r].end <= now
         /\ raid[r].listed => Ended(r)
         /\ Ended(r) /\ ~raid[r].listed => now - raid[r].end <= Lag
    /\ \A q, r \in Raids : q # r /\ Played(q) /\ Played(r) /\ raid[q].char = raid[r].char =>
         /\ raid[q].start # raid[r].start
         /\ raid[q].start < raid[r].start => Ended(q) /\ raid[q].end < raid[r].start

CrawlOK ==
    /\ crawl.watermark <= player.lastCrawled /\ crawl.begun <= now
    /\ cycle \in Crawling => now - crawl.begun <= CrawlTime
    /\ crawl.at = "none" => crawl.page = 0
    /\ cycle \notin {"walk", "refresh", "pgcrs"} => crawl.at = "none" /\ crawl.done = {}

\* A raid of c that the crawl cannot miss: it was listed when the crawl began, and
\* does not end the walk.
Wanted(r, c) == raid[r].listed /\ raid[r].char = c /\ raid[r].end + Lag < crawl.begun /\ ~Stops(r)

Kept == crawl.found \cup stored \cup crawl.failed

\* What the walk has passed is kept.
WalkOK ==
    ~crawl.hadError =>
      /\ \A c \in crawl.done \ crawl.cut : \A r \in Raids : Wanted(r, c) => r \in Kept
      /\ \A r \in Raids : Wanted(r, crawl.at) /\ Rank(r) < crawl.page * PageSize => r \in Kept

PlayerInv == PlayerTypes /\ RaidsOK /\ CrawlOK /\ WalkOK

(***************************************************************************)
(* Ranks and pages.                                                        *)
(***************************************************************************)

\* A member of F that no other member is part of.
HasSmallest(F) == \E U \in F : \A V \in F : V \subseteq U => V = U

\* A set of subsets of a finite set has one.
LEMMA SmallestSubset ==
    ASSUME NEW S, IsFiniteSet(S), NEW F, F \subseteq SUBSET S, F # {}
    PROVE  HasSmallest(F)
<1>1. IsWellFoundedOn(StrictSubsetOrdering(S), SUBSET S)
  BY FS_StrictSubsetOrderingWellFounded, FS_FiniteSubsetsOfFinite
<1>2. \E U \in F : \A V \in F : ~ (<<V, U>> \in StrictSubsetOrdering(S))
  BY <1>1, WFMin
<1> QED
  BY <1>2 DEF StrictSubsetOrdering, HasSmallest

\* The raids of the character of r that began later.
Later(r) == {q \in History(raid[r].char) : raid[q].start > raid[r].start}

LEMMA RaidFields ==
    ASSUME PlayerTypes, NEW r \in Raids
    PROVE  /\ raid[r] \in RaidRecord /\ raid[r].start \in Nat /\ raid[r].end \in Nat
           /\ raid[r].char \in Chars \cup {"none"} /\ raid[r].listed \in BOOLEAN
<1>1. raid[r] \in RaidRecord
  BY DEF PlayerTypes
<1> QED
  BY <1>1 DEF RaidRecord

LEMMA RankIsNat ==
    ASSUME NEW r
    PROVE  Rank(r) \in Nat /\ Rank(r) = Cardinality(Later(r)) /\ IsFiniteSet(Later(r))
<1>1. Later(r) \subseteq Raids
  BY DEF Later, History
<1>2. IsFiniteSet(Later(r))
  BY <1>1, FS_Subset, CrawlAssumption
<1> QED
  BY <1>2, FS_CardinalityType DEF Rank, Later

\* Ranks follow the order in which the raids began.
LEMMA RankOrder ==
    ASSUME PlayerTypes, RaidsOK, NEW c, NEW q \in History(c), NEW r \in History(c)
    PROVE  /\ raid[q].start < raid[r].start => Rank(r) < Rank(q)
           /\ q # r => raid[q].start < raid[r].start \/ raid[r].start < raid[q].start
<1>1. q \in Raids /\ r \in Raids /\ raid[q].char = c /\ raid[r].char = c /\ raid[q].listed /\ raid[r].listed
  BY DEF History
<1>2. raid[q].start \in Nat /\ raid[r].start \in Nat
  BY <1>1, RaidFields
<1>3. q # r => raid[q].start # raid[r].start
  BY <1>1 DEF RaidsOK
<1>4. ASSUME raid[q].start < raid[r].start
      PROVE  Rank(r) < Rank(q)
  <2>1. \A p \in Raids : raid[p].start \in Nat
    BY RaidFields
  <2>2. Later(r) \subseteq Later(q) /\ r \in Later(q) /\ r \notin Later(r)
    BY <1>1, <1>2, <1>4, <2>1 DEF Later, History
  <2>3. Later(r) # Later(q)
    BY <2>2
  <2>4. Cardinality(Later(r)) < Cardinality(Later(q))
    BY <2>2, <2>3, RankIsNat, FS_Subset
  <2> QED
    BY <2>4, RankIsNat
<1> QED
  BY <1>2, <1>3, <1>4

\* No two raids of a character have one rank.
LEMMA RanksAtMost ==
    ASSUME PlayerTypes, RaidsOK, NEW c, NEW a \in Nat, NEW b \in Nat, a <= b
    PROVE  LET X == {q \in History(c) : a <= Rank(q) /\ Rank(q) < b}
           IN  IsFiniteSet(X) /\ Cardinality(X) \in Nat /\ Cardinality(X) <= b - a
<1> DEFINE X == {q \in History(c) : a <= Rank(q) /\ Rank(q) < b}
           f == [q \in X |-> Rank(q)]
           I == a .. b - 1
<1>1. \A q \in X : Rank(q) \in I
  BY RankIsNat
<1>2. \A q, r \in X : Rank(q) = Rank(r) => q = r
  <2> SUFFICES ASSUME NEW q \in X, NEW r \in X, q # r PROVE Rank(q) # Rank(r)
    OBVIOUS
  <2>1. Rank(q) \in Nat /\ Rank(r) \in Nat
    BY RankIsNat
  <2> QED
    BY <2>1, RankOrder
<1>3. f \in Injection(X, I)
  BY <1>1, <1>2 DEF Injection, IsInjective
<1>4. IsFiniteSet(I) /\ Cardinality(I) = b - a
  <2>1. a \in Int /\ b - 1 \in Int
    OBVIOUS
  <2>2. IsFiniteSet(I) /\ Cardinality(I) = IF a > b - 1 THEN 0 ELSE (b - 1) - a + 1
    BY <2>1, FS_Interval
  <2>3. (IF a > b - 1 THEN 0 ELSE (b - 1) - a + 1) = b - a
    OBVIOUS
  <2> QED
    BY <2>2, <2>3
<1> HIDE DEF X, I, f
<1>5. IsFiniteSet(X) /\ Cardinality(X) <= Cardinality(I)
  BY <1>3, <1>4, FS_Injection
<1>6. Cardinality(X) \in Nat
  BY <1>5, FS_CardinalityType
<1> QED
  BY <1>4, <1>5, <1>6 DEF X

\* Ranks leave nothing out: where one is that great, there are so many below.
LEMMA RanksAtLeast ==
    ASSUME PlayerTypes, RaidsOK, NEW c, NEW b \in Nat, NEW r \in History(c), b <= Rank(r)
    PROVE  LET X == {q \in History(c) : Rank(q) < b}
           IN  IsFiniteSet(X) /\ Cardinality(X) \in Nat /\ b <= Cardinality(X)
<1> DEFINE S == {q \in History(c) : b <= Rank(q)}
           F == {Later(q) : q \in S}
<1>1. IsFiniteSet(Raids) /\ F \subseteq SUBSET Raids /\ F # {}
  <2>1. \A q : Later(q) \subseteq Raids
    BY DEF Later, History
  <2>2. r \in S
    OBVIOUS
  <2>3. IsFiniteSet(Raids)
    BY CrawlAssumption
  <2> HIDE DEF S
  <2> QED
    BY <2>1, <2>2, <2>3
<1>2. HasSmallest(F)
  <2> HIDE DEF F
  <2> QED
    BY <1>1, SmallestSubset
<1>3. PICK m \in S : \A q \in S : Later(q) \subseteq Later(m) => Later(q) = Later(m)
  <2>1. PICK U \in F : \A V \in F : V \subseteq U => V = U
    BY <1>2 DEF HasSmallest
  <2>2. PICK m \in S : U = Later(m)
    BY <2>1
  <2>3. \A q \in S : Later(q) \in F
    OBVIOUS
  <2> HIDE DEF F, S
  <2> QED
    BY <2>1, <2>2, <2>3
<1>4. \A q \in Raids : raid[q].start \in Nat
  BY RaidFields
<1>5. \A q \in History(c) : Rank(q) < b => raid[m].start < raid[q].start
  <2> SUFFICES ASSUME NEW q \in History(c), Rank(q) < b PROVE raid[m].start < raid[q].start
    OBVIOUS
  <2>1. Rank(q) \in Nat /\ Rank(m) \in Nat
    BY RankIsNat
  <2>2. m # q /\ ~ (Rank(m) < Rank(q))
    BY <1>3, <2>1
  <2> QED
    BY <1>3, <2>2, RankOrder
<1>6. \A q \in History(c) : raid[m].start < raid[q].start => Rank(q) < b
  <2> SUFFICES ASSUME NEW q \in History(c), raid[m].start < raid[q].start, ~ (Rank(q) < b)
               PROVE FALSE
    OBVIOUS
  <2>1. q \in S
    BY RankIsNat
  <2>2. Later(q) \subseteq Later(m) /\ q \in Later(m) /\ q \notin Later(q)
    BY <1>3, <1>4 DEF Later, History
  <2> QED
    BY <1>3, <2>1, <2>2
<1>7. {q \in History(c) : Rank(q) < b} = Later(m)
  BY <1>3, <1>5, <1>6 DEF Later, History
<1>8. b <= Cardinality(Later(m)) /\ Cardinality(Later(m)) \in Nat /\ IsFiniteSet(Later(m))
  BY <1>3, RankIsNat
<1> QED
  BY <1>7, <1>8

\* The bounds of a page.
LEMMA PageBounds ==
    ASSUME NEW n \in Nat
    PROVE  /\ n * PageSize \in Nat /\ (n + 1) * PageSize \in Nat
           /\ (n + 1) * PageSize = n * PageSize + PageSize
BY CrawlAssumption

\* A page is not longer than its size, and it is full if the history goes on.
LEMMA PageIsFull ==
    ASSUME PlayerTypes, RaidsOK, NEW c, NEW n \in Nat
    PROVE  /\ Cardinality(Page(c, n)) \in Nat /\ Cardinality(Page(c, n)) <= PageSize
           /\ \A r \in History(c) : (n + 1) * PageSize <= Rank(r) => Cardinality(Page(c, n)) = PageSize
<1>0. PageSize \in Nat
  BY CrawlAssumption
<1>1. PICK a \in Nat : a = n * PageSize
  BY PageBounds
<1>2. PICK b \in Nat : b = (n + 1) * PageSize /\ b = a + PageSize
  BY <1>1, PageBounds
<1> DEFINE A == {q \in History(c) : Rank(q) < a}
           B == {q \in History(c) : Rank(q) < b}
           P == {q \in History(c) : a <= Rank(q) /\ Rank(q) < b}
<1>3. Page(c, n) = P
  BY <1>1, <1>2 DEF Page
<1>4. IsFiniteSet(P) /\ Cardinality(P) \in Nat /\ Cardinality(P) <= PageSize
  <2>1. a <= b /\ b - a = PageSize
    BY <1>0, <1>2
  <2> QED
    BY <2>1, RanksAtMost
<1>5. ASSUME NEW r \in History(c), b <= Rank(r)
      PROVE  Cardinality(P) = PageSize
  <2>1. IsFiniteSet(B) /\ Cardinality(B) \in Nat /\ b <= Cardinality(B)
    BY <1>5, RanksAtLeast
  <2>2. IsFiniteSet(A) /\ Cardinality(A) \in Nat /\ Cardinality(A) <= a
    <3> DEFINE Z == {q \in History(c) : 0 <= Rank(q) /\ Rank(q) < a}
    <3>0. 0 \in Nat /\ 0 <= a
      BY <1>1
    <3>1. IsFiniteSet(Z) /\ Cardinality(Z) \in Nat /\ Cardinality(Z) <= a - 0
      BY <1>1, <3>0, RanksAtMost
    <3>2. A = Z
      BY RankIsNat
    <3> HIDE DEF A, Z
    <3> QED
      BY <3>1, <3>2
  <2>3. A \subseteq B /\ P = B \ A
    BY <1>0, <1>2, RankIsNat
  <2> HIDE DEF A, B, P
  <2>4. B \cap A = A
    BY <2>3
  <2>5. Cardinality(P) = Cardinality(B) - Cardinality(A)
    BY <2>1, <2>3, <2>4, FS_Difference
  <2> QED
    BY <1>0, <1>1, <1>2, <1>4, <2>1, <2>2, <2>5
<1> QED
  BY <1>2, <1>3, <1>4, <1>5

(***************************************************************************)
(* A page.                                                                 *)
(***************************************************************************)

\* What ends a walk is older than what does not: nothing behind it is wanted.
LEMMA StopsGoOn ==
    ASSUME PlayerInv, NEW c, NEW q \in History(c), NEW r \in History(c), Stops(q),
           raid[r].start <= raid[q].start
    PROVE  Stops(r)
<1>1. q \in Raids /\ r \in Raids /\ raid[q].char = c /\ raid[r].char = c /\ raid[q].listed /\ raid[r].listed
  BY DEF History
<1>2. /\ raid[q].start \in Nat /\ raid[r].start \in Nat /\ raid[q].end \in Nat /\ raid[r].end \in Nat
      /\ crawl.watermark \in Nat /\ crawl.begun \in Nat
      /\ MaxBackfill \in Nat /\ Buffer \in Nat
  BY <1>1, RaidFields, CrawlAssumption DEF PlayerInv, PlayerTypes, CrawlState
<1>3. Played(q) /\ Played(r) /\ raid[q].start <= raid[q].end
  BY <1>1 DEF PlayerInv, RaidsOK
<1>4. q # r => raid[r].end < raid[q].start
  BY <1>1, <1>2, <1>3 DEF PlayerInv, RaidsOK
<1>5. CASE raid[q].start < OldestWanted
  BY <1>2, <1>5 DEF Stops, OldestWanted
<1>6. CASE Covered(q)
  <2>1. q # r => EndedAt(r) < EndedAt(q)
    <3>1. Ended(r) => raid[r].start <= raid[r].end
      BY <1>1 DEF PlayerInv, RaidsOK
    <3>2. Ended(r)
      BY <1>1 DEF PlayerInv, RaidsOK
    <3> QED
      BY <1>2, <1>3, <1>4, <3>1, <3>2 DEF EndedAt
  <2> QED
    BY <1>2, <1>6, <2>1 DEF Stops, Covered, CoveredCutoff, EndedAt
<1> QED
  BY <1>5, <1>6 DEF Stops

\* A page adds what is wanted of it, and if it ends the walk though the page limit
\* does not, nothing that is wanted is left.
LEMMA PageCollects ==
    ASSUME PlayerInv, NEW c, NEW n \in Nat,
           \A r \in Raids : Wanted(r, c) /\ Rank(r) < n * PageSize => r \in Kept
    PROVE  LET P == Page(c, n)
               K == Kept \cup Collected(P)
           IN  /\ \A r \in Raids : Wanted(r, c) /\ Rank(r) < (n + 1) * PageSize => r \in K
               /\ IsLast(P) /\ ~CutShort(P) => \A r \in Raids : Wanted(r, c) => r \in K
<1> DEFINE P == Page(c, n)
           K == Kept \cup Collected(P)
<1>1. n * PageSize \in Nat /\ (n + 1) * PageSize \in Nat /\ PageSize \in Nat
  BY PageBounds, CrawlAssumption
<1>2. ASSUME NEW r \in Raids, Wanted(r, c), Rank(r) < (n + 1) * PageSize
      PROVE  r \in K
  <2>1. r \in History(c) /\ ~Stops(r)
    BY <1>2 DEF Wanted, History
  <2>2. CASE Rank(r) < n * PageSize
    BY <1>2, <2>2
  <2>3. CASE ~ (Rank(r) < n * PageSize)
    <3>1. r \in P
      BY <1>1, <1>2, <2>1, <2>3, RankIsNat DEF Page
    <3>2. \A q \in P : raid[q].start >= raid[r].start => ~Stops(q)
      <4> SUFFICES ASSUME NEW q \in P, raid[q].start >= raid[r].start PROVE ~Stops(q)
        OBVIOUS
      <4>1. q \in History(c)
        BY DEF Page
      <4>2. raid[r].start <= raid[q].start
        BY <2>1, <4>1, RaidFields DEF History, PlayerInv
      <4> QED
        BY <2>1, <4>1, <4>2, StopsGoOn
    <3>3. r \in Collected(P)
      BY <3>1, <3>2 DEF Collected
    <3> QED
      BY <3>3
  <2> QED
    BY <2>2, <2>3
<1>3. ASSUME ~CutShort(P), NEW r \in Raids, Wanted(r, c)
      PROVE  r \in K
  <2>1. r \in History(c) /\ ~Stops(r)
    BY <1>3 DEF Wanted, History
  <2>2. Rank(r) \in Nat
    BY RankIsNat
  <2>3. CASE \E q \in P : Stops(q)
    <3>1. PICK q \in P : Stops(q)
      BY <2>3
    <3>2. q \in History(c) /\ Rank(q) \in Nat /\ Rank(q) < (n + 1) * PageSize
      BY RankIsNat DEF Page
    <3>3. raid[q].start < raid[r].start
      <4>1. raid[q].start \in Nat /\ raid[r].start \in Nat
        BY <2>1, <3>2, RaidFields DEF History, PlayerInv
      <4> QED
        BY <2>1, <3>1, <3>2, <4>1, StopsGoOn
    <3>4. Rank(r) < Rank(q)
      BY <2>1, <3>2, <3>3, RankOrder DEF PlayerInv
    <3>5. Rank(r) < (n + 1) * PageSize
      BY <1>1, <2>2, <3>2, <3>4
    <3> QED
      BY <1>2, <1>3, <3>5
  <2>4. CASE Cardinality(P) # PageSize
    <3>1. ~ ((n + 1) * PageSize <= Rank(r))
      BY <2>1, <2>4, PageIsFull DEF PlayerInv
    <3>2. Rank(r) < (n + 1) * PageSize
      BY <1>1, <2>2, <3>1
    <3> QED
      BY <1>2, <1>3, <3>2
  <2> QED
    BY <1>3, <2>3, <2>4 DEF CutShort
<1> QED
  BY <1>2, <1>3

(***************************************************************************)
(* The steps of the invariant.                                             *)
(***************************************************************************)

\* The raids, when a step changes none and no time passes.
LEMMA RaidsSame ==
    ASSUME RaidsOK, raid' = raid, now' = now
    PROVE  RaidsOK'
BY DEF RaidsOK, Played, Ended

\* Stores may grow as long as the crawl keeps what it found.
LEMMA KeptGrows ==
    ASSUME PlayerInv, raid' = raid, Kept \subseteq Kept',
           UNCHANGED <<crawl.begun, crawl.watermark, crawl.hadError, crawl.at, crawl.page,
                       crawl.done, crawl.cut>>
    PROVE  WalkOK'
<1>1. \A r, c : Wanted(r, c)' => Wanted(r, c)
  BY DEF Wanted, Stops, OldestWanted, Covered, CoveredCutoff, EndedAt
<1>2. \A r : Rank(r)' = Rank(r)
  BY DEF Rank, History
<1>3. WalkOK
  BY DEF PlayerInv
<1> QED
  BY <1>1, <1>2, <1>3 DEF WalkOK

\* No walk, nothing to keep.
LEMMA NoWalk ==
    ASSUME crawl'.done = {}, crawl'.page = 0
    PROVE  WalkOK'
<1>1. \A r : Rank(r)' \in Nat
  <2> SUFFICES ASSUME NEW r PROVE Rank(r)' \in Nat
    OBVIOUS
  <2>1. ({q \in History(raid[r].char) : raid[q].start > raid[r].start})' \subseteq Raids
    BY DEF History
  <2>2. IsFiniteSet(({q \in History(raid[r].char) : raid[q].start > raid[r].start})')
    BY <2>1, FS_Subset, CrawlAssumption
  <2> QED
    BY <2>2, FS_CardinalityType DEF Rank
<1>2. crawl'.page * PageSize = 0
  BY CrawlAssumption
<1> QED
  BY <1>1, <1>2 DEF WalkOK

\* The player's game goes on: what Bungie lists now is newer than the crawl.
LEMMA GameKeepsWalk ==
    ASSUME PlayerInv, UNCHANGED <<crawl, stored>>,
           \A r \in Raids : raid[r].listed => raid'[r] = raid[r],
           \A r \in Raids : raid'[r].listed /\ ~raid[r].listed =>
              ~ (raid'[r].end + Lag < crawl.begun)
    PROVE  WalkOK'
<1>1. \A r \in Raids : \A c : Wanted(r, c)' => Wanted(r, c) /\ raid[r].listed
  BY DEF Wanted, Stops, OldestWanted, Covered, CoveredCutoff, EndedAt
<1>2. ASSUME NEW r \in Raids, raid[r].listed
      PROVE  Rank(r) \in Nat /\ Rank(r)' \in Nat /\ Rank(r) <= Rank(r)'
  <2>1. Later(r) \subseteq Later(r)' /\ Later(r)' \subseteq Raids
    BY <1>2 DEF Later, History
  <2>2. IsFiniteSet(Later(r)')
    BY <2>1, FS_Subset, CrawlAssumption
  <2>3. Cardinality(Later(r)) <= Cardinality(Later(r)') /\ Cardinality(Later(r)') \in Nat
    BY <2>1, <2>2, FS_Subset, FS_CardinalityType
  <2>4. Rank(r)' = Cardinality(Later(r)')
    BY DEF Rank, Later
  <2> QED
    BY <2>3, <2>4, RankIsNat
<1>3. crawl.page * PageSize \in Nat
  BY PageBounds DEF PlayerInv, PlayerTypes, CrawlState
<1>4. Kept' = Kept
  BY DEF Kept
<1>5. ASSUME ~crawl.hadError, NEW r \in Raids, Wanted(r, crawl.at)',
             Rank(r)' < crawl.page * PageSize
      PROVE  r \in Kept
  <2>1. Wanted(r, crawl.at) /\ raid[r].listed
    BY <1>1, <1>5 DEF Wanted
  <2>2. Rank(r) < crawl.page * PageSize
    BY <1>2, <1>3, <1>5, <2>1
  <2> QED
    BY <1>5, <2>1, <2>2 DEF PlayerInv, WalkOK
<1>6. ASSUME ~crawl.hadError, NEW c \in crawl.done \ crawl.cut, NEW r \in Raids, Wanted(r, c)'
      PROVE  r \in Kept
  BY <1>1, <1>6 DEF PlayerInv, WalkOK
<1> QED
  BY <1>4, <1>5, <1>6 DEF WalkOK

LEMMA CrawlFields ==
    \A x \in CrawlState :
      /\ x.drained \in BOOLEAN /\ x.watermark \in Nat /\ x.begun \in Nat /\ x.fromCache \in BOOLEAN
      /\ x.todo \subseteq Chars /\ x.done \subseteq Chars /\ x.at \in Chars \cup {"none"}
      /\ x.page \in Nat /\ x.found \subseteq Raids /\ x.hadError \in BOOLEAN
      /\ x.refresh \in BOOLEAN /\ x.failed \subseteq Raids /\ x.cut \subseteq Chars
BY DEF CrawlState

\* The state of a task that walks nothing.
Blank(x, watermark, begun) ==
    /\ x \in CrawlState /\ x.watermark = watermark /\ x.begun = begun
    /\ x.done = {} /\ x.at = "none" /\ x.page = 0

LEMMA NoCrawlIsBlank ==
    /\ Blank(NoCrawl, 0, 0)
    /\ \A b \in BOOLEAN : Blank([NoCrawl EXCEPT !.drained = b], 0, 0)
    /\ \A t \in Nat : Blank([NoCrawl EXCEPT !.watermark = t], t, 0)
    /\ Blank([NoCrawl EXCEPT !.drained = TRUE], 0, 0)
BY DEF NoCrawl, Blank, CrawlState

\* The steps of the cycle, and those that start or end a crawl.
LEMMA BlankKeepsInv ==
    ASSUME PlayerInv, UNCHANGED <<now, raid, chars, player>>, ids' \subseteq chars,
           stored' \subseteq Raids, cycle' \in Cycle,
           NEW watermark, watermark <= player.lastCrawled, NEW begun, begun <= now,
           Blank(crawl', watermark, begun),
           cycle' \in Crawling => now - begun <= CrawlTime
    PROVE  PlayerInv'
<1>1. PlayerTypes'
  BY DEF PlayerInv, PlayerTypes, Blank
<1>2. RaidsOK'
  BY RaidsSame DEF PlayerInv
<1>3. CrawlOK'
  BY DEF CrawlOK, Blank
<1>4. WalkOK'
  BY NoWalk DEF Blank
<1> QED
  BY <1>1, <1>2, <1>3, <1>4 DEF PlayerInv

LEMMA CycleKeepsInv ==
    ASSUME PlayerInv, BeginCycle \/ EndCycle \/ Restart
    PROVE  PlayerInv'
<1>1. now \in Nat /\ player.lastCrawled \in Nat /\ 0 <= player.lastCrawled /\ 0 <= now
        /\ stored \subseteq Raids /\ ids \subseteq chars
  BY DEF PlayerInv, PlayerTypes
<1>2. CASE BeginCycle
  <2>1. cycle' \in Cycle /\ cycle' \notin Crawling
          /\ UNCHANGED <<now, raid, chars, player, ids, stored>>
    BY <1>2 DEF BeginCycle, Cycle, Crawling
  <2>2. Blank(crawl', 0, 0) \/ Blank(crawl', player.lastCrawled, 0)
    BY <1>1, <1>2, NoCrawlIsBlank DEF BeginCycle
  <2>3. CASE Blank(crawl', 0, 0)
    BY <1>1, <2>1, <2>3, BlankKeepsInv
  <2>4. CASE Blank(crawl', player.lastCrawled, 0)
    <3>1. player.lastCrawled <= player.lastCrawled
      BY <1>1
    <3>2. PICK w \in Nat : w = player.lastCrawled
      BY <1>1
    <3> QED
      BY <1>1, <2>1, <2>4, <3>1, <3>2, BlankKeepsInv
  <2> QED
    BY <2>2, <2>3, <2>4
<1>3. CASE EndCycle \/ Restart
  <2>1. cycle' \in Cycle /\ cycle' \notin Crawling
          /\ UNCHANGED <<now, raid, chars, player, ids, stored>>
    BY <1>3 DEF EndCycle, Restart, Cycle, Crawling
  <2>2. Blank(crawl', 0, 0)
    BY <1>3, NoCrawlIsBlank DEF EndCycle, Restart
  <2> QED
    BY <1>1, <2>1, <2>2, BlankKeepsInv
<1> QED
  BY <1>2, <1>3

LEMMA StartKeepsInv ==
    ASSUME PlayerInv, StartCrawl \/ ProfileAnswers
    PROVE  PlayerInv'
<1>1. PICK x \in CrawlState : x = crawl
  BY DEF PlayerInv, PlayerTypes
<1>2. /\ now \in Nat /\ stored \subseteq Raids /\ ids \subseteq chars /\ chars \subseteq Chars
      /\ x.watermark <= player.lastCrawled /\ x.begun <= now
      /\ x.at = "none" /\ x.done = {} /\ x.page = 0
  BY <1>1 DEF PlayerInv, PlayerTypes, CrawlOK, StartCrawl, ProfileAnswers
<1>3. now - now <= CrawlTime
  BY <1>2, CrawlAssumption
<1>4. CASE StartCrawl
  <2>1. \/ crawl' = [x EXCEPT !.begun = now, !.fromCache = TRUE, !.todo = ids]
        \/ crawl' = [x EXCEPT !.begun = now]
    BY <1>1, <1>4 DEF StartCrawl
  <2>2. Blank(crawl', x.watermark, now)
    BY <1>2, <2>1 DEF Blank, CrawlState
  <2>3. cycle' \in Cycle /\ UNCHANGED <<now, raid, chars, player, ids, stored>>
    BY <1>4 DEF StartCrawl, Cycle
  <2>4. now <= now
    BY <1>2
  <2> QED
    BY <1>2, <1>3, <2>2, <2>3, <2>4, BlankKeepsInv
<1>5. CASE ProfileAnswers
  <2>1. crawl' = [x EXCEPT !.todo = chars]
    BY <1>1, <1>5 DEF ProfileAnswers
  <2>2. Blank(crawl', x.watermark, x.begun)
    BY <1>2, <2>1 DEF Blank, CrawlState
  <2>3. now - x.begun <= CrawlTime
    BY <1>1, <1>5 DEF PlayerInv, CrawlOK, ProfileAnswers, Crawling
  <2>4. cycle' \in Cycle /\ ids' \subseteq chars /\ UNCHANGED <<now, raid, chars, player, stored>>
    BY <1>5 DEF ProfileAnswers, Cycle
  <2> QED
    BY <1>2, <2>2, <2>3, <2>4, BlankKeepsInv
<1> QED
  BY <1>4, <1>5

\* crawlPlayer ends: whatever the outcome, the watermark of the row does not go back.
LEMMA ReturnsKeepsInv ==
    ASSUME PlayerInv, Returns, UNCHANGED <<now, raid, chars, stored, ids>>,
           player' \in {player, Transient, Private, NotFound, Succeeded}
    PROVE  PlayerInv'
<1>1. crawl.drained \in BOOLEAN /\ crawl.begun \in Nat /\ crawl.begun <= now
  BY CrawlFields DEF PlayerInv, PlayerTypes, CrawlOK
<1>2. Blank(crawl', 0, 0) /\ cycle' = "over"
  BY <1>1, NoCrawlIsBlank DEF Returns
<1>3. /\ DOMAIN player = {"lastCrawled", "failures", "eligible", "active"}
      /\ player.lastCrawled \in Nat /\ player.lastCrawled <= now /\ now \in Nat
  BY DEF PlayerInv, PlayerTypes
<1>4. /\ DOMAIN player' = {"lastCrawled", "failures", "eligible", "active"}
      /\ player'.lastCrawled \in {player.lastCrawled, now}
  BY <1>3 DEF Transient, Private, NotFound, Succeeded
<1>5. PlayerTypes'
  BY <1>2, <1>3, <1>4 DEF PlayerInv, PlayerTypes, Blank, Cycle
<1>6. RaidsOK'
  BY RaidsSame DEF PlayerInv
<1>7. CrawlOK'
  BY <1>1, <1>2, <1>3, <1>4 DEF CrawlOK, Blank, Crawling
<1>8. WalkOK'
  BY <1>2, NoWalk DEF Blank
<1> QED
  BY <1>5, <1>6, <1>7, <1>8 DEF PlayerInv

LEMMA EndsKeepInv ==
    ASSUME PlayerInv,
           ProfileFails \/ SystemDisabled \/ (\E c \in Chars : WalkRefused(c)) \/ EndCrawl
    PROVE  PlayerInv'
<1>1. Returns /\ UNCHANGED <<now, raid, chars, stored, ids>>
        /\ player' \in {player, Transient, Private, NotFound, Succeeded}
  BY DEF ProfileFails, SystemDisabled, WalkRefused, EndCrawl, Ends
<1> QED
  BY <1>1, ReturnsKeepsInv

(***************************************************************************)
(* The walk.                                                               *)
(***************************************************************************)

LEMMA WalkPageKeepsInv ==
    ASSUME PlayerInv, NEW c \in Chars, WalkPage(c)
    PROVE  PlayerInv'
<1> DEFINE P == Page(c, crawl.page)
           last == [crawl EXCEPT !.found = @ \cup Collected(P), !.at = "none", !.page = 0,
                                 !.todo = @ \ {c}, !.done = @ \cup {c},
                                 !.cut = IF CutShort(P) THEN @ \cup {c} ELSE @]
           goes == [crawl EXCEPT !.found = @ \cup Collected(P), !.at = c, !.page = @ + 1]
<1>1. crawl \in CrawlState /\ cycle = "walk" /\ crawl.at \in {"none", c} /\ c # "none"
  BY CrawlAssumption DEF PlayerInv, PlayerTypes, WalkPage, MayWalk
<1>2. /\ crawl' = IF IsLast(P) THEN last ELSE goes
      /\ UNCHANGED <<now, raid, chars, stored, player, ids, cycle>>
  BY DEF WalkPage
<1>3. crawl.page \in Nat /\ crawl.found \subseteq Raids /\ crawl.done \subseteq Chars
        /\ crawl.cut \subseteq Chars /\ crawl.todo \subseteq Chars
  BY <1>1, CrawlFields
<1>4. Collected(P) \subseteq Raids
  BY DEF Collected, Page, History
<1>5. \A r \in Raids : Rank(r) \in Nat /\ ~ (Rank(r) < 0 * PageSize)
  <2>1. 0 * PageSize = 0
    BY CrawlAssumption
  <2> QED
    BY <2>1, RankIsNat
<1>6. ASSUME ~crawl.hadError
      PROVE  \A r \in Raids : Wanted(r, c) /\ Rank(r) < crawl.page * PageSize => r \in Kept
  <2>1. crawl.at = "none" => crawl.page = 0
    BY DEF PlayerInv, CrawlOK
  <2>2. CASE crawl.at = c
    BY <1>6, <2>2 DEF PlayerInv, WalkOK
  <2>3. CASE crawl.page = 0
    BY <1>5, <2>3
  <2> QED
    BY <1>1, <2>1, <2>2, <2>3
<1> DEFINE K == Kept \cup Collected(P)
<1>7. ASSUME ~crawl.hadError
      PROVE  /\ \A r \in Raids : Wanted(r, c) /\ Rank(r) < (crawl.page + 1) * PageSize => r \in K
             /\ IsLast(P) /\ ~CutShort(P) => \A r \in Raids : Wanted(r, c) => r \in K
  BY <1>3, <1>6, <1>7, PageCollects
<1>8. RaidsOK'
  BY <1>2, RaidsSame DEF PlayerInv
<1>9. \A r : Rank(r)' = Rank(r)
  BY <1>2 DEF Rank, History
<1> HIDE DEF P
<1>10. CASE IsLast(P)
  <2> DEFINE cut == IF CutShort(P) THEN crawl.cut \cup {c} ELSE crawl.cut
  <2>1. crawl' = [crawl EXCEPT !.found = crawl.found \cup Collected(P), !.at = "none", !.page = 0,
                       !.todo = crawl.todo \ {c}, !.done = crawl.done \cup {c}, !.cut = cut]
    BY <1>2, <1>10
  <2>2. cut \subseteq Chars /\ crawl.cut \subseteq cut /\ (CutShort(P) => c \in cut)
    BY <1>3
  <2> HIDE DEF cut
  <2>3. crawl' \in CrawlState
    BY <1>1, <1>3, <1>4, <2>1, <2>2 DEF CrawlState
  <2>4. /\ crawl'.found = crawl.found \cup Collected(P) /\ crawl'.at = "none" /\ crawl'.page = 0
        /\ crawl'.done = crawl.done \cup {c} /\ crawl'.cut = cut /\ crawl'.failed = crawl.failed
        /\ crawl'.begun = crawl.begun /\ crawl'.watermark = crawl.watermark
        /\ crawl'.hadError = crawl.hadError
    BY <1>1, <2>1 DEF CrawlState
  <2>5. PlayerTypes'
    BY <1>2, <2>3 DEF PlayerInv, PlayerTypes
  <2>6. CrawlOK'
    BY <1>1, <1>2, <2>4 DEF PlayerInv, CrawlOK
  <2>7. \A r, d : Wanted(r, d)' => Wanted(r, d)
    BY <1>2, <2>4 DEF Wanted, Stops, OldestWanted, Covered, CoveredCutoff, EndedAt
  <2>8. Kept' = K
    BY <1>2, <2>4 DEF Kept
  <2>9. ASSUME ~crawl'.hadError, NEW d \in crawl'.done \ crawl'.cut, NEW r \in Raids, Wanted(r, d)'
        PROVE  r \in K
    <3>1. ~crawl.hadError /\ Wanted(r, d)
      BY <2>4, <2>7, <2>9
    <3>2. CASE d = c
      <4>1. ~CutShort(P)
        BY <2>2, <2>4, <2>9, <3>2
      <4> QED
        BY <1>7, <1>10, <3>1, <3>2, <4>1
    <3>3. CASE d # c
      <4>1. d \in crawl.done \ crawl.cut
        BY <2>2, <2>4, <2>9, <3>3
      <4> QED
        BY <3>1, <4>1 DEF PlayerInv, WalkOK
    <3> QED
      BY <3>2, <3>3
  <2>10. \A r \in Raids : ~ (Rank(r)' < crawl'.page * PageSize)
    BY <1>5, <1>9, <2>4
  <2>11. WalkOK'
    BY <2>8, <2>9, <2>10 DEF WalkOK
  <2> QED
    BY <1>8, <2>5, <2>6, <2>11 DEF PlayerInv
<1>11. CASE ~IsLast(P)
  <2>1. crawl' = [crawl EXCEPT !.found = crawl.found \cup Collected(P), !.at = c, !.page = crawl.page + 1]
    BY <1>2, <1>11
  <2>2. crawl.page + 1 \in Nat
    BY <1>3
  <2>3. crawl' \in CrawlState
    BY <1>1, <1>3, <1>4, <2>1, <2>2 DEF CrawlState
  <2>4. /\ crawl'.found = crawl.found \cup Collected(P) /\ crawl'.at = c /\ crawl'.page = crawl.page + 1
        /\ crawl'.done = crawl.done /\ crawl'.cut = crawl.cut /\ crawl'.failed = crawl.failed
        /\ crawl'.begun = crawl.begun /\ crawl'.watermark = crawl.watermark
        /\ crawl'.hadError = crawl.hadError
    BY <1>1, <2>1 DEF CrawlState
  <2>5. PlayerTypes'
    BY <1>2, <2>3 DEF PlayerInv, PlayerTypes
  <2>6. CrawlOK'
    BY <1>1, <1>2, <2>4 DEF PlayerInv, CrawlOK
  <2>7. \A r, d : Wanted(r, d)' => Wanted(r, d)
    BY <1>2, <2>4 DEF Wanted, Stops, OldestWanted, Covered, CoveredCutoff, EndedAt
  <2>8. Kept' = K
    BY <1>2, <2>4 DEF Kept
  <2>9. ASSUME ~crawl'.hadError, NEW d \in crawl'.done \ crawl'.cut, NEW r \in Raids, Wanted(r, d)'
        PROVE  r \in K
    BY <2>4, <2>7, <2>9 DEF PlayerInv, WalkOK
  <2>10. ASSUME ~crawl'.hadError, NEW r \in Raids, Wanted(r, crawl.at)',
                Rank(r)' < crawl'.page * PageSize
         PROVE  r \in K
    <3>1. ~crawl.hadError /\ Wanted(r, c) /\ Rank(r) < (crawl.page + 1) * PageSize
      BY <1>9, <2>4, <2>7, <2>10 DEF Wanted
    <3> QED
      BY <1>7, <3>1
  <2>11. WalkOK'
    BY <2>8, <2>9, <2>10 DEF WalkOK
  <2> QED
    BY <1>8, <2>5, <2>6, <2>11 DEF PlayerInv
<1> QED
  BY <1>10, <1>11

LEMMA WalkFailsKeepsInv ==
    ASSUME PlayerInv, NEW c \in Chars, WalkFails(c)
    PROVE  PlayerInv'
<1>1. PICK x \in CrawlState : x = crawl
  BY DEF PlayerInv, PlayerTypes
<1>2. crawl' = [x EXCEPT !.at = "none", !.page = 0, !.todo = x.todo \ {c}, !.done = x.done \cup {c},
                         !.hadError = TRUE, !.refresh = x.refresh \/ x.fromCache]
  BY <1>1 DEF WalkFails
<1>3. (x.refresh \/ x.fromCache) \in BOOLEAN /\ x.todo \ {c} \subseteq Chars /\ x.done \cup {c} \subseteq Chars
  BY CrawlFields
<1>4. crawl' \in CrawlState /\ crawl'.at = "none" /\ crawl'.page = 0 /\ crawl'.hadError
        /\ crawl'.begun = x.begun /\ crawl'.watermark = x.watermark
  BY <1>2, <1>3 DEF CrawlState
<1>5. UNCHANGED <<now, raid, chars, stored, player, ids, cycle>> /\ cycle = "walk"
  BY DEF WalkFails, MayWalk
<1>6. PlayerTypes'
  BY <1>4, <1>5 DEF PlayerInv, PlayerTypes
<1>7. RaidsOK'
  BY <1>5, RaidsSame DEF PlayerInv
<1>8. CrawlOK'
  BY <1>1, <1>4, <1>5 DEF PlayerInv, CrawlOK
<1>9. WalkOK'
  BY <1>4 DEF WalkOK
<1> QED
  BY <1>6, <1>7, <1>8, <1>9 DEF PlayerInv

\* A PGCR that was found is stored, or its failure is remembered.
LEMMA FetchKeepsInv ==
    ASSUME PlayerInv, NEW r \in Raids, FetchPGCR(r)
    PROVE  PlayerInv'
<1>1. PICK x \in CrawlState : x = crawl
  BY DEF PlayerInv, PlayerTypes
<1>2. UNCHANGED <<now, raid, chars, player, ids, cycle>> /\ cycle = "pgcrs"
  BY DEF FetchPGCR
<1>3. x.found \subseteq Raids /\ x.failed \subseteq Raids /\ stored \subseteq Raids
  BY CrawlFields DEF PlayerInv, PlayerTypes
<1>4. /\ crawl' \in CrawlState /\ stored' \subseteq Raids /\ Kept \subseteq Kept'
      /\ crawl'.begun = x.begun /\ crawl'.watermark = x.watermark /\ crawl'.hadError = x.hadError
      /\ crawl'.at = x.at /\ crawl'.page = x.page /\ crawl'.done = x.done /\ crawl'.cut = x.cut
  <2>1. CASE stored' = stored \cup {r} /\ crawl' = [x EXCEPT !.found = x.found \ {r}]
    <3>1. crawl' \in CrawlState /\ crawl'.found = x.found \ {r} /\ crawl'.failed = x.failed
      BY <1>3, <2>1 DEF CrawlState
    <3>2. Kept \subseteq Kept'
      BY <1>1, <2>1, <3>1 DEF Kept
    <3> QED
      BY <1>3, <2>1, <3>1, <3>2 DEF CrawlState
  <2>2. CASE /\ crawl' = [x EXCEPT !.found = x.found \ {r}, !.failed = x.failed \cup {r}]
             /\ stored' = stored
    <3>1. crawl' \in CrawlState /\ crawl'.found = x.found \ {r} /\ crawl'.failed = x.failed \cup {r}
      BY <1>3, <2>2 DEF CrawlState
    <3>2. Kept \subseteq Kept'
      BY <1>1, <2>2, <3>1 DEF Kept
    <3> QED
      BY <1>3, <2>2, <3>1, <3>2 DEF CrawlState
  <2> QED
    BY <1>1, <2>1, <2>2 DEF FetchPGCR
<1>5. PlayerTypes'
  BY <1>2, <1>4 DEF PlayerInv, PlayerTypes
<1>6. RaidsOK'
  BY <1>2, RaidsSame DEF PlayerInv
<1>7. CrawlOK'
  BY <1>1, <1>2, <1>4 DEF PlayerInv, CrawlOK
<1>8. WalkOK'
  BY <1>1, <1>2, <1>4, KeptGrows
<1> QED
  BY <1>5, <1>6, <1>7, <1>8 DEF PlayerInv

\* The steps that touch neither the raids nor what the crawl has found.
LEMMA QuietKeepsInv ==
    ASSUME PlayerInv,
           \/ Skip \/ DropQueued \/ Enqueue \/ EndWalk \/ RefreshFails \/ RefreshAnswers
           \/ (\E c \in Chars : CreateCharacter(c)) \/ (\E r \in Raids : StoredElsewhere(r))
    PROVE  PlayerInv'
<1>1. /\ UNCHANGED <<now, raid, player>> /\ stored \subseteq stored' /\ stored' \subseteq Raids
      /\ chars' \subseteq Chars /\ ids' \subseteq chars' /\ cycle' \in Cycle
      /\ cycle' \in Crawling => cycle \in Crawling
      /\ cycle' \notin {"walk", "refresh", "pgcrs"} => cycle \notin {"walk", "refresh", "pgcrs"}
  BY DEF PlayerInv, PlayerTypes, Skip, DropQueued, Enqueue, EndWalk, RefreshFails, RefreshAnswers,
         CreateCharacter, StoredElsewhere, Cycle, Crawling
<1>2. PICK x \in CrawlState : x = crawl
  BY DEF PlayerInv, PlayerTypes
<1>3. \/ crawl' = x
      \/ crawl' = [x EXCEPT !.todo = chars \ x.done, !.refresh = FALSE, !.fromCache = FALSE]
  BY <1>2 DEF Skip, DropQueued, Enqueue, EndWalk, RefreshFails, RefreshAnswers, CreateCharacter,
              StoredElsewhere
<1>4. chars \ x.done \subseteq Chars
  BY DEF PlayerInv, PlayerTypes
<1>5. /\ crawl' \in CrawlState
      /\ crawl'.begun = x.begun /\ crawl'.watermark = x.watermark /\ crawl'.hadError = x.hadError
      /\ crawl'.at = x.at /\ crawl'.page = x.page /\ crawl'.done = x.done /\ crawl'.cut = x.cut
      /\ crawl'.found = x.found /\ crawl'.failed = x.failed
  BY <1>3, <1>4 DEF CrawlState
<1>6. PlayerTypes'
  BY <1>1, <1>5 DEF PlayerInv, PlayerTypes
<1>7. RaidsOK'
  BY <1>1, RaidsSame DEF PlayerInv
<1>8. CrawlOK'
  BY <1>1, <1>2, <1>5 DEF PlayerInv, CrawlOK
<1>9. Kept \subseteq Kept'
  BY <1>1, <1>2, <1>5 DEF Kept
<1>10. WalkOK'
  BY <1>1, <1>2, <1>5, <1>9, KeptGrows
<1> QED
  BY <1>6, <1>7, <1>8, <1>10 DEF PlayerInv

(***************************************************************************)
(* The player's game, and time.                                            *)
(***************************************************************************)

LEMMA TickKeepsInv ==
    ASSUME PlayerInv, PlayerTick
    PROVE  PlayerInv'
<1>1. now \in Nat \ {0} /\ now' = now + 1 /\ Lag \in Nat /\ CrawlTime \in Nat
        /\ UNCHANGED <<raid, chars, stored, player, ids, cycle, crawl>>
        /\ player.lastCrawled \in Nat /\ crawl.begun \in Nat
  BY CrawlAssumption, CrawlFields DEF PlayerInv, PlayerTypes, PlayerTick
<1>2. PlayerTypes'
  BY <1>1 DEF PlayerInv, PlayerTypes
<1>3. RaidsOK'
  <2>1. ASSUME NEW r \in Raids
        PROVE  /\ Played(r)' => raid'[r].start <= now' /\ raid'[r].char \in Chars
               /\ Ended(r)' => Played(r)' /\ raid'[r].start <= raid'[r].end /\ raid'[r].end <= now'
               /\ raid'[r].listed => Ended(r)'
               /\ Ended(r)' /\ ~raid'[r].listed => now' - raid'[r].end <= Lag
    <3>1. raid[r].start \in Nat /\ raid[r].end \in Nat
      BY RaidFields DEF PlayerInv
    <3>2. Ended(r) /\ ~raid[r].listed => now - raid[r].end < Lag
      BY DEF PlayerTick
    <3> QED
      BY <1>1, <3>1, <3>2 DEF PlayerInv, RaidsOK, Played, Ended
  <2>2. \A q, r \in Raids : q # r /\ Played(q)' /\ Played(r)' /\ raid'[q].char = raid'[r].char =>
           /\ raid'[q].start # raid'[r].start
           /\ raid'[q].start < raid'[r].start => Ended(q)' /\ raid'[q].end < raid'[r].start
    BY <1>1 DEF PlayerInv, RaidsOK, Played, Ended
  <2> QED
    BY <2>1, <2>2 DEF RaidsOK
<1>4. CrawlOK'
  BY <1>1 DEF PlayerInv, CrawlOK, PlayerTick
<1>5. WalkOK'
  BY <1>1 DEF PlayerInv, WalkOK, Wanted, Kept, Stops, OldestWanted, Covered, CoveredCutoff, EndedAt, Rank, History
<1> QED
  BY <1>2, <1>3, <1>4, <1>5 DEF PlayerInv

\* What is left of the invariant when only the raids change.
LEMMA GameKeepsInv ==
    ASSUME PlayerInv, UNCHANGED <<now, chars, stored, player, ids, cycle, crawl>>,
           raid' \in [Raids -> RaidRecord], RaidsOK', WalkOK'
    PROVE  PlayerInv'
<1>1. PlayerTypes' /\ CrawlOK'
  BY DEF PlayerInv, PlayerTypes, CrawlOK
<1> QED
  BY <1>1 DEF PlayerInv

LEMMA BeginKeepsInv ==
    ASSUME PlayerInv, NEW p \in Raids, NEW c \in Chars, Begin(p, c)
    PROVE  PlayerInv'
<1>1. /\ raid \in [Raids -> RaidRecord] /\ now \in Nat \ {0}
      /\ raid' = [raid EXCEPT ![p].char = c, ![p].start = now]
      /\ UNCHANGED <<now, chars, stored, player, ids, cycle, crawl>>
  BY DEF PlayerInv, PlayerTypes, Begin
<1>2. raid[p].start = 0 /\ raid[p].end = 0 /\ ~raid[p].listed
  BY DEF PlayerInv, RaidsOK, Begin, Played, Ended
<1>3. raid[p] \in RaidRecord
  BY <1>1
<1>4. PICK new \in RaidRecord : new = [raid[p] EXCEPT !.char = c, !.start = now]
  BY <1>1, <1>3 DEF RaidRecord
<1>5. new.char = c /\ new.start = now /\ new.end = 0 /\ ~new.listed
  BY <1>2, <1>3, <1>4 DEF RaidRecord
<1>6. raid' = [raid EXCEPT ![p] = new]
  BY <1>1, <1>4
<1>7. raid'[p] = new /\ \A r \in Raids : r # p => raid'[r] = raid[r]
  BY <1>1, <1>6
<1>8. raid' \in [Raids -> RaidRecord]
  BY <1>1, <1>6
<1>9. \A q \in Raids : Played(q) /\ raid[q].char = c => Ended(q) /\ raid[q].end < now
  BY DEF Begin
<1>10. \A r \in Raids : raid[r].start \in Nat /\ raid[r].end \in Nat
  BY RaidFields DEF PlayerInv
<1>11. RaidsOK'
  <2>1. ASSUME NEW r \in Raids
        PROVE  /\ Played(r)' => raid'[r].start <= now' /\ raid'[r].char \in Chars
               /\ Ended(r)' => Played(r)' /\ raid'[r].start <= raid'[r].end /\ raid'[r].end <= now'
               /\ raid'[r].listed => Ended(r)'
               /\ Ended(r)' /\ ~raid'[r].listed => now' - raid'[r].end <= Lag
    <3>1. CASE r = p
      <4>1. raid'[r].char \in Chars /\ raid'[r].start = now /\ raid'[r].end = 0 /\ ~raid'[r].listed
        BY <1>5, <1>7, <3>1
      <4>2. ~Ended(r)' /\ raid'[r].start <= now'
        BY <1>1, <4>1 DEF Ended
      <4> QED
        BY <4>1, <4>2
    <3>2. CASE r # p
      BY <1>1, <1>7, <3>2 DEF PlayerInv, RaidsOK, Played, Ended
    <3> QED
      BY <3>1, <3>2
  <2>2. ASSUME NEW q \in Raids, NEW r \in Raids, q # r, Played(q)', Played(r)',
               raid'[q].char = raid'[r].char
        PROVE  /\ raid'[q].start # raid'[r].start
               /\ raid'[q].start < raid'[r].start => Ended(q)' /\ raid'[q].end < raid'[r].start
    <3>1. CASE q # p /\ r # p
      BY <1>7, <2>2, <3>1 DEF PlayerInv, RaidsOK, Played, Ended
    <3>2. CASE q = p
      <4>1. Played(r) /\ raid[r].char = c /\ raid'[r] = raid[r] /\ r # p
        BY <1>5, <1>7, <2>2, <3>2 DEF Played
      <4>2. raid[r].start <= raid[r].end /\ raid[r].end < now
        BY <1>9, <4>1 DEF PlayerInv, RaidsOK
      <4> QED
        BY <1>1, <1>5, <1>7, <1>10, <3>2, <4>1, <4>2
    <3>3. CASE r = p
      <4>1. Played(q) /\ raid[q].char = c /\ raid'[q] = raid[q] /\ q # p
        BY <1>5, <1>7, <2>2, <3>3 DEF Played
      <4>2. raid[q].start <= raid[q].end /\ raid[q].end < now /\ Ended(q)
        BY <1>9, <4>1 DEF PlayerInv, RaidsOK
      <4>3. Ended(q)'
        BY <4>1, <4>2 DEF Ended
      <4> QED
        BY <1>1, <1>5, <1>7, <1>10, <3>3, <4>1, <4>2, <4>3
    <3> QED
      BY <3>1, <3>2, <3>3
  <2> QED
    BY <2>1, <2>2 DEF RaidsOK
<1>12. WalkOK'
  <2>1. \A r \in Raids : raid[r].listed => raid'[r] = raid[r]
    BY <1>2, <1>7
  <2>2. \A r \in Raids : ~ (raid'[r].listed /\ ~raid[r].listed)
    BY <1>5, <1>7
  <2> QED
    BY <1>1, <2>1, <2>2, GameKeepsWalk
<1> QED
  BY <1>1, <1>8, <1>11, <1>12, GameKeepsInv

LEMMA EndKeepsInv ==
    ASSUME PlayerInv, NEW p \in Raids, End(p)
    PROVE  PlayerInv'
<1>1. /\ raid \in [Raids -> RaidRecord] /\ now \in Nat \ {0} /\ Lag \in Nat
      /\ raid' = [raid EXCEPT ![p].end = now]
      /\ UNCHANGED <<now, chars, stored, player, ids, cycle, crawl>>
      /\ Played(p) /\ ~Ended(p)
  BY CrawlAssumption DEF PlayerInv, PlayerTypes, End
<1>2. ~raid[p].listed
  BY <1>1 DEF PlayerInv, RaidsOK
<1>3. raid[p] \in RaidRecord
  BY <1>1
<1>4. PICK new \in RaidRecord : new = [raid[p] EXCEPT !.end = now]
  BY <1>1, <1>3 DEF RaidRecord
<1>5. new.char = raid[p].char /\ new.start = raid[p].start /\ new.end = now /\ ~new.listed
  BY <1>2, <1>3, <1>4 DEF RaidRecord
<1>6. raid' = [raid EXCEPT ![p] = new]
  BY <1>1, <1>4
<1>7. raid'[p] = new /\ \A r \in Raids : r # p => raid'[r] = raid[r]
  BY <1>1, <1>6
<1>8. raid' \in [Raids -> RaidRecord]
  BY <1>1, <1>6
<1>9. \A r \in Raids : raid[r].start \in Nat /\ raid[r].end \in Nat
  BY RaidFields DEF PlayerInv
<1>10. \A r \in Raids : /\ raid'[r].char = raid[r].char /\ raid'[r].start = raid[r].start
                        /\ Played(r)' = Played(r)
  BY <1>5, <1>7 DEF Played
<1>11. RaidsOK'
  <2>1. ASSUME NEW r \in Raids
        PROVE  /\ Played(r)' => raid'[r].start <= now' /\ raid'[r].char \in Chars
               /\ Ended(r)' => Played(r)' /\ raid'[r].start <= raid'[r].end /\ raid'[r].end <= now'
               /\ raid'[r].listed => Ended(r)'
               /\ Ended(r)' /\ ~raid'[r].listed => now' - raid'[r].end <= Lag
    <3>1. CASE r = p
      <4>1. raid[p].start <= now /\ raid[p].char \in Chars
        BY <1>1 DEF PlayerInv, RaidsOK
      <4> QED
        BY <1>1, <1>5, <1>7, <1>10, <3>1, <4>1 DEF Ended
    <3>2. CASE r # p
      BY <1>1, <1>7, <3>2 DEF PlayerInv, RaidsOK, Played, Ended
    <3> QED
      BY <3>1, <3>2
  <2>2. ASSUME NEW q \in Raids, NEW r \in Raids, q # r, Played(q)', Played(r)',
               raid'[q].char = raid'[r].char
        PROVE  /\ raid'[q].start # raid'[r].start
               /\ raid'[q].start < raid'[r].start => Ended(q)' /\ raid'[q].end < raid'[r].start
    <3>1. /\ raid[q].start # raid[r].start
          /\ raid[q].start < raid[r].start => Ended(q) /\ raid[q].end < raid[r].start
      BY <1>10, <2>2 DEF PlayerInv, RaidsOK
    <3>2. raid[q].start < raid[r].start => q # p /\ raid'[q] = raid[q] /\ Ended(q)'
      BY <1>1, <1>7, <3>1 DEF Ended
    <3> QED
      BY <1>10, <3>1, <3>2
  <2> QED
    BY <2>1, <2>2 DEF RaidsOK
<1>12. WalkOK'
  <2>1. \A r \in Raids : raid[r].listed => raid'[r] = raid[r]
    BY <1>2, <1>7
  <2>2. \A r \in Raids : ~ (raid'[r].listed /\ ~raid[r].listed)
    BY <1>5, <1>7
  <2> QED
    BY <1>1, <2>1, <2>2, GameKeepsWalk
<1> QED
  BY <1>1, <1>8, <1>11, <1>12, GameKeepsInv

\* A raid that is listed now ended at most Lag ago, so after the crawl began or
\* shortly before.
LEMMA ListedKeepsInv ==
    ASSUME PlayerInv, NEW p \in Raids, Listed(p)
    PROVE  PlayerInv'
<1>0. PICK timed \in BOOLEAN : raid' = [raid EXCEPT ![p].listed = TRUE, ![p].timed = timed]
  BY DEF Listed
<1>1. /\ raid \in [Raids -> RaidRecord] /\ now \in Nat \ {0} /\ Lag \in Nat
      /\ raid' = [raid EXCEPT ![p].listed = TRUE, ![p].timed = timed]
      /\ UNCHANGED <<now, chars, stored, player, ids, cycle, crawl>>
      /\ Ended(p) /\ ~raid[p].listed
  BY <1>0, CrawlAssumption DEF PlayerInv, PlayerTypes, Listed
<1>3. raid[p] \in RaidRecord
  BY <1>1
<1>4. PICK new \in RaidRecord : new = [raid[p] EXCEPT !.listed = TRUE, !.timed = timed]
  BY <1>1, <1>3 DEF RaidRecord
<1>5. new.char = raid[p].char /\ new.start = raid[p].start /\ new.end = raid[p].end /\ new.listed
  BY <1>3, <1>4 DEF RaidRecord
<1>6. raid' = [raid EXCEPT ![p] = new]
  BY <1>1, <1>4
<1>7. raid'[p] = new /\ \A r \in Raids : r # p => raid'[r] = raid[r]
  BY <1>1, <1>6
<1>8. raid' \in [Raids -> RaidRecord]
  BY <1>1, <1>6
<1>9. \A r \in Raids : /\ raid'[r].char = raid[r].char /\ raid'[r].start = raid[r].start
                       /\ raid'[r].end = raid[r].end /\ (~raid'[r].listed => ~raid[r].listed)
                       /\ (raid'[r].listed => raid[r].listed \/ r = p)
  BY <1>5, <1>7
<1>10. RaidsOK'
  <2>1. \A r \in Raids : Played(r)' = Played(r) /\ Ended(r)' = Ended(r)
    BY <1>9 DEF Played, Ended
  <2>2. ASSUME NEW r \in Raids
        PROVE  /\ Played(r)' => raid'[r].start <= now' /\ raid'[r].char \in Chars
               /\ Ended(r)' => Played(r)' /\ raid'[r].start <= raid'[r].end /\ raid'[r].end <= now'
               /\ raid'[r].listed => Ended(r)'
               /\ Ended(r)' /\ ~raid'[r].listed => now' - raid'[r].end <= Lag
    BY <1>1, <1>9, <2>1 DEF PlayerInv, RaidsOK
  <2>3. \A q, r \in Raids : q # r /\ Played(q)' /\ Played(r)' /\ raid'[q].char = raid'[r].char =>
           /\ raid'[q].start # raid'[r].start
           /\ raid'[q].start < raid'[r].start => Ended(q)' /\ raid'[q].end < raid'[r].start
    BY <1>9, <2>1 DEF PlayerInv, RaidsOK
  <2> QED
    BY <2>2, <2>3 DEF RaidsOK
<1>11. WalkOK'
  <2>1. \A r \in Raids : raid[r].listed => raid'[r] = raid[r]
    BY <1>1, <1>7
  <2>2. ASSUME NEW r \in Raids, raid'[r].listed, ~raid[r].listed
        PROVE  ~ (raid'[r].end + Lag < crawl.begun)
    <3>1. r = p /\ raid'[r].end = raid[p].end
      BY <1>9, <2>2
    <3>2. now - raid[p].end <= Lag /\ crawl.begun <= now /\ raid[p].end \in Nat /\ crawl.begun \in Nat
      BY <1>1, RaidFields, CrawlFields DEF PlayerInv, PlayerTypes, RaidsOK, CrawlOK
    <3> QED
      BY <1>1, <3>1, <3>2
  <2> QED
    BY <1>1, <2>1, <2>2, GameKeepsWalk
<1> QED
  BY <1>1, <1>8, <1>10, <1>11, GameKeepsInv

(***************************************************************************)
(* The theorems.                                                           *)
(***************************************************************************)

LEMMA PlayerInitInv == PlayerInit => PlayerInv
<1> SUFFICES ASSUME PlayerInit PROVE PlayerInv
  OBVIOUS
<1>1. Blank(crawl, 0, 0)
  BY NoCrawlIsBlank DEF PlayerInit
<1>2. \A r \in Raids : /\ raid[r] = [char |-> "none", start |-> 0, end |-> 0, listed |-> FALSE,
                                   timed |-> FALSE]
                       /\ raid[r] \in RaidRecord /\ ~Played(r) /\ ~Ended(r) /\ ~raid[r].listed
  BY DEF PlayerInit, RaidRecord, Played, Ended
<1>3. PlayerTypes
  <2>1. raid \in [Raids -> RaidRecord]
    BY <1>2 DEF PlayerInit
  <2>2. now \in Nat \ {0} /\ chars \subseteq Chars /\ ids \subseteq chars /\ stored \subseteq Raids
          /\ player.lastCrawled \in Nat /\ player.lastCrawled <= now /\ cycle \in Cycle
    BY DEF PlayerInit, Cycle
  <2>3. DOMAIN player = {"lastCrawled", "failures", "eligible", "active"}
    BY DEF PlayerInit
  <2> QED
    BY <1>1, <2>1, <2>2, <2>3 DEF PlayerTypes, Blank
<1>4. RaidsOK
  BY <1>2 DEF RaidsOK
<1>5. CrawlOK
  BY <1>1 DEF CrawlOK, Blank, PlayerInit, Crawling
<1>6. WalkOK
  <2>1. crawl.page * PageSize = 0
    BY <1>1, CrawlAssumption DEF Blank
  <2>2. \A r \in Raids : ~ (Rank(r) < crawl.page * PageSize)
    BY <2>1, RankIsNat
  <2> QED
    BY <1>1, <2>2 DEF WalkOK, Blank
<1> QED
  BY <1>3, <1>4, <1>5, <1>6 DEF PlayerInv

LEMMA PlayerNextInv == PlayerInv /\ [PlayerNext]_playerVars => PlayerInv'
<1> SUFFICES ASSUME PlayerInv, [PlayerNext]_playerVars PROVE PlayerInv'
  OBVIOUS
<1>1. CASE BeginCycle \/ EndCycle \/ Restart
  BY <1>1, CycleKeepsInv
<1>2. CASE StartCrawl \/ ProfileAnswers
  BY <1>2, StartKeepsInv
<1>3. CASE ProfileFails \/ SystemDisabled \/ (\E c \in Chars : WalkRefused(c)) \/ EndCrawl
  BY <1>3, EndsKeepInv
<1>4. CASE \E c \in Chars : WalkPage(c)
  BY <1>4, WalkPageKeepsInv
<1>5. CASE \E c \in Chars : WalkFails(c)
  BY <1>5, WalkFailsKeepsInv
<1>6. CASE \E r \in Raids : FetchPGCR(r)
  BY <1>6, FetchKeepsInv
<1>7. CASE \/ Skip \/ DropQueued \/ Enqueue \/ EndWalk \/ RefreshFails \/ RefreshAnswers
           \/ (\E c \in Chars : CreateCharacter(c)) \/ (\E r \in Raids : StoredElsewhere(r))
  BY <1>7, QuietKeepsInv
<1>8. CASE PlayerTick
  BY <1>8, TickKeepsInv
<1>9. CASE \E c \in Chars : \E r \in Raids : Begin(r, c)
  BY <1>9, BeginKeepsInv
<1>10. CASE \E r \in Raids : End(r)
  BY <1>10, EndKeepsInv
<1>11. CASE \E r \in Raids : Listed(r)
  BY <1>11, ListedKeepsInv
<1>12. CASE UNCHANGED playerVars
  <2>1. UNCHANGED <<now, raid, chars, stored, player, ids, cycle, crawl>>
    BY <1>12 DEF playerVars
  <2>2. PlayerTypes' /\ RaidsOK' /\ CrawlOK'
    BY <2>1, RaidsSame DEF PlayerInv, PlayerTypes, CrawlOK
  <2>3. WalkOK'
    BY <2>1, KeptGrows DEF Kept
  <2> QED
    BY <2>2, <2>3 DEF PlayerInv
<1> QED
  BY <1>1, <1>2, <1>3, <1>4, <1>5, <1>6, <1>7, <1>8, <1>9, <1>10, <1>11, <1>12
     DEF PlayerNext, CycleStep, CrawlStep, Environment

\* The watermark goes up in one step only.
LEMMA OnlySuccessCovers ==
    ASSUME PlayerInv, [PlayerNext]_playerVars
    PROVE  \/ player'.lastCrawled = player.lastCrawled
           \/ EndCrawl /\ ~crawl.hadError /\ player'.lastCrawled = now
<1>1. DOMAIN player = {"lastCrawled", "failures", "eligible", "active"}
  BY DEF PlayerInv, PlayerTypes
<1>2. /\ Transient.lastCrawled = player.lastCrawled /\ Private.lastCrawled = player.lastCrawled
      /\ NotFound.lastCrawled = player.lastCrawled /\ Succeeded.lastCrawled = now
  BY <1>1 DEF Transient, Private, NotFound, Succeeded
<1>3. CASE EndCrawl
  BY <1>2, <1>3 DEF EndCrawl, Ends
<1>4. CASE ProfileFails \/ \E c \in Chars : WalkRefused(c)
  BY <1>2, <1>4 DEF ProfileFails, WalkRefused, Ends
<1>5. CASE player' = player
  BY <1>5
<1> QED
  BY <1>3, <1>4, <1>5
     DEF PlayerNext, CycleStep, CrawlStep, Environment, playerVars, BeginCycle, DropQueued, Skip,
         EndCycle, Restart, StartCrawl, ProfileAnswers, SystemDisabled, WalkPage, WalkFails, EndWalk,
         RefreshAnswers, RefreshFails, FetchPGCR, PlayerTick, Enqueue, End, Listed, StoredElsewhere,
         CreateCharacter, Begin

\* A raid that ends now is not behind the watermark, and one that ended keeps its end.
LEMMA EndsStay ==
    ASSUME PlayerInv, [PlayerNext]_playerVars, NEW r \in Raids, Ended(r)'
    PROVE  (Ended(r) /\ raid'[r].end = raid[r].end) \/ (raid'[r].end = now /\ ~EndCrawl)
<1>1. raid \in [Raids -> RaidRecord]
  BY DEF PlayerInv, PlayerTypes
<1>2. CASE raid' = raid
  BY <1>2 DEF Ended
<1>3. CASE \E p \in Raids : End(p)
  <2>1. PICK p \in Raids : raid' = [raid EXCEPT ![p].end = now] /\ player' = player /\ cycle' = cycle
    BY <1>3 DEF End
  <2>2. ~EndCrawl
    BY <2>1 DEF EndCrawl, Ends, Returns
  <2>3. CASE r = p
    BY <1>1, <2>1, <2>2, <2>3 DEF RaidRecord
  <2>4. CASE r # p
    BY <1>1, <2>1, <2>4 DEF Ended
  <2> QED
    BY <2>3, <2>4
<1>4. CASE \E p \in Raids : Listed(p)
  <2>1. PICK p \in Raids, timed \in BOOLEAN :
           raid' = [raid EXCEPT ![p].listed = TRUE, ![p].timed = timed]
    BY <1>4 DEF Listed
  <2>2. raid'[r].end = raid[r].end
    BY <1>1, <2>1 DEF RaidRecord
  <2> QED
    BY <2>2 DEF Ended
<1>5. CASE \E c \in Chars : \E p \in Raids : Begin(p, c)
  <2>1. PICK p \in Raids, c \in Chars : raid' = [raid EXCEPT ![p].char = c, ![p].start = now]
    BY <1>5 DEF Begin
  <2>2. raid'[r].end = raid[r].end
    BY <1>1, <2>1 DEF RaidRecord
  <2> QED
    BY <2>2 DEF Ended
<1> QED
  BY <1>2, <1>3, <1>4, <1>5
     DEF PlayerNext, CycleStep, CrawlStep, Environment, playerVars, BeginCycle, DropQueued, Skip,
         EndCycle, Restart, StartCrawl, ProfileAnswers, ProfileFails, SystemDisabled, WalkPage,
         WalkFails, WalkRefused, EndCrawl, Ends, EndWalk, RefreshAnswers, RefreshFails, FetchPGCR,
         PlayerTick, Enqueue, StoredElsewhere, CreateCharacter

LEMMA StoredStays ==
    ASSUME PlayerInv, [PlayerNext]_playerVars
    PROVE  stored \subseteq stored'
BY DEF PlayerNext, CycleStep, CrawlStep, Environment, playerVars, BeginCycle, DropQueued, Skip,
       EndCycle, Restart, StartCrawl, ProfileAnswers, ProfileFails, SystemDisabled, WalkPage,
       WalkFails, WalkRefused, EndCrawl, Ends, EndWalk, RefreshAnswers, RefreshFails, FetchPGCR,
       PlayerTick, Enqueue, StoredElsewhere, CreateCharacter, Begin, End, Listed

\* A crawl that succeeds leaves out what has a cause.
LEMMA SuccessKeeps ==
    ASSUME PlayerInv, EndCrawl, ~crawl.hadError, NEW r \in Raids, Ended(r),
           raid[r].end < now - Buffer, r \notin stored, r \notin Lost
    PROVE  LossCause(r)
<1> SUFFICES ASSUME ~LossCause(r) PROVE FALSE
  OBVIOUS
<1>1. /\ now \in Nat /\ raid[r].end \in Nat /\ raid[r].start \in Nat /\ crawl.begun \in Nat
      /\ crawl.watermark \in Nat /\ player.lastCrawled \in Nat
      /\ Lag \in Nat /\ CrawlTime \in Nat /\ Buffer \in Nat /\ Lag + CrawlTime <= Buffer
  BY RaidFields, CrawlFields, CrawlAssumption, BufferCoversDelays DEF PlayerInv, PlayerTypes
<1>2. crawl.begun <= now /\ now - crawl.begun <= CrawlTime /\ crawl.watermark <= player.lastCrawled
  BY DEF PlayerInv, CrawlOK, EndCrawl, Crawling
<1>3. raid[r].listed
  <2>1. ~raid[r].listed => now - raid[r].end <= Lag
    BY DEF PlayerInv, RaidsOK
  <2> QED
    BY <1>1, <2>1
<1>4. raid[r].end + Lag < crawl.begun
  BY <1>1, <1>2
<1>5. ~Covered(r)
  <2>1. ~ (raid[r].end < player.lastCrawled - Buffer)
    BY DEF Lost
  <2>2. CASE raid[r].timed
    BY <1>1, <1>2, <2>1, <2>2 DEF Covered, CoveredCutoff, EndedAt
  <2>3. CASE ~raid[r].timed
    BY <2>3 DEF LossCause
  <2> QED
    BY <2>2, <2>3
<1>6. ~Stops(r)
  BY <1>5 DEF LossCause, Stops
<1>7. Wanted(r, raid[r].char)
  BY <1>3, <1>4, <1>6 DEF Wanted
<1>8. raid[r].char \in crawl.done \ crawl.cut
  BY DEF LossCause
<1>9. r \in Kept
  BY <1>7, <1>8 DEF PlayerInv, WalkOK
<1> QED
  BY <1>9 DEF Kept, LossCause, EndCrawl

LEMMA StepNamesLosses ==
    ASSUME PlayerInv, [PlayerNext]_playerVars
    PROVE  \A r \in Lost' \ Lost : LossCause(r)
<1> SUFFICES ASSUME NEW r \in Lost', r \notin Lost PROVE LossCause(r)
  OBVIOUS
<1>1. /\ r \in Raids /\ r \notin stored' /\ Ended(r)' /\ raid'[r].end < player'.lastCrawled - Buffer
  BY DEF Lost
<1>2. r \notin stored
  BY <1>1, StoredStays
<1>3. /\ now \in Nat /\ player.lastCrawled \in Nat /\ player.lastCrawled <= now /\ Buffer \in Nat
      /\ raid[r].end \in Nat
  BY <1>1, RaidFields, CrawlAssumption DEF PlayerInv, PlayerTypes
<1>4. CASE EndCrawl /\ ~crawl.hadError /\ player'.lastCrawled = now
  <2>1. Ended(r) /\ raid[r].end < now - Buffer
    BY <1>1, <1>4, EndsStay
  <2> QED
    BY <1>1, <1>2, <1>4, <2>1, SuccessKeeps
<1>5. CASE player'.lastCrawled = player.lastCrawled
  <2>1. CASE Ended(r) /\ raid'[r].end = raid[r].end
    BY <1>1, <1>2, <1>5, <2>1 DEF Lost
  <2>2. CASE raid'[r].end = now
    BY <1>1, <1>3, <1>5, <2>2
  <2> QED
    BY <1>1, <2>1, <2>2, EndsStay
<1> QED
  BY <1>4, <1>5, OnlySuccessCovers

\* What a successful crawl puts behind the watermark without its being stored has one
\* of the five causes of LossCause, for any number of raids and characters, pages
\* of any size, and any lag of Bungie's history that the buffer covers.
THEOREM PlayerLossesAreNamed == PlayerSpec => LossesAreNamed
<1>1. PlayerSpec => []PlayerInv
  BY PlayerInitInv, PlayerNextInv, PTL DEF PlayerSpec
<1>2. PlayerInv /\ [PlayerNext]_playerVars => [\A r \in Lost' \ Lost : LossCause(r)]_playerVars
  BY StepNamesLosses
<1> QED
  BY <1>1, <1>2, PTL DEF PlayerSpec, LossesAreNamed

(***************************************************************************)
(* The types of the player crawl.                                          *)
(***************************************************************************)

\* What PlayerTypes leaves out of the type invariant.
Bounded ==
    /\ now <= MaxTime /\ player \in PlayerRow /\ queued \in BOOLEAN
    /\ crawl.page < MaxPages

LEMMA PowersOfTwo == \A n \in 0 .. 20 : 2 ^ n \in Nat
<1>1. /\ 2 ^ 0 \in Nat /\ 2 ^ 1 \in Nat /\ 2 ^ 2 \in Nat /\ 2 ^ 3 \in Nat /\ 2 ^ 4 \in Nat
      /\ 2 ^ 5 \in Nat /\ 2 ^ 6 \in Nat /\ 2 ^ 7 \in Nat /\ 2 ^ 8 \in Nat /\ 2 ^ 9 \in Nat
      /\ 2 ^ 10 \in Nat /\ 2 ^ 11 \in Nat /\ 2 ^ 12 \in Nat /\ 2 ^ 13 \in Nat /\ 2 ^ 14 \in Nat
      /\ 2 ^ 15 \in Nat /\ 2 ^ 16 \in Nat /\ 2 ^ 17 \in Nat /\ 2 ^ 18 \in Nat /\ 2 ^ 19 \in Nat
      /\ 2 ^ 20 \in Nat
  OBVIOUS
<1>2. \A n \in 0 .. 20 :
        \/ n = 0 \/ n = 1 \/ n = 2 \/ n = 3 \/ n = 4 \/ n = 5 \/ n = 6 \/ n = 7 \/ n = 8 \/ n = 9
        \/ n = 10 \/ n = 11 \/ n = 12 \/ n = 13 \/ n = 14 \/ n = 15 \/ n = 16 \/ n = 17 \/ n = 18
        \/ n = 19 \/ n = 20
  OBVIOUS
<1> QED
  BY <1>1, <1>2

\* Twenty doublings at most: the backoff stays an integer, and within its cap.
LEMMA BackoffIsNat ==
    ASSUME player \in PlayerRow
    PROVE  BackoffTime \in Nat /\ BackoffTime <= BackoffCap
<1> DEFINE shift == IF player.failures < 20 THEN player.failures ELSE 20
<1>1. shift \in 0 .. 20
  <2>1. player.failures \in Nat
    BY DEF PlayerRow
  <2> QED
    BY <2>1
<1>2. PICK power \in Nat : power = 2 ^ shift
  BY <1>1, PowersOfTwo
<1>3. BackoffBase \in Nat /\ BackoffCap \in Nat
  BY CrawlAssumption
<1>4. BackoffTime = IF BackoffBase * power < BackoffCap THEN BackoffBase * power ELSE BackoffCap
  BY <1>2 DEF BackoffTime
<1>5. PICK wait \in Nat : wait = BackoffBase * power
  BY <1>2, <1>3
<1> QED
  BY <1>3, <1>4, <1>5

LEMMA OutcomesAreRows ==
    ASSUME player \in PlayerRow, now \in Nat
    PROVE  {player, Transient, Private, NotFound, Succeeded} \subseteq PlayerRow
<1>1. /\ player.failures \in Nat /\ player.active \in BOOLEAN /\ player.failures + 1 \in Nat
      /\ now + BackoffTime \in Nat /\ now + PrivacyBackoff \in Nat
  BY BackoffIsNat, CrawlAssumption DEF PlayerRow
<1>2. (player.active /\ player.failures + 1 < MaxFailures) \in BOOLEAN
  BY <1>1
<1>3. Transient \in PlayerRow
  BY <1>1, <1>2 DEF Transient, PlayerRow
<1>4. Private \in PlayerRow /\ NotFound \in PlayerRow /\ Succeeded \in PlayerRow
  BY <1>1 DEF Private, NotFound, Succeeded, PlayerRow
<1> QED
  BY <1>3, <1>4

LEMMA StepIsBounded ==
    ASSUME PlayerInv, Bounded, [PlayerNext]_playerVars
    PROVE  Bounded'
<1>1. now \in Nat /\ MaxPages \in Nat \ {0} /\ MaxTime \in Nat /\ crawl \in CrawlState
  BY CrawlAssumption DEF PlayerInv, PlayerTypes
<1>2. crawl.page \in Nat /\ crawl.drained \in BOOLEAN
  BY <1>1, CrawlFields
<1>3. now' <= MaxTime
  <2>1. now' = now \/ PlayerTick
    BY DEF PlayerNext, CycleStep, CrawlStep, Environment, playerVars, BeginCycle,
           DropQueued, Skip, EndCycle, Restart, StartCrawl, ProfileAnswers, ProfileFails,
           SystemDisabled, WalkPage, WalkFails, WalkRefused, EndCrawl, Ends, EndWalk, RefreshAnswers,
           RefreshFails, FetchPGCR, Enqueue, StoredElsewhere, CreateCharacter, Begin, End, Listed
  <2>2. CASE PlayerTick
    BY <1>1, <2>2 DEF PlayerTick
  <2> QED
    BY <2>1, <2>2 DEF Bounded
<1>4. player' \in {player, Transient, Private, NotFound, Succeeded}
  BY DEF PlayerNext, CycleStep, CrawlStep, Environment, playerVars, BeginCycle,
         DropQueued, Skip, EndCycle, Restart, StartCrawl, ProfileAnswers, ProfileFails,
         SystemDisabled, WalkPage, WalkFails, WalkRefused, EndCrawl, Ends, EndWalk, RefreshAnswers,
         RefreshFails, FetchPGCR, PlayerTick, Enqueue, StoredElsewhere, CreateCharacter, Begin, End,
         Listed
<1>5. player' \in PlayerRow
  BY <1>1, <1>4, OutcomesAreRows DEF Bounded
<1>6. queued' \in {TRUE, FALSE, queued, queued /\ ~crawl.drained}
  BY DEF PlayerNext, CycleStep, CrawlStep, Environment, playerVars, BeginCycle,
         DropQueued, Skip, EndCycle, Restart, StartCrawl, ProfileAnswers, ProfileFails,
         SystemDisabled, WalkPage, WalkFails, WalkRefused, EndCrawl, Ends, EndWalk, RefreshAnswers,
         RefreshFails, FetchPGCR, PlayerTick, Enqueue, StoredElsewhere, CreateCharacter, Begin, End,
         Listed
<1>7. queued' \in BOOLEAN
  BY <1>2, <1>6 DEF Bounded
<1>8. crawl'.page < MaxPages
  <2>1. player.lastCrawled \in Nat /\ crawl.begun \in Nat
    BY <1>1, CrawlFields DEF PlayerInv, PlayerTypes
  <2>2. CASE BeginCycle \/ EndCycle \/ Restart \/ Returns
    <3>1. Blank(crawl', 0, 0) \/ Blank(crawl', player.lastCrawled, 0)
      <4>1. CASE BeginCycle
        BY <2>1, <4>1, NoCrawlIsBlank DEF BeginCycle
      <4>2. CASE EndCycle \/ Restart
        BY <4>2, NoCrawlIsBlank DEF EndCycle, Restart
      <4>3. CASE Returns
        BY <1>2, <2>1, <4>3, NoCrawlIsBlank DEF Returns
      <4> QED
        BY <2>2, <4>1, <4>2, <4>3
    <3>2. crawl'.page = 0
      BY <3>1 DEF Blank
    <3> QED
      BY <1>1, <3>2
  <2>3. CASE StartCrawl \/ ProfileAnswers \/ RefreshAnswers \/ \E r \in Raids : FetchPGCR(r)
    <3>1. crawl'.page = crawl.page
      BY <1>1, <2>3 DEF StartCrawl, ProfileAnswers, RefreshAnswers, FetchPGCR, CrawlState
    <3> QED
      BY <3>1 DEF Bounded
  <2>4. CASE \E c \in Chars : WalkPage(c)
    <3>1. PICK c \in Chars : WalkPage(c)
      BY <2>4
    <3> DEFINE P == Page(c, crawl.page)
    <3>2. CASE IsLast(P)
      <4>1. crawl'.page = 0
        BY <1>1, <3>1, <3>2 DEF WalkPage, CrawlState
      <4> QED
        BY <1>1, <4>1
    <3>3. CASE ~IsLast(P)
      <4>1. crawl'.page = crawl.page + 1
        BY <1>1, <3>1, <3>3 DEF WalkPage, CrawlState
      <4>2. ~ (crawl.page + 1 >= MaxPages)
        BY <3>3 DEF IsLast
      <4> QED
        BY <1>1, <1>2, <4>1, <4>2
    <3> QED
      BY <3>2, <3>3
  <2>5. CASE \E c \in Chars : WalkFails(c)
    <3>1. crawl'.page = 0
      BY <1>1, <2>5 DEF WalkFails, CrawlState
    <3> QED
      BY <1>1, <3>1
  <2>6. CASE crawl' = crawl
    BY <2>6 DEF Bounded
  <2> QED
    BY <2>2, <2>3, <2>4, <2>5, <2>6
       DEF PlayerNext, CycleStep, CrawlStep, Environment, playerVars, ProfileFails, SystemDisabled,
           WalkRefused, EndCrawl, Ends, DropQueued, Skip, EndWalk, RefreshFails, PlayerTick, Enqueue,
           StoredElsewhere, CreateCharacter, Begin, End, Listed
<1> QED
  BY <1>3, <1>5, <1>7, <1>8 DEF Bounded

\* Whatever Bungie answers and whenever the process dies, no watermark lies in the
\* future, cached ids are of characters that exist, the row's backoff is a time, and
\* no walk goes past the page limit.
THEOREM PlayerTypeIsOK == PlayerSpec => []PlayerTypeOK
<1>1. PlayerInit => PlayerInv /\ Bounded
  <2> SUFFICES ASSUME PlayerInit PROVE Bounded
    BY PlayerInitInv
  <2>1. NoCrawl.page = 0
    BY DEF NoCrawl
  <2>2. player \in PlayerRow
    BY DEF PlayerInit, PlayerRow
  <2>3. now <= MaxTime /\ crawl.page < MaxPages
    BY <2>1, CrawlAssumption DEF PlayerInit
  <2>4. queued \in BOOLEAN
    BY DEF PlayerInit
  <2> QED
    BY <2>2, <2>3, <2>4 DEF Bounded
<1>2. PlayerInv /\ Bounded /\ [PlayerNext]_playerVars => (PlayerInv /\ Bounded)'
  BY PlayerNextInv, StepIsBounded
<1>3. PlayerInv /\ Bounded => PlayerTypeOK
  <2> SUFFICES ASSUME PlayerInv, Bounded PROVE PlayerTypeOK
    OBVIOUS
  <2>1. now \in 1 .. MaxTime
    BY CrawlAssumption DEF PlayerInv, PlayerTypes, Bounded
  <2> QED
    BY <2>1 DEF PlayerInv, PlayerTypes, Bounded, PlayerTypeOK
<1> QED
  BY <1>1, <1>2, <1>3, PTL DEF PlayerSpec
=============================================================================
