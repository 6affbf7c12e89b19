--------------------------- MODULE WebServerProofs ---------------------------
(***************************************************************************)
(* What ProfilePage guarantees for any number of refreshes, raids, writes  *)
(* of the crawler and failures, over an invariant that says, for each      *)
(* check, what its stage and its reply can be, and, for the newest one,    *)
(* that the stored row never falls behind what is shown.  Then what the    *)
(* cache of the server's routes guarantees (SwrCache), and what its        *)
(* readers get from the stored raids (RaidTables): their own board out of  *)
(* another request's result, percentiles that are those of the runs, and   *)
(* queries that agree.                                                     *)
(* The three specifications share no name and no theorem.                  *)
(***************************************************************************)
EXTENDS ProfilePage, SwrCache, RaidTables,
        SequenceTheorems, FiniteSetTheorems, WellFoundedInduction, TLAPS

(***************************************************************************)
(* The invariant.                                                          *)
(***************************************************************************)

\* The stages before it is known whether the crawl of the visit is queued.
Early == {"baseline", "profile", "containing", "update"}

Kinds == {"pending", "failed", "refused", "closed", "private", "profile",
          "session", "provisional", "none"}
Stages == {"baseline", "profile", "containing", "update", "linked", "identity", "reread",
           "mate", "mateUpdate", "contained"}

ReplyType == [kind : Kinds, as : Nat, more : BOOLEAN, shows : SUBSET Parts]
CheckType == [no : Nat, stage : Stages, has : ReplyType, reply : ReplyType]

TypesOK ==
    /\ world \in Nat /\ privacy \in [account : BOOLEAN, shows : SUBSET Parts]
    /\ rows \in [Members -> Nat]
    /\ checks \subseteq CheckType /\ shown \in ReplyType /\ live \in ReplyType
    /\ last \in Nat /\ posts \in Nat
    /\ asked \in BOOLEAN /\ spoiled \in BOOLEAN /\ late \in BOOLEAN /\ outdated \in BOOLEAN

\* What the page takes for the live answer.
IsLive(c) ==
    /\ c.stage = "update" /\ Legible(c.has)
    /\ c.reply.kind \in {"session", "none"} /\ c.reply.as = c.has.as

\* A private account never gets beyond the questions that need no profile; while
\* nothing failed, only a post may have been refused.
CheckOK(c) ==
    /\ c.no <= last /\ c.has.as <= world /\ c.reply.as <= world
    /\ privacy.account => c.stage \in {"baseline", "profile", "containing"}
    /\ c.stage = "profile" /\ privacy.account => c.reply.kind # "profile"
    /\ c.stage = "profile" /\ c.reply.kind = "private" => privacy.account
    /\ c.stage = "containing" => privacy.account
    /\ ~spoiled => c.reply.kind # "failed"
    /\ ~spoiled /\ c.stage # "update" => c.reply.kind \notin {"refused", "closed"}
    /\ IsLive(c) /\ c.reply.kind = "session" => (c.reply.more \/ Mate \in known)
    /\ IsLive(c) /\ c.reply.kind = "none" => ~c.reply.more
    /\ ~spoiled /\ c.stage = "identity" /\ c.reply # Pending => Mate \in known

ChecksOK ==
    /\ \A c \in checks : CheckOK(c)
    /\ \A c, d \in checks : c.no = d.no => c = d

ServerOK ==
    /\ \A p \in Members : rows[p] # 0 => InRaid(rows[p]) /\ rows[p] <= world
    /\ ~spoiled => fresh /\ ~closed
    /\ ~spoiled /\ IdentityKey \in cooling => Mate \in known

\* The row of the player is of no raid before the n-th.
RowKeeps(n) == rows[Self] = 0 \/ rows[Self] >= n

\* Once the newest check has its live answer, it only looks up names; what it reads
\* again is not older than the answer.
LiveOK ==
    /\ live.as <= world
    /\ live.kind \in {"pending", "session", "none"} /\ (live.kind = "pending" => live = Pending)
    /\ ~late /\ ~outdated /\ live # Pending =>
         shown.as >= live.as /\ (live.kind = "none" => shown.kind = "none")
    /\ ~outdated /\ live.kind = "session" => RowKeeps(live.as)
    /\ \A c \in checks : c.no = last =>
        /\ live # Pending => live.kind = "session" /\ c.stage \in {"linked", "identity", "reread"}
        /\ ~outdated /\ live # Pending /\ c.stage = "reread" /\ c.reply.kind = "session" => c.reply.as >= live.as
        /\ ~outdated /\ IsLive(c) /\ c.reply.kind = "session" => RowKeeps(c.reply.as)

\* Who has no name yet is still being looked up.
NamesOK ==
    ~spoiled /\ live.kind = "session" =>
      Mate \in known \/ \E c \in checks : c.stage \in {"linked", "identity"}

\* Until the crawl is queued or is not to be, a check is on its way to decide it.
QueueOK ==
    /\ posts <= 1 /\ (~asked => posts = 0)
    /\ ~spoiled /\ asked => (posts = 1 <=> ~privacy.account)
    /\ ~spoiled /\ ~asked => \E c \in checks : c.stage \in Early

IInv == TypesOK /\ ChecksOK /\ ServerOK /\ LiveOK /\ NamesOK /\ QueueOK /\ RaidRowIsKept

(***************************************************************************)
(* Replies and requests.                                                   *)
(***************************************************************************)

LEMMA BareTyped ==
    \A kind \in Kinds :
      Bare(kind) \in ReplyType /\ Bare(kind).as = 0 /\ Bare(kind).kind = kind
      /\ Bare(kind).more = FALSE
BY DEF Bare, Reply, ReplyType

LEMMA StoredTyped ==
    \A n \in Nat : /\ Stored(n) \in ReplyType /\ Stored(n).as = n /\ Stored(n).more = FALSE
                   /\ Stored(n).kind = IF n = 0 THEN "none" ELSE "session"
<1> TAKE n \in Nat
<1>1. CASE n = 0
  BY <1>1, BareTyped DEF Kinds, Stored
<1>2. CASE n # 0
  BY <1>2 DEF Stored, Kinds, Reply, ReplyType
<1> QED
  BY <1>1, <1>2

LEMMA ReadsOf ==
    /\ DOMAIN Reads = {"baseline", "reread", "containing", "contained", "profile", "mate", "linked"}
    /\ Reads["baseline"] = {OwnSession} /\ Reads["reread"] = {OwnSession}
    /\ Reads["containing"] = ContainingSession /\ Reads["contained"] = ContainingSession
    /\ Reads["profile"] = {Profile(Self, world)} /\ Reads["mate"] = {Profile(Mate, world)}
    /\ Reads["linked"] = {Bare("profile")}
BY DEF Reads

\* A stored session is one of the raids that have begun.
LEMMA ContainingTyped ==
    ASSUME TypesOK, ServerOK, NEW r \in Containing
    PROVE  /\ r \in ReplyType /\ r.as <= world /\ r.more = FALSE
           /\ r.kind \in {"none", "session"} /\ (r.kind = "session" => InRaid(r.as))
           /\ (\E p \in Members : rows[p] # 0) => r.kind = "session"
<1>1. CASE r = Bare("none") /\ {p \in Members : rows[p] # 0} = {}
  BY <1>1, BareTyped DEF Kinds, TypesOK
<1>2. CASE \E p \in Members : rows[p] # 0 /\ r = Stored(rows[p])
  <2>1. PICK p \in Members : rows[p] # 0 /\ r = Stored(rows[p])
    BY <1>2
  <2>2. rows[p] \in Nat /\ rows[p] <= world /\ InRaid(rows[p])
    BY <2>1 DEF TypesOK, ServerOK
  <2> QED
    BY <2>1, <2>2, StoredTyped
<1> QED
  BY <1>1, <1>2 DEF Containing

LEMMA OwnSessionTyped ==
    ASSUME TypesOK, ServerOK
    PROVE  /\ OwnSession \in ReplyType /\ OwnSession.as <= world
           /\ OwnSession.kind \in {"none", "session", "closed"}
           /\ OwnSession.kind = "closed" => closed
           /\ OwnSession.kind = "session" => OwnSession.as = rows[Self] /\ rows[Self] # 0
<1>1. rows[Self] \in Nat /\ rows[Self] <= world
  BY DEF TypesOK, ServerOK, Members
<1>2. CASE closed
  BY <1>2, BareTyped DEF Kinds, OwnSession, TypesOK
<1>3. CASE ~closed
  BY <1>1, <1>3, StoredTyped DEF OwnSession
<1> QED
  BY <1>2, <1>3

LEMMA ProfileTyped ==
    ASSUME TypesOK, NEW p \in Members, NEW n \in Nat
    PROVE  /\ Profile(p, n) \in ReplyType /\ Profile(p, n).kind \in {"private", "profile"}
           /\ Profile(p, n).kind = "private" <=> p = Self /\ privacy.account
           /\ Profile(p, n).kind = "private" => Profile(p, n).as = 0
           /\ Profile(p, n).kind = "profile" => Profile(p, n).as = n
<1>1. CASE p = Self /\ privacy.account
  BY <1>1, BareTyped DEF Kinds, Profile
<1>2. CASE ~(p = Self /\ privacy.account)
  <2>1. PICK h \in SUBSET Parts : Profile(p, n) = [Bare("profile") EXCEPT !.as = n, !.shows = h]
    BY <1>2 DEF Profile, TypesOK
  <2>2. Bare("profile") \in ReplyType /\ Bare("profile").kind = "profile"
    BY BareTyped DEF Kinds
  <2>3. Profile(p, n) \in ReplyType /\ Profile(p, n).as = n /\ Profile(p, n).kind = "profile"
    BY <2>1, <2>2 DEF ReplyType
  <2> QED
    BY <1>2, <2>3
<1> QED
  BY <1>1, <1>2

\* What a request that only reads may bring.
LEMMA ReadTyped ==
    ASSUME TypesOK, ServerOK, NEW stage \in DOMAIN Reads, NEW r \in Reads[stage]
    PROVE  /\ r \in ReplyType /\ r.as <= world
           /\ r.kind \in {"none", "session", "closed", "private", "profile"}
           /\ r.kind = "closed" => closed
           /\ stage = "profile" => (r.kind = "private" <=> privacy.account)
           /\ stage = "profile" => r.kind \in {"private", "profile"}
           /\ stage = "reread" /\ r.kind = "session" => r.as = rows[Self] /\ rows[Self] # 0
<1>1. CASE stage \in {"baseline", "reread"}
  BY <1>1, ReadsOf, OwnSessionTyped
<1>2. CASE stage \in {"containing", "contained"}
  <2>1. r \in ContainingSession
    BY <1>2, ReadsOf
  <2>2. CASE closed
    BY <1>2, <2>1, <2>2, BareTyped DEF Kinds, ContainingSession, TypesOK
  <2>3. CASE ~closed
    BY <1>2, <2>1, <2>3, ContainingTyped DEF ContainingSession
  <2> QED
    BY <2>2, <2>3
<1>3. CASE stage = "profile"
  BY <1>3, ReadsOf, ProfileTyped DEF Members, TypesOK
<1>4. CASE stage = "mate"
  BY <1>4, ReadsOf, ProfileTyped DEF Members, TypesOK
<1>5. CASE stage = "linked"
  BY <1>5, ReadsOf, BareTyped DEF Kinds, TypesOK
<1> QED
  BY <1>1, <1>2, <1>3, <1>4, <1>5, ReadsOf

\* What the post of a session may bring: an answer that counts as live is of the raid
\* that is stored.
LEMMA UpdateReplyTyped ==
    ASSUME TypesOK, ServerOK, NEW has \in ReplyType, has.as <= world, NEW r \in UpdateReplies(has)
    PROVE  /\ r \in ReplyType /\ r.as <= world
           /\ r.kind \in {"refused", "session", "none", "provisional"}
           /\ r.kind = "none" => ~r.more
           /\ r.kind = "session" /\ Legible(has) /\ r.as = has.as =>
                /\ Accepted(UpdateKey(Self)) /\ Active(has)
                /\ r.more \/ Mate \in known
<1>0. has.as \in Nat
  BY DEF ReplyType
<1>1. CASE ~Accepted(UpdateKey(Self))
  BY <1>1, BareTyped DEF Kinds, UpdateReplies, TypesOK
<1>2. CASE Accepted(UpdateKey(Self)) /\ Active(has)
  <2>1. r = Reply("session", has.as, Mate \notin known)
    BY <1>2 DEF UpdateReplies
  <2> QED
    BY <1>0, <1>2, <2>1 DEF Kinds, Reply, ReplyType
<1>3. CASE /\ Accepted(UpdateKey(Self)) /\ ~Active(has)
           /\ IsPrivate(has) /\ \E q \in Members : rows[q] # 0
  <2>1. r \in Containing
    BY <1>3 DEF UpdateReplies
  <2>2. /\ r \in ReplyType /\ r.as <= world /\ r.more = FALSE
        /\ r.kind = "session" /\ InRaid(r.as)
    BY <1>3, <2>1, ContainingTyped
  <2> QED
    BY <1>3, <2>2 DEF Active
<1>4. CASE /\ Accepted(UpdateKey(Self)) /\ ~Active(has)
           /\ ~(IsPrivate(has) /\ \E q \in Members : rows[q] # 0)
  <2>1. \/ r = Reply("provisional", has.as, Mate \in known)
        \/ r = Reply("none", has.as, FALSE)
    BY <1>4 DEF UpdateReplies
  <2>2. CASE r = Reply("provisional", has.as, Mate \in known)
    BY <1>0, <2>2 DEF Kinds, Reply, ReplyType
  <2>3. CASE r = Reply("none", has.as, FALSE)
    <3>1. r \in ReplyType /\ r.as = has.as /\ r.kind = "none" /\ r.more = FALSE
      BY <1>0, <2>3 DEF Kinds, Reply, ReplyType
    <3> QED
      BY <3>1, <1>4
  <2> QED
    BY <2>1, <2>2, <2>3
<1> QED
  BY <1>1, <1>2, <1>3, <1>4

(***************************************************************************)
(* The start, and what a check becomes.                                    *)
(***************************************************************************)

LEMMA PendingTyped == Pending \in ReplyType /\ Pending.kind = "pending" /\ Pending.as = 0
BY BareTyped DEF Pending, Kinds

LEMMA InitIInv == Init => IInv
<1> SUFFICES ASSUME Init PROVE IInv
  OBVIOUS
<1> USE DEF Init
<1>1. /\ NewCheck(1) \in CheckType /\ NewCheck(1).no = 1 /\ NewCheck(1).stage = "baseline"
      /\ NewCheck(1).has = Pending /\ NewCheck(1).reply = Pending
  BY PendingTyped DEF NewCheck, CheckType, Stages
<1>2. shown \in ReplyType /\ live = Pending
  BY BareTyped DEF Kinds
<1>3. rows \in [Members -> Nat] /\ \A p \in Members : rows[p] # 0 => rows[p] = 1 /\ rows[p] <= world
  OBVIOUS
<1>4. TypesOK
  <2>1. world \in Nat /\ last \in Nat /\ posts \in Nat /\ privacy \in [account : BOOLEAN, shows : SUBSET Parts]
    BY PageAssumption
  <2>2. asked \in BOOLEAN /\ spoiled \in BOOLEAN /\ late \in BOOLEAN /\ outdated \in BOOLEAN
    OBVIOUS
  <2>3. checks \subseteq CheckType /\ live \in ReplyType
    BY <1>1, <1>2, PendingTyped
  <2> QED
    BY <1>2, <1>3, <2>1, <2>2, <2>3 DEF TypesOK
<1>5. ChecksOK
  BY <1>1, PendingTyped DEF ChecksOK, CheckOK, IsLive
<1>6. ServerOK
  BY <1>3 DEF ServerOK, InRaid
<1>7. LiveOK
  BY <1>1, <1>2, PendingTyped DEF LiveOK, IsLive
<1>8. NamesOK /\ QueueOK
  BY <1>1, <1>2, PendingTyped DEF NamesOK, QueueOK, Early
<1>9. RaidRowIsKept
  BY DEF RaidRowIsKept
<1> QED
  BY <1>4, <1>5, <1>6, <1>7, <1>8, <1>9 DEF IInv

\* The check c with the reply r.
Replied(c, r) == [c EXCEPT !.reply = r]

\* The check c on its next stage.
Advanced(c, stage, has) == [c EXCEPT !.stage = stage, !.has = has, !.reply = Pending]

LEMMA RepliedTyped ==
    ASSUME NEW c \in CheckType, NEW r \in ReplyType
    PROVE  /\ Replied(c, r) \in CheckType
           /\ Replied(c, r).no = c.no /\ Replied(c, r).stage = c.stage
           /\ Replied(c, r).has = c.has /\ Replied(c, r).reply = r
BY DEF Replied, CheckType

LEMMA AdvancedTyped ==
    ASSUME NEW c \in CheckType, NEW stage \in Stages, NEW has \in ReplyType
    PROVE  /\ Advanced(c, stage, has) \in CheckType
           /\ Advanced(c, stage, has).no = c.no /\ Advanced(c, stage, has).stage = stage
           /\ Advanced(c, stage, has).has = has /\ Advanced(c, stage, has).reply = Pending
BY PendingTyped DEF Advanced, CheckType

\* What every step does to the state outside the checks.
Monotone ==
    /\ world' \in Nat /\ last' \in Nat /\ spoiled' \in BOOLEAN
    /\ world <= world' /\ last <= last' /\ privacy' = privacy
    /\ known \subseteq known' /\ (spoiled => spoiled')

\* What is said of a check stays true while it waits.
LEMMA CheckStays ==
    ASSUME TypesOK, Monotone, NEW c \in CheckType, CheckOK(c)
    PROVE  CheckOK(c)'
<1>1. c.no \in Nat /\ c.has.as \in Nat /\ c.reply.as \in Nat /\ world \in Nat /\ last \in Nat
  BY DEF CheckType, ReplyType, TypesOK
<1>2. c.no <= last' /\ c.has.as <= world' /\ c.reply.as <= world'
  BY <1>1 DEF CheckOK, Monotone
<1> QED
  BY <1>2 DEF CheckOK, IsLive, Monotone

LEMMA OtherChecksStay ==
    ASSUME TypesOK, ChecksOK, Monotone, NEW c \in checks, NEW d, d.no = c.no, CheckOK(d)',
           checks' = (checks \ {c}) \cup {d}
    PROVE  ChecksOK'
BY CheckStays DEF ChecksOK, TypesOK

LEMMA FewerChecksStay ==
    ASSUME TypesOK, ChecksOK, Monotone, checks' \subseteq checks
    PROVE  ChecksOK'
BY CheckStays DEF ChecksOK, TypesOK

(***************************************************************************)
(* A reply comes.                                                          *)
(***************************************************************************)

\* No older raid gets into the row of the player unless it is said so.
RowSafe == ~outdated' => ~outdated /\ rows'[Self] \in {0, world, rows[Self]}

LEMMA RowStays ==
    ASSUME TypesOK, RowSafe, ~outdated', NEW n \in Nat, n <= world, RowKeeps(n)
    PROVE  RowKeeps(n)'
<1>1. rows[Self] \in Nat /\ world \in Nat
  BY DEF TypesOK, Members
<1> QED
  BY <1>1 DEF RowSafe, RowKeeps

LEMMA ReceivedKeeps ==
    ASSUME IInv, Monotone, NEW c \in checks, NEW r \in ReplyType, r.as <= world,
           Receives(c, r), CheckOK(Replied(c, r))',
           UNCHANGED <<world, privacy, shown, last, live, late, posts, asked>>,
           RowSafe \/ (c.no = last /\ c.stage = "update"),
           c.stage = "reread" /\ r.kind = "session" => r.as = rows[Self] /\ rows[Self] # 0,
           c.no = last /\ IsLive(Replied(c, r)) /\ r.kind = "session" => rows'[Self] = r.as
    PROVE  ChecksOK' /\ LiveOK' /\ NamesOK' /\ QueueOK'
<1> DEFINE d == Replied(c, r)
<1>1. c \in CheckType /\ CheckOK(c) /\ r.as \in Nat /\ live.as \in Nat /\ TypesOK
  BY DEF IInv, TypesOK, ChecksOK, ReplyType
<1>2. d.no = c.no /\ d.stage = c.stage /\ d.has = c.has /\ d.reply = r
  BY <1>1, RepliedTyped
<1>3. checks' = (checks \ {c}) \cup {d}
  BY DEF Receives, Becomes, Replied
<1>0. c.no = last /\ IsLive(d) /\ r.kind = "session" => rows'[Self] = r.as
  OBVIOUS
<1> HIDE DEF d
<1>4. ChecksOK'
  BY <1>2, <1>3, OtherChecksStay DEF IInv, d
<1>5. NamesOK' /\ QueueOK'
  BY <1>2, <1>3 DEF IInv, NamesOK, QueueOK, Monotone
<1>6. \A e \in checks : e.no = last /\ c.no = last => e = c
  BY DEF IInv, ChecksOK
<1>7. live = Pending \/ (~outdated' => ~outdated)
  <2>1. c.no = last /\ c.stage = "update" => live = Pending
    BY DEF IInv, LiveOK
  <2> QED
    BY <2>1 DEF RowSafe
<1>8. ~outdated' /\ live.kind = "session" => RowKeeps(live.as)'
  <2> SUFFICES ASSUME ~outdated', live.kind = "session" PROVE RowKeeps(live.as)'
    OBVIOUS
  <2>1. live # Pending /\ live.as <= world
    BY PendingTyped DEF IInv, LiveOK
  <2>2. RowSafe
    BY <2>1 DEF IInv, LiveOK
  <2>3. RowKeeps(live.as)
    BY <2>2 DEF IInv, LiveOK, RowSafe
  <2>4. PICK n \in Nat : n = live.as
    BY <1>1
  <2>5. RowKeeps(n)'
    BY <1>1, <2>1, <2>2, <2>3, <2>4, RowStays
  <2> QED
    BY <2>4, <2>5 DEF RowKeeps
<1>9. ASSUME NEW e \in checks', e.no = last
      PROVE  /\ live # Pending => live.kind = "session" /\ e.stage \in {"linked", "identity", "reread"}
             /\ ~outdated' /\ live # Pending /\ e.stage = "reread" /\ e.reply.kind = "session"
                  => e.reply.as >= live.as
             /\ ~outdated' /\ IsLive(e) /\ e.reply.kind = "session" => RowKeeps(e.reply.as)'
  <2>1. CASE e = d
    <3>1. c.no = last
      BY <2>1, <1>2, <1>9
    <3>2. live # Pending => live.kind = "session" /\ c.stage \in {"linked", "identity", "reread"}
      BY <3>1 DEF IInv, LiveOK
    <3>3. ~outdated' /\ live # Pending => rows[Self] = 0 \/ rows[Self] >= live.as
      BY <1>7, <3>2 DEF IInv, LiveOK, RowKeeps
    <3>4. IsLive(d) /\ r.kind = "session" => rows'[Self] >= r.as
      BY <1>0, <1>1, <3>1
    <3> QED
      BY <2>1, <1>2, <3>2, <3>3, <3>4 DEF RowKeeps
  <2>2. CASE e # d
    <3>1. e \in checks /\ e # c /\ c.no # last
      BY <2>2, <1>3, <1>6, <1>9
    <3>2. RowSafe
      BY <3>1
    <3>3. live # Pending => live.kind = "session" /\ e.stage \in {"linked", "identity", "reread"}
      BY <3>1, <1>9 DEF IInv, LiveOK
    <3>4. ~outdated' /\ live # Pending /\ e.stage = "reread" /\ e.reply.kind = "session" => e.reply.as >= live.as
      BY <3>1, <3>2, <1>9 DEF IInv, LiveOK, RowSafe
    <3>5. ~outdated' /\ IsLive(e) /\ e.reply.kind = "session" => RowKeeps(e.reply.as)'
      <4> SUFFICES ASSUME ~outdated', IsLive(e), e.reply.kind = "session" PROVE RowKeeps(e.reply.as)'
        OBVIOUS
      <4>1. PICK n \in Nat : n = e.reply.as /\ n <= world
        BY <3>1 DEF IInv, ChecksOK, CheckOK, TypesOK, CheckType, ReplyType
      <4>2. RowKeeps(n)
        BY <3>1, <3>2, <4>1, <1>9 DEF IInv, LiveOK, RowSafe
      <4>3. RowKeeps(n)'
        BY <1>1, <3>2, <4>1, <4>2, RowStays
      <4> QED
        BY <4>1, <4>3 DEF RowKeeps
    <3> QED
      BY <3>3, <3>4, <3>5
  <2> QED
    BY <2>1, <2>2
<1>10. LiveOK'
  <2>1. \A e : IsLive(e)' <=> IsLive(e)
    BY DEF IsLive
  <2>2. /\ live'.as <= world' /\ live'.kind \in {"pending", "session", "none"}
        /\ (live'.kind = "pending" => live' = Pending)
        /\ ~late' /\ ~outdated' /\ live' # Pending =>
             shown'.as >= live'.as /\ (live'.kind = "none" => shown'.kind = "none")
    BY <1>7 DEF IInv, LiveOK
  <2>3. ~outdated' /\ live'.kind = "session" => RowKeeps(live.as)'
    BY <1>8
  <2>4. ASSUME NEW e \in checks', e.no = last'
        PROVE  /\ live' # Pending => live'.kind = "session" /\ e.stage \in {"linked", "identity", "reread"}
               /\ ~outdated' /\ live' # Pending /\ e.stage = "reread" /\ e.reply.kind = "session"
                    => e.reply.as >= live'.as
               /\ ~outdated' /\ IsLive(e)' /\ e.reply.kind = "session" => RowKeeps(e.reply.as)'
    BY <1>9, <2>1, <2>4
  <2> QED
    BY <2>2, <2>3, <2>4 DEF LiveOK
<1> QED
  BY <1>4, <1>5, <1>10

\* Pending replies are replaced by typed ones.
LEMMA ReceivedTyped ==
    ASSUME TypesOK, NEW c \in checks, NEW r \in ReplyType, Receives(c, r)
    PROVE  checks' \subseteq CheckType
BY RepliedTyped DEF Receives, Becomes, Replied, TypesOK

LEMMA KeysDiffer == \A p \in Members : IdentityKey # UpdateKey(p)
BY DEF IdentityKey, UpdateKey

\* What the parsing of an answer makes of a row.
LEMMA ParsedRowIs ==
    ASSUME TypesOK, ServerOK, NEW p \in Members, NEW has \in ReplyType, has.as <= world
    PROVE  /\ ParsedRow(p, has) \in {0, rows[p], has.as} /\ ParsedRow(p, has) \in Nat
           /\ ParsedRow(p, has) # 0 => InRaid(ParsedRow(p, has)) /\ ParsedRow(p, has) <= world
           /\ Active(has) => ParsedRow(p, has) = has.as
           /\ Legible(has) /\ InRaid(has.as) => ParsedRow(p, has) = has.as
           /\ ParsedRow(p, has) # rows[p] /\ InRaid(has.as) /\ ParsedRow(p, has) # has.as
                => has.shows = Parts \ {"transitory"}
<1>1. has.as \in Nat /\ has.shows \subseteq Parts /\ rows[p] \in Nat
  BY DEF TypesOK, ReplyType
<1>2. CASE Active(has)
  BY <1>1, <1>2 DEF ParsedRow, Clears, Active
<1>3. CASE ~Active(has)
  <2>1. ParsedRow(p, has) \in {0, rows[p]}
    BY <1>3 DEF ParsedRow
  <2>2. ParsedRow(p, has) # 0 => InRaid(ParsedRow(p, has)) /\ ParsedRow(p, has) <= world
    BY <2>1 DEF ServerOK
  <2>3. ParsedRow(p, has) # rows[p] /\ InRaid(has.as) => has.shows = Parts \ {"transitory"}
    <3> SUFFICES ASSUME ParsedRow(p, has) # rows[p], InRaid(has.as) PROVE has.shows = Parts \ {"transitory"}
      OBVIOUS
    <3>1. ~IsPrivate(has) /\ ~Legible(has)
      BY <1>3 DEF ParsedRow, Clears, Active
    <3> QED
      BY <1>1, <3>1 DEF IsPrivate, Legible, Parts
  <2> QED
    BY <1>1, <1>3, <2>1, <2>2, <2>3 DEF Active
<1> QED
  BY <1>2, <1>3

\* A row that is lost has a named cause.
LEMMA GoneStays ==
    ASSUME TypesOK, RaidRowIsKept, UNCHANGED world, NEW has \in ReplyType, Gone(has),
           rows'[Self] # rows[Self] /\ InRaid(has.as) /\ rows'[Self] # has.as
             => has.shows = Parts \ {"transitory"}
    PROVE  RaidRowIsKept'
<1> SUFFICES ASSUME InRaid(world), rows'[Self] # world
             PROVE  gone' \in {"unstored", "older", "blind", "dropped"}
  BY DEF RaidRowIsKept, InRaid
<1>1. CASE rows'[Self] = rows[Self]
  BY <1>1 DEF Gone, RaidRowIsKept
<1>2. CASE rows'[Self] # rows[Self] /\ has.as # world
  BY <1>2 DEF Gone
<1>3. CASE rows'[Self] # rows[Self] /\ has.as = world
  BY <1>3 DEF Gone
<1> QED
  BY <1>1, <1>2, <1>3

\* A post stores the raid it tells of, or nothing, and only for its player.
LEMMA UpdateWritesKeep ==
    ASSUME TypesOK, ServerOK, NEW p \in Members, NEW has \in ReplyType, has.as <= world,
           UpdateWrites(p, has), UNCHANGED <<world, spoiled, fresh, closed>>
    PROVE  /\ rows' \in [Members -> Nat] /\ known \subseteq known' /\ ServerOK'
           /\ \A q \in Members : q # p => rows'[q] = rows[q]
           /\ rows'[p] # rows[p] /\ InRaid(has.as) /\ rows'[p] # has.as => has.shows = Parts \ {"transitory"}
           /\ Accepted(UpdateKey(p)) /\ Active(has) => rows'[p] = has.as
<1> DEFINE new == ParsedRow(p, has)
<1>1. rows \in [Members -> Nat] /\ has.as \in Nat
  BY DEF TypesOK, ReplyType
<1>2. cooling' \subseteq cooling \cup {UpdateKey(p)}
  BY DEF UpdateWrites, Record
<1>3. known \subseteq known'
  BY DEF UpdateWrites
<1>4. CASE Accepted(UpdateKey(p))
  <2>1. rows' = [rows EXCEPT ![p] = new]
    BY <1>4 DEF UpdateWrites
  <2>2. new \in Nat /\ (new # 0 => InRaid(new) /\ new <= world)
    BY ParsedRowIs
  <2>3. /\ Active(has) => new = has.as
        /\ new # rows[p] /\ InRaid(has.as) /\ new # has.as => has.shows = Parts \ {"transitory"}
    BY ParsedRowIs
  <2> HIDE DEF new
  <2>4. rows' \in [Members -> Nat] /\ rows'[p] = new /\ \A q \in Members : q # p => rows'[q] = rows[q]
    BY <1>1, <2>1, <2>2
  <2>5. ServerOK'
    BY <1>2, <1>3, <2>2, <2>4, KeysDiffer DEF ServerOK
  <2> QED
    BY <1>3, <2>3, <2>4, <2>5
<1>5. CASE ~Accepted(UpdateKey(p))
  <2>1. rows' = rows
    BY <1>5 DEF UpdateWrites
  <2>2. ServerOK'
    BY <1>2, <1>3, <2>1, KeysDiffer DEF ServerOK
  <2> QED
    BY <1>1, <1>3, <1>5, <2>1, <2>2
<1> QED
  BY <1>4, <1>5

\* What the answering of a request leaves alone.
AnswerKeeps == UNCHANGED <<world, privacy, fresh, closed, shown, asked, posts, spoiled, last, live, late>>

LEMMA AnswerMonotone ==
    ASSUME TypesOK, AnswerKeeps, known \subseteq known'
    PROVE  Monotone
BY DEF TypesOK, AnswerKeeps, Monotone

LEMMA ReadKeepsIInv ==
    ASSUME IInv, NEW c \in checks, c.stage \in DOMAIN Reads, NEW r \in Reads[c.stage], Receives(c, r),
           AnswerKeeps, UNCHANGED <<tables, cooling, outdated, gone>>
    PROVE  IInv'
<1>1. c \in CheckType /\ CheckOK(c) /\ TypesOK /\ ServerOK
  BY DEF IInv, TypesOK, ChecksOK
<1>2. /\ r \in ReplyType /\ r.as <= world
      /\ r.kind \in {"none", "session", "closed", "private", "profile"}
      /\ r.kind = "closed" => closed
      /\ c.stage = "profile" => (r.kind = "private" <=> privacy.account)
      /\ c.stage = "profile" => r.kind \in {"private", "profile"}
      /\ c.stage = "reread" /\ r.kind = "session" => r.as = rows[Self] /\ rows[Self] # 0
  BY <1>1, ReadTyped
<1>3. Monotone
  BY <1>1, AnswerMonotone DEF tables, TypesOK
<1>4. c.stage # "update" /\ c.stage # "identity"
  BY ReadsOf
<1>5. /\ Replied(c, r).no = c.no /\ Replied(c, r).stage = c.stage
      /\ Replied(c, r).has = c.has /\ Replied(c, r).reply = r
  BY <1>1, <1>2, RepliedTyped
<1>6. ~spoiled => ~closed
  BY <1>1 DEF ServerOK
<1>7. CheckOK(Replied(c, r))'
  BY <1>1, <1>2, <1>4, <1>5, <1>6 DEF CheckOK, IsLive, AnswerKeeps
<1>8. ~IsLive(Replied(c, r))
  BY <1>4, <1>5 DEF IsLive
<1>9. ChecksOK' /\ LiveOK' /\ NamesOK' /\ QueueOK'
  <2>1. RowSafe
    BY DEF RowSafe, tables
  <2> QED
    BY <1>2, <1>3, <1>7, <1>8, <2>1, ReceivedKeeps DEF AnswerKeeps
<1>10. TypesOK'
  BY <1>1, <1>2, ReceivedTyped DEF TypesOK, AnswerKeeps, tables
<1>11. ServerOK' /\ RaidRowIsKept'
  BY <1>1 DEF IInv, ServerOK, RaidRowIsKept, AnswerKeeps, tables
<1> QED
  BY <1>9, <1>10, <1>11 DEF IInv

LEMMA UpdateKeepsIInv ==
    ASSUME IInv, NEW c \in checks, c.stage = "update", UpdateWrites(Self, c.has),
           NEW r \in UpdateReplies(c.has), Receives(c, r), AnswerKeeps,
           IF c.no = last THEN outdated' = FALSE /\ Gone(c.has) ELSE Others(c.has)
    PROVE  IInv'
<1>1. c \in CheckType /\ CheckOK(c) /\ TypesOK /\ ServerOK /\ RaidRowIsKept
  BY DEF IInv, TypesOK, ChecksOK
<1>2. c.has \in ReplyType /\ c.has.as <= world /\ c.no \in Nat /\ c.no <= last /\ last \in Nat
  BY <1>1 DEF CheckType, CheckOK, TypesOK
<1>3. /\ r \in ReplyType /\ r.as <= world
      /\ r.kind \in {"refused", "session", "none", "provisional"}
      /\ r.kind = "none" => ~r.more
      /\ r.kind = "session" /\ Legible(c.has) /\ r.as = c.has.as =>
           Accepted(UpdateKey(Self)) /\ Active(c.has) /\ (r.more \/ Mate \in known)
  BY <1>1, <1>2, UpdateReplyTyped
<1>4. /\ rows' \in [Members -> Nat] /\ known \subseteq known' /\ ServerOK'
      /\ rows'[Self] # rows[Self] /\ InRaid(c.has.as) /\ rows'[Self] # c.has.as
           => c.has.shows = Parts \ {"transitory"}
      /\ Accepted(UpdateKey(Self)) /\ Active(c.has) => rows'[Self] = c.has.as
  BY <1>1, <1>2, UpdateWritesKeep DEF AnswerKeeps, Members
<1>5. Gone(c.has) /\ outdated' \in BOOLEAN
  BY <1>1 DEF TypesOK, Others
<1>6. Monotone
  BY <1>1, <1>4, AnswerMonotone
<1>7. /\ Replied(c, r).no = c.no /\ Replied(c, r).stage = c.stage
      /\ Replied(c, r).has = c.has /\ Replied(c, r).reply = r
  BY <1>1, <1>3, RepliedTyped
<1>8. CheckOK(Replied(c, r))'
  BY <1>1, <1>3, <1>4, <1>7 DEF CheckOK, IsLive, AnswerKeeps
<1>9. RowSafe \/ c.no = last
  <2> SUFFICES ASSUME c.no # last PROVE RowSafe
    OBVIOUS
  <2>1. outdated' = (outdated \/ (rows'[Self] # rows[Self] /\ rows'[Self] \notin {0, world}))
    BY DEF Others
  <2> QED
    BY <1>1, <2>1 DEF RowSafe, TypesOK
<1>10. IsLive(Replied(c, r)) /\ r.kind = "session" => rows'[Self] = r.as
  BY <1>3, <1>4, <1>7 DEF IsLive
<1>11. ChecksOK' /\ LiveOK' /\ NamesOK' /\ QueueOK'
  BY <1>3, <1>6, <1>8, <1>9, <1>10, ReceivedKeeps DEF AnswerKeeps
<1>12. TypesOK'
  BY <1>1, <1>3, <1>4, <1>5, ReceivedTyped DEF TypesOK, AnswerKeeps
<1>13. RaidRowIsKept'
  BY <1>1, <1>2, <1>4, <1>5, GoneStays DEF AnswerKeeps
<1> QED
  BY <1>4, <1>11, <1>12, <1>13 DEF IInv

LEMMA MateUpdateKeepsIInv ==
    ASSUME IInv, NEW c \in checks, c.stage = "mateUpdate", UpdateWrites(Mate, c.has),
           Receives(c, Bare("none")), AnswerKeeps, UNCHANGED <<outdated, gone>>
    PROVE  IInv'
<1> DEFINE r == Bare("none")
<1>1. c \in CheckType /\ CheckOK(c) /\ TypesOK /\ ServerOK
  BY DEF IInv, TypesOK, ChecksOK
<1>2. c.has \in ReplyType /\ c.has.as <= world
  BY <1>1 DEF CheckType, CheckOK
<1>3. r \in ReplyType /\ r.as = 0 /\ r.kind = "none" /\ r.as <= world
  BY <1>1, BareTyped DEF Kinds, TypesOK
<1>4. rows' \in [Members -> Nat] /\ known \subseteq known' /\ ServerOK' /\ rows'[Self] = rows[Self]
  BY <1>1, <1>2, UpdateWritesKeep, WritesAssumption DEF AnswerKeeps, Members
<1>5. Monotone
  BY <1>1, <1>4, AnswerMonotone DEF TypesOK
<1>6. /\ Replied(c, r).no = c.no /\ Replied(c, r).stage = c.stage
      /\ Replied(c, r).has = c.has /\ Replied(c, r).reply = r
  BY <1>1, <1>3, RepliedTyped
<1> HIDE DEF r
<1>7. CheckOK(Replied(c, r))'
  BY <1>1, <1>3, <1>6 DEF CheckOK, IsLive, AnswerKeeps
<1>8. ChecksOK' /\ LiveOK' /\ NamesOK' /\ QueueOK'
  <2>1. RowSafe
    BY <1>4 DEF RowSafe
  <2>2. c.stage # "reread" /\ ~(IsLive(Replied(c, r)) /\ r.kind = "session")
    BY <1>6 DEF IsLive
  <2> QED
    BY <1>3, <1>4, <1>5, <1>7, <2>1, <2>2, ReceivedKeeps DEF AnswerKeeps, r
<1>9. TypesOK'
  BY <1>1, <1>3, <1>4, ReceivedTyped DEF TypesOK, AnswerKeeps, r
<1>10. RaidRowIsKept'
  BY <1>4 DEF IInv, RaidRowIsKept, AnswerKeeps
<1> QED
  BY <1>4, <1>8, <1>9, <1>10 DEF IInv

LEMMA IdentityKeepsIInv ==
    ASSUME IInv, NEW c \in checks, c.stage = "identity", IdentityWrites,
           Receives(c, IdentityReply), AnswerKeeps, UNCHANGED <<outdated, gone>>
    PROVE  IInv'
<1>1. c \in CheckType /\ CheckOK(c) /\ TypesOK /\ ServerOK
  BY DEF IInv, TypesOK, ChecksOK
<1>2. PICK r \in ReplyType :
        /\ r = IdentityReply /\ r.as <= world /\ r.kind \in {"none", "refused"}
        /\ fresh /\ ~closed => r.kind = "none"
  BY <1>1, BareTyped DEF Kinds, TypesOK, IdentityReply
<1>3. rows' = rows /\ known \subseteq known' /\ cooling' \subseteq cooling \cup {IdentityKey}
  BY DEF IdentityWrites, Record
<1>4. ~spoiled => Mate \in known'
  <2> SUFFICES ASSUME ~spoiled PROVE Mate \in known'
    OBVIOUS
  <2>1. fresh /\ ~closed /\ (IdentityKey \in cooling => Mate \in known)
    BY <1>1 DEF ServerOK
  <2> QED
    BY <1>3, <2>1 DEF IdentityWrites, Accepted, Admitted
<1>5. Monotone
  BY <1>1, <1>3, AnswerMonotone DEF TypesOK
<1>6. /\ Replied(c, r).no = c.no /\ Replied(c, r).stage = c.stage
      /\ Replied(c, r).has = c.has /\ Replied(c, r).reply = r
  BY <1>1, <1>2, RepliedTyped
<1>7. ~spoiled => fresh /\ ~closed
  BY <1>1 DEF ServerOK
<1>8. CheckOK(Replied(c, r))'
  BY <1>1, <1>2, <1>4, <1>6, <1>7 DEF CheckOK, IsLive, AnswerKeeps
<1>9. r.kind # "session" /\ ~IsLive(Replied(c, r))
  BY <1>2, <1>6 DEF IsLive
<1>10. ChecksOK' /\ LiveOK' /\ NamesOK' /\ QueueOK'
  <2>1. RowSafe
    BY <1>3 DEF RowSafe
  <2> QED
    BY <1>2, <1>5, <1>8, <1>9, <2>1, ReceivedKeeps DEF AnswerKeeps
<1>11. TypesOK'
  BY <1>1, <1>2, <1>3, ReceivedTyped DEF TypesOK, AnswerKeeps
<1>12. ServerOK'
  BY <1>1, <1>3, <1>4 DEF ServerOK, AnswerKeeps
<1>13. RaidRowIsKept'
  BY <1>3 DEF IInv, RaidRowIsKept, AnswerKeeps
<1> QED
  BY <1>10, <1>11, <1>12, <1>13 DEF IInv

LEMMA AnswerKeepsIInv == ASSUME IInv, NEW c \in checks, Answer(c) PROVE IInv'
<1>1. AnswerKeeps
  BY DEF Answer, AnswerKeeps, boundVars
<1>2. CASE /\ c.stage \in DOMAIN Reads /\ (\E r \in Reads[c.stage] : Receives(c, r))
           /\ UNCHANGED <<tables, cooling, outdated, gone>>
  BY <1>1, <1>2, ReadKeepsIInv
<1>3. CASE /\ c.stage = "update" /\ UpdateWrites(Self, c.has)
           /\ \E r \in UpdateReplies(c.has) : Receives(c, r)
           /\ IF c.no = last THEN outdated' = FALSE /\ Gone(c.has) ELSE Others(c.has)
  BY <1>1, <1>3, UpdateKeepsIInv
<1>4. CASE /\ c.stage = "mateUpdate" /\ UpdateWrites(Mate, c.has)
           /\ Receives(c, Bare("none")) /\ UNCHANGED <<outdated, gone>>
  BY <1>1, <1>4, MateUpdateKeepsIInv
<1>5. CASE /\ c.stage = "identity" /\ IdentityWrites
           /\ Receives(c, IdentityReply) /\ UNCHANGED <<outdated, gone>>
  BY <1>1, <1>5, IdentityKeepsIInv
<1> QED
  BY <1>2, <1>3, <1>4, <1>5 DEF Answer

LEMMA SpoiledKeepsIInv == ASSUME IInv, NEW c \in checks, Spoiled(c) PROVE IInv'
<1>1. PICK kind \in {"failed", "refused"} : Receives(c, Bare(kind))
  BY DEF Spoiled
<1> DEFINE r == Bare(kind)
<1>2. c \in CheckType /\ CheckOK(c) /\ TypesOK /\ ServerOK
  BY DEF IInv, TypesOK, ChecksOK
<1>3. r \in ReplyType /\ r.as = 0 /\ r.kind = kind /\ r.as <= world
  BY <1>2, BareTyped DEF Kinds, TypesOK
<1>4. spoiled' = TRUE /\ UNCHANGED <<routeVars, fetches, shown, asked, posts, historyVars>>
  BY DEF Spoiled, Trouble, Event
<1>5. Monotone
  BY <1>2, <1>4 DEF Monotone, TypesOK, routeVars, serverVars, tables, historyVars
<1>6. /\ Replied(c, r).no = c.no /\ Replied(c, r).stage = c.stage
      /\ Replied(c, r).has = c.has /\ Replied(c, r).reply = r
  BY <1>2, <1>3, RepliedTyped
<1>7. r.kind \notin {"session", "none", "private", "profile"}
  BY <1>3
<1> HIDE DEF r
<1>8. CheckOK(Replied(c, r))'
  BY <1>2, <1>3, <1>4, <1>6, <1>7 DEF CheckOK, IsLive, routeVars, historyVars
<1>9. ChecksOK' /\ LiveOK' /\ NamesOK' /\ QueueOK'
  <2>1. RowSafe
    BY <1>4 DEF RowSafe, routeVars, serverVars, tables, historyVars
  <2> QED
    BY <1>1, <1>3, <1>4, <1>5, <1>7, <1>8, <2>1, ReceivedKeeps
       DEF routeVars, serverVars, tables, historyVars, r
<1>10. TypesOK'
  BY <1>1, <1>2, <1>3, <1>4, ReceivedTyped DEF TypesOK, routeVars, serverVars, tables, historyVars, r
<1>11. ServerOK' /\ RaidRowIsKept'
  BY <1>2, <1>4 DEF IInv, ServerOK, RaidRowIsKept, routeVars, serverVars, tables, historyVars
<1> QED
  BY <1>9, <1>10, <1>11 DEF IInv

(***************************************************************************)
(* The page handles a reply.                                               *)
(***************************************************************************)

\* What the page does not touch.
PageKeeps == UNCHANGED <<world, privacy, rows, known, cooling, closed, fresh, spoiled, last, outdated, gone>>

\* The check ends, or goes on as d.
GoesOn(c, d) == checks' = checks \ {c} \/ checks' = (checks \ {c}) \cup {d}

LEMMA AdvancedOK ==
    ASSUME TypesOK, PageKeeps, NEW c \in checks, CheckOK(c),
           NEW stage \in Stages, NEW has \in ReplyType, has.as <= world,
           privacy.account => stage \in {"baseline", "profile", "containing"},
           stage = "containing" => privacy.account
    PROVE  CheckOK(Advanced(c, stage, has))'
<1>1. c \in CheckType
  BY DEF TypesOK
<1>2. /\ Advanced(c, stage, has).no = c.no /\ Advanced(c, stage, has).stage = stage
      /\ Advanced(c, stage, has).has = has /\ Advanced(c, stage, has).reply = Pending
  BY <1>1, AdvancedTyped
<1>3. Pending.kind = "pending" /\ Pending.as <= world
  BY PendingTyped DEF TypesOK
<1> QED
  BY <1>2, <1>3 DEF CheckOK, IsLive, PageKeeps

\* The newest check goes on to look up names, and shows nothing that is older than the
\* live answer.
LEMMA LiveStays ==
    ASSUME IInv, PageKeeps, NEW c \in checks, NEW d, GoesOn(c, d),
           d.no = c.no, d.reply = Pending, live' = live,
           ~late' /\ ~outdated /\ live # Pending =>
             shown'.as >= live.as /\ (live.kind = "none" => shown'.kind = "none"),
           c.stage \in {"linked", "identity", "reread"} => d.stage \in {"linked", "identity", "reread"}
    PROVE  LiveOK'
<1>1. \A e : IsLive(e)' <=> IsLive(e)
  BY DEF IsLive
<1>2. \A n : RowKeeps(n)' <=> RowKeeps(n)
  BY DEF RowKeeps, PageKeeps
<1>3. ASSUME NEW e \in checks', e.no = last
      PROVE  /\ live # Pending => live.kind = "session" /\ e.stage \in {"linked", "identity", "reread"}
             /\ ~outdated /\ live # Pending /\ e.stage = "reread" /\ e.reply.kind = "session"
                  => e.reply.as >= live.as
             /\ ~outdated /\ IsLive(e) /\ e.reply.kind = "session" => RowKeeps(e.reply.as)
  <2>1. CASE e \in checks
    BY <2>1, <1>3 DEF IInv, LiveOK
  <2>2. CASE e = d
    <3>1. c.no = last
      BY <2>2, <1>3
    <3>2. live # Pending => live.kind = "session" /\ d.stage \in {"linked", "identity", "reread"}
      BY <3>1 DEF IInv, LiveOK
    <3>3. d.reply.kind = "pending"
      BY PendingTyped
    <3>4. ~IsLive(d)
      BY <3>3 DEF IsLive
    <3> QED
      BY <2>2, <3>2, <3>3, <3>4
  <2> QED
    BY <2>1, <2>2, <1>3 DEF GoesOn
<1> QED
  BY <1>1, <1>2, <1>3 DEF IInv, LiveOK, PageKeeps

\* Before its live answer, the newest check may show anything.
LEMMA EarlyShows ==
    ASSUME IInv, NEW c \in checks, NEW r, Shows(c, r), c.stage \notin {"linked", "identity", "reread"}
    PROVE  late' \/ live = Pending
<1>1. c.no \in Nat /\ last \in Nat /\ c.no <= last
  BY DEF IInv, TypesOK, CheckType, ChecksOK, CheckOK
<1>2. CASE c.no < last
  BY <1>2 DEF Shows
<1>3. CASE c.no = last
  BY <1>3 DEF IInv, LiveOK
<1> QED
  BY <1>1, <1>2, <1>3

LEMMA ShowsTyped ==
    ASSUME IInv, NEW c, NEW r \in ReplyType, Shows(c, r)
    PROVE  /\ shown' \in ReplyType /\ shown'.as = r.as /\ shown'.kind = r.kind
           /\ late' \in BOOLEAN /\ (late => late')
<1>1. r.kind \in Kinds /\ r.as \in Nat
  BY DEF ReplyType
<1>2. shown' = Reply(r.kind, r.as, FALSE)
  BY DEF Shows
<1>3. shown' \in ReplyType /\ shown'.as = r.as /\ shown'.kind = r.kind
  BY <1>1, <1>2 DEF Reply, ReplyType
<1>4. late \in BOOLEAN
  BY DEF IInv, TypesOK
<1>5. late' \in BOOLEAN /\ (late => late')
  BY <1>4 DEF Shows
<1> QED
  BY <1>3, <1>5

\* queueCrawlOnce decides the crawl of the visit, once.
LEMMA QueueDecided ==
    ASSUME IInv, PageKeeps, NEW skip \in BOOLEAN, QueueCrawlOnce(skip),
           ~spoiled => (skip <=> privacy.account)
    PROVE  QueueOK' /\ asked' \in BOOLEAN /\ posts' \in Nat
<1>1. asked' = TRUE /\ posts \in Nat /\ asked \in BOOLEAN
  BY DEF QueueCrawlOnce, IInv, TypesOK
<1>2. CASE asked
  <2>1. posts' = posts
    BY <1>2 DEF QueueCrawlOnce
  <2> QED
    BY <1>1, <1>2, <2>1 DEF IInv, QueueOK, PageKeeps
<1>3. CASE ~asked
  <2>1. posts = 0
    BY <1>3 DEF IInv, QueueOK
  <2>2. CASE skip
    <3>1. posts' = posts
      BY <2>2 DEF QueueCrawlOnce
    <3>2. posts' = 0
      BY <2>1, <3>1
    <3> QED
      BY <1>1, <2>2, <3>2 DEF QueueOK, PageKeeps
  <2>3. CASE ~skip
    <3>1. posts' = posts + 1
      BY <1>3, <2>3 DEF QueueCrawlOnce
    <3>2. posts' = 1
      BY <2>1, <3>1
    <3> QED
      BY <1>1, <2>3, <3>2 DEF QueueOK, PageKeeps
  <2> QED
    BY <2>2, <2>3
<1> QED
  BY <1>2, <1>3

LEMMA NamesStay ==
    ASSUME IInv, PageKeeps, NEW c \in checks, NEW d, GoesOn(c, d), live' = live,
           c.stage \in {"linked", "identity"} =>
             spoiled \/ Mate \in known \/ (d \in checks' /\ d.stage \in {"linked", "identity"})
    PROVE  NamesOK'
BY DEF IInv, NamesOK, PageKeeps, GoesOn

LEMMA QueueStays ==
    ASSUME IInv, PageKeeps, NEW c \in checks, NEW d, GoesOn(c, d), UNCHANGED <<asked, posts>>,
           c.stage \in Early => spoiled \/ (d \in checks' /\ d.stage \in Early)
    PROVE  QueueOK' /\ asked' \in BOOLEAN /\ posts' \in Nat
<1>1. QueueOK'
  BY DEF IInv, QueueOK, PageKeeps, GoesOn
<1>2. asked' \in BOOLEAN
  BY DEF IInv, TypesOK
<1>3. posts' \in Nat
  BY DEF IInv, TypesOK
<1> QED
  BY <1>1, <1>2, <1>3

LEMMA PageMonotone ==
    ASSUME IInv, PageKeeps
    PROVE  Monotone
BY DEF IInv, TypesOK, PageKeeps, Monotone

\* Together.
LEMMA HandledKeeps ==
    ASSUME IInv, PageKeeps, NEW c \in checks, NEW d \in CheckType, GoesOn(c, d), d.no = c.no,
           CheckOK(d)', shown' \in ReplyType, live' \in ReplyType, late' \in BOOLEAN,
           asked' \in BOOLEAN, posts' \in Nat, LiveOK', NamesOK', QueueOK'
    PROVE  IInv'
<1>1. Monotone
  BY PageMonotone
<1>2. ChecksOK'
  <2>1. CASE checks' = checks \ {c}
    BY <1>1, <2>1, FewerChecksStay DEF IInv
  <2>2. CASE checks' = (checks \ {c}) \cup {d}
    BY <1>1, <2>2, OtherChecksStay DEF IInv
  <2> QED
    BY <2>1, <2>2 DEF GoesOn
<1>3. checks' \subseteq CheckType
  BY DEF IInv, TypesOK, GoesOn
<1>4. spoiled' \in BOOLEAN
  BY DEF IInv, TypesOK, PageKeeps
<1>5. TypesOK'
  BY <1>3, <1>4 DEF IInv, TypesOK, PageKeeps
<1>6. ServerOK' /\ RaidRowIsKept'
  BY DEF IInv, ServerOK, RaidRowIsKept, PageKeeps
<1> QED
  BY <1>2, <1>5, <1>6 DEF IInv

LEMMA ShowsNothingTyped ==
    ASSUME IInv, ShowsNothingNew
    PROVE  /\ shown' = shown /\ shown' \in ReplyType /\ late' \in BOOLEAN /\ (late => late')
           /\ ~late' /\ ~outdated /\ live # Pending => shown'.as >= live.as /\ (live.kind = "none" => shown'.kind = "none")
<1>1. shown' = shown /\ shown' \in ReplyType
  BY DEF IInv, TypesOK, ShowsNothingNew
<1>2. late' \in BOOLEAN /\ (late => late') /\ (late' => late)
  BY DEF IInv, TypesOK, ShowsNothingNew
<1>3. ~late' /\ ~outdated /\ live # Pending => shown'.as >= live.as /\ (live.kind = "none" => shown'.kind = "none")
  BY <1>1, <1>2 DEF IInv, LiveOK
<1> QED
  BY <1>1, <1>2, <1>3

LEMMA BaselineKeepsIInv ==
    ASSUME IInv, PageKeeps, NEW c \in checks, HandleBaseline(c)
    PROVE  IInv'
<1>1. /\ c \in CheckType /\ CheckOK(c) /\ TypesOK /\ c.reply \in ReplyType
      /\ c.stage = "baseline" /\ live' = live /\ UNCHANGED <<asked, posts>> /\ live \in ReplyType
  BY DEF IInv, TypesOK, ChecksOK, HandleBaseline, queueing, CheckType
<1>2. Pending \in ReplyType /\ Pending.as <= world
  BY <1>1, PendingTyped DEF TypesOK
<1>3. CASE c.reply.kind \in {"failed", "refused", "closed"}
  <2> DEFINE d == Advanced(c, "baseline", Pending)
  <2>1. Shows(c, Bare("none")) /\ checks' = checks \ {c}
    BY <1>3 DEF HandleBaseline, Ends
  <2>2. d \in CheckType /\ d.no = c.no /\ d.stage = "baseline" /\ d.reply = Pending
    BY <1>1, <1>2, AdvancedTyped DEF Stages
  <2>3. CheckOK(d)'
    BY <1>1, <1>2, AdvancedOK DEF Stages
  <2> HIDE DEF d
  <2>4. GoesOn(c, d)
    BY <2>1 DEF GoesOn
  <2>5. shown' \in ReplyType /\ late' \in BOOLEAN /\ (late => late')
    BY <2>1, BareTyped, ShowsTyped DEF Kinds
  <2>6. late' \/ live = Pending
    BY <1>1, <2>1, EarlyShows
  <2>7. LiveOK'
    BY <1>1, <2>2, <2>4, <2>5, <2>6, LiveStays, PageMonotone
  <2>8. NamesOK'
    BY <1>1, <2>4, NamesStay
  <2>9. spoiled
    BY <1>1, <1>3 DEF CheckOK
  <2>10. QueueOK' /\ asked' \in BOOLEAN /\ posts' \in Nat
    BY <1>1, <2>4, <2>9, QueueStays
  <2> QED
    BY <1>1, <2>2, <2>3, <2>4, <2>5, <2>7, <2>8, <2>10, HandledKeeps
<1>4. CASE c.reply.kind \notin {"failed", "refused", "closed"}
  <2> DEFINE d == Advanced(c, "profile", Pending)
  <2>1. Shows(c, c.reply) /\ checks' = (checks \ {c}) \cup {d}
    BY <1>4 DEF HandleBaseline, Goes, Becomes, Advanced
  <2>2. d \in CheckType /\ d.no = c.no /\ d.stage = "profile" /\ d.reply = Pending
    BY <1>1, <1>2, AdvancedTyped DEF Stages
  <2>3. CheckOK(d)'
    BY <1>1, <1>2, AdvancedOK DEF Stages
  <2> HIDE DEF d
  <2>4. GoesOn(c, d) /\ d \in checks'
    BY <2>1 DEF GoesOn
  <2>5. shown' \in ReplyType /\ late' \in BOOLEAN /\ (late => late')
    BY <1>1, <2>1, ShowsTyped
  <2>6. late' \/ live = Pending
    BY <1>1, <2>1, EarlyShows
  <2>7. LiveOK'
    BY <1>1, <2>2, <2>4, <2>5, <2>6, LiveStays, PageMonotone
  <2>8. NamesOK'
    BY <1>1, <2>4, NamesStay
  <2>9. QueueOK' /\ asked' \in BOOLEAN /\ posts' \in Nat
    BY <1>1, <2>2, <2>4, QueueStays DEF Early
  <2> QED
    BY <1>1, <2>2, <2>3, <2>4, <2>5, <2>7, <2>8, <2>9, HandledKeeps
<1> QED
  BY <1>3, <1>4

LEMMA ProfileKeepsIInv ==
    ASSUME IInv, PageKeeps, NEW c \in checks, HandleProfile(c)
    PROVE  IInv'
<1>1. /\ c \in CheckType /\ CheckOK(c) /\ TypesOK /\ c.reply \in ReplyType
      /\ c.stage = "profile" /\ live' = live /\ live \in ReplyType /\ ShowsNothingNew
  BY DEF IInv, TypesOK, ChecksOK, HandleProfile, CheckType
<1>2. Pending \in ReplyType /\ Pending.as <= world
  BY <1>1, PendingTyped DEF TypesOK
<1>3. /\ shown' = shown /\ shown' \in ReplyType /\ late' \in BOOLEAN /\ (late => late')
      /\ ~late' /\ ~outdated /\ live # Pending => shown'.as >= live.as /\ (live.kind = "none" => shown'.kind = "none")
  BY <1>1, ShowsNothingTyped
<1>4. Monotone
  BY <1>3, PageMonotone
<1>5. ASSUME NEW stage \in {"containing", "update"}, NEW has \in ReplyType, has.as <= world,
             privacy.account <=> stage = "containing",
             checks' = (checks \ {c}) \cup {Advanced(c, stage, has)}, UNCHANGED queueing
      PROVE  IInv'
  <2> DEFINE d == Advanced(c, stage, has)
  <2>0. stage \in Stages
    BY <1>5 DEF Stages
  <2>1. d \in CheckType /\ d.no = c.no /\ d.stage = stage /\ d.reply = Pending
    BY <1>1, <1>5, <2>0, AdvancedTyped
  <2>2. CheckOK(d)'
    BY <1>1, <1>5, <2>0, AdvancedOK
  <2> HIDE DEF d
  <2>3. GoesOn(c, d) /\ d \in checks'
    BY <1>5 DEF GoesOn, d
  <2>4. LiveOK'
    BY <1>1, <1>3, <1>4, <2>1, <2>3, LiveStays
  <2>5. NamesOK'
    BY <1>1, <2>3, NamesStay
  <2>6. QueueOK' /\ asked' \in BOOLEAN /\ posts' \in Nat
    BY <1>1, <1>5, <2>1, <2>3, QueueStays DEF Early, queueing
  <2> QED
    BY <1>1, <1>3, <2>1, <2>2, <2>3, <2>4, <2>5, <2>6, HandledKeeps
<1>6. CASE c.reply.kind = "private" /\ Goes(c, "containing") /\ UNCHANGED queueing
  <2>1. privacy.account
    BY <1>1, <1>6 DEF CheckOK
  <2>2. checks' = (checks \ {c}) \cup {Advanced(c, "containing", Pending)}
    BY <1>6 DEF Goes, Becomes, Advanced
  <2> QED
    BY <1>2, <1>5, <1>6, <2>1, <2>2
<1>7. CASE c.reply.kind = "profile" /\ Posts(c, "update") /\ UNCHANGED queueing
  <2>1. ~privacy.account /\ c.reply.as <= world
    BY <1>1, <1>7 DEF CheckOK
  <2>2. checks' = (checks \ {c}) \cup {Advanced(c, "update", c.reply)}
    BY <1>7 DEF Posts, Becomes, Advanced
  <2> QED
    BY <1>1, <1>5, <1>7, <2>1, <2>2
<1>8. CASE c.reply.kind \in {"failed", "refused"} /\ Ends(c) /\ QueueCrawlOnce(FALSE)
  <2> DEFINE d == Advanced(c, "baseline", Pending)
  <2>1. d \in CheckType /\ d.no = c.no /\ d.reply = Pending
    BY <1>1, <1>2, AdvancedTyped DEF Stages
  <2>2. CheckOK(d)'
    BY <1>1, <1>2, AdvancedOK DEF Stages
  <2> HIDE DEF d
  <2>3. GoesOn(c, d)
    BY <1>8 DEF Ends, GoesOn
  <2>4. LiveOK'
    BY <1>1, <1>3, <1>4, <2>1, <2>3, LiveStays
  <2>5. NamesOK'
    BY <1>1, <2>3, NamesStay
  <2>6. spoiled
    BY <1>1, <1>8 DEF CheckOK
  <2>7. QueueOK' /\ asked' \in BOOLEAN /\ posts' \in Nat
    BY <1>8, <2>6, QueueDecided
  <2> QED
    BY <1>1, <1>3, <2>1, <2>2, <2>3, <2>4, <2>5, <2>7, HandledKeeps
<1> QED
  BY <1>6, <1>7, <1>8 DEF HandleProfile

LEMMA ContainingKeepsIInv ==
    ASSUME IInv, PageKeeps, NEW c \in checks, HandleContaining(c)
    PROVE  IInv'
<1> DEFINE d == Advanced(c, "baseline", Pending)
<1>1. /\ c \in CheckType /\ CheckOK(c) /\ TypesOK /\ c.reply \in ReplyType
      /\ c.stage = "containing" /\ live' = live /\ live \in ReplyType /\ checks' = checks \ {c}
  BY DEF IInv, TypesOK, ChecksOK, HandleContaining, CheckType, Ends
<1>2. Pending \in ReplyType /\ Pending.as <= world
  BY <1>1, PendingTyped DEF TypesOK
<1>3. d \in CheckType /\ d.no = c.no /\ d.reply = Pending
  BY <1>1, <1>2, AdvancedTyped DEF Stages
<1>4. CheckOK(d)'
  BY <1>1, <1>2, AdvancedOK DEF Stages
<1> HIDE DEF d
<1>5. GoesOn(c, d)
  BY <1>1 DEF GoesOn
<1>6. NamesOK'
  BY <1>1, <1>5, NamesStay
<1>7. privacy.account /\ (~spoiled => c.reply.kind # "failed")
  BY <1>1 DEF CheckOK
<1>8. CASE c.reply.kind = "failed"
  <2>1. QueueCrawlOnce(FALSE) /\ ShowsNothingNew
    BY <1>8 DEF HandleContaining
  <2>2. QueueOK' /\ asked' \in BOOLEAN /\ posts' \in Nat
    BY <1>7, <1>8, <2>1, QueueDecided
  <2>3. /\ shown' = shown /\ shown' \in ReplyType /\ late' \in BOOLEAN /\ (late => late')
        /\ ~late' /\ ~outdated /\ live # Pending => shown'.as >= live.as /\ (live.kind = "none" => shown'.kind = "none")
    BY <2>1, ShowsNothingTyped
  <2>4. LiveOK'
    BY <1>1, <1>3, <1>5, <2>3, LiveStays, PageMonotone
  <2> QED
    BY <1>1, <1>3, <1>4, <1>5, <1>6, <2>2, <2>3, <2>4, HandledKeeps
<1>9. CASE c.reply.kind # "failed"
  <2>1. QueueCrawlOnce(TRUE)
    BY <1>9 DEF HandleContaining
  <2>2. PICK r \in {c.reply, Bare("none")} : Shows(c, r)
    BY <1>9 DEF HandleContaining
  <2>3. r \in ReplyType
    BY <1>1, <2>2, BareTyped DEF Kinds
  <2>4. QueueOK' /\ asked' \in BOOLEAN /\ posts' \in Nat
    BY <1>7, <2>1, QueueDecided
  <2>5. shown' \in ReplyType /\ late' \in BOOLEAN /\ (late => late')
    BY <2>2, <2>3, ShowsTyped
  <2>6. late' \/ live = Pending
    BY <1>1, <2>2, EarlyShows
  <2>7. LiveOK'
    BY <1>1, <1>3, <1>5, <2>5, <2>6, LiveStays, PageMonotone
  <2> QED
    BY <1>1, <1>3, <1>4, <1>5, <1>6, <2>4, <2>5, <2>7, HandledKeeps
<1> QED
  BY <1>8, <1>9

\* The live answer of the newest check, and what is shown of it.
LEMMA LiveBegins ==
    ASSUME IInv, PageKeeps, NEW c \in checks, c.no = last, IsLive(c), Shows(c, c.reply),
           live' = c.reply, NEW d, d.no = c.no, d.reply = Pending,
           \/ checks' = checks \ {c} /\ ~c.reply.more
           \/ /\ checks' = (checks \ {c}) \cup {d} /\ c.reply.more
              /\ d.stage = IF c.reply.kind = "session" THEN "linked" ELSE "mate"
    PROVE  LiveOK' /\ NamesOK'
<1>1. /\ c.reply \in ReplyType /\ CheckOK(c) /\ c.reply.as \in Nat /\ c.reply.as <= world
      /\ c.reply.kind \in {"session", "none"}
  BY DEF IInv, TypesOK, ChecksOK, CheckType, ReplyType, CheckOK, IsLive
<1>2. c.reply.kind = "none" => ~c.reply.more
  BY <1>1 DEF CheckOK
<1>3. shown'.as = c.reply.as /\ shown'.kind = c.reply.kind
  BY <1>1, ShowsTyped
<1>4. c.reply # Pending
  BY <1>1, PendingTyped
<1>5. ASSUME NEW e \in checks', e.no = last
      PROVE  e = d /\ c.reply.kind = "session" /\ e.stage = "linked"
  <2>1. \A f \in checks : f.no = last => f = c
    BY DEF IInv, ChecksOK
  <2> QED
    BY <1>1, <1>2, <1>5, <2>1
<1>6. ~outdated /\ c.reply.kind = "session" => RowKeeps(c.reply.as)
  BY DEF IInv, LiveOK
<1>7. LiveOK'
  <2>1. \A n : RowKeeps(n)' <=> RowKeeps(n)
    BY DEF RowKeeps, PageKeeps
  <2>2. \A e : e.stage = "linked" => ~IsLive(e)'
    BY DEF IsLive
  <2>3. /\ live'.as <= world' /\ live'.kind \in {"pending", "session", "none"} /\ live'.kind # "pending"
        /\ live' # Pending /\ shown'.as >= live'.as /\ (live'.kind = "none" => shown'.kind = "none")
    BY <1>1, <1>3, <1>4 DEF PageKeeps
  <2>4. \A e \in checks' : e.no = last' =>
          live'.kind = "session" /\ e.stage = "linked"
    BY <1>5 DEF PageKeeps
  <2>5. ~outdated' /\ live'.kind = "session" => RowKeeps(live'.as)
    BY <1>6 DEF PageKeeps
  <2> QED
    BY <2>1, <2>2, <2>3, <2>4, <2>5 DEF LiveOK
<1>8. NamesOK'
  <2>1. c.reply.kind = "session" => c.reply.more \/ Mate \in known
    BY <1>1 DEF CheckOK
  <2> QED
    BY <2>1 DEF NamesOK, PageKeeps
<1> QED
  BY <1>7, <1>8

LEMMA HandleUpdateKeepsIInv ==
    ASSUME IInv, PageKeeps, NEW c \in checks, HandleUpdate(c)
    PROVE  IInv'
<1>1. /\ c \in CheckType /\ CheckOK(c) /\ TypesOK /\ c.reply \in ReplyType
      /\ c.stage = "update" /\ live \in ReplyType
  BY DEF IInv, TypesOK, ChecksOK, HandleUpdate, CheckType
<1>2. Pending \in ReplyType /\ Pending.as <= world
  BY <1>1, PendingTyped DEF TypesOK
<1>3. ~privacy.account
  BY <1>1 DEF CheckOK
<1>4. QueueOK' /\ asked' \in BOOLEAN /\ posts' \in Nat
  <2>1. QueueCrawlOnce(FALSE)
    BY DEF HandleUpdate
  <2> QED
    BY <1>3, <2>1, QueueDecided
<1>5. PICK stage \in {"linked", "mate"} : stage = IF c.reply.kind = "session" THEN "linked" ELSE "mate"
  OBVIOUS
<1> DEFINE d == Advanced(c, stage, Pending)
<1> stage \in Stages
  BY DEF Stages
<1>6. d \in CheckType /\ d.no = c.no /\ d.reply = Pending /\ d.stage = stage
  BY <1>1, <1>2, AdvancedTyped
<1>7. CheckOK(d)'
  BY <1>1, <1>2, <1>3, AdvancedOK
<1>8. CASE c.reply.kind \in {"failed", "refused"}
  <2>1. ShowsNothingNew /\ checks' = checks \ {c} /\ live' = live
    BY <1>8 DEF HandleUpdate, Ends
  <2> HIDE DEF d
  <2>2. GoesOn(c, d)
    BY <2>1 DEF GoesOn
  <2>3. /\ shown' = shown /\ shown' \in ReplyType /\ late' \in BOOLEAN /\ (late => late')
        /\ ~late' /\ ~outdated /\ live # Pending => shown'.as >= live.as /\ (live.kind = "none" => shown'.kind = "none")
    BY <2>1, ShowsNothingTyped
  <2>4. LiveOK'
    BY <1>1, <1>6, <2>1, <2>2, <2>3, LiveStays, PageMonotone
  <2>5. NamesOK'
    BY <1>1, <2>1, <2>2, NamesStay
  <2> QED
    BY <1>1, <1>4, <1>6, <1>7, <2>1, <2>2, <2>3, <2>4, <2>5, HandledKeeps
<1>9. CASE c.reply.kind \notin {"failed", "refused"}
  <2>1. Shows(c, c.reply)
    BY <1>9 DEF HandleUpdate
  <2>2. \/ checks' = checks \ {c} /\ ~c.reply.more
        \/ checks' = (checks \ {c}) \cup {d} /\ c.reply.more
    BY <1>5, <1>9 DEF HandleUpdate, Ends, Goes, Becomes, Advanced
  <2> HIDE DEF d
  <2>3. GoesOn(c, d)
    BY <2>2 DEF GoesOn
  <2>4. shown' \in ReplyType /\ late' \in BOOLEAN /\ (late => late')
    BY <1>1, <2>1, ShowsTyped
  <2>5. Monotone
    BY <2>4, PageMonotone
  <2>6. CASE c.no = last /\ IsLive(c)
    <3>1. live' = c.reply
      BY <2>6 DEF HandleUpdate, IsLive
    <3>2. LiveOK' /\ NamesOK'
      BY <1>5, <1>6, <2>1, <2>2, <2>5, <2>6, <3>1, LiveBegins
    <3> QED
      BY <1>1, <1>4, <1>6, <1>7, <2>3, <2>4, <3>1, <3>2, HandledKeeps
  <2>7. CASE ~(c.no = last /\ IsLive(c))
    <3>1. live' = live
      BY <1>1, <2>7 DEF HandleUpdate, IsLive
    <3>2. late' \/ live = Pending
      BY <1>1, <2>1, EarlyShows
    <3>3. LiveOK'
      BY <1>1, <1>6, <2>3, <2>5, <3>1, <3>2, LiveStays
    <3>4. NamesOK'
      BY <1>1, <2>3, <3>1, NamesStay
    <3> QED
      BY <1>1, <1>4, <1>6, <1>7, <2>3, <2>4, <3>1, <3>3, <3>4, HandledKeeps
  <2> QED
    BY <2>6, <2>7
<1> QED
  BY <1>8, <1>9

LEMMA FollowsOf ==
    /\ DOMAIN Follows = {"linked", "identity", "mate", "mateUpdate"}
    /\ Follows["linked"] = "identity" /\ Follows["identity"] = "reread"
    /\ Follows["mate"] = "mateUpdate" /\ Follows["mateUpdate"] = "contained"
BY DEF Follows

LEMMA FollowUpKeepsIInv ==
    ASSUME IInv, PageKeeps, NEW c \in checks, c.reply # Pending, HandleFollowUp(c)
    PROVE  IInv'
<1>1. /\ c \in CheckType /\ CheckOK(c) /\ TypesOK /\ c.reply \in ReplyType /\ c.reply.as <= world
      /\ live' = live /\ live \in ReplyType /\ UNCHANGED <<asked, posts>> /\ c.stage \in Stages
  BY DEF IInv, TypesOK, ChecksOK, HandleFollowUp, CheckType, queueing, CheckOK
<1>2. Pending \in ReplyType /\ Pending.as <= world
  BY <1>1, PendingTyped DEF TypesOK
<1>3. ASSUME NEW d, GoesOn(c, d), c.stage \notin Early
      PROVE  QueueOK' /\ asked' \in BOOLEAN /\ posts' \in Nat
  BY <1>1, <1>3, QueueStays
<1>4. CASE c.stage \in DOMAIN Follows
  <2>1. c.stage \in {"linked", "identity", "mate", "mateUpdate"} /\ ShowsNothingNew
    BY <1>4, FollowsOf DEF HandleFollowUp
  <2>2. /\ shown' = shown /\ shown' \in ReplyType /\ late' \in BOOLEAN /\ (late => late')
        /\ ~late' /\ ~outdated /\ live # Pending => shown'.as >= live.as /\ (live.kind = "none" => shown'.kind = "none")
    BY <2>1, ShowsNothingTyped
  <2>3. Monotone
    BY <2>2, PageMonotone
  <2>4. ~privacy.account /\ c.stage \notin Early
    BY <1>1, <2>1 DEF CheckOK, Early
  <2>5. CASE c.reply.kind = "failed" \/ (c.reply.kind = "refused" /\ c.stage # "mateUpdate")
    <3> DEFINE d == Advanced(c, c.stage, Pending)
    <3>1. checks' = checks \ {c}
      BY <1>4, <2>1, <2>5 DEF HandleFollowUp, Ends
    <3>2. d \in CheckType /\ d.no = c.no /\ d.reply = Pending /\ d.stage = c.stage
      BY <1>1, <1>2, AdvancedTyped
    <3>3. CheckOK(d)'
      BY <1>1, <1>2, <2>1, <2>4, AdvancedOK
    <3> HIDE DEF d
    <3>4. GoesOn(c, d)
      BY <3>1 DEF GoesOn
    <3>5. LiveOK'
      BY <1>1, <2>2, <2>3, <3>2, <3>4, LiveStays
    <3>6. spoiled
      BY <1>1, <2>1, <2>5 DEF CheckOK
    <3>7. NamesOK'
      BY <1>1, <3>4, <3>6, NamesStay
    <3> QED
      BY <1>1, <1>3, <2>2, <2>4, <3>2, <3>3, <3>4, <3>5, <3>7, HandledKeeps
  <2>6. CASE ~(c.reply.kind = "failed" \/ (c.reply.kind = "refused" /\ c.stage # "mateUpdate"))
    <3>1. PICK stage \in {"identity", "reread", "mateUpdate", "contained"} :
            /\ stage = Follows[c.stage]
            /\ c.stage = "linked" => stage = "identity"
            /\ c.stage = "identity" => stage = "reread"
      BY <2>1, FollowsOf
    <3>2. PICK has \in {c.reply, Pending} :
            checks' = (checks \ {c}) \cup {Advanced(c, stage, has)}
      <4>1. CASE c.stage = "mate"
        <5>1. Posts(c, "mateUpdate") /\ stage = "mateUpdate"
          BY <1>4, <2>1, <2>6, <3>1, <4>1, FollowsOf DEF HandleFollowUp
        <5> QED
          BY <5>1 DEF Posts, Becomes, Advanced
      <4>2. CASE c.stage # "mate"
        <5>1. Goes(c, stage)
          BY <1>4, <2>1, <2>6, <3>1, <4>2 DEF HandleFollowUp
        <5> QED
          BY <5>1 DEF Goes, Becomes, Advanced
      <4> QED
        BY <4>1, <4>2
    <3>3. has \in ReplyType /\ has.as <= world
      BY <1>1, <1>2, <3>2
    <3> DEFINE d == Advanced(c, stage, has)
    <3> stage \in Stages
      BY DEF Stages
    <3>4. d \in CheckType /\ d.no = c.no /\ d.reply = Pending /\ d.stage = stage
      BY <1>1, <3>3, AdvancedTyped
    <3>5. CheckOK(d)'
      BY <1>1, <3>3, <2>4, AdvancedOK DEF Early
    <3>6. GoesOn(c, d) /\ d \in checks'
      BY <3>2 DEF GoesOn
    <3> HIDE DEF d
    <3>7. LiveOK'
      BY <1>1, <2>1, <2>2, <2>3, <3>1, <3>4, <3>6, LiveStays
    <3>8. c.stage = "identity" => spoiled \/ Mate \in known
      BY <1>1 DEF CheckOK
    <3>9. NamesOK'
      BY <1>1, <3>1, <3>4, <3>6, <3>8, NamesStay
    <3> QED
      BY <1>1, <1>3, <2>2, <2>4, <3>4, <3>5, <3>6, <3>7, <3>9, HandledKeeps
  <2> QED
    BY <2>5, <2>6
<1>5. CASE c.stage \in {"reread", "contained"}
  <2> DEFINE d == Advanced(c, "reread", Pending)
  <2>1. c.stage \notin DOMAIN Follows
    BY <1>5, FollowsOf
  <2>2. checks' = checks \ {c}
    BY <1>5, <2>1 DEF HandleFollowUp, Ends
  <2>3. ~privacy.account /\ c.stage \notin Early
    BY <1>1, <1>5 DEF CheckOK, Early
  <2>4. d \in CheckType /\ d.no = c.no /\ d.reply = Pending /\ d.stage = "reread"
    BY <1>1, <1>2, AdvancedTyped DEF Stages
  <2>5. CheckOK(d)'
    BY <1>1, <1>2, <2>3, AdvancedOK DEF Stages
  <2> HIDE DEF d
  <2>6. GoesOn(c, d)
    BY <2>2 DEF GoesOn
  <2>7. NamesOK'
    BY <1>1, <1>5, <2>6, NamesStay
  <2>8. /\ shown' \in ReplyType /\ late' \in BOOLEAN /\ (late => late')
        /\ ~late' /\ ~outdated /\ live # Pending => shown'.as >= live.as /\ (live.kind = "none" => shown'.kind = "none")
    <3>1. CASE c.reply.kind # "session"
      <4>1. ShowsNothingNew
        BY <1>5, <2>1, <3>1 DEF HandleFollowUp
      <4> QED
        BY <4>1, ShowsNothingTyped
    <3>2. CASE c.reply.kind = "session"
      <4>1. Shows(c, c.reply)
        BY <1>5, <2>1, <3>2 DEF HandleFollowUp
      <4>2. /\ shown' \in ReplyType /\ shown'.as = c.reply.as /\ shown'.kind = c.reply.kind
            /\ late' \in BOOLEAN /\ (late => late')
        BY <1>1, <4>1, ShowsTyped
      <4>3. c.no \in Nat /\ last \in Nat /\ c.no <= last
        BY <1>1 DEF TypesOK, CheckType, CheckOK
      <4>4. CASE c.no < last
        <5>1. late' \/ live = Pending
          BY <4>1, <4>4 DEF Shows
        <5> QED
          BY <4>2, <5>1
      <4>5. CASE c.no = last
        <5>1. live # Pending => live.kind = "session" /\ c.stage = "reread"
          BY <1>5, <4>5 DEF IInv, LiveOK
        <5>2. ~outdated /\ live # Pending => c.reply.as >= live.as
          BY <3>2, <4>5, <5>1 DEF IInv, LiveOK
        <5> QED
          BY <4>2, <5>1, <5>2
      <4> QED
        BY <4>3, <4>4, <4>5
    <3> QED
      BY <3>1, <3>2
  <2>9. LiveOK'
    BY <1>1, <2>4, <2>6, <2>8, LiveStays, PageMonotone
  <2> QED
    BY <1>1, <1>3, <2>3, <2>4, <2>5, <2>6, <2>7, <2>8, <2>9, HandledKeeps
<1> QED
  BY <1>4, <1>5 DEF HandleFollowUp

LEMMA HandleKeepsIInv == ASSUME IInv, NEW c \in checks, Handle(c) PROVE IInv'
<1>1. PageKeeps /\ c.reply # Pending
  BY DEF Handle, PageKeeps, boundVars
<1> QED
  BY <1>1, BaselineKeepsIInv, ProfileKeepsIInv, ContainingKeepsIInv, HandleUpdateKeepsIInv,
     FollowUpKeepsIInv DEF Handle

(***************************************************************************)
(* The visitor and what happens around the page.                           *)
(***************************************************************************)

\* Nothing happens to the checks and to what they read.
LEMMA AsideKeepsIInv ==
    ASSUME IInv, UNCHANGED <<rows, known, checks, shown, live, last, late, outdated, posts, asked, privacy>>,
           world' \in Nat, world <= world', spoiled' \in BOOLEAN, spoiled => spoiled',
           UNCHANGED <<world, gone>> \/ gone' = "unstored",
           cooling' \subseteq cooling, ~spoiled' => fresh' /\ ~closed'
    PROVE  IInv'
<1>1. TypesOK'
  BY DEF IInv, TypesOK
<1>2. Monotone
  BY DEF IInv, TypesOK, Monotone
<1>3. ChecksOK'
  BY <1>2, FewerChecksStay DEF IInv
<1>4. ServerOK'
  BY DEF IInv, ServerOK, TypesOK
<1>5. LiveOK'
  <2>1. live.as <= world'
    BY DEF IInv, LiveOK, TypesOK, ReplyType
  <2>2. \A e : IsLive(e)' <=> IsLive(e)
    BY DEF IsLive
  <2>3. \A n : RowKeeps(n)' <=> RowKeeps(n)
    BY DEF RowKeeps
  <2> QED
    BY <2>1, <2>2, <2>3 DEF IInv, LiveOK
<1>6. NamesOK' /\ QueueOK'
  BY DEF IInv, NamesOK, QueueOK
<1>7. RaidRowIsKept'
  BY DEF IInv, RaidRowIsKept
<1> QED
  BY <1>1, <1>3, <1>4, <1>5, <1>6, <1>7 DEF IInv

LEMMA RefreshKeepsIInv == ASSUME IInv, Refresh PROVE IInv'
<1> DEFINE d == NewCheck(last + 1)
<1>1. /\ TypesOK /\ last \in Nat /\ checks' = checks \cup {d} /\ last' = last + 1 /\ live' = Pending
      /\ UNCHANGED <<rows, known, shown, posts, asked, privacy, world, spoiled, cooling, fresh, closed>>
      /\ UNCHANGED <<outdated, gone>> /\ late' = FALSE
  BY DEF IInv, TypesOK, Refresh, routeVars, serverVars, tables
<1>2. d \in CheckType /\ d.no = last + 1 /\ d.stage = "baseline" /\ d.has = Pending /\ d.reply = Pending
  BY <1>1, PendingTyped DEF NewCheck, CheckType, Stages
<1>3. PICK e \in CheckType : e = d
  BY <1>2
<1> HIDE DEF d
<1>4. Monotone
  BY <1>1 DEF TypesOK, Monotone
<1>5. CheckOK(e)'
  BY <1>1, <1>2, <1>3, PendingTyped DEF CheckOK, IsLive, TypesOK
<1>6. \A f \in checks : f.no \in Nat /\ f.no <= last
  BY DEF IInv, ChecksOK, CheckOK, TypesOK, CheckType
<1>7. ChecksOK'
  <2>1. \A f \in checks : CheckOK(f)'
    BY <1>4, CheckStays DEF IInv, ChecksOK, TypesOK
  <2>2. checks' = checks \cup {e} /\ \A f \in checks : f.no # e.no
    BY <1>1, <1>2, <1>3, <1>6
  <2>3. \A f, g \in checks : f.no = g.no => f = g
    BY DEF IInv, ChecksOK
  <2>4. \A f, g \in checks' : f.no = g.no => f = g
    BY <2>2, <2>3
  <2>5. \A f \in checks' : CheckOK(f)'
    BY <1>5, <2>1, <2>2
  <2> QED
    BY <2>4, <2>5 DEF ChecksOK
<1>8. TypesOK'
  <2>1. checks' \subseteq CheckType
    BY <1>1, <1>2 DEF TypesOK
  <2>2. last' \in Nat /\ live' \in ReplyType
    BY <1>1, PendingTyped
  <2>3. late' \in BOOLEAN
    BY <1>1, Zenon
  <2>4. UNCHANGED <<world, privacy, rows, shown, posts, asked, spoiled, outdated>>
    BY <1>1
  <2> QED
    BY <1>1, <2>1, <2>2, <2>3, <2>4 DEF TypesOK
<1>9. ServerOK' /\ RaidRowIsKept'
  BY <1>1 DEF IInv, ServerOK, RaidRowIsKept
<1>10. LiveOK'
  <2>1. \A f \in checks' : f.no = last' => ~IsLive(f)'
    BY <1>1, <1>2, <1>6 DEF IsLive
  <2> QED
    BY <1>1, <2>1, PendingTyped DEF LiveOK, TypesOK
<1>11. NamesOK' /\ QueueOK'
  BY <1>1, PendingTyped DEF IInv, NamesOK, QueueOK
<1> QED
  BY <1>7, <1>8, <1>9, <1>10, <1>11 DEF IInv

\* Somebody else stores, clears or keeps the row of p.
LEMMA OthersKeepIInv ==
    ASSUME IInv, NEW p \in Members, NEW new \in Nat, rows' = [rows EXCEPT ![p] = new],
           new # 0 => InRaid(new) /\ new <= world,
           known \subseteq known', RowSafe, outdated' \in BOOLEAN, RaidRowIsKept',
           UNCHANGED <<checks, shown, live, last, late, posts, asked, privacy, world, spoiled, cooling, fresh, closed>>
    PROVE  IInv'
<1>1. TypesOK /\ ServerOK
  BY DEF IInv
<1>2. rows' \in [Members -> Nat] /\ \A q \in Members : rows'[q] = IF q = p THEN new ELSE rows[q]
  BY <1>1 DEF TypesOK
<1>3. Monotone
  BY <1>1 DEF TypesOK, Monotone
<1>4. ChecksOK'
  BY <1>1, <1>3, FewerChecksStay DEF IInv
<1>5. TypesOK'
  BY <1>1, <1>2 DEF TypesOK
<1>6. ServerOK'
  BY <1>1, <1>2 DEF ServerOK
<1>7. LiveOK'
  <2>1. \A e : IsLive(e)' <=> IsLive(e)
    BY DEF IsLive
  <2>2. live.as \in Nat /\ live.as <= world
    BY <1>1 DEF IInv, LiveOK, TypesOK, ReplyType
  <2>3. ~outdated' => ~outdated
    BY DEF RowSafe
  <2>4. ~outdated' /\ live.kind = "session" => RowKeeps(live.as)'
    <3> SUFFICES ASSUME ~outdated', live.kind = "session" PROVE RowKeeps(live.as)'
      OBVIOUS
    <3>1. PICK n \in Nat : n = live.as /\ n <= world
      BY <2>2
    <3>2. RowKeeps(n)
      BY <2>3, <3>1 DEF IInv, LiveOK
    <3>3. RowKeeps(n)'
      BY <1>1, <3>1, <3>2, RowStays
    <3> QED
      BY <3>1, <3>3 DEF RowKeeps
  <2>5. ASSUME NEW c \in checks, c.no = last, ~outdated', IsLive(c), c.reply.kind = "session"
        PROVE  RowKeeps(c.reply.as)'
    <3>1. PICK n \in Nat : n = c.reply.as /\ n <= world
      BY DEF IInv, ChecksOK, CheckOK, TypesOK, CheckType, ReplyType
    <3>2. RowKeeps(n)
      BY <2>3, <2>5, <3>1 DEF IInv, LiveOK
    <3>3. RowKeeps(n)'
      BY <1>1, <2>5, <3>1, <3>2, RowStays
    <3> QED
      BY <3>1, <3>3 DEF RowKeeps
  <2>6. /\ live'.as <= world' /\ live'.kind \in {"pending", "session", "none"}
        /\ (live'.kind = "pending" => live' = Pending)
        /\ ~late' /\ ~outdated' /\ live' # Pending =>
             shown'.as >= live'.as /\ (live'.kind = "none" => shown'.kind = "none")
    BY <2>3 DEF IInv, LiveOK
  <2>7. ASSUME NEW e \in checks', e.no = last'
        PROVE  /\ live' # Pending => live'.kind = "session" /\ e.stage \in {"linked", "identity", "reread"}
               /\ ~outdated' /\ live' # Pending /\ e.stage = "reread" /\ e.reply.kind = "session"
                    => e.reply.as >= live'.as
               /\ ~outdated' /\ IsLive(e)' /\ e.reply.kind = "session" => RowKeeps(e.reply.as)'
    <3>1. e \in checks /\ e.no = last
      BY <2>7
    <3> QED
      BY <3>1, <2>1, <2>3, <2>5 DEF IInv, LiveOK
  <2> QED
    BY <2>4, <2>6, <2>7 DEF LiveOK
<1>8. NamesOK' /\ QueueOK'
  BY <1>1 DEF IInv, NamesOK, QueueOK
<1> QED
  BY <1>4, <1>5, <1>6, <1>7, <1>8 DEF IInv

LEMMA RowSafeIs ==
    ASSUME TypesOK, NEW has, Others(has)
    PROVE  RowSafe /\ outdated' \in BOOLEAN /\ Gone(has)
BY DEF TypesOK, Others, RowSafe

LEMMA CrawlerWritesKeepIInv == ASSUME IInv, NEW p \in Members, CrawlerWrites(p) PROVE IInv'
<1>1. /\ TypesOK /\ ServerOK /\ RaidRowIsKept
      /\ UNCHANGED <<checks, shown, live, last, late, posts, asked, privacy, world, spoiled, cooling, fresh, closed>>
  BY DEF IInv, CrawlerWrites, uiVars
<1>2. CASE \E n \in 1..world : /\ InRaid(n) /\ rows' = [rows EXCEPT ![p] = n]
                                /\ Others(Profile(Mate, n)) /\ UNCHANGED known
  <2>1. PICK n \in 1..world : /\ InRaid(n) /\ rows' = [rows EXCEPT ![p] = n]
                              /\ Others(Profile(Mate, n)) /\ UNCHANGED known
    BY <1>2
  <2>2. n \in Nat /\ n <= world
    BY <1>1, <2>1 DEF TypesOK
  <2>3. Profile(Mate, n) \in ReplyType /\ Profile(Mate, n).as = n
    BY <1>1, <2>2, ProfileTyped, WritesAssumption DEF Members
  <2>4. RowSafe /\ outdated' \in BOOLEAN /\ Gone(Profile(Mate, n))
    BY <1>1, <2>1, RowSafeIs
  <2>5. rows'[Self] \in {n, rows[Self]}
    BY <1>1, <2>1 DEF TypesOK, Members
  <2>6. RaidRowIsKept'
    BY <1>1, <2>3, <2>4, <2>5, GoneStays
  <2> QED
    BY <1>1, <2>1, <2>2, <2>4, <2>6, OthersKeepIInv
<1>3. CASE /\ rows' = [rows EXCEPT ![p] = 0] /\ UNCHANGED <<known, outdated>>
           /\ gone' = IF p = Self /\ rows[Self] = world /\ InRaid(world) THEN "dropped" ELSE gone
  <2>1. RowSafe /\ outdated' \in BOOLEAN
    BY <1>1, <1>3 DEF TypesOK, RowSafe, Members
  <2>2. RaidRowIsKept'
    <3> SUFFICES ASSUME InRaid(world), rows'[Self] # world
                 PROVE  gone' \in {"unstored", "older", "blind", "dropped"}
      BY <1>1 DEF RaidRowIsKept, InRaid
    <3>1. CASE rows[Self] # world
      BY <1>1, <1>3, <3>1 DEF RaidRowIsKept
    <3>2. CASE rows[Self] = world
      <4>1. p = Self
        BY <1>1, <1>3, <3>2 DEF TypesOK, Members
      <4> QED
        BY <1>1, <1>3, <3>2, <4>1 DEF RaidRowIsKept
    <3> QED
      BY <3>1, <3>2
  <2> QED
    BY <1>1, <1>3, <2>1, <2>2, OthersKeepIInv
<1>4. CASE known' = known \cup {p} /\ UNCHANGED <<rows, outdated, gone>>
  <2>1. RowSafe /\ outdated' \in BOOLEAN /\ RaidRowIsKept'
    BY <1>1, <1>4 DEF TypesOK, RowSafe, RaidRowIsKept
  <2>2. rows' = [rows EXCEPT ![p] = rows[p]] /\ rows[p] \in Nat
    BY <1>1, <1>4 DEF TypesOK
  <2>3. rows[p] # 0 => InRaid(rows[p]) /\ rows[p] <= world
    BY <1>1 DEF ServerOK
  <2> QED
    BY <1>1, <1>4, <2>1, <2>2, <2>3, OthersKeepIInv
<1> QED
  BY <1>2, <1>3, <1>4 DEF CrawlerWrites

LEMMA VisitorPostsKeepIInv == ASSUME IInv, NEW p \in Members, VisitorPosts(p) PROVE IInv'
<1>1. /\ TypesOK /\ ServerOK /\ RaidRowIsKept /\ known \subseteq known'
      /\ UNCHANGED <<checks, shown, live, last, late, posts, asked, privacy, world, spoiled, cooling, fresh, closed>>
  BY DEF IInv, VisitorPosts, uiVars
<1>2. PICK n \in 0..world :
        /\ Profile(p, n).kind = "profile"
        /\ rows' = [rows EXCEPT ![p] = ParsedRow(p, Profile(p, n))] /\ Others(Profile(p, n))
  BY DEF VisitorPosts
<1> DEFINE has == Profile(p, n)
           new == ParsedRow(p, has)
<1>3. n \in Nat /\ n <= world
  BY <1>1, <1>2 DEF TypesOK
<1>4. has \in ReplyType /\ has.as = n
  BY <1>1, <1>2, <1>3, ProfileTyped
<1>5. RowSafe /\ outdated' \in BOOLEAN /\ Gone(has)
  BY <1>1, <1>2, RowSafeIs
<1> HIDE DEF has
<1>6. /\ new \in Nat /\ (new # 0 => InRaid(new) /\ new <= world)
      /\ new # rows[p] /\ InRaid(has.as) /\ new # has.as => has.shows = Parts \ {"transitory"}
  BY <1>1, <1>3, <1>4, ParsedRowIs
<1>7. rows' = [rows EXCEPT ![p] = new]
  BY <1>2 DEF has
<1> HIDE DEF new
<1>8. rows'[Self] = IF p = Self THEN new ELSE rows[Self]
  BY <1>1, <1>7 DEF TypesOK, Members
<1>9. rows'[Self] # rows[Self] /\ InRaid(has.as) /\ rows'[Self] # has.as => has.shows = Parts \ {"transitory"}
  BY <1>6, <1>8
<1>10. RaidRowIsKept'
  BY <1>1, <1>4, <1>5, <1>9, GoneStays
<1> QED
  BY <1>1, <1>5, <1>6, <1>7, <1>10, OthersKeepIInv

LEMMA NextIInv == IInv /\ [Next]_vars => IInv'
<1> SUFFICES ASSUME IInv, [Next]_vars PROVE IInv'
  OBVIOUS
<1>1. world \in Nat /\ spoiled \in BOOLEAN /\ (~spoiled => fresh /\ ~closed)
  BY DEF IInv, TypesOK, ServerOK
<1>2. CASE UNCHANGED vars
  BY <1>1, <1>2, AsideKeepsIInv DEF vars, routeVars, serverVars, tables, uiVars, boundVars, historyVars
<1>3. CASE FetchEnds
  <2>1. /\ UNCHANGED <<world, privacy, rows, known, cooling, fresh, closed, checks, shown, asked, posts,
                      last, late, live, outdated, gone>>
        /\ spoiled' = TRUE \/ spoiled' = spoiled
    BY <1>3 DEF FetchEnds, Trouble, routeVars, serverVars, tables, historyVars
  <2>2. spoiled' \in BOOLEAN /\ (spoiled => spoiled') /\ (~spoiled' => fresh' /\ ~closed')
    BY <1>1, <2>1
  <2>3. world' \in Nat /\ world <= world' /\ cooling' \subseteq cooling
    BY <1>1, <2>1
  <2> QED
    BY <2>1, <2>2, <2>3, AsideKeepsIInv
<1>4. CASE MoveSlider
  BY <1>1, <1>4, AsideKeepsIInv DEF MoveSlider, routeVars, serverVars, tables, historyVars
<1>5. CASE Move
  <2>1. /\ world' = world + 1 \/ world' = world + 2
        /\ gone' = "unstored"
        /\ UNCHANGED <<privacy, rows, known, cooling, fresh, closed, checks, shown, asked, posts, spoiled,
                      last, late, live, outdated>>
    BY <1>5 DEF Move, serverVars, tables, uiVars
  <2>2. world' \in Nat /\ world <= world'
    BY <1>1, <2>1
  <2>3. spoiled' \in BOOLEAN /\ (spoiled => spoiled') /\ (~spoiled' => fresh' /\ ~closed')
    BY <1>1, <2>1
  <2>4. cooling' \subseteq cooling
    BY <2>1
  <2> QED
    BY <2>1, <2>2, <2>3, <2>4, AsideKeepsIInv
<1>6. CASE TimePasses
  <2>1. /\ UNCHANGED <<world, privacy, rows, known, checks, shown, asked, posts, last, late, live, outdated, gone>>
        /\ cooling' \subseteq cooling
    BY <1>6 DEF TimePasses, tables, uiVars, historyVars
  <2>2. spoiled' \in BOOLEAN /\ (spoiled => spoiled') /\ (~spoiled' => fresh' /\ ~closed')
    <3>1. CASE spoiled' = TRUE
      BY <3>1
    <3>2. CASE UNCHANGED spoiled /\ UNCHANGED fresh /\ (closed' = closed \/ closed' = FALSE)
      BY <1>1, <3>2
    <3> QED
      BY <1>6, <3>1, <3>2 DEF TimePasses, Trouble
  <2>3. world' \in Nat /\ world <= world'
    BY <1>1, <2>1
  <2> QED
    BY <2>1, <2>2, <2>3, AsideKeepsIInv
<1>7. ASSUME NEW c \in checks, Answer(c) \/ Spoiled(c) \/ Handle(c) PROVE IInv'
  BY <1>7, AnswerKeepsIInv, SpoiledKeepsIInv, HandleKeepsIInv
<1>8. ASSUME NEW p \in Members, CrawlerWrites(p) \/ VisitorPosts(p) PROVE IInv'
  BY <1>8, CrawlerWritesKeepIInv, VisitorPostsKeepIInv
<1> QED
  BY <1>2, <1>3, <1>4, <1>5, <1>6, <1>7, <1>8, RefreshKeepsIInv DEF Next, PageStep

LEMMA PageInvariant == Spec => []IInv
BY InitIInv, NextIInv, PTL DEF Spec

(***************************************************************************)
(* What it gives.                                                          *)
(***************************************************************************)

\* queueCrawlOnce: the crawl of a visit is queued at most once, however often the
\* page is refreshed; and when no request went wrong, it is queued for everybody but
\* players whose account is private.
THEOREM PageQueuedOnceUnlessPrivate == Spec => []QueuedOnceUnlessPrivate
<1>1. IInv => QueuedOnceUnlessPrivate
  <2> SUFFICES ASSUME IInv PROVE QueuedOnceUnlessPrivate
    OBVIOUS
  <2>1. posts <= 1 /\ (~spoiled /\ asked => (posts = 1 <=> ~privacy.account))
    BY DEF IInv, QueueOK
  <2>2. ~spoiled /\ checks = {} => asked
    BY DEF IInv, QueueOK
  <2> QED
    BY <2>1, <2>2 DEF QueuedOnceUnlessPrivate, Quiet
<1> QED
  BY <1>1, PageInvariant, PTL

\* fetchActiveSession: when the page has come to rest, it shows what the newest live
\* check found or something newer, and nothing if that check found nothing, unless an
\* older check showed its own answer after that, or an older raid was stored after the
\* newest check's post.
THEOREM PageLiveAnswerIsShown == Spec => []LiveAnswerIsShown
<1>1. IInv => LiveAnswerIsShown
  BY DEF IInv, LiveOK, LiveAnswerIsShown
<1> QED
  BY <1>1, PageInvariant, PTL

\* resolveUnknownMembersAndRefresh: when nothing failed, the teammate of a player whose
\* live session was found has a row once the page has come to rest.
THEOREM PageMembersBecomeKnown == Spec => []MembersBecomeKnown
<1>1. IInv => MembersBecomeKnown
  BY DEF IInv, NamesOK, MembersBecomeKnown, Quiet
<1> QED
  BY <1>1, PageInvariant, PTL

\* parseAndStoreActivity and the route: for any number of raids, checks and writes of
\* others, a raid in progress that is not in the row of its player was not stored yet,
\* or one of three causes took it out.
THEOREM PageRaidRowIsKept == Spec => []RaidRowIsKept
<1>1. IInv => RaidRowIsKept
  BY DEF IInv
<1> QED
  BY <1>1, PageInvariant, PTL

(***************************************************************************)
(* SwrCache, for any keys, requests and ages.  The inflight entries always *)
(* stand for live computations, failures or not; one flight per key needs  *)
(* that none of its computations has failed and that none of its values    *)
(* has been evicted.                                                       *)
(***************************************************************************)

(***************************************************************************)
(* Type correctness, with what a computation's state says of its request.  *)
(***************************************************************************)

Owned ==
    \A r \in Requests : job[r] # "none" => request[r].place \notin {"new", "waiting"}

Awaits ==
    \A r \in Requests : request[r].place = "waiting" =>
        /\ request[r].awaits \in Requests
        /\ job[request[r].awaits] # "none"
        /\ request[request[r].awaits].key = request[r].key

SwrInv == TypeOK /\ Owned /\ Awaits /\ InflightIsLive

LEMMA SwrInitial == ASSUME SwrAssumption PROVE CacheInit => SwrInv
  BY DEF SwrAssumption, CacheInit, SwrInv, TypeOK, Owned, Awaits, InflightIsLive, RequestRecord,
         Places, JobStates

\* Storing a value keeps the values natural numbers.
LEMMA StoreTyped ==
  ASSUME TypeOK, NEW k \in Keys, StoreValue(k)
  PROVE  /\ values' \in [Keys -> Nat]
         /\ negatives' \in [Keys -> Nat]
         /\ troubled' \subseteq Keys
  <1>1. WithValue(k) \in [Keys -> Nat]  BY DEF TypeOK, WithValue
  <1>2. \A v \in [Keys -> Nat] : Evicted(v) \subseteq [Keys -> Nat]
    BY DEF Evicted, EntriesOf, Fits
  <1> QED  BY <1>1, <1>2 DEF StoreValue, EntriesOf, TypeOK

\* What a request changes when it arrives.
LEMMA ArrivesTyped ==
  ASSUME TypeOK, NEW r \in Requests, NEW k \in Keys, NEW place \in Places,
         Arrives(r, k, place)
  PROVE  /\ request' \in [Requests -> RequestRecord]
         /\ request'[r].key = k /\ request'[r].place = place
         /\ place = "waiting" => request'[r].awaits = inflight[k]
         /\ request[r].place = "new"
         /\ \A s \in Requests \ {r} : request'[s] = request[s]
  BY DEF TypeOK, Arrives, RequestRecord

LEMMA MovedTyped ==
  ASSUME TypeOK, NEW r \in Requests, NEW place \in Places, request' = Moved(r, place)
  PROVE  /\ request' \in [Requests -> RequestRecord]
         /\ request'[r].key = request[r].key /\ request'[r].place = place
         /\ request'[r].awaits = request[r].awaits
         /\ \A s \in Requests \ {r} : request'[s] = request[s]
  BY DEF TypeOK, Moved, RequestRecord

LEMMA SettlesTyped ==
  ASSUME TypeOK, NEW r \in Requests, NEW place \in Places \ {"new", "waiting"},
         Settles(r, place), job[r] = "running", Owned
  PROVE  /\ request' \in [Requests -> RequestRecord]
         /\ request'[r].key = request[r].key
         /\ request'[r].place \notin {"new", "waiting"}
         /\ \A s \in Requests \ {r} : request'[s] = request[s]
         /\ job' = [job EXCEPT ![r] = "settled"]
         /\ job' \in [Requests -> JobStates]
  <1>1. CASE request[r].place = "computing"
    BY <1>1, MovedTyped DEF Settles, TypeOK, JobStates
  <1>2. CASE request[r].place # "computing"
    BY <1>2 DEF Settles, TypeOK, JobStates, Owned
  <1> QED  BY <1>1, <1>2

LEMMA SwrStep ==
  ASSUME SwrAssumption, SwrInv, [CacheNext]_cacheVars
  PROVE  SwrInv'
  <1> USE DEF SwrInv
  <1>1. ASSUME NEW r \in Requests, NEW k \in Keys, Hit(r, k)  PROVE SwrInv'
    <2>1. Arrives(r, k, "hit") /\ "hit" \in Places  BY <1>1 DEF Hit, Places
    <2>2. UNCHANGED <<now, values, negatives, inflight, job, troubled>>  BY <1>1 DEF Hit
    <2> QED
      BY <2>1, <2>2, ArrivesTyped
      DEF TypeOK, Owned, Awaits, InflightIsLive, Busy
  <1>2. ASSUME NEW r \in Requests, NEW k \in Keys, ServeStale(r, k)  PROVE SwrInv'
    <2>1. PICK p \in {"stale", "stale-error"} : Arrives(r, k, p)
      BY <1>2 DEF ServeStale
    <2>2. p \in Places  BY <2>1 DEF Places
    <2>3. UNCHANGED <<now, values, negatives, troubled>>  BY <1>2 DEF ServeStale
    <2>4. job[r] = "none"  BY <2>1, <2>2, ArrivesTyped DEF Owned
    <2>5. CASE NothingInFlight(k)
      <3>1. /\ inflight' = [inflight EXCEPT ![k] = r]
            /\ job' = [job EXCEPT ![r] = "scheduled"]
        BY <1>2, <2>5 DEF ServeStale
      <3> QED
        BY <2>1, <2>2, <2>3, <2>4, <3>1, ArrivesTyped
        DEF TypeOK, Owned, Awaits, InflightIsLive, Busy, JobStates
    <2>6. CASE ~NothingInFlight(k)
      <3>1. UNCHANGED <<inflight, job>>  BY <1>2, <2>6 DEF ServeStale
      <3> QED
        BY <2>1, <2>2, <2>3, <2>4, <3>1, ArrivesTyped
        DEF TypeOK, Owned, Awaits, InflightIsLive, Busy
    <2> QED  BY <2>5, <2>6
  <1>3. ASSUME NEW r \in Requests, NEW k \in Keys, Refuse(r, k)  PROVE SwrInv'
    <2>1. Arrives(r, k, "error") /\ "error" \in Places  BY <1>3 DEF Refuse, Refusal, Places
    <2>2. UNCHANGED <<now, values, negatives, inflight, job, troubled>>  BY <1>3 DEF Refuse
    <2> QED
      BY <2>1, <2>2, ArrivesTyped
      DEF TypeOK, Owned, Awaits, InflightIsLive, Busy
  <1>4. ASSUME NEW r \in Requests, NEW k \in Keys, MissAndWait(r, k)  PROVE SwrInv'
    <2>1. Arrives(r, k, "waiting") /\ "waiting" \in Places  BY <1>4 DEF MissAndWait, Places
    <2>2. UNCHANGED <<now, values, negatives, inflight, job, troubled>>  BY <1>4 DEF MissAndWait
    <2>3. job[r] = "none"  BY <2>1, ArrivesTyped DEF Owned
    <2>4. inflight[k] # "none"  BY <1>4 DEF MissAndWait, NothingInFlight
    <2> QED
      BY <2>1, <2>2, <2>3, <2>4, ArrivesTyped
      DEF TypeOK, Owned, Awaits, InflightIsLive, Busy
  <1>5. ASSUME NEW r \in Requests, NEW k \in Keys, MissAndCompute(r, k)  PROVE SwrInv'
    <2>1. Arrives(r, k, "computing") /\ "computing" \in Places
      BY <1>5 DEF MissAndCompute, Places
    <2>2. /\ UNCHANGED <<now, values, negatives, troubled>>
          /\ inflight' = [inflight EXCEPT ![k] = r]
          /\ job' = [job EXCEPT ![r] = "running"]
      BY <1>5 DEF MissAndCompute
    <2>3. job[r] = "none"  BY <2>1, ArrivesTyped DEF Owned
    <2> QED
      BY <2>1, <2>2, <2>3, ArrivesTyped
      DEF TypeOK, Owned, Awaits, InflightIsLive, Busy, JobStates
  <1>6. ASSUME NEW r \in Requests, Reuse(r)  PROVE SwrInv'
    <2>1. request' = Moved(r, "miss") /\ "miss" \in Places  BY <1>6 DEF Reuse, Places
    <2>2. UNCHANGED <<now, values, negatives, inflight, job, troubled>>  BY <1>6 DEF Reuse
    <2> QED
      BY <2>1, <2>2, MovedTyped DEF TypeOK, Owned, Awaits, InflightIsLive, Busy
  <1>7. ASSUME NEW r \in Requests, ComputeAfterAll(r)  PROVE SwrInv'
    <2> DEFINE k == request[r].key
    <2>1. request' = Moved(r, "computing") /\ "computing" \in Places
      BY <1>7 DEF ComputeAfterAll, Places
    <2>2. /\ UNCHANGED <<now, values, negatives, troubled>>
          /\ inflight' = [inflight EXCEPT ![k] = r]
          /\ job' = [job EXCEPT ![r] = "running"]
      BY <1>7 DEF ComputeAfterAll
    <2>3. k \in Keys  BY DEF TypeOK, RequestRecord
    <2>4. job[r] = "none"  BY <1>7 DEF ComputeAfterAll, Awoken, Owned
    <2> HIDE DEF k
    <2>5. request[r].key = k  BY DEF k
    <2> QED
      BY <2>1, <2>2, <2>3, <2>4, <2>5, MovedTyped
      DEF TypeOK, Owned, Awaits, InflightIsLive, Busy, JobStates
  <1>8. ASSUME NEW r \in Requests, RefreshRuns(r)  PROVE SwrInv'
    BY <1>8 DEF RefreshRuns, TypeOK, Owned, Awaits, InflightIsLive, Busy, JobStates
  <1>9. ASSUME NEW r \in Requests, Succeeds(r)  PROVE SwrInv'
    <2> DEFINE k == request[r].key
    <2>1. k \in Keys  BY DEF TypeOK, RequestRecord
    <2>2. Settles(r, "miss") /\ "miss" \in Places \ {"new", "waiting"} /\ job[r] = "running"
      BY <1>9 DEF Succeeds, Places
    <2>3. inflight' = [inflight EXCEPT ![k] = "none"] /\ now' = now /\ StoreValue(k)
      BY <1>9 DEF Succeeds, InflightDeleted
    <2>4. values' \in [Keys -> Nat] /\ negatives' \in [Keys -> Nat] /\ troubled' \subseteq Keys
      BY <2>1, <2>3, StoreTyped
    <2> HIDE DEF k
    <2>5. request[r].key = k  BY DEF k
    <2>6. TypeOK'
      BY <2>1, <2>2, <2>3, <2>4, SettlesTyped DEF TypeOK
    <2>7. Owned' /\ Awaits' /\ InflightIsLive'
      BY <2>1, <2>2, <2>3, <2>5, SettlesTyped
      DEF TypeOK, Owned, Awaits, InflightIsLive, Busy
    <2> QED  BY <2>6, <2>7
  <1>10. ASSUME NEW r \in Requests, Fails(r)  PROVE SwrInv'
    <2> DEFINE k == request[r].key
    <2>1. k \in Keys  BY DEF TypeOK, RequestRecord
    <2>2. Settles(r, "error") /\ "error" \in Places \ {"new", "waiting"} /\ job[r] = "running"
      BY <1>10 DEF Fails, Places
    <2>3. /\ inflight' = [inflight EXCEPT ![k] = "none"] /\ now' = now /\ values' = values
          /\ negatives' = [negatives EXCEPT ![k] = now]
          /\ troubled' = troubled \cup {k}
      BY <1>10 DEF Fails, InflightDeleted
    <2>4. now \in Nat  BY DEF TypeOK
    <2> HIDE DEF k
    <2>5. request[r].key = k  BY DEF k
    <2>6. TypeOK'
      BY <2>1, <2>2, <2>3, <2>4, SettlesTyped DEF TypeOK
    <2>7. Owned' /\ Awaits' /\ InflightIsLive'
      BY <2>1, <2>2, <2>3, <2>5, SettlesTyped
      DEF TypeOK, Owned, Awaits, InflightIsLive, Busy
    <2> QED  BY <2>6, <2>7
  <1>11. CASE Tick
    BY <1>11
    DEF SwrAssumption, Tick, TypeOK, Owned, Awaits, InflightIsLive, Busy
  <1>12. CASE UNCHANGED cacheVars
    BY <1>12 DEF cacheVars, TypeOK, Owned, Awaits, InflightIsLive, Busy
  <1> QED
    BY <1>1, <1>2, <1>3, <1>4, <1>5, <1>6, <1>7, <1>8, <1>9, <1>10, <1>11, <1>12
    DEF CacheNext, Receive, Proceed

\* Whatever is requested, fails and is evicted (getOrCompute): each inflight entry names a
\* request whose computation runs, and whoever waits, waits for his own key.
THEOREM SwrInvariant == ASSUME SwrAssumption PROVE CacheSpec => []SwrInv
  <1>1. CacheInit => SwrInv  BY SwrInitial
  <1>2. SwrInv /\ [CacheNext]_cacheVars => SwrInv'  BY SwrStep
  <1> QED  BY <1>1, <1>2, PTL DEF CacheSpec

(***************************************************************************)
(* The cache's variables keep their types whatever is requested and fails. *)
(***************************************************************************)
THEOREM SwrTypeOK == ASSUME SwrAssumption PROVE CacheSpec => []TypeOK
  <1>1. SwrInv => TypeOK  BY DEF SwrInv
  <1> QED  BY <1>1, SwrInvariant, PTL

(***************************************************************************)
(* An inflight entry always stands for a computation of its key that is    *)
(* still to end, so no key is ever blocked by what is over.                *)
(***************************************************************************)
THEOREM SwrInflightIsLive == ASSUME SwrAssumption PROVE CacheSpec => []InflightIsLive
  <1>1. SwrInv => InflightIsLive  BY DEF SwrInv
  <1> QED  BY <1>1, SwrInvariant, PTL

(***************************************************************************)
(* One flight per key.                                                     *)
(***************************************************************************)

\* For a key without troubles: a busy computation is the one its entry names,
\* and what a request waits for has stored a value when it has ended.
Flight ==
    /\ \A r \in Requests :
          Busy(r) /\ request[r].key \notin troubled => inflight[request[r].key] = r
    /\ \A r \in Requests :
          /\ request[r].place = "waiting" /\ job[request[r].awaits] = "settled"
          /\ request[r].key \notin troubled
          => HasValue(request[r].key)

\* What is stored stays, except for the keys that get into trouble.
LEMMA StoreKeeps ==
  ASSUME TypeOK, NEW k \in Keys, StoreValue(k)
  PROVE  /\ troubled \subseteq troubled'
         /\ \A e \in Keys \ troubled' : HasValue(e) \/ e = k => values'[e] # 0
  <1>1. \A e \in Keys : HasValue(e) \/ e = k => e \in EntriesOf(WithValue(k))
    BY DEF TypeOK, HasValue, EntriesOf, WithValue
  <1>2. troubled' = troubled \cup {e \in EntriesOf(WithValue(k)) : values'[e] = 0}
    BY DEF StoreValue
  <1> QED  BY <1>1, <1>2

LEMMA FlightStep ==
  ASSUME SwrAssumption, SwrInv, Flight, [CacheNext]_cacheVars
  PROVE  Flight'
  <1> USE DEF SwrInv
  <1>1. ASSUME NEW r \in Requests, NEW k \in Keys, Hit(r, k)  PROVE Flight'
    <2>1. Arrives(r, k, "hit") /\ "hit" \in Places  BY <1>1 DEF Hit, Places
    <2>2. UNCHANGED <<now, values, negatives, inflight, job, troubled>>  BY <1>1 DEF Hit
    <2> QED
      BY <2>1, <2>2, ArrivesTyped DEF Flight, Busy, HasValue, Owned
  <1>2. ASSUME NEW r \in Requests, NEW k \in Keys, ServeStale(r, k)  PROVE Flight'
    <2>1. PICK p \in {"stale", "stale-error"} : Arrives(r, k, p)
      BY <1>2 DEF ServeStale
    <2>2. p \in Places  BY <2>1 DEF Places
    <2>3. UNCHANGED <<now, values, negatives, troubled>>  BY <1>2 DEF ServeStale
    <2>4. job[r] = "none"  BY <2>1, <2>2, ArrivesTyped DEF Owned
    <2>5. CASE NothingInFlight(k)
      <3>1. /\ inflight' = [inflight EXCEPT ![k] = r]
            /\ job' = [job EXCEPT ![r] = "scheduled"]
        BY <1>2, <2>5 DEF ServeStale
      <3>2. \A s \in Requests : Busy(s) /\ request[s].key \notin troubled => request[s].key # k
        BY <2>5 DEF Flight, NothingInFlight, SwrAssumption
      <3> QED
        BY <2>1, <2>2, <2>3, <2>4, <3>1, <3>2, ArrivesTyped
        DEF TypeOK, Flight, Busy, HasValue, Awaits
    <2>6. CASE ~NothingInFlight(k)
      <3>1. UNCHANGED <<inflight, job>>  BY <1>2, <2>6 DEF ServeStale
      <3> QED
        BY <2>1, <2>2, <2>3, <2>4, <3>1, ArrivesTyped
        DEF TypeOK, Flight, Busy, HasValue
    <2> QED  BY <2>5, <2>6
  <1>3. ASSUME NEW r \in Requests, NEW k \in Keys, Refuse(r, k)  PROVE Flight'
    <2>1. Arrives(r, k, "error") /\ "error" \in Places  BY <1>3 DEF Refuse, Refusal, Places
    <2>2. UNCHANGED <<now, values, negatives, inflight, job, troubled>>  BY <1>3 DEF Refuse
    <2> QED
      BY <2>1, <2>2, ArrivesTyped DEF Flight, Busy, HasValue, Owned
  <1>4. ASSUME NEW r \in Requests, NEW k \in Keys, MissAndWait(r, k)  PROVE Flight'
    <2>1. Arrives(r, k, "waiting") /\ "waiting" \in Places  BY <1>4 DEF MissAndWait, Places
    <2>2. UNCHANGED <<now, values, negatives, inflight, job, troubled>>  BY <1>4 DEF MissAndWait
    <2>3. Busy(inflight[k]) /\ inflight[k] # "none" /\ inflight[k] \in Requests
      BY <1>4 DEF MissAndWait, NothingInFlight, InflightIsLive, TypeOK
    <2> QED
      BY <2>1, <2>2, <2>3, ArrivesTyped DEF TypeOK, Flight, Busy, HasValue, Owned
  <1>5. ASSUME NEW r \in Requests, NEW k \in Keys, MissAndCompute(r, k)  PROVE Flight'
    <2>1. Arrives(r, k, "computing") /\ "computing" \in Places
      BY <1>5 DEF MissAndCompute, Places
    <2>2. /\ UNCHANGED <<now, values, negatives, troubled>>
          /\ inflight' = [inflight EXCEPT ![k] = r]
          /\ job' = [job EXCEPT ![r] = "running"]
          /\ inflight[k] = "none"
      BY <1>5 DEF MissAndCompute, NothingInFlight
    <2>3. \A s \in Requests : Busy(s) /\ request[s].key \notin troubled => request[s].key # k
      BY <2>2 DEF Flight, SwrAssumption
    <2> QED
      BY <2>1, <2>2, <2>3, ArrivesTyped DEF TypeOK, Flight, Busy, HasValue, Awaits
  <1>6. ASSUME NEW r \in Requests, Reuse(r)  PROVE Flight'
    <2>1. request' = Moved(r, "miss") /\ "miss" \in Places  BY <1>6 DEF Reuse, Places
    <2>2. UNCHANGED <<now, values, negatives, inflight, job, troubled>>  BY <1>6 DEF Reuse
    <2> QED
      BY <2>1, <2>2, MovedTyped DEF Flight, Busy, HasValue
  <1>7. ASSUME NEW r \in Requests, ComputeAfterAll(r)  PROVE Flight'
    <2> DEFINE k == request[r].key
    <2>1. request' = Moved(r, "computing") /\ "computing" \in Places
      BY <1>7 DEF ComputeAfterAll, Places
    <2>2. /\ UNCHANGED <<now, values, negatives, troubled>>
          /\ inflight' = [inflight EXCEPT ![k] = r]
          /\ job' = [job EXCEPT ![r] = "running"]
      BY <1>7 DEF ComputeAfterAll
    \* A request that has waited finds a value, unless the key is in trouble.
    <2>3. k \in troubled  BY <1>7 DEF ComputeAfterAll, Awoken, Flight
    <2>4. k \in Keys  BY DEF TypeOK, RequestRecord
    <2> HIDE DEF k
    <2>5. request[r].key = k  BY DEF k
    <2>6. job[r] = "none"  BY <1>7 DEF ComputeAfterAll, Awoken, Owned
    <2> QED
      BY <2>1, <2>2, <2>3, <2>4, <2>5, <2>6, MovedTyped
      DEF TypeOK, Flight, Busy, HasValue, Awaits
  <1>8. ASSUME NEW r \in Requests, RefreshRuns(r)  PROVE Flight'
    BY <1>8 DEF RefreshRuns, TypeOK, Flight, Busy, HasValue, Awaits
  <1>9. ASSUME NEW r \in Requests, Succeeds(r)  PROVE Flight'
    <2> DEFINE k == request[r].key
    <2>1. k \in Keys  BY DEF TypeOK, RequestRecord
    <2>2. Settles(r, "miss") /\ "miss" \in Places \ {"new", "waiting"} /\ job[r] = "running"
      BY <1>9 DEF Succeeds, Places
    <2>3. inflight' = [inflight EXCEPT ![k] = "none"] /\ StoreValue(k)
      BY <1>9 DEF Succeeds, InflightDeleted
    <2>4. /\ troubled \subseteq troubled'
          /\ \A e \in Keys \ troubled' : HasValue(e) \/ e = k => values'[e] # 0
      BY <2>1, <2>3, StoreKeeps
    <2> HIDE DEF k
    <2>5. request[r].key = k  BY DEF k
    <2>6. \A s \in Requests \ {r} : Busy(s) /\ request[s].key \notin troubled => request[s].key # k
      BY <2>2, <2>5 DEF Flight, Busy
    <2> QED
      BY <2>1, <2>2, <2>3, <2>4, <2>5, <2>6, SettlesTyped
      DEF TypeOK, RequestRecord, Flight, Busy, HasValue, Awaits
  <1>10. ASSUME NEW r \in Requests, Fails(r)  PROVE Flight'
    <2> DEFINE k == request[r].key
    <2>1. k \in Keys  BY DEF TypeOK, RequestRecord
    <2>2. Settles(r, "error") /\ "error" \in Places \ {"new", "waiting"} /\ job[r] = "running"
      BY <1>10 DEF Fails, Places
    <2>3. /\ inflight' = [inflight EXCEPT ![k] = "none"] /\ values' = values
          /\ troubled' = troubled \cup {k}
      BY <1>10 DEF Fails, InflightDeleted
    <2> HIDE DEF k
    <2>4. request[r].key = k  BY DEF k
    <2> QED
      BY <2>1, <2>2, <2>3, <2>4, SettlesTyped
      DEF TypeOK, RequestRecord, Flight, Busy, HasValue, Awaits
  <1>11. CASE Tick
    BY <1>11 DEF Tick, Flight, Busy, HasValue
  <1>12. CASE UNCHANGED cacheVars
    BY <1>12 DEF cacheVars, Flight, Busy, HasValue
  <1> QED
    BY <1>1, <1>2, <1>3, <1>4, <1>5, <1>6, <1>7, <1>8, <1>9, <1>10, <1>11, <1>12
    DEF CacheNext, Receive, Proceed

(***************************************************************************)
(* A key is never computed twice at once before one of its computations    *)
(* fails or one of its values is evicted: the single flight getOrCompute   *)
(* is there for.                                                           *)
(***************************************************************************)
THEOREM SwrSingleFlight ==
  ASSUME SwrAssumption  PROVE CacheSpec => []SingleFlight
  <1>1. CacheInit => Flight  BY DEF CacheInit, Flight, Busy
  <1>2. SwrInv /\ Flight /\ [CacheNext]_cacheVars => Flight'  BY FlightStep
  <1>3. Flight => SingleFlight  BY DEF Flight, SingleFlight
  <1> QED  BY <1>1, <1>2, <1>3, SwrInvariant, PTL DEF CacheSpec

(***************************************************************************)
(* The leaderboard's cache.                                                *)
(***************************************************************************)

LEMMA LeastOfTwo ==
    ASSUME NEW a \in Nat, NEW b \in Nat
    PROVE  Min({a, b}) = IF a <= b THEN a ELSE b
<1>1. a \in {a, b} /\ b \in {a, b} /\ \A x \in {a, b} : x = a \/ x = b
  OBVIOUS
<1>2. Min({a, b}) = CHOOSE x \in {a, b} : \A y \in {a, b} : x <= y
  BY DEF Min
<1>3. CASE a <= b
  BY <1>2, <1>3
<1>4. CASE ~ (a <= b)
  BY <1>2, <1>4
<1> QED
  BY <1>3, <1>4

LEMMA FirstRowsAre ==
    ASSUME NEW n \in Nat, NEW list, DOMAIN list = 1 .. n, list \in Seq(Range(list)),
           NEW limit \in Nat
    PROVE  FirstRows(list, limit) = [i \in 1 .. Min({limit, n}) |-> list[i]]
<1>1. Len(list) = n
  OBVIOUS
<1>2. PICK k \in Nat : k = Min({limit, n}) /\ k <= n
  BY LeastOfTwo
<1>3. SubSeq(list, 1, k) = [i \in 1 .. k |-> list[i]]
  BY <1>1, <1>2
<1> QED
  BY <1>1, <1>2, <1>3 DEF FirstRows

\* The values of a function on a finite set.
LEMMA ImageIsFinite ==
    ASSUME NEW X, IsFiniteSet(X), NEW g, DOMAIN g = X
    PROVE  IsFiniteSet({g[x] : x \in X})
<1> DEFINE R == {g[x] : x \in X}
           h == [x \in X |-> g[x]]
<1>1. h \in [X -> R]
  OBVIOUS
<1>2. \A r \in R : \E x \in X : h[x] = r
  OBVIOUS
<1>3. h \in Surjection(X, R)
  <2> HIDE DEF R, h
  <2> QED
    BY <1>1, <1>2 DEF Surjection
<1> HIDE DEF R, h
<1>4. IsFiniteSet(R)
  BY <1>3, FS_Surjection
<1> QED
  BY <1>4 DEF R

\* The group of p.
GroupOf(T, c, ks, f, p) ==
    [player      |-> p,
     completions |-> Cardinality(Counted(T, c, p, ks, f)),
     last        |-> LastClear(T, Counted(T, c, p, ks, f))]

LEMMA GroupedIsFinite ==
    ASSUME NEW T, NEW c, NEW ks, NEW f
    PROVE  IsFiniteSet(Grouped(T, c, ks, f)) /\ Cardinality(Grouped(T, c, ks, f)) \in Nat
<1> DEFINE X == {q \in People : Counted(T, c, q, ks, f) # {}}
           g == [p \in X |-> GroupOf(T, c, ks, f, p)]
<1>1. X \subseteq People
  OBVIOUS
<1>2. Grouped(T, c, ks, f) = {g[p] : p \in X}
  BY DEF Grouped, GroupOf
<1>3. DOMAIN g = X
  OBVIOUS
<1> HIDE DEF X, g
<1>4. IsFiniteSet(X)
  BY <1>1, ReadsAssumption, FS_Subset
<1> QED
  BY <1>2, <1>3, <1>4, ImageIsFinite, FS_CardinalityType

\* What is cut from the rows under a key is what a query with the smaller limit gives.
LEMMA CutRows ==
    ASSUME NEW T, NEW c, NEW ks, NEW f, NEW limit \in 1 .. CachedLimit
    PROVE  FirstRows(LeaderboardRows(T, c, ks, CachedLimit, f), limit)
             = LeaderboardRows(T, c, ks, limit, f)
<1>1. CachedLimit \in Nat /\ limit \in Nat /\ limit <= CachedLimit
  BY ReadsAssumption
<1>2. PICK size \in Nat : size = Cardinality(Grouped(T, c, ks, f))
  BY GroupedIsFinite
<1>3. PICK n \in Nat : n = Min({CachedLimit, size}) /\ n = IF CachedLimit <= size THEN CachedLimit ELSE size
  BY <1>1, LeastOfTwo
<1>4. PICK k \in Nat : k = Min({limit, size}) /\ k = IF limit <= size THEN limit ELSE size
  BY <1>1, LeastOfTwo
<1>5. Min({limit, n}) = k
  <2>1. Min({limit, n}) = IF limit <= n THEN limit ELSE n
    BY <1>1, LeastOfTwo
  <2> QED
    BY <1>1, <1>3, <1>4, <2>1
<1> DEFINE row(i) == RowAt(Grouped(T, c, ks, f), i)
           list == [i \in 1 .. n |-> row(i)]
<1>6. LeaderboardRows(T, c, ks, CachedLimit, f) = list
  BY <1>2, <1>3 DEF LeaderboardRows
<1>7. LeaderboardRows(T, c, ks, limit, f) = [i \in 1 .. k |-> row(i)]
  BY <1>2, <1>4 DEF LeaderboardRows
<1> HIDE DEF row
<1>8. DOMAIN list = 1 .. n /\ list \in Seq(Range(list))
  <2>1. \A i \in 1 .. n : list[i] \in Range(list)
    BY DEF Range
  <2> QED
    BY <2>1
<1>9. FirstRows(list, limit) = [i \in 1 .. k |-> list[i]]
  <2> HIDE DEF list
  <2> QED
    BY <1>1, <1>5, <1>8, FirstRowsAre
<1>10. \A i \in 1 .. k : i \in 1 .. n
  BY <1>1, <1>3, <1>4
<1> QED
  BY <1>6, <1>7, <1>9, <1>10

LEMMA FiltersAreKeyed ==
    ASSUME NEW f \in Filters, NEW g \in Filters, KeySuffix(f) = KeySuffix(g)
    PROVE  f = g
<1>1. f.difficulty = g.difficulty /\ f.exact = g.exact /\ f.max = g.max
  BY DEF KeySuffix
<1> QED
  BY <1>1 DEF Filters

\* Requests under one key ask for the same rows, but one may ask for them as a board.
LEMMA KeysTell ==
    ASSUME NEW q \in BoardRequests, NEW r \in BoardRequests, CacheKey(q) = CacheKey(r)
    PROVE  /\ q.filters = r.filters
           /\ IsAll(q) <=> IsAll(r)
           /\ IsAll(q) => q.mode = r.mode
           /\ ~IsAll(q) => q.keys = r.keys
<1>1. /\ q.mode \in {"aggregate", "individual"} /\ r.mode \in {"aggregate", "individual"}
      /\ q.filters \in Filters /\ r.filters \in Filters
  BY DEF BoardRequests
<1>2. KeySuffix(q.filters) = KeySuffix(r.filters)
  BY DEF CacheKey
<1>3. q.filters = r.filters
  BY <1>1, <1>2, FiltersAreKeyed
<1>4. IsAll(q) <=> IsAll(r)
  BY <1>1 DEF CacheKey
<1>5. IsAll(q) => q.mode = r.mode
  BY <1>4 DEF CacheKey
<1>6. ~IsAll(q) => q.keys = r.keys
  BY <1>4 DEF CacheKey
<1> QED
  BY <1>3, <1>4, <1>5, <1>6

LEMMA BodyIsOwn ==
    ASSUME NEW T, NEW c, NEW x \in SharingAKey, NEW limit \in 1 .. CachedLimit
    PROVE  Body(x[2], limit, Computed(T, c, x[1])) = Uncached(T, c, x[2], limit)
<1>1. PICK q \in BoardRequests, r \in BoardRequests : x = <<q, r>> /\ CacheKey(q) = CacheKey(r) /\ ~IsBypass(r)
  BY DEF SharingAKey
<1>2. /\ q.filters = r.filters /\ (IsAll(q) <=> IsAll(r))
      /\ IsAll(q) => q.mode = r.mode
      /\ ~IsAll(q) => q.keys = r.keys
  BY <1>1, KeysTell
<1>3. r.mode \in {"aggregate", "individual"}
  BY DEF BoardRequests
<1> DEFINE f == r.filters
           list(ks, n) == LeaderboardRows(T, c, ks, n, f)
<1>4. CASE IsAll(r) /\ r.mode = "individual"
  <2>1. Computed(T, c, q) = [k \in RaidKeys |-> list({k}, CachedLimit)]
    BY <1>2, <1>4 DEF Computed, Boards
  <2>2. Body(r, limit, Computed(T, c, q)) = [k \in RaidKeys |-> FirstRows(list({k}, CachedLimit), limit)]
    BY <1>4, <2>1 DEF Body
  <2>3. Uncached(T, c, r, limit) = [k \in RaidKeys |-> list({k}, limit)]
    BY <1>4 DEF Uncached, Boards
  <2>4. \A k \in RaidKeys : FirstRows(list({k}, CachedLimit), limit) = list({k}, limit)
    BY CutRows
  <2> HIDE DEF list
  <2> QED
    BY <1>1, <2>2, <2>3, <2>4
<1>5. CASE r.mode = "aggregate"
  <2> DEFINE ks == IF IsAll(r) THEN {} ELSE r.keys
  <2>1. Computed(T, c, q) = list(ks, CachedLimit)
    BY <1>2, <1>5 DEF Computed
  <2>2. Body(r, limit, Computed(T, c, q)) = FirstRows(list(ks, CachedLimit), limit)
    BY <1>5, <2>1 DEF Body
  <2>3. Uncached(T, c, r, limit) = list(ks, limit)
    BY <1>5 DEF Uncached
  <2> HIDE DEF ks
  <2> QED
    BY <1>1, <2>2, <2>3, CutRows
<1>6. CASE ~IsAll(r) /\ r.mode = "individual"
  <2>1. Cardinality(r.keys) = 1 /\ IsFiniteSet(r.keys)
    <3>1. r.keys \subseteq RaidKeys
      BY DEF BoardRequests
    <3> QED
      BY <1>1, <1>6, <3>1, ReadsAssumption, FS_Subset DEF IsBypass
  <2>2. PICK k : r.keys = {k}
    BY <2>1, FS_Singleton
  <2>3. Computed(T, c, q) = list({k}, CachedLimit)
    BY <1>2, <1>6, <2>2 DEF Computed
  <2>4. Body(r, limit, Computed(T, c, q)) = [j \in {k} |-> FirstRows(list({k}, CachedLimit), limit)]
    BY <1>6, <2>2, <2>3 DEF Body
  <2>5. Uncached(T, c, r, limit) = [j \in {k} |-> list({j}, limit)]
    BY <1>6, <2>2 DEF Uncached, Boards
  <2>6. FirstRows(list({k}, CachedLimit), limit) = list({k}, limit)
    BY CutRows
  <2> HIDE DEF list
  <2> QED
    BY <1>1, <2>4, <2>5, <2>6
<1> QED
  BY <1>3, <1>4, <1>5, <1>6

\* getLeaderboardResponse: for any tables, keys of the manifest, people and limits, a
\* request that finds what another one computed gets the body it would have computed.
THEOREM TablesCacheIsTransparent == TableSpec => []CacheIsTransparent
<1>1. CacheIsTransparent
  BY BodyIsOwn DEF CacheIsTransparent, CacheOfIsTransparent
<1> QED
  BY <1>1, PTL

(***************************************************************************)
(* The percentiles.                                                        *)
(***************************************************************************)

\* A run of a query, as far as its KDA goes.
IsRun(x) == x.row.kills \in Nat /\ x.row.deaths \in Nat /\ x.row.assists \in Nat

LEMMA AtLeastOneIs ==
    ASSUME NEW n \in Nat
    PROVE  AtLeastOne(n) \in Nat \ {0} /\ AtLeastOne(n) = IF n >= 1 THEN n ELSE 1
<1>1. n \in {n, 1} /\ 1 \in {n, 1} /\ \A x \in {n, 1} : x = n \/ x = 1
  OBVIOUS
<1>2. AtLeastOne(n) = CHOOSE x \in {n, 1} : \A y \in {n, 1} : x >= y
  BY DEF AtLeastOne, Max
<1>3. CASE n >= 1
  BY <1>2, <1>3
<1>4. CASE ~ (n >= 1)
  BY <1>2, <1>4
<1> QED
  BY <1>3, <1>4

\* Quotients compared crosswise are in order.
LEMMA CrossProducts ==
    ASSUME NEW a \in Nat, NEW c \in Nat, NEW e \in Nat,
           NEW b \in Nat \ {0}, NEW d \in Nat \ {0}, NEW f \in Nat \ {0},
           c * b <= a * d, e * d <= c * f
    PROVE  e * b <= a * f
<1>1. (c * b) * f <= (a * d) * f
  OBVIOUS
<1>2. (e * d) * b <= (c * f) * b
  OBVIOUS
<1>3. (c * b) * f = (c * f) * b
  OBVIOUS
<1>4. (e * d) * b <= (a * d) * f
  BY <1>1, <1>2, <1>3
<1>5. (e * d) * b = d * (e * b) /\ (a * d) * f = d * (a * f)
  OBVIOUS
<1>6. PICK x \in Nat : x = e * b
  OBVIOUS
<1>7. PICK y \in Nat : y = a * f
  OBVIOUS
<1>8. d * x <= d * y
  BY <1>4, <1>5, <1>6, <1>7
<1>9. x <= y
  BY <1>8
<1> QED
  BY <1>6, <1>7, <1>9

LEMMA WorseIsOrder ==
    ASSUME NEW x, IsRun(x), NEW y, IsRun(y), NEW z, IsRun(z)
    PROVE  /\ ~ Worse(x, x)
           /\ Worse(x, y) => ~ Worse(y, x)
           /\ ~ Worse(x, y) /\ ~ Worse(y, z) => ~ Worse(x, z)
<1>1. PICK a \in Nat : a = x.row.kills + x.row.assists
  BY DEF IsRun
<1>2. PICK c \in Nat : c = y.row.kills + y.row.assists
  BY DEF IsRun
<1>3. PICK e \in Nat : e = z.row.kills + z.row.assists
  BY DEF IsRun
<1>4. PICK b \in Nat \ {0} : b = AtLeastOne(x.row.deaths)
  BY AtLeastOneIs DEF IsRun
<1>5. PICK d \in Nat \ {0} : d = AtLeastOne(y.row.deaths)
  BY AtLeastOneIs DEF IsRun
<1>6. PICK f \in Nat \ {0} : f = AtLeastOne(z.row.deaths)
  BY AtLeastOneIs DEF IsRun
<1>7. /\ Worse(x, x) <=> a * b < a * b
      /\ Worse(x, y) <=> a * d < c * b
      /\ Worse(y, x) <=> c * b < a * d
      /\ Worse(y, z) <=> c * f < e * d
      /\ Worse(x, z) <=> a * f < e * b
  BY <1>1, <1>2, <1>3, <1>4, <1>5, <1>6 DEF Worse
<1>8. /\ a * b \in Nat /\ a * d \in Nat /\ c * b \in Nat /\ c * f \in Nat /\ e * d \in Nat
      /\ a * f \in Nat /\ e * b \in Nat
  OBVIOUS
<1>9. ~ Worse(x, x)
  BY <1>7, <1>8
<1>10. Worse(x, y) => ~ Worse(y, x)
  BY <1>7, <1>8
<1>11. ASSUME ~ Worse(x, y), ~ Worse(y, z) PROVE ~ Worse(x, z)
  <2>1. c * b <= a * d /\ e * d <= c * f
    BY <1>7, <1>8, <1>11
  <2>2. e * b <= a * f
    BY <2>1, CrossProducts
  <2> QED
    BY <1>7, <1>8, <2>2
<1> QED
  BY <1>9, <1>10, <1>11

\* A member of F that no other member is part of.
HasSmallest(F) == \E U \in F : \A V \in F : V \subseteq U => V = U

LEMMA SmallestSubset ==
    ASSUME NEW S, IsFiniteSet(S), NEW F, F \subseteq SUBSET S, F # {}
    PROVE  HasSmallest(F)
<1>1. IsWellFoundedOn(StrictSubsetOrdering(S), SUBSET S)
  BY FS_StrictSubsetOrderingWellFounded, FS_FiniteSubsetsOfFinite
<1>2. \E U \in F : \A V \in F : ~ (<<V, U>> \in StrictSubsetOrdering(S))
  BY <1>1, WFMin
<1> QED
  BY <1>2 DEF StrictSubsetOrdering, HasSmallest

Better(S, x) == {y \in S : Worse(x, y)}
NotBetter(S, x) == {y \in S : ~Worse(x, y)}
AllWorse(S, x) == {y \in S : Worse(y, x)}

LEMMA BestRun ==
    ASSUME NEW S, IsFiniteSet(S), S # {}, \A x \in S : IsRun(x)
    PROVE  \E x \in S : \A y \in S : ~ Worse(x, y)
<1> DEFINE F == {Better(S, x) : x \in S}
<1>1. F \subseteq SUBSET S /\ F # {}
  BY DEF Better
<1>2. HasSmallest(F)
  <2> HIDE DEF F
  <2> QED
    BY <1>1, SmallestSubset
<1>3. PICK x \in S : \A y \in S : Better(S, y) \subseteq Better(S, x) => Better(S, y) = Better(S, x)
  BY <1>2 DEF HasSmallest
<1>4. ASSUME NEW y \in S, Worse(x, y) PROVE FALSE
  <2>1. y \in Better(S, x) /\ y \notin Better(S, y)
    BY <1>4, WorseIsOrder DEF Better
  <2>2. Better(S, y) \subseteq Better(S, x)
    <3> SUFFICES ASSUME NEW z \in S, Worse(y, z), ~ Worse(x, z) PROVE FALSE
      BY DEF Better
    <3>1. ~ Worse(z, y)
      BY WorseIsOrder
    <3>2. ~ Worse(x, y)
      BY <3>1, WorseIsOrder
    <3> QED
      BY <1>4, <3>2
  <2> QED
    BY <1>3, <2>1, <2>2
<1> QED
  BY <1>4

\* What ROW_NUMBER asks of the run in row n.
IsInRow(S, n, x) ==
    /\ Cardinality(AllWorse(S, x)) < n
    /\ Cardinality(NotBetter(S, x)) >= n

LEMMA RowExists ==
    ASSUME NEW S, IsFiniteSet(S), \A x \in S : IsRun(x), NEW n \in 1 .. Cardinality(S)
    PROVE  \E x \in S : IsInRow(S, n, x)
<1> DEFINE G == {x \in S : Cardinality(NotBetter(S, x)) >= n}
           F == {NotBetter(S, x) : x \in G}
<1>1. \A x \in S : /\ NotBetter(S, x) \subseteq S /\ IsFiniteSet(NotBetter(S, x))
                   /\ Cardinality(NotBetter(S, x)) \in Nat
                   /\ AllWorse(S, x) \subseteq S /\ IsFiniteSet(AllWorse(S, x))
                   /\ Cardinality(AllWorse(S, x)) \in Nat
  <2> SUFFICES ASSUME NEW x \in S
               PROVE  /\ NotBetter(S, x) \subseteq S /\ IsFiniteSet(NotBetter(S, x))
                      /\ Cardinality(NotBetter(S, x)) \in Nat
                      /\ AllWorse(S, x) \subseteq S /\ IsFiniteSet(AllWorse(S, x))
                      /\ Cardinality(AllWorse(S, x)) \in Nat
    OBVIOUS
  <2>1. NotBetter(S, x) \subseteq S /\ AllWorse(S, x) \subseteq S
    BY DEF NotBetter, AllWorse
  <2> QED
    BY <2>1, FS_Subset, FS_CardinalityType
<1>2. Cardinality(S) \in Nat /\ n \in Nat \ {0} /\ n <= Cardinality(S)
  BY FS_CardinalityType
<1>3. S # {}
  BY <1>2, FS_EmptySet
<1>4. F \subseteq SUBSET S /\ F # {}
  <2>1. PICK x \in S : \A y \in S : ~ Worse(x, y)
    BY <1>3, BestRun
  <2>2. NotBetter(S, x) = S
    BY <2>1 DEF NotBetter
  <2>3. x \in G
    BY <1>2, <2>2
  <2>4. \A y \in G : NotBetter(S, y) \subseteq S
    BY <1>1
  <2> HIDE DEF G
  <2> QED
    BY <2>3, <2>4
<1>5. HasSmallest(F)
  <2> HIDE DEF F
  <2> QED
    BY <1>4, SmallestSubset
<1>6. PICK x \in G : \A y \in G : NotBetter(S, y) \subseteq NotBetter(S, x)
                                    => NotBetter(S, y) = NotBetter(S, x)
  <2>1. PICK U \in F : \A V \in F : V \subseteq U => V = U
    BY <1>5 DEF HasSmallest
  <2>2. PICK x \in G : U = NotBetter(S, x)
    BY <2>1
  <2>3. \A y \in G : NotBetter(S, y) \in F
    OBVIOUS
  <2> HIDE DEF F, G
  <2> QED
    BY <2>1, <2>2, <2>3
<1>7. x \in S /\ Cardinality(NotBetter(S, x)) >= n
  BY <1>6
<1>8. ASSUME ~ (Cardinality(AllWorse(S, x)) < n) PROVE FALSE
  <2>1. AllWorse(S, x) # {} /\ Cardinality(AllWorse(S, x)) >= n
    BY <1>1, <1>2, <1>7, <1>8, FS_EmptySet
  <2>2. \A y \in AllWorse(S, x) : y \in S /\ Worse(y, x) /\ IsRun(y)
    BY DEF AllWorse
  <2>3. PICK y \in AllWorse(S, x) : \A z \in AllWorse(S, x) : ~ Worse(y, z)
    BY <1>1, <1>7, <2>1, <2>2, BestRun
  <2>4. y \in S /\ Worse(y, x) /\ IsRun(y) /\ IsRun(x)
    BY <1>7, <2>2
  <2>5. \A z \in S : ~ Worse(y, z) => Worse(z, x)
    <3> SUFFICES ASSUME NEW z \in S, ~ Worse(y, z), ~ Worse(z, x) PROVE FALSE
      OBVIOUS
    <3>1. ~ Worse(y, x)
      BY <2>4, WorseIsOrder
    <3> QED
      BY <2>4, <3>1
  <2>6. NotBetter(S, y) = AllWorse(S, x)
    BY <2>3, <2>5 DEF NotBetter, AllWorse
  <2>7. y \in G
    BY <2>1, <2>4, <2>6
  <2>8. AllWorse(S, x) \subseteq NotBetter(S, x)
    <3> SUFFICES ASSUME NEW z \in S, Worse(z, x) PROVE ~ Worse(x, z)
      BY DEF AllWorse, NotBetter
    <3> QED
      BY <2>4, WorseIsOrder
  <2>9. x \in NotBetter(S, x) /\ x \notin AllWorse(S, x)
    BY <1>7, <2>4, WorseIsOrder DEF AllWorse, NotBetter
  <2> HIDE DEF G
  <2> QED
    BY <1>6, <2>6, <2>7, <2>8, <2>9
<1> QED
  BY <1>7, <1>8 DEF IsInRow

LEMMA InRowIsInRow ==
    ASSUME NEW S, IsFiniteSet(S), \A x \in S : IsRun(x), NEW n \in 1 .. Cardinality(S)
    PROVE  IsInRow(S, n, InRow(S, n))
<1>1. InRow(S, n) = CHOOSE x \in S : IsInRow(S, n, x)
  BY DEF InRow, IsInRow, AllWorse, NotBetter
<1> QED
  BY <1>1, RowExists

\* The nearest rank is a row, and the first that has that share at or below it.
LEMMA NearestRankIs ==
    ASSUME NEW size \in Nat \ {0}, NEW percent \in {25, 50, 75}
    PROVE  /\ NearestRank(size, percent) \in 1 .. size
           /\ 100 * NearestRank(size, percent) >= percent * size
           /\ 100 * (NearestRank(size, percent) - 1) < percent * size
<1>1. PICK m \in Nat : m = (size * percent + 99) \div 100
  OBVIOUS
<1>2. m \in 1 .. size /\ 100 * m >= percent * size /\ 100 * (m - 1) < percent * size
  BY <1>1
<1>3. NearestRank(size, percent) = m
  BY <1>1, <1>2, AtLeastOneIs DEF NearestRank
<1> QED
  BY <1>2, <1>3

\* What the queries need of a stored raid: the players are known, each has a row, and
\* a raid that somebody completed has a player.
IsRow(x) ==
    /\ x.key \in RaidKeys \cup {"none"} /\ x.ended \in Nat /\ x.tier \in Int
    /\ DOMAIN x.entries \subseteq People
    /\ \A p \in DOMAIN x.entries : x.entries[p] \in RunRecord
    /\ x.completed => DOMAIN x.entries # {}

IsTable(T) == IsFiniteSet(DOMAIN T) /\ \A i \in DOMAIN T : IsRow(T[i])

\* What insertFullPGCR leaves of a report.
LEMMA StoredIsRow ==
    ASSUME NEW x, IsReport(x)
    PROVE  IsRow(StoredRow(x))
<1> DEFINE kept == FirstEntries(x.entries)
           names == {x.entries[i].who : i \in kept}
           chosen(p) == CHOOSE i \in kept : x.entries[i].who = p
           row == StoredRow(x)
<1>1. /\ DOMAIN x.entries = 1 .. Len(x.entries) /\ Len(x.entries) \in Nat
      /\ \A i \in DOMAIN x.entries : x.entries[i] \in RunRecord
  BY DEF IsReport
<1>2. kept \subseteq DOMAIN x.entries
  BY DEF FirstEntries
<1>3. /\ row.key = x.key /\ row.ended = x.ended /\ row.tier = x.tier
      /\ row.completed = \E i \in DOMAIN x.entries : x.entries[i].done
      /\ row.entries = [p \in names |-> x.entries[chosen(p)]]
  BY DEF StoredRow
<1>4. names \subseteq People
  BY <1>1, <1>2 DEF RunRecord
<1>5. \A p \in names : chosen(p) \in kept
  OBVIOUS
<1>6. \A p \in names : x.entries[chosen(p)] \in RunRecord
  <2> HIDE DEF kept, names, chosen
  <2> QED
    BY <1>1, <1>2, <1>5
<1>7. ASSUME NEW i \in DOMAIN x.entries PROVE names # {}
  <2>1. 1 \in kept
    BY <1>1 DEF FirstEntries
  <2> HIDE DEF kept
  <2> QED
    BY <2>1
<1> HIDE DEF names, chosen, row, kept
<1>8. DOMAIN row.entries = names /\ \A p \in names : row.entries[p] = x.entries[chosen(p)]
  BY <1>3
<1>9. row.completed => DOMAIN row.entries # {}
  BY <1>3, <1>7, <1>8
<1> QED
  BY <1>3, <1>4, <1>6, <1>8, <1>9 DEF IsRow, IsReport, row

LEMMA RunsAreRuns ==
    ASSUME NEW T, IsTable(T), NEW c, NEW k, NEW f, NEW s
    PROVE  IsFiniteSet(RunsOf(T, c, k, f, s)) /\ \A x \in RunsOf(T, c, k, f, s) : IsRun(x)
<1> DEFINE Y == {y \in KeyedIn(T, c) \X People :
                   /\ y[2] \in Party(T, y[1]) /\ T[y[1]].key = k
                   /\ Passes(T, y[1], f) /\ InScope(T, y[1], s)}
           run(x) == [raid |-> x[1], player |-> x[2], row |-> T[x[1]].entries[x[2]]]
<1>1. RunsOf(T, c, k, f, s) = {run(x) : x \in Y}
  BY DEF RunsOf
<1>2. IsFiniteSet(Y)
  <2>1. KeyedIn(T, c) \subseteq DOMAIN T
    BY DEF KeyedIn, InWindow
  <2>2. IsFiniteSet(KeyedIn(T, c)) /\ IsFiniteSet(People)
    BY <2>1, FS_Subset, ReadsAssumption DEF IsTable
  <2>3. IsFiniteSet(KeyedIn(T, c) \X People)
    BY <2>2, FS_Product
  <2>4. Y \subseteq KeyedIn(T, c) \X People
    OBVIOUS
  <2> HIDE DEF Y
  <2> QED
    BY <2>3, <2>4, FS_Subset
<1>3. \A x \in Y : IsRun(run(x))
  <2> SUFFICES ASSUME NEW x \in Y PROVE IsRun(run(x))
    OBVIOUS
  <2>1. x[1] \in DOMAIN T /\ x[2] \in DOMAIN T[x[1]].entries
    BY DEF KeyedIn, InWindow, Party
  <2>2. T[x[1]].entries[x[2]] \in RunRecord
    BY <2>1 DEF IsTable, IsRow
  <2>3. run(x).row = T[x[1]].entries[x[2]]
    OBVIOUS
  <2> HIDE DEF run
  <2> QED
    BY <2>2, <2>3 DEF RunRecord, IsRun
<1> HIDE DEF Y, run
<1>4. IsFiniteSet({run(x) : x \in Y})
  <2> DEFINE g == [x \in Y |-> run(x)]
  <2>1. DOMAIN g = Y /\ {g[x] : x \in Y} = {run(x) : x \in Y}
    OBVIOUS
  <2> HIDE DEF g
  <2> QED
    BY <1>2, <2>1, ImageIsFinite
<1> QED
  BY <1>1, <1>3, <1>4

LEMMA PercentilesOfTable ==
    ASSUME NEW T, IsTable(T), NEW c
    PROVE  PercentilesOfAreNearestRank(T, c)
<1> SUFFICES ASSUME NEW k \in RaidKeys, NEW s \in Scopes,
                    NEW i \in DOMAIN ScopeStats(RunsOf(T, c, k, NoFilter, s)).kda
             PROVE  LET S == RunsOf(T, c, k, NoFilter, s)
                        kda == ScopeStats(S).kda
                        percents == <<25, 50, 75>>
                    IN  /\ 100 * Cardinality({x \in S : ~Worse(kda[i], x)}) >= percents[i] * Cardinality(S)
                        /\ 100 * Cardinality({x \in S : Worse(x, kda[i])}) < percents[i] * Cardinality(S)
  BY DEF PercentilesOfAreNearestRank
<1> DEFINE S == RunsOf(T, c, k, NoFilter, s)
           percents == <<25, 50, 75>>
<1>1. IsFiniteSet(S) /\ \A x \in S : IsRun(x)
  BY RunsAreRuns
<1>2. ScopeStats(S).kda = IF S = {} THEN <<>>
                          ELSE <<Percentile(S, 25), Percentile(S, 50), Percentile(S, 75)>>
  BY DEF ScopeStats
<1> HIDE DEF S
<1>3. S # {}
  BY <1>2 DEF S
<1>4. i \in 1 .. 3 /\ percents[i] \in {25, 50, 75} /\ ScopeStats(S).kda[i] = Percentile(S, percents[i])
  BY <1>2, <1>3 DEF S
<1>5. PICK size \in Nat \ {0} : size = Cardinality(S)
  BY <1>1, <1>3, FS_CardinalityType, FS_EmptySet
<1>6. PICK percent \in {25, 50, 75} : percent = percents[i]
  BY <1>4
<1>7. PICK n \in 1 .. size : /\ n = NearestRank(size, percent)
                             /\ 100 * n >= percent * size /\ 100 * (n - 1) < percent * size
  BY NearestRankIs
<1>8. PICK x : x = ScopeStats(S).kda[i] /\ IsInRow(S, n, x)
  BY <1>1, <1>4, <1>5, <1>6, <1>7, InRowIsInRow DEF Percentile
<1>9. Cardinality(AllWorse(S, x)) \in Nat /\ Cardinality(NotBetter(S, x)) \in Nat
  <2>1. AllWorse(S, x) \subseteq S /\ NotBetter(S, x) \subseteq S
    BY DEF AllWorse, NotBetter
  <2> QED
    BY <1>1, <2>1, FS_Subset, FS_CardinalityType
<1>10. /\ 100 * Cardinality(NotBetter(S, x)) >= percent * size
       /\ 100 * Cardinality(AllWorse(S, x)) < percent * size
  <2>1. Cardinality(AllWorse(S, x)) <= n - 1 /\ Cardinality(NotBetter(S, x)) >= n
    BY <1>7, <1>8, <1>9 DEF IsInRow
  <2>2. PICK p \in Nat : p = percent * size
    OBVIOUS
  <2> QED
    BY <1>7, <1>9, <2>1, <2>2
<1> QED
  BY <1>5, <1>6, <1>8, <1>10 DEF S, AllWorse, NotBetter

LEMMA TableIsTable == TableSpec => []TableTypeOK
<1>1. TableInit => TableTypeOK
  BY DEF TableInit, TableTypeOK
<1>2. TableTypeOK /\ [TableNext]_table => TableTypeOK'
  <2> SUFFICES ASSUME TableTypeOK, [TableNext]_table PROVE TableTypeOK'
    OBVIOUS
  <2>1. ASSUME NEW i \in InstanceIds, Expire(i) PROVE TableTypeOK'
    BY <2>1 DEF Expire, TableTypeOK
  <2>2. ASSUME NEW i \in InstanceIds, NEW x \in Reports, Insert(i, x) PROVE TableTypeOK'
    BY <2>2 DEF Insert, TableTypeOK
  <2>3. CASE UNCHANGED table
    BY <2>3 DEF TableTypeOK
  <2> QED
    BY <2>1, <2>2, <2>3 DEF TableNext
<1> QED
  BY <1>1, <1>2, PTL DEF TableSpec

LEMMA StoredTable == ASSUME TableTypeOK PROVE IsTable(table)
<1>1. IsFiniteSet(DOMAIN table)
  BY TableAssumption, FS_Subset DEF TableTypeOK
<1>2. ASSUME NEW i \in DOMAIN table PROVE IsRow(table[i])
  <2>1. PICK x \in Reports : table[i] = StoredRow(x)
    BY DEF TableTypeOK
  <2> QED
    BY <2>1, StoredIsRow, TableAssumption
<1> QED
  BY <1>1, <1>2 DEF IsTable

\* queryScope's row arithmetic: whatever is stored, and of however many runs, the
\* published percentile is a run's own, with that share of the runs not better and
\* less than that share worse.
THEOREM TablesPercentilesAreNearestRank == TableSpec => []PercentilesAreNearestRank
<1>1. TableTypeOK => PercentilesAreNearestRank
  <2> SUFFICES ASSUME TableTypeOK PROVE PercentilesAreNearestRank
    OBVIOUS
  <2>1. IsTable(table)
    BY StoredTable
  <2> QED
    BY <2>1, PercentilesOfTable DEF PercentilesAreNearestRank
<1> QED
  BY <1>1, TableIsTable, PTL

(***************************************************************************)
(* The queries of the pages.                                               *)
(***************************************************************************)

\* What SumFunction unfolds to.
IsSum(g, f) ==
    g = [s \in SUBSET DOMAIN f |->
           IF s = {} THEN 0
           ELSE LET x == CHOOSE x \in s : TRUE IN f[x] + g[s \ {x}]]

\* f counts the members of parts that have none in common.
Counts(f, part) ==
    /\ IsFiniteSet(DOMAIN f) /\ DOMAIN part = DOMAIN f
    /\ \A d \in DOMAIN f : IsFiniteSet(part[d]) /\ f[d] = Cardinality(part[d])
    /\ \A d, e \in DOMAIN f : d # e => part[d] \cap part[e] = {}

AllOf(part, s) == UNION {part[d] : d \in s}

LEMMA PartsAdd ==
    ASSUME NEW f, NEW part, Counts(f, part), NEW s \in SUBSET DOMAIN f
    PROVE  /\ IsFiniteSet(AllOf(part, s)) /\ Cardinality(AllOf(part, s)) \in Nat
           /\ s = {} => Cardinality(AllOf(part, s)) = 0
           /\ \A x \in s : Cardinality(AllOf(part, s))
                             = f[x] + Cardinality(AllOf(part, s \ {x}))
<1>1. ASSUME NEW t \in SUBSET DOMAIN f
      PROVE  IsFiniteSet(AllOf(part, t)) /\ Cardinality(AllOf(part, t)) \in Nat
  <2> DEFINE g == [d \in t |-> part[d]]
  <2>1. DOMAIN g = t /\ {g[d] : d \in t} = {part[d] : d \in t}
    OBVIOUS
  <2>2. IsFiniteSet(t)
    BY FS_Subset DEF Counts
  <2> HIDE DEF g
  <2>3. IsFiniteSet({part[d] : d \in t})
    <3>1. DOMAIN g = t
      BY <2>1
    <3>2. IsFiniteSet({g[d] : d \in t})
      BY <3>1, <2>2, ImageIsFinite
    <3> QED
      BY <2>1, <3>2
  <2>4. \A S \in {part[d] : d \in t} : IsFiniteSet(S)
    BY DEF Counts
  <2>5. IsFiniteSet(AllOf(part, t))
    BY <2>3, <2>4, FS_UNION DEF AllOf
  <2> QED
    BY <2>5, FS_CardinalityType
<1>2. s = {} => Cardinality(AllOf(part, s)) = 0
  <2>1. s = {} => AllOf(part, s) = {}
    BY DEF AllOf
  <2> QED
    BY <2>1, FS_EmptySet
<1>3. ASSUME NEW x \in s
      PROVE  Cardinality(AllOf(part, s)) = f[x] + Cardinality(AllOf(part, s \ {x}))
  <2> DEFINE A == AllOf(part, s \ {x})
             B == part[x]
  <2>1. AllOf(part, s) = A \cup B
    BY DEF AllOf
  <2>2. A \cap B = {}
    BY DEF AllOf, Counts
  <2>3. IsFiniteSet(A) /\ Cardinality(A) \in Nat
    BY <1>1
  <2>4. IsFiniteSet(B) /\ Cardinality(B) = f[x] /\ Cardinality(B) \in Nat
    BY FS_CardinalityType DEF Counts
  <2> HIDE DEF A, B
  <2>5. Cardinality(A \cup B) = Cardinality(A) + Cardinality(B) - Cardinality(A \cap B)
    BY <2>3, <2>4, FS_Union
  <2>6. Cardinality(A \cap B) = 0
    BY <2>2, FS_EmptySet
  <2> QED
    BY <2>1, <2>3, <2>4, <2>5, <2>6 DEF A
<1> QED
  BY <1>1, <1>2, <1>3

LEMMA SumIsCount ==
    ASSUME NEW f, NEW part, Counts(f, part), NEW g, IsSum(g, f)
    PROVE  g[DOMAIN f] = Cardinality(AllOf(part, DOMAIN f))
<1> DEFINE Wrong == {s \in SUBSET DOMAIN f : g[s] # Cardinality(AllOf(part, s))}
<1>1. ASSUME Wrong # {} PROVE FALSE
  <2>1. HasSmallest(Wrong)
    <3>1. Wrong \subseteq SUBSET DOMAIN f /\ IsFiniteSet(DOMAIN f)
      BY DEF Counts
    <3> HIDE DEF Wrong
    <3> QED
      BY <1>1, <3>1, SmallestSubset
  <2>2. PICK s \in Wrong : \A t \in Wrong : t \subseteq s => t = s
    BY <2>1 DEF HasSmallest
  <2>3. s \in SUBSET DOMAIN f
    OBVIOUS
  <2>4. CASE s = {}
    <3>1. g[s] = 0
      BY <2>3, <2>4 DEF IsSum
    <3> QED
      BY <2>3, <2>4, <3>1, PartsAdd
  <2>5. CASE s # {}
    <3>1. PICK x \in s : g[s] = f[x] + g[s \ {x}]
      <4> DEFINE y == CHOOSE y \in s : TRUE
      <4>1. y \in s
        BY <2>5
      <4>2. g[s] = f[y] + g[s \ {y}]
        BY <2>3, <2>5 DEF IsSum
      <4> HIDE DEF y
      <4> QED
        BY <4>1, <4>2
    <3>2. s \ {x} \in SUBSET DOMAIN f /\ s \ {x} # s /\ s \ {x} \subseteq s
      BY <2>3
    <3>3. s \ {x} \notin Wrong
      BY <2>2, <3>2
    <3>4. g[s \ {x}] = Cardinality(AllOf(part, s \ {x}))
      BY <3>2, <3>3
    <3>5. Cardinality(AllOf(part, s)) = f[x] + Cardinality(AllOf(part, s \ {x}))
      BY <2>3, PartsAdd
    <3> QED
      BY <3>1, <3>4, <3>5
  <2> QED
    BY <2>4, <2>5
<1> QED
  BY <1>1

\* The sum of the sizes of parts that have nothing in common is the size of all.
LEMMA SumOfSizes ==
    ASSUME NEW f, NEW part, Counts(f, part)
    PROVE  SumFunction(f) = Cardinality(AllOf(part, DOMAIN f))
<1> DEFINE h == [s \in SUBSET DOMAIN f |-> Cardinality(AllOf(part, s))]
           next(s) == IF s = {} THEN 0 ELSE LET x == CHOOSE x \in s : TRUE IN f[x] + h[s \ {x}]
<1>1. ASSUME NEW s \in SUBSET DOMAIN f PROVE h[s] = next(s)
  <2>1. CASE s = {}
    BY <2>1, PartsAdd
  <2>2. CASE s # {}
    <3> DEFINE y == CHOOSE y \in s : TRUE
    <3>1. y \in s /\ s \ {y} \in SUBSET DOMAIN f
      BY <2>2
    <3>2. next(s) = f[y] + Cardinality(AllOf(part, s \ {y}))
      BY <2>2, <3>1
    <3> HIDE DEF y, next
    <3> QED
      BY <3>1, <3>2, PartsAdd
  <2> QED
    BY <2>1, <2>2
<1>2. IsSum(h, f)
  <2>1. h = [s \in SUBSET DOMAIN f |-> next(s)]
    <3> HIDE DEF next
    <3> QED
      BY <1>1
  <2> HIDE DEF h
  <2> QED
    BY <2>1 DEF IsSum
<1> DEFINE iter == CHOOSE g : IsSum(g, f)
<1>3. IsSum(iter, f)
  BY <1>2
<1>4. SumFunction(f) = iter[DOMAIN f]
  BY DEF SumFunction, SumFunctionOnSet, FoldFunctionOnSet, MapThenFoldSet, IsSum
<1> HIDE DEF iter
<1> QED
  BY <1>3, <1>4, SumIsCount

(***************************************************************************)
(* The order of the leaderboard.                                           *)
(***************************************************************************)

LEMMA MaxIs ==
    ASSUME NEW S, IsFiniteSet(S), S # {}, S \subseteq Nat
    PROVE  Max(S) \in S
<1> DEFINE Above(x) == {y \in S : y > x}
           F == {Above(x) : x \in S}
<1>1. F \subseteq SUBSET S /\ F # {}
  OBVIOUS
<1>2. HasSmallest(F)
  <2> HIDE DEF F
  <2> QED
    BY <1>1, SmallestSubset
<1>3. PICK x \in S : \A y \in S : Above(y) \subseteq Above(x) => Above(y) = Above(x)
  <2>1. PICK U \in F : \A V \in F : V \subseteq U => V = U
    BY <1>2 DEF HasSmallest
  <2>2. PICK x \in S : U = Above(x)
    BY <2>1
  <2>3. \A y \in S : Above(y) \in F
    OBVIOUS
  <2> HIDE DEF F, Above
  <2> QED
    BY <2>1, <2>2, <2>3
<1>4. ASSUME NEW y \in S, ~ (x >= y) PROVE FALSE
  <2>1. x \in Nat /\ y \in Nat /\ y > x
    BY <1>4
  <2>2. y \in Above(x) /\ y \notin Above(y)
    BY <2>1
  <2>3. \A z \in S : z > y => z > x
    <3>1. \A z \in S : z \in Nat
      OBVIOUS
    <3> QED
      BY <2>1, <3>1
  <2> QED
    BY <1>3, <2>2, <2>3
<1>5. \E z \in S : \A y \in S : z >= y
  BY <1>4
<1> QED
  BY <1>5 DEF Max

IsGroup(x) == x.player \in Nat /\ x.completions \in Nat /\ x.last \in Nat

AreGroups(S) ==
    /\ IsFiniteSet(S) /\ \A x \in S : IsGroup(x)
    /\ \A x, y \in S : x.player = y.player => x = y

LEMMA AheadIsOrder ==
    ASSUME NEW x, IsGroup(x), NEW y, IsGroup(y), NEW z, IsGroup(z)
    PROVE  /\ ~ Ahead(x, x)
           /\ Ahead(x, y) => ~ Ahead(y, x)
           /\ Ahead(x, y) /\ Ahead(y, z) => Ahead(x, z)
           /\ x.player # y.player => Ahead(x, y) \/ Ahead(y, x)
<1>1. PICK a \in Nat, b \in Nat, c \in Nat : a = x.completions /\ b = x.last /\ c = x.player
  BY DEF IsGroup
<1>2. PICK d \in Nat, e \in Nat, f \in Nat : d = y.completions /\ e = y.last /\ f = y.player
  BY DEF IsGroup
<1>3. PICK g \in Nat, h \in Nat, k \in Nat : g = z.completions /\ h = z.last /\ k = z.player
  BY DEF IsGroup
<1> QED
  BY <1>1, <1>2, <1>3 DEF Ahead

\* Who of S is ahead of x.
AheadIn(S, x) == {y \in S : Ahead(y, x)}

LEMMA LastExists ==
    ASSUME NEW S, AreGroups(S), S # {}
    PROVE  \E x \in S : AheadIn(S, x) = S \ {x}
<1> DEFINE Behind(x) == {y \in S : Ahead(x, y)}
           F == {Behind(x) : x \in S}
<1>1. F \subseteq SUBSET S /\ F # {}
  OBVIOUS
<1>2. HasSmallest(F)
  <2>1. IsFiniteSet(S)
    BY DEF AreGroups
  <2> HIDE DEF F
  <2> QED
    BY <1>1, <2>1, SmallestSubset
<1>3. PICK x \in S : \A y \in S : Behind(y) \subseteq Behind(x) => Behind(y) = Behind(x)
  <2>1. PICK U \in F : \A V \in F : V \subseteq U => V = U
    BY <1>2 DEF HasSmallest
  <2>2. PICK x \in S : U = Behind(x)
    BY <2>1
  <2>3. \A y \in S : Behind(y) \in F
    OBVIOUS
  <2> HIDE DEF F, Behind
  <2> QED
    BY <2>1, <2>2, <2>3
<1>4. \A y \in S : IsGroup(y)
  BY DEF AreGroups
<1>5. ASSUME NEW y \in S, y # x, ~ Ahead(y, x) PROVE FALSE
  <2>1. Ahead(x, y)
    BY <1>4, <1>5, AheadIsOrder DEF AreGroups
  <2>2. y \in Behind(x) /\ y \notin Behind(y)
    BY <1>4, <2>1, AheadIsOrder
  <2>3. Behind(y) \subseteq Behind(x)
    BY <1>4, <2>1, AheadIsOrder
  <2> QED
    BY <1>3, <2>2, <2>3
<1>6. ~ Ahead(x, x)
  BY <1>4, AheadIsOrder
<1> QED
  BY <1>5, <1>6 DEF AheadIn

LEMMA AheadIsPart ==
    ASSUME NEW S, AreGroups(S), NEW x
    PROVE  /\ AheadIn(S, x) \subseteq S /\ AreGroups(AheadIn(S, x))
           /\ Cardinality(AheadIn(S, x)) \in Nat
<1>1. AheadIn(S, x) \subseteq S
  BY DEF AheadIn
<1>2. IsFiniteSet(AheadIn(S, x)) /\ Cardinality(AheadIn(S, x)) \in Nat
  BY <1>1, FS_Subset, FS_CardinalityType DEF AreGroups
<1> QED
  BY <1>1, <1>2 DEF AreGroups

LEMMA PlaceExists ==
    ASSUME NEW S, AreGroups(S), NEW i \in 1 .. Cardinality(S)
    PROVE  \E x \in S : Cardinality(AheadIn(S, x)) = i - 1
<1> DEFINE G == {x \in S : Cardinality(AheadIn(S, x)) >= i - 1}
           F == {AheadIn(S, x) : x \in G}
<1>1. IsFiniteSet(S) /\ Cardinality(S) \in Nat /\ i \in Nat /\ i <= Cardinality(S) /\ i >= 1
  BY FS_CardinalityType DEF AreGroups
<1>2. S # {}
  BY <1>1, FS_EmptySet
<1>3. F \subseteq SUBSET S /\ F # {}
  <2>1. PICK x \in S : AheadIn(S, x) = S \ {x}
    BY <1>2, LastExists
  <2>2. Cardinality(S \ {x}) = Cardinality(S) - 1
    BY <1>1, FS_RemoveElement
  <2>3. x \in G
    BY <1>1, <2>1, <2>2
  <2>4. \A y \in G : AheadIn(S, y) \subseteq S
    BY AheadIsPart
  <2> HIDE DEF G
  <2> QED
    BY <2>3, <2>4
<1>4. HasSmallest(F)
  <2> HIDE DEF F
  <2> QED
    BY <1>1, <1>3, SmallestSubset
<1>5. PICK x \in G : \A y \in G : AheadIn(S, y) \subseteq AheadIn(S, x)
                                    => AheadIn(S, y) = AheadIn(S, x)
  <2>1. PICK U \in F : \A V \in F : V \subseteq U => V = U
    BY <1>4 DEF HasSmallest
  <2>2. PICK x \in G : U = AheadIn(S, x)
    BY <2>1
  <2>3. \A y \in G : AheadIn(S, y) \in F
    OBVIOUS
  <2> HIDE DEF F, G
  <2> QED
    BY <2>1, <2>2, <2>3
<1>6. x \in S /\ IsGroup(x) /\ Cardinality(AheadIn(S, x)) >= i - 1 /\ Cardinality(AheadIn(S, x)) \in Nat
  BY <1>5, AheadIsPart DEF AreGroups
<1>7. ASSUME Cardinality(AheadIn(S, x)) # i - 1 PROVE FALSE
  <2> DEFINE U == AheadIn(S, x)
  <2>1. AreGroups(U) /\ IsFiniteSet(U) /\ U \subseteq S
    BY AheadIsPart DEF AreGroups
  <2>2. Cardinality(U) - 1 >= i - 1
    BY <1>1, <1>6, <1>7
  <2>3. U # {}
    BY <1>1, <2>1, <2>2, FS_EmptySet
  <2>4. PICK y \in U : AheadIn(U, y) = U \ {y}
    <3> HIDE DEF U
    <3> QED
      BY <2>1, <2>3, LastExists
  <2>5. y \in S /\ Ahead(y, x) /\ IsGroup(y)
    BY <2>1 DEF AheadIn, AreGroups
  <2>6. AheadIn(S, y) = U \ {y}
    <3>1. AheadIn(S, y) \subseteq U \ {y}
      <4> SUFFICES ASSUME NEW z \in S, Ahead(z, y) PROVE Ahead(z, x) /\ z # y
        BY DEF AheadIn
      <4>1. IsGroup(z)
        BY DEF AreGroups
      <4> QED
        BY <1>6, <2>5, <4>1, AheadIsOrder
    <3>2. AheadIn(U, y) \subseteq AheadIn(S, y)
      BY <2>1 DEF AheadIn
    <3> QED
      BY <2>4, <3>1, <3>2
  <2>7. Cardinality(U \ {y}) = Cardinality(U) - 1
    BY <2>1, FS_RemoveElement
  <2>8. y \in G
    BY <2>2, <2>5, <2>6, <2>7
  <2>9. y \notin AheadIn(S, y) /\ AheadIn(S, y) \subseteq AheadIn(S, x)
    BY <2>6
  <2> HIDE DEF G
  <2> QED
    BY <1>5, <2>4, <2>8, <2>9
<1> QED
  BY <1>6, <1>7

LEMMA RankingIs ==
    ASSUME NEW S, AreGroups(S), NEW i \in 1 .. Cardinality(S)
    PROVE  Ranking(S)[i] \in S /\ Cardinality(AheadIn(S, Ranking(S)[i])) = i - 1
<1>1. Ranking(S)[i] = CHOOSE x \in S : Cardinality(AheadIn(S, x)) = i - 1
  BY DEF Ranking, AheadIn
<1> QED
  BY <1>1, PlaceExists

\* Who has more completions than n.
MoreThan(S, n) == {x \in S : x.completions > n}

\* A tie takes the place after all who have more.
LEMMA RankIsCount ==
    ASSUME NEW S, AreGroups(S), NEW i \in 1 .. Cardinality(S)
    PROVE  RowAt(S, i).rank = 1 + Cardinality(MoreThan(S, RowAt(S, i).completions))
<1> DEFINE order == Ranking(S)
           n == order[i].completions
           A == MoreThan(S, n)
           tie == {j \in 1 .. i : \A m \in j .. i : order[m].completions = n}
<1>1. RowAt(S, i) = [player |-> order[i].player, completions |-> n, rank |-> Min(tie)]
  BY DEF RowAt
<1>2. PICK size \in Nat : size = Cardinality(S) /\ i \in 1 .. size
  BY FS_CardinalityType DEF AreGroups
<1>3. \A m \in 1 .. i : order[m] \in S /\ IsGroup(order[m]) /\ Cardinality(AheadIn(S, order[m])) = m - 1
  <2> SUFFICES ASSUME NEW m \in 1 .. i
               PROVE  order[m] \in S /\ IsGroup(order[m]) /\ Cardinality(AheadIn(S, order[m])) = m - 1
    OBVIOUS
  <2>1. m \in 1 .. Cardinality(S)
    BY <1>2
  <2>2. order[m] \in S /\ Cardinality(AheadIn(S, order[m])) = m - 1
    BY <2>1, RankingIs
  <2> QED
    BY <2>2 DEF AreGroups
<1> HIDE DEF order
<1>4. i \in 1 .. i
  BY <1>2
<1>5. n \in Nat /\ order[i] \in S /\ IsGroup(order[i])
  BY <1>3, <1>4 DEF IsGroup
<1>6. A \subseteq S /\ IsFiniteSet(A) /\ Cardinality(A) \in Nat
  <2>1. A \subseteq S
    BY DEF MoreThan
  <2> QED
    BY <2>1, FS_Subset, FS_CardinalityType DEF AreGroups
<1>7. PICK a \in Nat : a = Cardinality(A)
  BY <1>6
<1>8. ASSUME NEW x \in S, x.completions <= n
      PROVE  a <= Cardinality(AheadIn(S, x))
  <2>1. A \subseteq AheadIn(S, x)
    <3> SUFFICES ASSUME NEW y \in S, y.completions > n PROVE Ahead(y, x)
      BY DEF MoreThan, AheadIn
    <3>1. y.completions \in Nat /\ x.completions \in Nat
      BY DEF AreGroups, IsGroup
    <3> QED
      BY <1>5, <1>8, <3>1 DEF Ahead
  <2>2. IsFiniteSet(AheadIn(S, x))
    BY AheadIsPart DEF AreGroups
  <2> QED
    BY <1>7, <2>1, <2>2, FS_Subset
<1>9. ASSUME NEW x \in A PROVE Cardinality(AheadIn(S, x)) < a
  <2>1. x \in S /\ x.completions > n /\ IsGroup(x)
    BY DEF MoreThan, AreGroups
  <2>2. AheadIn(S, x) \subseteq A \ {x}
    <3> SUFFICES ASSUME NEW y \in S, Ahead(y, x) PROVE y.completions > n /\ y # x
      BY DEF MoreThan, AheadIn
    <3>1. IsGroup(y)
      BY DEF AreGroups
    <3>2. y # x
      BY <2>1, AheadIsOrder
    <3>3. y.completions \in Nat /\ x.completions \in Nat
      BY <2>1, <3>1 DEF IsGroup
    <3> QED
      BY <1>5, <2>1, <3>2, <3>3 DEF Ahead
  <2>3. IsFiniteSet(A \ {x}) /\ Cardinality(A \ {x}) = a - 1
    BY <1>6, <1>7, FS_RemoveElement
  <2>4. Cardinality(AheadIn(S, x)) <= a - 1
    BY <2>2, <2>3, FS_Subset
  <2>5. Cardinality(AheadIn(S, x)) \in Nat
    BY AheadIsPart
  <2> QED
    BY <2>4, <2>5
<1> HIDE DEF A, n
<1>10. a + 1 <= i
  <2>1. a <= i - 1
    BY <1>3, <1>4, <1>5, <1>8 DEF n
  <2> QED
    BY <1>2, <2>1
<1>11. ASSUME NEW m \in 1 .. i, m >= a + 1 PROVE order[m].completions = n
  <2>1. order[m] \in S /\ IsGroup(order[m]) /\ Cardinality(AheadIn(S, order[m])) = m - 1
    BY <1>3
  <2>2. order[m].completions \in Nat
    BY <2>1 DEF IsGroup
  <2>3. ASSUME order[m].completions > n PROVE FALSE
    <3>1. order[m] \in A
      BY <2>1, <2>3 DEF A, MoreThan
    <3>2. m - 1 < a
      BY <1>9, <2>1, <3>1
    <3> QED
      BY <1>2, <1>11, <3>2
  <2>4. ASSUME order[m].completions < n PROVE FALSE
    <3>1. Ahead(order[i], order[m])
      BY <1>5, <2>2, <2>4 DEF Ahead, n
    <3>2. order[i] \in AheadIn(S, order[m]) /\ order[i] \notin AheadIn(S, order[i])
      BY <1>5, <3>1, AheadIsOrder DEF AheadIn
    <3>3. AheadIn(S, order[i]) \subseteq AheadIn(S, order[m])
      <4> SUFFICES ASSUME NEW y \in S, Ahead(y, order[i]) PROVE Ahead(y, order[m])
        BY DEF AheadIn
      <4>1. IsGroup(y)
        BY DEF AreGroups
      <4> QED
        BY <1>5, <2>1, <3>1, <4>1, AheadIsOrder
    <3>4. IsFiniteSet(AheadIn(S, order[m])) /\ IsFiniteSet(AheadIn(S, order[i]))
      BY AheadIsPart DEF AreGroups
    <3>5. Cardinality(AheadIn(S, order[i])) <= m - 1
      BY <2>1, <3>3, <3>4, FS_Subset
    <3>6. Cardinality(AheadIn(S, order[i])) = i - 1
      BY <1>3, <1>4
    <3>7. i = m
      BY <1>2, <3>5, <3>6
    <3> QED
      BY <3>2, <3>7
  <2> QED
    BY <1>5, <2>2, <2>3, <2>4
<1>12. a + 1 \in tie
  <2>1. a + 1 \in 1 .. i
    BY <1>2, <1>10
  <2>2. \A m \in a + 1 .. i : m \in 1 .. i /\ m >= a + 1
    OBVIOUS
  <2> QED
    BY <1>11, <2>1, <2>2
<1>13. ASSUME NEW j \in tie PROVE a + 1 <= j
  <2>1. j \in 1 .. i /\ j \in j .. i
    BY <1>2
  <2>2. order[j].completions = n
    BY <2>1
  <2>3. order[j] \in S /\ Cardinality(AheadIn(S, order[j])) = j - 1
    BY <1>3, <2>1
  <2>4. a <= j - 1
    BY <1>5, <1>8, <2>2, <2>3
  <2> QED
    BY <2>1, <2>4
<1>14. tie \subseteq Int
  OBVIOUS
<1> HIDE DEF tie
<1>15. Min(tie) = a + 1
  <2>1. \A x \in tie : (\A y \in tie : x <= y) => x = a + 1
    <3> SUFFICES ASSUME NEW x \in tie, \A y \in tie : x <= y PROVE x = a + 1
      OBVIOUS
    <3>1. x <= a + 1 /\ a + 1 <= x /\ x \in Int
      BY <1>12, <1>13, <1>14
    <3> QED
      BY <3>1
  <2>2. \E x \in tie : \A y \in tie : x <= y
    BY <1>12, <1>13
  <2> QED
    BY <2>1, <2>2 DEF Min
<1> QED
  BY <1>1, <1>7, <1>15 DEF A

(***************************************************************************)
(* The queries agree.                                                      *)
(***************************************************************************)

LEMMA KeyedIs ==
    ASSUME NEW T, IsTable(T), NEW c
    PROVE  /\ IsFiniteSet(KeyedIn(T, c)) /\ KeyedIn(T, c) \subseteq InWindow(T, c)
           /\ \A r \in InWindow(T, c) :
                /\ r \in DOMAIN T /\ IsRow(T[r]) /\ Party(T, r) \subseteq People
                /\ T[r].key \in RaidKeys => r \in KeyedIn(T, c)
           /\ \A r \in KeyedIn(T, c) : T[r].key \in RaidKeys
<1>1. KeyedIn(T, c) \subseteq DOMAIN T /\ KeyedIn(T, c) \subseteq InWindow(T, c)
  BY DEF KeyedIn, InWindow
<1>2. IsFiniteSet(KeyedIn(T, c))
  BY <1>1, FS_Subset DEF IsTable
<1>3. \A r \in InWindow(T, c) : r \in DOMAIN T /\ IsRow(T[r])
  BY DEF InWindow, IsTable
<1>4. \A r \in InWindow(T, c) : Party(T, r) \subseteq People /\ T[r].key \in RaidKeys \cup {"none"}
  BY <1>3 DEF IsRow, Party
<1>5. \A r \in InWindow(T, c) : T[r].key \in RaidKeys => r \in KeyedIn(T, c)
  BY ReadsAssumption DEF KeyedIn
<1>6. \A r \in KeyedIn(T, c) : T[r].key # "none"
  BY DEF KeyedIn
<1> QED
  BY <1>1, <1>2, <1>3, <1>4, <1>5, <1>6

\* A full clear was completed by somebody who is known.
LEMMA CompletionIs ==
    ASSUME NEW T, NEW r, NEW p
    PROVE  Completion(T, r, p) <=> p \in Party(T, r) /\ T[r].entries[p].done /\ FullClear(T, r)
BY DEF Completion

LEMMA ClearedIs ==
    ASSUME NEW T, IsTable(T), NEW c, NEW p, NEW k
    PROVE  /\ Cleared(T, c, p, k) = {r \in KeyedIn(T, c) : Completion(T, r, p) /\ T[r].key = k}
           /\ IsFiniteSet(Cleared(T, c, p, k)) /\ Cardinality(Cleared(T, c, p, k)) \in Nat
<1>1. Cleared(T, c, p, k) = {r \in KeyedIn(T, c) : Completion(T, r, p) /\ T[r].key = k}
  BY DEF Cleared, CompletedBy
<1>2. Cleared(T, c, p, k) \subseteq KeyedIn(T, c)
  BY <1>1
<1> QED
  BY <1>1, <1>2, KeyedIs, FS_Subset, FS_CardinalityType

LEMMA SummaryIs ==
    ASSUME NEW T, IsTable(T), NEW c, NEW p
    PROVE  /\ DOMAIN CompletionSummary(T, c, p) = {k \in RaidKeys : Cleared(T, c, p, k) # {}}
           /\ \A k \in DOMAIN CompletionSummary(T, c, p) :
                /\ CompletionSummary(T, c, p)[k].completions = Cardinality(Cleared(T, c, p, k))
                /\ CompletionSummary(T, c, p)[k].took = TotalTook(T, Cleared(T, c, p, k))
<1> DEFINE D == {T[r].key : r \in CompletedBy(T, c, p)}
<1>1. DOMAIN CompletionSummary(T, c, p) = D
  BY DEF CompletionSummary
<1>2. D = {k \in RaidKeys : Cleared(T, c, p, k) # {}}
  <2>1. \A r \in CompletedBy(T, c, p) : T[r].key \in RaidKeys /\ r \in Cleared(T, c, p, T[r].key)
    BY KeyedIs DEF CompletedBy, Cleared
  <2>2. \A k : \A r \in Cleared(T, c, p, k) : r \in CompletedBy(T, c, p) /\ T[r].key = k
    BY DEF Cleared
  <2> QED
    BY <2>1, <2>2
<1>3. \A k \in DOMAIN CompletionSummary(T, c, p) :
        /\ CompletionSummary(T, c, p)[k].completions = Cardinality(Cleared(T, c, p, k))
        /\ CompletionSummary(T, c, p)[k].took = TotalTook(T, Cleared(T, c, p, k))
  BY DEF CompletionSummary
<1> QED
  BY <1>1, <1>2, <1>3

LEMMA CompletionsInIs ==
    ASSUME NEW T, IsTable(T), NEW c, NEW p, NEW k \in RaidKeys
    PROVE  CompletionsIn(CompletionSummary(T, c, p), k) = Cardinality(Cleared(T, c, p, k))
<1>1. DOMAIN CompletionSummary(T, c, p) = {j \in RaidKeys : Cleared(T, c, p, j) # {}}
  BY SummaryIs
<1>2. Cleared(T, c, p, k) = {} => Cardinality(Cleared(T, c, p, k)) = 0
  BY FS_EmptySet
<1> QED
  BY <1>1, <1>2, SummaryIs DEF CompletionsIn

LEMMA PerformanceAgrees ==
    ASSUME NEW T, IsTable(T), NEW c, NEW p
    PROVE  LET perf == PerformanceStats(T, c, p)
               summary == CompletionSummary(T, c, p)
           IN  /\ DOMAIN perf = DOMAIN summary
               /\ \A k \in DOMAIN perf :
                    /\ perf[k].completions = summary[k].completions
                    /\ perf[k].took = summary[k].took
                    /\ perf[k].completions + perf[k].unfinished <= perf[k].attempts
<1> DEFINE perf == PerformanceStats(T, c, p)
           summary == CompletionSummary(T, c, p)
           Attempts(k) == {r \in KeyedIn(T, c) : T[r].key = k /\ p \in Party(T, r)}
           Completes(k) == {r \in Attempts(k) : Completion(T, r, p)}
           Unfinished(k) == {r \in Attempts(k) : ~T[r].entries[p].done}
<1>1. \A k : Completes(k) = Cleared(T, c, p, k)
  BY ClearedIs, CompletionIs
<1>2. DOMAIN perf = {k \in RaidKeys : Completes(k) # {}}
  BY DEF PerformanceStats
<1>3. \A k \in DOMAIN perf :
        /\ perf[k].completions = Cardinality(Completes(k))
        /\ perf[k].took = TotalTook(T, Completes(k))
        /\ perf[k].unfinished = Cardinality(Unfinished(k))
        /\ perf[k].attempts = Cardinality(Attempts(k))
  BY DEF PerformanceStats
<1>4. ASSUME NEW k
      PROVE  Cardinality(Completes(k)) + Cardinality(Unfinished(k)) <= Cardinality(Attempts(k))
  <2>1. /\ Attempts(k) \subseteq KeyedIn(T, c) /\ Completes(k) \subseteq Attempts(k)
        /\ Unfinished(k) \subseteq Attempts(k)
    OBVIOUS
  <2>2. Completes(k) \cap Unfinished(k) = {}
    BY CompletionIs
  <2> DEFINE A == Attempts(k)
             C == Completes(k)
             U == Unfinished(k)
  <2> HIDE DEF Attempts, Completes, Unfinished
  <2>3. IsFiniteSet(A) /\ Cardinality(A) \in Nat
    BY <2>1, KeyedIs, FS_Subset, FS_CardinalityType
  <2>4. IsFiniteSet(C) /\ Cardinality(C) \in Nat /\ IsFiniteSet(U) /\ Cardinality(U) \in Nat
    BY <2>1, <2>3, FS_Subset, FS_CardinalityType
  <2>5. Cardinality(C \cup U) = Cardinality(C) + Cardinality(U) - Cardinality(C \cap U)
    BY <2>4, FS_Union
  <2>6. C \cap U = {} /\ C \cup U \subseteq A
    BY <2>1, <2>2
  <2>7. Cardinality(C \cap U) = 0
    BY <2>6, FS_EmptySet
  <2>8. Cardinality(C \cup U) <= Cardinality(A)
    BY <2>3, <2>6, FS_Subset
  <2> QED
    BY <2>3, <2>4, <2>5, <2>7, <2>8
<1>0. /\ DOMAIN summary = {k \in RaidKeys : Cleared(T, c, p, k) # {}}
      /\ \A k \in DOMAIN summary :
           /\ summary[k].completions = Cardinality(Cleared(T, c, p, k))
           /\ summary[k].took = TotalTook(T, Cleared(T, c, p, k))
  BY SummaryIs
<1> HIDE DEF perf, summary, Attempts, Completes, Unfinished
<1>5. DOMAIN perf = DOMAIN summary
  <2>1. \A k : k \in DOMAIN perf <=> k \in RaidKeys /\ Cleared(T, c, p, k) # {}
    BY <1>1, <1>2
  <2>2. \A k : k \in DOMAIN summary <=> k \in RaidKeys /\ Cleared(T, c, p, k) # {}
    BY <1>0
  <2> QED
    BY <1>0, <1>2, <2>1, <2>2
<1>6. \A k \in DOMAIN perf : perf[k].completions = summary[k].completions /\ perf[k].took = summary[k].took
  BY <1>0, <1>1, <1>3, <1>5
<1>7. \A k \in DOMAIN perf : perf[k].completions + perf[k].unfinished <= perf[k].attempts
  BY <1>3, <1>4
<1> QED
  BY <1>5, <1>6, <1>7 DEF perf, summary

LEMMA CompletionsAddUp ==
    ASSUME NEW T, IsTable(T), NEW c, NEW p
    PROVE  IsFiniteSet(CompletedBy(T, c, p)) /\ Cardinality(CompletedBy(T, c, p))
             = SumFunction([k \in DOMAIN CompletionSummary(T, c, p) |->
                              CompletionSummary(T, c, p)[k].completions])
<1> DEFINE D == DOMAIN CompletionSummary(T, c, p)
           f == [k \in D |-> CompletionSummary(T, c, p)[k].completions]
           part == [k \in D |-> Cleared(T, c, p, k)]
<1>1. IsFiniteSet(D)
  <2>1. D \subseteq RaidKeys
    BY SummaryIs
  <2> QED
    BY <2>1, ReadsAssumption, FS_Subset
<1>2. \A k \in D : f[k] = Cardinality(part[k]) /\ IsFiniteSet(part[k])
  <2> SUFFICES ASSUME NEW k \in D PROVE f[k] = Cardinality(part[k]) /\ IsFiniteSet(part[k])
    OBVIOUS
  <2>1. CompletionSummary(T, c, p)[k].completions = Cardinality(Cleared(T, c, p, k))
    BY SummaryIs
  <2>2. IsFiniteSet(Cleared(T, c, p, k))
    BY ClearedIs
  <2> QED
    BY <2>1, <2>2
<1>3. \A k, l \in D : k # l => part[k] \cap part[l] = {}
  BY DEF Cleared
<1>4. UNION {part[k] : k \in D} = CompletedBy(T, c, p)
  <2>1. \A k \in D : part[k] = {r \in CompletedBy(T, c, p) : T[r].key = k}
    BY DEF Cleared
  <2>2. \A r \in CompletedBy(T, c, p) : T[r].key \in D
    BY DEF CompletionSummary
  <2> HIDE DEF part, D
  <2> QED
    BY <2>1, <2>2
<1>5. DOMAIN f = D /\ DOMAIN part = D
  OBVIOUS
<1> HIDE DEF f, part
<1>6. Counts(f, part)
  BY <1>1, <1>2, <1>3, <1>5 DEF Counts
<1>7. SumFunction(f) = Cardinality(AllOf(part, DOMAIN f))
  BY <1>6, SumOfSizes
<1>8. CompletedBy(T, c, p) \subseteq KeyedIn(T, c)
  BY DEF CompletedBy
<1>9. IsFiniteSet(CompletedBy(T, c, p))
  BY <1>8, KeyedIs, FS_Subset
<1> QED
  BY <1>4, <1>5, <1>7, <1>9 DEF AllOf, f

\* A list that the limit has cut.
LEMMA RecentAgrees ==
    ASSUME NEW T, IsTable(T), NEW c, NEW p, NEW S \in RecentCompletions(T, c, p, PageLimit)
    PROVE  /\ Cardinality(S) = Min({PageLimit,
                SumFunction([k \in DOMAIN CompletionSummary(T, c, p) |->
                               CompletionSummary(T, c, p)[k].completions])})
           /\ \A k \in RaidKeys :
                Cardinality({r \in S : T[r].key = k}) <= CompletionsIn(CompletionSummary(T, c, p), k)
<1>1. S \subseteq CompletedBy(T, c, p)
      /\ Cardinality(S) = Min({PageLimit, Cardinality(CompletedBy(T, c, p))})
  BY DEF RecentCompletions
<1>2. ASSUME NEW k \in RaidKeys
      PROVE  Cardinality({r \in S : T[r].key = k}) <= CompletionsIn(CompletionSummary(T, c, p), k)
  <2>1. {r \in S : T[r].key = k} \subseteq Cleared(T, c, p, k)
    BY <1>1 DEF Cleared
  <2>2. IsFiniteSet(Cleared(T, c, p, k))
    BY ClearedIs
  <2>3. Cardinality({r \in S : T[r].key = k}) <= Cardinality(Cleared(T, c, p, k))
    BY <2>1, <2>2, FS_Subset
  <2> QED
    BY <2>3, CompletionsInIs
<1> QED
  BY <1>1, <1>2, CompletionsAddUp

\* The rows of one teammate, over all membership types, count the raids together.
LEMMA RunsWithIs ==
    ASSUME NEW T, IsTable(T), NEW c, NEW p, NEW k \in RaidKeys, NEW q \in People \ {p}
    PROVE  RunsWith(TeammateSummary(T, c, p), k, q) = Cardinality(Together(T, c, p, k, q))
<1> DEFINE mates == TeammateSummary(T, c, p)
           D == {y \in DOMAIN mates : y[1] = k /\ y[2] = q}
           As(m) == TogetherAs(T, c, p, k, q, m)
           Types == {m \in MembershipTypes : As(m) # {}}
           named == [m \in Types |-> <<k, q, m>>]
           f == [x \in D |-> mates[x]]
           part == [x \in D |-> As(x[3])]
<1>1. DOMAIN mates = {y \in RaidKeys \X (People \ {p}) \X MembershipTypes :
                        TogetherAs(T, c, p, y[1], y[2], y[3]) # {}}
      /\ \A x \in DOMAIN mates : mates[x] = Cardinality(TogetherAs(T, c, p, x[1], x[2], x[3]))
  BY DEF TeammateSummary
<1> HIDE DEF mates
<1>2. \A x \in D : x = <<k, q, x[3]>> /\ x[3] \in Types
  BY <1>1
<1>3. \A m \in Types : <<k, q, m>> \in D /\ <<k, q, m>>[3] = m
  BY <1>1
<1>4. IsFiniteSet(D)
  <2>1. Types \subseteq MembershipTypes
    OBVIOUS
  <2>2. IsFiniteSet(Types)
    BY <2>1, ReadsAssumption, FS_Subset
  <2>3. D = {named[m] : m \in Types} /\ DOMAIN named = Types
    <3> HIDE DEF D, Types
    <3> QED
      BY <1>2, <1>3
  <2> HIDE DEF D, Types, named
  <2> QED
    BY <2>2, <2>3, ImageIsFinite
<1>5. \A m : As(m) \subseteq Together(T, c, p, k, q)
  BY DEF TogetherAs
<1>6. IsFiniteSet(Together(T, c, p, k, q))
  <2>1. Together(T, c, p, k, q) \subseteq Cleared(T, c, p, k)
    BY DEF Together
  <2> QED
    BY <2>1, ClearedIs, FS_Subset
<1>7. \A x \in D : f[x] = Cardinality(part[x]) /\ IsFiniteSet(part[x])
  <2> SUFFICES ASSUME NEW x \in D PROVE f[x] = Cardinality(part[x]) /\ IsFiniteSet(part[x])
    OBVIOUS
  <2>1. mates[x] = Cardinality(As(x[3]))
    BY <1>1
  <2>2. IsFiniteSet(As(x[3]))
    BY <1>5, <1>6, FS_Subset
  <2> QED
    BY <2>1, <2>2
<1>8. \A m, n : m # n => As(m) \cap As(n) = {}
  BY DEF TogetherAs
<1>9. DOMAIN f = D /\ DOMAIN part = D /\ \A x \in D : part[x] = As(x[3])
  OBVIOUS
<1>10. \A r \in Together(T, c, p, k, q) : T[r].entries[q].type \in Types /\ r \in As(T[r].entries[q].type)
  <2> SUFFICES ASSUME NEW r \in Together(T, c, p, k, q)
               PROVE  T[r].entries[q].type \in Types /\ r \in As(T[r].entries[q].type)
    OBVIOUS
  <2>1. r \in KeyedIn(T, c) /\ q \in Party(T, r)
    BY ClearedIs DEF Together
  <2>2. IsRow(T[r])
    BY <2>1, KeyedIs
  <2>3. T[r].entries[q] \in RunRecord
    BY <2>1, <2>2 DEF IsRow, Party
  <2>4. T[r].entries[q].type \in MembershipTypes
    BY <2>3 DEF RunRecord
  <2> QED
    BY <2>4 DEF TogetherAs
<1> HIDE DEF f, part, D, Types, As
<1>11. \A x, y \in D : x # y => part[x] \cap part[y] = {}
  BY <1>2, <1>8, <1>9
<1>12. Counts(f, part)
  BY <1>4, <1>7, <1>9, <1>11 DEF Counts
<1>13. SumFunction(f) = Cardinality(AllOf(part, DOMAIN f))
  BY <1>12, SumOfSizes
<1>14. AllOf(part, DOMAIN f) = Together(T, c, p, k, q)
  <2>1. AllOf(part, DOMAIN f) \subseteq Together(T, c, p, k, q)
    BY <1>5, <1>9 DEF AllOf
  <2>2. ASSUME NEW r \in Together(T, c, p, k, q) PROVE r \in AllOf(part, DOMAIN f)
    <3> DEFINE x == <<k, q, T[r].entries[q].type>>
    <3>1. x \in D /\ x[3] = T[r].entries[q].type
      BY <1>3, <1>10
    <3>2. r \in part[x]
      BY <1>9, <1>10, <3>1
    <3> HIDE DEF x
    <3> QED
      BY <1>9, <3>1, <3>2 DEF AllOf
  <2> QED
    BY <2>1, <2>2
<1> QED
  BY <1>13, <1>14 DEF RunsWith, f, D, mates

LEMMA MatesAgree ==
    ASSUME NEW T, IsTable(T), NEW c, NEW p \in People, NEW k \in RaidKeys, NEW q \in People \ {p}
    PROVE  /\ RunsWith(TeammateSummary(T, c, p), k, q) = RunsWith(TeammateSummary(T, c, q), k, p)
           /\ RunsWith(TeammateSummary(T, c, p), k, q) <= CompletionsIn(CompletionSummary(T, c, p), k)
<1>1. Together(T, c, p, k, q) = Together(T, c, q, k, p)
  BY ClearedIs DEF Together, Completion
<1>2. Together(T, c, p, k, q) \subseteq Cleared(T, c, p, k)
  BY DEF Together
<1>3. Cardinality(Together(T, c, p, k, q)) <= Cardinality(Cleared(T, c, p, k))
  BY <1>2, ClearedIs, FS_Subset
<1> QED
  BY <1>1, <1>3, RunsWithIs, CompletionsInIs

LEMMA NoFilterPasses == ASSUME NEW T, NEW r PROVE Passes(T, r, NoFilter)
BY DEF Passes, NoFilter

\* A group of the board of one raid is somebody with completions of it.
LEMMA BoardGroups ==
    ASSUME NEW T, IsTable(T), NEW c, NEW k \in RaidKeys
    PROVE  LET S == Grouped(T, c, {k}, NoFilter)
               summary(p) == CompletionSummary(T, c, p)
           IN  /\ AreGroups(S)
               /\ \A x \in S : /\ x.player \in People /\ k \in DOMAIN summary(x.player)
                               /\ x.completions = summary(x.player)[k].completions
               /\ \A p \in People : k \in DOMAIN summary(p) => \E x \in S : x.player = p
<1> DEFINE S == Grouped(T, c, {k}, NoFilter)
<1>0. ASSUME NEW p
      PROVE  k \in DOMAIN CompletionSummary(T, c, p) <=> Cleared(T, c, p, k) # {}
  <2>1. DOMAIN CompletionSummary(T, c, p) = {j \in RaidKeys : Cleared(T, c, p, j) # {}}
    BY SummaryIs
  <2> QED
    BY <2>1
<1>1. ASSUME NEW p PROVE Counted(T, c, p, {k}, NoFilter) = Cleared(T, c, p, k)
  <2>1. \A r \in InWindow(T, c) :
          r \in Counted(T, c, p, {k}, NoFilter) <=> Completion(T, r, p) /\ T[r].key = k
    BY NoFilterPasses DEF Counted
  <2>2. \A r \in InWindow(T, c) : T[r].key = k => r \in KeyedIn(T, c)
    BY KeyedIs
  <2>3. Counted(T, c, p, {k}, NoFilter) \subseteq InWindow(T, c)
    BY DEF Counted
  <2>4. Cleared(T, c, p, k) = {r \in KeyedIn(T, c) : Completion(T, r, p) /\ T[r].key = k}
    BY ClearedIs
  <2>5. KeyedIn(T, c) \subseteq InWindow(T, c)
    BY KeyedIs
  <2> QED
    BY <2>1, <2>2, <2>3, <2>4, <2>5
<1>2. \A x \in S : \E p \in People :
        /\ Cleared(T, c, p, k) # {}
        /\ x = [player |-> p, completions |-> Cardinality(Cleared(T, c, p, k)),
                last |-> LastClear(T, Cleared(T, c, p, k))]
  BY <1>1 DEF Grouped
<1>3. \A p \in People : Cleared(T, c, p, k) # {} => \E x \in S : x.player = p
  <2> SUFFICES ASSUME NEW p \in People, Cleared(T, c, p, k) # {} PROVE \E x \in S : x.player = p
    OBVIOUS
  <2>1. Counted(T, c, p, {k}, NoFilter) # {}
    BY <1>1
  <2>2. GroupOf(T, c, {k}, NoFilter, p) \in S
    BY <2>1 DEF Grouped, GroupOf
  <2>3. GroupOf(T, c, {k}, NoFilter, p).player = p
    BY DEF GroupOf
  <2> QED
    BY <2>2, <2>3
<1>4. ASSUME NEW p, Cleared(T, c, p, k) # {} PROVE LastClear(T, Cleared(T, c, p, k)) \in Nat
  <2> DEFINE C == Cleared(T, c, p, k)
             g == [r \in C |-> T[r].ended]
  <2>1. DOMAIN g = C /\ {g[r] : r \in C} = {T[r].ended : r \in C}
    OBVIOUS
  <2>2. IsFiniteSet(C)
    BY ClearedIs
  <2>3. \A r \in C : T[r].ended \in Nat
    BY ClearedIs, KeyedIs DEF IsRow
  <2>4. {T[r].ended : r \in C} \subseteq Nat /\ {T[r].ended : r \in C} # {}
    BY <1>4, <2>3
  <2> HIDE DEF g, C
  <2>5. IsFiniteSet({g[r] : r \in C})
    BY <2>1, <2>2, ImageIsFinite
  <2>6. IsFiniteSet({T[r].ended : r \in C})
    BY <2>1, <2>5
  <2>7. Max({T[r].ended : r \in C}) \in {T[r].ended : r \in C}
    BY <2>4, <2>6, MaxIs
  <2> QED
    BY <2>4, <2>7 DEF LastClear, C
<1> HIDE DEF S
<1>5. AreGroups(S)
  <2>1. IsFiniteSet(S)
    BY GroupedIsFinite DEF S
  <2>2. \A x \in S : IsGroup(x)
    BY <1>2, <1>4, ClearedIs, ReadsAssumption DEF IsGroup
  <2>3. \A x, y \in S : x.player = y.player => x = y
    BY <1>2
  <2> QED
    BY <2>1, <2>2, <2>3 DEF AreGroups
<1>6. \A x \in S : /\ x.player \in People /\ k \in DOMAIN CompletionSummary(T, c, x.player)
                   /\ x.completions = CompletionSummary(T, c, x.player)[k].completions
  <2> SUFFICES ASSUME NEW x \in S
               PROVE  /\ x.player \in People /\ k \in DOMAIN CompletionSummary(T, c, x.player)
                      /\ x.completions = CompletionSummary(T, c, x.player)[k].completions
    OBVIOUS
  <2>1. PICK p \in People : /\ Cleared(T, c, p, k) # {} /\ x.player = p
                            /\ x.completions = Cardinality(Cleared(T, c, p, k))
    BY <1>2
  <2>2. k \in DOMAIN CompletionSummary(T, c, p)
    BY <1>0, <2>1
  <2>3. CompletionSummary(T, c, p)[k].completions = Cardinality(Cleared(T, c, p, k))
    BY <2>2, SummaryIs
  <2> QED
    BY <2>1, <2>2, <2>3
<1>7. \A p \in People : k \in DOMAIN CompletionSummary(T, c, p) => \E x \in S : x.player = p
  BY <1>0, <1>3
<1> QED
  BY <1>5, <1>6, <1>7 DEF S

LEMMA BoardAgrees ==
    ASSUME NEW T, IsTable(T), NEW c, NEW k \in RaidKeys,
           NEW i \in DOMAIN LeaderboardRows(T, c, {k}, CachedLimit, NoFilter)
    PROVE  LET row == LeaderboardRows(T, c, {k}, CachedLimit, NoFilter)[i]
               summary(p) == CompletionSummary(T, c, p)
           IN  /\ row.player \in People
               /\ row.completions = summary(row.player)[k].completions
               /\ row.rank = 1 + Cardinality({p \in People :
                                   k \in DOMAIN summary(p) /\ summary(p)[k].completions > row.completions})
<1> DEFINE S == Grouped(T, c, {k}, NoFilter)
           row == LeaderboardRows(T, c, {k}, CachedLimit, NoFilter)[i]
           summary(p) == CompletionSummary(T, c, p)
           P == {p \in People : k \in DOMAIN summary(p) /\ summary(p)[k].completions > row.completions}
<1>1. /\ AreGroups(S)
      /\ \A x \in S : /\ x.player \in People /\ k \in DOMAIN summary(x.player)
                      /\ x.completions = summary(x.player)[k].completions
      /\ \A p \in People : k \in DOMAIN summary(p) => \E x \in S : x.player = p
  BY BoardGroups
<1>2. i \in 1 .. Cardinality(S) /\ row = RowAt(S, i)
  <2>1. CachedLimit \in Nat /\ Cardinality(S) \in Nat
    BY ReadsAssumption, GroupedIsFinite
  <2>2. PICK n \in Nat : n = Min({CachedLimit, Cardinality(S)}) /\ n <= Cardinality(S)
    BY <2>1, LeastOfTwo
  <2>3. LeaderboardRows(T, c, {k}, CachedLimit, NoFilter) = [j \in 1 .. n |-> RowAt(S, j)]
    BY <2>2 DEF LeaderboardRows
  <2> HIDE DEF S
  <2>4. i \in 1 .. n
    BY <2>3
  <2> QED
    BY <2>1, <2>2, <2>3, <2>4
<1> HIDE DEF S, row, summary
<1>3. Ranking(S)[i] \in S /\ row.player = Ranking(S)[i].player
      /\ row.completions = Ranking(S)[i].completions
  BY <1>1, <1>2, RankingIs DEF RowAt
<1>4. row.player \in People /\ row.completions = summary(row.player)[k].completions
  BY <1>1, <1>3
<1>5. row.rank = 1 + Cardinality(MoreThan(S, row.completions))
  BY <1>1, <1>2, RankIsCount
<1>6. Cardinality(MoreThan(S, row.completions)) = Cardinality(P)
  <2> DEFINE M == MoreThan(S, row.completions)
             g == [x \in M |-> x.player]
  <2>1. IsFiniteSet(M)
    <3>1. M \subseteq S
      BY DEF MoreThan
    <3> QED
      BY <1>1, <3>1, FS_Subset DEF AreGroups
  <2>2. \A x \in M : x.player \in P
    BY <1>1 DEF MoreThan
  <2>3. \A p \in P : \E x \in M : x.player = p
    BY <1>1 DEF MoreThan
  <2>4. \A x, y \in M : x.player = y.player => x = y
    BY <1>1 DEF MoreThan, AreGroups
  <2> HIDE DEF M, P
  <2>5. g \in Bijection(M, P)
    BY <2>2, <2>3, <2>4 DEF Bijection, Injection, Surjection, IsInjective
  <2>6. ExistsBijection(M, P)
    BY <2>5 DEF ExistsBijection
  <2> QED
    BY <2>1, <2>6, FS_Bijection DEF M
<1> QED
  BY <1>4, <1>5, <1>6 DEF row, summary

\* The runs of the completions of a player.
RunOf(T, r, p) == [raid |-> r, player |-> p, row |-> T[r].entries[p]]

LEMMA RunsOfAre ==
    ASSUME NEW T, IsTable(T), NEW c, NEW k \in RaidKeys, NEW s
    PROVE  /\ \A x \in RunsOf(T, c, k, NoFilter, s) :
                \E r \in KeyedIn(T, c) : \E p \in Party(T, r) :
                  x = RunOf(T, r, p) /\ T[r].key = k /\ InScope(T, r, s)
           /\ \A r \in KeyedIn(T, c) : \A p \in Party(T, r) :
                T[r].key = k /\ InScope(T, r, s) => RunOf(T, r, p) \in RunsOf(T, c, k, NoFilter, s)
<1> DEFINE Y == {y \in KeyedIn(T, c) \X People :
                   /\ y[2] \in Party(T, y[1]) /\ T[y[1]].key = k
                   /\ Passes(T, y[1], NoFilter) /\ InScope(T, y[1], s)}
<1>1. RunsOf(T, c, k, NoFilter, s) = {RunOf(T, y[1], y[2]) : y \in Y}
  BY DEF RunsOf, RunOf
<1>2. \A y \in Y : /\ y[1] \in KeyedIn(T, c) /\ y[2] \in Party(T, y[1]) /\ T[y[1]].key = k
                   /\ InScope(T, y[1], s)
  OBVIOUS
<1>3. ASSUME NEW r \in KeyedIn(T, c), NEW p \in Party(T, r), T[r].key = k, InScope(T, r, s)
      PROVE  <<r, p>> \in Y
  <2>1. p \in People
    <3>1. r \in InWindow(T, c)
      BY KeyedIs
    <3> QED
      BY <3>1, KeyedIs
  <2> QED
    BY <1>3, <2>1, NoFilterPasses
<1>4. \A r, p : <<r, p>>[1] = r /\ <<r, p>>[2] = p
  OBVIOUS
<1> HIDE DEF Y
<1>5. \A x \in RunsOf(T, c, k, NoFilter, s) :
        \E r \in KeyedIn(T, c) : \E p \in Party(T, r) :
          x = RunOf(T, r, p) /\ T[r].key = k /\ InScope(T, r, s)
  BY <1>1, <1>2
<1>6. ASSUME NEW r \in KeyedIn(T, c), NEW p \in Party(T, r), T[r].key = k, InScope(T, r, s)
      PROVE  RunOf(T, r, p) \in RunsOf(T, c, k, NoFilter, s)
  <2>1. <<r, p>> \in Y
    BY <1>3, <1>6
  <2>2. RunOf(T, <<r, p>>[1], <<r, p>>[2]) \in RunsOf(T, c, k, NoFilter, s)
    BY <1>1, <2>1
  <2> QED
    BY <1>4, <2>2
<1> QED
  BY <1>5, <1>6

LEMMA SamplesAreNested ==
    ASSUME NEW T, IsTable(T), NEW c, NEW k \in RaidKeys
    PROVE  Cardinality(RunsOf(T, c, k, NoFilter, "fullClear"))
             <= Cardinality(RunsOf(T, c, k, NoFilter, "allAttempts"))
<1>1. \A r : InScope(T, r, "allAttempts")
  BY DEF InScope
<1>2. RunsOf(T, c, k, NoFilter, "fullClear") \subseteq RunsOf(T, c, k, NoFilter, "allAttempts")
  <2> SUFFICES ASSUME NEW x \in RunsOf(T, c, k, NoFilter, "fullClear")
               PROVE  x \in RunsOf(T, c, k, NoFilter, "allAttempts")
    OBVIOUS
  <2>1. PICK r \in KeyedIn(T, c) : \E p \in Party(T, r) : x = RunOf(T, r, p) /\ T[r].key = k
    BY RunsOfAre
  <2> QED
    BY <1>1, <2>1, RunsOfAre
<1>3. IsFiniteSet(RunsOf(T, c, k, NoFilter, "allAttempts"))
  BY RunsAreRuns
<1> QED
  BY <1>2, <1>3, FS_Subset

\* Every completion is a run of a full clear.
LEMMA CompletionsAreSampled ==
    ASSUME NEW T, IsTable(T), NEW c, NEW k \in RaidKeys
    PROVE  SumFunction([p \in {x \in People : k \in DOMAIN CompletionSummary(T, c, x)} |->
                          CompletionSummary(T, c, p)[k].completions])
             <= Cardinality(RunsOf(T, c, k, NoFilter, "fullClear"))
<1> DEFINE P == {x \in People : k \in DOMAIN CompletionSummary(T, c, x)}
           f == [p \in P |-> CompletionSummary(T, c, p)[k].completions]
           Runs(p) == {RunOf(T, r, p) : r \in Cleared(T, c, p, k)}
           part == [p \in P |-> Runs(p)]
<1>1. IsFiniteSet(P)
  <2>1. P \subseteq People
    OBVIOUS
  <2> QED
    BY <2>1, ReadsAssumption, FS_Subset
<1>2. ASSUME NEW p \in P PROVE f[p] = Cardinality(Runs(p)) /\ IsFiniteSet(Runs(p))
  <2> DEFINE C == Cleared(T, c, p, k)
             g == [r \in C |-> RunOf(T, r, p)]
  <2>1. f[p] = Cardinality(C)
    <3>1. CompletionSummary(T, c, p)[k].completions = Cardinality(C)
      BY SummaryIs
    <3> QED
      BY <3>1
  <2>2. IsFiniteSet(C)
    BY ClearedIs
  <2>3. \A r, q \in C : RunOf(T, r, p) = RunOf(T, q, p) => r = q
    BY DEF RunOf
  <2>4. \A r \in C : RunOf(T, r, p) \in Runs(p)
    OBVIOUS
  <2>5. \A x \in Runs(p) : \E r \in C : RunOf(T, r, p) = x
    OBVIOUS
  <2> HIDE DEF C, Runs
  <2>6. g \in Bijection(C, Runs(p))
    BY <2>3, <2>4, <2>5 DEF Bijection, Injection, Surjection, IsInjective
  <2>7. ExistsBijection(C, Runs(p))
    BY <2>6 DEF ExistsBijection
  <2> QED
    BY <2>1, <2>2, <2>7, FS_Bijection
<1>3. \A p, q \in P : p # q => Runs(p) \cap Runs(q) = {}
  BY DEF RunOf
<1>4. \A p \in P : Runs(p) \subseteq RunsOf(T, c, k, NoFilter, "fullClear")
  <2> SUFFICES ASSUME NEW p \in P, NEW r \in Cleared(T, c, p, k)
               PROVE  RunOf(T, r, p) \in RunsOf(T, c, k, NoFilter, "fullClear")
    OBVIOUS
  <2>1. r \in KeyedIn(T, c) /\ Completion(T, r, p) /\ T[r].key = k
    BY ClearedIs
  <2>2. p \in Party(T, r) /\ InScope(T, r, "fullClear")
    BY <2>1 DEF Completion, InScope
  <2> QED
    BY <2>1, <2>2, RunsOfAre
<1>5. DOMAIN f = P /\ DOMAIN part = P /\ \A p \in P : part[p] = Runs(p)
  OBVIOUS
<1> HIDE DEF f, part, Runs, P
<1>6. Counts(f, part)
  BY <1>1, <1>2, <1>3, <1>5 DEF Counts
<1>7. SumFunction(f) = Cardinality(AllOf(part, DOMAIN f))
  BY <1>6, SumOfSizes
<1>8. AllOf(part, DOMAIN f) \subseteq RunsOf(T, c, k, NoFilter, "fullClear")
  BY <1>4, <1>5 DEF AllOf
<1>9. IsFiniteSet(RunsOf(T, c, k, NoFilter, "fullClear"))
  BY RunsAreRuns
<1>10. Cardinality(AllOf(part, DOMAIN f)) <= Cardinality(RunsOf(T, c, k, NoFilter, "fullClear"))
  BY <1>8, <1>9, FS_Subset
<1> QED
  BY <1>7, <1>10 DEF f, P

\* The raids that a filter leaves of a key.
InstancesOf(T, c, f, k) == {r \in KeyedIn(T, c) : T[r].key = k /\ Passes(T, r, f)}

LEMMA StatsAre ==
    ASSUME NEW T, NEW c, NEW f
    PROVE  /\ DOMAIN RaidStats(T, c, f) = {k \in RaidKeys : InstancesOf(T, c, f, k) # {}}
           /\ \A k \in DOMAIN RaidStats(T, c, f) :
                /\ RaidStats(T, c, f)[k].instances = Cardinality(InstancesOf(T, c, f, k))
                /\ \A s \in Scopes : RaidStats(T, c, f)[k].scope[s].sampleSize
                                       = Cardinality(RunsOf(T, c, k, f, s))
BY DEF RaidStats, InstancesOf, ScopeStats

OfDifficulty(d) == [NoFilter EXCEPT !.difficulty = d]

\* Every raid is of one of the two difficulties.
LEMMA DifficultiesAddUp ==
    ASSUME NEW T, IsTable(T), NEW c, NEW k \in RaidKeys
    PROVE  Cardinality(InstancesOf(T, c, NoFilter, k)) = SumFunction([d \in {"normal", "master"} |->
             LET part == RaidStats(T, c, [NoFilter EXCEPT !.difficulty = d])
             IN  IF k \in DOMAIN part THEN part[k].instances ELSE 0])
<1> DEFINE D == {"normal", "master"}
           f == [d \in D |-> LET part == RaidStats(T, c, [NoFilter EXCEPT !.difficulty = d])
                             IN  IF k \in DOMAIN part THEN part[k].instances ELSE 0]
           part == [d \in D |-> InstancesOf(T, c, OfDifficulty(d), k)]
<1>1. ASSUME NEW d \in D
      PROVE  IsFiniteSet(InstancesOf(T, c, OfDifficulty(d), k))
             /\ f[d] = Cardinality(InstancesOf(T, c, OfDifficulty(d), k))
  <2> DEFINE I == InstancesOf(T, c, OfDifficulty(d), k)
             stats == RaidStats(T, c, OfDifficulty(d))
  <2>1. IsFiniteSet(I)
    <3>1. I \subseteq KeyedIn(T, c)
      BY DEF InstancesOf
    <3> QED
      BY <3>1, KeyedIs, FS_Subset
  <2>2. f[d] = IF k \in DOMAIN stats THEN stats[k].instances ELSE 0
    BY DEF OfDifficulty
  <2>3. k \in DOMAIN stats <=> I # {}
    <3>1. DOMAIN stats = {j \in RaidKeys : InstancesOf(T, c, OfDifficulty(d), j) # {}}
      BY StatsAre
    <3> QED
      BY <3>1
  <2>4. k \in DOMAIN stats => stats[k].instances = Cardinality(I)
    BY StatsAre
  <2>5. I = {} => Cardinality(I) = 0
    BY FS_EmptySet
  <2> HIDE DEF I, stats, f
  <2> QED
    BY <2>1, <2>2, <2>3, <2>4, <2>5 DEF I
<1>2. IsFiniteSet(D)
  <2>1. D = {"normal"} \cup {"master"}
    OBVIOUS
  <2>2. IsFiniteSet({"normal"}) /\ IsFiniteSet({"master"})
    BY FS_Singleton
  <2>3. IsFiniteSet({"normal"} \cup {"master"})
    BY <2>2, FS_Union
  <2> QED
    BY <2>1, <2>3
<1>3. \A r : /\ Passes(T, r, OfDifficulty("master")) <=> T[r].tier > 0
             /\ Passes(T, r, OfDifficulty("normal")) <=> T[r].tier <= 0
  BY DEF Passes, OfDifficulty, NoFilter
<1>4. \A r \in KeyedIn(T, c) : T[r].tier \in Int
  BY KeyedIs DEF IsRow
<1>5. part["normal"] \cap part["master"] = {}
  BY <1>3, <1>4 DEF InstancesOf
<1>6. part["normal"] \cup part["master"] = InstancesOf(T, c, NoFilter, k)
  BY <1>3, <1>4, NoFilterPasses DEF InstancesOf
<1>7. DOMAIN f = D /\ DOMAIN part = D /\ \A d \in D : part[d] = InstancesOf(T, c, OfDifficulty(d), k)
  OBVIOUS
<1> HIDE DEF f, part
<1>8. \A d, e \in D : d # e => part[d] \cap part[e] = {}
  BY <1>5
<1>9. Counts(f, part)
  <2> HIDE DEF D
  <2> QED
    BY <1>1, <1>2, <1>7, <1>8 DEF Counts
<1>10. SumFunction(f) = Cardinality(AllOf(part, DOMAIN f))
  BY <1>9, SumOfSizes
<1>11. AllOf(part, DOMAIN f) = part["normal"] \cup part["master"]
  BY <1>7 DEF AllOf
<1> QED
  BY <1>6, <1>10, <1>11 DEF f

LEMMA FullClearsAgree ==
    ASSUME NEW T, IsTable(T), NEW c
    PROVE  FullClearCount(T, c) = Cardinality({x.raid : x \in
             UNION {RunsOf(T, c, k, NoFilter, "fullClear") : k \in RaidKeys}})
<1> DEFINE A == {r \in KeyedIn(T, c) : FullClear(T, r)}
           R == UNION {RunsOf(T, c, k, NoFilter, "fullClear") : k \in RaidKeys}
<1>1. ASSUME NEW r \in A PROVE \E x \in R : x.raid = r
  <2>1. PICK p \in Party(T, r) : TRUE
    <3>1. T[r].completed /\ IsRow(T[r])
      BY KeyedIs DEF FullClear
    <3> QED
      BY <3>1 DEF IsRow, Party
  <2>2. T[r].key \in RaidKeys /\ InScope(T, r, "fullClear")
    BY KeyedIs DEF InScope
  <2>3. RunOf(T, r, p) \in RunsOf(T, c, T[r].key, NoFilter, "fullClear")
    BY <2>2, RunsOfAre
  <2>4. RunOf(T, r, p).raid = r
    BY DEF RunOf
  <2> QED
    BY <2>2, <2>3, <2>4
<1>2. ASSUME NEW x \in R PROVE x.raid \in A
  <2>1. PICK k \in RaidKeys : x \in RunsOf(T, c, k, NoFilter, "fullClear")
    OBVIOUS
  <2>2. PICK r \in KeyedIn(T, c) : \E p \in Party(T, r) : x = RunOf(T, r, p) /\ InScope(T, r, "fullClear")
    BY <2>1, RunsOfAre
  <2>3. x.raid = r /\ FullClear(T, r)
    BY <2>2 DEF RunOf, InScope
  <2> QED
    BY <2>3
<1> HIDE DEF R
<1>3. A = {x.raid : x \in R}
  <2> HIDE DEF A
  <2> QED
    BY <1>1, <1>2
<1> QED
  BY <1>3 DEF FullClearCount, A, R

LEMMA QueriesOfTable ==
    ASSUME NEW T, IsTable(T), NEW c
    PROVE  QueriesOfAgree(T, c)
<1> DEFINE stats == RaidStats(T, c, NoFilter)
           summary == [p \in People |-> CompletionSummary(T, c, p)]
           mates == [p \in People |-> TeammateSummary(T, c, p)]
<1>1. ASSUME NEW p \in People
      PROVE  LET perf == PerformanceStats(T, c, p) IN
             /\ DOMAIN perf = DOMAIN summary[p]
             /\ \A k \in DOMAIN perf :
                  /\ perf[k].completions = summary[p][k].completions
                  /\ perf[k].took = summary[p][k].took
                  /\ perf[k].completions + perf[k].unfinished <= perf[k].attempts
  BY PerformanceAgrees
<1>2. ASSUME NEW p \in People, NEW S \in RecentCompletions(T, c, p, PageLimit)
      PROVE  /\ Cardinality(S) = Min({PageLimit,
                  SumFunction([k \in DOMAIN summary[p] |-> summary[p][k].completions])})
             /\ \A k \in RaidKeys :
                  Cardinality({r \in S : T[r].key = k}) <= CompletionsIn(summary[p], k)
  BY RecentAgrees
<1>3. ASSUME NEW p \in People, NEW k \in RaidKeys, NEW q \in People \ {p}
      PROVE  /\ RunsWith(mates[p], k, q) = RunsWith(mates[q], k, p)
             /\ RunsWith(mates[p], k, q) <= CompletionsIn(summary[p], k)
  BY MatesAgree
<1>4. ASSUME NEW k \in RaidKeys, NEW i \in DOMAIN LeaderboardRows(T, c, {k}, CachedLimit, NoFilter)
      PROVE  LET list == LeaderboardRows(T, c, {k}, CachedLimit, NoFilter) IN
             /\ list[i].completions = summary[list[i].player][k].completions
             /\ list[i].rank = 1 + Cardinality({p \in People :
                  k \in DOMAIN summary[p] /\ summary[p][k].completions > list[i].completions})
  <2> DEFINE row == LeaderboardRows(T, c, {k}, CachedLimit, NoFilter)[i]
  <2>1. /\ row.player \in People
        /\ row.completions = CompletionSummary(T, c, row.player)[k].completions
        /\ row.rank = 1 + Cardinality({p \in People : k \in DOMAIN CompletionSummary(T, c, p)
                            /\ CompletionSummary(T, c, p)[k].completions > row.completions})
    BY BoardAgrees
  <2>2. {p \in People : k \in DOMAIN CompletionSummary(T, c, p)
                          /\ CompletionSummary(T, c, p)[k].completions > row.completions}
          = {p \in People : k \in DOMAIN summary[p] /\ summary[p][k].completions > row.completions}
    <3> HIDE DEF row
    <3> QED
      OBVIOUS
  <2> HIDE DEF row
  <2>3. /\ row.completions = summary[row.player][k].completions
        /\ row.rank = 1 + Cardinality({p \in People :
                            k \in DOMAIN summary[p] /\ summary[p][k].completions > row.completions})
    BY <2>1, <2>2
  <2> QED
    BY <2>3 DEF row
<1>5. ASSUME NEW k \in DOMAIN stats
      PROVE  /\ stats[k].scope["fullClear"].sampleSize <= stats[k].scope["allAttempts"].sampleSize
             /\ SumFunction([p \in {x \in People : k \in DOMAIN summary[x]} |-> summary[p][k].completions])
                  <= stats[k].scope["fullClear"].sampleSize
             /\ stats[k].instances = SumFunction([d \in {"normal", "master"} |->
                  LET part == RaidStats(T, c, [NoFilter EXCEPT !.difficulty = d])
                  IN  IF k \in DOMAIN part THEN part[k].instances ELSE 0])
  <2>1. /\ k \in RaidKeys /\ stats[k].instances = Cardinality(InstancesOf(T, c, NoFilter, k))
        /\ \A s \in Scopes : stats[k].scope[s].sampleSize = Cardinality(RunsOf(T, c, k, NoFilter, s))
    <3>1. DOMAIN stats = {j \in RaidKeys : InstancesOf(T, c, NoFilter, j) # {}}
      BY StatsAre
    <3> QED
      BY <3>1, StatsAre
  <2>2. "fullClear" \in Scopes /\ "allAttempts" \in Scopes
    BY DEF Scopes
  <2>3. [p \in {x \in People : k \in DOMAIN summary[x]} |-> summary[p][k].completions]
          = [p \in {x \in People : k \in DOMAIN CompletionSummary(T, c, x)} |->
               CompletionSummary(T, c, p)[k].completions]
    OBVIOUS
  <2> HIDE DEF stats, summary
  <2>4. stats[k].scope["fullClear"].sampleSize <= stats[k].scope["allAttempts"].sampleSize
    BY <2>1, <2>2, SamplesAreNested
  <2>5. SumFunction([p \in {x \in People : k \in DOMAIN summary[x]} |-> summary[p][k].completions])
          <= stats[k].scope["fullClear"].sampleSize
    BY <2>1, <2>2, <2>3, CompletionsAreSampled
  <2>6. stats[k].instances = SumFunction([d \in {"normal", "master"} |->
          LET part == RaidStats(T, c, [NoFilter EXCEPT !.difficulty = d])
          IN  IF k \in DOMAIN part THEN part[k].instances ELSE 0])
    BY <2>1, DifficultiesAddUp
  <2> QED
    BY <2>4, <2>5, <2>6
<1>6. FullClearCount(T, c) = Cardinality({x.raid : x \in
        UNION {RunsOf(T, c, k, NoFilter, "fullClear") : k \in RaidKeys}})
  BY FullClearsAgree
<1> HIDE DEF stats, summary, mates
<1> QED
  BY <1>1, <1>2, <1>3, <1>4, <1>5, <1>6 DEF QueriesOfAgree, stats, summary, mates

\* The queries of queries.ts and leaderboard-cache.ts, written apart from each other,
\* agree on any stored raids.
THEOREM TablesQueriesAgree == TableSpec => []QueriesAgree
<1>1. TableTypeOK => QueriesAgree
  <2> SUFFICES ASSUME TableTypeOK PROVE QueriesAgree
    OBVIOUS
  <2>1. IsTable(table)
    BY StoredTable
  <2> QED
    BY <2>1, QueriesOfTable DEF QueriesAgree
<1> QED
  BY <1>1, TableIsTable, PTL
=============================================================================
