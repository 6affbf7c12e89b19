--------------------------- MODULE SnowballProofs ---------------------------
(***************************************************************************)
(* Safety of the discovery beside the other writers of the raid store, for *)
(* every number of workers, players, raids and waves, every history and    *)
(* every report; and what is found when nothing fails.  Liveness is        *)
(* MCSnowball's.                                                           *)
(***************************************************************************)
EXTENDS Snowball, FiniteSetTheorems, FunctionTheorems, WellFoundedInduction, TLAPS

(***************************************************************************)
(* The longest span of a report.                                           *)
(***************************************************************************)

\* A member of F that no other member is part of.
HasSmallest(F) == \E U \in F : \A V \in F : V \subseteq U => V = U

\* A set of subsets of a finite set has one.
LEMMA SmallestSubset ==
    ASSUME NEW S, IsFiniteSet(S), NEW F, F \subseteq SUBSET S, F # {}
    PROVE  HasSmallest(F)
<1>1. IsWellFoundedOn(StrictSubsetOrdering(S), SUBSET S)
  BY FS_StrictSubsetOrderingWellFounded, FS_FiniteSubsetsOfFinite
<1>2. \E U \in F : \A V \in F : ~ (<<V, U>> \in StrictSubsetOrdering(S))
  BY <1>1, WFMin
<1> QED
  BY <1>2 DEF StrictSubsetOrdering, HasSmallest

Above(S, x) == {o \in S : o > x}

\* The greater a number, the fewer lie above it.
LEMMA AboveIsSmaller ==
    ASSUME NEW S, S \subseteq Int, NEW x \in S, NEW y \in S, y > x
    PROVE  Above(S, y) \subseteq Above(S, x) /\ Above(S, y) # Above(S, x)
<1>1. \A o \in S : o > y => o > x
  OBVIOUS
<1>2. y \in Above(S, x)
  BY DEF Above
<1>3. y \notin Above(S, y)
  BY DEF Above
<1> QED
  BY <1>1, <1>2, <1>3 DEF Above

\* The Max of a finite set of integers is one of them.
LEMMA MaxIsMember ==
    ASSUME NEW S, S \subseteq Int, IsFiniteSet(S), S # {}
    PROVE  Max(S) \in S
<1> DEFINE F == {Above(S, x) : x \in S}
<1>1. F \subseteq SUBSET S /\ F # {}
  BY DEF Above
<1> HIDE DEF F
<1>2. HasSmallest(F)
  BY <1>1, SmallestSubset
<1>3. PICK x \in S : \A V \in F : V \subseteq Above(S, x) => V = Above(S, x)
  BY <1>2 DEF F, HasSmallest
<1>4. \A y \in S : ~ (y > x)
  BY <1>3, AboveIsSmaller DEF F
<1>5. \A y \in S : x >= y
  BY <1>4
<1> QED
  BY <1>5 DEF Max

\* computeActivityDurationSeconds gives a number of seconds.
LEMMA DurationIsNat ==
    ASSUME NEW x, IsReport(x)
    PROVE  DurationOf(x) \in Nat
<1> DEFINE D == DOMAIN x.entries
           spans == {x.entries[p].span : p \in D}
           f == [p \in D |-> x.entries[p].span]
<1>1. IsFiniteSet(D)
  BY StoreAssumption, FS_Subset DEF IsReport
<1>2. f \in Surjection(D, spans)
  BY DEF Surjection
<1>3. IsFiniteSet(spans)
  BY <1>1, <1>2, FS_Surjection
<1>4. IsFiniteSet(spans \cup {0})
  BY <1>3, FS_AddElement
<1>5. spans \subseteq Nat
  BY DEF IsReport, Entry
<1> HIDE DEF spans
<1>6. Max(spans \cup {0}) \in Nat
  <2> DEFINE S == spans \cup {0}
  <2>1. S \subseteq Int /\ S \subseteq Nat /\ S # {} /\ IsFiniteSet(S)
    BY <1>4, <1>5
  <2> HIDE DEF S
  <2>2. Max(S) \in S
    BY <2>1, MaxIsMember
  <2> QED
    BY <2>1, <2>2 DEF S
<1> QED
  BY <1>6 DEF DurationOf, IsReport, spans

(***************************************************************************)
(* Types.                                                                  *)
(***************************************************************************)

\* The raids a worker has in hand.
Carry(x) == x.todo \cup x.got \cup ({x.raid} \ {"none"})

\* What the stage of a worker says of the rest of it.
Fits(x) ==
    /\ x.stage # "idle" => x.player \in Players
    /\ x.stage = "characters" => x.char = 1
    /\ x.stage = "history" => x.char \in 1 .. Len(History[x.player])
    /\ x.stage = "request" <=> x.raid # "none"

WorkerTypes ==
    /\ worker \in [Workers -> WorkerState]
    /\ \A w \in Workers : Fits(worker[w]) /\ Carry(worker[w]) \subseteq claimed
    /\ phase # "wave" => \A w \in Workers : worker[w] = Idle

RunTypes ==
    /\ phase \in {"wave", "over", "done", "crashed"} /\ depth \in 0 .. MaxDepth
    /\ phase = "wave" => depth < MaxDepth
    /\ wave \subseteq Players /\ next \subseteq found /\ found \subseteq Players
    /\ completions \in [Players -> Nat]
    /\ taken \subseteq Players /\ claimed \subseteq Raids /\ counted \subseteq claimed
    /\ troubles \in 0 .. MaxTroubles

TypeInv == StoreTypeOK /\ WorkerTypes /\ RunTypes

LEMMA ReportsAreReports ==
    ASSUME StoreTypeOK, NEW r \in Raids
    PROVE  IsReport(report[r]) /\ EndedAt(r) \in Nat /\ Party(r) \subseteq Players
<1>1. IsReport(report[r])
  BY StoreAssumption DEF StoreTypeOK
<1>2. DurationOf(report[r]) \in Nat
  BY <1>1, DurationIsNat
<1>3. report[r].period \in Nat
  BY <1>1 DEF IsReport
<1>4. Party(r) \subseteq Players
  BY <1>1 DEF IsReport, Party
<1>5. EndedAt(r) \in Nat
  BY <1>2, <1>3 DEF EndedAt
<1> QED
  BY <1>1, <1>4, <1>5

LEMMA MetArePlayers ==
    ASSUME StoreTypeOK, NEW S, S \subseteq Raids
    PROVE  Met(S) \subseteq Players
BY ReportsAreReports DEF Met

\* insertFullPGCR keeps the types of the tables.
LEMMA InsertKeepsTypes ==
    ASSUME StoreTypeOK, NEW r \in Raids, InsertFullPGCR(r),
           UNCHANGED <<now, report, players, cutoff, orphans>>, pending' \subseteq Players
    PROVE  StoreTypeOK'
<1>1. EndedAt(r) \in Nat /\ Party(r) \subseteq Players
  BY ReportsAreReports
<1>2. Stored' \subseteq Raids /\ \A q \in Stored' : pgcrs'[q] \in Nat
  BY <1>1 DEF InsertFullPGCR, StoreTypeOK, Stored
<1>3. seen' \in [Players -> Nat] /\ \A p \in Players \ players' : seen'[p] = 0
  BY <1>1 DEF InsertFullPGCR, StoreTypeOK, SeenAfter
<1>4. strangers' \subseteq Raids \X Players
  BY <1>1 DEF InsertFullPGCR, StoreTypeOK
<1> QED
  BY <1>2, <1>3, <1>4 DEF StoreTypeOK

\* bulkUpsertPlayers does too.
LEMMA UpsertKeepsTypes ==
    ASSUME StoreTypeOK, NEW S, S \subseteq Players, players' = Upserted(S),
           UNCHANGED <<now, report, pgcrs, seen, cutoff, orphans, strangers>>,
           pending' \subseteq Players
    PROVE  StoreTypeOK'
BY DEF StoreTypeOK, Upserted, Stored

\* So does a batch of the cleanup.
LEMMA DeleteKeepsTypes ==
    ASSUME StoreTypeOK, DeleteBatch
    PROVE  StoreTypeOK'
<1>1. PICK B \in SUBSET Expired :
         /\ pgcrs' = [r \in Stored \ B |-> pgcrs[r]]
         /\ strangers' = {s \in strangers : s[1] \notin B}
         /\ cutoff' \in {0, cutoff}
  BY DEF DeleteBatch, Restrict
<1>2. Stored' = Stored \ B /\ \A r \in Stored' : pgcrs'[r] = pgcrs[r]
  BY <1>1 DEF Stored
<1>3. Stored' \subseteq Raids /\ \A r \in Stored' : pgcrs'[r] \in Nat
  BY <1>2 DEF StoreTypeOK
<1>4. strangers' \subseteq Raids \X Players /\ cutoff' \in Nat
  BY <1>1 DEF StoreTypeOK
<1> QED
  BY <1>3, <1>4 DEF StoreTypeOK, DeleteBatch

\* What the other writers do keeps the types of the tables.
LEMMA OthersKeepTypes ==
    ASSUME StoreTypeOK, OthersStep
    PROVE  StoreTypeOK'
<1>1. CASE \E r \in Raids : OtherStores(r)
  <2>1. PICK r \in Raids : OtherStores(r)
    BY <1>1
  <2>2. pending' \subseteq Players
    BY <2>1, ReportsAreReports DEF OtherStores, StoreTypeOK
  <2> QED
    BY <2>1, <2>2, InsertKeepsTypes DEF OtherStores
<1>2. CASE OtherUpserts
  <2>1. pending \subseteq Players /\ pending' \subseteq Players
    BY <1>2 DEF OtherUpserts, StoreTypeOK
  <2> QED
    BY <1>2, <2>1, UpsertKeepsTypes DEF OtherUpserts
<1>3. CASE OtherCrashes
  BY <1>3 DEF OtherCrashes, StoreTypeOK, Stored
<1>4. CASE BeginCleanup
  <2>1. now \in Nat /\ cutoff' \in Nat
    BY <1>4, StoreAssumption DEF BeginCleanup, StoreTypeOK
  <2> QED
    BY <1>4, <2>1 DEF BeginCleanup, StoreTypeOK, Stored
<1>5. CASE DeleteBatch
  BY <1>5, DeleteKeepsTypes
<1>6. CASE Tick
  <2>1. now' \in FirstTime .. MaxTime
    BY <1>6, StoreAssumption DEF Tick, StoreTypeOK
  <2> QED
    BY <1>6, <2>1 DEF Tick, StoreTypeOK, Stored
<1> QED
  BY <1>1, <1>2, <1>3, <1>4, <1>5, <1>6 DEF OthersStep

(***************************************************************************)
(* The workers.                                                            *)
(***************************************************************************)

LEMMA IdleFits == Idle \in WorkerState /\ Fits(Idle) /\ Carry(Idle) = {}
BY DEF Idle, WorkerState, Fits, Carry

\* A worker goes on as y, claims the raids of C and has those of D counted.
GoesTo(w, y, C, D) ==
    /\ phase = "wave" /\ phase' = phase
    /\ y \in WorkerState /\ Fits(y) /\ worker' = [worker EXCEPT ![w] = y]
    /\ C \subseteq Raids /\ C \cap claimed = {} /\ claimed' = claimed \cup C
    /\ D \subseteq Carry(worker[w]) /\ counted' = counted \cup D
    /\ Carry(y) \subseteq (Carry(worker[w]) \cup C) \ D

Goes(w) == \E y, C, D : GoesTo(w, y, C, D)

LEMMA WorkerFacts ==
    ASSUME WorkerTypes, NEW w \in Workers
    PROVE  worker[w] \in WorkerState /\ Fits(worker[w]) /\ Carry(worker[w]) \subseteq claimed
BY DEF WorkerTypes

LEMMA TakeGoes ==
    ASSUME WorkerTypes, NEW w \in Workers, NEW p \in Players, Take(w, p)
    PROVE  Goes(w)
<1> DEFINE y == [Idle EXCEPT !.stage = "characters", !.player = p, !.char = 1]
<1>1. y \in WorkerState /\ Fits(y) /\ Carry(y) = {}
  BY DEF Idle, WorkerState, Fits, Carry
<1>2. worker' = [worker EXCEPT ![w] = y]
  BY DEF Take, WorkerTypes, Idle
<1> HIDE DEF y
<1>3. GoesTo(w, y, {}, {})
  BY <1>1, <1>2 DEF Take, Running, RunUnchanged, GoesTo
<1> QED
  BY <1>3 DEF Goes

LEMMA GotCharactersGoes ==
    ASSUME WorkerTypes, NEW w \in Workers, GotCharacters(w)
    PROVE  Goes(w)
<1> DEFINE x == worker[w]
           y == [x EXCEPT !.stage = IF Characters(w) = 0 THEN "fetch" ELSE "history"]
<1>1. x \in WorkerState /\ Fits(x) /\ x.stage = "characters"
  BY WorkerFacts DEF GotCharacters
<1>2. worker' = [worker EXCEPT ![w] = y]
  BY DEF GotCharacters, WorkerTypes
<1>3. y \in WorkerState /\ y.raid = x.raid /\ y.char = x.char /\ y.player = x.player
        /\ Carry(y) = Carry(x)
  BY <1>1 DEF WorkerState, Carry
<1>4. Len(History[x.player]) \in Nat
  BY <1>1, SnowballAssumption DEF Fits
<1>5. y.stage = IF Characters(w) = 0 THEN "fetch" ELSE "history"
  BY <1>1 DEF WorkerState
<1>6. Fits(y)
  BY <1>1, <1>3, <1>4, <1>5 DEF Fits, Characters
<1>7. phase = "wave" /\ phase' = phase /\ claimed' = claimed /\ counted' = counted
  BY DEF GotCharacters, Running, RunUnchanged
<1> HIDE DEF y
<1>8. GoesTo(w, y, {}, {})
  BY <1>2, <1>3, <1>6, <1>7 DEF GoesTo
<1> QED
  BY <1>8 DEF Goes

LEMMA GotHistoryGoes ==
    ASSUME WorkerTypes, RunTypes, NEW w \in Workers, GotHistory(w)
    PROVE  Goes(w)
<1> DEFINE x == worker[w]
           fresh == History[x.player][x.char] \ claimed
           stage == IF x.char = Characters(w) THEN "fetch" ELSE x.stage
           y == [x EXCEPT !.todo = x.todo \cup fresh, !.char = x.char + 1, !.stage = stage]
<1>1. x \in WorkerState /\ Fits(x) /\ x.stage = "history"
  BY WorkerFacts DEF GotHistory
<1>2. worker' = [worker EXCEPT ![w] = y]
  BY DEF GotHistory, WorkerTypes
<1>3. x.player \in Players /\ x.char \in 1 .. Len(History[x.player])
  BY <1>1 DEF Fits
<1>4. History[x.player] \in Seq(SUBSET Raids) /\ Len(History[x.player]) \in Nat
  BY <1>3, SnowballAssumption
<1>5. fresh \subseteq Raids /\ fresh \cap claimed = {}
  BY <1>3, <1>4
<1> HIDE DEF fresh
<1>6. stage \in {"fetch", "history"} /\ (stage = "history" => x.char # Characters(w))
  BY <1>1
<1>7. y \in WorkerState
  <2>1. x.char + 1 \in Nat /\ x.todo \cup fresh \subseteq Raids
    BY <1>1, <1>5 DEF WorkerState
  <2> HIDE DEF stage, x
  <2> QED
    BY <1>1, <1>6, <2>1 DEF WorkerState
<1>8. y.stage = stage /\ y.raid = x.raid /\ y.player = x.player /\ y.char = x.char + 1
        /\ y.todo = x.todo \cup fresh /\ y.got = x.got
  BY <1>1 DEF WorkerState
<1>9. Fits(y)
  <2>1. x.raid = "none"
    BY <1>1 DEF Fits
  <2>2. x.char # Characters(w) => x.char + 1 \in 1 .. Len(History[x.player])
    BY <1>3, <1>4 DEF Characters
  <2> QED
    BY <1>3, <1>6, <1>8, <2>1, <2>2 DEF Fits
<1>10. Carry(y) \subseteq Carry(x) \cup fresh
  BY <1>8 DEF Carry
<1>11. phase = "wave" /\ phase' = phase /\ claimed' = claimed \cup fresh /\ counted' = counted
  BY DEF GotHistory, Running, RunUnchanged, Claim, fresh
<1> HIDE DEF y
<1>12. GoesTo(w, y, fresh, {})
  BY <1>2, <1>5, <1>7, <1>9, <1>10, <1>11 DEF GoesTo
<1> QED
  BY <1>12 DEF Goes

LEMMA LostHistoryGoes ==
    ASSUME WorkerTypes, NEW w \in Workers, LostHistory(w)
    PROVE  Goes(w)
<1> DEFINE x == worker[w]
           stage == IF x.char = Characters(w) THEN "fetch" ELSE x.stage
           y == [x EXCEPT !.stage = "fetch"]
           z == [x EXCEPT !.char = x.char + 1, !.stage = stage]
<1>1. x \in WorkerState /\ Fits(x) /\ x.stage = "history"
  BY WorkerFacts DEF LostHistory
<1>2. x.player \in Players /\ x.char \in 1 .. Len(History[x.player]) /\ x.raid = "none"
  BY <1>1 DEF Fits
<1>3. Len(History[x.player]) \in Nat
  BY <1>2, SnowballAssumption
<1>4. phase = "wave" /\ phase' = phase /\ claimed' = claimed /\ counted' = counted
  BY DEF LostHistory, Running, RunUnchanged
<1>5. CASE worker' = [worker EXCEPT ![w] = y]
  <2>1. y \in WorkerState /\ Carry(y) = Carry(x) /\ y.stage = "fetch" /\ y.raid = x.raid
          /\ y.player = x.player
    BY <1>1 DEF WorkerState, Carry
  <2>2. Fits(y)
    BY <1>2, <2>1 DEF Fits
  <2> HIDE DEF y
  <2>3. GoesTo(w, y, {}, {})
    BY <1>4, <1>5, <2>1, <2>2 DEF GoesTo
  <2> QED
    BY <2>3 DEF Goes
<1>6. CASE worker' = [worker EXCEPT ![w] = z]
  <2>1. stage \in {"fetch", "history"} /\ (stage = "history" => x.char # Characters(w))
    BY <1>1
  <2>2. z \in WorkerState
    <3>1. x.char + 1 \in Nat
      BY <1>1 DEF WorkerState
    <3> HIDE DEF stage, x
    <3> QED
      BY <1>1, <2>1, <3>1 DEF WorkerState
  <2>3. Carry(z) = Carry(x) /\ z.stage = stage /\ z.raid = x.raid
          /\ z.player = x.player /\ z.char = x.char + 1
    BY <1>1 DEF WorkerState, Carry
  <2>4. x.char # Characters(w) => x.char + 1 \in 1 .. Len(History[x.player])
    BY <1>2, <1>3 DEF Characters
  <2>5. Fits(z)
    BY <1>2, <2>1, <2>3, <2>4 DEF Fits
  <2> HIDE DEF z
  <2>6. GoesTo(w, z, {}, {})
    BY <1>4, <1>6, <2>2, <2>3, <2>5 DEF GoesTo
  <2> QED
    BY <2>6 DEF Goes
<1>7. worker' = [worker EXCEPT ![w] = y] \/ worker' = [worker EXCEPT ![w] = z]
  BY DEF LostHistory, WorkerTypes
<1> QED
  BY <1>5, <1>6, <1>7

LEMMA LookUpGoes ==
    ASSUME WorkerTypes, NEW w \in Workers, NEW r \in Raids, LookUp(w, r)
    PROVE  Goes(w)
<1> DEFINE x == worker[w]
           stage == IF r \in Stored THEN x.stage ELSE "request"
           raid == IF r \in Stored THEN x.raid ELSE r
           y == [x EXCEPT !.todo = x.todo \ {r}, !.stage = stage, !.raid = raid]
<1>1. x \in WorkerState /\ Fits(x) /\ x.stage = "fetch" /\ r \in x.todo
  BY WorkerFacts DEF LookUp
<1>2. worker' = [worker EXCEPT ![w] = y]
  BY DEF LookUp, WorkerTypes
<1>3. x.raid = "none" /\ x.player \in Players /\ r # "none"
  BY <1>1, SnowballAssumption DEF Fits
<1>4. y \in WorkerState
  BY <1>1 DEF WorkerState
<1>5. y.stage = stage /\ y.raid = raid /\ y.player = x.player
        /\ y.todo = x.todo \ {r} /\ y.got = x.got
  BY <1>1 DEF WorkerState
<1>6. Fits(y)
  BY <1>1, <1>3, <1>5 DEF Fits
<1>7. Carry(y) \subseteq Carry(x)
  BY <1>1, <1>3, <1>5 DEF Carry
<1>8. phase = "wave" /\ phase' = phase /\ claimed' = claimed /\ counted' = counted
  BY DEF LookUp, Running, RunUnchanged
<1> HIDE DEF y
<1>9. GoesTo(w, y, {}, {})
  BY <1>2, <1>4, <1>6, <1>7, <1>8 DEF GoesTo
<1> QED
  BY <1>9 DEF Goes

LEMMA AnsweredGoes ==
    ASSUME WorkerTypes, NEW w \in Workers, Answered(w)
    PROVE  Goes(w)
<1> DEFINE x == worker[w]
           y == [x EXCEPT !.stage = "fetch", !.raid = "none", !.got = x.got \cup {x.raid}]
<1>1. x \in WorkerState /\ Fits(x) /\ x.stage = "request"
  BY WorkerFacts DEF Answered
<1>2. worker' = [worker EXCEPT ![w] = y]
  BY DEF Answered, WorkerTypes
<1>3. x.raid \in Raids /\ x.raid # "none" /\ x.player \in Players
  BY <1>1 DEF Fits, WorkerState
<1>4. y \in WorkerState
  BY <1>1, <1>3 DEF WorkerState
<1>5. y.stage = "fetch" /\ y.raid = "none" /\ y.player = x.player
        /\ y.todo = x.todo /\ y.got = x.got \cup {x.raid}
  BY <1>1 DEF WorkerState
<1>6. Fits(y) /\ Carry(y) \subseteq Carry(x)
  BY <1>3, <1>5 DEF Fits, Carry
<1>7. phase = "wave" /\ phase' = phase /\ claimed' = claimed /\ counted' = counted
  BY DEF Answered, Running, RunUnchanged
<1> HIDE DEF y
<1>8. GoesTo(w, y, {}, {})
  BY <1>2, <1>4, <1>6, <1>7 DEF GoesTo
<1> QED
  BY <1>8 DEF Goes

LEMMA RequestFailsGoes ==
    ASSUME WorkerTypes, NEW w \in Workers, RequestFails(w)
    PROVE  Goes(w)
<1> DEFINE x == worker[w]
           y == [x EXCEPT !.stage = "fetch", !.raid = "none"]
<1>1. x \in WorkerState /\ Fits(x) /\ x.stage = "request"
  BY WorkerFacts DEF RequestFails
<1>2. worker' = [worker EXCEPT ![w] = y]
  BY DEF RequestFails, WorkerTypes
<1>3. y \in WorkerState
  BY <1>1 DEF WorkerState
<1>4. y.stage = "fetch" /\ y.raid = "none" /\ y.player = x.player
        /\ y.todo = x.todo /\ y.got = x.got
  BY <1>1 DEF WorkerState
<1>5. Fits(y) /\ Carry(y) \subseteq Carry(x)
  BY <1>1, <1>4 DEF Fits, Carry
<1>6. phase = "wave" /\ phase' = phase /\ claimed' = claimed /\ counted' = counted
  BY DEF RequestFails, Running, RunUnchanged
<1> HIDE DEF y
<1>7. GoesTo(w, y, {}, {})
  BY <1>2, <1>3, <1>5, <1>6 DEF GoesTo
<1> QED
  BY <1>7 DEF Goes

LEMMA TaskFailsGoes ==
    ASSUME NEW w \in Workers, TaskFails(w)
    PROVE  Goes(w)
<1>1. GoesTo(w, Idle, {}, {})
  BY IdleFits DEF TaskFails, Running, RunUnchanged, GoesTo
<1> QED
  BY <1>1 DEF Goes

\* Here the raids of the task are counted.
LEMMA TaskEndsGoes ==
    ASSUME NEW w \in Workers, TaskEnds(w)
    PROVE  Goes(w)
<1>1. worker[w].got \subseteq Carry(worker[w])
  BY DEF Carry
<1>2. GoesTo(w, Idle, {}, worker[w].got)
  BY <1>1, IdleFits DEF TaskEnds, Running, GoesTo
<1> QED
  BY <1>2 DEF Goes

\* The steps of the workers: what follows is about all of them at once.
LEMMA WorkersGo ==
    ASSUME WorkerTypes, RunTypes, NEW w \in Workers,
           WorkerStep(w) \/ LostHistory(w) \/ RequestFails(w) \/ TaskFails(w)
    PROVE  Goes(w)
BY TakeGoes, GotCharactersGoes, GotHistoryGoes, LostHistoryGoes, LookUpGoes, AnsweredGoes,
   RequestFailsGoes, TaskFailsGoes, TaskEndsGoes DEF WorkerStep

LEMMA GoesKeepsWorkers ==
    ASSUME WorkerTypes, NEW w \in Workers, Goes(w)
    PROVE  WorkerTypes'
<1>1. PICK y, C, D : GoesTo(w, y, C, D)
  BY DEF Goes
<1>2. worker' \in [Workers -> WorkerState]
  BY <1>1 DEF GoesTo, WorkerTypes
<1>3. \A v \in Workers : Fits(worker'[v]) /\ Carry(worker'[v]) \subseteq claimed'
  <2> SUFFICES ASSUME NEW v \in Workers
               PROVE  Fits(worker'[v]) /\ Carry(worker'[v]) \subseteq claimed'
    OBVIOUS
  <2>1. worker'[v] = IF v = w THEN y ELSE worker[v]
    BY <1>1 DEF GoesTo, WorkerTypes
  <2>2. Fits(y) /\ Carry(y) \subseteq Carry(worker[w]) \cup C /\ claimed' = claimed \cup C
    BY <1>1 DEF GoesTo
  <2> QED
    BY <2>1, <2>2 DEF WorkerTypes
<1> QED
  BY <1>1, <1>2, <1>3 DEF GoesTo, WorkerTypes

\* The workers that do not move: the rest of the steps.
LEMMA OthersKeepWorkers ==
    ASSUME WorkerTypes, EndWave \/ Finish \/ Crash \/ Others \/ UNCHANGED vars
    PROVE  WorkerTypes'
<1>1. CASE Crash
  <2>1. worker' \in [Workers -> WorkerState] /\ \A w \in Workers : worker'[w] = Idle
    BY <1>1, IdleFits DEF Crash
  <2> QED
    BY <2>1, IdleFits DEF WorkerTypes
<1>2. CASE ~ Crash
  <2>1. worker' = worker /\ claimed' = claimed
    BY <1>2 DEF EndWave, Finish, Others, vars, runVars
  <2>2. phase' # "wave" => \A w \in Workers : worker[w] = Idle
    BY <1>2 DEF EndWave, Finish, Others, vars, runVars, WorkerTypes, Running
  <2> QED
    BY <2>1, <2>2 DEF WorkerTypes
<1> QED
  BY <1>1, <1>2

(***************************************************************************)
(* A raid is claimed by one task.                                          *)
(***************************************************************************)

\* What a worker claims nobody had claimed, and what is counted it lets go.
LEMMA GoesKeepsClaims ==
    ASSUME WorkerTypes, counted \subseteq claimed, ClaimedOnce, NEW w \in Workers, Goes(w)
    PROVE  ClaimedOnce' /\ counted' \subseteq claimed' /\ claimed' \subseteq claimed \cup Raids
<1>1. PICK y, C, D : GoesTo(w, y, C, D)
  BY DEF Goes
<1> DEFINE X(v) == Carry(worker[v])
           Y(v) == Carry(worker'[v])
<1>2. \A v \in Workers : v # w => Y(v) = X(v)
  BY <1>1 DEF GoesTo, WorkerTypes
<1>3. Y(w) \subseteq (X(w) \cup C) \ D
  BY <1>1 DEF GoesTo, WorkerTypes
<1>4. \A v \in Workers : X(v) \subseteq claimed
  BY DEF WorkerTypes
<1>5. C \cap claimed = {} /\ claimed' = claimed \cup C /\ C \subseteq Raids
        /\ D \subseteq X(w) /\ counted' = counted \cup D
  BY <1>1 DEF GoesTo
<1>6. \A u, v \in Workers : (u # v => X(u) \cap X(v) = {}) /\ X(u) \cap counted = {}
  BY DEF ClaimedOnce, Carry
<1> HIDE DEF X, Y
<1>7. \A v \in Workers : v # w => Y(w) \cap Y(v) = {}
  BY <1>2, <1>3, <1>4, <1>5, <1>6
<1>8. \A v \in Workers : Y(v) \cap counted' = {}
  BY <1>2, <1>3, <1>4, <1>5, <1>6
<1>9. \A u, v \in Workers : (u # v => Y(u) \cap Y(v) = {}) /\ Y(u) \cap counted' = {}
  BY <1>2, <1>6, <1>7, <1>8
<1>10. ClaimedOnce'
  BY <1>9 DEF ClaimedOnce, Carry, Y
<1> QED
  BY <1>4, <1>5, <1>10

LEMMA OthersKeepClaims ==
    ASSUME ClaimedOnce, EndWave \/ Finish \/ Crash \/ Others \/ UNCHANGED vars
    PROVE  ClaimedOnce' /\ counted' = counted /\ claimed' = claimed
<1>1. counted' = counted /\ claimed' = claimed
  BY DEF EndWave, Finish, Crash, Others, vars, runVars
<1>2. CASE Crash
  <2>1. \A w \in Workers : Carry(worker'[w]) = {}
    BY <1>2, IdleFits DEF Crash
  <2> QED
    BY <1>1, <2>1 DEF ClaimedOnce, Carry
<1>3. CASE ~ Crash
  <2>1. worker' = worker
    BY <1>3 DEF EndWave, Finish, Others, vars, runVars
  <2> QED
    BY <1>1, <2>1 DEF ClaimedOnce
<1> QED
  BY <1>1, <1>2, <1>3

(***************************************************************************)
(* The invariant of the types, and ClaimedOnce.                            *)
(***************************************************************************)

\* The raids a worker got are a finite set of raids.
LEMMA GotAreRaids ==
    ASSUME StoreTypeOK, WorkerTypes, NEW w \in Workers
    PROVE  LET got == worker[w].got
           IN  /\ got \subseteq Raids /\ Met(got) \subseteq Players
               /\ \A p \in Players : Added(got, p) \in Nat
<1> DEFINE got == worker[w].got
<1>1. got \subseteq Raids
  BY WorkerFacts DEF WorkerState
<1> HIDE DEF got
<1>2. Met(got) \subseteq Players
  BY <1>1, MetArePlayers
<1>3. ASSUME NEW p \in Players
      PROVE  Added(got, p) \in Nat
  <2>1. With(got, p) \subseteq Raids /\ Clears(got, p) \subseteq Raids
    BY <1>1 DEF With, Clears
  <2>2. IsFiniteSet(With(got, p)) /\ IsFiniteSet(Clears(got, p))
    BY <2>1, FS_Subset, StoreAssumption
  <2>3. Cardinality(With(got, p)) \in Nat /\ Cardinality(Clears(got, p)) \in Nat
    BY <2>2, FS_CardinalityType
  <2> QED
    BY <2>3 DEF Added
<1> QED
  BY <1>1, <1>2, <1>3 DEF got

LEMMA StoreTypesStep ==
    ASSUME TypeInv, [Next]_vars
    PROVE  StoreTypeOK'
<1> USE DEF TypeInv
<1>1. ASSUME NEW w \in Workers, Answered(w)
      PROVE  StoreTypeOK'
  <2>1. worker[w].raid \in Raids
    BY <1>1, WorkerFacts DEF Answered, Fits, WorkerState
  <2>2. pending' \subseteq Players
    BY <1>1 DEF Answered, StoreTypeOK
  <2> QED
    BY <1>1, <2>1, <2>2, InsertKeepsTypes DEF Answered
<1>2. ASSUME NEW w \in Workers, TaskFails(w)
      PROVE  StoreTypeOK'
  <2>1. orphans' \subseteq Players
    BY <1>2, GotAreRaids DEF TaskFails, StoreTypeOK
  <2> QED
    BY <1>2, <2>1 DEF TaskFails, StoreTypeOK, Stored
<1>3. CASE Crash
  <2>1. orphans' \subseteq Players
    BY <1>3, GotAreRaids DEF Crash, StoreTypeOK, RunTypes
  <2> QED
    BY <1>3, <2>1 DEF Crash, StoreTypeOK, Stored
<1>4. CASE EndWave
  BY <1>4, UpsertKeepsTypes DEF EndWave, RunTypes, StoreTypeOK
<1>5. CASE Finish
  BY <1>5, UpsertKeepsTypes DEF Finish, RunTypes, StoreTypeOK
<1>6. CASE Others
  BY <1>6, OthersKeepTypes DEF Others
<1>7. ASSUME UNCHANGED storeVars
      PROVE  StoreTypeOK'
  BY <1>7 DEF storeVars, StoreTypeOK, Stored
<1>8. ASSUME NEW w \in Workers,
             \/ \E p \in Players : Take(w, p)
             \/ GotCharacters(w) \/ GotHistory(w) \/ TaskEnds(w)
             \/ \E r \in Raids : LookUp(w, r)
             \/ LostHistory(w) \/ RequestFails(w)
      PROVE  UNCHANGED storeVars
  BY <1>8 DEF Take, GotCharacters, GotHistory, TaskEnds, LookUp, LostHistory, RequestFails
<1> QED
  BY <1>1, <1>2, <1>3, <1>4, <1>5, <1>6, <1>7, <1>8
     DEF Next, RunStep, WorkerStep, Failures, vars

\* The steps that change neither the waves nor what was found.
LEMMA QuietKeepsRun ==
    ASSUME RunTypes, claimed' \subseteq Raids, counted' \subseteq claimed',
           UNCHANGED <<phase, depth, next, found, completions>>,
           wave' \subseteq wave, taken' \subseteq Players, troubles' \in 0 .. MaxTroubles
    PROVE  RunTypes'
BY DEF RunTypes

LEMMA RunTypesStep ==
    ASSUME TypeInv, ClaimedOnce, [Next]_vars
    PROVE  RunTypes'
<1> USE DEF TypeInv
<1>1. troubles' \in 0 .. MaxTroubles
  <2>1. troubles' = troubles \/ Trouble
    BY DEF Next, RunStep, WorkerStep, Failures, Others, OthersStep, Take, GotCharacters,
           GotHistory, Answered, TaskEnds, LookUp, LostHistory, RequestFails, TaskFails,
           Crash, EndWave, Finish, vars, runVars
  <2> QED
    BY <2>1, SnowballAssumption DEF Trouble, RunTypes
<1>2. claimed' \subseteq Raids /\ counted' \subseteq claimed'
  BY WorkersGo, GoesKeepsClaims, OthersKeepClaims DEF RunTypes, Next, RunStep, Failures
<1>3. ASSUME NEW w \in Workers,
             \/ \E p \in Players : Take(w, p)
             \/ GotCharacters(w) \/ GotHistory(w) \/ Answered(w)
             \/ \E r \in Raids : LookUp(w, r)
             \/ LostHistory(w) \/ RequestFails(w) \/ TaskFails(w)
      PROVE  RunTypes'
  <2>1. UNCHANGED <<phase, depth, next, found, completions>>
          /\ wave' \subseteq wave /\ taken' \subseteq Players
    BY <1>3 DEF Take, GotCharacters, GotHistory, Answered, LookUp, LostHistory, RequestFails,
                TaskFails, RunUnchanged, RunTypes
  <2> QED
    BY <1>1, <1>2, <2>1, QuietKeepsRun
<1>4. ASSUME NEW w \in Workers, TaskEnds(w)
      PROVE  RunTypes'
  <2>1. Met(worker[w].got) \subseteq Players
    BY GotAreRaids
  <2>2. completions' \in [Players -> Nat]
    BY <1>4, GotAreRaids DEF TaskEnds, RunTypes
  <2>3. found' \subseteq Players /\ next' \subseteq found'
    BY <1>4, <2>1 DEF TaskEnds, RunTypes
  <2> QED
    BY <1>1, <1>2, <1>4, <2>2, <2>3 DEF TaskEnds, RunTypes
<1>5. CASE EndWave
  <2>1. depth' \in 0 .. MaxDepth /\ (phase' = "wave" => depth' < MaxDepth)
    BY <1>5, SnowballAssumption DEF EndWave, Running, LastWave, RunTypes
  <2>2. phase' \in {"wave", "over"}
    BY <1>5 DEF EndWave, Running
  <2>3. wave' \subseteq Players /\ next' = {}
    BY <1>5 DEF EndWave, RunTypes
  <2> QED
    BY <1>1, <1>2, <1>5, <2>1, <2>2, <2>3 DEF EndWave, RunTypes
<1>6. CASE Finish
  BY <1>1, <1>2, <1>6 DEF Finish, RunTypes
<1>7. CASE Crash
  BY <1>1, <1>2, <1>7 DEF Crash, RunTypes
<1>8. CASE Others \/ UNCHANGED vars
  <2>1. UNCHANGED <<phase, depth, wave, next, found, completions, taken>>
    BY <1>8 DEF Others, vars, runVars
  <2> QED
    BY <1>1, <1>2, <2>1, QuietKeepsRun DEF RunTypes
<1> QED
  BY <1>3, <1>4, <1>5, <1>6, <1>7, <1>8 DEF Next, RunStep, WorkerStep, Failures

SafeInv == TypeInv /\ ClaimedOnce

LEMMA SafeInit == Init => SafeInv
<1> SUFFICES ASSUME Init PROVE SafeInv
  OBVIOUS
<1>1. StoreTypeOK
  BY StoreAssumption DEF Init, StoreInit, StoreTypeOK, Stored
<1>2. WorkerTypes
  BY IdleFits DEF Init, WorkerTypes
<1>3. RunTypes
  BY SnowballAssumption DEF Init, RunTypes
<1>4. ClaimedOnce
  BY DEF Init, ClaimedOnce, Idle
<1> QED
  BY <1>1, <1>2, <1>3, <1>4 DEF SafeInv, TypeInv

LEMMA SafeStep == SafeInv /\ [Next]_vars => SafeInv'
<1> SUFFICES ASSUME SafeInv, [Next]_vars PROVE SafeInv'
  OBVIOUS
<1>1. StoreTypeOK'
  BY StoreTypesStep DEF SafeInv
<1>2. RunTypes'
  BY RunTypesStep DEF SafeInv
<1>3. \/ \E w \in Workers : Goes(w)
      \/ EndWave \/ Finish \/ Crash \/ Others \/ UNCHANGED vars
  BY WorkersGo DEF SafeInv, TypeInv, Next, RunStep, Failures
<1>4. WorkerTypes'
  BY <1>3, GoesKeepsWorkers, OthersKeepWorkers DEF SafeInv, TypeInv
<1>5. ClaimedOnce'
  BY <1>3, GoesKeepsClaims, OthersKeepClaims DEF SafeInv, TypeInv, RunTypes
<1> QED
  BY <1>1, <1>2, <1>4, <1>5 DEF SafeInv, TypeInv

LEMMA SafeAlways == Spec => []SafeInv
BY SafeInit, SafeStep, PTL DEF Spec

\* Every variable keeps its type, whatever is reported and in whatever order
\* workers, writers, cleanup and failures act.
THEOREM SnowballTypes == Spec => []TypeOK
<1>1. SafeInv => TypeOK
  BY DEF SafeInv, TypeInv, TypeOK, WorkerTypes, RunTypes
<1> QED
  BY <1>1, SafeAlways, PTL

\* processPlayer: however many workers find a raid at the same time, one task
\* fetches it, and it is counted once.
THEOREM SnowballClaimedOnce == Spec => []ClaimedOnce
<1>1. SafeInv => ClaimedOnce
  BY DEF SafeInv
<1> QED
  BY <1>1, SafeAlways, PTL

(***************************************************************************)
(* The players of a stored raid.                                           *)
(***************************************************************************)

\* Who has a row, is about to get one, or lost it in a failure.
Known == players \cup pending \cup Held \cup orphans

\* A step that stores nothing and loses nobody.
LEMMA NobodyLost ==
    ASSUME MembersAreKnown, report' = report, Stored' \subseteq Stored,
           Known \ Invalid \subseteq Known'
    PROVE  MembersAreKnown'
BY DEF MembersAreKnown, Known, Party

\* A step that stores a raid.
LEMMA PartyKnown ==
    ASSUME MembersAreKnown, report' = report, NEW r, InsertFullPGCR(r),
           Party(r) \subseteq Known', Known \ Invalid \subseteq Known'
    PROVE  MembersAreKnown'
<1>1. Stored' \subseteq Stored \cup {r}
  BY DEF InsertFullPGCR, Stored
<1>2. \A q \in Stored' : Party(q)' = Party(q) /\ Party(q) \ Invalid \subseteq Known'
  BY <1>1 DEF MembersAreKnown, Known, Party
<1> QED
  BY <1>2 DEF MembersAreKnown, Known

\* The discovery goes on with all it held.
LEMMA HeldKept ==
    ASSUME report' = report, phase' \in {"wave", "over"}, found \subseteq found',
           \A w \in Workers : worker[w].got \subseteq worker'[w].got
    PROVE  Held \subseteq Held'
BY DEF Held, Met, Party

LEMMA HeldSame ==
    ASSUME UNCHANGED <<report, phase, found, worker>>
    PROVE  Held' = Held
BY DEF Held, Met, Party

\* The steps of a worker that leave the tables alone and drop nothing.
LEMMA QuietKeepsMembers ==
    ASSUME TypeInv, MembersAreKnown, NEW w \in Workers,
           \/ \E p \in Players : Take(w, p)
           \/ GotCharacters(w) \/ GotHistory(w)
           \/ \E r \in Raids : LookUp(w, r)
           \/ LostHistory(w) \/ RequestFails(w)
    PROVE  MembersAreKnown'
<1>1. phase' \in {"wave", "over"} /\ found' = found /\ UNCHANGED storeVars
  BY DEF Take, GotCharacters, GotHistory, LookUp, LostHistory, RequestFails, Running,
         RunUnchanged
<1>3. \A v \in Workers : worker[v].got \subseteq worker'[v].got
  <2> SUFFICES ASSUME NEW v \in Workers
               PROVE  worker[v].got \subseteq worker'[v].got
    OBVIOUS
  <2>1. worker \in [Workers -> WorkerState]
    BY DEF TypeInv, WorkerTypes
  <2>2. CASE \E p \in Players : Take(w, p)
    <3>1. PICK p \in Players : Take(w, p)
      BY <2>2
    <3>2. worker' = [worker EXCEPT ![w].stage = "characters", ![w].player = p, ![w].char = 1]
      BY <3>1 DEF Take
    <3>3. worker'[v].got = worker[v].got
      BY <2>1, <3>2 DEF WorkerState
    <3> QED
      BY <3>3
  <2>3. CASE GotCharacters(w)
    BY <2>1, <2>3 DEF GotCharacters, WorkerState
  <2>4. CASE GotHistory(w)
    BY <2>1, <2>4 DEF GotHistory, WorkerState
  <2>5. CASE \E r \in Raids : LookUp(w, r)
    <3>1. PICK r \in Raids : LookUp(w, r)
      BY <2>5
    <3> DEFINE s == IF r \in Stored THEN worker[w].stage ELSE "request"
               q == IF r \in Stored THEN worker[w].raid ELSE r
    <3>2. worker' = [worker EXCEPT ![w].todo = @ \ {r}, ![w].stage = s, ![w].raid = q]
      BY <2>1, <3>1 DEF LookUp
    <3> HIDE DEF s, q
    <3>3. worker'[v].got = worker[v].got
      BY <2>1, <3>2 DEF WorkerState
    <3> QED
      BY <3>3
  <2>6. CASE LostHistory(w)
    BY <2>1, <2>6 DEF LostHistory, WorkerState
  <2>7. CASE RequestFails(w)
    BY <2>1, <2>7 DEF RequestFails, WorkerState
  <2> QED
    BY <2>2, <2>3, <2>4, <2>5, <2>6, <2>7
<1>4. Held \subseteq Held'
  BY <1>1, <1>3, HeldKept DEF storeVars
<1>5. Stored' = Stored
  BY <1>1 DEF storeVars, Stored
<1> QED
  BY <1>1, <1>4, <1>5, NobodyLost DEF storeVars, Known

LEMMA AnsweredKeepsMembers ==
    ASSUME TypeInv, MembersAreKnown, NEW w \in Workers, Answered(w)
    PROVE  MembersAreKnown'
<1> DEFINE r == worker[w].raid
<1>1. \A v \in Workers : worker[v] \in WorkerState
  BY DEF TypeInv, WorkerTypes
<1>2. \A v \in Workers : worker'[v].got = IF v = w THEN worker[v].got \cup {r} ELSE worker[v].got
  BY <1>1 DEF Answered, TypeInv, WorkerTypes, WorkerState
<1>3. phase' \in {"wave", "over"} /\ found' = found /\ InsertFullPGCR(r)
        /\ UNCHANGED <<report, players, pending, orphans>>
  BY DEF Answered, Running, RunUnchanged
<1> HIDE DEF r
<1>4. Held \subseteq Held'
  BY <1>2, <1>3, HeldKept
<1>5. Party(r) \subseteq Held'
  <2>1. PICK q \in Raids : q = r
    BY WorkerFacts DEF TypeInv, Answered, Fits, WorkerState, r
  <2>2. q \in worker'[w].got /\ Party(q)' = Party(q)
    BY <1>2, <1>3, <2>1 DEF Party
  <2>3. Party(q)' \subseteq Met(worker[w].got)'
    BY <2>2 DEF Met
  <2>4. Met(worker[w].got)' \subseteq Held'
    BY <1>3 DEF Held
  <2> QED
    BY <2>1, <2>2, <2>3, <2>4
<1> QED
  BY <1>3, <1>4, <1>5, PartyKnown DEF Known

\* Of the players of the tasks but one, nobody is lost when it turns idle.
LEMMA HeldButOne ==
    ASSUME TypeInv, NEW w \in Workers, worker' = [worker EXCEPT ![w] = Idle],
           report' = report, phase' \in {"wave", "over"}, found \subseteq found'
    PROVE  Held \subseteq Held' \cup Met(worker[w].got)
<1>1. \A v \in Workers : v # w => worker'[v] = worker[v]
  BY DEF TypeInv, WorkerTypes
<1> QED
  BY <1>1 DEF Held, Met, Party

LEMMA TaskFailsKeepsMembers ==
    ASSUME TypeInv, MembersAreKnown, NEW w \in Workers, TaskFails(w)
    PROVE  MembersAreKnown'
<1>1. Held \subseteq Held' \cup Met(worker[w].got)
  BY HeldButOne DEF TaskFails, Running, RunUnchanged
<1>2. Known \subseteq Known'
  BY <1>1 DEF Known, TaskFails
<1> QED
  BY <1>2, NobodyLost DEF TaskFails, Stored

LEMMA TaskEndsKeepsMembers ==
    ASSUME TypeInv, MembersAreKnown, NEW w \in Workers, TaskEnds(w)
    PROVE  MembersAreKnown'
<1>1. phase' \in {"wave", "over"} /\ found' = found \cup Met(worker[w].got)
        /\ UNCHANGED storeVars /\ worker' = [worker EXCEPT ![w] = Idle]
  BY DEF TaskEnds, Running
<1>2. Held \subseteq Held' \cup Met(worker[w].got)
  BY <1>1, HeldButOne DEF storeVars
<1>3. Met(worker[w].got) \subseteq Held'
  BY <1>1 DEF Held
<1>4. Known \subseteq Known'
  BY <1>1, <1>2, <1>3 DEF Known, storeVars
<1> QED
  BY <1>1, <1>4, NobodyLost DEF storeVars, Stored

LEMMA WavesKeepMembers ==
    ASSUME TypeInv, MembersAreKnown, EndWave \/ Finish \/ Crash
    PROVE  MembersAreKnown'
<1>1. CASE EndWave
  <2>1. phase' \in {"wave", "over"}
    BY <1>1 DEF EndWave, Running
  <2>2. Held \subseteq Held'
    BY <1>1, <2>1, HeldKept DEF EndWave
  <2>3. Known \subseteq Known'
    BY <1>1, <2>2 DEF Known, EndWave, Upserted
  <2> QED
    BY <1>1, <2>3, NobodyLost DEF EndWave, Stored
<1>2. CASE Finish
  <2>1. \A w \in Workers : worker[w] = Idle
    BY <1>2 DEF Finish, TypeInv, WorkerTypes
  <2>2. \A w \in Workers : worker[w].got = {}
    BY <2>1 DEF Idle
  <2>3. Held \subseteq found
    BY <2>2 DEF Held, Met
  <2>4. Known \ Invalid \subseteq Known'
    BY <1>2, <2>3 DEF Known, Finish, Upserted
  <2> QED
    BY <1>2, <2>4, NobodyLost DEF Finish, Stored
<1>3. CASE Crash
  <2>1. Known \subseteq Known'
    BY <1>3 DEF Known, Crash, Held
  <2> QED
    BY <1>3, <2>1, NobodyLost DEF Crash, Stored
<1> QED
  BY <1>1, <1>2, <1>3

LEMMA OthersKeepMembers ==
    ASSUME TypeInv, MembersAreKnown, Others \/ UNCHANGED vars
    PROVE  MembersAreKnown'
<1>1. report' = report /\ Held' = Held
  <2>1. UNCHANGED <<report, phase, found, worker>>
    BY DEF Others, OthersStep, OtherStores, OtherUpserts, OtherCrashes, BeginCleanup,
           DeleteBatch, Tick, vars, storeVars, runVars
  <2> QED
    BY <2>1, HeldSame
<1>2. CASE \E r \in Raids : OtherStores(r)
  <2>1. PICK r \in Raids : OtherStores(r)
    BY <1>2
  <2> QED
    BY <1>1, <2>1, PartyKnown DEF OtherStores, Known
<1>3. CASE OtherUpserts
  BY <1>1, <1>3, NobodyLost DEF OtherUpserts, Known, Upserted, Stored
<1>4. CASE OtherCrashes
  BY <1>1, <1>4, NobodyLost DEF OtherCrashes, Known, Stored
<1>5. CASE DeleteBatch
  <2>1. Stored' \subseteq Stored
    BY <1>5 DEF DeleteBatch, Restrict, Stored
  <2> QED
    BY <1>1, <1>5, <2>1, NobodyLost DEF DeleteBatch, Known
<1>6. CASE BeginCleanup \/ Tick \/ UNCHANGED vars
  BY <1>1, <1>6, NobodyLost DEF BeginCleanup, Tick, vars, storeVars, Known, Stored
<1> QED
  BY <1>2, <1>3, <1>4, <1>5, <1>6 DEF Others, OthersStep

\* fetchAndStorePGCR, bulkUpsertPlayers: whoever stores a raid, its players get
\* their rows, unless the one who was to write them failed.
THEOREM SnowballMembersAreKnown == Spec => []MembersAreKnown
<1>1. Init => MembersAreKnown
  BY DEF Init, StoreInit, MembersAreKnown, Stored
<1>2. SafeInv /\ MembersAreKnown /\ [Next]_vars => MembersAreKnown'
  <2> SUFFICES ASSUME SafeInv, MembersAreKnown, [Next]_vars PROVE MembersAreKnown'
    OBVIOUS
  <2>1. TypeInv
    BY DEF SafeInv
  <2> QED
    BY <2>1, QuietKeepsMembers, AnsweredKeepsMembers, TaskFailsKeepsMembers,
       TaskEndsKeepsMembers, WavesKeepMembers, OthersKeepMembers
       DEF Next, RunStep, WorkerStep, Failures
<1> QED
  BY <1>1, <1>2, SafeAlways, PTL DEF Spec

(***************************************************************************)
(* last_seen_at.                                                           *)
(***************************************************************************)

\* Who of a stored raid has no row is noted as a stranger to it, and what is
\* stored as its end is what would be stored now, or nothing.
SeenInv ==
    /\ \A p \in Players : seen[p] <= now + Skew
    /\ \A r \in Stored : pgcrs[r] = 0 \/ pgcrs[r] = EndedAt(r)
    /\ \A r \in Stored : \A p \in Party(r) \ players : <<r, p>> \in strangers
    /\ \A r \in Stored : \A p \in Party(r) \cap players :
         <<r, p>> \notin strangers => seen[p] >= pgcrs[r]

LEMMA EndIsBelieved ==
    ASSUME StoreTypeOK, NEW r \in Raids
    PROVE  EndedAt(r) <= now + Skew /\ now \in Nat
<1>1. now \in Nat /\ Skew \in Nat
  BY StoreAssumption DEF StoreTypeOK
<1>2. DurationOf(report[r]) \in Nat /\ report[r].period \in Nat
  BY ReportsAreReports, DurationIsNat DEF IsReport
<1> QED
  BY <1>1, <1>2 DEF EndedAt

\* insertFullPGCR: the bump is done even when the raid is there.
LEMMA InsertKeepsSeen ==
    ASSUME StoreTypeOK, SeenInv, NEW r \in Raids, InsertFullPGCR(r),
           UNCHANGED <<now, report, players>>
    PROVE  SeenInv'
<1>1. \A q \in Raids : /\ EndedAt(q) \in Nat /\ Party(q) \subseteq Players
                       /\ EndedAt(q)' = EndedAt(q) /\ Party(q)' = Party(q)
  BY ReportsAreReports DEF EndedAt, Party
<1>2. EndedAt(r) <= now + Skew /\ now + Skew \in Nat
  BY EndIsBelieved, StoreAssumption
<1>3. seen \in [Players -> Nat] /\ \A q \in Stored : pgcrs[q] \in Nat
  BY DEF StoreTypeOK
<1>4. Stored \subseteq Raids /\ Stored' = Stored \cup {r}
  BY DEF InsertFullPGCR, Stored, StoreTypeOK
<1>5. \A p \in Players : /\ seen'[p] >= seen[p] /\ seen'[p] <= now + Skew
                         /\ p \in Party(r) \cap players => seen'[p] >= EndedAt(r)
  <2> SUFFICES ASSUME NEW p \in Players
               PROVE  /\ seen'[p] >= seen[p] /\ seen'[p] <= now + Skew
                      /\ p \in Party(r) \cap players => seen'[p] >= EndedAt(r)
    OBVIOUS
  <2>1. seen'[p] = IF p \in Party(r) \cap players /\ EndedAt(r) > seen[p]
                   THEN EndedAt(r) ELSE seen[p]
    BY DEF InsertFullPGCR, SeenAfter
  <2>2. seen[p] <= now + Skew /\ seen[p] \in Nat /\ EndedAt(r) \in Nat
    BY <1>1, <1>3 DEF SeenInv
  <2> QED
    BY <1>2, <2>1, <2>2
<1>6. \A q \in Stored' : pgcrs'[q] = IF q \in Stored THEN pgcrs[q] ELSE EndedAt(r)
  BY <1>4 DEF InsertFullPGCR, Stored
<1>7. \A q \in Stored' : pgcrs'[q] = 0 \/ pgcrs'[q] = EndedAt(q)
  BY <1>4, <1>6 DEF SeenInv
<1>8. \A q \in Raids, p \in Players :
        <<q, p>> \in strangers' <=> IF q = r THEN p \in Party(r) \ players
                                    ELSE <<q, p>> \in strangers
  BY DEF InsertFullPGCR
<1>9. \A q \in Stored' : \A p \in Party(q) \ players : <<q, p>> \in strangers'
  BY <1>1, <1>4, <1>8 DEF SeenInv
<1>10. ASSUME NEW q \in Stored', NEW p \in Party(q) \cap players, <<q, p>> \notin strangers'
       PROVE  seen'[p] >= pgcrs'[q]
  <2>1. q \in Raids /\ p \in Players
    BY <1>1, <1>4
  <2>2. CASE q = r
    <3>1. pgcrs'[r] = 0 \/ pgcrs'[r] = EndedAt(r)
      BY <1>7, <2>2
    <3>2. seen'[p] >= EndedAt(r) /\ seen'[p] >= seen[p] /\ seen[p] \in Nat
      BY <1>3, <1>5, <2>1, <2>2
    <3>3. EndedAt(r) \in Nat /\ seen'[p] \in Int
      <4>1. seen'[p] \in Nat
        BY <1>1, <1>3, <2>1 DEF InsertFullPGCR, SeenAfter
      <4> QED
        BY <1>1, <4>1
    <3> QED
      BY <2>2, <3>1, <3>2, <3>3
  <2>3. CASE q # r
    <3>1. q \in Stored /\ <<q, p>> \notin strangers /\ pgcrs'[q] = pgcrs[q]
      BY <1>4, <1>6, <1>8, <1>10, <2>1, <2>3
    <3>2. seen[p] >= pgcrs[q] /\ seen'[p] >= seen[p]
      BY <1>5, <2>1, <3>1 DEF SeenInv
    <3>3. seen[p] \in Nat /\ pgcrs[q] \in Nat /\ seen'[p] \in Nat
      BY <1>1, <1>3, <2>1, <3>1 DEF InsertFullPGCR, SeenAfter
    <3> QED
      BY <3>1, <3>2, <3>3
  <2> QED
    BY <2>2, <2>3
<1>11. \A q \in Stored' : EndedAt(q)' = EndedAt(q) /\ Party(q)' = Party(q)
  BY <1>1, <1>4
<1> QED
  BY <1>5, <1>7, <1>9, <1>10, <1>11 DEF SeenInv

\* bulkUpsertPlayers: a new player is a stranger to what was stored before.
LEMMA UpsertKeepsSeen ==
    ASSUME SeenInv, players \subseteq players',
           UNCHANGED <<now, report, pgcrs, seen, strangers>>
    PROVE  SeenInv'
<1>1. Stored' = Stored /\ \A r : Party(r)' = Party(r) /\ EndedAt(r)' = EndedAt(r)
  BY DEF Stored, Party, EndedAt
<1> QED
  BY <1>1 DEF SeenInv

LEMMA DeleteKeepsSeen ==
    ASSUME SeenInv, DeleteBatch
    PROVE  SeenInv'
<1>1. PICK B \in SUBSET Expired :
         /\ pgcrs' = [r \in Stored \ B |-> pgcrs[r]]
         /\ strangers' = {s \in strangers : s[1] \notin B}
  BY DEF DeleteBatch, Restrict
<1>2. Stored' = Stored \ B /\ \A r \in Stored' : pgcrs'[r] = pgcrs[r]
  BY <1>1 DEF Stored
<1>3. \A r \in Stored' : \A p : <<r, p>> \in strangers' <=> <<r, p>> \in strangers
  BY <1>1, <1>2
<1>4. UNCHANGED <<now, report, players, seen>>
  BY DEF DeleteBatch
<1>5. \A r : Party(r)' = Party(r) /\ EndedAt(r)' = EndedAt(r)
  BY <1>4 DEF Party, EndedAt
<1> QED
  BY <1>2, <1>3, <1>4, <1>5 DEF SeenInv

\* An end that is believed stays believed.
LEMMA TickKeepsSeen ==
    ASSUME StoreTypeOK, SeenInv, Tick
    PROVE  SeenInv'
<1>1. now \in Nat /\ Skew \in Nat /\ now' = now + 1
        /\ UNCHANGED <<report, pgcrs, players, seen, strangers>>
  BY StoreAssumption DEF StoreTypeOK, Tick
<1>2. Stored' = Stored /\ Stored \subseteq Raids /\ \A r : Party(r)' = Party(r)
  BY <1>1 DEF Stored, Party, StoreTypeOK
<1>3. \A p \in Players : seen'[p] <= now' + Skew
  <2> SUFFICES ASSUME NEW p \in Players PROVE seen[p] <= now + 1 + Skew
    BY <1>1
  <2>1. seen[p] \in Nat /\ seen[p] <= now + Skew
    BY DEF StoreTypeOK, SeenInv
  <2> QED
    BY <1>1, <2>1
<1>4. ASSUME NEW r \in Stored
      PROVE  pgcrs[r] = 0 \/ pgcrs[r] = EndedAt(r)'
  <2>1. pgcrs[r] = 0 \/ pgcrs[r] = EndedAt(r)
    BY DEF SeenInv
  <2>2. report[r].period \in Nat /\ DurationOf(report[r]) \in Nat
    BY <1>2, ReportsAreReports, DurationIsNat DEF IsReport
  <2>3. EndedAt(r) = 0 \/ EndedAt(r)' = EndedAt(r)
    BY <1>1, <2>2 DEF EndedAt
  <2> QED
    BY <2>1, <2>3
<1> QED
  BY <1>1, <1>2, <1>3, <1>4 DEF SeenInv

LEMMA SeenStep == TypeInv /\ SeenInv /\ [Next]_vars => SeenInv'
<1> SUFFICES ASSUME TypeInv, SeenInv, [Next]_vars PROVE SeenInv'
  OBVIOUS
<1>1. ASSUME NEW w \in Workers, Answered(w)
      PROVE  SeenInv'
  <2>1. worker[w].raid \in Raids
    BY <1>1, WorkerFacts DEF Answered, Fits, WorkerState, TypeInv
  <2> QED
    BY <1>1, <2>1, InsertKeepsSeen DEF Answered, TypeInv
<1>2. CASE EndWave \/ Finish
  BY <1>2, UpsertKeepsSeen DEF EndWave, Finish, Upserted
<1>3. CASE Others
  <2>1. CASE \E r \in Raids : OtherStores(r)
    BY <2>1, InsertKeepsSeen DEF OtherStores, TypeInv
  <2>2. CASE OtherUpserts
    BY <2>2, UpsertKeepsSeen DEF OtherUpserts, Upserted
  <2>3. CASE OtherCrashes \/ BeginCleanup
    BY <2>3, UpsertKeepsSeen DEF OtherCrashes, BeginCleanup
  <2>4. CASE DeleteBatch
    BY <2>4, DeleteKeepsSeen
  <2>5. CASE Tick
    BY <2>5, TickKeepsSeen DEF TypeInv
  <2> QED
    BY <1>3, <2>1, <2>2, <2>3, <2>4, <2>5 DEF Others, OthersStep
<1>4. CASE UNCHANGED <<now, report, pgcrs, players, seen, strangers>>
  BY <1>4, UpsertKeepsSeen
<1>5. ASSUME NEW w \in Workers,
             \/ \E p \in Players : Take(w, p)
             \/ GotCharacters(w) \/ GotHistory(w) \/ TaskEnds(w)
             \/ \E r \in Raids : LookUp(w, r)
             \/ LostHistory(w) \/ RequestFails(w) \/ TaskFails(w)
      PROVE  UNCHANGED <<now, report, pgcrs, players, seen, strangers>>
  BY <1>5 DEF Take, GotCharacters, GotHistory, TaskEnds, LookUp, LostHistory, RequestFails,
              TaskFails, storeVars
<1>6. Crash \/ UNCHANGED vars => UNCHANGED <<now, report, pgcrs, players, seen, strangers>>
  BY DEF Crash, vars, storeVars
<1> QED
  BY <1>1, <1>2, <1>3, <1>4, <1>5, <1>6 DEF Next, RunStep, WorkerStep, Failures

\* insertFullPGCR: raids stored in any order, stored again and deleted, by any
\* number of writers, leave last_seen_at at least at the end of every raid that
\* found the player's row, and never beyond the skew.
THEOREM SnowballSeenIsCurrent == Spec => []SeenIsCurrent
<1>1. Init => SeenInv
  BY StoreAssumption DEF Init, StoreInit, SeenInv, Stored
<1>2. SafeInv /\ SeenInv /\ [Next]_vars => SeenInv'
  BY SeenStep DEF SafeInv
<1>3. SafeInv /\ SeenInv => SeenIsCurrent
  BY DEF SafeInv, TypeInv, StoreTypeOK, SeenInv, SeenIsCurrent
<1> QED
  BY <1>1, <1>2, <1>3, SafeAlways, PTL DEF Spec

(***************************************************************************)
(* The waves of a walk without concurrency.                                *)
(***************************************************************************)

HasLeast(S) == \E n \in S : \A m \in S : n <= m

\* A set of numbers has a least one.
LEMMA LeastNumber ==
    ASSUME NEW S, S \subseteq Nat, S # {}
    PROVE  HasLeast(S)
<1>1. PICK n : n \in S
  OBVIOUS
<1> DEFINE T == {m \in S : m <= n}
           F == {0 .. m : m \in T}
<1>2. IsFiniteSet(0 .. n)
  BY <1>1, FS_Interval
<1>3. F \subseteq SUBSET (0 .. n) /\ F # {}
  BY <1>1
<1>4. HasSmallest(F)
  <2> HIDE DEF F
  <2> QED
    BY <1>2, <1>3, SmallestSubset
<1>5. PICK k \in T : \A m \in T : (0 .. m) \subseteq (0 .. k) => (0 .. m) = (0 .. k)
  <2>1. PICK U \in F : \A V \in F : V \subseteq U => V = U
    BY <1>4 DEF HasSmallest
  <2>2. PICK k \in T : U = 0 .. k
    BY <2>1
  <2>3. \A m \in T : (0 .. m) \in F
    OBVIOUS
  <2> HIDE DEF F, T
  <2> QED
    BY <2>1, <2>2, <2>3
<1>6. \A m \in T : m < k => (0 .. m) \subseteq (0 .. k) /\ (0 .. m) # (0 .. k)
  <2> SUFFICES ASSUME NEW m \in T, m < k
               PROVE  (0 .. m) \subseteq (0 .. k) /\ (0 .. m) # (0 .. k)
    OBVIOUS
  <2>1. m \in Nat /\ k \in Nat /\ k \in 0 .. k /\ k \notin 0 .. m
    BY <1>5
  <2> QED
    BY <2>1
<1>7. \A m \in S : k <= m
  BY <1>1, <1>5, <1>6
<1> QED
  BY <1>5, <1>7 DEF HasLeast

\* The players the next wave adds.
Teammates(S) == Met(RaidsOf(S))

\* f holds who is reached in each number of waves up to n.
IsWalk(f, n) ==
    f[0] = Seeds /\ \A d \in 1 .. n : f[d] = f[d - 1] \cup Teammates(f[d - 1])

\* There is such a function.
LEMMA WalkExists == \A n \in Nat : \E f : DOMAIN f = 0 .. n /\ IsWalk(f, n)
<1> DEFINE S == {n \in Nat : ~ \E f : DOMAIN f = 0 .. n /\ IsWalk(f, n)}
<1> SUFFICES ASSUME S # {} PROVE FALSE
  OBVIOUS
<1>1. PICK n \in S : \A m \in S : n <= m
  <2>1. S \subseteq Nat
    OBVIOUS
  <2> HIDE DEF S
  <2> QED
    BY <2>1, LeastNumber DEF HasLeast
<1>2. CASE n = 0
  <2> DEFINE f == [d \in 0 .. 0 |-> Seeds]
  <2>1. DOMAIN f = 0 .. 0 /\ IsWalk(f, 0)
    BY DEF IsWalk
  <2> QED
    BY <1>1, <1>2, <2>1
<1>3. CASE n # 0
  <2>1. n - 1 \in Nat /\ n - 1 \notin S
    BY <1>1, <1>3
  <2>2. PICK g : DOMAIN g = 0 .. n - 1 /\ IsWalk(g, n - 1)
    BY <2>1
  <2> DEFINE f == [d \in 0 .. n |-> IF d = n THEN g[n - 1] \cup Teammates(g[n - 1]) ELSE g[d]]
  <2>3. f[0] = Seeds
    BY <1>1, <1>3, <2>2 DEF IsWalk
  <2>4. ASSUME NEW d \in 1 .. n
        PROVE  f[d] = f[d - 1] \cup Teammates(f[d - 1])
    <3>1. d \in 0 .. n /\ d - 1 \in 0 .. n /\ d - 1 # n /\ f[d - 1] = g[d - 1]
      BY <1>1
    <3>2. CASE d = n
      BY <3>1, <3>2
    <3>3. CASE d # n
      <4>1. d \in 1 .. n - 1 /\ f[d] = g[d]
        BY <1>1, <3>3
      <4> HIDE DEF f
      <4> QED
        BY <2>2, <3>1, <4>1 DEF IsWalk
    <3> QED
      BY <3>2, <3>3
  <2>5. DOMAIN f = 0 .. n
    OBVIOUS
  <2> HIDE DEF f
  <2>6. IsWalk(f, n)
    BY <2>3, <2>4 DEF IsWalk
  <2> QED
    BY <1>1, <2>5, <2>6
<1> QED
  BY <1>2, <1>3

\* Reached is the last of its waves.
LEMMA ReachedIsLast == \E f : IsWalk(f, MaxDepth - 1) /\ Reached = f[MaxDepth - 1]
<1> DEFINE Eq(g) == g = [d \in 0 .. MaxDepth - 1 |->
                           IF d = 0 THEN Seeds ELSE g[d - 1] \cup Met(RaidsOf(g[d - 1]))]
           reached == CHOOSE g : Eq(g)
<1>1. MaxDepth - 1 \in Nat
  BY SnowballAssumption
<1>2. PICK f : DOMAIN f = 0 .. MaxDepth - 1 /\ IsWalk(f, MaxDepth - 1)
  BY <1>1, WalkExists
<1>3. ASSUME NEW g, IsWalk(g, MaxDepth - 1), g = [d \in 0 .. MaxDepth - 1 |-> g[d]]
      PROVE  Eq(g)
  <2> DEFINE h == [d \in 0 .. MaxDepth - 1 |->
                           IF d = 0 THEN Seeds ELSE g[d - 1] \cup Met(RaidsOf(g[d - 1]))]
  <2>1. ASSUME NEW d \in 0 .. MaxDepth - 1
        PROVE  g[d] = h[d]
    <3>1. d = 0 \/ d \in 1 .. MaxDepth - 1
      BY <1>1
    <3> QED
      BY <1>3, <3>1 DEF IsWalk, Teammates
  <2> QED
    BY <1>3, <2>1
<1> DEFINE k == [d \in 0 .. MaxDepth - 1 |-> f[d]]
<1>4. IsWalk(k, MaxDepth - 1) /\ k = [d \in 0 .. MaxDepth - 1 |-> k[d]]
  <2>1. k[0] = Seeds
    BY <1>1, <1>2 DEF IsWalk
  <2>2. ASSUME NEW d \in 1 .. MaxDepth - 1
        PROVE  k[d] = k[d - 1] \cup Teammates(k[d - 1])
    <3>1. d \in 0 .. MaxDepth - 1 /\ d - 1 \in 0 .. MaxDepth - 1
      BY <1>1
    <3> QED
      BY <1>2, <3>1 DEF IsWalk
  <2> QED
    BY <2>1, <2>2 DEF IsWalk
<1>5. Eq(k)
  BY <1>3, <1>4
<1> HIDE DEF Eq, k
<1>6. Eq(reached)
  BY <1>5
<1>7. Reached = reached[MaxDepth - 1]
  BY DEF Reached, reached, Eq
<1>8. IsWalk(reached, MaxDepth - 1)
  <2> HIDE DEF reached
  <2>1. reached[0] = Seeds
    BY <1>1, <1>6 DEF Eq
  <2>2. ASSUME NEW d \in 1 .. MaxDepth - 1
        PROVE  reached[d] = reached[d - 1] \cup Teammates(reached[d - 1])
    <3>1. d \in 0 .. MaxDepth - 1 /\ d # 0
      BY <1>1
    <3> QED
      BY <1>6, <3>1 DEF Eq, Teammates
  <2> QED
    BY <2>1, <2>2 DEF IsWalk
<1> QED
  BY <1>7, <1>8

\* The walk only grows, and once a wave adds nobody it is over.
LEMMA WalkGrows ==
    ASSUME NEW n \in Nat, NEW f, IsWalk(f, n), NEW d \in 0 .. n
    PROVE  \A e \in d .. n : f[d] \subseteq f[e] /\ (Teammates(f[d]) \subseteq f[d] => f[e] = f[d])
<1> DEFINE Good(e) == f[d] \subseteq f[e] /\ (Teammates(f[d]) \subseteq f[d] => f[e] = f[d])
           S == {e \in d .. n : ~ Good(e)}
<1> SUFFICES ASSUME S # {} PROVE FALSE
  OBVIOUS
<1>1. PICK e \in S : \A m \in S : e <= m
  <2>1. S \subseteq Nat
    OBVIOUS
  <2> HIDE DEF S
  <2> QED
    BY <2>1, LeastNumber DEF HasLeast
<1>2. e # d
  BY <1>1
<1>3. e \in 1 .. n /\ e - 1 \in d .. n /\ e - 1 \notin S
  BY <1>1, <1>2
<1>4. Good(e - 1) /\ ~ Good(e)
  BY <1>1, <1>3
<1>5. f[e] = f[e - 1] \cup Teammates(f[e - 1])
  BY <1>3 DEF IsWalk
<1> QED
  BY <1>4, <1>5

(***************************************************************************)
(* What is found when nothing fails.                                       *)
(***************************************************************************)

\* All that was claimed is counted or in hand, what is yet to be looked up is not
\* stored, and the players found are those of the raids counted.
HandsOK ==
    /\ Stored \subseteq claimed
    /\ claimed = counted \cup UNION {Carry(worker[w]) : w \in Workers}
    /\ \A w \in Workers : worker[w].todo \cap Stored = {} /\ worker[w].raid \notin worker[w].todo
    /\ found = Met(counted)

AsksFor(x, p) == x.player = p /\ x.stage \in {"characters", "history"}

\* A worker has a player of those in T, and has claimed the raids of the characters
\* before the one it asks about.
ReadSoFar(x, T, C) ==
    /\ x.stage # "idle" => x.player \in T
    /\ x.stage = "history" => \A c \in 1 .. x.char - 1 : History[x.player][c] \subseteq C

\* Nobody's history is passed over.
WalksOK ==
    /\ claimed \subseteq RaidsOf(taken)
    /\ \A p \in taken : HistoryOf(p) \subseteq claimed \/ \E w \in Workers : AsksFor(worker[w], p)
    /\ \A w \in Workers : ReadSoFar(worker[w], taken, claimed)

\* The wave is what the walk f adds at its depth, and who is to be in the next one
\* is known; the walk that is over went as far as f does, or to where f ends growing.
WavesOK(f) ==
    /\ phase = "wave" => taken \cup wave = f[depth] /\ found \ (taken \cup wave) \subseteq next
    /\ phase \in {"over", "done"} =>
         /\ \E d \in 0 .. MaxDepth - 1 : taken = f[d]
         /\ Cardinality(found) < MaxFound => taken = f[MaxDepth - 1]
    /\ phase = "done" => found \ Invalid \subseteq players

CleanOK == HandsOK /\ WalksOK /\ \A f : IsWalk(f, MaxDepth - 1) => WavesOK(f)

CompleteInv == troubles = 0 => CleanOK

LEMMA WalkSame ==
    ASSUME report' = report
    PROVE  \A f, n : IsWalk(f, n)' => IsWalk(f, n)
BY DEF IsWalk, Teammates, Met, Party

\* Only the worker w moves; what it holds afterwards.
Holds(w, todo, raid, got) ==
    /\ worker'[w].todo = todo /\ worker'[w].raid = raid /\ worker'[w].got = got
    /\ \A v \in Workers : v # w => worker'[v] = worker[v]

LEMMA HandsMove ==
    ASSUME HandsOK, NEW w \in Workers, NEW todo, NEW raid, NEW got, Holds(w, todo, raid, got),
           NEW C, claimed' = claimed \cup C, NEW D, counted' = counted \cup D,
           todo \cup got \cup ({raid} \ {"none"}) \cup D = Carry(worker[w]) \cup C,
           Stored' \subseteq claimed', todo \cap Stored' = {}, raid \notin todo,
           \A v \in Workers : v # w => worker[v].todo \cap Stored' = {},
           found' = Met(counted)'
    PROVE  HandsOK'
<1>1. Carry(worker'[w]) \cup D = Carry(worker[w]) \cup C
  BY DEF Holds, Carry
<1>2. \A v \in Workers : v # w => worker'[v] = worker[v]
  BY DEF Holds
<1>3. claimed' = counted' \cup UNION {Carry(worker'[v]) : v \in Workers}
  <2> DEFINE X(v) == Carry(worker[v])
             Y(v) == Carry(worker'[v])
  <2>1. \A v \in Workers : v # w => X(v) = Y(v)
    BY <1>2
  <2>2. Y(w) \cup D = X(w) \cup C
    BY <1>1
  <2>3. claimed = counted \cup UNION {X(v) : v \in Workers}
    BY DEF HandsOK
  <2> HIDE DEF X, Y
  <2>4. counted' \cup UNION {Y(v) : v \in Workers} = claimed'
    BY <2>1, <2>2, <2>3
  <2> QED
    BY <2>4 DEF Y
<1>4. \A v \in Workers : worker'[v].todo \cap Stored' = {} /\ worker'[v].raid \notin worker'[v].todo
  BY <1>2 DEF HandsOK, Holds
<1>5. (UNION {Carry(worker[v]) : v \in Workers})' = UNION {Carry(worker'[v]) : v \in Workers}
  BY DEF Carry
<1> QED
  BY <1>3, <1>4, <1>5 DEF HandsOK

LEMMA WalksMove ==
    ASSUME WalksOK, NEW w \in Workers, \A v \in Workers : v # w => worker'[v] = worker[v],
           taken \subseteq taken', claimed \subseteq claimed', claimed' \subseteq RaidsOf(taken'),
           \A p \in taken' \ taken : AsksFor(worker'[w], p),
           \A p \in taken : AsksFor(worker[w], p) =>
              HistoryOf(p) \subseteq claimed' \/ AsksFor(worker'[w], p),
           ReadSoFar(worker'[w], taken', claimed')
    PROVE  WalksOK'
<1>1. \A p \in taken' : HistoryOf(p) \subseteq claimed' \/ \E v \in Workers : AsksFor(worker'[v], p)
  <2> SUFFICES ASSUME NEW p \in taken', ~ (HistoryOf(p) \subseteq claimed')
               PROVE  \E v \in Workers : AsksFor(worker'[v], p)
    OBVIOUS
  <2>1. CASE p \in taken
    <3>1. PICK v \in Workers : AsksFor(worker[v], p)
      BY <2>1 DEF WalksOK
    <3>2. AsksFor(worker'[v], p)
      BY <2>1, <3>1
    <3> QED
      BY <3>2
  <2> QED
    BY <2>1
<1>2. \A v \in Workers : ReadSoFar(worker'[v], taken', claimed')
  BY DEF WalksOK, ReadSoFar
<1> QED
  BY <1>1, <1>2 DEF WalksOK, AsksFor, ReadSoFar

LEMMA WavesMove ==
    ASSUME report' = report, \A f : IsWalk(f, MaxDepth - 1) => WavesOK(f),
           phase = "wave", phase' = phase, depth' = depth, taken' \cup wave' = taken \cup wave,
           next \subseteq next', found' \ found \subseteq next'
    PROVE  \A f : IsWalk(f, MaxDepth - 1)' => WavesOK(f)'
<1> SUFFICES ASSUME NEW f, IsWalk(f, MaxDepth - 1)'
             PROVE  WavesOK(f)'
  OBVIOUS
<1>1. WavesOK(f)
  BY WalkSame
<1> QED
  BY <1>1 DEF WavesOK

LEMMA TakeKeepsClean ==
    ASSUME TypeInv, CleanOK, NEW w \in Workers, NEW p \in Players, Take(w, p), phase = "wave"
    PROVE  CleanOK'
<1> DEFINE y == [Idle EXCEPT !.stage = "characters", !.player = p, !.char = 1]
<1>1. worker' = [worker EXCEPT ![w] = y] /\ worker[w] = Idle
  BY DEF Take, TypeInv, WorkerTypes, Idle
<1>2. y.todo = {} /\ y.raid = "none" /\ y.got = {} /\ y.stage = "characters" /\ y.player = p
  BY DEF Idle
<1> HIDE DEF y
<1>3. worker'[w] = y /\ \A v \in Workers : v # w => worker'[v] = worker[v]
  BY <1>1 DEF TypeInv, WorkerTypes
<1>4. /\ UNCHANGED <<report, phase, depth, next, found, counted, claimed>> /\ Stored' = Stored
      /\ taken' = taken \cup {p} /\ wave' = wave \ {p} /\ p \in wave
  BY DEF Take, RunUnchanged, storeVars, Stored
<1>5. HandsOK'
  <2>1. Holds(w, {}, "none", {})
    BY <1>2, <1>3 DEF Holds
  <2>2. Carry(worker[w]) = {}
    BY <1>1, IdleFits
  <2>3. found' = Met(counted)'
    BY <1>4 DEF CleanOK, HandsOK, Met, Party
  <2>4. \A v \in Workers : worker[v].todo \cap Stored' = {}
    BY <1>4 DEF CleanOK, HandsOK
  <2>5. Stored' \subseteq claimed' /\ claimed' = claimed \cup {} /\ counted' = counted \cup {}
    BY <1>4 DEF CleanOK, HandsOK
  <2> QED
    BY <2>1, <2>2, <2>3, <2>4, <2>5, HandsMove DEF CleanOK
<1>6. WalksOK'
  <2>1. claimed' \subseteq RaidsOf(taken')
    BY <1>4 DEF CleanOK, WalksOK, RaidsOf
  <2>2. \A q : ~ AsksFor(worker[w], q)
    BY <1>1 DEF AsksFor, Idle
  <2>3. AsksFor(worker'[w], p) /\ ReadSoFar(worker'[w], taken', claimed')
    BY <1>2, <1>3, <1>4 DEF AsksFor, ReadSoFar
  <2> QED
    BY <1>3, <1>4, <2>1, <2>2, <2>3, WalksMove DEF CleanOK
<1>7. \A f : IsWalk(f, MaxDepth - 1)' => WavesOK(f)'
  BY <1>4, WavesMove DEF CleanOK
<1> QED
  BY <1>5, <1>6, <1>7 DEF CleanOK

\* The steps of a task that leave the waves and the counts alone.
LEMMA TaskKeepsClean ==
    ASSUME TypeInv, CleanOK, phase = "wave",
           UNCHANGED <<report, phase, depth, wave, next, found, taken, counted>>
    PROVE  /\ found' = Met(counted)'
           /\ \A f : IsWalk(f, MaxDepth - 1)' => WavesOK(f)'
           /\ HandsOK' /\ WalksOK' => CleanOK'
<1>1. found' = Met(counted)'
  BY DEF CleanOK, HandsOK, Met, Party
<1>2. \A f : IsWalk(f, MaxDepth - 1)' => WavesOK(f)'
  BY WavesMove DEF CleanOK
<1> QED
  BY <1>1, <1>2 DEF CleanOK

LEMMA GotCharactersKeepsClean ==
    ASSUME TypeInv, CleanOK, NEW w \in Workers, GotCharacters(w), phase = "wave"
    PROVE  CleanOK'
<1> DEFINE x == worker[w]
           stage == IF Characters(w) = 0 THEN "fetch" ELSE "history"
           y == [x EXCEPT !.stage = stage]
<1>1. x \in WorkerState /\ Fits(x) /\ x.stage = "characters"
  BY WorkerFacts DEF GotCharacters, TypeInv
<1>2. worker' = [worker EXCEPT ![w] = y]
  BY DEF GotCharacters, TypeInv, WorkerTypes
<1>3. y.todo = x.todo /\ y.raid = x.raid /\ y.got = x.got /\ y.stage = stage
        /\ y.player = x.player /\ y.char = x.char
  BY <1>1 DEF WorkerState
<1> HIDE DEF y
<1>4. worker'[w] = y /\ \A v \in Workers : v # w => worker'[v] = worker[v]
  BY <1>2 DEF TypeInv, WorkerTypes
<1>5. /\ UNCHANGED <<report, phase, depth, wave, next, found, taken, claimed, counted>>
      /\ Stored' = Stored
  BY DEF GotCharacters, RunUnchanged, storeVars, Stored
<1>6. HandsOK'
  <2>1. Holds(w, x.todo, x.raid, x.got)
    BY <1>3, <1>4 DEF Holds
  <2>2. \A v \in Workers : worker[v].todo \cap Stored' = {} /\ worker[v].raid \notin worker[v].todo
    BY <1>5 DEF CleanOK, HandsOK
  <2>3. Stored' \subseteq claimed' /\ claimed' = claimed \cup {} /\ counted' = counted \cup {}
    BY <1>5 DEF CleanOK, HandsOK
  <2>4. x.todo \cup x.got \cup ({x.raid} \ {"none"}) \cup {} = Carry(worker[w]) \cup {}
    BY DEF Carry
  <2>5. found' = Met(counted)'
    BY <1>5, TaskKeepsClean
  <2> QED
    BY <2>1, <2>2, <2>3, <2>4, <2>5, HandsMove DEF CleanOK
<1>7. WalksOK'
  <2>1. x.player \in Players /\ x.char = 1
    BY <1>1 DEF Fits
  <2>2. Len(History[x.player]) \in Nat
    BY <2>1, SnowballAssumption
  <2>3. Characters(w) = 0 => HistoryOf(x.player) = {}
    BY <2>2 DEF HistoryOf, Characters
  <2>4. ReadSoFar(worker'[w], taken', claimed')
    BY <1>1, <1>3, <1>4, <1>5, <2>1 DEF ReadSoFar, CleanOK, WalksOK
  <2>5. \A p : AsksFor(worker[w], p) => HistoryOf(p) \subseteq claimed' \/ AsksFor(worker'[w], p)
    BY <1>1, <1>3, <1>4, <2>3 DEF AsksFor
  <2>6. claimed' \subseteq RaidsOf(taken')
    BY <1>5 DEF CleanOK, WalksOK
  <2> QED
    BY <1>4, <1>5, <2>4, <2>5, <2>6, WalksMove DEF CleanOK
<1> QED
  BY <1>5, <1>6, <1>7, TaskKeepsClean

LEMMA GotHistoryKeepsClean ==
    ASSUME TypeInv, CleanOK, NEW w \in Workers, GotHistory(w), phase = "wave"
    PROVE  CleanOK'
<1> DEFINE x == worker[w]
           fresh == History[x.player][x.char] \ claimed
           stage == IF x.char = Characters(w) THEN "fetch" ELSE x.stage
           y == [x EXCEPT !.todo = x.todo \cup fresh, !.char = x.char + 1, !.stage = stage]
<1>1. x \in WorkerState /\ Fits(x) /\ x.stage = "history"
  BY WorkerFacts DEF GotHistory, TypeInv
<1>2. worker' = [worker EXCEPT ![w] = y]
  BY DEF GotHistory, TypeInv, WorkerTypes
<1>3. x.player \in Players /\ x.char \in 1 .. Len(History[x.player]) /\ x.raid = "none"
  BY <1>1 DEF Fits
<1>4. History[x.player] \in Seq(SUBSET Raids) /\ Len(History[x.player]) \in Nat
  BY <1>3, SnowballAssumption
<1>5. fresh \subseteq Raids /\ fresh \cap claimed = {} /\ x.todo \subseteq Raids
  BY <1>1, <1>3, <1>4 DEF WorkerState
<1>6. y.todo = x.todo \cup fresh /\ y.raid = "none" /\ y.got = x.got /\ y.stage = stage
        /\ y.player = x.player /\ y.char = x.char + 1
  BY <1>1, <1>3 DEF WorkerState
<1> HIDE DEF y
<1>7. worker'[w] = y /\ \A v \in Workers : v # w => worker'[v] = worker[v]
  BY <1>2 DEF TypeInv, WorkerTypes
<1>8. /\ UNCHANGED <<report, phase, depth, wave, next, found, taken, counted>>
      /\ claimed' = claimed \cup fresh /\ Stored' = Stored
  BY DEF GotHistory, RunUnchanged, storeVars, Stored, Claim
<1>9. HandsOK'
  <2>1. Holds(w, x.todo \cup fresh, "none", x.got)
    BY <1>6, <1>7 DEF Holds
  <2>2. \A v \in Workers : worker[v].todo \cap Stored' = {}
    BY <1>8 DEF CleanOK, HandsOK
  <2>3. Stored' \subseteq claimed /\ counted' = counted \cup {}
    BY <1>8 DEF CleanOK, HandsOK
  <2>4. (x.todo \cup fresh) \cup x.got \cup ({"none"} \ {"none"}) \cup {} = Carry(worker[w]) \cup fresh
    BY <1>3 DEF Carry
  <2>5. found' = Met(counted)'
    BY <1>8, TaskKeepsClean
  <2>6. "none" \notin x.todo \cup fresh
    BY <1>5, SnowballAssumption
  <2> HIDE DEF fresh, x
  <2>7. (x.todo \cup fresh) \cap Stored' = {} /\ Stored' \subseteq claimed'
    BY <1>5, <1>8, <2>2, <2>3 DEF x
  <2> QED
    BY <1>8, <2>1, <2>2, <2>3, <2>4, <2>5, <2>6, <2>7, HandsMove DEF CleanOK
<1>10. WalksOK'
  <2>1. \A c \in 1 .. x.char : History[x.player][c] \subseteq claimed'
    <3>1. \A c \in 1 .. x.char - 1 : History[x.player][c] \subseteq claimed
      BY <1>1 DEF CleanOK, WalksOK, ReadSoFar
    <3>2. History[x.player][x.char] \subseteq claimed'
      BY <1>8
    <3>3. \A c \in 1 .. x.char : c \in 1 .. x.char - 1 \/ c = x.char
      BY <1>3, <1>4
    <3> QED
      BY <1>8, <3>1, <3>2, <3>3
  <2>2. x.char = Characters(w) => HistoryOf(x.player) \subseteq claimed'
    BY <2>1 DEF HistoryOf, Characters
  <2>3. x.player \in taken
    BY <1>1 DEF CleanOK, WalksOK, ReadSoFar
  <2>4. ReadSoFar(worker'[w], taken', claimed')
    BY <1>3, <1>4, <1>6, <1>7, <1>8, <2>1, <2>3 DEF ReadSoFar
  <2>5. \A p : AsksFor(worker[w], p) => HistoryOf(p) \subseteq claimed' \/ AsksFor(worker'[w], p)
    BY <1>1, <1>6, <1>7, <2>2 DEF AsksFor
  <2>6. claimed' \subseteq RaidsOf(taken')
    <3>1. fresh \subseteq HistoryOf(x.player)
      BY <1>3 DEF HistoryOf
    <3>2. fresh \subseteq RaidsOf(taken)
      BY <2>3, <3>1 DEF RaidsOf
    <3> QED
      BY <1>8, <3>2 DEF CleanOK, WalksOK
  <2> QED
    BY <1>7, <1>8, <2>4, <2>5, <2>6, WalksMove DEF CleanOK
<1> QED
  BY <1>8, <1>9, <1>10, TaskKeepsClean

LEMMA LookUpKeepsClean ==
    ASSUME TypeInv, CleanOK, NEW w \in Workers, NEW r \in Raids, LookUp(w, r), phase = "wave"
    PROVE  CleanOK'
<1> DEFINE x == worker[w]
           y == [x EXCEPT !.todo = x.todo \ {r}, !.stage = "request", !.raid = r]
<1>1. x \in WorkerState /\ Fits(x) /\ x.stage = "fetch" /\ r \in x.todo
  BY WorkerFacts DEF LookUp, TypeInv
<1>2. r \notin Stored
  BY <1>1 DEF CleanOK, HandsOK
<1>3. worker' = [worker EXCEPT ![w] = y]
  BY <1>2 DEF LookUp, TypeInv, WorkerTypes
<1>4. x.raid = "none" /\ r # "none"
  BY <1>1, SnowballAssumption DEF Fits
<1>5. y.todo = x.todo \ {r} /\ y.raid = r /\ y.got = x.got /\ y.stage = "request"
        /\ y.player = x.player /\ y.char = x.char
  BY <1>1 DEF WorkerState
<1> HIDE DEF y
<1>6. worker'[w] = y /\ \A v \in Workers : v # w => worker'[v] = worker[v]
  BY <1>3 DEF TypeInv, WorkerTypes
<1>7. /\ UNCHANGED <<report, phase, depth, wave, next, found, taken, claimed, counted>>
      /\ Stored' = Stored
  BY DEF LookUp, RunUnchanged, storeVars, Stored
<1>8. HandsOK'
  <2>1. Holds(w, x.todo \ {r}, r, x.got)
    BY <1>5, <1>6 DEF Holds
  <2>2. \A v \in Workers : worker[v].todo \cap Stored' = {}
    BY <1>7 DEF CleanOK, HandsOK
  <2>3. Stored' \subseteq claimed' /\ claimed' = claimed \cup {} /\ counted' = counted \cup {}
    BY <1>7 DEF CleanOK, HandsOK
  <2>4. (x.todo \ {r}) \cup x.got \cup ({r} \ {"none"}) \cup {} = Carry(worker[w]) \cup {}
    BY <1>1, <1>4 DEF Carry
  <2>5. found' = Met(counted)'
    BY <1>7, TaskKeepsClean
  <2>6. (x.todo \ {r}) \cap Stored' = {} /\ r \notin x.todo \ {r}
    BY <2>2
  <2> QED
    BY <2>1, <2>2, <2>3, <2>4, <2>5, <2>6, HandsMove DEF CleanOK
<1>9. WalksOK'
  <2>1. ReadSoFar(worker'[w], taken', claimed')
    BY <1>1, <1>5, <1>6, <1>7 DEF ReadSoFar, CleanOK, WalksOK
  <2>2. \A p : ~ AsksFor(worker[w], p)
    BY <1>1 DEF AsksFor
  <2>3. claimed' \subseteq RaidsOf(taken')
    BY <1>7 DEF CleanOK, WalksOK
  <2> QED
    BY <1>6, <1>7, <2>1, <2>2, <2>3, WalksMove DEF CleanOK
<1> QED
  BY <1>7, <1>8, <1>9, TaskKeepsClean

LEMMA AnsweredKeepsClean ==
    ASSUME TypeInv, ClaimedOnce, CleanOK, NEW w \in Workers, Answered(w), phase = "wave"
    PROVE  CleanOK'
<1> DEFINE x == worker[w]
           y == [x EXCEPT !.stage = "fetch", !.raid = "none", !.got = x.got \cup {x.raid}]
<1>1. x \in WorkerState /\ Fits(x) /\ x.stage = "request" /\ Carry(x) \subseteq claimed
  BY WorkerFacts DEF Answered, TypeInv
<1>2. worker' = [worker EXCEPT ![w] = y]
  BY DEF Answered, TypeInv, WorkerTypes
<1>3. x.raid \in Raids /\ x.raid # "none" /\ x.todo \subseteq Raids
  BY <1>1 DEF Fits, WorkerState
<1>4. y.todo = x.todo /\ y.raid = "none" /\ y.got = x.got \cup {x.raid} /\ y.stage = "fetch"
        /\ y.player = x.player /\ y.char = x.char
  BY <1>1 DEF WorkerState
<1> HIDE DEF y
<1>5. worker'[w] = y /\ \A v \in Workers : v # w => worker'[v] = worker[v]
  BY <1>2 DEF TypeInv, WorkerTypes
<1>6. UNCHANGED <<report, phase, depth, wave, next, found, taken, claimed, counted>>
  BY DEF Answered, RunUnchanged
<1>7. Stored' \subseteq Stored \cup {x.raid}
  BY DEF Answered, InsertFullPGCR, Stored
<1>8. HandsOK'
  <2>1. Holds(w, x.todo, "none", x.got \cup {x.raid})
    BY <1>4, <1>5 DEF Holds
  <2>2. x.raid \in Carry(x)
    BY <1>3 DEF Carry
  <2>3. \A v \in Workers : worker[v].todo \cap Stored' = {}
    <3> SUFFICES ASSUME NEW v \in Workers PROVE worker[v].todo \cap Stored' = {}
      OBVIOUS
    <3>1. worker[v].todo \cap Stored = {} /\ x.raid \notin x.todo
      BY DEF CleanOK, HandsOK
    <3>2. v # w => x.raid \notin worker[v].todo
      BY <1>3 DEF ClaimedOnce
    <3> QED
      BY <1>7, <3>1, <3>2
  <2>4. Stored' \subseteq claimed' /\ claimed' = claimed \cup {} /\ counted' = counted \cup {}
    BY <1>1, <1>6, <1>7, <2>2 DEF CleanOK, HandsOK
  <2>5. x.todo \cup (x.got \cup {x.raid}) \cup ({"none"} \ {"none"}) \cup {} = Carry(worker[w]) \cup {}
    BY <1>3 DEF Carry
  <2>6. found' = Met(counted)'
    BY <1>6, TaskKeepsClean
  <2>7. x.todo \cap Stored' = {} /\ "none" \notin x.todo
    BY <1>3, <2>3, SnowballAssumption
  <2> QED
    BY <2>1, <2>3, <2>4, <2>5, <2>6, <2>7, HandsMove DEF CleanOK
<1>9. WalksOK'
  <2>1. ReadSoFar(worker'[w], taken', claimed')
    BY <1>1, <1>4, <1>5, <1>6 DEF ReadSoFar, CleanOK, WalksOK
  <2>2. \A p : ~ AsksFor(worker[w], p)
    BY <1>1 DEF AsksFor
  <2>3. claimed' \subseteq RaidsOf(taken')
    BY <1>6 DEF CleanOK, WalksOK
  <2> QED
    BY <1>5, <1>6, <2>1, <2>2, <2>3, WalksMove DEF CleanOK
<1> QED
  BY <1>6, <1>8, <1>9, TaskKeepsClean

\* The players of the raids counted are those found before and now.
LEMMA TaskEndsKeepsClean ==
    ASSUME TypeInv, CleanOK, NEW w \in Workers, TaskEnds(w), phase = "wave"
    PROVE  CleanOK'
<1> DEFINE x == worker[w]
<1>1. x \in WorkerState /\ Fits(x) /\ x.stage = "fetch" /\ x.todo = {} /\ x.raid = "none"
  BY WorkerFacts DEF TaskEnds, TypeInv, Fits
<1>2. worker'[w] = Idle /\ \A v \in Workers : v # w => worker'[v] = worker[v]
  BY DEF TaskEnds, TypeInv, WorkerTypes
<1>3. /\ UNCHANGED <<report, phase, depth, wave, taken, claimed>> /\ Stored' = Stored
      /\ counted' = counted \cup x.got /\ found' = found \cup Met(x.got)
      /\ next' = next \cup (Met(x.got) \ found)
  BY DEF TaskEnds, storeVars, Stored
<1>4. HandsOK'
  <2>1. Holds(w, {}, "none", {})
    BY <1>2 DEF Holds, Idle
  <2>2. \A v \in Workers : worker[v].todo \cap Stored' = {}
    BY <1>3 DEF CleanOK, HandsOK
  <2>3. Stored' \subseteq claimed' /\ claimed' = claimed \cup {}
    BY <1>3 DEF CleanOK, HandsOK
  <2>4. {} \cup {} \cup ({"none"} \ {"none"}) \cup x.got = Carry(worker[w]) \cup {}
    BY <1>1 DEF Carry
  <2>5. found' = Met(counted)'
    BY <1>3 DEF CleanOK, HandsOK, Met, Party
  <2>6. {} \cap Stored' = {} /\ "none" \notin {}
    OBVIOUS
  <2>7. counted' = counted \cup x.got
    BY <1>3
  <2> HIDE DEF x
  <2> QED
    BY <2>1, <2>2, <2>3, <2>4, <2>5, <2>6, <2>7, HandsMove DEF CleanOK
<1>5. WalksOK'
  <2>1. ReadSoFar(worker'[w], taken', claimed')
    BY <1>2 DEF ReadSoFar, Idle
  <2>2. \A p : ~ AsksFor(worker[w], p)
    BY <1>1 DEF AsksFor
  <2>3. claimed' \subseteq RaidsOf(taken')
    BY <1>3 DEF CleanOK, WalksOK
  <2> QED
    BY <1>2, <1>3, <2>1, <2>2, <2>3, WalksMove DEF CleanOK
<1>6. \A f : IsWalk(f, MaxDepth - 1)' => WavesOK(f)'
  BY <1>3, WavesMove DEF CleanOK
<1> QED
  BY <1>4, <1>5, <1>6 DEF CleanOK

\* Between two waves nothing is in hand: what was claimed is counted, and that is
\* the raids of everybody taken.
LEMMA BetweenWaves ==
    ASSUME CleanOK, \A w \in Workers : worker[w] = Idle
    PROVE  counted = claimed /\ claimed = RaidsOf(taken) /\ found = Teammates(taken)
<1>1. \A w \in Workers : Carry(worker[w]) = {}
  BY IdleFits
<1>2. claimed = counted
  BY <1>1 DEF CleanOK, HandsOK
<1>3. \A w \in Workers, p \in taken : ~ AsksFor(worker[w], p)
  BY DEF AsksFor, Idle
<1>4. RaidsOf(taken) \subseteq claimed
  BY <1>3 DEF CleanOK, WalksOK, RaidsOf
<1>5. claimed = RaidsOf(taken)
  BY <1>4 DEF CleanOK, WalksOK
<1> QED
  BY <1>2, <1>5 DEF CleanOK, HandsOK, Teammates

\* The steps of no worker.
LEMMA RestKeepsHands ==
    ASSUME CleanOK, UNCHANGED <<report, claimed, counted, taken, worker, found>>, Stored' \subseteq Stored
    PROVE  HandsOK' /\ WalksOK'
<1>1. HandsOK'
  BY DEF CleanOK, HandsOK, Met, Party, Carry
<1>2. WalksOK'
  BY DEF CleanOK, WalksOK, AsksFor, ReadSoFar
<1> QED
  BY <1>1, <1>2

LEMMA EndWaveKeepsClean ==
    ASSUME TypeInv, CleanOK, EndWave
    PROVE  CleanOK'
<1>1. /\ UNCHANGED <<report, claimed, counted, taken, worker, found>> /\ Stored' = Stored
      /\ wave = {} /\ wave' = next \ taken /\ depth' = depth + 1 /\ phase = "wave"
      /\ phase' = IF LastWave THEN "over" ELSE "wave"
  BY DEF EndWave, Running, Stored
<1>2. found = Teammates(taken)
  BY BetweenWaves DEF EndWave
<1>3. next \subseteq found /\ depth \in 0 .. MaxDepth - 1 /\ MaxDepth - 1 \in Nat
        /\ MaxDepth \in Nat
  BY <1>1, SnowballAssumption DEF TypeInv, RunTypes
<1>4. ASSUME NEW f, IsWalk(f, MaxDepth - 1)'
      PROVE  WavesOK(f)'
  <2>1. IsWalk(f, MaxDepth - 1) /\ WavesOK(f)
    BY <1>1, <1>4, WalkSame DEF CleanOK
  <2>2. taken = f[depth] /\ found \ taken \subseteq next
    BY <1>1, <2>1 DEF WavesOK
  <2>3. CASE ~ LastWave
    <3>1. depth + 1 \in 1 .. MaxDepth - 1 /\ phase' = "wave"
      BY <1>1, <1>3, <2>3 DEF LastWave
    <3>2. f[depth + 1] = f[depth] \cup Teammates(f[depth])
      BY <1>3, <2>1, <3>1 DEF IsWalk
    <3>3. taken' \cup wave' = f[depth'] /\ found' \ (taken' \cup wave') = {}
      BY <1>1, <1>2, <1>3, <2>2, <3>2
    <3> QED
      BY <3>1, <3>3 DEF WavesOK
  <2>4. CASE LastWave
    <3>1. depth + 1 = MaxDepth => taken = f[MaxDepth - 1]
      BY <1>3, <2>2
    <3>2. next = {} => taken = f[MaxDepth - 1]
      <4>1. next = {} => Teammates(taken) \subseteq taken
        BY <1>2, <2>2
      <4>2. MaxDepth - 1 \in depth .. MaxDepth - 1
        BY <1>3
      <4> QED
        BY <1>3, <2>1, <2>2, <4>1, <4>2, WalkGrows
    <3>3. Cardinality(found) < MaxFound => ~ (Cardinality(found) >= MaxFound)
      <4>1. IsFiniteSet(found)
        BY StoreAssumption, FS_Subset DEF TypeInv, RunTypes
      <4>2. Cardinality(found) \in Nat /\ MaxFound \in Nat
        BY <4>1, FS_CardinalityType, SnowballAssumption
      <4> QED
        BY <4>2
    <3>4. Cardinality(found) < MaxFound => taken = f[MaxDepth - 1]
      BY <2>4, <3>1, <3>2, <3>3 DEF LastWave
    <3> QED
      BY <1>1, <1>3, <2>2, <2>4, <3>4 DEF WavesOK
  <2> QED
    BY <2>3, <2>4
<1> QED
  BY <1>1, <1>4, RestKeepsHands DEF CleanOK

LEMMA FinishKeepsClean ==
    ASSUME TypeInv, CleanOK, Finish
    PROVE  CleanOK'
<1>1. /\ UNCHANGED <<report, claimed, counted, taken, worker, found>> /\ Stored' = Stored
      /\ phase = "over" /\ phase' = "done" /\ players' = players \cup (found \ Invalid)
  BY DEF Finish, Stored, Upserted
<1>2. ASSUME NEW f, IsWalk(f, MaxDepth - 1)'
      PROVE  WavesOK(f)'
  <2>1. WavesOK(f)
    BY <1>1, <1>2, WalkSame DEF CleanOK
  <2> QED
    BY <1>1, <2>1 DEF WavesOK
<1> QED
  BY <1>1, <1>2, RestKeepsHands DEF CleanOK

\* The other writers, as long as they store nothing, and the cleanup.
LEMMA OthersKeepClean ==
    ASSUME CleanOK, UNCHANGED runVars, report' = report, Stored' \subseteq Stored,
           players \subseteq players'
    PROVE  CleanOK'
<1>1. UNCHANGED <<phase, depth, wave, next, found, taken, claimed, counted, worker>>
  BY DEF runVars
<1>2. ASSUME NEW f, IsWalk(f, MaxDepth - 1)'
      PROVE  WavesOK(f)'
  <2>1. WavesOK(f)
    BY <1>2, WalkSame DEF CleanOK
  <2> QED
    BY <1>1, <2>1 DEF WavesOK
<1> QED
  BY <1>1, <1>2, RestKeepsHands DEF CleanOK

LEMMA CompleteInit == Init => CompleteInv
<1> SUFFICES ASSUME Init PROVE CleanOK
  BY DEF CompleteInv
<1>1. HandsOK
  BY IdleFits DEF Init, StoreInit, HandsOK, Stored, Met, Idle
<1>2. WalksOK
  BY DEF Init, WalksOK, ReadSoFar, Idle
<1>3. \A f : IsWalk(f, MaxDepth - 1) => WavesOK(f)
  BY DEF Init, WavesOK, IsWalk
<1> QED
  BY <1>1, <1>2, <1>3 DEF CleanOK

LEMMA CompleteStep == SafeInv /\ CompleteInv /\ [Next]_vars => CompleteInv'
<1> SUFFICES ASSUME SafeInv, CompleteInv, [Next]_vars, troubles' = 0
             PROVE  CleanOK'
  BY DEF CompleteInv
<1>1. troubles \in Nat
  BY DEF SafeInv, TypeInv, RunTypes
<1>2. ~ Trouble
  BY <1>1 DEF Trouble
<1>3. troubles = 0
  BY <1>2 DEF Next, RunStep, WorkerStep, Failures, Others, OthersStep, Take, GotCharacters,
              GotHistory, Answered, TaskEnds, LookUp, LostHistory, RequestFails, TaskFails,
              Crash, EndWave, Finish, vars, runVars
<1>4. TypeInv /\ ClaimedOnce /\ CleanOK
  BY <1>3 DEF SafeInv, CompleteInv
<1>5. ASSUME NEW w \in Workers, WorkerStep(w)
      PROVE  CleanOK'
  <2>1. phase = "wave"
    BY <1>5 DEF WorkerStep, Take, GotCharacters, GotHistory, Answered, TaskEnds, LookUp, Running
  <2> QED
    BY <1>4, <1>5, <2>1, TakeKeepsClean, GotCharactersKeepsClean, GotHistoryKeepsClean,
       LookUpKeepsClean, AnsweredKeepsClean, TaskEndsKeepsClean DEF WorkerStep
<1>6. ~ Failures
  BY <1>2 DEF Failures, LostHistory, RequestFails, TaskFails, Crash
<1>7. CASE Others \/ UNCHANGED vars
  <2>1. UNCHANGED runVars
    BY <1>3, <1>7 DEF Others, runVars, vars
  <2>2. report' = report /\ Stored' \subseteq Stored /\ players \subseteq players'
    BY <1>2, <1>7 DEF Others, OthersStep, OtherUpserts, OtherCrashes, BeginCleanup, DeleteBatch,
                      Tick, Upserted, Restrict, Stored, vars, storeVars
  <2> QED
    BY <1>4, <2>1, <2>2, OthersKeepClean
<1> QED
  BY <1>4, <1>5, <1>6, <1>7, EndWaveKeepsClean, FinishKeepsClean DEF Next, RunStep

\* runConcurrentDiscovery: however many workers share the sets, and wherever their
\* answers interleave with the other writers and the cleanup, a discovery in which
\* nothing fails finds what a walk without concurrency finds: nobody else, and, below
\* the limit, nobody less; and whoever is found has a row.
THEOREM SnowballDiscoveryIsComplete == Spec => []DiscoveryIsComplete
<1>1. SafeInv /\ CompleteInv => DiscoveryIsComplete
  <2> SUFFICES ASSUME SafeInv, CompleteInv, phase = "done", troubles = 0
               PROVE  /\ found \subseteq Met(RaidsOf(Reached))
                      /\ Cardinality(found) < MaxFound =>
                           found = Met(RaidsOf(Reached)) /\ counted = RaidsOf(Reached)
                      /\ found \ Invalid \subseteq players
    BY DEF DiscoveryIsComplete
  <2>1. CleanOK /\ \A w \in Workers : worker[w] = Idle
    BY DEF CompleteInv, SafeInv, TypeInv, WorkerTypes
  <2>2. PICK f : IsWalk(f, MaxDepth - 1) /\ Reached = f[MaxDepth - 1]
    BY ReachedIsLast
  <2>3. WavesOK(f)
    BY <2>1, <2>2 DEF CleanOK
  <2>4. counted = RaidsOf(taken) /\ found = Met(RaidsOf(taken))
    BY <2>1, BetweenWaves DEF Teammates
  <2>5. taken \subseteq Reached
    <3>1. PICK d \in 0 .. MaxDepth - 1 : taken = f[d]
      BY <2>3 DEF WavesOK
    <3>2. MaxDepth - 1 \in Nat /\ MaxDepth - 1 \in d .. MaxDepth - 1
      BY <3>1, SnowballAssumption
    <3> QED
      BY <2>2, <3>1, <3>2, WalkGrows
  <2>6. found \subseteq Met(RaidsOf(Reached))
    BY <2>4, <2>5 DEF Met, RaidsOf
  <2> QED
    BY <2>2, <2>3, <2>4, <2>6 DEF WavesOK
<1> QED
  BY <1>1, CompleteInit, CompleteStep, SafeAlways, PTL DEF Spec
=============================================================================
