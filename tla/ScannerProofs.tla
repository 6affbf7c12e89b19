--------------------------- MODULE ScannerProofs ---------------------------
(***************************************************************************)
(* Safety of the scanner for every number of workers, keys and ids, every  *)
(* batch size and every cap.  The invariants that MCScanner checks on a    *)
(* small instance are inductive once two more are added: a worker          *)
(* reports the loss of the last key before the pass ends and before the    *)
(* scanner acts on it, so the reason has to be carried along; and so is a  *)
(* verdict, until its batch ends and the position moves over its id.  The  *)
(* partition of the running pass keeps a finished batch inside the bound   *)
(* and tells that a scanner that has ended has no request out.             *)
(***************************************************************************)
EXTENDS Scanner, FiniteSetTheorems, WellFoundedInduction, TLAPS

VerdictsAreKept == \A id \in Ids : result[id] \in Verdicts => id \in accounted

IInv ==
    /\ TypeOK /\ PassPartition /\ CheckpointBacked /\ EndedWithCause
    /\ FatalMeansKeyless /\ VerdictsAreKept

(***************************************************************************)
(* Lemmas on the helpers.                                                  *)
(***************************************************************************)

\* Larger picks one of two positions, and neither is beyond it.
LEMMA LargerIsPosition ==
    ASSUME NEW a \in Positions, NEW b \in Positions
    PROVE  Larger(a, b) \in Positions /\ Larger(a, b) >= a /\ Larger(a, b) >= b
BY ScannerAssumption DEF Larger, Positions

\* addMissedId puts nothing but ids into the missed set.
LEMMA AddMissedIdsType ==
    ASSUME missed \subseteq Ids, NEW S \in SUBSET Ids
    PROVE  AddMissedIds(S) \subseteq Ids
BY DEF AddMissedIds

\* A best-effort save of a position leaves a position that is no smaller than
\* the checkpoint and no larger than both.
LEMMA SaveIsMonotone ==
    ASSUME NEW p \in Positions, saved \in Positions, SaveScannerPosition(p)
    PROVE  /\ saved' \in Positions /\ saved' >= saved
           /\ saved' = saved \/ saved' = p
BY ScannerAssumption DEF SaveScannerPosition, CheckpointFor, Larger, Positions

\* Nothing precedes the first id.
LEMMA UpToZero == UpTo(0) = {}
BY DEF UpTo, Ids

\* The checkpoint and the position stay, or one takes the other's value.
LEMMA BackedStays ==
    ASSUME CheckpointBacked, accounted \subseteq accounted',
           saved' \in {saved, position}, position' \in {saved, position}
    PROVE  CheckpointBacked'
BY DEF CheckpointBacked, UpTo

\* A pass without results has no verdicts to keep.
LEMMA NoVerdicts ==
    ASSUME result' = NoResults
    PROVE  VerdictsAreKept' /\ FatalMeansKeyless'
BY DEF NoResults, VerdictsAreKept, Verdicts, ScannerRequestResult, FatalMeansKeyless,
       FatalNoClients

\* The results stay.
LEMMA SameVerdicts ==
    ASSUME VerdictsAreKept, FatalMeansKeyless, UNCHANGED result,
           accounted \subseteq accounted', disabled \subseteq disabled',
           disabled' \subseteq Keys
    PROVE  VerdictsAreKept' /\ FatalMeansKeyless'
BY DEF VerdictsAreKept, FatalMeansKeyless, FatalNoClients

\* A finished batch ends inside the bound.
LEMMA BatchEndIsPosition ==
    ASSUME TypeOK, BatchIsComplete, mode = "batch"
    PROVE  BatchEnd \in Positions /\ BatchEnd >= position
BY ScannerAssumption DEF TypeOK, BatchIsComplete, BatchEnd, Positions

(***************************************************************************)
(* The partition of the running pass.                                      *)
(***************************************************************************)

\* A pass that is over or not begun is empty.
LEMMA ClearedPass ==
    ASSUME NoPass, mode' # "batch"
    PROVE  PassPartition'
BY DEF NoPass, PassPartition, OneRequestPerId, OnePlacePerId, BatchIsComplete,
       NoPassOutside, NoResults

\* Steps that touch neither the pass nor where the loop is keep it.
LEMMA SamePass ==
    ASSUME PassPartition, UNCHANGED pass,
           \/ UNCHANGED <<mode, position>>
           \/ mode \notin {"batch", "retry"} /\ mode' \notin {"batch", "retry"}
    PROVE  PassPartition'
BY DEF pass, PassPartition, OneRequestPerId, OnePlacePerId, BatchIsComplete,
       BatchIds, Requested, NoPassOutside, NoResults

\* An id is taken and has its result at once.
LEMMA ClaimedAndAnswered ==
    ASSUME TypeOK, PassPartition, NEW id \in Ids, MayClaim(id),
           NEW r \in ScannerRequestResult,
           todo' = Unclaimed(id), result' = [result EXCEPT ![id] = r],
           UNCHANGED <<mode, position, flight>>
    PROVE  PassPartition'
<1>1. OneRequestPerId'
  BY DEF PassPartition, OneRequestPerId
<1>2. OnePlacePerId'
  BY DEF TypeOK, PassPartition, OnePlacePerId, MayClaim, Unclaimed
<1>3. BatchIsComplete'
  BY DEF TypeOK, PassPartition, BatchIsComplete, BatchIds, Requested, MayClaim,
         Unclaimed, ScannerRequestResult
<1>4. NoPassOutside'
  BY DEF NoPassOutside, MayClaim
<1> QED
  BY <1>1, <1>2, <1>3, <1>4 DEF PassPartition

\* An id is taken and its request goes out.
LEMMA ClaimedAndRequested ==
    ASSUME TypeOK, PassPartition, NEW id \in Ids, NEW key \in Keys,
           ClaimAndFetch(id, key)
    PROVE  PassPartition'
<1> USE DEF ClaimAndFetch, MayClaim, Unclaimed
<1>1. OneRequestPerId'
  BY DEF TypeOK, PassPartition, OneRequestPerId, OnePlacePerId
<1>2. OnePlacePerId'
  BY DEF TypeOK, PassPartition, OneRequestPerId, OnePlacePerId
<1>3. BatchIsComplete'
  <2>1. \A x \in Ids : Requested(x)' <=> Requested(x) \/ x = id
    <3>1. flight' = flight \cup {<<id, key>>} /\ <<id, key>>[1] = id
      OBVIOUS
    <3> QED
      BY <3>1 DEF Requested
  <2> QED
    BY <2>1 DEF TypeOK, PassPartition, OnePlacePerId, BatchIsComplete, BatchIds
<1>4. NoPassOutside'
  BY DEF NoPassOutside
<1> QED
  BY <1>1, <1>2, <1>3, <1>4 DEF PassPartition

\* A request ends with a result.
LEMMA Answered ==
    ASSUME TypeOK, PassPartition, NEW f \in flight,
           NEW r \in ScannerRequestResult, Answer(f, r)
    PROVE  /\ PassPartition'
           /\ todo' \subseteq Ids /\ flight' \subseteq Ids \X Keys
           /\ result' \in [Ids -> ScannerRequestResult \cup {"none"}]
<1> USE DEF Answer
<1>1. OneRequestPerId'
  BY DEF PassPartition, OneRequestPerId
<1>2. OnePlacePerId'
  BY DEF TypeOK, PassPartition, OneRequestPerId, OnePlacePerId
<1>3. BatchIsComplete'
  <2>1. \A x \in Ids : Requested(x)' <=> Requested(x) /\ x # f[1]
    BY DEF Requested, PassPartition, OneRequestPerId, TypeOK
  <2> QED
    BY <2>1 DEF TypeOK, PassPartition, OnePlacePerId, BatchIsComplete, BatchIds,
                Requested, ScannerRequestResult
<1>4. NoPassOutside'
  BY DEF PassPartition, NoPassOutside
<1>5. /\ todo' \subseteq Ids /\ flight' \subseteq Ids \X Keys
      /\ result' \in [Ids -> ScannerRequestResult \cup {"none"}]
  BY DEF TypeOK
<1> QED
  BY <1>1, <1>2, <1>3, <1>4, <1>5 DEF PassPartition

\* A request goes out again under another key.
LEMMA Rekeyed ==
    ASSUME TypeOK, PassPartition, NEW f \in flight, NEW key \in Keys,
           flight' = (flight \ {f}) \cup {<<f[1], key>>},
           UNCHANGED <<mode, position, todo, result>>
    PROVE  PassPartition' /\ flight' \subseteq Ids \X Keys
<1>1. OneRequestPerId'
  BY DEF TypeOK, PassPartition, OneRequestPerId
<1>2. OnePlacePerId'
  BY DEF TypeOK, PassPartition, OnePlacePerId
<1>3. BatchIsComplete'
  <2>1. \A x \in Ids : Requested(x)' <=> Requested(x)
    <3> DEFINE g == <<f[1], key>>
    <3>1. flight' = (flight \ {f}) \cup {g} /\ g[1] = f[1]
      OBVIOUS
    <3> HIDE DEF g
    <3> QED
      BY <3>1 DEF Requested
  <2> QED
    BY <2>1 DEF PassPartition, BatchIsComplete, BatchIds
<1>4. NoPassOutside'
  BY DEF PassPartition, NoPassOutside
<1>5. flight' \subseteq Ids \X Keys
  BY DEF TypeOK
<1> QED
  BY <1>1, <1>2, <1>3, <1>4, <1>5 DEF PassPartition

(***************************************************************************)
(* The actions.                                                            *)
(***************************************************************************)

\* Before the first start there is no pass and no checkpoint.
LEMMA InitIInv == Init => IInv
<1> SUFFICES ASSUME Init PROVE IInv
  OBVIOUS
<1>1. TypeOK
  <2>1. result \in [Ids -> ScannerRequestResult \cup {"none"}]
    BY DEF Init, NoResults
  <2>2. 0 \in Positions
    BY ScannerAssumption DEF Positions
  <2>3. mode \in Modes /\ shouldStop \in BOOLEAN
    BY DEF Init, Modes
  <2> QED
    BY <2>1, <2>2, <2>3 DEF Init, TypeOK
<1>2. PassPartition
  BY DEF Init, PassPartition, OneRequestPerId, OnePlacePerId, BatchIsComplete,
         NoPassOutside
<1>3. CheckpointBacked /\ EndedWithCause
  BY UpToZero DEF Init, CheckpointBacked, EndedWithCause
<1>4. FatalMeansKeyless /\ VerdictsAreKept
  BY DEF Init, FatalMeansKeyless, FatalNoClients, NoResults, VerdictsAreKept, Verdicts,
         ScannerRequestResult
<1> QED
  BY <1>1, <1>2, <1>3, <1>4 DEF IInv

\* A worker takes the next id (scanBatch, retryMissedIds: nextIndex++).
LEMMA ClaimKeepsIInv ==
    ASSUME IInv, NEW id \in Ids, Claim(id)
    PROVE  IInv'
<1> USE DEF IInv, pass, database, history
<1>1. CASE ClaimStored(id) \/ ClaimWithoutKey(id)
  <2>1. PICK r \in {"not_raid", "fatal_no_clients"} :
            /\ result' = [result EXCEPT ![id] = r]
            /\ r = "fatal_no_clients" => disabled = Keys
            /\ r = "not_raid" => accounted' = accounted \cup {id}
            /\ r = "fatal_no_clients" => UNCHANGED accounted
    BY <1>1 DEF ClaimStored, ClaimWithoutKey, NoKeyLeft
  <2>2. PassPartition'
    BY <1>1, <2>1, ClaimedAndAnswered
       DEF ClaimStored, ClaimWithoutKey, ScannerRequestResult
  <2>3. TypeOK'
    BY <1>1, <2>1
       DEF TypeOK, ClaimStored, ClaimWithoutKey, Unclaimed, ScannerRequestResult
  <2>4. CheckpointBacked' /\ EndedWithCause'
    BY <1>1, <2>1, BackedStays DEF ClaimStored, ClaimWithoutKey, EndedWithCause
  <2>5. FatalMeansKeyless' /\ VerdictsAreKept'
    BY <1>1, <2>1
       DEF ClaimStored, ClaimWithoutKey, FatalMeansKeyless, FatalNoClients, TypeOK,
           VerdictsAreKept, Verdicts
  <2> QED
    BY <2>2, <2>3, <2>4, <2>5
<1>2. CASE ClaimThrows(id)
  <2>1. PassPartition'
    BY <1>2, ClearedPass DEF ClaimThrows
  <2>2. TypeOK'
    BY <1>2 DEF TypeOK, ClaimThrows, Unclaimed, NoPass, NoResults, Modes
  <2>3. CheckpointBacked' /\ EndedWithCause'
    BY <1>2, BackedStays DEF ClaimThrows, EndedWithCause
  <2>4. FatalMeansKeyless' /\ VerdictsAreKept'
    BY <1>2, NoVerdicts DEF ClaimThrows, NoPass
  <2> QED
    BY <2>1, <2>2, <2>3, <2>4
<1>3. CASE \E key \in Keys : ClaimAndFetch(id, key)
  <2>1. PICK key \in Keys : ClaimAndFetch(id, key)
    BY <1>3
  <2>2. PassPartition'
    BY <2>1, ClaimedAndRequested
  <2>3. TypeOK'
    BY <2>1 DEF TypeOK, ClaimAndFetch, Unclaimed
  <2>4. CheckpointBacked' /\ EndedWithCause'
    BY <2>1, BackedStays DEF ClaimAndFetch, EndedWithCause
  <2>5. FatalMeansKeyless' /\ VerdictsAreKept'
    BY <2>1, SameVerdicts DEF ClaimAndFetch, TypeOK
  <2> QED
    BY <2>2, <2>3, <2>4, <2>5
<1> QED
  BY <1>1, <1>2, <1>3 DEF Claim

\* A verdict is kept; no other result moves anything but the pass.
LEMMA AnsweredIsKept ==
    ASSUME IInv, mode # "ended", NEW f \in flight, NEW r \in ScannerRequestResult,
           Answer(f, r)
    PROVE  CheckpointBacked' /\ EndedWithCause' /\ VerdictsAreKept'
<1>1. CheckpointBacked' /\ EndedWithCause'
  BY BackedStays DEF IInv, Answer, EndedWithCause
<1>2. VerdictsAreKept'
  BY DEF IInv, Answer, VerdictsAreKept, TypeOK
<1> QED
  BY <1>1, <1>2

\* A request of scanSinglePGCR ends, or goes on under another key.
LEMMA FetchedKeepsIInv ==
    ASSUME IInv, NEW f \in flight, Fetched(f)
    PROVE  IInv'
<1> USE DEF IInv
<1>1. mode # "ended"
  BY DEF PassPartition, NoPassOutside
<1>2. CASE FetchedRaid(f) \/ FetchedOther(f) \/ FetchFailed(f)
  <2>1. PICK r \in ScannerRequestResult \ {"fatal_no_clients"} : Answer(f, r)
    BY <1>2 DEF FetchedRaid, FetchedOther, FetchFailed, ScannerRequestResult
  <2>2. /\ stored' \subseteq Ids /\ notRaid' \subseteq Ids
        /\ UNCHANGED disabled
    BY <1>2 DEF FetchedRaid, FetchedOther, FetchFailed, TypeOK
  <2>3. FatalMeansKeyless'
    BY <2>1, <2>2 DEF Answer, FatalMeansKeyless, FatalNoClients, TypeOK
  <2>4. CheckpointBacked' /\ EndedWithCause' /\ VerdictsAreKept'
    BY <1>1, <2>1, AnsweredIsKept
  <2> QED
    BY <2>1, <2>2, <2>3, <2>4, Answered DEF Answer, TypeOK
<1>3. CASE KeyRejected(f)
  <2>1. /\ disabled' \subseteq Keys /\ disabled \subseteq disabled'
        /\ UNCHANGED <<stored, notRaid>>
    BY <1>3 DEF KeyRejected, TypeOK
  <2>2. CASE NoKeyLeft(disabled') /\ Answer(f, "fatal_no_clients")
    <3>1. "fatal_no_clients" \in ScannerRequestResult
      BY DEF ScannerRequestResult
    <3>2. FatalMeansKeyless'
      BY <2>2 DEF FatalMeansKeyless, NoKeyLeft
    <3>3. CheckpointBacked' /\ EndedWithCause' /\ VerdictsAreKept'
      BY <1>1, <2>2, <3>1, AnsweredIsKept
    <3> QED
      BY <2>1, <2>2, <3>1, <3>2, <3>3, Answered DEF Answer, TypeOK
  <2>3. CASE \E key \in Keys \ disabled' :
                /\ flight' = (flight \ {f}) \cup {<<f[1], key>>}
                /\ UNCHANGED <<mode, shouldStop, position, todo, result, missed,
                               abandoned, saved, accounted>>
    <3>1. CheckpointBacked' /\ EndedWithCause'
      BY <1>1, <2>3, BackedStays DEF EndedWithCause
    <3>2. FatalMeansKeyless' /\ VerdictsAreKept'
      BY <2>1, <2>3, SameVerdicts
    <3> QED
      BY <2>1, <2>3, <3>1, <3>2, Rekeyed DEF TypeOK
  <2> QED
    BY <1>3, <2>2, <2>3 DEF KeyRejected
<1> QED
  BY <1>2, <1>3 DEF Fetched

\* A batch that moves the position has a verdict on each of its ids, or was stopped
\* before somebody took it.
LEMMA FinishedIsAccounted ==
    ASSUME IInv, FinishBatch
    PROVE  BatchIds \subseteq accounted'
<1> SUFFICES ASSUME NEW id \in BatchIds PROVE id \in accounted'
  OBVIOUS
<1>1. /\ mode = "batch" /\ flight = {} /\ (todo = {} \/ Halted)
      /\ ~SystemDisabled /\ ~FatalNoClients
      /\ accounted' = accounted \cup (IF shouldStop THEN todo ELSE {})
  BY DEF FinishBatch, PassOver
<1>2. id \in Ids /\ (id \in todo \/ result[id] # "none" \/ Requested(id))
  BY <1>1, ScannerAssumption
     DEF IInv, PassPartition, BatchIsComplete, BatchIds, TypeOK, Positions, Ids
<1>3. ~Requested(id)
  BY <1>1 DEF Requested
<1>4. CASE id \in todo
  BY <1>1, <1>4 DEF Halted
<1>5. CASE result[id] # "none"
  <2>1. result[id] \in Verdicts
    BY <1>1, <1>2, <1>5 DEF IInv, TypeOK, Verdicts, SystemDisabled, FatalNoClients
  <2> QED
    BY <1>1, <1>2, <2>1 DEF IInv, VerdictsAreKept
<1> QED
  BY <1>2, <1>3, <1>4, <1>5

\* A batch begins, and ends in each of its three ways (scanLoopIteration).
LEMMA BatchKeepsIInv ==
    ASSUME IInv,
           StartBatch \/ FinishBatchDisabled \/ FinishBatchFatal \/ FinishBatch
    PROVE  IInv'
<1> USE DEF IInv, pass, database, history
<1>1. CASE StartBatch
  <2> DEFINE from == Larger(saved, position)
  <2>1. from \in Positions /\ from \in {saved, position}
    BY LargerIsPosition DEF TypeOK, Larger
  <2>2. from + BatchSize <= LastId /\ position' = from
    BY <1>1 DEF StartBatch
  <2>3. todo' = (from + 1) .. (from + BatchSize) /\ todo' \subseteq Ids
    BY <1>1, <2>1, <2>2, ScannerAssumption DEF StartBatch, Positions, Ids
  <2> HIDE DEF from
  <2>4. PassPartition'
    BY <1>1, <2>1, <2>2, <2>3
       DEF StartBatch, PassPartition, OneRequestPerId, OnePlacePerId,
           BatchIsComplete, NoPassOutside, BatchIds, Requested, NoResults
  <2>5. TypeOK'
    BY <1>1, <2>1, <2>2, <2>3 DEF StartBatch, TypeOK, NoResults, Modes
  <2>6. CheckpointBacked' /\ EndedWithCause'
    BY <1>1, <2>1, <2>2, BackedStays DEF StartBatch, EndedWithCause
  <2>7. FatalMeansKeyless' /\ VerdictsAreKept'
    BY <1>1, NoVerdicts DEF StartBatch
  <2> QED
    BY <2>4, <2>5, <2>6, <2>7
<1>2. ASSUME FinishBatchDisabled \/ FinishBatchFatal \/ FinishBatch
      PROVE  IInv'
  <2>1. PassPartition'
    BY <1>2, ClearedPass DEF FinishBatchDisabled, FinishBatchFatal, FinishBatch
  <2>2. /\ missed' \subseteq Ids /\ mode' \in Modes
        /\ todo' = {} /\ flight' = {}
        /\ result' \in [Ids -> ScannerRequestResult \cup {"none"}]
        /\ FatalMeansKeyless' /\ VerdictsAreKept'
    <3>1. Collected(result) \subseteq Ids
      <4> DEFINE kept == {id \in BatchIds : result[id] \in KeptForRetry}
      <4>1. kept \subseteq Ids
        BY <1>2, ScannerAssumption
           DEF FinishBatchDisabled, FinishBatchFatal, FinishBatch, TypeOK,
               PassPartition, BatchIsComplete, BatchIds, Positions, Ids
      <4>2. missed \subseteq Ids
        BY DEF TypeOK
      <4>3. Collected(result) = AddMissedIds(kept)
        BY DEF Collected
      <4> HIDE DEF kept
      <4> QED
        BY <4>1, <4>2, <4>3, AddMissedIdsType
    <3>2. FatalMeansKeyless' /\ VerdictsAreKept'
      BY <1>2, NoVerdicts DEF FinishBatchDisabled, FinishBatchFatal, FinishBatch, NoPass
    <3> QED
      BY <1>2, <3>1, <3>2
         DEF FinishBatchDisabled, FinishBatchFatal, FinishBatch, NoPass,
             NoResults, Modes
  <2>3. CASE FinishBatchDisabled
    <3>1. CheckpointBacked' /\ EndedWithCause'
      BY <2>3, BackedStays DEF FinishBatchDisabled, EndedWithCause
    <3> QED
      BY <2>1, <2>2, <2>3, <3>1 DEF FinishBatchDisabled, TypeOK
  <2>4. CASE FinishBatchFatal
    <3>1. disabled' = Keys
      BY <2>4 DEF FinishBatchFatal, FatalMeansKeyless
    <3>2. saved' \in Positions /\ (saved' = saved \/ saved' = position)
      BY <2>4, SaveIsMonotone DEF FinishBatchFatal, FatalCheckpoint, TypeOK
    <3>3. CheckpointBacked' /\ EndedWithCause'
      BY <2>4, <3>1, <3>2, BackedStays DEF FinishBatchFatal, EndedWithCause
    <3> QED
      BY <2>1, <2>2, <2>4, <3>2, <3>3 DEF FinishBatchFatal, TypeOK
  <2>5. CASE FinishBatch
    <3>1. BatchEnd \in Positions /\ BatchEnd >= position
      BY <2>5, BatchEndIsPosition DEF FinishBatch, PassPartition
    <3>2. accounted' \subseteq Ids /\ accounted \subseteq accounted'
      BY <2>5 DEF FinishBatch, TypeOK
    <3>3. saved' \in Positions /\ (saved' = saved \/ saved' = BatchEnd)
      BY <2>5, <3>1, SaveIsMonotone DEF FinishBatch, TypeOK
    <3>4. CheckpointBacked'
      <4>1. BatchIds \subseteq accounted'
        BY <2>5, FinishedIsAccounted
      <4>2. UpTo(BatchEnd) \subseteq UpTo(position) \cup BatchIds
        BY ScannerAssumption DEF UpTo, BatchEnd, BatchIds, TypeOK, Positions, Ids
      <4>3. UpTo(BatchEnd) \subseteq accounted'
        BY <3>2, <4>1, <4>2 DEF CheckpointBacked
      <4>4. position' = BatchEnd
        BY <2>5 DEF FinishBatch
      <4>5. UpTo(saved)' \in {UpTo(saved), UpTo(BatchEnd)} /\ UpTo(position)' = UpTo(BatchEnd)
        BY <3>3, <4>4 DEF UpTo
      <4> QED
        BY <3>2, <4>3, <4>5 DEF CheckpointBacked
    <3>5. TypeOK' /\ EndedWithCause'
      BY <2>2, <2>5, <3>1, <3>2, <3>3 DEF FinishBatch, TypeOK, EndedWithCause
    <3> QED
      BY <2>1, <2>2, <3>4, <3>5
  <2> QED
    BY <1>2, <2>3, <2>4, <2>5
<1> QED
  BY <1>1, <1>2

\* The catch-up timer fires; the retry pass ends.
LEMMA RetryKeepsIInv ==
    ASSUME IInv, CatchupTimer \/ FinishRetry
    PROVE  IInv'
<1> USE DEF IInv, pass, database, history
<1>1. CASE CatchupTimer
  <2>1. flight = {} /\ todo = {} /\ result = NoResults
    BY <1>1 DEF CatchupTimer, PassPartition, NoPassOutside
  <2>2. mode' \in {"retry", "loop"} /\ (mode' = "loop" => todo' = {})
    BY <1>1, <2>1 DEF CatchupTimer
  <2>3. PassPartition'
    BY <1>1, <2>1, <2>2
       DEF CatchupTimer, PassPartition, OneRequestPerId, OnePlacePerId,
           BatchIsComplete, NoPassOutside, NoResults, TypeOK
  <2>4. TypeOK'
    BY <1>1, <2>2 DEF CatchupTimer, TypeOK, Modes
  <2>5. CheckpointBacked' /\ EndedWithCause'
    BY <1>1, <2>2, BackedStays DEF CatchupTimer, EndedWithCause
  <2>6. FatalMeansKeyless' /\ VerdictsAreKept'
    BY <1>1, SameVerdicts DEF CatchupTimer, TypeOK
  <2> QED
    BY <2>3, <2>4, <2>5, <2>6
<1>2. CASE FinishRetry
  <2>1. PassPartition'
    BY <1>2, ClearedPass DEF FinishRetry
  <2>2. AddMissedIds(StillMissing(result)) \subseteq Ids
    <3>1. StillMissing(result) \subseteq Ids /\ missed \subseteq Ids
      BY DEF StillMissing, TypeOK
    <3> QED
      BY <3>1, AddMissedIdsType
  <2>3. saved' \in Positions /\ (saved' = saved \/ saved' = position)
    BY <1>2, SaveIsMonotone DEF FinishRetry, TypeOK
  <2>4. mode' = "ended" => disabled' = Keys
    BY <1>2 DEF FinishRetry, FatalMeansKeyless
  <2>5. TypeOK'
    BY <1>2, <2>2, <2>3 DEF FinishRetry, TypeOK, NoPass, NoResults, Modes
  <2>6. CheckpointBacked' /\ EndedWithCause'
    BY <1>2, <2>3, <2>4, BackedStays DEF FinishRetry, EndedWithCause
  <2>7. FatalMeansKeyless' /\ VerdictsAreKept'
    BY <1>2, NoVerdicts DEF FinishRetry, NoPass
  <2> QED
    BY <2>1, <2>5, <2>6, <2>7
<1> QED
  BY <1>1, <1>2

\* The process starts, is asked to stop, stops, and is killed.
LEMMA ProcessKeepsIInv ==
    ASSUME IInv, Start \/ StopScanner \/ Exit \/ FinishStop \/ FinishStopFails
    PROVE  IInv'
<1> USE DEF IInv, pass, database, history
<1>1. CASE Start
  <2>1. PICK p \in Positions :
            /\ Loads(p) /\ position' = p
            /\ accounted' = IF saved = 0 THEN accounted \cup UpTo(p) ELSE accounted
    BY <1>1 DEF Start
  <2>2. accounted' \subseteq Ids /\ accounted \subseteq accounted'
    BY <2>1 DEF TypeOK, UpTo
  <2>3. PassPartition'
    BY <1>1, SamePass DEF Start
  <2>4. TypeOK'
    BY <1>1, <2>1, <2>2 DEF Start, TypeOK, Modes
  <2>5. CheckpointBacked'
    <3>1. UNCHANGED saved
      BY <1>1 DEF Start
    <3>2. CASE saved = 0
      BY <2>1, <3>1, <3>2, UpToZero DEF CheckpointBacked, UpTo
    <3>3. CASE saved # 0
      <4>1. p = saved
        BY <2>1, <3>3, ScannerAssumption DEF Loads, TypeOK, Positions
      <4> QED
        BY <2>1, <2>2, <3>1, <4>1, BackedStays
    <3> QED
      BY <3>2, <3>3
  <2>6. EndedWithCause' /\ FatalMeansKeyless' /\ VerdictsAreKept'
    BY <1>1, <2>2, SameVerdicts DEF Start, EndedWithCause, TypeOK
  <2> QED
    BY <2>3, <2>4, <2>5, <2>6
<1>2. CASE StopScanner
  <2>1. PassPartition'
    BY <1>2, SamePass DEF StopScanner
  <2>2. CheckpointBacked' /\ FatalMeansKeyless' /\ VerdictsAreKept'
    BY <1>2, BackedStays, SameVerdicts DEF StopScanner, TypeOK
  <2> QED
    BY <1>2, <2>1, <2>2 DEF StopScanner, TypeOK, EndedWithCause
<1>3. CASE Exit
  <2>1. PassPartition'
    BY <1>3, ClearedPass DEF Exit
  <2>2. 0 \in Positions /\ "down" \in Modes
    BY ScannerAssumption DEF Positions, Modes
  <2>3. result' \in [Ids -> ScannerRequestResult \cup {"none"}]
    BY <1>3 DEF Exit, NoPass, NoResults
  <2>4. TypeOK'
    BY <1>3, <2>2, <2>3 DEF Exit, NoPass, TypeOK
  <2>5. CheckpointBacked'
    <3>1. position' = 0 /\ UNCHANGED <<saved, accounted>>
      BY <1>3 DEF Exit
    <3>2. UpTo(position)' = {} /\ UpTo(saved)' = UpTo(saved)
      BY <3>1, UpToZero DEF UpTo
    <3> QED
      BY <3>1, <3>2 DEF CheckpointBacked
  <2>6. EndedWithCause' /\ FatalMeansKeyless' /\ VerdictsAreKept'
    BY <1>3, NoVerdicts DEF Exit, EndedWithCause, NoPass
  <2> QED
    BY <2>1, <2>4, <2>5, <2>6
<1>4. CASE FinishStop \/ FinishStopFails
  <2>1. PassPartition'
    BY <1>4, SamePass DEF FinishStop, FinishStopFails
  <2>2. saved' \in Positions /\ (saved' = saved \/ saved' = position)
    BY <1>4, SaveIsMonotone DEF FinishStop, FinishStopFails, TypeOK
  <2>3. CheckpointBacked'
    BY <1>4, <2>2, BackedStays DEF FinishStop, FinishStopFails
  <2>4. FatalMeansKeyless' /\ VerdictsAreKept'
    BY <1>4, SameVerdicts DEF FinishStop, FinishStopFails, TypeOK
  <2> QED
    BY <1>4, <2>1, <2>2, <2>3, <2>4
       DEF FinishStop, FinishStopFails, TypeOK, Modes, EndedWithCause
<1> QED
  BY <1>1, <1>2, <1>3, <1>4

\* Workers of a failed pass, and other processes, write the database.
LEMMA OthersKeepIInv ==
    ASSUME IInv,
           \/ \E id \in Ids : Abandoned(id) \/ StoredElsewhere(id)
           \/ \E p \in Positions : MovedElsewhere(p)
    PROVE  IInv'
<1> USE DEF IInv, pass, database, history
<1>1. CASE \E id \in Ids : Abandoned(id) \/ StoredElsewhere(id)
  <2>1. /\ stored' \subseteq Ids /\ notRaid' \subseteq Ids
        /\ abandoned' \subseteq Ids
        /\ disabled \subseteq disabled' /\ disabled' \subseteq Keys
        /\ UNCHANGED <<mode, shouldStop, position, pass, missed, saved, accounted>>
    BY <1>1 DEF Abandoned, AbandonedFetch, AbandonedKeyRejected, StoredElsewhere, TypeOK
  <2>2. PassPartition'
    BY <2>1, SamePass
  <2>3. CheckpointBacked' /\ FatalMeansKeyless' /\ VerdictsAreKept'
    BY <2>1, BackedStays, SameVerdicts
  <2>4. EndedWithCause'
    BY <2>1 DEF EndedWithCause
  <2> QED
    BY <2>1, <2>2, <2>3, <2>4 DEF TypeOK
<1>2. CASE \E p \in Positions : MovedElsewhere(p)
  <2>1. PICK p \in Positions : MovedElsewhere(p)
    BY <1>2
  <2>2. /\ accounted' = accounted \cup UpTo(p) /\ accounted' \subseteq Ids
        /\ saved' = p /\ UNCHANGED position
    BY <2>1 DEF MovedElsewhere, TypeOK, UpTo
  <2>3. PassPartition'
    BY <2>1, SamePass DEF MovedElsewhere
  <2>4. TypeOK'
    BY <2>1, <2>2 DEF MovedElsewhere, TypeOK
  <2>5. CheckpointBacked'
    BY <2>2 DEF CheckpointBacked, UpTo
  <2>6. EndedWithCause' /\ FatalMeansKeyless' /\ VerdictsAreKept'
    BY <2>1, <2>2, SameVerdicts DEF MovedElsewhere, EndedWithCause, TypeOK
  <2> QED
    BY <2>3, <2>4, <2>5, <2>6
<1> QED
  BY <1>1, <1>2

(***************************************************************************)
(* The theorems.                                                           *)
(***************************************************************************)

\* Every step of the scanner and of its environment keeps the invariant.
LEMMA NextKeepsIInv == IInv /\ [Next]_vars => IInv'
<1> SUFFICES ASSUME IInv, [Next]_vars PROVE IInv'
  OBVIOUS
<1>1. CASE UNCHANGED vars
  <2>1. PassPartition'
    BY <1>1, SamePass DEF vars, IInv
  <2>2. CheckpointBacked' /\ FatalMeansKeyless' /\ VerdictsAreKept'
    BY <1>1, BackedStays, SameVerdicts DEF vars, pass, database, history, IInv, TypeOK
  <2> QED
    BY <1>1, <2>1, <2>2 DEF vars, pass, database, history, IInv, TypeOK, EndedWithCause
<1>2. CASE LoopStep
  BY <1>2, BatchKeepsIInv, RetryKeepsIInv, ProcessKeepsIInv DEF LoopStep
<1>3. CASE \E id \in Ids : Claim(id) \/ Abandoned(id)
  BY <1>3, ClaimKeepsIInv, OthersKeepIInv
<1>4. CASE \E f \in flight : Fetched(f)
  BY <1>4, FetchedKeepsIInv
<1>5. CASE Environment
  <2>1. SharedRaids \subseteq Ids /\ ProbedPositions \subseteq Positions
    BY ScannerAssumption DEF Ids, Positions
  <2> QED
    BY <1>5, <2>1, ProcessKeepsIInv, OthersKeepIInv DEF Environment
<1> QED
  BY <1>1, <1>2, <1>3, <1>4, <1>5 DEF Next, Scan

\* The inductive invariant holds throughout (scanner/index.ts, the whole loop).
THEOREM ScannerIInv == Spec => []IInv
<1> QED
  BY InitIInv, NextKeepsIInv, PTL DEF Spec

\* However many workers share a batch, no id of it is claimed twice or left
\* out (the shared nextIndex of scanBatch and retryMissedIds).
THEOREM ScannerPassPartition == Spec => []PassPartition
<1>1. IInv => PassPartition
  BY DEF IInv
<1> QED
  BY <1>1, ScannerIInv, PTL

\* Types are respected; no batch leaves the bound.
THEOREM ScannerTypeOK == Spec => []TypeOK
<1>1. IInv => TypeOK
  BY DEF IInv
<1> QED
  BY <1>1, ScannerIInv, PTL

\* Whatever the workers of a batch end with, and wherever the process is killed,
\* saveScannerPosition has persisted no position beyond an id without a verdict,
\* a stop's own leftovers and deliberate jumps apart (scanBatch's lastId).
THEOREM ScannerCheckpointBacked == Spec => []CheckpointBacked
<1>1. IInv => CheckpointBacked
  BY DEF IInv
<1> QED
  BY <1>1, ScannerIInv, PTL

\* The scanner ends by itself only when every configured key was rejected.
THEOREM ScannerEndedWithCause == Spec => []EndedWithCause
<1>1. IInv => EndedWithCause
  BY DEF IInv
<1> QED
  BY <1>1, ScannerIInv, PTL

\* Each step that writes the checkpoint or the live position only raises it:
\* saveScannerPosition compares with the stored row, and a batch starts from
\* the larger of the two.
LEMMA StepNeverRewinds ==
    ASSUME IInv, [Next]_vars
    PROVE  /\ saved' >= saved
           /\ mode # "down" /\ mode' # "down" => position' >= position
<1> USE DEF IInv, pass, database, history
<1>0. saved \in Int /\ position \in Int
  BY ScannerAssumption DEF TypeOK, Positions
<1>1. CASE StartBatch
  BY <1>0, <1>1 DEF StartBatch, Larger
<1>2. CASE FinishBatch
  <2>1. BatchEnd \in Positions /\ BatchEnd >= position
    BY <1>2, BatchEndIsPosition DEF FinishBatch, PassPartition
  <2> QED
    BY <1>2, <2>1, SaveIsMonotone DEF FinishBatch, TypeOK
<1>3. CASE FinishBatchFatal \/ FinishRetry \/ FinishStop \/ FinishStopFails
  <2>1. SaveScannerPosition(position) \/ UNCHANGED saved
    BY <1>3 DEF FinishBatchFatal, FatalCheckpoint, FinishRetry, FinishStop,
                FinishStopFails
  <2>2. UNCHANGED position
    BY <1>3 DEF FinishBatchFatal, FinishRetry, FinishStop, FinishStopFails
  <2> QED
    BY <1>0, <2>1, <2>2, SaveIsMonotone DEF TypeOK
<1>4. CASE FinishBatchDisabled \/ CatchupTimer \/ UNCHANGED vars
  BY <1>0, <1>4 DEF FinishBatchDisabled, CatchupTimer, vars
<1>5. CASE \E id \in Ids : Claim(id) \/ Abandoned(id)
  <2>1. UNCHANGED <<saved, position>>
    BY <1>5 DEF Claim, ClaimStored, ClaimWithoutKey, ClaimThrows, ClaimAndFetch,
                Abandoned, AbandonedFetch, AbandonedKeyRejected
  <2> QED
    BY <1>0, <2>1
<1>6. CASE \E f \in flight : Fetched(f)
  <2>1. UNCHANGED <<saved, position>>
    BY <1>6 DEF Fetched, FetchedRaid, FetchedOther, FetchFailed, KeyRejected,
                Answer
  <2> QED
    BY <1>0, <2>1
<1>7. CASE Start \/ StopScanner \/ Exit \/ \E id \in SharedRaids : StoredElsewhere(id)
  BY <1>0, <1>7 DEF Start, StopScanner, Exit, StoredElsewhere
<1>8. CASE \E p \in ProbedPositions : MovedElsewhere(p)
  <2>1. PICK p \in ProbedPositions : MovedElsewhere(p)
    BY <1>8
  <2>2. p \in Int
    BY ScannerAssumption
  <2>3. saved' = p /\ p > saved /\ position' = position
    BY <2>1 DEF MovedElsewhere
  <2> QED
    BY <1>0, <2>2, <2>3
<1> QED
  BY <1>1, <1>2, <1>3, <1>4, <1>5, <1>6, <1>7, <1>8
     DEF Next, Scan, LoopStep, Environment

\* The scanner never writes the checkpoint back (saveScannerPosition's guard), and
\* the position of a running scanner never goes back, whenever another process
\* moves the row in between two of its saves.
THEOREM ScannerNeverRewinds == Spec => NeverRewinds
<1>1. IInv /\ [Next]_vars =>
        [ /\ saved' >= saved
          /\ mode # "down" /\ mode' # "down" => position' >= position ]_vars
  BY StepNeverRewinds
<1> QED
  BY <1>1, ScannerIInv, PTL DEF Spec, NeverRewinds
(***************************************************************************)
(* The cap of the missed set.                                              *)
(***************************************************************************)

\* A member of F that no other member is part of.
HasSmallest(F) == \E U \in F : \A V \in F : V \subseteq U => V = U

\* A finite set of subsets of a finite set has a smallest member.
LEMMA SmallestSubset ==
    ASSUME NEW S, IsFiniteSet(S), NEW F, F \subseteq SUBSET S, F # {}
    PROVE  HasSmallest(F)
<1>1. IsWellFoundedOn(StrictSubsetOrdering(S), SUBSET S)
  BY FS_StrictSubsetOrderingWellFounded, FS_FiniteSubsetsOfFinite
<1>2. \E U \in F : \A V \in F : ~ (<<V, U>> \in StrictSubsetOrdering(S))
  BY <1>1, WFMin
<1> QED
  BY <1>2 DEF StrictSubsetOrdering, HasSmallest

Below(S, x) == {o \in S : o < x}
Above(S, x) == {o \in S : o > x}

\* The smaller an id, the fewer lie below it ...
LEMMA BelowIsSmaller ==
    ASSUME NEW S, S \subseteq Int, NEW x \in S, NEW y \in S, y < x
    PROVE  Below(S, y) \subseteq Below(S, x) /\ Below(S, y) # Below(S, x)
<1>1. \A o \in S : o < y => o < x
  OBVIOUS
<1>2. y \in Below(S, x)
  BY DEF Below
<1>3. y \notin Below(S, y)
  BY DEF Below
<1> QED
  BY <1>1, <1>2, <1>3 DEF Below

\* ... and the more above.
LEMMA AboveIsSmaller ==
    ASSUME NEW S, S \subseteq Int, NEW x \in S, NEW y \in S, y > x
    PROVE  Above(S, y) \subseteq Above(S, x) /\ Above(S, y) # Above(S, x)
<1>1. \A o \in S : o > y => o > x
  OBVIOUS
<1>2. y \in Above(S, x)
  BY DEF Above
<1>3. y \notin Above(S, y)
  BY DEF Above
<1> QED
  BY <1>1, <1>2, <1>3 DEF Above

\* Finite sets of integers have a first and a last element.
LEMMA FiniteMin ==
    ASSUME NEW S, S \subseteq Int, IsFiniteSet(S), S # {}
    PROVE  \E x \in S : \A y \in S : x <= y
<1> DEFINE F == {Below(S, x) : x \in S}
<1>1. F \subseteq SUBSET S /\ F # {}
  BY DEF Below
<1> HIDE DEF F
<1>2. HasSmallest(F)
  BY <1>1, SmallestSubset
<1>3. PICK x \in S : \A V \in F : V \subseteq Below(S, x) => V = Below(S, x)
  BY <1>2 DEF F, HasSmallest
<1>4. \A y \in S : ~ (y < x)
  BY <1>3, BelowIsSmaller DEF F
<1> QED
  BY <1>4

\* See FiniteMin.
LEMMA FiniteMax ==
    ASSUME NEW S, S \subseteq Int, IsFiniteSet(S), S # {}
    PROVE  \E x \in S : \A y \in S : y <= x
<1> DEFINE F == {Above(S, x) : x \in S}
<1>1. F \subseteq SUBSET S /\ F # {}
  BY DEF Above
<1> HIDE DEF F
<1>2. HasSmallest(F)
  BY <1>1, SmallestSubset
<1>3. PICK x \in S : \A V \in F : V \subseteq Above(S, x) => V = Above(S, x)
  BY <1>2 DEF F, HasSmallest
<1>4. \A y \in S : ~ (y > x)
  BY <1>3, AboveIsSmaller DEF F
<1> QED
  BY <1>4
\* Those of the ids with fewer than room others below them.
First(N, room) == {id \in N : Cardinality(Below(N, id)) < room}

\* There are room of them, unless there are fewer ids.
LEMMA FirstFills ==
    ASSUME NEW N, N \subseteq Int, IsFiniteSet(N), NEW room \in Nat
    PROVE  /\ IsFiniteSet(First(N, room)) /\ Cardinality(First(N, room)) <= room
           /\ First(N, room) # N => Cardinality(First(N, room)) = room
           /\ Cardinality(N) <= room => First(N, room) = N
<1> DEFINE A == First(N, room)
<1>1. \A id \in N : /\ Below(N, id) \subseteq N /\ id \notin Below(N, id)
                    /\ IsFiniteSet(Below(N, id)) /\ Cardinality(Below(N, id)) \in Nat
  <2> TAKE id \in N
  <2>1. Below(N, id) \subseteq N /\ id \notin Below(N, id)
    BY DEF Below
  <2>2. IsFiniteSet(Below(N, id))
    BY <2>1, FS_Subset
  <2> QED
    BY <2>1, <2>2, FS_CardinalityType
<1>2. A \subseteq N /\ IsFiniteSet(A) /\ Cardinality(A) \in Nat
  <2>1. A \subseteq N
    BY DEF First
  <2>2. IsFiniteSet(A)
    BY <2>1, FS_Subset
  <2> QED
    BY <2>1, <2>2, FS_CardinalityType
<1>3. \A id \in N : id \in A <=> Cardinality(Below(N, id)) < room
  BY DEF First
<1> HIDE DEF A
<1>4. Cardinality(A) <= room
  <2>1. CASE A = {}
    BY <2>1, FS_EmptySet
  <2>2. CASE A # {}
    <3>1. PICK y \in A : \A x \in A : x <= y
      BY <1>2, <2>2, FiniteMax
    <3>2. A \subseteq Below(N, y) \cup {y}
      BY <1>2, <3>1 DEF Below
    <3>3. /\ IsFiniteSet(Below(N, y) \cup {y})
          /\ Cardinality(Below(N, y) \cup {y}) = Cardinality(Below(N, y)) + 1
      BY <1>1, <1>2, <3>1, FS_AddElement
    <3>4. Cardinality(A) <= Cardinality(Below(N, y) \cup {y})
      BY <3>2, <3>3, FS_Subset
    <3> QED
      BY <1>1, <1>2, <1>3, <3>1, <3>3, <3>4
  <2> QED
    BY <2>1, <2>2
<1>5. A # N => Cardinality(A) >= room
  <2> SUFFICES ASSUME A # N PROVE Cardinality(A) >= room
    OBVIOUS
  <2>1. N \ A # {} /\ N \ A \subseteq Int /\ IsFiniteSet(N \ A)
    BY <1>2, FS_Subset
  <2>2. PICK x \in N \ A : \A y \in N \ A : x <= y
    BY <2>1, FiniteMin
  <2>3. Below(N, x) \subseteq A
    <3> SUFFICES ASSUME NEW o \in Below(N, x), o \notin A PROVE FALSE
      OBVIOUS
    <3>1. o \in N \ A /\ o < x /\ o \in Int /\ x \in Int
      BY <2>2 DEF Below
    <3>2. x <= o
      BY <2>2, <3>1
    <3> QED
      BY <3>1, <3>2
  <2>4. Cardinality(Below(N, x)) <= Cardinality(A)
    BY <1>2, <2>3, FS_Subset
  <2> QED
    BY <1>1, <1>2, <1>3, <2>2, <2>4
<1>6. Cardinality(N) <= room => A = N
  <2> SUFFICES ASSUME Cardinality(N) <= room, NEW id \in N PROVE id \in A
    BY <1>2
  <2>1. /\ Cardinality(Below(N, id)) <= Cardinality(N)
        /\ Cardinality(N) = Cardinality(Below(N, id)) => N = Below(N, id)
    BY <1>1, FS_Subset
  <2>2. Cardinality(N) \in Nat
    BY FS_CardinalityType
  <2> QED
    BY <1>1, <1>3, <2>1, <2>2
<1> QED
  BY <1>2, <1>4, <1>5, <1>6 DEF A

\* addMissedId keeps what is there and the cap; only a full set turns ids away.
LEMMA AddMissedIdsFills ==
    ASSUME missed \subseteq Ids, Cardinality(missed) <= MaxMissedIds,
           NEW S, S \subseteq Ids
    PROVE  /\ missed \subseteq AddMissedIds(S)
           /\ AddMissedIds(S) \subseteq missed \cup S
           /\ Cardinality(AddMissedIds(S)) <= MaxMissedIds
           /\ ~ (S \subseteq AddMissedIds(S)) =>
                  Cardinality(AddMissedIds(S)) = MaxMissedIds
           /\ missed = {} /\ Cardinality(S) <= MaxMissedIds => S \subseteq AddMissedIds(S)
<1> DEFINE new  == S \ missed
           room == MaxMissedIds - Cardinality(missed)
           A    == First(new, room)
<1>1. /\ IsFiniteSet(missed) /\ Cardinality(missed) \in Nat
      /\ IsFiniteSet(new) /\ new \subseteq Int
  <2>1. IsFiniteSet(Ids) /\ Ids \subseteq Int
    BY ScannerAssumption, FS_Interval DEF Ids
  <2>2. IsFiniteSet(missed) /\ IsFiniteSet(new) /\ new \subseteq Int
    BY <2>1, FS_Subset
  <2> QED
    BY <2>2, FS_CardinalityType
<1>2. room \in Nat
  BY <1>1, ScannerAssumption
<1>3. AddMissedIds(S) = missed \cup A /\ A \subseteq new
  BY DEF AddMissedIds, First, Below
<1> HIDE DEF room
<1>4. /\ IsFiniteSet(A) /\ Cardinality(A) <= room
      /\ A # new => Cardinality(A) = room
      /\ Cardinality(new) <= room => A = new
  BY <1>1, <1>2, FirstFills
<1>5. Cardinality(A) \in Nat
  BY <1>4, FS_CardinalityType
<1>6. Cardinality(missed \cup A) = Cardinality(missed) + Cardinality(A)
  <2>1. missed \cap A = {}
    BY <1>3
  <2>2. Cardinality(missed \cup A) =
            Cardinality(missed) + Cardinality(A) - Cardinality(missed \cap A)
    BY <1>1, <1>4, FS_Union
  <2>3. Cardinality(missed \cap A) = 0
    BY <2>1, FS_EmptySet
  <2> HIDE DEF A
  <2> QED
    BY <1>1, <1>5, <2>2, <2>3
<1>7. ~ (S \subseteq AddMissedIds(S)) => A # new
  BY <1>3
<1>8. missed = {} /\ Cardinality(S) <= MaxMissedIds => S \subseteq AddMissedIds(S)
  <2> SUFFICES ASSUME missed = {}, Cardinality(S) <= MaxMissedIds
               PROVE  S \subseteq AddMissedIds(S)
    OBVIOUS
  <2>1. new = S /\ Cardinality(missed) = 0
    BY FS_EmptySet
  <2>2. room = MaxMissedIds
    BY <2>1, ScannerAssumption DEF room
  <2> QED
    BY <1>3, <1>4, <2>1, <2>2
<1>9. MaxMissedIds \in Nat /\ room = MaxMissedIds - Cardinality(missed)
  BY ScannerAssumption DEF room
<1>10. A \subseteq S
  BY <1>3
<1> HIDE DEF A
<1>11. ~ (S \subseteq AddMissedIds(S)) => Cardinality(AddMissedIds(S)) = MaxMissedIds
  BY <1>1, <1>3, <1>4, <1>5, <1>6, <1>7, <1>9
<1> QED
  BY <1>1, <1>3, <1>4, <1>5, <1>6, <1>8, <1>9, <1>10, <1>11

(***************************************************************************)
(* Losses.  A result that needs no retry is backed by the database, and    *)
(* what is retried fits under the cap: the missed set is empty meanwhile.  *)
(***************************************************************************)

MissedFits == Cardinality(missed) <= MaxMissedIds

RetryFits == mode = "retry" => missed = {} /\ Cardinality(InRetry) <= MaxMissedIds

ResultsAreResolved ==
    \A id \in Ids : result[id] \in {"raid", "not_raid"} => id \in Resolved

LossInv == IInv /\ MissedFits /\ RetryFits /\ ResultsAreResolved

Named == \A id \in Lost' \ Lost : LossCause(id)

\* No id is lost while the position stays and the retry queue gives up only what
\* is resolved.
LEMMA NothingLost ==
    ASSUME mode # "down", mode' # "down", UNCHANGED position,
           Resolved \subseteq Resolved', RetryQueue \subseteq RetryQueue' \cup Resolved'
    PROVE  Named
BY DEF Lost, Behind, Named

\* A retry that goes on only shrinks.
LEMMA RetryShrinks ==
    ASSUME TypeOK, MissedFits, RetryFits, UNCHANGED <<mode, missed>>,
           mode = "retry" => InRetry' \subseteq InRetry
    PROVE  MissedFits' /\ RetryFits'
<1>1. CASE mode = "retry"
  <2>1. InRetry \subseteq Ids
    BY DEF TypeOK, InRetry, InFlight, StillMissing
  <2>2. IsFiniteSet(InRetry)
    <3>1. IsFiniteSet(Ids)
      BY ScannerAssumption, FS_Interval DEF Ids
    <3> QED
      BY <2>1, <3>1, FS_Subset
  <2>3. /\ IsFiniteSet(InRetry') /\ Cardinality(InRetry') <= Cardinality(InRetry)
    BY <1>1, <2>2, FS_Subset
  <2>4. /\ Cardinality(InRetry) \in Nat /\ Cardinality(InRetry') \in Nat
    BY <2>2, <2>3, FS_CardinalityType
  <2> QED
    BY <1>1, <2>3, <2>4, ScannerAssumption DEF MissedFits, RetryFits
<1>2. CASE mode # "retry"
  BY <1>2 DEF MissedFits, RetryFits
<1> QED
  BY <1>1, <1>2

\* A worker takes the next id; when the database throws, a retry is cut short.
LEMMA ClaimNamesLosses ==
    ASSUME LossInv, NEW id \in Ids, Claim(id), mode # "down"
    PROVE  MissedFits' /\ RetryFits' /\ ResultsAreResolved' /\ Named
<1> USE DEF LossInv, IInv
<1>1. CASE ClaimStored(id) \/ ClaimWithoutKey(id)
  <2>1. PICK r \in {"not_raid", "fatal_no_clients"} :
            /\ result' = [result EXCEPT ![id] = r]
            /\ r = "not_raid" => id \in stored
    BY <1>1 DEF ClaimStored, ClaimWithoutKey
  <2>2. /\ todo' = todo \ {id} /\ id \in todo
        /\ UNCHANGED <<mode, position, flight, missed, stored, notRaid>>
    BY <1>1 DEF ClaimStored, ClaimWithoutKey, Unclaimed, MayClaim, database, history
  <2>3. result[id] = "none"
    BY <2>2 DEF PassPartition, OnePlacePerId
  <2>4. StillMissing(result') \subseteq StillMissing(result) \cup {id}
    BY <2>1 DEF StillMissing, TypeOK
  <2>5. StillMissing(result) \subseteq StillMissing(result')
    BY <2>1, <2>3 DEF StillMissing, TypeOK
  <2>6. id \in stored \/ id \in StillMissing(result')
    BY <2>1 DEF StillMissing, TypeOK
  <2>7. InFlight' = InFlight
    BY <2>2 DEF InFlight
  <2>8. InRetry' \subseteq InRetry /\ InRetry \subseteq InRetry' \cup stored
    BY <2>2, <2>4, <2>5, <2>6, <2>7 DEF InRetry
  <2>9. MissedFits' /\ RetryFits'
    BY <2>2, <2>8, RetryShrinks
  <2>10. ResultsAreResolved'
    BY <2>1, <2>2 DEF ResultsAreResolved, Resolved, TypeOK
  <2>11. Named
    BY <2>2, <2>8, NothingLost DEF RetryQueue, Resolved
  <2> QED
    BY <2>9, <2>10, <2>11
<1>2. CASE ClaimThrows(id)
  <2>1. /\ mode' = "loop" /\ result' = NoResults
        /\ UNCHANGED <<position, missed, stored, notRaid>>
        /\ mode \in {"batch", "retry"} /\ ~Halted /\ todo # {}
    BY <1>2 DEF ClaimThrows, NoPass, MayClaim, database, history
  <2>2. MissedFits' /\ RetryFits' /\ ResultsAreResolved'
    BY <2>1 DEF MissedFits, RetryFits, ResultsAreResolved, NoResults
  <2>3. CASE mode = "batch"
    <3>1. RetryQueue = missed /\ RetryQueue' = missed' /\ Resolved' = Resolved
      BY <2>1, <2>3 DEF RetryQueue, InRetry, Resolved
    <3>2. mode # "down" /\ mode' # "down" /\ UNCHANGED <<position, missed>>
      BY <2>1, <2>3
    <3> QED
      BY <2>2, <3>1, <3>2, NothingLost
  <2>4. CASE mode = "retry"
    <3>1. \A x \in Ids : mode = "retry" /\ todo # {} /\ (Halted => result[x] = "none")
      BY <2>1, <2>4
    <3>2. Lost' \ Lost \subseteq Ids
      BY DEF Lost, Ids
    <3> QED
      BY <2>2, <3>1, <3>2 DEF Named, LossCause
  <2> QED
    BY <2>1, <2>2, <2>3, <2>4
<1>3. CASE \E key \in Keys : ClaimAndFetch(id, key)
  <2>1. PICK key \in Keys : ClaimAndFetch(id, key)
    BY <1>3
  <2>2. /\ todo' = todo \ {id} /\ id \in todo /\ flight' = flight \cup {<<id, key>>}
        /\ UNCHANGED <<mode, position, result, missed, stored, notRaid>>
    BY <2>1 DEF ClaimAndFetch, Unclaimed, MayClaim, database, history
  <2>3. InFlight' = InFlight \cup {id}
    <3>1. <<id, key>>[1] = id
      OBVIOUS
    <3> QED
      BY <2>2, <3>1 DEF InFlight
  <2>4. InRetry' = InRetry
    BY <2>2, <2>3 DEF InRetry, StillMissing
  <2>5. MissedFits' /\ RetryFits'
    BY <2>2, <2>4, RetryShrinks
  <2>6. ResultsAreResolved'
    BY <2>2 DEF ResultsAreResolved, Resolved
  <2>7. Named
    BY <2>2, <2>4, NothingLost DEF RetryQueue, Resolved
  <2> QED
    BY <2>5, <2>6, <2>7
<1> QED
  BY <1>1, <1>2, <1>3 DEF Claim

\* A request ends: what it was for is stored, is no raid, or is still missing.
LEMMA AnswerNamesLosses ==
    ASSUME LossInv, mode # "down", NEW f \in flight, NEW r \in ScannerRequestResult,
           Answer(f, r), stored \subseteq stored', notRaid \subseteq notRaid',
           r \in {"raid", "not_raid"} => f[1] \in Resolved'
    PROVE  MissedFits' /\ RetryFits' /\ ResultsAreResolved' /\ Named
<1> USE DEF LossInv, IInv
<1>1. f[1] \in Ids /\ result' = [result EXCEPT ![f[1]] = r]
  BY DEF Answer, TypeOK
<1>2. UNCHANGED <<mode, position, todo, missed>> /\ flight' = flight \ {f}
  BY DEF Answer
<1>3. result[f[1]] = "none"
  BY DEF PassPartition, OnePlacePerId
<1>4. StillMissing(result') \subseteq StillMissing(result) \cup {f[1]}
  BY <1>1 DEF StillMissing, TypeOK
<1>5. StillMissing(result) \subseteq StillMissing(result')
  BY <1>1, <1>3 DEF StillMissing, TypeOK
<1>6. f[1] \in Resolved' \/ f[1] \in StillMissing(result')
  BY <1>1 DEF StillMissing, TypeOK, ScannerRequestResult
<1>7. InFlight' \subseteq InFlight /\ InFlight \subseteq InFlight' \cup {f[1]}
      /\ f[1] \in InFlight
  BY <1>2 DEF InFlight
<1>8. InRetry' \subseteq InRetry /\ InRetry \subseteq InRetry' \cup Resolved'
  BY <1>2, <1>4, <1>5, <1>6, <1>7 DEF InRetry
<1>9. MissedFits' /\ RetryFits'
  BY <1>2, <1>8, RetryShrinks
<1>10. Resolved \subseteq Resolved'
  BY DEF Resolved
<1>11. ResultsAreResolved'
  BY <1>1, <1>10 DEF ResultsAreResolved, TypeOK
<1>12. Named
  BY <1>2, <1>8, <1>10, NothingLost DEF RetryQueue
<1> QED
  BY <1>9, <1>11, <1>12

\* A request of scanSinglePGCR ends, or goes on under another key.
LEMMA FetchedNamesLosses ==
    ASSUME LossInv, mode # "down", NEW f \in flight, Fetched(f)
    PROVE  MissedFits' /\ RetryFits' /\ ResultsAreResolved' /\ Named
<1> USE DEF LossInv, IInv
<1>1. CASE FetchedRaid(f)
  BY <1>1, AnswerNamesLosses DEF FetchedRaid, Resolved, ScannerRequestResult
<1>2. CASE FetchedOther(f)
  BY <1>2, AnswerNamesLosses DEF FetchedOther, Resolved, ScannerRequestResult
<1>3. CASE FetchFailed(f)
  BY <1>3, AnswerNamesLosses DEF FetchFailed, ScannerRequestResult
<1>4. CASE KeyRejected(f) /\ Answer(f, "fatal_no_clients")
  BY <1>4, AnswerNamesLosses DEF KeyRejected, ScannerRequestResult
<1>5. CASE /\ KeyRejected(f)
           /\ \E key \in Keys \ disabled' :
                /\ flight' = (flight \ {f}) \cup {<<f[1], key>>}
                /\ UNCHANGED <<mode, shouldStop, position, todo, result, missed,
                               abandoned, saved, accounted>>
  <2>1. PICK key \in Keys : flight' = (flight \ {f}) \cup {<<f[1], key>>}
    BY <1>5
  <2>2. UNCHANGED <<mode, position, todo, result, missed, stored, notRaid>>
    BY <1>5 DEF KeyRejected
  <2>3. InFlight' = InFlight
    <3> DEFINE g == <<f[1], key>>
    <3>1. flight' = (flight \ {f}) \cup {g} /\ g[1] = f[1]
      BY <2>1
    <3> HIDE DEF g
    <3> QED
      BY <3>1 DEF InFlight
  <2>4. InRetry' = InRetry
    BY <2>2, <2>3 DEF InRetry, StillMissing
  <2>5. MissedFits' /\ RetryFits'
    BY <2>2, <2>4, RetryShrinks
  <2> QED
    BY <2>2, <2>4, <2>5, NothingLost DEF RetryQueue, Resolved, ResultsAreResolved
<1> QED
  BY <1>1, <1>2, <1>3, <1>4, <1>5 DEF Fetched, KeyRejected

\* What a batch collects: nothing is dropped while there is room.
LEMMA CollectedFills ==
    ASSUME LossInv, mode = "batch"
    PROVE  /\ missed \subseteq Collected(result)
           /\ Cardinality(Collected(result)) <= MaxMissedIds
           /\ \A id \in BatchIds \ Collected(result) :
                  result[id] \in KeptForRetry => Cardinality(Collected(result)) = MaxMissedIds
<1> USE DEF LossInv, IInv
<1> DEFINE kept == {id \in BatchIds : result[id] \in KeptForRetry}
<1>1. kept \subseteq Ids
  BY ScannerAssumption
     DEF TypeOK, PassPartition, BatchIsComplete, BatchIds, Positions, Ids
<1>2. missed \subseteq Ids /\ Cardinality(missed) <= MaxMissedIds
  BY DEF TypeOK, MissedFits
<1>3. Collected(result) = AddMissedIds(kept)
  BY DEF Collected
<1>4. \A id \in BatchIds : result[id] \in KeptForRetry => id \in kept
  OBVIOUS
<1> HIDE DEF kept
<1> QED
  BY <1>1, <1>2, <1>3, <1>4, AddMissedIdsFills

\* A batch begins: only a jump to another process's checkpoint loses ids.
LEMMA StartNamesLosses ==
    ASSUME LossInv, StartBatch
    PROVE  MissedFits' /\ RetryFits' /\ ResultsAreResolved' /\ Named
<1> USE DEF LossInv, IInv
<1>1. /\ mode = "loop" /\ mode' = "batch" /\ position' = Larger(saved, position)
      /\ result' = NoResults /\ UNCHANGED <<missed, stored, notRaid>>
  BY DEF StartBatch, MayGoOn, database, history
<1>2. MissedFits' /\ RetryFits' /\ ResultsAreResolved'
  BY <1>1 DEF MissedFits, RetryFits, ResultsAreResolved, NoResults
<1>3. RetryQueue' = RetryQueue /\ Resolved' = Resolved
  BY <1>1 DEF RetryQueue, InRetry, Resolved
<1>4. ASSUME NEW id \in Lost' \ Lost PROVE LossCause(id)
  <2>1. id \in Ids /\ id <= position' /\ ~ (id <= position)
    BY <1>1, <1>3, <1>4 DEF Lost, Behind
  <2>2. id \in Int /\ position \in Int /\ saved \in Int
    BY <2>1, ScannerAssumption DEF TypeOK, Positions, Ids
  <2>3. position < id /\ id <= saved
    BY <1>1, <2>1, <2>2 DEF Larger
  <2> QED
    BY <1>1, <2>3 DEF LossCause
<1> QED
  BY <1>2, <1>4 DEF Named

\* A batch ends: the position moves over what had an error, what a stop left out
\* and what did not fit.
LEMMA BatchNamesLosses ==
    ASSUME LossInv, FinishBatchDisabled \/ FinishBatchFatal \/ FinishBatch
    PROVE  MissedFits' /\ RetryFits' /\ ResultsAreResolved' /\ Named
<1> USE DEF LossInv, IInv
<1>1. /\ mode = "batch" /\ PassOver /\ mode' \in {"loop", "ended", "catchup"}
      /\ missed' = Collected(result) /\ result' = NoResults
      /\ UNCHANGED <<stored, notRaid>>
  BY DEF FinishBatchDisabled, FinishBatchFatal, FinishBatch, NoPass, database, history
<1>2. /\ missed \subseteq missed' /\ MissedFits'
      /\ \A id \in BatchIds \ missed' :
             result[id] \in KeptForRetry => Cardinality(missed') = MaxMissedIds
  BY <1>1, CollectedFills DEF MissedFits
<1>3. RetryFits' /\ ResultsAreResolved'
  BY <1>1 DEF RetryFits, ResultsAreResolved, NoResults
<1>4. RetryQueue = missed /\ RetryQueue' = missed' /\ Resolved' = Resolved
  BY <1>1 DEF RetryQueue, InRetry, Resolved
<1>5. CASE FinishBatchDisabled \/ FinishBatchFatal
  <2>1. UNCHANGED position /\ mode # "down" /\ mode' # "down"
    BY <1>1, <1>5 DEF FinishBatchDisabled, FinishBatchFatal
  <2> QED
    BY <1>2, <1>3, <1>4, <2>1, NothingLost
<1>6. CASE FinishBatch
  <2>1. position' = position + BatchSize /\ ~SystemDisabled /\ ~FatalNoClients
    BY <1>6 DEF FinishBatch, BatchEnd
  <2>2. ASSUME NEW id \in Lost' \ Lost PROVE LossCause(id)
    <3>1. /\ id \in Ids /\ id <= position' /\ ~ (id <= position)
          /\ id \notin Resolved /\ id \notin missed'
      BY <1>1, <1>2, <1>4, <2>2 DEF Lost, Behind
    <3>2. id \in Int /\ position \in Int /\ BatchSize \in Int
      BY <3>1, ScannerAssumption DEF TypeOK, Positions, Ids
    <3>3. id \in BatchIds
      BY <2>1, <3>1, <3>2 DEF BatchIds
    <3>4. CASE result[id] = "none"
      <4>1. flight = {} /\ ~ Requested(id)
        BY <1>1 DEF PassOver, Requested
      <4>2. id \in todo
        BY <1>1, <3>1, <3>3, <3>4, <4>1 DEF PassPartition, BatchIsComplete
      <4>3. shouldStop
        BY <1>1, <2>1, <4>2 DEF PassOver, Halted
      <4> QED
        BY <1>1, <3>4, <4>3 DEF LossCause
    <3>5. CASE result[id] = "error"
      BY <1>1, <3>5 DEF LossCause
    <3>6. CASE result[id] \in KeptForRetry
      <4>1. Cardinality(missed') = MaxMissedIds
        BY <1>2, <3>1, <3>3, <3>6
      <4> QED
        BY <1>1, <3>6, <4>1 DEF LossCause, KeptForRetry
    <3>7. result[id] \notin {"raid", "not_raid", "system_disabled", "fatal_no_clients"}
      BY <2>1, <3>1 DEF ResultsAreResolved, SystemDisabled, FatalNoClients
    <3>8. result[id] \in ScannerRequestResult \cup {"none"}
      BY <3>1 DEF TypeOK
    <3> QED
      BY <3>4, <3>5, <3>6, <3>7, <3>8 DEF ScannerRequestResult, KeptForRetry
  <2> QED
    BY <1>2, <1>3, <2>2 DEF Named
<1> QED
  BY <1>5, <1>6

\* The catch-up timer fires: the missed set becomes the pass.
LEMMA CatchupNamesLosses ==
    ASSUME LossInv, CatchupTimer
    PROVE  MissedFits' /\ RetryFits' /\ ResultsAreResolved' /\ Named
<1> USE DEF LossInv, IInv
<1>1. /\ mode = "catchup" /\ UNCHANGED <<position, flight, result, stored, notRaid>>
  BY DEF CatchupTimer, database, history
<1>2. flight = {} /\ todo = {} /\ result = NoResults
  BY <1>1 DEF PassPartition, NoPassOutside
<1>3. StillMissing(result) = {} /\ InFlight = {}
  BY <1>2 DEF StillMissing, InFlight, NoResults
<1>4. ResultsAreResolved'
  BY <1>1, <1>2 DEF ResultsAreResolved, NoResults
<1>5. CASE mode' = "retry" /\ todo' = missed /\ missed' = {}
  <2>1. InRetry' = missed
    BY <1>1, <1>3, <1>5 DEF InRetry, StillMissing, InFlight
  <2>2. MissedFits' /\ RetryFits'
    BY <1>5, <2>1, FS_EmptySet, ScannerAssumption DEF MissedFits, RetryFits
  <2>3. RetryQueue = missed /\ RetryQueue' = missed
    BY <1>1, <1>5, <2>1 DEF RetryQueue, InRetry
  <2> QED
    BY <1>1, <1>4, <1>5, <2>2, <2>3, NothingLost DEF Resolved
<1>6. CASE mode' = "loop" /\ UNCHANGED <<todo, missed>>
  <2>1. MissedFits' /\ RetryFits'
    BY <1>6 DEF MissedFits, RetryFits
  <2>2. RetryQueue' = RetryQueue
    BY <1>1, <1>6 DEF RetryQueue, InRetry
  <2> QED
    BY <1>1, <1>4, <1>6, <2>1, <2>2, NothingLost DEF Resolved
<1> QED
  BY <1>5, <1>6 DEF CatchupTimer

\* A retry ends: all it took and did not settle fits; what it did not take is given
\* up.
LEMMA RetryNamesLosses ==
    ASSUME LossInv, FinishRetry
    PROVE  MissedFits' /\ RetryFits' /\ ResultsAreResolved' /\ Named
<1> USE DEF LossInv, IInv
<1>1. /\ mode = "retry" /\ mode' \in {"loop", "ended"} /\ PassOver
      /\ missed' = AddMissedIds(StillMissing(result)) /\ result' = NoResults
      /\ UNCHANGED <<position, stored, notRaid>>
  BY DEF FinishRetry, NoPass, history
<1>2. missed = {} /\ Cardinality(InRetry) <= MaxMissedIds
  BY <1>1 DEF RetryFits
<1>3. StillMissing(result) \subseteq Ids /\ StillMissing(result) \subseteq InRetry
  BY <1>1 DEF StillMissing, InRetry
<1>4. Cardinality(StillMissing(result)) <= MaxMissedIds
  <2>1. InRetry \subseteq Ids
    BY DEF TypeOK, InRetry, InFlight, StillMissing
  <2>2. IsFiniteSet(InRetry) /\ IsFiniteSet(StillMissing(result))
    <3>1. IsFiniteSet(Ids)
      BY ScannerAssumption, FS_Interval DEF Ids
    <3> QED
      BY <1>3, <2>1, <3>1, FS_Subset
  <2>3. Cardinality(StillMissing(result)) <= Cardinality(InRetry)
    BY <1>3, <2>2, FS_Subset
  <2>4. Cardinality(StillMissing(result)) \in Nat /\ Cardinality(InRetry) \in Nat
    BY <2>2, FS_CardinalityType
  <2> QED
    BY <1>2, <2>3, <2>4, ScannerAssumption
<1>5. StillMissing(result) \subseteq missed' /\ Cardinality(missed') <= MaxMissedIds
  <2>1. missed \subseteq Ids /\ Cardinality(missed) <= MaxMissedIds
    BY DEF TypeOK, MissedFits
  <2> QED
    BY <1>1, <1>2, <1>3, <1>4, <2>1, AddMissedIdsFills
<1>6. MissedFits' /\ RetryFits' /\ ResultsAreResolved'
  BY <1>1, <1>5 DEF MissedFits, RetryFits, ResultsAreResolved, NoResults
<1>7. ASSUME NEW id \in Lost' \ Lost PROVE LossCause(id)
  <2>1. id \in InRetry /\ id \notin missed'
    BY <1>1, <1>2, <1>7 DEF Lost, Behind, RetryQueue, Resolved
  <2>2. flight = {}
    BY <1>1 DEF PassOver
  <2>3. id \in todo
    BY <1>1, <1>5, <2>1, <2>2 DEF InRetry, InFlight
  <2>4. result[id] = "none"
    BY <2>3 DEF PassPartition, OnePlacePerId
  <2> QED
    BY <1>1, <2>3, <2>4 DEF LossCause
<1> QED
  BY <1>6, <1>7 DEF Named

\* Every step keeps the invariant and names what it loses.
LEMMA StepNamesLosses ==
    ASSUME LossInv, [Next]_vars
    PROVE  LossInv' /\ (UNCHANGED vars \/ Named)
<1> USE DEF LossInv
<1>1. IInv'
  BY NextKeepsIInv
<1>2. mode \notin {"batch", "retry"} => flight = {}
  BY DEF IInv, PassPartition, NoPassOutside
<1>3. CASE \E id \in Ids : Claim(id)
  <2>1. mode # "down"
    BY <1>3 DEF Claim, ClaimStored, ClaimWithoutKey, ClaimThrows, ClaimAndFetch, MayClaim
  <2> QED
    BY <1>1, <1>3, <2>1, ClaimNamesLosses
<1>4. CASE \E f \in flight : Fetched(f)
  BY <1>1, <1>2, <1>4, FetchedNamesLosses
<1>5. CASE \/ StartBatch \/ FinishBatchDisabled \/ FinishBatchFatal \/ FinishBatch
           \/ CatchupTimer \/ FinishRetry
  BY <1>1, <1>5, StartNamesLosses, BatchNamesLosses, CatchupNamesLosses, RetryNamesLosses
<1>6. CASE Start
  <2>1. mode = "down" /\ mode' = "loop" /\ UNCHANGED <<result, missed, stored, notRaid>>
    BY <1>6 DEF Start, pass, database
  <2> QED
    BY <1>1, <2>1 DEF MissedFits, RetryFits, ResultsAreResolved, Resolved, Named, LossCause
<1>7. CASE Exit
  <2>1. mode' = "down" /\ missed' = {} /\ result' = NoResults
    BY <1>7 DEF Exit, NoPass
  <2>2. MissedFits' /\ RetryFits' /\ ResultsAreResolved'
    BY <2>1, FS_EmptySet, ScannerAssumption
       DEF MissedFits, RetryFits, ResultsAreResolved, NoResults
  <2> QED
    BY <1>1, <2>1, <2>2 DEF Named, LossCause
<1>8. CASE FinishStop \/ FinishStopFails
  <2>1. /\ mode = "loop" /\ mode' \in {"loop", "ended"}
        /\ UNCHANGED <<position, pass, missed, stored, notRaid>>
    BY <1>8 DEF FinishStop, FinishStopFails, history
  <2>2. RetryQueue' = RetryQueue
    BY <2>1 DEF RetryQueue, InRetry
  <2>3. MissedFits' /\ RetryFits' /\ ResultsAreResolved'
    BY <2>1 DEF MissedFits, RetryFits, ResultsAreResolved, Resolved, pass
  <2> QED
    BY <1>1, <2>1, <2>2, <2>3, NothingLost DEF Resolved
<1>9. CASE \/ StopScanner \/ \E id \in Ids : Abandoned(id)
           \/ \E id \in SharedRaids : StoredElsewhere(id)
           \/ \E p \in ProbedPositions : MovedElsewhere(p)
  <2>1. /\ UNCHANGED <<mode, position, pass, missed>>
        /\ stored \subseteq stored' /\ notRaid \subseteq notRaid'
    BY <1>9 DEF StopScanner, Abandoned, AbandonedFetch, AbandonedKeyRejected,
                StoredElsewhere, MovedElsewhere, database, history
  <2>2. InRetry' = InRetry /\ Resolved \subseteq Resolved'
    BY <2>1 DEF InRetry, InFlight, StillMissing, pass, Resolved
  <2>3. MissedFits' /\ RetryFits'
    BY <2>1, <2>2 DEF MissedFits, RetryFits
  <2>4. ResultsAreResolved'
    BY <2>1, <2>2 DEF ResultsAreResolved, pass
  <2>5. CASE mode = "down"
    BY <1>1, <2>3, <2>4, <2>5 DEF Named, LossCause
  <2>6. CASE mode # "down"
    BY <1>1, <2>1, <2>2, <2>3, <2>4, <2>6, NothingLost DEF RetryQueue
  <2> QED
    BY <2>5, <2>6
<1>10. CASE UNCHANGED vars
  <2>1. UNCHANGED <<mode, missed, todo, flight, result, stored, notRaid>>
    BY <1>10 DEF vars, pass, database, history
  <2> QED
    BY <1>1, <1>10, <2>1 DEF MissedFits, RetryFits, InRetry, InFlight, StillMissing,
                             ResultsAreResolved, Resolved
<1> QED
  BY <1>3, <1>4, <1>5, <1>6, <1>7, <1>8, <1>9, <1>10
     DEF Next, Scan, LoopStep, Environment

\* Whatever the number of keys and workers, the sizes and the answers, an id behind
\* the position is given up for one of the causes LossCause names only: never
\* because of a 5xx, a missing PGCR, maintenance or the loss of the last key
\* (scanBatch, retryMissedIds, addMissedId).
THEOREM ScannerLossesAreNamed == Spec => LossesAreNamed
<1>1. Init => LossInv
  <2> SUFFICES ASSUME Init PROVE LossInv
    OBVIOUS
  <2>1. IInv /\ missed = {} /\ mode = "down" /\ result = NoResults
    BY InitIInv DEF Init
  <2> QED
    BY <2>1, FS_EmptySet, ScannerAssumption
       DEF LossInv, MissedFits, RetryFits, ResultsAreResolved, NoResults
<1>2. LossInv /\ [Next]_vars => LossInv'
  BY StepNamesLosses
<1>3. LossInv /\ [Next]_vars => [\A id \in Lost' \ Lost : LossCause(id)]_vars
  BY StepNamesLosses DEF Named
<1> QED
  BY <1>1, <1>2, <1>3, PTL DEF Spec, LossesAreNamed
=============================================================================
