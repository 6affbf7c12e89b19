-------------------------- MODULE CrawlCycleProofs --------------------------
(***************************************************************************)
(* No player is crawled by two workers at the same time: the queries of a  *)
(* cycle pick from whom the ones before did not pick, and a task that is   *)
(* taken leaves the list.  The shares of the buckets and of the queue add  *)
(* up to the limit, and what hot and warm leave of theirs is passed on.    *)
(* And a row of the queue is deleted for a reason that is named: whom the  *)
(* cycle drained is on the list, with a worker or tried.                   *)
(***************************************************************************)
EXTENDS CrawlCycle, SequenceTheorems, FiniteSetTheorems, TLAPS

Disjoint(s) == \A i, j \in DOMAIN s : i # j => s[i] \cap s[j] = {}

\* A list of sets that name nobody twice.
IsPartition(s) == (\E X : s \in Seq(SUBSET X)) /\ Disjoint(s)

(***************************************************************************)
(* The selection.                                                          *)
(***************************************************************************)

\* Select: whatever the limit, only candidates are picked.
LEMMA SelectedAreCandidates ==
    ASSUME NEW S, NEW n, NEW T \in Select(S, n)
    PROVE  T \subseteq S
BY DEF Select

\* Picks: a query adds a part that is disjoint from all before it.
LEMMA PicksKeepsPartition ==
    \A s, seen, bucket, n : IsPartition(s) =>
      \A t \in Picks(s, seen, bucket, n) : IsPartition(t) /\ Len(t) = Len(s) + 1
<1> SUFFICES ASSUME NEW s, IsPartition(s),
                    NEW seen, NEW bucket, NEW n, NEW t \in Picks(s, seen, bucket, n)
             PROVE  IsPartition(t) /\ Len(t) = Len(s) + 1
  OBVIOUS
<1> DEFINE C == Candidates(seen, bucket, Picked(s))
<1>1. PICK T \in Select(C, n) : t = Append(s, T)
  BY DEF Picks
<1>2. T \subseteq C
  BY <1>1, SelectedAreCandidates
<1>3. T \cap Picked(s) = {}
  BY <1>2 DEF Candidates
<1>4. PICK X : s \in Seq(SUBSET X)
  BY DEF IsPartition
<1>5. s \in Seq(SUBSET (X \cup T)) /\ T \in SUBSET (X \cup T)
  BY <1>4
<1>6. t \in Seq(SUBSET (X \cup T)) /\ Len(t) = Len(s) + 1 /\ DOMAIN t = 1 .. Len(s) + 1
  BY <1>1, <1>5
<1>7. Len(s) \in Nat /\ DOMAIN s = 1 .. Len(s)
  BY <1>4
<1>8. \A i \in 1 .. Len(s) : t[i] = s[i] /\ s[i] \subseteq Picked(s)
  BY <1>1, <1>4 DEF Picked
<1>9. t[Len(s) + 1] = T
  BY <1>1, <1>4
<1>10. ASSUME NEW i \in DOMAIN t, NEW j \in DOMAIN t, i # j
       PROVE  t[i] \cap t[j] = {}
  <2>1. CASE i \in 1 .. Len(s) /\ j \in 1 .. Len(s)
    BY <2>1, <1>8, <1>7, <1>10 DEF IsPartition, Disjoint
  <2>2. CASE i = Len(s) + 1 /\ j \in 1 .. Len(s)
    BY <2>2, <1>8, <1>9, <1>3
  <2>3. CASE j = Len(s) + 1 /\ i \in 1 .. Len(s)
    BY <2>3, <1>8, <1>9, <1>3
  <2> QED
    BY <2>1, <2>2, <2>3, <1>10, <1>6, <1>7
<1> QED
  BY <1>6, <1>10 DEF IsPartition, Disjoint

\* Selections: the six queries of a cycle and the queue name nobody twice.
LEMMA SelectionsArePartitions ==
    ASSUME NEW Q, NEW seen, NEW s \in Selections(seen, Q)
    PROVE  IsPartition(s) /\ Len(s) = 7
<1> DEFINE hot     == Picks(<<Q>>, seen, "hot", HotTarget)
           warm    == UNION {Picks(x, seen, "warm", WarmTarget) : x \in hot}
           cold    == UNION {Picks(x, seen, "cold", ColdTarget) : x \in warm}
           more    == UNION {Picks(x, seen, "warm", HotShort(x)) : x \in cold}
           still   == UNION {Picks(x, seen, "cold", HotShort(x) - Cardinality(x[5])) : x \in more}
<1>0. PICK y \in still : s \in Picks(y, seen, "cold", WarmShort(y))
  BY DEF Selections
<1>1. IsPartition(<<Q>>) /\ Len(<<Q>>) = 1
  <2>1. <<Q>> \in Seq(SUBSET Q) /\ DOMAIN <<Q>> = {1}
    OBVIOUS
  <2> QED
    BY <2>1 DEF IsPartition, Disjoint
<1>2. \A x \in hot : IsPartition(x) /\ Len(x) = 2
  <2> SUFFICES ASSUME NEW x \in hot PROVE IsPartition(x) /\ Len(x) = 2
    OBVIOUS
  <2>1. \A t \in Picks(<<Q>>, seen, "hot", HotTarget) : IsPartition(t) /\ Len(t) = Len(<<Q>>) + 1
    BY <1>1, PicksKeepsPartition
  <2> QED
    BY <2>1, <1>1
<1>3. \A x \in warm : IsPartition(x) /\ Len(x) = 3
  <2> SUFFICES ASSUME NEW x \in hot, NEW t \in Picks(x, seen, "warm", WarmTarget)
               PROVE  IsPartition(t) /\ Len(t) = 3
    OBVIOUS
  <2> HIDE DEF hot
  <2>1. IsPartition(x) /\ Len(x) = 2
    BY <1>2
  <2>2. \A u \in Picks(x, seen, "warm", WarmTarget) : IsPartition(u) /\ Len(u) = Len(x) + 1
    BY <2>1, PicksKeepsPartition
  <2> QED
    BY <2>1, <2>2
<1>4. \A x \in cold : IsPartition(x) /\ Len(x) = 4
  <2> SUFFICES ASSUME NEW x \in warm, NEW t \in Picks(x, seen, "cold", ColdTarget)
               PROVE  IsPartition(t) /\ Len(t) = 4
    OBVIOUS
  <2> HIDE DEF warm
  <2>1. IsPartition(x) /\ Len(x) = 3
    BY <1>3
  <2>2. \A u \in Picks(x, seen, "cold", ColdTarget) : IsPartition(u) /\ Len(u) = Len(x) + 1
    BY <2>1, PicksKeepsPartition
  <2> QED
    BY <2>1, <2>2
<1>5. \A x \in more : IsPartition(x) /\ Len(x) = 5
  <2> SUFFICES ASSUME NEW x \in cold, NEW t \in Picks(x, seen, "warm", HotShort(x))
               PROVE  IsPartition(t) /\ Len(t) = 5
    OBVIOUS
  <2> HIDE DEF cold
  <2>1. IsPartition(x) /\ Len(x) = 4
    BY <1>4
  <2>2. \A u \in Picks(x, seen, "warm", HotShort(x)) : IsPartition(u) /\ Len(u) = Len(x) + 1
    BY <2>1, PicksKeepsPartition
  <2> QED
    BY <2>1, <2>2
<1>6. \A x \in still : IsPartition(x) /\ Len(x) = 6
  <2> SUFFICES ASSUME NEW x \in more, NEW t \in Picks(x, seen, "cold", HotShort(x) - Cardinality(x[5]))
               PROVE  IsPartition(t) /\ Len(t) = 6
    OBVIOUS
  <2> HIDE DEF more
  <2>1. IsPartition(x) /\ Len(x) = 5
    BY <1>5
  <2>2. \A u \in Picks(x, seen, "cold", HotShort(x) - Cardinality(x[5])) : IsPartition(u) /\ Len(u) = Len(x) + 1
    BY <2>1, PicksKeepsPartition
  <2> QED
    BY <2>1, <2>2
<1> HIDE DEF still
<1>7. IsPartition(y) /\ Len(y) = 6
  BY <1>0, <1>6
<1>8. \A u \in Picks(y, seen, "cold", WarmShort(y)) : IsPartition(u) /\ Len(u) = Len(y) + 1
  BY <1>7, PicksKeepsPartition
<1> QED
  BY <1>0, <1>7, <1>8

LEMMA SevenParts ==
    ASSUME NEW Y, NEW s \in Seq(Y), Len(s) = 7
    PROVE  DOMAIN s = 1 .. 7 /\ \A i \in 1 .. 7 : s[i] \in Y
<1>1. DOMAIN s = 1 .. Len(s)
  OBVIOUS
<1>2. \A i \in 1 .. Len(s) : s[i] \in Y
  BY ElementOfSeq
<1> QED
  BY <1>1, <1>2

\* The order of the tasks changes nothing.
LEMMA InOrderIsPartition ==
    ASSUME NEW s, IsPartition(s), Len(s) = 7
    PROVE  IsPartition(InOrder(s))
<1> DEFINE pos == <<1, 2, 3, 5, 4, 6, 7>>
<1>1. PICK X : s \in Seq(SUBSET X)
  BY DEF IsPartition
<1>2. DOMAIN s = 1 .. 7 /\ \A i \in 1 .. 7 : s[i] \in SUBSET X
  BY <1>1, SevenParts
<1>3. InOrder(s) \in Seq(SUBSET X) /\ DOMAIN InOrder(s) = 1 .. 7
  BY <1>2 DEF InOrder
<1>4. \A i \in 1 .. 7 : pos[i] \in 1 .. 7 /\ InOrder(s)[i] = s[pos[i]]
  BY DEF InOrder
<1>5. \A i, j \in 1 .. 7 : i # j => pos[i] # pos[j]
  OBVIOUS
<1> HIDE DEF pos
<1>6. ASSUME NEW i \in 1 .. 7, NEW j \in 1 .. 7, i # j
      PROVE  InOrder(s)[i] \cap InOrder(s)[j] = {}
  <2>1. pos[i] \in DOMAIN s /\ pos[j] \in DOMAIN s /\ pos[i] # pos[j]
    BY <1>2, <1>4, <1>5, <1>6
  <2>2. s[pos[i]] \cap s[pos[j]] = {}
    BY <2>1 DEF IsPartition, Disjoint
  <2> QED
    BY <2>2, <1>4, <1>6
<1> QED
  BY <1>3, <1>6 DEF IsPartition, Disjoint

(***************************************************************************)
(* The inductive invariant.                                                *)
(***************************************************************************)

\* Nobody is crawled outside a cycle: without it the tasks of a new cycle could
\* name somebody a worker still crawls.
IInv ==
    /\ IsPartition(todo)
    /\ running \cap Left = {}
    /\ loop # "cycle" => running = {}

\* A task that is taken is gone from the list, and no other part names it.
LEMMA TakenIsGone ==
    ASSUME IsPartition(todo), NEW p, TakeTask(p)
    PROVE  IsPartition(todo') /\ Left' = Left \ {p}
<1>1. PICK i \in DOMAIN todo : p \in todo[i] /\ todo' = [todo EXCEPT ![i] = @ \ {p}]
  BY DEF TakeTask
<1>2. PICK X : todo \in Seq(SUBSET X)
  BY DEF IsPartition
<1>3. DOMAIN todo' = DOMAIN todo
      /\ \A j \in DOMAIN todo : todo'[j] = IF j = i THEN todo[i] \ {p} ELSE todo[j]
  BY <1>1
<1>4. todo' \in Seq(SUBSET X)
  BY <1>1, <1>2
<1>5. Disjoint(todo')
  BY <1>3 DEF IsPartition, Disjoint
<1>6. \A j \in DOMAIN todo : todo'[j] = todo[j] \ {p}
  BY <1>1, <1>3 DEF IsPartition, Disjoint
<1>7. IsPartition(todo')
  BY <1>4, <1>5 DEF IsPartition
<1>8. \A x : x \in Left' <=> x \in Left \ {p}
  <2>1. \A x : x \in Left' <=> \E j \in DOMAIN todo : x \in todo'[j]
    BY <1>3 DEF Left
  <2>2. \A x : x \in Left <=> \E j \in DOMAIN todo : x \in todo[j]
    BY DEF Left
  <2> QED
    BY <2>1, <2>2, <1>6
<1> QED
  BY <1>7, <1>8

\* A list without tasks.
LEMMA NoTasks == IsPartition(<<>>)
<1>1. <<>> \in Seq(SUBSET {}) /\ DOMAIN <<>> = {}
  OBVIOUS
<1> QED
  BY <1>1 DEF IsPartition, Disjoint

LEMMA InitIInv == Init => IInv
<1> SUFFICES ASSUME Init PROVE IInv
  OBVIOUS
<1>1. IsPartition(todo)
  BY NoTasks DEF Init
<1> QED
  BY <1>1 DEF Init, IInv

\* Every step keeps the list and who is crawled apart.
LEMMA NextIInv == IInv /\ [Next]_vars => IInv'
<1> SUFFICES ASSUME IInv, [Next]_vars PROVE IInv'
  OBVIOUS
<1>1. CASE BeginCycle
  <2>1. PICK seen, s : s \in Selections(seen, Drained) /\ todo' = InOrder(s)
    BY <1>1 DEF BeginCycle
  <2>2. IsPartition(todo')
    BY <2>1, SelectionsArePartitions, InOrderIsPartition
  <2>3. running' = {} /\ loop' = "cycle"
    BY <1>1 DEF BeginCycle, IInv
  <2> QED
    BY <2>2, <2>3 DEF IInv
<1>2. ASSUME NEW p \in Players, Take(p) PROVE IInv'
  <2>1. IsPartition(todo') /\ Left' = Left \ {p}
    BY <1>2, TakenIsGone DEF Take, IInv
  <2>2. running' = running \cup {p} /\ loop' = "cycle"
    BY <1>2 DEF Take
  <2> QED
    BY <2>1, <2>2 DEF IInv
<1>3. ASSUME NEW p \in Players, Skip(p) PROVE IInv'
  <2>1. IsPartition(todo') /\ Left' = Left \ {p}
    BY <1>3, TakenIsGone DEF Skip, IInv
  <2>2. running' = running /\ loop' = "cycle"
    BY <1>3 DEF Skip
  <2> QED
    BY <2>1, <2>2 DEF IInv
<1>4. ASSUME NEW p \in Players, Succeeds(p) \/ Fails(p) \/ MeetsMaintenance(p) PROVE IInv'
  <2>1. running' = running \ {p} /\ todo' = todo /\ loop' = "cycle"
    BY <1>4 DEF Succeeds, Fails, MeetsMaintenance, Ends
  <2> QED
    BY <2>1 DEF IInv, Left, IsPartition, Disjoint
<1>5. CASE EndCycle \/ Restart
  <2>1. running' = {} /\ todo' = <<>>
    BY <1>5 DEF EndCycle, Restart
  <2> QED
    BY <2>1, NoTasks DEF IInv
<1>6. ASSUME running' = running, todo' = todo, loop' = loop \/ (loop = "idle" /\ loop' = "stopped")
      PROVE  IInv'
  BY <1>6 DEF IInv, Left, IsPartition, Disjoint
<1>7. CASE EndLoop \/ Stop \/ PauseEnds
  BY <1>7, <1>6 DEF EndLoop, Stop, PauseEnds, cycleVars
<1>8. CASE \E p \in Players : Enqueue(p) \/ Rested(p)
  BY <1>8, <1>6 DEF Enqueue, Rested, cycleVars
<1>9. CASE UNCHANGED vars
  BY <1>9, <1>6 DEF vars, cycleVars
<1> QED
  BY <1>1, <1>2, <1>3, <1>4, <1>5, <1>7, <1>8, <1>9 DEF Next, LoopStep, WorkerStep, Environment

\* crawlCycle: whatever the queue and the tables hold, and whatever ends a cycle,
\* no player is crawled by two workers, nor on the list while he is crawled.
THEOREM CycleOneCrawlAtATime == Spec => []OneCrawlAtATime
<1>1. IInv => OneCrawlAtATime
  BY DEF IInv, OneCrawlAtATime, IsPartition, Disjoint
<1> QED
  BY <1>1, InitIInv, NextIInv, PTL DEF Spec

(***************************************************************************)
(* The budget.                                                             *)
(***************************************************************************)

AtLeastZero(n) == IF n > 0 THEN n ELSE 0

\* What a query returns: no more than its limit, and fewer only if that is all.
IsTaken(T, S, n) ==
    /\ T \subseteq S /\ IsFiniteSet(T) /\ Cardinality(T) \in Nat
    /\ Cardinality(T) <= AtLeastZero(n)
    /\ T # S => Cardinality(T) = AtLeastZero(n)

LEMMA SelectTakes ==
    ASSUME NEW S, IsFiniteSet(S), NEW n \in Int, NEW T \in Select(S, n)
    PROVE  IsTaken(T, S, n)
<1>1. T \subseteq S
  BY SelectedAreCandidates
<1>2. IsFiniteSet(T) /\ Cardinality(T) \in Nat
  BY <1>1, FS_Subset, FS_CardinalityType
<1>3. CASE n <= 0
  <2>1. T = {}
    BY <1>3 DEF Select
  <2>2. Cardinality(T) = 0
    BY <2>1, FS_EmptySet
  <2> QED
    BY <1>1, <1>2, <1>3, <2>2 DEF IsTaken, AtLeastZero
<1>4. CASE n > 0
  <2>1. Cardinality(T) <= n /\ (Cardinality(T) < n => T = S)
    BY <1>4 DEF Select
  <2>2. T # S => Cardinality(T) = n
    BY <1>2, <2>1
  <2>3. AtLeastZero(n) = n
    BY <1>4 DEF AtLeastZero
  <2> QED
    BY <1>1, <1>2, <2>1, <2>2, <2>3 DEF IsTaken
<1> QED
  BY <1>3, <1>4

\* The six queries, each with its limit and whom it excludes.
IsSelection(seen, s) ==
    /\ s[2] \in Select(Candidates(seen, "hot", s[1]), HotTarget)
    /\ s[3] \in Select(Candidates(seen, "warm", s[1] \cup s[2]), WarmTarget)
    /\ s[4] \in Select(Candidates(seen, "cold", s[1] \cup s[2] \cup s[3]), ColdTarget)
    /\ s[5] \in Select(Candidates(seen, "warm", s[1] \cup s[2] \cup s[3] \cup s[4]),
                       HotTarget - Cardinality(s[2]))
    /\ s[6] \in Select(Candidates(seen, "cold", s[1] \cup s[2] \cup s[3] \cup s[4] \cup s[5]),
                       HotTarget - Cardinality(s[2]) - Cardinality(s[5]))
    /\ s[7] \in Select(Candidates(seen, "cold", s[1] \cup s[2] \cup s[3] \cup s[4] \cup s[5] \cup s[6]),
                       WarmTarget - Cardinality(s[3]))

\* Append to the tuples of a selection, part after part.
LEMMA AppendToTwo ==
    ASSUME NEW a, NEW b, NEW x
    PROVE  Append(<<a, b>>, x) = <<a, b, x>>
<1>1. <<a, b>> \in Seq({a, b, x}) /\ <<a, b, x>> \in Seq({a, b, x})
  OBVIOUS
<1>2. Len(<<a, b>>) = 2 /\ Len(<<a, b, x>>) = 3
  OBVIOUS
<1>3. Append(<<a, b>>, x) \in Seq({a, b, x}) /\ Len(Append(<<a, b>>, x)) = 3
        /\ \A i \in 1 .. 3 : Append(<<a, b>>, x)[i] = <<a, b, x>>[i]
  BY <1>1, <1>2
<1> QED
  BY <1>1, <1>2, <1>3, SeqEqual

LEMMA AppendToThree ==
    ASSUME NEW a, NEW b, NEW c, NEW x
    PROVE  Append(<<a, b, c>>, x) = <<a, b, c, x>>
<1>1. <<a, b, c>> \in Seq({a, b, c, x}) /\ <<a, b, c, x>> \in Seq({a, b, c, x})
  OBVIOUS
<1>2. Len(<<a, b, c>>) = 3 /\ Len(<<a, b, c, x>>) = 4
  OBVIOUS
<1>3. Append(<<a, b, c>>, x) \in Seq({a, b, c, x}) /\ Len(Append(<<a, b, c>>, x)) = 4
        /\ \A i \in 1 .. 4 : Append(<<a, b, c>>, x)[i] = <<a, b, c, x>>[i]
  BY <1>1, <1>2
<1> QED
  BY <1>1, <1>2, <1>3, SeqEqual

LEMMA AppendToFour ==
    ASSUME NEW a, NEW b, NEW c, NEW d, NEW x
    PROVE  Append(<<a, b, c, d>>, x) = <<a, b, c, d, x>>
<1>1. <<a, b, c, d>> \in Seq({a, b, c, d, x}) /\ <<a, b, c, d, x>> \in Seq({a, b, c, d, x})
  OBVIOUS
<1>2. Len(<<a, b, c, d>>) = 4 /\ Len(<<a, b, c, d, x>>) = 5
  OBVIOUS
<1>3. Append(<<a, b, c, d>>, x) \in Seq({a, b, c, d, x}) /\ Len(Append(<<a, b, c, d>>, x)) = 5
        /\ \A i \in 1 .. 5 : Append(<<a, b, c, d>>, x)[i] = <<a, b, c, d, x>>[i]
  BY <1>1, <1>2
<1> QED
  BY <1>1, <1>2, <1>3, SeqEqual

LEMMA AppendToFive ==
    ASSUME NEW a, NEW b, NEW c, NEW d, NEW e, NEW x
    PROVE  Append(<<a, b, c, d, e>>, x) = <<a, b, c, d, e, x>>
<1>1. <<a, b, c, d, e>> \in Seq({a, b, c, d, e, x}) /\ <<a, b, c, d, e, x>> \in Seq({a, b, c, d, e, x})
  OBVIOUS
<1>2. Len(<<a, b, c, d, e>>) = 5 /\ Len(<<a, b, c, d, e, x>>) = 6
  OBVIOUS
<1>3. Append(<<a, b, c, d, e>>, x) \in Seq({a, b, c, d, e, x}) /\ Len(Append(<<a, b, c, d, e>>, x)) = 6
        /\ \A i \in 1 .. 6 : Append(<<a, b, c, d, e>>, x)[i] = <<a, b, c, d, e, x>>[i]
  BY <1>1, <1>2
<1> QED
  BY <1>1, <1>2, <1>3, SeqEqual

LEMMA AppendToSix ==
    ASSUME NEW a, NEW b, NEW c, NEW d, NEW e, NEW f, NEW x
    PROVE  Append(<<a, b, c, d, e, f>>, x) = <<a, b, c, d, e, f, x>>
<1>1. <<a, b, c, d, e, f>> \in Seq({a, b, c, d, e, f, x}) /\ <<a, b, c, d, e, f, x>> \in Seq({a, b, c, d, e, f, x})
  OBVIOUS
<1>2. Len(<<a, b, c, d, e, f>>) = 6 /\ Len(<<a, b, c, d, e, f, x>>) = 7
  OBVIOUS
<1>3. Append(<<a, b, c, d, e, f>>, x) \in Seq({a, b, c, d, e, f, x}) /\ Len(Append(<<a, b, c, d, e, f>>, x)) = 7
        /\ \A i \in 1 .. 7 : Append(<<a, b, c, d, e, f>>, x)[i] = <<a, b, c, d, e, f, x>>[i]
  BY <1>1, <1>2
<1> QED
  BY <1>1, <1>2, <1>3, SeqEqual

LEMMA SelectionsAreQueries ==
    ASSUME NEW Q, NEW seen, NEW s \in Selections(seen, Q)
    PROVE  /\ s = <<Q, s[2], s[3], s[4], s[5], s[6], s[7]>>
           /\ IsSelection(seen, s)
<1> DEFINE hot     == Picks(<<Q>>, seen, "hot", HotTarget)
           warm    == UNION {Picks(x, seen, "warm", WarmTarget) : x \in hot}
           cold    == UNION {Picks(x, seen, "cold", ColdTarget) : x \in warm}
           more    == UNION {Picks(x, seen, "warm", HotShort(x)) : x \in cold}
           still   == UNION {Picks(x, seen, "cold", HotShort(x) - Cardinality(x[5])) : x \in more}
<1>1. PICK s6 \in still : s \in Picks(s6, seen, "cold", WarmShort(s6))
  BY DEF Selections
<1>2. PICK s5 \in more : s6 \in Picks(s5, seen, "cold", HotShort(s5) - Cardinality(s5[5]))
  OBVIOUS
<1>3. PICK s4 \in cold : s5 \in Picks(s4, seen, "warm", HotShort(s4))
  OBVIOUS
<1>4. PICK s3 \in warm : s4 \in Picks(s3, seen, "cold", ColdTarget)
  OBVIOUS
<1>5. PICK s2 \in hot : s3 \in Picks(s2, seen, "warm", WarmTarget)
  OBVIOUS
<1> HIDE DEF hot, warm, cold, more, still
<1>6. PICK A \in Select(Candidates(seen, "hot", Q), HotTarget) : s2 = <<Q, A>>
  BY <1>5 DEF hot, Picks, Picked
<1>7. PICK B \in Select(Candidates(seen, "warm", Q \cup A), WarmTarget) : s3 = <<Q, A, B>>
  <2>1. Picked(<<Q, A>>) = Q \cup A
    BY DEF Picked
  <2>2. \A T : Append(<<Q, A>>, T) = <<Q, A, T>>
    BY AppendToTwo
  <2> QED
    BY <2>2, <1>5, <1>6, <2>1 DEF Picks
<1>8. PICK C \in Select(Candidates(seen, "cold", Q \cup A \cup B), ColdTarget) :
        s4 = <<Q, A, B, C>>
  <2>1. Picked(<<Q, A, B>>) = Q \cup A \cup B
    BY DEF Picked
  <2>2. \A T : Append(<<Q, A, B>>, T) = <<Q, A, B, T>>
    BY AppendToThree
  <2> QED
    BY <2>2, <1>4, <1>7, <2>1 DEF Picks
<1>9. PICK D \in Select(Candidates(seen, "warm", Q \cup A \cup B \cup C), HotTarget - Cardinality(A)) :
        s5 = <<Q, A, B, C, D>>
  <2>1. Picked(<<Q, A, B, C>>) = Q \cup A \cup B \cup C
    BY DEF Picked
  <2>2. \A T : Append(<<Q, A, B, C>>, T) = <<Q, A, B, C, T>>
    BY AppendToFour
  <2> QED
    BY <2>2, <1>3, <1>8, <2>1 DEF Picks, HotShort
<1>10. PICK E \in Select(Candidates(seen, "cold", Q \cup A \cup B \cup C \cup D),
                         HotTarget - Cardinality(A) - Cardinality(D)) :
         s6 = <<Q, A, B, C, D, E>>
  <2>1. Picked(<<Q, A, B, C, D>>) = Q \cup A \cup B \cup C \cup D
    BY DEF Picked
  <2>2. \A T : Append(<<Q, A, B, C, D>>, T) = <<Q, A, B, C, D, T>>
    BY AppendToFive
  <2> QED
    BY <2>2, <1>2, <1>9, <2>1 DEF Picks, HotShort
<1>11. PICK F \in Select(Candidates(seen, "cold", Q \cup A \cup B \cup C \cup D \cup E),
                         WarmTarget - Cardinality(B)) :
         s = <<Q, A, B, C, D, E, F>>
  <2>1. Picked(<<Q, A, B, C, D, E>>) = Q \cup A \cup B \cup C \cup D \cup E
    BY DEF Picked
  <2>2. \A T : Append(<<Q, A, B, C, D, E>>, T) = <<Q, A, B, C, D, E, T>>
    BY AppendToSix
  <2> QED
    BY <2>2, <1>1, <1>10, <2>1 DEF Picks, WarmShort
<1> QED
  BY <1>6, <1>7, <1>8, <1>9, <1>10, <1>11 DEF IsSelection

\* The three shares of the budget: rounding down never gives more than there is.
LEMMA SharesAddUp ==
    /\ HotTarget \in Nat /\ WarmTarget \in Nat /\ ColdTarget \in Nat
    /\ HotTarget + WarmTarget + ColdTarget = Total
<1> DEFINE a == Total * HotPct
           b == Total * WarmPct
<1>1. Total \in Nat /\ HotPct \in Nat /\ WarmPct \in Nat /\ HotPct + WarmPct <= 100
  BY CycleAssumption
<1>2. a \in Nat /\ b \in Nat
  BY <1>1
<1>3. a + b <= 100 * Total
  <2>1. a + b = Total * (HotPct + WarmPct)
    BY <1>1
  <2>2. \A m, n, k \in Nat : m <= k => n * m <= k * n
    OBVIOUS
  <2> HIDE DEF a, b
  <2>3. HotPct + WarmPct \in Nat /\ 100 \in Nat
    BY <1>1
  <2>4. Total * (HotPct + WarmPct) <= 100 * Total
    BY <1>1, <2>2, <2>3
  <2> QED
    BY <2>1, <2>4
<1>4. HotTarget = a \div 100 /\ WarmTarget = b \div 100
  BY DEF HotTarget, WarmTarget
<1> HIDE DEF a, b
<1>5. a \div 100 \in Nat /\ b \div 100 \in Nat /\ a \div 100 + b \div 100 <= Total
  BY <1>1, <1>2, <1>3
<1> QED
  BY <1>1, <1>4, <1>5 DEF ColdTarget

\* Each query of a selection takes as much as its limit and its bucket allow.
LEMMA QueriesTake ==
    ASSUME known \subseteq Players, NEW seen, NEW s, IsSelection(seen, s)
    PROVE  /\ IsTaken(s[2], Candidates(seen, "hot", s[1]), HotTarget)
           /\ IsTaken(s[3], Candidates(seen, "warm", s[1] \cup s[2]), WarmTarget)
           /\ IsTaken(s[4], Candidates(seen, "cold", s[1] \cup s[2] \cup s[3]), ColdTarget)
           /\ IsTaken(s[5], Candidates(seen, "warm", s[1] \cup s[2] \cup s[3] \cup s[4]),
                      HotTarget - Cardinality(s[2]))
           /\ IsTaken(s[6], Candidates(seen, "cold", s[1] \cup s[2] \cup s[3] \cup s[4] \cup s[5]),
                      HotTarget - Cardinality(s[2]) - Cardinality(s[5]))
           /\ IsTaken(s[7],
                      Candidates(seen, "cold", s[1] \cup s[2] \cup s[3] \cup s[4] \cup s[5] \cup s[6]),
                      WarmTarget - Cardinality(s[3]))
<1>1. \A bucket, X : IsFiniteSet(Candidates(seen, bucket, X))
  <2> TAKE bucket, X
  <2>1. Candidates(seen, bucket, X) \in SUBSET Players /\ IsFiniteSet(Players)
    BY CycleAssumption DEF Candidates
  <2> QED
    BY <2>1, FS_Subset
<1>2. HotTarget \in Int /\ WarmTarget \in Int /\ ColdTarget \in Int
  BY SharesAddUp
<1>3. IsTaken(s[2], Candidates(seen, "hot", s[1]), HotTarget)
  BY <1>1, <1>2, SelectTakes DEF IsSelection
<1>4. IsTaken(s[3], Candidates(seen, "warm", s[1] \cup s[2]), WarmTarget)
  BY <1>1, <1>2, SelectTakes DEF IsSelection
<1>5. IsTaken(s[4], Candidates(seen, "cold", s[1] \cup s[2] \cup s[3]), ColdTarget)
  BY <1>1, <1>2, SelectTakes DEF IsSelection
<1>6. Cardinality(s[2]) \in Nat /\ Cardinality(s[3]) \in Nat
  BY <1>3, <1>4 DEF IsTaken
<1>7. IsTaken(s[5], Candidates(seen, "warm", s[1] \cup s[2] \cup s[3] \cup s[4]),
              HotTarget - Cardinality(s[2]))
  <2>1. HotTarget - Cardinality(s[2]) \in Int
    BY <1>2, <1>6
  <2> QED
    BY <1>1, <2>1, SelectTakes DEF IsSelection
<1>8. Cardinality(s[5]) \in Nat
  BY <1>7 DEF IsTaken
<1>9. IsTaken(s[6], Candidates(seen, "cold", s[1] \cup s[2] \cup s[3] \cup s[4] \cup s[5]),
              HotTarget - Cardinality(s[2]) - Cardinality(s[5]))
  <2>1. HotTarget - Cardinality(s[2]) - Cardinality(s[5]) \in Int
    BY <1>2, <1>6, <1>8
  <2> QED
    BY <1>1, <2>1, SelectTakes DEF IsSelection
<1>10. IsTaken(s[7],
               Candidates(seen, "cold", s[1] \cup s[2] \cup s[3] \cup s[4] \cup s[5] \cup s[6]),
               WarmTarget - Cardinality(s[3]))
  <2>1. WarmTarget - Cardinality(s[3]) \in Int
    BY <1>2, <1>6
  <2> QED
    BY <1>1, <2>1, SelectTakes DEF IsSelection
<1> QED
  BY <1>3, <1>4, <1>5, <1>7, <1>9, <1>10

\* Two sets without a common member.
LEMMA DisjointSum ==
    ASSUME NEW S, IsFiniteSet(S), NEW T, IsFiniteSet(T), S \cap T = {}
    PROVE  /\ IsFiniteSet(S \cup T) /\ Cardinality(S \cup T) \in Nat
           /\ Cardinality(S \cup T) = Cardinality(S) + Cardinality(T)
<1>1. Cardinality(S \cap T) = 0
  BY FS_EmptySet
<1>2. Cardinality(S) \in Nat /\ Cardinality(T) \in Nat
  BY FS_CardinalityType
<1>3. IsFiniteSet(S \cup T)
      /\ Cardinality(S \cup T) = Cardinality(S) + Cardinality(T) - Cardinality(S \cap T)
  BY FS_Union
<1> QED
  BY <1>1, <1>2, <1>3

\* Whatever the division of the players into buckets and whatever the queries
\* return, the budget is used as far as the candidates allow.
LEMMA SelectionUsesBudget ==
    ASSUME known \subseteq Players, NEW Q, NEW seen, NEW s \in Selections(seen, Q)
    PROVE  LET chosen == Picked(s) \ Q
               left(b) == Candidates(seen, b, Picked(s))
               hot     == {p \in chosen : seen[p] = "hot"}
               warm    == {p \in chosen : seen[p] = "warm"}
           IN  /\ Cardinality(chosen) <= Total /\ chosen \cap resting = {}
               /\ Cardinality(chosen) < Total => left("cold") = {}
               /\ Cardinality(hot) < HotTarget => left("hot") = {}
               /\ Cardinality(hot) + Cardinality(warm) < HotTarget + WarmTarget => left("warm") = {}
<1> DEFINE A == s[2]  B == s[3]  C == s[4]  D == s[5]  E == s[6]  F == s[7]
           All == Q \cup A \cup B \cup C \cup D \cup E \cup F
<1>1. s = <<Q, A, B, C, D, E, F>> /\ IsSelection(seen, s)
  BY SelectionsAreQueries
<1>2. s[1] = Q
  BY <1>1
<1>3. Picked(s) = All
  <2> HIDE DEF A, B, C, D, E, F
  <2>1. Picked(<<Q, A, B, C, D, E, F>>) = All
    BY DEF Picked
  <2> QED
    BY <2>1, <1>1
<1>4. /\ IsTaken(A, Candidates(seen, "hot", Q), HotTarget)
      /\ IsTaken(B, Candidates(seen, "warm", Q \cup A), WarmTarget)
      /\ IsTaken(C, Candidates(seen, "cold", Q \cup A \cup B), ColdTarget)
      /\ IsTaken(D, Candidates(seen, "warm", Q \cup A \cup B \cup C), HotTarget - Cardinality(A))
      /\ IsTaken(E, Candidates(seen, "cold", Q \cup A \cup B \cup C \cup D),
                 HotTarget - Cardinality(A) - Cardinality(D))
      /\ IsTaken(F, Candidates(seen, "cold", Q \cup A \cup B \cup C \cup D \cup E),
                 WarmTarget - Cardinality(B))
  BY <1>1, <1>2, QueriesTake
<1> HIDE DEF A, B, C, D, E, F
<1> DEFINE nA == Cardinality(A)  nB == Cardinality(B)  nC == Cardinality(C)
           nD == Cardinality(D)  nE == Cardinality(E)  nF == Cardinality(F)
<1>5. \A X \in {A, B, C, D, E, F} : IsFiniteSet(X) /\ Cardinality(X) \in Nat
  BY <1>4 DEF IsTaken
<1>6. /\ A \subseteq Candidates(seen, "hot", Q)
      /\ B \subseteq Candidates(seen, "warm", Q \cup A)
      /\ C \subseteq Candidates(seen, "cold", Q \cup A \cup B)
      /\ D \subseteq Candidates(seen, "warm", Q \cup A \cup B \cup C)
      /\ E \subseteq Candidates(seen, "cold", Q \cup A \cup B \cup C \cup D)
      /\ F \subseteq Candidates(seen, "cold", Q \cup A \cup B \cup C \cup D \cup E)
  BY <1>4 DEF IsTaken
<1>7. /\ nA <= AtLeastZero(HotTarget) /\ nB <= AtLeastZero(WarmTarget)
      /\ nC <= AtLeastZero(ColdTarget) /\ nD <= AtLeastZero(HotTarget - nA)
      /\ nE <= AtLeastZero(HotTarget - nA - nD) /\ nF <= AtLeastZero(WarmTarget - nB)
  BY <1>4 DEF IsTaken
<1>8. /\ A # Candidates(seen, "hot", Q) => nA = AtLeastZero(HotTarget)
      /\ B # Candidates(seen, "warm", Q \cup A) => nB = AtLeastZero(WarmTarget)
      /\ C # Candidates(seen, "cold", Q \cup A \cup B) => nC = AtLeastZero(ColdTarget)
      /\ D # Candidates(seen, "warm", Q \cup A \cup B \cup C) => nD = AtLeastZero(HotTarget - nA)
      /\ E # Candidates(seen, "cold", Q \cup A \cup B \cup C \cup D)
           => nE = AtLeastZero(HotTarget - nA - nD)
      /\ F # Candidates(seen, "cold", Q \cup A \cup B \cup C \cup D \cup E)
           => nF = AtLeastZero(WarmTarget - nB)
  BY <1>4 DEF IsTaken
<1> DEFINE chosen == A \cup B \cup C \cup D \cup E \cup F
           hot    == {p \in chosen : seen[p] = "hot"}
           warm   == {p \in chosen : seen[p] = "warm"}
           left(b) == Candidates(seen, b, All)
<1>9. chosen = All \ Q /\ chosen \cap resting = {}
  BY <1>6 DEF Candidates
<1>10. /\ A \cap B = {} /\ (A \cup B) \cap C = {} /\ (A \cup B \cup C) \cap D = {}
       /\ (A \cup B \cup C \cup D) \cap E = {} /\ (A \cup B \cup C \cup D \cup E) \cap F = {}
       /\ B \cap D = {}
  BY <1>6 DEF Candidates
<1>11. Cardinality(chosen) = nA + nB + nC + nD + nE + nF
  <2>1. IsFiniteSet(A \cup B) /\ Cardinality(A \cup B) = nA + nB
    BY <1>5, <1>10, DisjointSum
  <2>2. IsFiniteSet(A \cup B \cup C) /\ Cardinality(A \cup B \cup C) = nA + nB + nC
    BY <1>5, <1>10, <2>1, DisjointSum
  <2>3. IsFiniteSet(A \cup B \cup C \cup D)
        /\ Cardinality(A \cup B \cup C \cup D) = nA + nB + nC + nD
    BY <1>5, <1>10, <2>2, DisjointSum
  <2>4. IsFiniteSet(A \cup B \cup C \cup D \cup E)
        /\ Cardinality(A \cup B \cup C \cup D \cup E) = nA + nB + nC + nD + nE
    BY <1>5, <1>10, <2>3, DisjointSum
  <2> QED
    BY <1>5, <1>10, <2>4, DisjointSum
<1>12. hot = A /\ warm = B \cup D
  BY <1>6 DEF Candidates
<1>13. Cardinality(hot) = nA /\ Cardinality(warm) = nB + nD
  BY <1>5, <1>10, <1>12, DisjointSum
<1>14. left("cold") # {} =>
         nC = AtLeastZero(ColdTarget) /\ nE = AtLeastZero(HotTarget - nA - nD)
         /\ nF = AtLeastZero(WarmTarget - nB)
  <2> SUFFICES ASSUME NEW p \in left("cold")
               PROVE  nC = AtLeastZero(ColdTarget) /\ nE = AtLeastZero(HotTarget - nA - nD)
                      /\ nF = AtLeastZero(WarmTarget - nB)
    OBVIOUS
  <2>1. /\ p \in Candidates(seen, "cold", Q \cup A \cup B) \ C
        /\ p \in Candidates(seen, "cold", Q \cup A \cup B \cup C \cup D) \ E
        /\ p \in Candidates(seen, "cold", Q \cup A \cup B \cup C \cup D \cup E) \ F
    BY DEF Candidates
  <2> QED
    BY <2>1, <1>8
<1>15. left("hot") # {} => nA = AtLeastZero(HotTarget)
  <2>1. left("hot") \subseteq Candidates(seen, "hot", Q) \ A
    BY DEF Candidates
  <2> QED
    BY <2>1, <1>8
<1>16. left("warm") # {} => nB = AtLeastZero(WarmTarget) /\ nD = AtLeastZero(HotTarget - nA)
  <2>1. /\ left("warm") \subseteq Candidates(seen, "warm", Q \cup A) \ B
        /\ left("warm") \subseteq Candidates(seen, "warm", Q \cup A \cup B \cup C) \ D
    BY DEF Candidates
  <2> QED
    BY <2>1, <1>8
<1>17. nA \in Nat /\ nB \in Nat /\ nC \in Nat /\ nD \in Nat /\ nE \in Nat /\ nF \in Nat
  BY <1>5
<1> HIDE DEF nA, nB, nC, nD, nE, nF, hot, warm, left, chosen
<1>18. Cardinality(chosen) <= Total
  BY <1>7, <1>11, <1>17, SharesAddUp DEF AtLeastZero
<1>19. Cardinality(chosen) < Total => left("cold") = {}
  BY <1>7, <1>11, <1>14, <1>17, SharesAddUp DEF AtLeastZero
<1>20. Cardinality(hot) < HotTarget => left("hot") = {}
  BY <1>7, <1>13, <1>15, <1>17, SharesAddUp DEF AtLeastZero
<1>21. Cardinality(hot) + Cardinality(warm) < HotTarget + WarmTarget => left("warm") = {}
  BY <1>7, <1>13, <1>16, <1>17, SharesAddUp DEF AtLeastZero
<1> QED
  BY <1>3, <1>9, <1>18, <1>19, <1>20, <1>21 DEF hot, warm, left, chosen

\* Only players are found.
KnownArePlayers == known \subseteq Players /\ buffer \subseteq Players

LEMMA KnownArePlayersInv == Spec => []KnownArePlayers
<1>1. Init => KnownArePlayers
  BY CycleAssumption DEF Init, KnownArePlayers
<1>2. KnownArePlayers /\ [Next]_vars => KnownArePlayers'
  <2> SUFFICES ASSUME KnownArePlayers, [Next]_vars PROVE KnownArePlayers'
    OBVIOUS
  <2> USE DEF KnownArePlayers
  <2>1. CASE UNCHANGED vars
    BY <2>1 DEF vars, rowVars, cycleVars
  <2>2. CASE BeginCycle \/ EndLoop \/ PauseEnds \/ Stop \/ Restart
    BY <2>2 DEF BeginCycle, EndLoop, PauseEnds, Stop, Restart, rowVars, cycleVars
  <2>3. CASE EndCycle
    BY <2>3 DEF EndCycle, Upsert
  <2>4. ASSUME NEW p \in Players, Succeeds(p) PROVE KnownArePlayers'
    BY <2>4 DEF Succeeds, Upsert
  <2>5. ASSUME NEW p \in Players, Take(p) \/ Skip(p) \/ Fails(p) \/ MeetsMaintenance(p)
                                  \/ Enqueue(p) \/ Rested(p)
        PROVE  KnownArePlayers'
    BY <2>5 DEF Take, Skip, Fails, MeetsMaintenance, Enqueue, Rested, rowVars, cycleVars
  <2> QED
    BY <2>1, <2>2, <2>3, <2>4, <2>5 DEF Next, LoopStep, WorkerStep, Environment
<1> QED
  BY <1>1, <1>2, PTL DEF Spec

\* crawlCycle's spillover: whatever the shares of the buckets, whoever waits in
\* the queue and whoever backs off, a cycle never crawls more players than
\* maxPlayersPerCycle beside the queue, none of them backs off, and a place stays
\* empty only when the buckets it may spill to have nobody left.
THEOREM CycleBudgetIsUsed == Spec => []BudgetIsUsed
<1>1. KnownArePlayers => BudgetIsUsed
  BY SelectionUsesBudget DEF KnownArePlayers, BudgetIsUsed
<1> QED
  BY <1>1, KnownArePlayersInv, PTL

(***************************************************************************)
(* The queue.                                                              *)
(***************************************************************************)

IsList(q) == \E X : q \in Seq(X)

\* The places up to i among the places K.
UpTo(K, i) == K \cap (1 .. i)

LEMMA UpToGrows ==
    ASSUME NEW K, IsFiniteSet(K), K \subseteq Nat \ {0}, NEW i \in K
    PROVE  /\ Cardinality(UpTo(K, i)) \in 1 .. Cardinality(K)
           /\ \A j \in K : i < j => Cardinality(UpTo(K, i)) < Cardinality(UpTo(K, j))
<1>1. ASSUME NEW j \in K
      PROVE  /\ j \in Nat \ {0} /\ j \in UpTo(K, j)
             /\ IsFiniteSet(UpTo(K, j)) /\ Cardinality(UpTo(K, j)) \in Nat
             /\ Cardinality(UpTo(K, j)) <= Cardinality(K)
  <2>1. j \in Nat \ {0}
    OBVIOUS
  <2>2. UpTo(K, j) \subseteq K /\ j \in UpTo(K, j)
    BY <2>1 DEF UpTo
  <2> QED
    BY <2>1, <2>2, FS_Subset, FS_CardinalityType
<1>2. Cardinality(K) \in Nat
  BY FS_CardinalityType
<1>3. Cardinality(UpTo(K, i)) # 0
  BY <1>1, FS_EmptySet
<1>4. ASSUME NEW j \in K, i < j
      PROVE  Cardinality(UpTo(K, i)) < Cardinality(UpTo(K, j))
  <2>1. i \in Nat /\ j \in Nat
    BY <1>1
  <2>2. UpTo(K, i) \subseteq UpTo(K, j) /\ j \notin UpTo(K, i)
    BY <1>4, <2>1 DEF UpTo
  <2>3. UpTo(K, i) # UpTo(K, j)
    BY <1>1, <2>2
  <2>4. /\ Cardinality(UpTo(K, i)) <= Cardinality(UpTo(K, j))
        /\ Cardinality(UpTo(K, i)) # Cardinality(UpTo(K, j))
    BY <1>1, <2>2, <2>3, FS_Subset
  <2> QED
    BY <1>1, <2>4
<1> QED
  BY <1>1, <1>2, <1>3, <1>4

LEMMA PlacesDiffer ==
    ASSUME NEW K, IsFiniteSet(K), K \subseteq Nat \ {0}, NEW i \in K, NEW j \in K,
           Cardinality(UpTo(K, i)) = Cardinality(UpTo(K, j))
    PROVE  i = j
<1>0. i \in Nat /\ j \in Nat /\ Cardinality(K) \in Nat
  BY FS_CardinalityType
<1>1. Cardinality(UpTo(K, i)) \in 1 .. Cardinality(K)
  BY UpToGrows
<1>2. Cardinality(UpTo(K, i)) \in Nat
  BY <1>0, <1>1
<1>3. CASE i < j
  <2>1. Cardinality(UpTo(K, i)) < Cardinality(UpTo(K, j))
    BY <1>3, UpToGrows
  <2> QED
    BY <1>2, <2>1
<1>4. CASE j < i
  <2>1. Cardinality(UpTo(K, j)) < Cardinality(UpTo(K, i))
    BY <1>4, UpToGrows
  <2> QED
    BY <1>2, <2>1
<1> QED
  BY <1>0, <1>3, <1>4

\* Without: a row of somebody else stays.
LEMMA OthersStay ==
    ASSUME NEW q, IsList(q), NEW S
    PROVE  /\ IsList(Without(q, S))
           /\ \A i \in DOMAIN q : q[i] \notin S =>
                \E n \in DOMAIN Without(q, S) : Without(q, S)[n] = q[i]
<1> DEFINE K == {i \in DOMAIN q : q[i] \notin S}
           at(n) == CHOOSE i \in K : Cardinality(UpTo(K, i)) = n
           w == [n \in 1 .. Cardinality(K) |-> q[at(n)]]
<1>1. PICK X : q \in Seq(X)
  BY DEF IsList
<1>2. DOMAIN q = 1 .. Len(q) /\ Len(q) \in Nat
  BY <1>1
<1>3. IsFiniteSet(K) /\ K \subseteq Nat \ {0} /\ Cardinality(K) \in Nat
  <2>1. IsFiniteSet(1 .. Len(q)) /\ K \subseteq 1 .. Len(q)
    BY <1>2, FS_Interval
  <2> HIDE DEF K
  <2>2. IsFiniteSet(K)
    BY <2>1, FS_Subset
  <2> QED
    BY <1>2, <2>1, <2>2, FS_CardinalityType
<1>4. Without(q, S) = w
  BY DEF Without, UpTo
<1>5. IsList(w)
  <2> DEFINE Y == {q[at(n)] : n \in 1 .. Cardinality(K)}
  <2>1. \A n \in 1 .. Cardinality(K) : q[at(n)] \in Y
    OBVIOUS
  <2>2. PICK k \in Nat : k = Cardinality(K)
    BY <1>3
  <2> HIDE DEF Y, K, at
  <2>3. w \in [1 .. k -> Y]
    BY <2>1, <2>2
  <2> HIDE DEF w
  <2>4. w \in Seq(Y)
    BY <2>2, <2>3
  <2> QED
    BY <2>4 DEF IsList
<1>6. ASSUME NEW i \in DOMAIN q, q[i] \notin S
      PROVE  \E n \in DOMAIN w : w[n] = q[i]
  <2>1. i \in K
    BY <1>6
  <2> HIDE DEF K
  <2>2. PICK n \in 1 .. Cardinality(K) : n = Cardinality(UpTo(K, i))
    BY <1>3, <2>1, UpToGrows
  <2>5. at(n) \in K /\ Cardinality(UpTo(K, at(n))) = Cardinality(UpTo(K, i))
    BY <2>1, <2>2
  <2> HIDE DEF at
  <2>6. at(n) = i
    BY <1>3, <2>1, <2>5, PlacesDiffer
  <2>7. w[n] = q[i] /\ n \in DOMAIN w
    BY <2>6
  <2> QED
    BY <2>7
<1> HIDE DEF w
<1> QED
  BY <1>4, <1>5, <1>6

\* What the queue loses when it becomes q.
LostTo(q) == {p \in Queued : \A n \in DOMAIN q : q[n] # p}

LEMMA WithoutLoses ==
    ASSUME IsList(queue), NEW S
    PROVE  IsList(Without(queue, S)) /\ LostTo(Without(queue, S)) \subseteq S
<1> SUFFICES ASSUME NEW p \in LostTo(Without(queue, S)), p \notin S PROVE FALSE
  BY OthersStay
<1>1. PICK i \in DOMAIN queue : p = queue[i]
  BY DEF LostTo, Queued
<1> QED
  BY <1>1, OthersStay DEF LostTo

LEMMA QueueLosesTo ==
    Queued \ Queued' = LostTo(queue')
BY DEF Queued, LostTo

\* The list of a cycle names whom the queue gave.
LEMMA DrainedIsListed ==
    ASSUME NEW Q, NEW seen, NEW s \in Selections(seen, Q)
    PROVE  \E i \in DOMAIN InOrder(s) : InOrder(s)[i] = Q
<1>1. s = <<Q, s[2], s[3], s[4], s[5], s[6], s[7]>>
  BY SelectionsAreQueries
<1>2. s[1] = Q
  BY <1>1
<1>3. 1 \in DOMAIN InOrder(s) /\ InOrder(s)[1] = s[1]
  BY DEF InOrder
<1> QED
  BY <1>2, <1>3

\* Whom the queue gave is on the list, or with a worker, or was tried, unless the
\* cycle is cut short.
ServedInv ==
    /\ IsList(queue)
    /\ loop = "cycle" /\ ~stop /\ ~disabled => drained \subseteq tried \cup running \cup Left

LEMMA TasksAreKept ==
    ASSUME IInv, ServedInv, NEW p, TakeTask(p), UNCHANGED <<queue, loop, stop, drained, disabled, tried>>,
           running' = running \cup {p} \/ (stop \/ disabled)
    PROVE  ServedInv'
<1>1. Left' = Left \ {p}
  BY TakenIsGone DEF IInv
<1> QED
  BY <1>1 DEF ServedInv

\* What a step may take from the queue.
Served ==
    \A p \in Queued \ Queued' :
      \/ loop = "idle" /\ p \in resting
      \/ loop = "cycle" /\ p \in drained /\ (Met(p) \/ stop \/ disabled \/ p \in again)

LEMMA ServedStep ==
    ASSUME IInv, ServedInv, [Next]_vars
    PROVE  /\ ServedInv'
           /\ Served
<1>0. ASSUME queue' = queue PROVE Served
  BY <1>0 DEF Queued, Served
<1>1. CASE BeginCycle
  <2>1. PICK seen, s : s \in Selections(seen, Drained) /\ todo' = InOrder(s)
    BY <1>1 DEF BeginCycle
  <2>2. drained' = Drained /\ queue' = Without(queue, resting)
    BY <1>1 DEF BeginCycle, AfterDrop
  <2>3. drained' \subseteq Left'
    BY <2>1, <2>2, DrainedIsListed DEF Left
  <2>4. IsList(queue') /\ LostTo(queue') \subseteq resting
    BY <2>2, WithoutLoses DEF ServedInv
  <2>5. Served
    BY <1>1, <2>4, QueueLosesTo DEF BeginCycle, Served
  <2> QED
    BY <2>3, <2>4, <2>5 DEF ServedInv
<1>2. ASSUME NEW p \in Players, Take(p) PROVE ServedInv' /\ Served
  BY <1>0, <1>2, TasksAreKept DEF Take
<1>3. ASSUME NEW p \in Players, Skip(p) PROVE ServedInv' /\ Served
  BY <1>0, <1>3, TasksAreKept DEF Skip
<1>4. ASSUME NEW p \in Players, Succeeds(p) \/ Fails(p) PROVE ServedInv' /\ Served
  <2>1. /\ running' = running \ {p} /\ tried' = tried \cup {p}
        /\ UNCHANGED <<queue, loop, stop, drained, todo, disabled>>
    BY <1>4 DEF Succeeds, Fails, Ends, Attempt
  <2> QED
    BY <1>0, <2>1 DEF ServedInv, Left
<1>5. ASSUME NEW p \in Players, MeetsMaintenance(p) PROVE ServedInv' /\ Served
  <2>1. disabled' /\ queue' = queue
    BY <1>5 DEF MeetsMaintenance
  <2> QED
    BY <1>0, <2>1 DEF ServedInv
<1>6. CASE EndCycle
  <2>1. queue' = Without(queue, drained) /\ loop' = "idle" /\ loop = "cycle" /\ Left = {} /\ running = {}
    BY <1>6 DEF EndCycle, Remaining
  <2>2. IsList(queue') /\ LostTo(queue') \subseteq drained
    BY <2>1, WithoutLoses DEF ServedInv
  <2>3. stop \/ disabled \/ drained \subseteq tried
    BY <2>1 DEF ServedInv
  <2>4. Served
    BY <2>1, <2>2, <2>3, QueueLosesTo DEF Served, Met
  <2> QED
    BY <2>1, <2>2, <2>4 DEF ServedInv
<1>7. ASSUME NEW p \in Players, Enqueue(p) PROVE ServedInv' /\ Served
  <2>1. queue' = Append(Without(queue, {p}), p)
        /\ UNCHANGED <<loop, stop, drained, todo, running, disabled, tried>>
    BY <1>7 DEF Enqueue
  <2>2. IsList(Without(queue, {p})) /\ LostTo(Without(queue, {p})) \subseteq {p}
    BY WithoutLoses DEF ServedInv
  <2> DEFINE w == Without(queue, {p})
  <2>3. PICK X : w \in Seq(X)
    BY <2>2 DEF IsList
  <2> HIDE DEF w
  <2>4. w \in Seq(X \cup {p}) /\ DOMAIN w = 1 .. Len(w) /\ Len(w) \in Nat
    BY <2>3
  <2>5. /\ Append(w, p) \in Seq(X \cup {p}) /\ DOMAIN Append(w, p) = 1 .. Len(w) + 1
        /\ Append(w, p)[Len(w) + 1] = p /\ \A n \in 1 .. Len(w) : Append(w, p)[n] = w[n]
    BY <2>4
  <2>6. queue' = Append(w, p)
    BY <2>1 DEF w
  <2>7. IsList(queue')
    BY <2>5, <2>6 DEF IsList
  <2>8. LostTo(queue') = {}
    <3> SUFFICES ASSUME NEW x \in LostTo(queue') PROVE FALSE
      OBVIOUS
    <3>1. x # p
      BY <2>4, <2>5, <2>6 DEF LostTo
    <3>2. x \in LostTo(w)
      BY <2>4, <2>5, <2>6 DEF LostTo
    <3> QED
      BY <2>2, <3>1, <3>2 DEF w
  <2>9. Served
    BY <2>8, QueueLosesTo DEF Served
  <2> QED
    BY <2>1, <2>7, <2>9 DEF ServedInv, Left
<1>8. CASE EndLoop \/ Restart
  <2>1. queue' = queue /\ loop' # "cycle"
    BY <1>8 DEF EndLoop, Restart
  <2> QED
    BY <1>0, <2>1 DEF ServedInv
<1>9. CASE Stop
  <2>1. queue' = queue /\ stop'
    BY <1>9 DEF Stop
  <2> QED
    BY <1>0, <2>1 DEF ServedInv
<1>10. CASE PauseEnds \/ (\E p \in Players : Rested(p)) \/ UNCHANGED vars
  <2>1. UNCHANGED <<queue, loop, stop, drained, todo, running, disabled, tried>>
    BY <1>10 DEF PauseEnds, Rested, vars, cycleVars
  <2> QED
    BY <1>0, <2>1 DEF ServedInv, Left
<1> QED
  BY <1>1, <1>2, <1>3, <1>4, <1>5, <1>6, <1>7, <1>8, <1>9, <1>10
     DEF Next, LoopStep, WorkerStep, Environment

\* crawlCycle and crawl_queue: whoever is enqueued, and whenever, a row is deleted
\* only when its player backs off as a cycle begins, or at the end of the cycle that
\* drained it: met by a crawl begun since, in a cycle cut short, or enqueued anew
\* too late for that crawl.
THEOREM CycleRowsAreServed == Spec => RowsAreServed
<1>1. Init => ServedInv
  <2> SUFFICES ASSUME Init PROVE ServedInv
    OBVIOUS
  <2>1. <<>> \in Seq({})
    OBVIOUS
  <2> QED
    BY <2>1 DEF Init, ServedInv, IsList
<1>2. IInv /\ ServedInv /\ [Next]_vars => (IInv /\ ServedInv)'
  BY NextIInv, ServedStep
<1>3. IInv /\ ServedInv /\ [Next]_vars =>
        [\A p \in Queued \ Queued' :
            \/ loop = "idle" /\ p \in resting
            \/ loop = "cycle" /\ p \in drained /\ (Met(p) \/ stop \/ disabled \/ p \in again)]_vars
  BY ServedStep DEF Served
<1> QED
  BY <1>1, <1>2, <1>3, InitIInv, PTL DEF Spec, RowsAreServed
=============================================================================
