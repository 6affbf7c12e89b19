------------------------ MODULE ActiveSessionsProofs ------------------------
(***************************************************************************)
(* What the active-session loop does to the tables, for any number of      *)
(* players and polls: the invariant keeps, for every poll, what its        *)
(* answers and its covered teammates say of who was in the game since it   *)
(* began, and each step is judged by it.                                   *)
(***************************************************************************)
EXTENDS ActiveSessions, FiniteSetTheorems, TLAPS

(***************************************************************************)
(* The invariant.                                                          *)
(***************************************************************************)

\* The task of w for p: only a player who was out of the game is asked about by his
\* teammates, and an answer tells of the time since the poll began.
TaskOK(w, p) ==
    w.task[p] # NoTask =>
      /\ w.phase \in {"stale", "candidates"}
      /\ w.phase = "candidates" => w.task[p].asks = p
      /\ w.task[p].asks # p => p \in w.out
      /\ w.task[p].answer.status = "active" =>
           w.task[p].asks \in w.in /\ w.task[p].answer.party \subseteq w.in
      /\ w.task[p].answer.status = "inactive" => w.task[p].asks \in w.out

PollOK(w) ==
    /\ w.phase \in {"stale", "candidates"} => InGame \subseteq w.in /\ Players \ InGame \subseteq w.out
    /\ \A p \in Players : TaskOK(w, p)
    /\ \A p \in Players : w.covered[p].status = "active" => p \in w.in
    /\ w.phase = "stale" => \A p \in Players : w.rows[p] = NoSession \/ w.rows[p].checked >= w.start - MaxAge
    /\ w.phase # "stale" => \A p \in Players : w.rows[p] = NoSession
    /\ w.phase \in {"none", "resolve"} => w.todo = {}

IInv == TypeOK /\ \A k \in Polls : PollOK(poll[k])

(***************************************************************************)
(* Records.                                                                *)
(***************************************************************************)

LEMMA BareTyped ==
    \A status \in {"pending", "active", "inactive", "privacyRestricted", "error", "disabled"} :
      Bare(status) \in Answer /\ Bare(status).status = status
BY DEF Bare, Answer

LEMMA NoSessionTyped == NoSession \in Session /\ NoSession.checked = 0 /\ NoSession.raid = FALSE
BY DEF NoSession, Session

LEMMA ProfileTyped ==
    \A p \in Players : /\ Profile(p) \in Answer
                       /\ Profile(p).status = IF doing[p] = "offline" THEN "inactive" ELSE "active"
                       /\ Profile(p).party \subseteq Players
                       /\ doing[p] # "offline" => Profile(p).party \subseteq InGame
<1> TAKE p \in Players
<1>1. CASE doing[p] = "offline"
  <2>1. Profile(p) = Bare("inactive")
    BY <1>1 DEF Profile
  <2> QED
    BY <1>1, <2>1, BareTyped DEF Answer
<1>2. CASE doing[p] # "offline"
  <2> DEFINE party == {q \in Players : doing[q] = doing[p]}
  <2>1. Profile(p) = [status |-> "active", raid |-> doing[p] = "raid", party |-> party]
    BY <1>2 DEF Profile
  <2>2. party \subseteq Players /\ party \subseteq InGame
    BY <1>2 DEF InGame
  <2> HIDE DEF party
  <2>3. (doing[p] = "raid") \in BOOLEAN
    OBVIOUS
  <2> QED
    BY <1>2, <2>1, <2>2, <2>3 DEF Answer
<1> QED
  BY <1>1, <1>2

LEMMA NoTaskTyped ==
    /\ NoTask \notin Task /\ NoTask.asks = NoPlayer
    /\ \A t \in Task : t # NoTask
BY SessionsAssumption DEF NoTask, Task

IsAsking(t, q, left, saw) == t = [Asking(q) EXCEPT !.left = left, !.sawError = saw]

LEMMA AskingTyped ==
    ASSUME NEW q \in Players, NEW left, left \subseteq Players, NEW saw, saw \in BOOLEAN,
           NEW t, IsAsking(t, q, left, saw)
    PROVE  t \in Task /\ t.asks = q /\ t.answer.status = "pending"
<1>1. Bare("pending") \in Answer /\ Bare("pending").status = "pending"
  BY BareTyped
<1>2. t = [asks |-> q, answer |-> Bare("pending"), left |-> left, sawError |-> saw]
  BY DEF Asking, IsAsking
<1>3. saw \in BOOLEAN /\ left \subseteq Players
  OBVIOUS
<1>4. [asks |-> q, answer |-> Bare("pending"), left |-> left, sawError |-> saw] \in Task
  BY <1>1, <1>3 DEF Task
<1>5. \A s : LET r == [asks |-> q, answer |-> Bare("pending"), left |-> left, sawError |-> s]
             IN  r.asks = q /\ r.answer = Bare("pending")
  OBVIOUS
<1>6. t.asks = q /\ t.answer = Bare("pending")
  BY ONLY <1>2, <1>5, Zenon
<1> QED
  BY <1>1, <1>2, <1>4, <1>6

LEMMA TeammatesAreMembers ==
    \A p, row : \A L \in TeammateChoices(p, row) : L \subseteq row.party
BY DEF TeammateChoices, kSubset

LEMMA NoWorkTyped ==
    /\ NoWork \in PollState /\ NoWork.phase = "none" /\ NoWork.start = 0
    /\ NoWork.batch = {} /\ NoWork.todo = {} /\ NoWork.met = {} /\ NoWork.in = {} /\ NoWork.out = {}
    /\ \A p \in Players : /\ NoWork.task[p] = NoTask /\ NoWork.rows[p] = NoSession
                          /\ NoWork.covered[p].status = "pending"
<1>1. Bare("pending") \in Answer /\ Bare("pending").status = "pending" /\ NoSession \in Session
  BY BareTyped, NoSessionTyped
<1> QED
  BY <1>1 DEF NoWork, PollState

LEMMA PollStateFields ==
    \A v \in PollState :
      /\ v.phase \in {"none", "stale", "candidates", "resolve"} /\ v.start \in Nat
      /\ v.rows \in [Players -> Session] /\ v.batch \subseteq Players /\ v.todo \subseteq Players
      /\ v.task \in [Players -> Task \cup {NoTask}] /\ v.covered \in [Players -> Answer]
      /\ v.met \subseteq Players /\ v.in \subseteq Players /\ v.out \subseteq Players
BY DEF PollState

\* A row that was written is none that is missing: it has a time.
LEMMA RowTyped ==
    ASSUME now \in 1 .. MaxTime, NEW a \in Answer
    PROVE  LET row == [raid |-> a.raid, party |-> a.party, checked |-> now]
           IN  row \in Session /\ row # NoSession
<1>1. now \in Nat /\ now # 0
  OBVIOUS
<1> QED
  BY <1>1 DEF Answer, Session, NoSession

\* FS_SUBSET counts the subsets of an interval.
LEMMA PowerOfTwo == \A n \in Nat : 2 ^ n \in Nat
<1> TAKE n \in Nat
<1>1. IsFiniteSet(1 .. n) /\ Cardinality(1 .. n) = n
  BY FS_Interval
<1>2. IsFiniteSet(SUBSET (1 .. n)) /\ Cardinality(SUBSET (1 .. n)) = 2 ^ n
  BY <1>1, FS_SUBSET
<1> QED
  BY <1>2, FS_CardinalityType

(***************************************************************************)
(* What a worker makes of its poll.                                        *)
(***************************************************************************)

\* Poll k becomes w by the work on p.
IsWork(k, p, w) ==
    /\ poll' = [poll EXCEPT ![k] = w] /\ w \in PollState
    /\ w.phase = poll[k].phase /\ w.start = poll[k].start /\ w.rows = poll[k].rows /\ w.in = poll[k].in
    /\ poll[k].out \subseteq w.out /\ w.todo \subseteq poll[k].todo
    /\ \A q \in Players \ {p} : w.task[q] = poll[k].task[q]
    /\ \A q \in Players : w.covered[q] = poll[k].covered[q] \/ q \in w.in

PollsOK ==
    /\ poll \in [Polls -> PollState] /\ \A k \in Polls : PollOK(poll[k])
    /\ current \in 0 .. MaxPolls /\ (current # 0 => poll[current].phase # "none")

LEMMA WorkKeeps ==
    ASSUME IInv, NEW k \in Polls, NEW p \in Players, NEW w, IsWork(k, p, w), TaskOK(w, p),
           UNCHANGED <<doing, current>>
    PROVE  PollsOK'
<1>1. PICK v \in PollState : v = poll[k] /\ PollOK(v)
  BY DEF IInv, TypeOK
<1>2. /\ w \in PollState /\ w.phase = v.phase /\ w.start = v.start /\ w.rows = v.rows /\ w.in = v.in
      /\ v.out \subseteq w.out /\ w.todo \subseteq v.todo
      /\ \A q \in Players \ {p} : w.task[q] = v.task[q]
      /\ \A q \in Players : w.covered[q] = v.covered[q] \/ q \in w.in
  BY <1>1 DEF IsWork
<1>3. \A q \in Players : TaskOK(w, q)
  <2> TAKE q \in Players
  <2>1. CASE q = p
    BY <2>1
  <2>2. CASE q # p
    <3>1. TaskOK(v, q)
      BY <1>1 DEF PollOK
    <3> QED
      BY <2>2, <1>2, <3>1 DEF TaskOK
  <2> QED
    BY <2>1, <2>2
<1>4. PollOK(w)
  BY <1>1, <1>2, <1>3 DEF PollOK
<1>5. poll' \in [Polls -> PollState] /\ poll'[k] = w /\ \A j \in Polls \ {k} : poll'[j] = poll[j]
  BY <1>2 DEF IInv, TypeOK, IsWork
<1>6. \A x : PollOK(x)' <=> PollOK(x)
  BY DEF PollOK, InGame, TaskOK
<1>7. \A j \in Polls : PollOK(poll[j])'
  <2> TAKE j \in Polls
  <2>1. PICK x \in PollState : x = poll'[j]
    BY <1>5
  <2>2. PollOK(x)
    BY <1>4, <1>5, <2>1 DEF IInv
  <2> QED
    BY <1>6, <2>1, <2>2 DEF PollOK, TaskOK, InGame
<1>8. current' # 0 => poll'[current'].phase # "none"
  BY <1>1, <1>2, <1>5 DEF IInv, TypeOK, Polls
<1> QED
  BY <1>5, <1>7, <1>8 DEF PollsOK, IInv, TypeOK

(***************************************************************************)
(* How a step is judged: what poll k does to the tables has its reason in  *)
(* the histories of poll k.                                                *)
(***************************************************************************)

Judged(k) ==
    /\ \A j \in Polls \ {k} : poll'[j] = poll[j]
    /\ \A p \in Players : session[p] # NoSession /\ session'[p] = NoSession =>
          p \in OutOf(k) \/ session[p].checked < poll[k].start - MaxAge
    /\ \A p \in Players : session'[p] # session[p] /\ session'[p] # NoSession => p \in poll[k].in
    /\ \A p \in Players : check'[p].eligible > check[p].eligible => By(k) /\ p \in OutOf(k)
    /\ \A p \in Players : session[p].raid /\ session'[p] = NoSession /\ poll[k].rows[p] = session[p] =>
          {p} \cup (session[p].party \cap known) \subseteq queued'

TablesOK ==
    /\ known \subseteq Players /\ queued \subseteq Players
    /\ session \in [Players -> Session]
    /\ check \in [Players -> [eligible : Nat, misses : Nat]]

\* What each step of a poll does: the invariant of the polls and of the tables holds
\* after it, and it is judged by the poll that takes it.
GoodStep(k) == PollsOK' /\ TablesOK' /\ Judged(k)

LEMMA QuietIsJudged ==
    ASSUME IInv, NEW k \in Polls, UNCHANGED <<session, check>>,
           \A j \in Polls \ {k} : poll'[j] = poll[j]
    PROVE  Judged(k)
<1>1. session \in [Players -> Session] /\ check \in [Players -> [eligible : Nat, misses : Nat]]
  BY DEF IInv, TypeOK
<1>2. \A p \in Players : ~(check[p].eligible > check[p].eligible)
  BY <1>1
<1>3. \A p \in Players : ~(session[p].raid /\ session[p] = NoSession)
  BY NoSessionTyped
<1> QED
  BY <1>2, <1>3 DEF Judged

\* What a task may go on with.
LEMMA OutcomeFacts ==
    ASSUME IInv, NEW k \in Polls, NEW p \in Players, NEW phase, NEW a \in Outcomes(k, p, phase)
    PROVE  /\ poll[k].phase = phase /\ phase \in {"stale", "candidates"}
           /\ a \in Answer /\ poll[k].task[p] \in Task
           /\ poll[k].task[p].asks \in Players
           /\ phase = "candidates" => poll[k].task[p].asks = p
           /\ poll[k].task[p].asks # p => p \in poll[k].out
           /\ a.status = "active" =>
                poll[k].task[p].asks \in poll[k].in /\ a.party \subseteq poll[k].in
           /\ OutAfter(k, p, a) \subseteq Players /\ poll[k].out \subseteq OutAfter(k, p, a)
           /\ a.status \in {"inactive", "privacyRestricted"} => poll[k].task[p].asks \in OutAfter(k, p, a)
<1>1. PICK v \in PollState : v = poll[k] /\ PollOK(v)
  BY DEF IInv, TypeOK
<1>2. PICK t \in Task : t = v.task[p]
  BY <1>1, PollStateFields DEF Outcomes
<1>3. v.phase = phase /\ t # NoTask /\ TaskOK(v, p)
  BY <1>1, <1>2 DEF Outcomes, PollOK
<1>4. t.asks \in Players /\ t.answer \in Answer
  BY <1>2 DEF Task
<1>5. /\ phase \in {"stale", "candidates"}
      /\ phase = "candidates" => t.asks = p
      /\ t.asks # p => p \in v.out
      /\ t.answer.status = "active" => t.asks \in v.in /\ t.answer.party \subseteq v.in
      /\ t.answer.status = "inactive" => t.asks \in v.out
  BY <1>2, <1>3 DEF TaskOK
<1>6. a = t.answer \/ a \in {Bare("privacyRestricted"), Bare("error"), Bare("disabled")}
  BY <1>1, <1>2 DEF Outcomes
<1>7. /\ a \in Answer
      /\ a = t.answer \/ a.status \in {"privacyRestricted", "error", "disabled"}
  BY <1>4, <1>6, BareTyped
<1>8. v.out \subseteq Players
  BY PollStateFields
<1>9. OutAfter(k, p, a) = IF a.status = "privacyRestricted" THEN v.out \cup {t.asks} ELSE v.out
  BY <1>1, <1>2 DEF OutAfter
<1>10. OutAfter(k, p, a) \subseteq Players /\ v.out \subseteq OutAfter(k, p, a)
  BY <1>4, <1>8, <1>9
<1>11. a.status \in {"inactive", "privacyRestricted"} => t.asks \in OutAfter(k, p, a)
  BY <1>5, <1>7, <1>9
<1>12. a.status = "active" => t.asks \in v.in /\ a.party \subseteq v.in
  BY <1>5, <1>7
<1> QED
  BY <1>1, <1>2, <1>3, <1>4, <1>5, <1>7, <1>10, <1>11, <1>12

\* A worker leaves the task of p, or turns to the next teammate.
SetsTask(k, p, t, out) == poll' = [poll EXCEPT ![k].task[p] = t, ![k].out = out]

LEMMA TaskAndOut ==
    ASSUME IInv, NEW k \in Polls, NEW p \in Players, NEW t \in Task \cup {NoTask},
           NEW out, out \subseteq Players, poll[k].out \subseteq out, SetsTask(k, p, t, out),
           t # NoTask => /\ poll[k].phase = "stale" /\ t.answer.status = "pending"
                         /\ p \in out,
           UNCHANGED <<doing, current>>
    PROVE  PollsOK' /\ (\A j \in Polls \ {k} : poll'[j] = poll[j]) /\ poll'[k].out = out
           /\ poll'[k].task[p] = t
<1>1. PICK v \in PollState : v = poll[k]
  BY DEF IInv, TypeOK
<1>2. poll \in [Polls -> PollState]
  BY DEF IInv, TypeOK
<1> DEFINE task == [v.task EXCEPT ![p] = t]
<1>3. PICK w : w = [v EXCEPT !.task = task, !.out = out]
  OBVIOUS
<1>4. poll' = [poll EXCEPT ![k] = w]
  BY <1>1, <1>2, <1>3 DEF SetsTask
<1>5. v.task \in [Players -> Task \cup {NoTask}]
  BY PollStateFields
<1>6. task \in [Players -> Task \cup {NoTask}] /\ task[p] = t /\ \A q \in Players \ {p} : task[q] = v.task[q]
  BY <1>5
<1> HIDE DEF task
<1>7. w \in PollState
  BY <1>3, <1>6 DEF PollState
<1>8. /\ w.phase = v.phase /\ w.start = v.start /\ w.rows = v.rows /\ w.in = v.in /\ w.out = out
      /\ w.task = task /\ w.covered = v.covered /\ w.todo \subseteq v.todo
  BY <1>3 DEF PollState
<1>10. IsWork(k, p, w) /\ w.task[p] = t /\ w.out = out
  BY <1>1, <1>4, <1>6, <1>7, <1>8 DEF IsWork
<1>11. TaskOK(w, p)
  BY <1>10 DEF TaskOK, IsWork
<1>12. PollsOK'
  BY <1>10, <1>11, WorkKeeps
<1> QED
  BY <1>2, <1>4, <1>7, <1>10, <1>12

LEMMA FinishIsWork ==
    ASSUME IInv, NEW k \in Polls, NEW p \in Players, NEW phase, NEW a \in Outcomes(k, p, phase),
           Finish(k, p, a), UNCHANGED <<doing, current>>
    PROVE  PollsOK' /\ (\A j \in Polls \ {k} : poll'[j] = poll[j])
           /\ poll'[k].out = OutAfter(k, p, a) /\ By(k)
<1>1. /\ OutAfter(k, p, a) \subseteq Players /\ poll[k].out \subseteq OutAfter(k, p, a)
      /\ poll[k].phase = phase /\ phase \in {"stale", "candidates"} /\ poll[k].task[p] \in Task
  BY OutcomeFacts
<1>2. PICK out : out = OutAfter(k, p, a)
  OBVIOUS
<1>3. PICK t \in Task \cup {NoTask} : t = NoTask
  OBVIOUS
<1>4. SetsTask(k, p, t, out) /\ out \subseteq Players /\ poll[k].out \subseteq out
  BY <1>1, <1>2, <1>3 DEF Finish, SetsTask
<1>5. PollsOK' /\ (\A j \in Polls \ {k} : poll'[j] = poll[j]) /\ poll'[k].out = out /\ poll'[k].task[p] = t
  BY <1>4, <1>3, TaskAndOut
<1>6. By(k)
  BY <1>1, <1>3, <1>5, NoTaskTyped DEF By
<1> QED
  BY <1>2, <1>5, <1>6

\* The tables.
LEMMA UpsertWrites ==
    ASSUME IInv, NEW p \in Players, NEW a \in Answer, Upsert(p, a)
    PROVE  /\ session' \in [Players -> Session] /\ session'[p] # NoSession
           /\ \A q \in Players \ {p} : session'[q] = session[q]
<1>1. session \in [Players -> Session] /\ now \in 1 .. MaxTime
  BY DEF IInv, TypeOK
<1>2. PICK row \in Session : row = [raid |-> a.raid, party |-> a.party, checked |-> now] /\ row # NoSession
  BY <1>1, RowTyped
<1>3. session' = [session EXCEPT ![p] = row]
  BY <1>2 DEF Upsert
<1> QED
  BY <1>1, <1>2, <1>3

LEMMA EnqueueQueues ==
    ASSUME IInv, NEW p \in Players, NEW row, EnqueueEnded(p, row)
    PROVE  /\ queued' \subseteq Players
           /\ row.raid => {p} \cup (row.party \cap known) \subseteq queued'
BY DEF EnqueueEnded, IInv, TypeOK

LEMMA ChecksTyped ==
    ASSUME IInv, NEW p \in Players, Online(p) \/ Offline(p) \/ Hidden(p)
    PROVE  /\ check' \in [Players -> [eligible : Nat, misses : Nat]]
           /\ \A q \in Players \ {p} : check'[q] = check[q]
           /\ Online(p) => ~(check'[p].eligible > check[p].eligible)
<1>1. PICK c \in [eligible : Nat, misses : Nat] : c = check[p]
  BY DEF IInv, TypeOK
<1>2. check \in [Players -> [eligible : Nat, misses : Nat]] /\ now \in Nat
  BY DEF IInv, TypeOK
<1>3. CASE Online(p)
  <2>1. check' = [check EXCEPT ![p] = [eligible |-> 0, misses |-> 0]]
    BY <1>3 DEF Online
  <2>2. check'[p].eligible = 0
    BY <1>2, <2>1
  <2>3. ~(check'[p].eligible > check[p].eligible)
    BY <1>1, <2>2
  <2> QED
    BY <1>2, <2>1, <2>3
<1>4. CASE Offline(p)
  <2>1. 2 ^ c.misses \in Nat
    BY <1>1, PowerOfTwo
  <2>2. PICK n \in Nat : n = 2 ^ c.misses
    BY <2>1
  <2>3. OfflineBase * n \in Nat /\ OfflineCap \in Nat /\ MaxShift \in Nat /\ c.misses + 1 \in Nat
    BY <1>1, SessionsAssumption
  <2>4. Least(OfflineCap, OfflineBase * n) \in Nat
    BY <2>3 DEF Least
  <2>5. PICK e \in Nat : e = now + Least(OfflineCap, OfflineBase * n)
    BY <1>2, <2>4
  <2>6. PICK m \in Nat : m = Least(c.misses + 1, MaxShift)
    BY <2>3 DEF Least
  <2>7. check' = [check EXCEPT ![p] = [eligible |-> e, misses |-> m]]
    BY <1>1, <1>2, <1>4, <2>2, <2>5, <2>6 DEF Offline
  <2>8. Online(p) => ~(check'[p].eligible > check[p].eligible)
    BY <1>3
  <2> QED
    BY <1>2, <2>7, <2>8
<1>5. CASE Hidden(p)
  <2>1. PICK e \in Nat : e = now + PrivacyBackoff
    BY <1>2, SessionsAssumption
  <2>2. check' = [check EXCEPT ![p] = [c EXCEPT !.eligible = e]]
    BY <1>1, <1>2, <1>5, <2>1 DEF Hidden
  <2>3. [c EXCEPT !.eligible = e] \in [eligible : Nat, misses : Nat]
    BY <1>1
  <2>4. Online(p) => ~(check'[p].eligible > check[p].eligible)
    BY <1>3
  <2> QED
    BY <1>2, <2>2, <2>3, <2>4
<1> QED
  BY <1>3, <1>4, <1>5

(***************************************************************************)
(* The steps of a worker.                                                  *)
(***************************************************************************)

LEMMA AnchorActiveIsGood ==
    ASSUME IInv, NEW k \in Polls, NEW p \in Players, AnchorActive(k, p)
    PROVE  GoodStep(k)
<1>1. PICK a \in Outcomes(k, p, "stale") :
        /\ poll[k].task[p].asks = p /\ a.status = "active"
        /\ Upsert(p, a) /\ Finish(k, p, a)
        /\ UNCHANGED <<known, check, queued, world, current, wakes, paused>>
  BY DEF AnchorActive
<1>2. a \in Answer /\ p \in poll[k].in
  BY <1>1, OutcomeFacts
<1>3. /\ session' \in [Players -> Session] /\ session'[p] # NoSession
      /\ \A q \in Players \ {p} : session'[q] = session[q]
  BY <1>1, <1>2, UpsertWrites
<1>4. PollsOK' /\ \A j \in Polls \ {k} : poll'[j] = poll[j]
  BY <1>1, FinishIsWork DEF world
<1>5. TablesOK'
  BY <1>1, <1>3 DEF TablesOK, IInv, TypeOK
<1>6. check \in [Players -> [eligible : Nat, misses : Nat]]
  BY DEF IInv, TypeOK
<1>7. \A q \in Players : ~(check'[q].eligible > check[q].eligible)
  BY <1>1, <1>6
<1>8. \A q \in Players : session'[q] = NoSession => session[q] = NoSession
  BY <1>3
<1>9. Judged(k)
  BY <1>2, <1>3, <1>4, <1>7, <1>8, NoSessionTyped DEF Judged
<1> QED
  BY <1>4, <1>5, <1>9 DEF GoodStep

LEMMA TeammateActiveIsGood ==
    ASSUME IInv, NEW k \in Polls, NEW p \in Players, TeammateActive(k, p)
    PROVE  GoodStep(k)
<1>1. PICK a \in Outcomes(k, p, "stale") :
        /\ poll[k].task[p].asks # p /\ a.status = "active"
        /\ session' = [session EXCEPT
              ![poll[k].task[p].asks] = [raid |-> a.raid, party |-> a.party, checked |-> now],
              ![p] = NoSession]
        /\ EnqueueEnded(p, poll[k].rows[p])
        /\ Finish(k, p, a)
        /\ UNCHANGED <<known, check, world, current, wakes, paused>>
  BY DEF TeammateActive
<1>2. /\ a \in Answer /\ poll[k].task[p].asks \in Players
      /\ poll[k].task[p].asks \in poll[k].in /\ p \in poll[k].out
      /\ poll[k].out \subseteq OutAfter(k, p, a)
  BY <1>1, OutcomeFacts
<1>3. PICK q \in Players : q = poll[k].task[p].asks
  BY <1>2
<1>4. session \in [Players -> Session] /\ now \in 1 .. MaxTime
  BY DEF IInv, TypeOK
<1>5. PICK row \in Session : row = [raid |-> a.raid, party |-> a.party, checked |-> now] /\ row # NoSession
  BY <1>2, <1>4, RowTyped
<1>6. session' = [session EXCEPT ![q] = row, ![p] = NoSession]
  BY <1>1, <1>3, <1>5
<1>7. /\ session' \in [Players -> Session] /\ session'[q] # NoSession /\ session'[p] = NoSession
      /\ \A r \in Players \ {p, q} : session'[r] = session[r]
  BY <1>1, <1>3, <1>4, <1>5, <1>6, NoSessionTyped
<1>8. PollsOK' /\ (\A j \in Polls \ {k} : poll'[j] = poll[j]) /\ poll'[k].out = OutAfter(k, p, a)
  BY <1>1, FinishIsWork DEF world
<1>9. /\ queued' \subseteq Players
      /\ poll[k].rows[p].raid => {p} \cup (poll[k].rows[p].party \cap known) \subseteq queued'
  BY <1>1, EnqueueQueues
<1>10. TablesOK'
  BY <1>1, <1>7, <1>9 DEF TablesOK, IInv, TypeOK
<1>11. check \in [Players -> [eligible : Nat, misses : Nat]]
  BY DEF IInv, TypeOK
<1>12. \A r \in Players : ~(check'[r].eligible > check[r].eligible)
  BY <1>1, <1>11
<1>13. \A r \in Players \ {p} : session'[r] = NoSession => session[r] = NoSession
  BY <1>7
<1>14. p \in OutOf(k)
  BY <1>2 DEF OutOf
<1>15. \A r \in Players : session[r].raid /\ session'[r] = NoSession /\ poll[k].rows[r] = session[r] =>
          {r} \cup (session[r].party \cap known) \subseteq queued'
  BY <1>9, <1>13, NoSessionTyped
<1>16. \A r \in Players : session'[r] # session[r] /\ session'[r] # NoSession => r \in poll[k].in
  BY <1>2, <1>3, <1>7
<1>17. Judged(k)
  BY <1>8, <1>12, <1>13, <1>14, <1>15, <1>16 DEF Judged
<1> QED
  BY <1>8, <1>10, <1>17 DEF GoodStep

LEMMA AnchorErrorIsGood ==
    ASSUME IInv, NEW k \in Polls, NEW p \in Players, AnchorError(k, p)
    PROVE  GoodStep(k)
<1>1. PICK a \in Outcomes(k, p, "stale") :
        /\ Finish(k, p, a)
        /\ UNCHANGED <<database, world, current, wakes, paused>>
  BY DEF AnchorError
<1>2. PollsOK' /\ \A j \in Polls \ {k} : poll'[j] = poll[j]
  BY <1>1, FinishIsWork DEF world
<1>3. TablesOK'
  BY <1>1 DEF TablesOK, IInv, TypeOK, database
<1>4. Judged(k)
  BY <1>1, <1>2, QuietIsJudged DEF database
<1> QED
  BY <1>2, <1>3, <1>4 DEF GoodStep

LEMMA NextProbeIsGood ==
    ASSUME IInv, NEW k \in Polls, NEW p \in Players, NextProbe(k, p)
    PROVE  GoodStep(k)
<1>1. PICK a \in NoSigns(k, p), q \in poll[k].task[p].left :
        /\ poll' = [poll EXCEPT
              ![k].task[p] = [Asking(q) EXCEPT !.left = poll[k].task[p].left \ {q},
                                               !.sawError = SawError(k, p, a)],
              ![k].out = OutAfter(k, p, a)]
        /\ UNCHANGED <<database, world, current, wakes, paused>>
  BY DEF NextProbe
<1>2. /\ a \in Outcomes(k, p, "stale")
      /\ \/ a.status \in {"inactive", "privacyRestricted"}
         \/ a.status = "error" /\ poll[k].task[p].asks # p
  BY <1>1 DEF NoSigns
<1>3. /\ poll[k].phase = "stale" /\ poll[k].task[p] \in Task
      /\ OutAfter(k, p, a) \subseteq Players /\ poll[k].out \subseteq OutAfter(k, p, a)
      /\ poll[k].task[p].asks # p => p \in poll[k].out
      /\ a.status \in {"inactive", "privacyRestricted"} => poll[k].task[p].asks \in OutAfter(k, p, a)
  BY <1>2, OutcomeFacts
<1>4. p \in OutAfter(k, p, a)
  BY <1>2, <1>3
<1>5. poll[k].task[p].left \subseteq Players /\ q \in Players
  BY <1>1, <1>3 DEF Task
<1>6. PICK left \in SUBSET Players : left = poll[k].task[p].left \ {q}
  BY <1>5
<1>7. poll[k].task[p].sawError \in BOOLEAN
  BY <1>3 DEF Task
<1>8. SawError(k, p, a) \in BOOLEAN
  BY <1>7, Zenon DEF SawError
<1>9. PICK saw \in BOOLEAN : saw = SawError(k, p, a)
  BY <1>8
<1>10. PICK t : t = [Asking(q) EXCEPT !.left = left, !.sawError = saw]
  OBVIOUS
<1>11. t \in Task /\ t.answer.status = "pending"
  <2>1. IsAsking(t, q, left, saw)
    BY <1>10 DEF IsAsking
  <2> QED
    BY <1>5, <2>1, AskingTyped
<1>12. PICK out : out = OutAfter(k, p, a)
  OBVIOUS
<1>13. SetsTask(k, p, t, out)
  BY <1>1, <1>6, <1>9, <1>10, <1>12 DEF SetsTask
<1>14. PollsOK' /\ (\A j \in Polls \ {k} : poll'[j] = poll[j])
  BY <1>1, <1>3, <1>4, <1>11, <1>12, <1>13, TaskAndOut DEF world
<1>15. TablesOK'
  BY <1>1 DEF TablesOK, IInv, TypeOK, database
<1>16. Judged(k)
  BY <1>1, <1>14, QuietIsJudged DEF database
<1> QED
  BY <1>14, <1>15, <1>16 DEF GoodStep

LEMMA ConcludeIsGood ==
    ASSUME IInv, NEW k \in Polls, NEW p \in Players, Conclude(k, p)
    PROVE  GoodStep(k)
<1>1. PICK a \in NoSigns(k, p) :
        /\ IF SawError(k, p, a)
           THEN UNCHANGED <<session, queued>>
           ELSE Delete(p) /\ EnqueueEnded(p, poll[k].rows[p])
        /\ Finish(k, p, a)
        /\ UNCHANGED <<known, check, world, current, wakes, paused>>
  BY DEF Conclude
<1>2. /\ a \in Outcomes(k, p, "stale")
      /\ \/ a.status \in {"inactive", "privacyRestricted"}
         \/ a.status = "error" /\ poll[k].task[p].asks # p
  BY <1>1 DEF NoSigns
<1>3. /\ poll[k].out \subseteq OutAfter(k, p, a)
      /\ poll[k].task[p].asks # p => p \in poll[k].out
      /\ a.status \in {"inactive", "privacyRestricted"} => poll[k].task[p].asks \in OutAfter(k, p, a)
  BY <1>2, OutcomeFacts
<1>4. PollsOK' /\ (\A j \in Polls \ {k} : poll'[j] = poll[j]) /\ poll'[k].out = OutAfter(k, p, a)
  BY <1>1, <1>2, FinishIsWork DEF world
<1>5. CASE SawError(k, p, a)
  <2>1. UNCHANGED <<session, queued, known, check>>
    BY <1>1, <1>5
  <2>2. TablesOK'
    BY <2>1 DEF TablesOK, IInv, TypeOK
  <2>3. Judged(k)
    BY <1>4, <2>1, QuietIsJudged
  <2> QED
    BY <1>4, <2>2, <2>3 DEF GoodStep
<1>6. CASE ~SawError(k, p, a)
  <2>1. Delete(p) /\ EnqueueEnded(p, poll[k].rows[p])
    BY <1>1, <1>6
  <2>2. p \in OutOf(k)
    BY <1>2, <1>3, <1>4 DEF OutOf
  <2>3. session \in [Players -> Session]
    BY DEF IInv, TypeOK
  <2>4. /\ session' \in [Players -> Session] /\ session'[p] = NoSession
        /\ \A q \in Players \ {p} : session'[q] = session[q]
    BY <2>1, <2>3, NoSessionTyped DEF Delete
  <2>5. /\ queued' \subseteq Players
        /\ poll[k].rows[p].raid => {p} \cup (poll[k].rows[p].party \cap known) \subseteq queued'
    BY <2>1, EnqueueQueues
  <2>6. TablesOK'
    BY <1>1, <2>4, <2>5 DEF TablesOK, IInv, TypeOK
  <2>7. check \in [Players -> [eligible : Nat, misses : Nat]]
    BY DEF IInv, TypeOK
  <2>8. \A q \in Players : ~(check'[q].eligible > check[q].eligible)
    BY <1>1, <2>7
  <2>9. \A q \in Players : session[q].raid /\ session'[q] = NoSession => q = p
    BY <2>4, NoSessionTyped
  <2>10. Judged(k)
    BY <1>4, <2>2, <2>4, <2>5, <2>8, <2>9 DEF Judged
  <2> QED
    BY <1>4, <2>6, <2>10 DEF GoodStep
<1> QED
  BY <1>5, <1>6

LEMMA CandidateGoneIsGood ==
    ASSUME IInv, NEW k \in Polls, NEW p \in Players, CandidateGone(k, p)
    PROVE  GoodStep(k)
<1>1. PICK a \in Outcomes(k, p, "candidates") :
        /\ \/ a.status = "inactive" /\ Offline(p)
           \/ a.status = "privacyRestricted" /\ Hidden(p)
           \/ a.status = "error" /\ UNCHANGED check
        /\ Finish(k, p, a)
        /\ UNCHANGED <<known, session, queued, world, current, wakes, paused>>
  BY DEF CandidateGone
<1>2. PollsOK' /\ (\A j \in Polls \ {k} : poll'[j] = poll[j]) /\ poll'[k].out = OutAfter(k, p, a) /\ By(k)
  BY <1>1, FinishIsWork DEF world
<1>3. /\ poll[k].task[p].asks = p
      /\ a.status \in {"inactive", "privacyRestricted"} => poll[k].task[p].asks \in OutAfter(k, p, a)
  BY <1>1, OutcomeFacts
<1>4. check \in [Players -> [eligible : Nat, misses : Nat]]
  BY DEF IInv, TypeOK
<1>5. /\ check' \in [Players -> [eligible : Nat, misses : Nat]]
      /\ \A q \in Players \ {p} : check'[q] = check[q]
  BY <1>1, <1>4, ChecksTyped
<1>6. TablesOK'
  BY <1>1, <1>5 DEF TablesOK, IInv, TypeOK
<1>7. \A q \in Players : ~(session[q].raid /\ session[q] = NoSession)
  BY NoSessionTyped
<1>8. \A q \in Players : check'[q].eligible > check[q].eligible => By(k) /\ q \in OutOf(k)
  <2> SUFFICES ASSUME NEW q \in Players, check'[q].eligible > check[q].eligible
               PROVE  By(k) /\ q \in OutOf(k)
    OBVIOUS
  <2>1. ~(check[q].eligible > check[q].eligible)
    BY <1>4
  <2>2. q = p /\ a.status \in {"inactive", "privacyRestricted"}
    BY <1>1, <1>5, <2>1
  <2> QED
    BY <1>2, <1>3, <2>2 DEF OutOf
<1>9. Judged(k)
  BY <1>1, <1>2, <1>7, <1>8 DEF Judged
<1> QED
  BY <1>2, <1>6, <1>9 DEF GoodStep

\* An upsert that clears the backoff is judged by who was in the game.
LEMMA UpsertIsJudged ==
    ASSUME IInv, NEW k \in Polls, NEW p \in Players, NEW a \in Answer, Upsert(p, a), Online(p),
           p \in poll[k].in, \A j \in Polls \ {k} : poll'[j] = poll[j], UNCHANGED <<known, queued>>
    PROVE  TablesOK' /\ Judged(k)
<1>1. /\ session' \in [Players -> Session] /\ session'[p] # NoSession
      /\ \A q \in Players \ {p} : session'[q] = session[q]
  BY UpsertWrites
<1>2. /\ check' \in [Players -> [eligible : Nat, misses : Nat]]
      /\ \A q \in Players \ {p} : check'[q] = check[q]
      /\ ~(check'[p].eligible > check[p].eligible)
  BY ChecksTyped
<1>3. TablesOK'
  BY <1>1, <1>2 DEF TablesOK, IInv, TypeOK
<1>4. check \in [Players -> [eligible : Nat, misses : Nat]]
  BY DEF IInv, TypeOK
<1>5. \A q \in Players : ~(check'[q].eligible > check[q].eligible)
  BY <1>2, <1>4
<1>6. \A q \in Players : session'[q] = NoSession => session[q] = NoSession
  BY <1>1
<1>7. Judged(k)
  BY <1>1, <1>5, <1>6, NoSessionTyped DEF Judged
<1> QED
  BY <1>3, <1>7

LEMMA TakeCoveredIsGood ==
    ASSUME IInv, NEW k \in Polls, NEW p \in Players, TakeCovered(k, p)
    PROVE  GoodStep(k)
<1>1. PICK v \in PollState : v = poll[k] /\ PollOK(v)
  BY DEF IInv, TypeOK
<1>2. /\ v.covered[p].status = "active" /\ Upsert(p, v.covered[p]) /\ Online(p)
      /\ poll' = [poll EXCEPT ![k].todo = @ \ {p}]
      /\ UNCHANGED <<known, queued, doing, current>>
  BY <1>1 DEF TakeCovered, world
<1>3. PICK w : w = [v EXCEPT !.todo = v.todo \ {p}]
  OBVIOUS
<1>4. poll \in [Polls -> PollState]
  BY DEF IInv, TypeOK
<1>5. poll' = [poll EXCEPT ![k] = w]
  BY <1>1, <1>2, <1>3, <1>4
<1>6. w \in PollState
  BY <1>3 DEF PollState
<1>7. /\ w.phase = v.phase /\ w.start = v.start /\ w.rows = v.rows /\ w.in = v.in /\ w.out = v.out
      /\ w.task = v.task /\ w.covered = v.covered /\ w.todo \subseteq v.todo
  BY <1>3 DEF PollState
<1>8. IsWork(k, p, w)
  BY <1>1, <1>5, <1>6, <1>7 DEF IsWork
<1>9. TaskOK(v, p)
  BY <1>1 DEF PollOK
<1>10. TaskOK(w, p)
  BY <1>7, <1>9 DEF TaskOK
<1>11. PollsOK'
  BY <1>2, <1>8, <1>10, WorkKeeps
<1>12. PICK a \in Answer : a = v.covered[p]
  BY PollStateFields
<1>13. p \in poll[k].in
  BY <1>1, <1>2 DEF PollOK
<1>14. \A j \in Polls \ {k} : poll'[j] = poll[j]
  BY <1>4, <1>5
<1>15. TablesOK' /\ Judged(k)
  BY <1>2, <1>12, <1>13, <1>14, UpsertIsJudged
<1> QED
  BY <1>11, <1>15 DEF GoodStep

LEMMA CandidateActiveIsGood ==
    ASSUME IInv, NEW k \in Polls, NEW p \in Players, CandidateActive(k, p)
    PROVE  GoodStep(k)
<1>1. PICK a \in Outcomes(k, p, "candidates") :
        /\ a.status = "active" /\ Upsert(p, a) /\ Online(p)
        /\ poll' = [poll EXCEPT ![k].task[p] = NoTask, ![k].met = @ \cup a.party,
                                ![k].covered = Covers(k, p, a)]
        /\ UNCHANGED <<known, queued, doing, current>>
  BY DEF CandidateActive, world
<1>2. /\ a \in Answer /\ poll[k].task[p].asks = p
      /\ poll[k].task[p].asks \in poll[k].in /\ a.party \subseteq poll[k].in
  BY <1>1, OutcomeFacts
<1>3. PICK v \in PollState : v = poll[k] /\ PollOK(v)
  BY DEF IInv, TypeOK
<1> DEFINE task == [v.task EXCEPT ![p] = NoTask]
           covered == Covers(k, p, a)
           met == v.met \cup a.party
<1>4. v.task \in [Players -> Task \cup {NoTask}] /\ v.covered \in [Players -> Answer] /\ v.met \subseteq Players
  BY PollStateFields
<1>5. task \in [Players -> Task \cup {NoTask}] /\ task[p] = NoTask /\ \A q \in Players \ {p} : task[q] = v.task[q]
  BY <1>4
<1>6. /\ covered \in [Players -> Answer]
      /\ \A q \in Players : covered[q] = v.covered[q] \/ q \in v.in
  BY <1>2, <1>3, <1>4 DEF Covers
<1>7. met \subseteq Players
  BY <1>2, <1>4 DEF Answer
<1>8. PICK w : w = [v EXCEPT !.task = task, !.met = met, !.covered = covered]
  OBVIOUS
<1>9. poll \in [Polls -> PollState]
  BY DEF IInv, TypeOK
<1>10. poll' = [poll EXCEPT ![k] = w]
  BY <1>1, <1>3, <1>8, <1>9
<1> HIDE DEF task, covered, met
<1>11. w \in PollState
  BY <1>5, <1>6, <1>7, <1>8 DEF PollState
<1>12. /\ w.phase = v.phase /\ w.start = v.start /\ w.rows = v.rows /\ w.in = v.in /\ w.out = v.out
       /\ w.task = task /\ w.covered = covered /\ w.todo \subseteq v.todo
  BY <1>8 DEF PollState
<1>13. IsWork(k, p, w)
  BY <1>3, <1>5, <1>6, <1>10, <1>11, <1>12 DEF IsWork
<1>14. TaskOK(w, p)
  BY <1>5, <1>12 DEF TaskOK
<1>15. PollsOK'
  BY <1>1, <1>13, <1>14, WorkKeeps
<1>16. \A j \in Polls \ {k} : poll'[j] = poll[j]
  BY <1>9, <1>10
<1>17. TablesOK' /\ Judged(k)
  BY <1>1, <1>2, <1>16, UpsertIsJudged
<1> QED
  BY <1>15, <1>17 DEF GoodStep

LEMMA TakeIsGood ==
    ASSUME IInv, NEW k \in Polls, NEW p \in Players, Take(k, p)
    PROVE  GoodStep(k)
<1>1. PICK v \in PollState : v = poll[k] /\ PollOK(v)
  BY DEF IInv, TypeOK
<1>2. PICK left \in IF v.phase = "stale" THEN TeammateChoices(p, v.rows[p]) ELSE {{}} :
        poll' = [poll EXCEPT ![k].todo = @ \ {p}, ![k].task[p] = [Asking(p) EXCEPT !.left = left]]
  BY <1>1 DEF Take
<1>3. UNCHANGED <<database, doing, current>>
  BY DEF Take, world
<1>4. v.rows[p].party \subseteq Players
  BY PollStateFields DEF Session
<1>5. left \subseteq Players
  BY <1>2, <1>4, TeammatesAreMembers
<1>6. PICK t : t = [Asking(p) EXCEPT !.left = left]
  OBVIOUS
<1>7. Asking(p) \in Task /\ Asking(p).asks = p /\ Asking(p).answer.status = "pending"
  <2>1. Bare("pending") \in Answer /\ Bare("pending").status = "pending"
    BY BareTyped
  <2> QED
    BY <2>1 DEF Asking, Task
<1>8. t \in Task /\ t.asks = p /\ t.answer.status = "pending"
  <2>1. PICK r \in Task : r = Asking(p)
    BY <1>7
  <2>2. t = [r EXCEPT !.left = left]
    BY <1>6, <2>1
  <2> QED
    BY <1>5, <1>7, <2>1, <2>2 DEF Task
<1> DEFINE task == [v.task EXCEPT ![p] = t]
<1>9. v.task \in [Players -> Task \cup {NoTask}]
  BY PollStateFields
<1>10. task \in [Players -> Task \cup {NoTask}] /\ task[p] = t /\ \A q \in Players \ {p} : task[q] = v.task[q]
  BY <1>8, <1>9
<1>11. PICK w : w = [v EXCEPT !.todo = v.todo \ {p}, !.task = task]
  OBVIOUS
<1>12. poll \in [Polls -> PollState]
  BY DEF IInv, TypeOK
<1>13. poll' = [poll EXCEPT ![k] = w]
  BY <1>1, <1>2, <1>6, <1>11, <1>12
<1> HIDE DEF task
<1>14. w \in PollState
  BY <1>10, <1>11 DEF PollState
<1>15. /\ w.phase = v.phase /\ w.start = v.start /\ w.rows = v.rows /\ w.in = v.in /\ w.out = v.out
       /\ w.task = task /\ w.covered = v.covered /\ w.todo \subseteq v.todo
  BY <1>11 DEF PollState
<1>16. IsWork(k, p, w)
  BY <1>1, <1>10, <1>13, <1>14, <1>15 DEF IsWork
<1>17. TaskOK(w, p)
  <2>1. v.phase \in {"stale", "candidates"}
    BY <1>1, PollStateFields DEF Take, MayTake, PollOK
  <2> QED
    BY <1>8, <1>10, <1>15, <2>1 DEF TaskOK
<1>18. PollsOK'
  BY <1>3, <1>16, <1>17, WorkKeeps
<1>19. TablesOK'
  BY <1>3 DEF TablesOK, IInv, TypeOK, database
<1>20. \A j \in Polls \ {k} : poll'[j] = poll[j]
  BY <1>12, <1>13
<1>21. Judged(k)
  BY <1>3, <1>20, QuietIsJudged DEF database
<1> QED
  BY <1>18, <1>19, <1>21 DEF GoodStep

LEMMA ReplyIsGood ==
    ASSUME IInv, NEW k \in Polls, NEW p \in Players, Reply(k, p)
    PROVE  GoodStep(k)
<1>1. PICK v \in PollState : v = poll[k] /\ PollOK(v)
  BY DEF IInv, TypeOK
<1>2. PICK t \in Task : t = v.task[p] /\ t # NoTask
  BY <1>1, PollStateFields DEF Reply
<1>3. /\ poll' = [poll EXCEPT ![k].task[p].answer = Profile(t.asks)]
      /\ UNCHANGED <<database, doing, current>>
  BY <1>1, <1>2 DEF Reply, world
<1>4. PICK q \in Players : q = t.asks
  BY <1>2 DEF Task
<1>5. PICK a \in Answer : a = Profile(q)
  BY <1>4, ProfileTyped
<1>6. /\ v.phase \in {"stale", "candidates"} /\ (v.phase = "candidates" => q = p) /\ (q # p => p \in v.out)
  BY <1>1, <1>2, <1>4 DEF PollOK, TaskOK
<1>7. InGame \subseteq v.in /\ Players \ InGame \subseteq v.out
  BY <1>1, <1>6 DEF PollOK
<1>8. /\ a.status = "active" => q \in v.in /\ a.party \subseteq v.in
      /\ a.status = "inactive" => q \in v.out
  BY <1>5, <1>7, ProfileTyped DEF InGame
<1>9. PICK u : u = [t EXCEPT !.answer = a]
  OBVIOUS
<1>10. u \in Task /\ u.asks = q /\ u.answer = a
  BY <1>2, <1>4, <1>9 DEF Task
<1> DEFINE task == [v.task EXCEPT ![p] = u]
<1>11. v.task \in [Players -> Task \cup {NoTask}]
  BY PollStateFields
<1>12. task \in [Players -> Task \cup {NoTask}] /\ task[p] = u /\ \A r \in Players \ {p} : task[r] = v.task[r]
  BY <1>10, <1>11
<1>13. PICK w : w = [v EXCEPT !.task = task]
  OBVIOUS
<1>14. poll \in [Polls -> PollState]
  BY DEF IInv, TypeOK
<1>15. poll' = [poll EXCEPT ![k] = w]
  BY <1>1, <1>2, <1>3, <1>4, <1>5, <1>9, <1>13, <1>14
<1> HIDE DEF task
<1>16. w \in PollState
  BY <1>12, <1>13 DEF PollState
<1>17. /\ w.phase = v.phase /\ w.start = v.start /\ w.rows = v.rows /\ w.in = v.in /\ w.out = v.out
       /\ w.task = task /\ w.covered = v.covered /\ w.todo \subseteq v.todo
  BY <1>13 DEF PollState
<1>18. IsWork(k, p, w)
  BY <1>1, <1>12, <1>15, <1>16, <1>17 DEF IsWork
<1>19. TaskOK(w, p)
  BY <1>6, <1>8, <1>10, <1>12, <1>17 DEF TaskOK
<1>20. PollsOK'
  BY <1>3, <1>18, <1>19, WorkKeeps
<1>21. TablesOK'
  BY <1>3 DEF TablesOK, IInv, TypeOK, database
<1>22. \A j \in Polls \ {k} : poll'[j] = poll[j]
  BY <1>14, <1>15
<1>23. Judged(k)
  BY <1>3, <1>22, QuietIsJudged DEF database
<1> QED
  BY <1>20, <1>21, <1>23 DEF GoodStep

LEMMA RefusedIsGood ==
    ASSUME IInv, NEW k \in Polls, NEW p \in Players, Refused(k, p)
    PROVE  GoodStep(k)
<1>1. PICK v \in PollState : v = poll[k] /\ PollOK(v)
  BY DEF IInv, TypeOK
<1>2. /\ poll' = [poll EXCEPT ![k].task[p] = NoTask, ![k].disabled = TRUE]
      /\ UNCHANGED <<database, doing, current>>
  BY DEF Refused, world
<1> DEFINE task == [v.task EXCEPT ![p] = NoTask]
<1>3. v.task \in [Players -> Task \cup {NoTask}]
  BY PollStateFields
<1>4. task \in [Players -> Task \cup {NoTask}] /\ task[p] = NoTask /\ \A r \in Players \ {p} : task[r] = v.task[r]
  BY <1>3
<1>5. PICK w : w = [v EXCEPT !.task = task, !.disabled = TRUE]
  OBVIOUS
<1>6. poll \in [Polls -> PollState]
  BY DEF IInv, TypeOK
<1>7. poll' = [poll EXCEPT ![k] = w]
  BY <1>1, <1>2, <1>5, <1>6
<1> HIDE DEF task
<1>8. w \in PollState
  BY <1>4, <1>5 DEF PollState
<1>9. /\ w.phase = v.phase /\ w.start = v.start /\ w.rows = v.rows /\ w.in = v.in /\ w.out = v.out
      /\ w.task = task /\ w.covered = v.covered /\ w.todo \subseteq v.todo
  BY <1>5 DEF PollState
<1>10. IsWork(k, p, w)
  BY <1>1, <1>4, <1>7, <1>8, <1>9 DEF IsWork
<1>11. TaskOK(w, p)
  BY <1>4, <1>9 DEF TaskOK
<1>12. PollsOK'
  BY <1>2, <1>10, <1>11, WorkKeeps
<1>13. TablesOK'
  BY <1>2 DEF TablesOK, IInv, TypeOK, database
<1>14. \A j \in Polls \ {k} : poll'[j] = poll[j]
  BY <1>6, <1>7
<1>15. Judged(k)
  BY <1>2, <1>14, QuietIsJudged DEF database
<1> QED
  BY <1>12, <1>13, <1>15 DEF GoodStep

(***************************************************************************)
(* The steps of a poll as a whole.                                         *)
(***************************************************************************)

\* Poll k becomes w; the loop awaits it, what it awaited, or nothing.
Replaces(k, w) ==
    /\ poll' = [poll EXCEPT ![k] = w] /\ UNCHANGED doing
    /\ current' = current \/ current' = 0 \/ (current' = k /\ w.phase # "none")
    /\ w.phase = "none" => current' # k

LEMMA ReplacementKeeps ==
    ASSUME IInv, NEW k \in Polls, NEW w \in PollState, PollOK(w), Replaces(k, w)
    PROVE  PollsOK' /\ poll'[k] = w /\ \A j \in Polls \ {k} : poll'[j] = poll[j]
<1>1. /\ poll \in [Polls -> PollState] /\ (\A j \in Polls : PollOK(poll[j]))
      /\ current \in 0 .. MaxPolls /\ (current # 0 => poll[current].phase # "none")
  BY DEF IInv, TypeOK
<1>2. poll' = [poll EXCEPT ![k] = w] /\ UNCHANGED doing
  BY DEF Replaces
<1>3. poll' \in [Polls -> PollState] /\ poll'[k] = w /\ \A j \in Polls \ {k} : poll'[j] = poll[j]
  BY <1>1, <1>2
<1>4. \A j \in Polls : PollOK(poll[j])'
  <2> TAKE j \in Polls
  <2>1. PICK x \in PollState : x = poll'[j]
    BY <1>3
  <2>2. PollOK(x)
    BY <1>1, <1>3, <2>1
  <2> QED
    BY <1>2, <2>1, <2>2 DEF PollOK, TaskOK, InGame
<1>5. current' \in 0 .. MaxPolls
  BY <1>1, SessionsAssumption DEF Replaces, Polls
<1>6. current' # 0 => poll'[current'].phase # "none"
  <2> SUFFICES ASSUME current' # 0 PROVE poll'[current'].phase # "none"
    OBVIOUS
  <2>1. current' \in Polls
    BY <1>5, SessionsAssumption DEF Polls
  <2>2. CASE current' = k
    BY <1>3, <2>2 DEF Replaces
  <2>3. CASE current' # k
    BY <1>1, <1>3, <2>1, <2>3 DEF Replaces
  <2> QED
    BY <2>2, <2>3
<1> QED
  BY <1>3, <1>4, <1>5, <1>6 DEF PollsOK

LEMMA NoWorkIsOK == PollOK(NoWork)
BY NoWorkTyped DEF PollOK, TaskOK

LEMMA EndingKeeps ==
    ASSUME IInv, NEW k \in Polls, UNCHANGED <<doing, database>>,
           Throw(k) \/ Completes(k)
    PROVE  GoodStep(k) /\ paused' \in BOOLEAN
<1>1. poll' = [poll EXCEPT ![k] = NoWork]
  BY DEF Throw, Completes
<1>2. PICK w \in PollState : w = NoWork
  BY NoWorkTyped
<1>3. PollOK(w)
  BY <1>2, NoWorkIsOK
<1>4. k # 0
  BY DEF Polls
<1>5. Replaces(k, w)
  BY <1>1, <1>2, <1>4, NoWorkTyped DEF Replaces, Throw, Completes
<1>6. PollsOK' /\ \A j \in Polls \ {k} : poll'[j] = poll[j]
  BY <1>3, <1>5, ReplacementKeeps
<1>7. TablesOK'
  BY DEF TablesOK, IInv, TypeOK, database
<1>8. Judged(k)
  BY <1>6, QuietIsJudged DEF database
<1>9. paused' = paused \/ paused' = TRUE
  BY DEF Throw, Completes
<1>10. paused \in BOOLEAN
  BY DEF IInv, TypeOK
<1>11. paused' \in BOOLEAN
  BY <1>9, <1>10
<1> QED
  BY <1>6, <1>7, <1>8, <1>11 DEF GoodStep

LEMMA EndStaleIsGood ==
    ASSUME IInv, NEW k \in Polls, EndStale(k)
    PROVE  GoodStep(k) /\ paused' \in BOOLEAN
<1>1. UNCHANGED <<known, check, queued, doing>>
  BY DEF EndStale, world
<1>2. CASE poll[k].disabled
  <2>1. Throw(k) /\ UNCHANGED <<doing, database>>
    BY <1>1, <1>2 DEF EndStale, database
  <2> QED
    BY <2>1, EndingKeeps
<1>3. CASE ~poll[k].disabled
  <2>1. PICK v \in PollState : v = poll[k] /\ PollOK(v)
    BY DEF IInv, TypeOK
  <2>2. /\ session' = [p \in Players |->
               IF session[p].checked < v.start - MaxAge THEN NoSession ELSE session[p]]
        /\ poll' = [poll EXCEPT ![k].phase = "candidates", ![k].todo = poll[k].batch,
                                ![k].rows = NoWork.rows]
        /\ UNCHANGED <<current, paused>>
        /\ v.phase = "stale" /\ Busy(k) = {}
    BY <1>3, <2>1 DEF EndStale, PhaseOver
  <2>3. PICK w : w = [v EXCEPT !.phase = "candidates", !.todo = v.batch, !.rows = NoWork.rows]
    OBVIOUS
  <2>4. poll \in [Polls -> PollState]
    BY DEF IInv, TypeOK
  <2>5. poll' = [poll EXCEPT ![k] = w]
    BY <2>1, <2>2, <2>3, <2>4
  <2>6. NoWork.rows \in [Players -> Session] /\ \A p \in Players : NoWork.rows[p] = NoSession
    BY NoWorkTyped, PollStateFields
  <2>7. w \in PollState
    BY <2>3, <2>6 DEF PollState
  <2>8. /\ w.phase = "candidates" /\ w.start = v.start /\ w.in = v.in /\ w.out = v.out
        /\ w.rows = NoWork.rows /\ w.task = v.task /\ w.covered = v.covered
    BY <2>3 DEF PollState
  <2>9. \A p \in Players : v.task[p] = NoTask
    BY <2>1, <2>2 DEF Busy
  <2>10. PollOK(w)
    BY <2>1, <2>2, <2>6, <2>8, <2>9 DEF PollOK, TaskOK
  <2>11. Replaces(k, w)
    BY <1>1, <2>2, <2>5, <2>8 DEF Replaces
  <2>12. PollsOK' /\ \A j \in Polls \ {k} : poll'[j] = poll[j]
    BY <2>7, <2>10, <2>11, ReplacementKeeps
  <2>13. session \in [Players -> Session] /\ NoSession \in Session
    BY NoSessionTyped DEF IInv, TypeOK
  <2>14. session' \in [Players -> Session]
    BY <2>2, <2>13
  <2>15. TablesOK'
    BY <1>1, <2>14 DEF TablesOK, IInv, TypeOK
  <2>16. check \in [Players -> [eligible : Nat, misses : Nat]]
    BY DEF IInv, TypeOK
  <2>17. \A p \in Players : ~(check'[p].eligible > check[p].eligible)
    BY <1>1, <2>16
  <2>18. \A p \in Players : session'[p] # session[p] =>
            session'[p] = NoSession /\ session[p].checked < poll[k].start - MaxAge
    BY <2>1, <2>2
  <2>19. \A p \in Players : ~(session[p].raid /\ session'[p] = NoSession /\ poll[k].rows[p] = session[p])
    <3> SUFFICES ASSUME NEW p \in Players, session[p].raid, session'[p] = NoSession,
                        poll[k].rows[p] = session[p]
                 PROVE  FALSE
      OBVIOUS
    <3>1. session[p] # NoSession
      BY NoSessionTyped
    <3>2. session[p].checked < v.start - MaxAge
      BY <2>1, <2>18, <3>1
    <3>3. v.rows[p].checked >= v.start - MaxAge
      BY <2>1, <2>2, <3>1 DEF PollOK
    <3>4. session[p].checked \in Nat /\ v.start \in Nat /\ MaxAge \in Nat
      BY <2>13, PollStateFields, SessionsAssumption DEF Session
    <3> QED
      BY <2>1, <3>2, <3>3, <3>4
  <2>20. Judged(k)
    BY <2>12, <2>17, <2>18, <2>19 DEF Judged
  <2>21. paused' \in BOOLEAN
    BY <2>2 DEF IInv, TypeOK
  <2> QED
    BY <2>12, <2>15, <2>20, <2>21 DEF GoodStep
<1> QED
  BY <1>2, <1>3

LEMMA EndCandidatesIsGood ==
    ASSUME IInv, NEW k \in Polls, EndCandidates(k)
    PROVE  GoodStep(k) /\ paused' \in BOOLEAN
<1>1. UNCHANGED <<doing, database>>
  BY DEF EndCandidates, world
<1>2. CASE Throw(k) \/ Completes(k)
  BY <1>1, <1>2, EndingKeeps
<1>3. CASE /\ poll' = [poll EXCEPT ![k] = [NoWork EXCEPT
                 !.phase = "resolve", !.start = poll[k].start, !.met = poll[k].met]]
           /\ UNCHANGED <<current, paused>>
  <2>1. PICK v \in PollState : v = poll[k]
    BY DEF IInv, TypeOK
  <2>2. PICK w : w = [NoWork EXCEPT !.phase = "resolve", !.start = v.start, !.met = v.met]
    OBVIOUS
  <2>3. poll' = [poll EXCEPT ![k] = w]
    BY <1>3, <2>1, <2>2
  <2>4. PICK x \in PollState : x = NoWork
    BY NoWorkTyped
  <2>5. w = [x EXCEPT !.phase = "resolve", !.start = v.start, !.met = v.met]
    BY <2>2, <2>4
  <2>6. w \in PollState
    BY <2>5 DEF PollState
  <2>7. w.phase = "resolve" /\ w.rows = x.rows /\ w.task = x.task /\ w.covered = x.covered /\ w.todo = x.todo
    BY <2>5 DEF PollState
  <2>8. PollOK(w)
    BY <2>4, <2>7, NoWorkTyped DEF PollOK, TaskOK
  <2>9. Replaces(k, w)
    BY <1>1, <1>3, <2>3, <2>7 DEF Replaces
  <2>10. PollsOK' /\ \A j \in Polls \ {k} : poll'[j] = poll[j]
    BY <2>6, <2>8, <2>9, ReplacementKeeps
  <2>11. TablesOK'
    BY <1>1 DEF TablesOK, IInv, TypeOK, database
  <2>12. Judged(k)
    BY <1>1, <2>10, QuietIsJudged DEF database
  <2>13. paused' \in BOOLEAN
    BY <1>3 DEF IInv, TypeOK
  <2> QED
    BY <2>10, <2>11, <2>12, <2>13 DEF GoodStep
<1> QED
  BY <1>2, <1>3 DEF EndCandidates

LEMMA BeginPollIsGood ==
    ASSUME IInv, NEW k \in Polls, BeginPoll(k)
    PROVE  GoodStep(k) /\ wakes' \in Nat
<1>1. UNCHANGED <<database, doing, paused>>
  BY DEF BeginPoll, world
<1>2. PICK x \in PollState : x = NoWork
  BY NoWorkTyped
<1> DEFINE phase == IF StaleRows = {} THEN "candidates" ELSE "stale"
           rows == [p \in Players |-> IF p \in StaleRows THEN session[p] ELSE NoSession]
           todo == IF StaleRows = {} THEN Candidates ELSE StaleRows
           out == Players \ InGame
<1>3. PICK w : w = [x EXCEPT !.phase = phase, !.start = now, !.rows = rows, !.batch = Candidates,
                             !.todo = todo, !.in = InGame, !.out = out]
  OBVIOUS
<1>4. poll' = [poll EXCEPT ![k] = w]
  BY <1>2, <1>3 DEF BeginPoll
<1>5. /\ session \in [Players -> Session] /\ NoSession \in Session /\ now \in Nat
      /\ known \subseteq Players /\ wakes \in Nat
  BY NoSessionTyped DEF IInv, TypeOK
<1>6. /\ Candidates \subseteq Players /\ StaleRows \subseteq Players /\ InGame \subseteq Players
      /\ \A p \in StaleRows : session[p].checked >= now - MaxAge
  BY <1>5 DEF Candidates, StaleRows, InGame
<1>7. /\ rows \in [Players -> Session] /\ \A p \in Players : rows[p] # NoSession => p \in StaleRows
      /\ \A p \in StaleRows : rows[p] = session[p]
  BY <1>5, <1>6
<1>8. /\ phase \in {"stale", "candidates"} /\ (phase = "candidates" => StaleRows = {})
      /\ todo \subseteq Players /\ out \subseteq Players
  BY <1>6
<1>9. InGame \subseteq InGame /\ Players \ InGame \subseteq out
  OBVIOUS
<1> HIDE DEF phase, rows, todo, out
<1>10. w \in PollState
  BY <1>3, <1>5, <1>6, <1>7, <1>8 DEF PollState
<1>11. /\ w.phase = phase /\ w.start = now /\ w.rows = rows /\ w.in = InGame /\ w.out = out
       /\ w.task = x.task /\ w.covered = x.covered
  BY <1>3 DEF PollState
<1>12. \A p \in Players : w.rows[p] = NoSession \/ w.rows[p].checked >= w.start - MaxAge
  BY <1>6, <1>7, <1>11
<1>13. w.phase # "stale" => \A p \in Players : w.rows[p] = NoSession
  BY <1>7, <1>8, <1>11
<1>14. PollOK(w)
  BY <1>2, <1>8, <1>9, <1>11, <1>12, <1>13, NoWorkTyped DEF PollOK, TaskOK
<1>15. Replaces(k, w)
  BY <1>1, <1>4, <1>8, <1>11 DEF Replaces, BeginPoll
<1>16. PollsOK' /\ \A j \in Polls \ {k} : poll'[j] = poll[j]
  BY <1>10, <1>14, <1>15, ReplacementKeeps
<1>17. TablesOK'
  BY <1>1 DEF TablesOK, IInv, TypeOK, database
<1>18. Judged(k)
  BY <1>1, <1>16, QuietIsJudged DEF database
<1>19. wakes' \in Nat
  <2>1. PICK s \in wakes .. now : wakes' = s + Interval
    BY DEF BeginPoll
  <2> QED
    BY <1>5, <2>1, SessionsAssumption
<1> QED
  BY <1>16, <1>17, <1>18, <1>19 DEF GoodStep

LEMMA EndPollIsGood ==
    ASSUME IInv, NEW k \in Polls, EndPoll(k)
    PROVE  GoodStep(k) /\ paused' \in BOOLEAN
<1>1. UNCHANGED <<doing, database>> /\ (Throw(k) \/ Completes(k))
  BY DEF EndPoll, world
<1> QED
  BY <1>1, EndingKeeps

LEMMA PollsStay ==
    ASSUME IInv, UNCHANGED <<poll, doing>>, current' = current \/ current' = 0
    PROVE  PollsOK'
<1>1. /\ poll \in [Polls -> PollState] /\ (\A j \in Polls : PollOK(poll[j]))
      /\ current \in 0 .. MaxPolls /\ (current # 0 => poll[current].phase # "none")
  BY DEF IInv, TypeOK
<1>2. \A j \in Polls : PollOK(poll[j])'
  <2> TAKE j \in Polls
  <2>1. PICK x \in PollState : x = poll'[j]
    BY <1>1
  <2>2. PollOK(x)
    BY <1>1, <2>1
  <2> QED
    BY <2>1, <2>2 DEF PollOK, TaskOK, InGame
<1>3. current' \in 0 .. MaxPolls /\ (current' # 0 => poll'[current'].phase # "none")
  BY <1>1, SessionsAssumption
<1> QED
  BY <1>1, <1>2, <1>3 DEF PollsOK

LEMMA ResolveIsGood ==
    ASSUME IInv, NEW k \in Polls, NEW p \in Players, Resolve(k, p)
    PROVE  GoodStep(k)
<1>1. UNCHANGED <<session, check, queued, poll, doing, current>> /\ known' = known \cup {p}
  BY DEF Resolve, world
<1>2. PollsOK'
  BY <1>1, PollsStay
<1>3. TablesOK'
  BY <1>1 DEF TablesOK, IInv, TypeOK
<1>4. Judged(k)
  BY <1>1, QuietIsJudged
<1> QED
  BY <1>2, <1>3, <1>4 DEF GoodStep

(***************************************************************************)
(* The players and the browser.                                            *)
(***************************************************************************)

LEMMA MoveKeeps ==
    ASSUME IInv, NEW p \in Players, Move(p)
    PROVE  PollsOK' /\ doing' \in [Players -> Activities \cup {"offline"}]
<1>1. PICK d \in (Activities \cup {"offline"}) \ {doing[p]} :
        /\ doing' = [doing EXCEPT ![p] = d]
        /\ poll' = [k \in Polls |->
              IF poll[k].phase = "none" THEN poll[k]
              ELSE IF d = "offline" THEN [poll[k] EXCEPT !.out = @ \cup {p}]
                                    ELSE [poll[k] EXCEPT !.in = @ \cup {p}]]
        /\ UNCHANGED current
  BY DEF Move
<1>2. /\ poll \in [Polls -> PollState] /\ (\A k \in Polls : PollOK(poll[k]))
      /\ current \in 0 .. MaxPolls /\ (current # 0 => poll[current].phase # "none")
      /\ doing \in [Players -> Activities \cup {"offline"}]
  BY DEF IInv, TypeOK
<1>3. doing' \in [Players -> Activities \cup {"offline"}]
  BY <1>1, <1>2
<1>4. /\ d = "offline" => InGame' \subseteq InGame /\ (Players \ InGame)' \subseteq (Players \ InGame) \cup {p}
      /\ d # "offline" => InGame' \subseteq InGame \cup {p} /\ (Players \ InGame)' \subseteq Players \ InGame
  BY <1>1, <1>2, <1>3 DEF InGame
<1>5. \A k \in Polls : poll'[k] \in PollState /\ poll'[k].phase = poll[k].phase /\ PollOK(poll[k])'
  <2> TAKE k \in Polls
  <2>1. PICK v \in PollState : v = poll[k] /\ PollOK(v)
    BY <1>2
  <2>2. PICK w : /\ w = IF v.phase = "none" THEN v
                        ELSE IF d = "offline" THEN [v EXCEPT !.out = v.out \cup {p}]
                                              ELSE [v EXCEPT !.in = v.in \cup {p}]
    OBVIOUS
  <2>3. poll'[k] = w
    BY <1>1, <2>1, <2>2
  <2>4. w \in PollState
    BY <2>2 DEF PollState
  <2>5. /\ w.phase = v.phase /\ w.start = v.start /\ w.rows = v.rows /\ w.task = v.task
        /\ w.covered = v.covered /\ w.todo = v.todo
        /\ v.in \subseteq w.in /\ v.out \subseteq w.out
        /\ v.phase # "none" => /\ d = "offline" => p \in w.out
                               /\ d # "offline" => p \in w.in
    BY <2>2 DEF PollState
  <2>6. w.phase \in {"stale", "candidates"} => InGame' \subseteq w.in /\ (Players \ InGame)' \subseteq w.out
    BY <1>4, <2>1, <2>5 DEF PollOK
  <2>7. \A q \in Players : TaskOK(w, q)
    <3> TAKE q \in Players
    <3>1. TaskOK(v, q)
      BY <2>1 DEF PollOK
    <3> QED
      BY <2>5, <3>1 DEF TaskOK
  <2>8. PollOK(poll[k])'
    BY <2>1, <2>3, <2>5, <2>6, <2>7 DEF PollOK, TaskOK
  <2> QED
    BY <2>1, <2>3, <2>4, <2>5, <2>8
<1>6. poll' \in [Polls -> PollState]
  BY <1>1, <1>5
<1>7. current' \in 0 .. MaxPolls /\ (current' # 0 => poll'[current'].phase # "none")
  BY <1>1, <1>2, <1>5, SessionsAssumption DEF Polls
<1> QED
  BY <1>3, <1>5, <1>6, <1>7 DEF PollsOK

LEMMA BrowserKeeps ==
    ASSUME IInv, NEW p \in Players, BrowserPosts(p)
    PROVE  PollsOK' /\ TablesOK'
<1>1. /\ known' = known \cup {p} /\ UNCHANGED <<check, queued, doing, poll, current>>
      /\ Upsert(p, Profile(p)) \/ Delete(p) \/ UNCHANGED session
  BY DEF BrowserPosts
<1>2. PollsOK'
  BY <1>1, PollsStay
<1>3. session \in [Players -> Session] /\ NoSession \in Session
  BY NoSessionTyped DEF IInv, TypeOK
<1>4. CASE Upsert(p, Profile(p))
  <2>1. session' \in [Players -> Session]
    BY <1>4, ProfileTyped, UpsertWrites
  <2> QED
    BY <1>1, <1>2, <2>1 DEF TablesOK, IInv, TypeOK
<1>5. CASE Delete(p) \/ UNCHANGED session
  <2>1. session' \in [Players -> Session]
    BY <1>3, <1>5 DEF Delete
  <2> QED
    BY <1>1, <1>2, <2>1 DEF TablesOK, IInv, TypeOK
<1> QED
  BY <1>1, <1>4, <1>5

(***************************************************************************)
(* Every step.                                                             *)
(***************************************************************************)

\* Each step is a good one of some poll, or takes no poll's side of the tables.
JudgedStep ==
    \/ \E k \in Polls : Judged(k)
    \/ UNCHANGED <<poll, check>>
    \/ UNCHANGED <<session, check>>

ClockOK ==
    /\ now \in 1 .. MaxTime /\ doing \in [Players -> Activities \cup {"offline"}]
    /\ wakes \in Nat /\ paused \in BOOLEAN /\ events \in 0 .. MaxEvents

LEMMA PartsMakeTheInvariant == ASSUME PollsOK', TablesOK', ClockOK' PROVE IInv'
BY DEF PollsOK, TablesOK, ClockOK, IInv, TypeOK

LEMMA GoodStepKeeps ==
    ASSUME IInv, NEW k \in Polls, GoodStep(k), UNCHANGED world, wakes' \in Nat, paused' \in BOOLEAN
    PROVE  IInv' /\ JudgedStep
<1>1. ClockOK'
  BY DEF ClockOK, IInv, TypeOK, world
<1> QED
  BY <1>1, PartsMakeTheInvariant DEF GoodStep, JudgedStep

LEMMA TaskStepIsGood ==
    ASSUME IInv, NEW k \in Polls, NEW p \in Players, TaskStep(k, p)
    PROVE  GoodStep(k) /\ UNCHANGED <<world, wakes, paused>>
<1>1. CASE Reply(k, p)
  BY <1>1, ReplyIsGood DEF Reply
<1>2. CASE Refused(k, p)
  BY <1>2, RefusedIsGood DEF Refused
<1>3. CASE AnchorActive(k, p)
  BY <1>3, AnchorActiveIsGood DEF AnchorActive
<1>4. CASE TeammateActive(k, p)
  BY <1>4, TeammateActiveIsGood DEF TeammateActive
<1>5. CASE AnchorError(k, p)
  BY <1>5, AnchorErrorIsGood DEF AnchorError
<1>6. CASE NextProbe(k, p)
  BY <1>6, NextProbeIsGood DEF NextProbe
<1>7. CASE Conclude(k, p)
  BY <1>7, ConcludeIsGood DEF Conclude
<1>8. CASE CandidateActive(k, p)
  BY <1>8, CandidateActiveIsGood DEF CandidateActive
<1>9. CASE CandidateGone(k, p)
  BY <1>9, CandidateGoneIsGood DEF CandidateGone
<1>10. CASE Resolve(k, p)
  BY <1>10, ResolveIsGood DEF Resolve
<1> QED
  BY <1>1, <1>2, <1>3, <1>4, <1>5, <1>6, <1>7, <1>8, <1>9, <1>10 DEF TaskStep

LEMMA StepKeeps == ASSUME IInv, Next PROVE IInv' /\ JudgedStep
<1>1. wakes \in Nat /\ paused \in BOOLEAN
  BY DEF IInv, TypeOK
<1>2. ASSUME NEW k \in Polls, BeginPoll(k) PROVE IInv' /\ JudgedStep
  <2>1. GoodStep(k) /\ wakes' \in Nat
    BY <1>2, BeginPollIsGood
  <2>2. UNCHANGED world /\ paused' \in BOOLEAN
    BY <1>1, <1>2 DEF BeginPoll
  <2> QED
    BY <2>1, <2>2, GoodStepKeeps
<1>3. ASSUME NEW k \in Polls, Continues(k) PROVE IInv' /\ JudgedStep
  <2>1. CASE EndStale(k)
    <3>1. GoodStep(k) /\ paused' \in BOOLEAN
      BY <2>1, EndStaleIsGood
    <3>2. UNCHANGED world /\ wakes' \in Nat
      BY <1>1, <2>1 DEF EndStale
    <3> QED
      BY <3>1, <3>2, GoodStepKeeps
  <2>2. CASE EndCandidates(k)
    <3>1. GoodStep(k) /\ paused' \in BOOLEAN
      BY <2>2, EndCandidatesIsGood
    <3>2. UNCHANGED world /\ wakes' \in Nat
      BY <1>1, <2>2 DEF EndCandidates
    <3> QED
      BY <3>1, <3>2, GoodStepKeeps
  <2>3. ASSUME NEW p \in Players, Take(k, p) PROVE IInv' /\ JudgedStep
    <3>1. GoodStep(k)
      BY <2>3, TakeIsGood
    <3>2. UNCHANGED world /\ wakes' \in Nat /\ paused' \in BOOLEAN
      BY <1>1, <2>3 DEF Take
    <3> QED
      BY <3>1, <3>2, GoodStepKeeps
  <2>4. ASSUME NEW p \in Players, TakeCovered(k, p) PROVE IInv' /\ JudgedStep
    <3>1. GoodStep(k)
      BY <2>4, TakeCoveredIsGood
    <3>2. UNCHANGED world /\ wakes' \in Nat /\ paused' \in BOOLEAN
      BY <1>1, <2>4 DEF TakeCovered
    <3> QED
      BY <3>1, <3>2, GoodStepKeeps
  <2> QED
    BY <1>3, <2>1, <2>2, <2>3, <2>4 DEF Continues
<1>4. ASSUME NEW k \in Polls, EndPoll(k) PROVE IInv' /\ JudgedStep
  <2>1. GoodStep(k) /\ paused' \in BOOLEAN
    BY <1>4, EndPollIsGood
  <2>2. UNCHANGED world /\ wakes' \in Nat
    BY <1>1, <1>4 DEF EndPoll
  <2> QED
    BY <2>1, <2>2, GoodStepKeeps
<1>5. ASSUME NEW k \in Polls, NEW p \in Players, TaskStep(k, p) PROVE IInv' /\ JudgedStep
  <2>1. GoodStep(k) /\ UNCHANGED <<world, wakes, paused>>
    BY <1>5, TaskStepIsGood
  <2>2. UNCHANGED world /\ wakes' \in Nat /\ paused' \in BOOLEAN
    BY <1>1, <2>1
  <2> QED
    BY <2>1, <2>2, GoodStepKeeps
<1>6. CASE WatchdogFires \/ PauseEnds \/ Tick
  <2>1. UNCHANGED <<database, poll, doing>> /\ (current' = current \/ current' = 0)
    BY <1>6 DEF WatchdogFires, PauseEnds, Tick, world
  <2>2. PollsOK'
    BY <2>1, PollsStay
  <2>3. TablesOK'
    BY <2>1 DEF TablesOK, IInv, TypeOK, database
  <2>4. paused' = paused \/ paused' = FALSE
    BY <1>6 DEF WatchdogFires, PauseEnds, Tick
  <2>5. paused' \in BOOLEAN
    BY <1>1, <2>4
  <2>6. now \in 1 .. MaxTime /\ MaxTime \in Nat
    BY SessionsAssumption DEF IInv, TypeOK
  <2>7. now' = now \/ (now < MaxTime /\ now' = now + 1)
    BY <1>6 DEF WatchdogFires, PauseEnds, Tick, world
  <2>8. UNCHANGED <<doing, wakes, events>>
    BY <1>6 DEF WatchdogFires, PauseEnds, Tick, world
  <2>9. now' \in 1 .. MaxTime /\ UNCHANGED <<doing, wakes, events>>
    BY <2>6, <2>7, <2>8
  <2>10. ClockOK'
    BY <2>5, <2>9 DEF ClockOK, IInv, TypeOK
  <2> QED
    BY <2>1, <2>2, <2>3, <2>10, PartsMakeTheInvariant DEF JudgedStep, database
<1>7. ASSUME NEW p \in Players, BrowserPosts(p) PROVE IInv' /\ JudgedStep
  <2>1. PollsOK' /\ TablesOK'
    BY <1>7, BrowserKeeps
  <2>2. UNCHANGED <<check, now, doing, poll, wakes, paused>> /\ events' \in 0 .. MaxEvents
    BY <1>7, SessionsAssumption DEF BrowserPosts, Event, IInv, TypeOK
  <2>3. ClockOK'
    BY <2>2 DEF ClockOK, IInv, TypeOK
  <2> QED
    BY <2>1, <2>2, <2>3, PartsMakeTheInvariant DEF JudgedStep
<1>8. ASSUME NEW p \in Players, Move(p) PROVE IInv' /\ JudgedStep
  <2>1. PollsOK' /\ doing' \in [Players -> Activities \cup {"offline"}]
    BY <1>8, MoveKeeps
  <2>2. UNCHANGED <<database, now, wakes, paused>> /\ events' \in 0 .. MaxEvents
    BY <1>8, SessionsAssumption DEF Move, Event, IInv, TypeOK
  <2>3. TablesOK'
    BY <2>2 DEF TablesOK, IInv, TypeOK, database
  <2>4. ClockOK'
    BY <2>1, <2>2 DEF ClockOK, IInv, TypeOK
  <2> QED
    BY <2>1, <2>2, <2>3, <2>4, PartsMakeTheInvariant DEF JudgedStep, database
<1> QED
  BY <1>2, <1>3, <1>4, <1>5, <1>6, <1>7, <1>8 DEF Next

LEMMA StutterKeeps == ASSUME IInv, UNCHANGED vars PROVE IInv'
<1>1. UNCHANGED <<poll, doing, current, known, session, check, queued, now, wakes, paused, events>>
  BY DEF vars
<1>2. PollsOK'
  BY <1>1, PollsStay
<1>3. TablesOK' /\ ClockOK'
  BY <1>1 DEF TablesOK, ClockOK, IInv, TypeOK
<1> QED
  BY <1>2, <1>3, PartsMakeTheInvariant

LEMMA InitIsGood == ASSUME Init PROVE IInv
<1>1. \A k \in Polls : poll[k] = NoWork
  BY DEF Init
<1>2. poll \in [Polls -> PollState] /\ \A k \in Polls : PollOK(poll[k])
  BY <1>1, NoWorkTyped, NoWorkIsOK DEF Init
<1>3. session \in [Players -> Session] /\ check \in [Players -> [eligible : Nat, misses : Nat]]
  BY NoSessionTyped DEF Init
<1>4. now \in 1 .. MaxTime /\ events \in 0 .. MaxEvents /\ current \in 0 .. MaxPolls /\ wakes \in Nat
  BY SessionsAssumption DEF Init
<1> QED
  BY <1>2, <1>3, <1>4, SessionsAssumption DEF Init, IInv, TypeOK

\* The invariant, and with it the type invariant: after every step each poll's answers,
\* covered teammates and rows agree with what it has seen of the game.
THEOREM SessionsInvariant == Spec => []IInv
<1>1. Init => IInv
  BY InitIsGood
<1>2. IInv /\ [Next]_vars => IInv'
  BY StepKeeps, StutterKeeps
<1> QED
  BY <1>1, <1>2, PTL DEF Spec

(***************************************************************************)
(* The properties.                                                         *)
(***************************************************************************)

\* Another poll than k took no step.
LEMMA OnlyOnePoll ==
    ASSUME NEW k \in Polls, Judged(k)
    PROVE  \A j \in Polls : By(j) => j = k
BY DEF Judged, By

\* "Timeout is not offline": a poll removes a row only if the player was out of the game
\* or hidden at some time since it began, or if the row was past MaxAge by then
\* (refreshStaleSessionsWithOptions, force-delete), for any number of polls.
THEOREM SessionsDeletedOnSignal == Spec => DeletedOnSignal
<1>1. ASSUME IInv, [Next]_vars
      PROVE  [ \A p \in Players, k \in Polls :
                 session[p] # NoSession /\ session'[p] = NoSession /\ By(k) =>
                     p \in OutOf(k) \/ session[p].checked < poll[k].start - MaxAge ]_vars
  <2> SUFFICES ASSUME Next, NEW p \in Players, NEW k \in Polls,
                      session[p] # NoSession, session'[p] = NoSession, By(k)
               PROVE  p \in OutOf(k) \/ session[p].checked < poll[k].start - MaxAge
    BY <1>1
  <2>1. JudgedStep
    BY <1>1, StepKeeps
  <2>2. PICK j \in Polls : Judged(j)
    BY <2>1 DEF JudgedStep, By
  <2>3. k = j
    BY <2>2, OnlyOnePoll
  <2> QED
    BY <2>2, <2>3 DEF Judged
<1> QED
  BY <1>1, SessionsInvariant, PTL DEF Spec, DeletedOnSignal

\* A poll writes a row only about a player who was in the game at some time since it
\* began: what it reads before an await it may write after one, but nothing older, and
\* nothing it made up (parseAndStoreActivity, synthesizeSessionFromFireteam).
THEOREM SessionsWrittenOnSignal == Spec => WrittenOnSignal
<1>1. ASSUME IInv, [Next]_vars
      PROVE  [ \A p \in Players, k \in Polls :
                 session'[p] # session[p] /\ session'[p] # NoSession /\ By(k) => p \in poll[k].in ]_vars
  <2> SUFFICES ASSUME Next, NEW p \in Players, NEW k \in Polls,
                      session'[p] # session[p], session'[p] # NoSession, By(k)
               PROVE  p \in poll[k].in
    BY <1>1
  <2>1. JudgedStep
    BY <1>1, StepKeeps
  <2>2. PICK j \in Polls : Judged(j)
    BY <2>1 DEF JudgedStep, By
  <2>3. k = j
    BY <2>2, OnlyOnePoll
  <2> QED
    BY <2>2, <2>3 DEF Judged
<1> QED
  BY <1>1, SessionsInvariant, PTL DEF Spec, WrittenOnSignal

\* Only a poll that learned that the player was out of the game, or hidden, moves the
\* time of the next check away (recordSessionCheck): neither an error nor a timeout does.
THEOREM SessionsLiveRaiderNotBenched == Spec => LiveRaiderNotBenched
<1>1. ASSUME IInv, [Next]_vars
      PROVE  [ \A p \in Players :
                 check'[p].eligible > check[p].eligible =>
                     \E k \in Polls : By(k) /\ p \in OutOf(k) ]_vars
  <2> SUFFICES ASSUME Next, NEW p \in Players, check'[p].eligible > check[p].eligible
               PROVE  \E k \in Polls : By(k) /\ p \in OutOf(k)
    BY <1>1
  <2>1. JudgedStep
    BY <1>1, StepKeeps
  <2>2. ~(check[p].eligible > check[p].eligible)
    BY <1>1 DEF IInv, TypeOK
  <2>3. PICK k \in Polls : Judged(k)
    BY <2>1, <2>2 DEF JudgedStep
  <2> QED
    BY <2>3 DEF Judged
<1> QED
  BY <1>1, SessionsInvariant, PTL DEF Spec, LiveRaiderNotBenched

\* When the re-verification removes the row of a raid, the anchor and the members the
\* tracker knows are in crawl_queue after the same step (enqueueEndedSession); the
\* force-delete, which queues nobody, cannot meet a row the poll still holds.
THEOREM SessionsEndedRaidIsQueued == Spec => EndedRaidIsQueued
<1>1. ASSUME IInv, [Next]_vars
      PROVE  [ \A p \in Players, k \in Polls :
                 /\ session[p].raid /\ session'[p] = NoSession
                 /\ By(k) /\ poll[k].rows[p] = session[p]
                 => {p} \cup (session[p].party \cap known) \subseteq queued' ]_vars
  <2> SUFFICES ASSUME Next, NEW p \in Players, NEW k \in Polls,
                      session[p].raid, session'[p] = NoSession, By(k), poll[k].rows[p] = session[p]
               PROVE  {p} \cup (session[p].party \cap known) \subseteq queued'
    BY <1>1
  <2>1. JudgedStep
    BY <1>1, StepKeeps
  <2>2. session'[p] # session[p]
    BY NoSessionTyped
  <2>3. PICK j \in Polls : Judged(j)
    BY <2>1, <2>2 DEF JudgedStep, By
  <2>4. k = j
    BY <2>3, OnlyOnePoll
  <2> QED
    BY <2>3, <2>4 DEF Judged
<1> QED
  BY <1>1, SessionsInvariant, PTL DEF Spec, EndedRaidIsQueued
=============================================================================
