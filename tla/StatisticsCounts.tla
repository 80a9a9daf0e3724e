-------------------------- MODULE StatisticsCounts --------------------------
(***************************************************************************)
(* What is counted, for any tasks, workers, attempts and faults: no task   *)
(* more often than a worker took it up, none where its handler does not    *)
(* say so, and a completed one in every dimension its handler names, when  *)
(* no stale write dropped it.                                              *)
(***************************************************************************)
EXTENDS StatisticsProofs

\* How often task t may have passed the statement at place k of its plan: one
\* attempt less than it had while a worker has not passed it.
LimitIn(wk, att, t, k) ==
    IF k = 0 THEN 0
    ELSE IF \E w \in Workers : wk[w].task = t /\ wk[w].at <= k THEN att[t] - 1 ELSE att[t]
Limit(t, k) == LimitIn(worker, attempts, t, k)

\* Worker w has read the row of dimension d and not written it back yet.
HeldIn(wk, w, d) == /\ wk[w].task # NoTask
                    /\ ReadAt(wk[w].task, d) < wk[w].at
                    /\ wk[w].at <= WriteAt(wk[w].task, d)
Held(w, d) == HeldIn(worker, w, d)

\* The values of dimension d, in the table or in a worker's hands.
InPlay(d) == {portraits[d][i] : i \in 1 .. Len(portraits[d])}
                \union {worker[w].value : w \in {w \in Workers : Held(w, d)}}

CountedFirst(d, t) == \/ portraits[d] # << >> /\ portraits[d][1][t] > 0
                      \/ <<d, t>> \in clobbered

Counts == [Tasks -> Nat]

BaseInv == FeedbackInv /\ LooksInv

TypesInv ==
    /\ portraits \in [Dimensions -> Seq(Counts)]
    /\ rates \in [StepTasks -> SUBSET Counts]
    /\ gone \subseteq Tasks
    /\ faults \in 0 .. MaxFaults
    /\ clobbered \subseteq Dimensions \X Tasks
    /\ \A w \in Workers : worker[w].missing \in BOOLEAN /\ worker[w].value \in Counts

\* A worker is at a statement of its task's plan.
PlaceInv == \A w \in Workers : worker[w].task # NoTask =>
               worker[w].at \in 1 .. EnqueueAt(worker[w].task) + 1

AttemptsInv ==
    /\ \A t \in Tasks : attempts[t] <= MaxAttempts
    /\ \A t \in Tasks : status[t] \in {"new", "pending", "retry"} => attempts[t] < MaxAttempts
    /\ \A w \in Workers : worker[w].task # NoTask => attempts[worker[w].task] >= 1

\* Where task t may have written dimension d.
MayWriteAt(t, d) == IF d \in MayCountIn(t) THEN WriteAt(t, d) ELSE 0

\* Nothing is counted more often than its limit.
RowsInv ==
    \A d \in Dimensions, t \in Tasks : \A x \in InPlay(d) : x[t] <= Limit(t, MayWriteAt(t, d))
RatesInv ==
    \A s \in StepTasks, t \in Tasks : \A x \in rates[s] : x[t] <= Limit(t, RateAt(t))
SentInv ==
    \A t \in Tasks : feedback[t] <= Limit(t, EnqueueAt(t))
MemoryInv ==
    \A w \in Workers, t \in Tasks : worker[w].value[t] <= attempts[t]

LimitInv == RowsInv /\ RatesInv /\ SentInv /\ MemoryInv

\* A worker that holds a value has read it from a row.
HeldInv == \A w \in Workers, d \in Dimensions : Held(w, d) => portraits[d] # << >>

\* What a worker has written it finds in the first row, unless another worker
\* dropped it; the same for a task that is done.
PassedIn(wk, w, d) == /\ wk[w].task # NoTask
                      /\ d \in CountedIn(wk[w].task)
                      /\ wk[w].at > WriteAt(wk[w].task, d)
Passed(w, d) == PassedIn(worker, w, d)

WrittenInv == \A w \in Workers, d \in Dimensions : Passed(w, d) => CountedFirst(d, worker[w].task)
DoneInv    == \A t \in Tasks : status[t] = "done" => \A d \in CountedIn(t) : CountedFirst(d, t)

CountsInv == /\ BaseInv /\ TypesInv /\ PlaceInv /\ AttemptsInv
             /\ LimitInv
             /\ HeldInv /\ WrittenInv /\ DoneInv

-----------------------------------------------------------------------------
LEMMA LimitType ==
    ASSUME QueueInv, AttemptsInv, NEW t \in Tasks, NEW k \in Nat
    PROVE  Limit(t, k) \in Nat /\ Limit(t, k) <= attempts[t]
<1>1. attempts[t] \in Nat
  BY DEF QueueInv
<1>2. \A w \in Workers : worker[w].task = t => attempts[t] >= 1
  BY TasksAssumption DEF AttemptsInv
<1> QED
  BY <1>1, <1>2 DEF Limit, LimitIn

LEMMA LimitOf ==
    ASSUME QueueInv, NEW w \in Workers, NEW t \in Tasks, worker[w].task = t, NEW k \in Nat \ {0}
    PROVE  Limit(t, k) = IF worker[w].at <= k THEN attempts[t] - 1 ELSE attempts[t]
<1>1. \A v \in Workers : worker[v].task = t => v = w
  BY TasksAssumption DEF QueueInv
<1> QED
  BY <1>1 DEF Limit, LimitIn

\* A statement that succeeds.
LEMMA StatementLimit ==
    ASSUME QueueInv, AttemptsInv, NEW w \in Workers, Statement(w)
    PROVE  /\ \A t \in Tasks, k \in Nat : Limit(t, k) <= Limit(t, k)'
           /\ \A t \in Tasks, k \in Nat \ {0} :
                 worker[w].task = t /\ worker[w].at = k /\ worker'[w].at # k
                 => Limit(t, k)' = Limit(t, k) + 1
<1>1. /\ \A v \in Workers : worker'[v].task = worker[v].task
      /\ \A v \in Workers : worker[v].at \in Nat /\ worker'[v].at \in Nat
      /\ \A v \in Workers : worker[v].at <= worker'[v].at
      /\ attempts' = attempts
  <2>1. /\ \A v \in Workers \ {w} : worker'[v] = worker[v]
        /\ worker'[w].task = worker[w].task /\ attempts' = attempts
        /\ worker'[w].at \in {worker[w].at, worker[w].at + 1, worker[w].at + 3}
    BY DEF Statement, MovesOn, PassesOver
  <2>2. \A v \in Workers : worker[v].at \in Nat
    BY DEF QueueInv, WorkerInv
  <2>3. worker'[w].at \in Nat /\ worker[w].at <= worker'[w].at
    BY <2>1, <2>2
  <2> QED
    BY <2>1, <2>2, <2>3
<1>2. ASSUME NEW t \in Tasks, NEW k \in Nat PROVE Limit(t, k) <= Limit(t, k)'
  <2>1. attempts[t] \in Nat
    BY DEF QueueInv
  <2>2. ASSUME NEW v \in Workers, worker'[v].task = t, worker'[v].at <= k
        PROVE  worker[v].task = t /\ worker[v].at <= k
    BY <1>1, <2>2
  <2> QED
    BY <1>1, <2>1, <2>2 DEF Limit, LimitIn
<1>3. ASSUME NEW t \in Tasks, NEW k \in Nat \ {0},
             worker[w].task = t, worker[w].at = k, worker'[w].at # k
      PROVE  Limit(t, k)' = Limit(t, k) + 1
  <2>1. Limit(t, k) = attempts[t] - 1
    <3>1. Limit(t, k) = IF worker[w].at <= k THEN attempts[t] - 1 ELSE attempts[t]
      BY <1>3, LimitOf
    <3> QED
      BY <1>3, <3>1
  <2>2. \A v \in Workers : worker'[v].task = t => v = w
    BY <1>1, <1>3, TasksAssumption DEF QueueInv
  <2>3. Limit(t, k)' = attempts[t]
    BY <1>1, <1>3, <2>2 DEF Limit, LimitIn
  <2> QED
    BY <2>1, <2>3 DEF QueueInv
<1> QED
  BY <1>2, <1>3

LEMMA RestingLimit ==
    ASSUME QueueInv, NEW w \in Workers, worker' = [worker EXCEPT ![w] = Resting],
           UNCHANGED attempts
    PROVE  \A t \in Tasks, k \in Nat : Limit(t, k) <= Limit(t, k)'
<1> TAKE t \in Tasks, k \in Nat
<1>1. ASSUME NEW v \in Workers, worker'[v].task = t PROVE worker'[v] = worker[v]
  BY <1>1, RestingIs, TasksAssumption DEF QueueInv, WorkerInv
<1> QED
  BY <1>1 DEF Limit, LimitIn, QueueInv

LEMMA TakeLimit ==
    ASSUME QueueInv, NEW w \in Workers, Take(w)
    PROVE  \A t \in Tasks, k \in Nat : Limit(t, k) <= Limit(t, k)'
<1> TAKE t \in Tasks, k \in Nat
<1>1. /\ Head(queue) \in Tasks /\ status[Head(queue)] = "pending"
      /\ worker'[w].task = Head(queue) /\ \A v \in Workers \ {w} : worker'[v] = worker[v]
  BY TakeIs
<1>2. attempts' = [attempts EXCEPT ![Head(queue)] = @ + 1] /\ worker[w].task = NoTask
  BY DEF Take
<1>3. attempts[t] \in Nat
  BY DEF QueueInv
<1>4. CASE t = Head(queue)
  <2>1. \A v \in Workers : worker[v].task # t
    BY <1>1, <1>4, TasksAssumption DEF QueueInv
  <2>2. attempts'[t] = attempts[t] + 1
    BY <1>2, <1>4 DEF QueueInv
  <2> QED
    BY <1>3, <2>1, <2>2 DEF Limit, LimitIn
<1>5. CASE t # Head(queue)
  <2>1. attempts'[t] = attempts[t]
    BY <1>1, <1>2, <1>5 DEF QueueInv
  <2>2. \A v \in Workers : worker'[v].task = t => worker'[v] = worker[v]
    BY <1>1, <1>5
  <2> QED
    BY <1>3, <2>1, <2>2 DEF Limit, LimitIn
<1> QED
  BY <1>4, <1>5

-----------------------------------------------------------------------------
\* A step that takes away nothing a task may still be counted for.
Grows == /\ \A t \in Tasks, k \in Nat : Limit(t, k) \in Nat /\ Limit(t, k)' \in Nat
                                         /\ Limit(t, k) <= Limit(t, k)'
         /\ \A t \in Tasks : attempts[t] \in Nat /\ attempts'[t] \in Nat /\ attempts[t] <= attempts'[t]

LEMMA ZeroIs == Zero \in Counts /\ \A t \in Tasks : Zero[t] = 0
BY DEF Zero, Counts

LEMMA InPlayType ==
    ASSUME TypesInv, NEW d \in Dimensions
    PROVE  InPlay(d) \subseteq Counts
<1>1. portraits[d] \in Seq(Counts) /\ \A w \in Workers : worker[w].value \in Counts
  BY DEF TypesInv
<1>2. \A i \in 1 .. Len(portraits[d]) : portraits[d][i] \in Counts
  BY <1>1, ElementOfSeq
<1> QED
  BY <1>1, <1>2 DEF InPlay

LEMMA MayWriteIs ==
    ASSUME LooksInv, NEW t \in Tasks, NEW d \in Dimensions
    PROVE  /\ MayWriteAt(t, d) \in Nat
           /\ everHard \subseteq everHard' /\ LooksInv' =>
                MayWriteAt(t, d)' = MayWriteAt(t, d) \/ MayWriteAt(t, d) = 0
           /\ d \in CountedIn(t) => MayWriteAt(t, d) = WriteAt(t, d)
<1>1. WriteAt(t, d) \in Nat
  BY WritesIs
<1>2. CASE t \in TargetTasks \union StepTasks
  <2>1. t \notin CommentTasks
    BY <1>2, TasksAssumption
  <2> QED
    BY <1>1, <1>2, <2>1 DEF MayWriteAt, MayCountIn, CountedIn, LooksInv
<1>3. CASE t \in CommentTasks
  <2>1. t \notin TargetTasks /\ t \notin StepTasks
    BY <1>3, TasksAssumption
  <2>2. MayCountIn(t) = {Execution, Growth} \union (IF t \in everHard THEN {Discipline} ELSE {})
    BY <1>3, <2>1 DEF MayCountIn, CountedIn, LooksInv
  <2>3. LooksInv' =>
          MayCountIn(t)' = {Execution, Growth} \union (IF t \in everHard' THEN {Discipline} ELSE {})
    BY <1>3, <2>1 DEF MayCountIn, CountedIn, LooksInv
  <2>4. CountedIn(t) \subseteq MayCountIn(t)
    BY DEF MayCountIn
  <2> QED
    BY <1>1, <2>2, <2>3, <2>4 DEF MayWriteAt
<1> QED
  BY <1>2, <1>3 DEF Tasks

LEMMA KeepsRows ==
    ASSUME TypesInv, RowsInv, Grows, LooksInv, LooksInv', everHard \subseteq everHard',
           \A d \in Dimensions : InPlay(d)' \subseteq InPlay(d) \union {Zero}
    PROVE  RowsInv'
<1> SUFFICES ASSUME NEW d \in Dimensions, NEW t \in Tasks, NEW x \in InPlay(d)'
             PROVE  x[t] <= Limit(t, MayWriteAt(t, d))'
  BY DEF RowsInv
<1>1. PICK k \in Nat : k = MayWriteAt(t, d)
  BY MayWriteIs
<1>2. Limit(t, k) \in Nat /\ Limit(t, k)' \in Nat /\ Limit(t, k) <= Limit(t, k)'
  BY DEF Grows
<1>3. x \in Counts /\ (x = Zero \/ x[t] <= Limit(t, k))
  BY <1>1, InPlayType, ZeroIs DEF RowsInv
<1>4. x[t] \in Nat /\ x[t] <= Limit(t, k)
  BY <1>2, <1>3, ZeroIs DEF Counts
<1>5. PICK m \in Nat : m = MayWriteAt(t, d)' /\ (m = k \/ k = 0)
  <2>1. MayWriteAt(t, d)' = MayWriteAt(t, d) \/ MayWriteAt(t, d) = 0
    BY MayWriteIs
  <2>2. MayWriteAt(t, d)' \in Nat
    BY WritesIs DEF MayWriteAt
  <2> QED
    BY <1>1, <2>1, <2>2
<1>6. Limit(t, 0) = 0 /\ Limit(t, m)' \in Nat
  BY DEF Grows, Limit, LimitIn
<1>7. x[t] <= Limit(t, m)'
  BY <1>2, <1>4, <1>5, <1>6
<1> QED
  BY <1>5, <1>7

LEMMA KeepsRates ==
    ASSUME TypesInv, RatesInv, Grows,
           \A s \in StepTasks : rates'[s] \subseteq rates[s] \union {Zero}
    PROVE  RatesInv'
<1> SUFFICES ASSUME NEW s \in StepTasks, NEW t \in Tasks, NEW x \in rates'[s]
             PROVE  x[t] <= Limit(t, RateAt(t))'
  BY DEF RatesInv
<1>1. PICK k \in Nat : k = RateAt(t)
  BY DEF RateAt
<1>2. Limit(t, k) \in Nat /\ Limit(t, k)' \in Nat /\ Limit(t, k) <= Limit(t, k)'
  BY DEF Grows
<1>3. x \in Counts /\ (x = Zero \/ x[t] <= Limit(t, k))
  BY <1>1, ZeroIs DEF RatesInv, TypesInv
<1>4. x[t] \in Nat /\ x[t] <= Limit(t, k)
  BY <1>2, <1>3, ZeroIs DEF Counts
<1> QED
  BY <1>1, <1>2, <1>4

LEMMA KeepsSent ==
    ASSUME FeedbackInv, SentInv, Grows, UNCHANGED feedback
    PROVE  SentInv'
<1> SUFFICES ASSUME NEW t \in Tasks PROVE feedback'[t] <= Limit(t, EnqueueAt(t))'
  BY DEF SentInv
<1>1. PICK k \in Nat : k = EnqueueAt(t)
  BY DEF EnqueueAt
<1>2. Limit(t, k) \in Nat /\ Limit(t, k)' \in Nat /\ Limit(t, k) <= Limit(t, k)'
  BY DEF Grows
<1> QED
  BY <1>1, <1>2 DEF SentInv, FeedbackInv

LEMMA KeepsMemory ==
    ASSUME QueueInv, AttemptsInv, TypesInv, LooksInv, RowsInv, MemoryInv, Grows,
           \A w \in Workers : \/ worker'[w].value \in {worker[w].value, Zero}
                             \/ \E d \in Dimensions : worker'[w].value \in InPlay(d)
    PROVE  MemoryInv'
<1> SUFFICES ASSUME NEW w \in Workers, NEW t \in Tasks PROVE worker'[w].value[t] <= attempts'[t]
  BY DEF MemoryInv
<1>1. attempts[t] \in Nat /\ attempts'[t] \in Nat /\ attempts[t] <= attempts'[t]
  BY DEF Grows
<1>2. CASE worker'[w].value \in {worker[w].value, Zero}
  <2>1. worker[w].value[t] \in Nat /\ worker[w].value[t] <= attempts[t]
    BY DEF MemoryInv, TypesInv, Counts
  <2> QED
    BY <1>1, <1>2, <2>1, ZeroIs
<1>3. ASSUME NEW d \in Dimensions, worker'[w].value \in InPlay(d) PROVE worker'[w].value[t] <= attempts'[t]
  <2>1. PICK k \in Nat : k = MayWriteAt(t, d)
    BY MayWriteIs
  <2>2. Limit(t, k) \in Nat /\ Limit(t, k) <= attempts[t]
    BY LimitType
  <2>3. worker'[w].value[t] \in Nat /\ worker'[w].value[t] <= Limit(t, k)
    BY <1>3, <2>1, InPlayType DEF RowsInv, Counts
  <2> QED
    BY <1>1, <2>2, <2>3
<1> QED
  BY <1>2, <1>3

-----------------------------------------------------------------------------
(***************************************************************************)
(* Where a worker is.                                                      *)
(***************************************************************************)
LEMMA StageOf ==
    ASSUME QueueInv, PlaceInv, NEW w \in Workers, worker[w].task # NoTask
    PROVE  /\ worker[w].task \in Tasks
           /\ worker[w].at \in 1 .. EnqueueAt(worker[w].task) + 1
           /\ StageShape(worker[w].task, worker[w].at)
           /\ Dim(w) \in Dimensions
<1>1. worker[w].task \in Tasks /\ worker[w].at \in 1 .. EnqueueAt(worker[w].task) + 1
  BY DEF QueueInv, WorkerInv, PlaceInv
<1>2. StageShape(worker[w].task, worker[w].at)
  BY <1>1, ShapeIs
<1>3. Dim(w) \in Dimensions
  BY <1>2 DEF StageShape, Dim, AnyStage
<1> QED
  BY <1>1, <1>2, <1>3

\* What the tasks found of their steps stays but for what a worker that looks finds.
LooksKept(w) == /\ everHard \subseteq everHard'
                /\ \A t \in Tasks : t # worker[w].task \/ Do(w) # "step" => (t \in hard' <=> t \in hard)

LEMMA SameLooks ==
    ASSUME NEW w \in Workers, UNCHANGED looks
    PROVE  LooksKept(w)
BY DEF looks, LooksKept

LEMMA LooksDone ==
    ASSUME QueueInv, NEW w \in Workers, worker[w].task # NoTask, LooksKept(w)
    PROVE  \A t \in Tasks : status[t] = "done" => (t \in hard' <=> t \in hard)
BY DEF QueueInv, LooksKept

LEMMA StatementPlace ==
    ASSUME QueueInv, PlaceInv, AttemptsInv, NEW w \in Workers, Statement(w),
           worker'[w].at = worker[w].at \/ Do(w) # "ack"
    PROVE  PlaceInv' /\ AttemptsInv' /\ Grows
<1>1. /\ \A v \in Workers : worker'[v].task = worker[v].task
      /\ \A v \in Workers \ {w} : worker'[v].at = worker[v].at
      /\ worker'[w].at \in {worker[w].at, worker[w].at + 1} \/ PassesOver(w)
      /\ UNCHANGED <<attempts, status, queue>>
  BY DEF Statement, MovesOn
<1>2. AttemptsInv'
  BY <1>1 DEF AttemptsInv
<1>3. PICK t \in Tasks : t = worker[w].task
  BY StageOf DEF Statement
<1>4. worker'[w].at \in 1 .. EnqueueAt(t) + 1
  <2>1. worker[w].at \in 1 .. EnqueueAt(t) + 1 /\ StageShape(t, worker[w].at) /\ EnqueueAt(t) \in Nat
    BY <1>3, StageOf DEF Statement, EnqueueAt
  <2>2. Do(w) = "ack" <=> worker[w].at = EnqueueAt(t) + 1
    BY <1>3, <2>1 DEF StageShape, Do
  <2>3. CASE PassesOver(w)
    <3>1. t \in CommentTasks /\ t \notin TargetTasks /\ t \notin StepTasks
      BY <1>3, <2>3, TasksAssumption DEF PassesOver
    <3>2. worker[w].at = 7 /\ EnqueueAt(t) = 14
      BY <1>3, <2>1, <2>3, <3>1 DEF PassesOver, StageShape, Do, RateAt, EnqueueAt
    <3> QED
      BY <2>3, <3>2 DEF PassesOver
  <2>4. CASE worker'[w].at \in {worker[w].at, worker[w].at + 1}
    BY <2>1, <2>2, <2>4
  <2> QED
    BY <1>1, <2>3, <2>4
<1>5. PlaceInv'
  BY <1>1, <1>3, <1>4 DEF PlaceInv
<1>6. QueueInv'
  BY MovesOnQueue DEF Statement
<1>7. \A u \in Tasks, k \in Nat : Limit(u, k) \in Nat
  BY LimitType
<1>8. \A u \in Tasks, k \in Nat : Limit(u, k)' \in Nat
  <2>1. \A u \in Tasks : attempts'[u] \in Nat
    BY <1>6 DEF QueueInv
  <2>2. \A v \in Workers : worker'[v].task # NoTask => attempts'[worker'[v].task] >= 1
    BY <1>2 DEF AttemptsInv
  <2> QED
    BY <2>1, <2>2, TasksAssumption DEF Limit, LimitIn
<1>9. \A u \in Tasks, k \in Nat : Limit(u, k) <= Limit(u, k)'
  BY StatementLimit
<1>10. \A u \in Tasks : attempts[u] \in Nat /\ attempts'[u] \in Nat /\ attempts[u] <= attempts'[u]
  BY <1>1 DEF QueueInv
<1>11. Grows
  BY <1>7, <1>8, <1>9, <1>10 DEF Grows
<1> QED
  BY <1>2, <1>5, <1>11

\* A worker that holds a value it did not hold before has just read it; one
\* that gets past a write has just written.
LEMMA StatementMoves ==
    ASSUME QueueInv, PlaceInv, NEW w \in Workers, Statement(w), LooksKept(w),
           NEW v \in Workers, NEW d \in Dimensions
    PROVE  /\ Held(v, d)' => Held(v, d) \/ (v = w /\ Do(w) = "read" /\ Dim(w) = d /\ worker'[w].at # worker[w].at)
           /\ Passed(v, d)' => Passed(v, d) \/ (v = w /\ Do(w) = "write" /\ Dim(w) = d /\ worker'[w].at # worker[w].at)
<1>1. CASE v # w
  <2>1. worker'[v] = worker[v]
    BY <1>1 DEF Statement, MovesOn
  <2>2. Held(v, d)' => Held(v, d)
    BY <2>1 DEF Held, HeldIn
  <2>3. ASSUME Passed(v, d)' PROVE Passed(v, d)
    <3>1. PICK u \in Tasks : u = worker[v].task /\ u # worker[w].task
      BY <1>1, <2>1, <2>3 DEF Passed, PassedIn, QueueInv, WorkerInv, Statement
    <3>2. CountedIn(u)' = CountedIn(u)
      BY <3>1 DEF LooksKept, CountedIn
    <3> QED
      BY <2>1, <2>3, <3>1, <3>2 DEF Passed, PassedIn
  <2> QED
    BY <2>2, <2>3
<1>2. CASE v = w
  <2>1. PICK t \in Tasks : t = worker[w].task
    BY StageOf DEF Statement
  <2>2. PICK i \in 1 .. EnqueueAt(t) + 1 : i = worker[w].at
    BY <2>1, StageOf DEF Statement
  <2>3. worker'[w].task = t /\ t # NoTask /\ (worker'[w].at \in {i, i + 1} \/ PassesOver(w))
    BY <2>1, <2>2 DEF Statement, MovesOn
  <2>4. /\ Do(w) = "read" /\ Dim(w) = d <=> i = ReadAt(t, d)
        /\ Do(w) = "write" /\ Dim(w) = d <=> i = WriteAt(t, d)
        /\ Do(w) = "step" <=> i = LookAt(t)
        /\ Do(w) = "rate" <=> i = RateAt(t)
    BY <2>1, <2>2, ShapeIs DEF StageShape, Do, Dim
  <2>5. ReadAt(t, d) \in Nat /\ WriteAt(t, d) \in Nat /\ i \in Nat
    BY <2>2, WritesIs
  <2>6. Held(w, d)' => ReadAt(t, d) < worker'[w].at /\ worker'[w].at <= WriteAt(t, d)
    BY <2>3 DEF Held, HeldIn
  <2>7. Held(w, d) <=> ReadAt(t, d) < i /\ i <= WriteAt(t, d)
    BY <2>1, <2>2, <2>3 DEF Held, HeldIn
  <2>8. Passed(w, d)' => d \in CountedIn(t)' /\ worker'[w].at > WriteAt(t, d)
    BY <2>3 DEF Passed, PassedIn
  <2>9. Passed(w, d) <=> d \in CountedIn(t) /\ i > WriteAt(t, d)
    BY <2>1, <2>2, <2>3 DEF Passed, PassedIn
  <2>10. CASE worker'[w].at \in {i, i + 1}
    <3>1. Held(w, d)' => Held(w, d) \/ (i = ReadAt(t, d) /\ worker'[w].at # i)
      BY <2>5, <2>6, <2>7, <2>10
    <3>2. Passed(w, d)' => Passed(w, d) \/ (i = WriteAt(t, d) /\ worker'[w].at # i)
      <4>1. CASE Do(w) # "step"
        <5>1. CountedIn(t)' = CountedIn(t)
          BY <4>1 DEF LooksKept, CountedIn
        <5> QED
          BY <2>5, <2>8, <2>9, <2>10, <5>1
      <4>2. CASE Do(w) = "step"
        <5>1. t \in CommentTasks /\ i = 6
          BY <2>2, <2>4, <4>2 DEF LookAt
        <5>2. t \notin TargetTasks /\ t \notin StepTasks
          BY <5>1, TasksAssumption
        <5>3. d \in CountedIn(t)' => d \in {Discipline, Execution, Growth}
          BY <5>1, <5>2 DEF CountedIn
        <5>4. d \in {Discipline, Execution, Growth} => WriteAt(t, d) >= 9
          BY <5>1, <5>2 DEF WriteAt, Discipline, Execution, Growth
        <5> QED
          BY <2>5, <2>8, <2>10, <5>1, <5>3, <5>4
      <4> QED
        BY <4>1, <4>2
    <3> QED
      BY <1>2, <2>2, <2>4, <3>1, <3>2
  <2>11. CASE PassesOver(w)
    <3>1. t \in CommentTasks /\ t \notin hard /\ t \notin TargetTasks /\ t \notin StepTasks
      BY <2>1, <2>11, TasksAssumption DEF PassesOver
    <3>2. i = 7 /\ worker'[w].at = 10 /\ Do(w) = "rate"
      BY <2>2, <2>4, <2>11, <3>1 DEF PassesOver, RateAt
    <3>3. CountedIn(t)' = CountedIn(t)
      BY <3>2 DEF LooksKept, CountedIn
    <3>4. CountedIn(t) = {Execution, Growth}
      BY <3>1 DEF CountedIn
    <3>5. WriteAt(t, d) \in {0, 9, 11, 13} /\ ReadAt(t, d) \in {0, 8, 10, 12}
          /\ (WriteAt(t, d) = 11 => ReadAt(t, d) = 10) /\ (WriteAt(t, d) = 13 => ReadAt(t, d) = 12)
      BY <3>1 DEF WriteAt, ReadAt
    <3>6. d \in CountedIn(t) => WriteAt(t, d) >= 11
      BY <3>1, <3>4 DEF WriteAt, Discipline, Execution, Growth
    <3> QED
      BY <1>2, <2>6, <2>8, <3>2, <3>3, <3>5, <3>6
  <2> QED
    BY <2>3, <2>10, <2>11
<1> QED
  BY <1>1, <1>2

-----------------------------------------------------------------------------
(***************************************************************************)
(* Statements that add no task to a row.                                   *)
(***************************************************************************)
RowsKept ==
    /\ UNCHANGED clobbered
    /\ \A d \in Dimensions : portraits[d] # << >> =>
          portraits'[d] # << >> /\ portraits'[d][1] = portraits[d][1]
    /\ \A d \in Dimensions : \A i \in 1 .. Len(portraits'[d]) :
          portraits'[d][i] = Zero \/ \E j \in 1 .. Len(portraits[d]) : portraits'[d][i] = portraits[d][j]

LEMMA SameRows ==
    ASSUME UNCHANGED <<portraits, clobbered>>
    PROVE  RowsKept
BY DEF RowsKept

LEMMA KeptInPlay ==
    ASSUME RowsKept, NEW d \in Dimensions,
           \A v \in Workers : Held(v, d)' => \/ Held(v, d) /\ worker'[v].value = worker[v].value
                                           \/ worker'[v].value \in InPlay(d)
    PROVE  InPlay(d)' \subseteq InPlay(d) \union {Zero}
<1> SUFFICES ASSUME NEW x \in InPlay(d)', x # Zero PROVE x \in InPlay(d)
  OBVIOUS
<1>1. CASE \E i \in 1 .. Len(portraits'[d]) : x = portraits'[d][i]
  BY <1>1 DEF RowsKept, InPlay
<1>2. CASE \E v \in Workers : Held(v, d)' /\ x = worker'[v].value
  BY <1>2 DEF InPlay
<1> QED
  BY <1>1, <1>2 DEF InPlay

LEMMA KeptCounted ==
    ASSUME RowsKept
    PROVE  \A d \in Dimensions, t \in Tasks : CountedFirst(d, t) => CountedFirst(d, t)'
BY DEF RowsKept, CountedFirst

LEMMA CountedInIs == \A t \in Tasks : CountedIn(t) \subseteq Dimensions
BY TasksAssumption DEF CountedIn, Dimensions, Tasks

LEMMA KeepsWritten ==
    ASSUME QueueInv, WrittenInv,
           \A d \in Dimensions, t \in Tasks : CountedFirst(d, t) => CountedFirst(d, t)',
           \A v \in Workers, d \in Dimensions :
              Passed(v, d)' => Passed(v, d) /\ worker'[v].task = worker[v].task
    PROVE  WrittenInv'
<1> SUFFICES ASSUME NEW v \in Workers, NEW d \in Dimensions, Passed(v, d)'
             PROVE  CountedFirst(d, worker[v].task)'
  BY DEF WrittenInv
<1>1. Passed(v, d) /\ worker'[v].task = worker[v].task
  OBVIOUS
<1>2. PICK t \in Tasks : t = worker[v].task
  BY <1>1 DEF Passed, PassedIn, QueueInv, WorkerInv
<1>3. CountedFirst(d, t)'
  BY <1>1, <1>2 DEF WrittenInv
<1> QED
  BY <1>1, <1>2, <1>3

LEMMA KeepsDone ==
    ASSUME DoneInv,
           \A d \in Dimensions, t \in Tasks : CountedFirst(d, t) => CountedFirst(d, t)',
           \A t \in Tasks : status'[t] = "done" => status[t] = "done" /\ (t \in hard' <=> t \in hard)
    PROVE  DoneInv'
<1> SUFFICES ASSUME NEW t \in Tasks, status'[t] = "done", NEW d \in CountedIn(t)'
             PROVE  CountedFirst(d, t)'
  BY DEF DoneInv
<1>1. status[t] = "done" /\ CountedIn(t)' = CountedIn(t)
  BY DEF CountedIn
<1>2. d \in Dimensions /\ CountedFirst(d, t)
  BY <1>1, CountedInIs DEF DoneInv
<1> QED
  BY <1>2

LEMMA GentleStatement ==
    ASSUME CountsInv, LooksInv', NEW w \in Workers, Statement(w), LooksKept(w), RowsKept,
           worker'[w].at = worker[w].at \/ Do(w) \notin {"read", "write", "ack"},
           \A v \in Workers : worker'[v].value = worker[v].value
    PROVE  PlaceInv' /\ AttemptsInv' /\ Grows /\ RowsInv' /\ MemoryInv' /\ HeldInv' /\ WrittenInv' /\ DoneInv'
<1> USE DEF CountsInv, BaseInv, FeedbackInv, LimitInv
<1>1. PlaceInv' /\ AttemptsInv' /\ Grows
  BY StatementPlace
<1>2. \A v \in Workers, d \in Dimensions : (Held(v, d)' => Held(v, d)) /\ (Passed(v, d)' => Passed(v, d))
  BY StatementMoves
<1>3. \A d \in Dimensions : InPlay(d)' \subseteq InPlay(d) \union {Zero}
  BY <1>2, KeptInPlay
<1>4. RowsInv'
  BY <1>1, <1>3, KeepsRows DEF LooksKept
<1>5. MemoryInv'
  BY <1>1, KeepsMemory
<1>6. HeldInv'
  BY <1>2 DEF HeldInv, RowsKept
<1>7. WrittenInv'
  <2>1. \A v \in Workers : worker'[v].task = worker[v].task
    BY DEF Statement, MovesOn
  <2> QED
    BY <1>2, <2>1, KeptCounted, KeepsWritten
<1>8. DoneInv'
  <2>1. UNCHANGED status /\ worker[w].task # NoTask
    BY DEF Statement
  <2> QED
    BY <2>1, KeptCounted, LooksDone, KeepsDone
<1> QED
  BY <1>1, <1>4, <1>5, <1>6, <1>7, <1>8

-----------------------------------------------------------------------------
(***************************************************************************)
(* Reading and writing a row.                                              *)
(***************************************************************************)
LEMMA ReadCounts ==
    ASSUME CountsInv, BaseInv', NEW w \in Workers, ReadPortrait(w), Statement(w)
    PROVE  CountsInv'
<1> USE DEF CountsInv, BaseInv, FeedbackInv, LimitInv
<1>1. worker[w].task # NoTask /\ Do(w) = "read"
  BY DEF ReadPortrait, At, Do
<1>2. PICK t \in Tasks : t = worker[w].task
  BY <1>1, StageOf
<1>3. PICK d \in Dimensions : d = Dim(w)
  BY <1>1, StageOf
<1>4. ~Fail(w)
  <2>1. worker'[w].task # NoTask
    BY <1>1 DEF Statement, MovesOn
  <2> QED
    BY <2>1, RestingIs DEF Fail, QueueInv, WorkerInv
<1>5. /\ Len(portraits[d]) = 1
      /\ worker' = [worker EXCEPT ![w].at = @ + 1, ![w].value = portraits[d][1]]
      /\ UNCHANGED <<portraits, rates, gone, feedback, faults, clobbered, looks>>
  BY <1>3, <1>4 DEF ReadPortrait
<1>6. /\ worker'[w].value = portraits[d][1] /\ worker'[w].missing = worker[w].missing
      /\ \A v \in Workers \ {w} : worker'[v] = worker[v]
  BY <1>5 DEF QueueInv, WorkerInv, Fields
<1>7. portraits[d][1] \in InPlay(d) /\ portraits[d] # << >>
  <2>1. 1 \in 1 .. Len(portraits[d])
    BY <1>5
  <2>2. portraits[d] \in Seq(Counts) /\ Len(portraits[d]) # 0
    BY <1>5 DEF TypesInv
  <2>3. portraits[d] # << >>
    BY <2>2
  <2> QED
    BY <2>1, <2>3 DEF InPlay
<1>8. PlaceInv' /\ AttemptsInv' /\ Grows /\ LooksKept(w)
  BY <1>1, <1>5, StatementPlace, SameLooks
<1>9. ASSUME NEW v \in Workers, NEW e \in Dimensions, Held(v, e)'
      PROVE  \/ Held(v, e) /\ worker'[v].value = worker[v].value
             \/ worker'[v].value \in InPlay(e) /\ portraits[e] # << >>
  <2>1. CASE v # w
    BY <1>6, <1>8, <1>9, <2>1, StatementMoves
  <2>2. CASE v = w /\ e = d
    BY <1>6, <1>7, <2>2
  <2>3. CASE v = w /\ e # d
    <3>1. Held(w, e)
      BY <1>3, <1>8, <1>9, <2>3, StatementMoves
    <3>2. ReadAt(t, e) < worker[w].at /\ worker[w].at <= WriteAt(t, e)
      BY <1>2, <3>1 DEF Held, HeldIn
    <3>3. worker[w].at = ReadAt(t, d)
      <4>1. StageShape(t, worker[w].at)
        BY <1>1, <1>2, StageOf
      <4> QED
        BY <1>1, <1>2, <1>3, <4>1 DEF StageShape, Do, Dim
    <3>4. ReadAt(t, e) < ReadAt(t, d) => WriteAt(t, e) < ReadAt(t, d)
      BY WritesIs
    <3>5. WriteAt(t, e) \in Nat /\ ReadAt(t, d) \in Nat
      BY WritesIs
    <3> QED
      BY <3>2, <3>3, <3>4, <3>5
  <2> QED
    BY <2>1, <2>2, <2>3
<1>10. RowsKept
  BY <1>5, SameRows
<1>11. RowsInv'
  <2>1. \A e \in Dimensions : InPlay(e)' \subseteq InPlay(e) \union {Zero}
    BY <1>9, <1>10, KeptInPlay
  <2> QED
    BY <1>8, <2>1, KeepsRows DEF LooksKept
<1>12. MemoryInv'
  BY <1>6, <1>7, <1>8, KeepsMemory
<1>13. RatesInv' /\ SentInv'
  BY <1>5, <1>8, KeepsRates, KeepsSent
<1>14. HeldInv'
  BY <1>5, <1>9 DEF HeldInv
<1>15. WrittenInv'
  <2>1. \A v \in Workers, e \in Dimensions : Passed(v, e)' => Passed(v, e)
    BY <1>1, <1>8, StatementMoves
  <2>2. \A v \in Workers : worker'[v].task = worker[v].task
    BY DEF Statement, MovesOn
  <2> QED
    BY <1>10, <2>1, <2>2, KeptCounted, KeepsWritten
<1>16. DoneInv'
  <2>1. UNCHANGED status
    BY DEF Statement
  <2> QED
    BY <1>1, <1>8, <1>10, <2>1, KeptCounted, LooksDone, KeepsDone
<1>17. TypesInv'
  <2>1. portraits[d][1] \in Counts
    BY <1>7, InPlayType
  <2> QED
    BY <1>5, <1>6, <2>1 DEF TypesInv
<1> QED
  BY <1>8, <1>11, <1>12, <1>13, <1>14, <1>15, <1>16, <1>17

LEMMA WriteCounts ==
    ASSUME CountsInv, BaseInv', NEW w \in Workers, WritePortrait(w)
    PROVE  CountsInv'
<1> USE DEF CountsInv, BaseInv, FeedbackInv, LimitInv
<1>1. worker[w].task # NoTask /\ Do(w) = "write"
  BY DEF WritePortrait, At, Do
<1>2. PICK t \in Tasks : t = worker[w].task
  BY <1>1, StageOf
<1>3. PICK d \in Dimensions : d = Dim(w)
  BY <1>1, StageOf
<1>4. Proceed(w) /\ UNCHANGED <<rates, gone, queue, status, attempts, feedback, faults, looks>>
  BY DEF WritePortrait
<1>5. Statement(w) /\ worker'[w].at = worker[w].at + 1
  BY <1>1, <1>4, ProceedIs DEF Statement, QueueInv
<1>6. PICK k \in Nat \ {0} : k = MayWriteAt(t, d) /\ worker[w].at = k /\ Held(w, d)
  <2>1. StageShape(t, worker[w].at) /\ worker[w].at \in Nat \ {0}
    <3>1. EnqueueAt(t) \in Nat
      BY DEF EnqueueAt
    <3> QED
      BY <1>1, <1>2, <3>1, StageOf
  <2>2. worker[w].at = WriteAt(t, d)
    BY <1>1, <1>2, <1>3, <2>1 DEF StageShape, Do, Dim
  <2>3. ReadAt(t, d) < WriteAt(t, d) /\ WriteAt(t, d) \in Nat
    BY <2>1, <2>2, WritesIs
  <2>4. Held(w, d)
    BY <1>1, <1>2, <2>2, <2>3 DEF Held, HeldIn
  <2>5. d \in CountedIn(t)
    <3>1. t \in CommentTasks /\ d = Discipline => WriteAt(t, d) = 9
      BY WritesIs
    <3>2. t \in CommentTasks /\ worker[w].at = 9 => t \in hard
      BY <1>2 DEF LooksInv, CommentStage
    <3> QED
      BY <2>1, <2>2, <3>1, <3>2, WritesIs
  <2>6. MayWriteAt(t, d) = WriteAt(t, d)
    BY <2>5, MayWriteIs
  <2> QED
    BY <2>1, <2>2, <2>4, <2>6
<1>7. PICK x \in Counts : x = worker[w].value /\ x \in InPlay(d)
  BY <1>6 DEF TypesInv, InPlay
<1>8. PICK y \in Counts : y = Written(w) /\ y[t] = x[t] + 1 /\ \A u \in Tasks \ {t} : y[u] = x[u]
  <2>1. Written(w) = [x EXCEPT ![t] = @ + 1]
    BY <1>2, <1>7 DEF Written, Add
  <2>2. x \in [Tasks -> Nat] /\ x[t] + 1 \in Nat
    BY DEF Counts
  <2>3. Written(w) \in [Tasks -> Nat]
    BY <2>1, <2>2
  <2> QED
    BY <2>1, <2>2, <2>3 DEF Counts
<1>9. portraits[d] # << >> /\ portraits[d] \in Seq(Counts) /\ 1 \in 1 .. Len(portraits[d])
  BY <1>6 DEF HeldInv, TypesInv
<1>10. /\ portraits' = [portraits EXCEPT ![d][1] = y]
       /\ clobbered' = clobbered \union {<<d, u>> : u \in {u \in Tasks : y[u] < portraits[d][1][u]}}
  BY <1>3, <1>8 DEF WritePortrait
<1>11. /\ portraits' \in [Dimensions -> Seq(Counts)]
       /\ portraits'[d] # << >> /\ portraits'[d][1] = y /\ Len(portraits'[d]) = Len(portraits[d])
       /\ \A i \in 1 .. Len(portraits[d]) : i # 1 => portraits'[d][i] = portraits[d][i]
       /\ \A e \in Dimensions \ {d} : portraits'[e] = portraits[e]
  <2>1. /\ [portraits[d] EXCEPT ![1] = y] \in Seq(Counts)
        /\ Len([portraits[d] EXCEPT ![1] = y]) = Len(portraits[d])
        /\ [portraits[d] EXCEPT ![1] = y][1] = y
        /\ \A i \in 1 .. Len(portraits[d]) : i # 1 => [portraits[d] EXCEPT ![1] = y][i] = portraits[d][i]
    BY <1>9
  <2>2. [portraits[d] EXCEPT ![1] = y] # << >>
    BY <1>9, <2>1
  <2>3. /\ portraits'[d] = [portraits[d] EXCEPT ![1] = y]
        /\ \A e \in Dimensions \ {d} : portraits'[e] = portraits[e]
        /\ portraits' = [portraits EXCEPT ![d] = [portraits[d] EXCEPT ![1] = y]]
    BY <1>10 DEF TypesInv
  <2> QED
    BY <2>1, <2>2, <2>3 DEF TypesInv
<1>12. PlaceInv' /\ AttemptsInv' /\ Grows /\ LooksKept(w)
  BY <1>1, <1>4, <1>5, StatementPlace, SameLooks
<1>13. \A v \in Workers : worker'[v].value = worker[v].value /\ worker'[v].missing \in BOOLEAN
  BY <1>4 DEF Proceed, QueueInv, WorkerInv, Fields, TypesInv
<1>14. \A v \in Workers, e \in Dimensions : Held(v, e)' => Held(v, e)
  BY <1>1, <1>5, <1>12, StatementMoves
<1>15. \A e \in Dimensions : \A z \in InPlay(e)' : z \in InPlay(e) \/ (e = d /\ z = y)
  <2> SUFFICES ASSUME NEW e \in Dimensions, NEW z \in InPlay(e)', z \notin InPlay(e)
               PROVE  e = d /\ z = y
    OBVIOUS
  <2>1. CASE \E v \in Workers : Held(v, e)' /\ z = worker'[v].value
    BY <1>13, <1>14, <2>1 DEF InPlay
  <2>2. CASE \E i \in 1 .. Len(portraits'[e]) : z = portraits'[e][i]
    <3>1. PICK i \in 1 .. Len(portraits'[e]) : z = portraits'[e][i]
      BY <2>2
    <3>2. \A j \in 1 .. Len(portraits[e]) : z # portraits[e][j]
      BY DEF InPlay
    <3> QED
      BY <1>11, <3>1, <3>2
  <2> QED
    BY <2>1, <2>2 DEF InPlay
<1>16. RowsInv'
  <2> SUFFICES ASSUME NEW e \in Dimensions, NEW u \in Tasks, NEW z \in InPlay(e)'
               PROVE  z[u] <= Limit(u, MayWriteAt(u, e))'
    BY DEF RowsInv
  <2>1. PICK m \in Nat : m = MayWriteAt(u, e) /\ MayWriteAt(u, e)' = m
    <3>1. MayWriteAt(u, e)' = MayWriteAt(u, e)
      BY <1>4 DEF MayWriteAt, MayCountIn, CountedIn, looks
    <3> QED
      BY <3>1, MayWriteIs
  <2>2. Limit(u, m) \in Nat /\ Limit(u, m)' \in Nat /\ Limit(u, m) <= Limit(u, m)'
    BY <1>12 DEF Grows
  <2>3. CASE z \in InPlay(e)
    BY <2>1, <2>2, <2>3, InPlayType DEF RowsInv, Counts
  <2>4. CASE e = d /\ z = y
    <3>1. x[u] \in Nat /\ x[u] <= Limit(u, m)
      BY <1>7, <2>1, <2>4 DEF RowsInv, Counts
    <3>2. u = t => Limit(u, m)' = Limit(u, m) + 1
      BY <1>2, <1>5, <1>6, <2>1, <2>4, StatementLimit
    <3> QED
      BY <1>8, <2>1, <2>2, <2>4, <3>1, <3>2
  <2> QED
    BY <1>15, <2>3, <2>4
<1>17. MemoryInv'
  BY <1>12, <1>13, KeepsMemory
<1>18. RatesInv' /\ SentInv'
  BY <1>4, <1>12, KeepsRates, KeepsSent
<1>19. HeldInv'
  <2>1. \A e \in Dimensions : portraits[e] # << >> => portraits'[e] # << >>
    BY <1>11
  <2> QED
    BY <1>14, <2>1 DEF HeldInv
<1>20. \A e \in Dimensions, u \in Tasks : CountedFirst(e, u) => CountedFirst(e, u)'
  <2> TAKE e \in Dimensions, u \in Tasks
  <2>1. CASE <<e, u>> \in clobbered
    BY <1>10, <2>1 DEF CountedFirst
  <2>2. CASE e # d /\ <<e, u>> \notin clobbered
    BY <1>11, <2>2 DEF CountedFirst
  <2>3. CASE e = d /\ <<e, u>> \notin clobbered
    <3>1. portraits[d][1] \in Counts
      BY <1>9, ElementOfSeq
    <3>2. y[u] \in Nat /\ portraits[d][1][u] \in Nat
      BY <3>1 DEF Counts
    <3>3. CASE y[u] < portraits[d][1][u]
      BY <1>10, <2>3, <3>3 DEF CountedFirst
    <3>4. CASE ~(y[u] < portraits[d][1][u])
      BY <1>11, <2>3, <3>2, <3>4 DEF CountedFirst
    <3> QED
      BY <3>3, <3>4
  <2> QED
    BY <2>1, <2>2, <2>3
<1>21. CountedFirst(d, t)'
  <2>1. y[t] > 0
    BY <1>8, <1>7 DEF Counts
  <2> QED
    BY <1>11, <2>1 DEF CountedFirst
<1>22. WrittenInv'
  <2> SUFFICES ASSUME NEW v \in Workers, NEW e \in Dimensions, Passed(v, e)'
               PROVE  CountedFirst(e, worker[v].task)'
    BY DEF WrittenInv
  <2>1. worker'[v].task = worker[v].task
    BY <1>5 DEF Statement, MovesOn
  <2>2. CASE Passed(v, e)
    <3>1. PICK u \in Tasks : u = worker[v].task
      BY <2>2 DEF Passed, PassedIn, QueueInv, WorkerInv
    <3>2. CountedFirst(e, u)'
      BY <1>20, <2>2, <3>1 DEF WrittenInv
    <3> QED
      BY <2>1, <3>1, <3>2
  <2>3. CASE ~Passed(v, e)
    <3>1. v = w /\ e = d
      BY <1>3, <1>5, <1>12, <2>3, StatementMoves
    <3> QED
      BY <1>2, <1>21, <2>1, <3>1
  <2> QED
    BY <2>2, <2>3
<1>23. DoneInv'
  BY <1>1, <1>4, <1>12, <1>20, LooksDone, KeepsDone
<1>24. TypesInv'
  <2>1. clobbered' \subseteq Dimensions \X Tasks
    BY <1>10 DEF TypesInv
  <2> QED
    BY <1>4, <1>11, <1>13, <2>1 DEF TypesInv
<1> QED
  BY <1>12, <1>16, <1>17, <1>18, <1>19, <1>22, <1>23, <1>24

-----------------------------------------------------------------------------
(***************************************************************************)
(* A worker that takes a task or lets it go.                               *)
(***************************************************************************)
LEMMA LimitPrime ==
    ASSUME QueueInv', AttemptsInv', NEW t \in Tasks, NEW k \in Nat
    PROVE  Limit(t, k)' \in Nat
<1>1. \A u \in Tasks : attempts'[u] \in Nat
  BY DEF QueueInv
<1>2. \A v \in Workers : worker'[v].task # NoTask => attempts'[worker'[v].task] >= 1
  BY DEF AttemptsInv
<1> QED
  BY <1>1, <1>2, TasksAssumption DEF Limit, LimitIn

\* The rows stay and no worker gets hold of a value.
LEMMA RowsUntouched ==
    ASSUME TypesInv, RowsInv, RatesInv, SentInv, HeldInv, BaseInv, LooksInv', Grows,
           UNCHANGED <<portraits, rates, feedback, clobbered, looks>>,
           \A v \in Workers, d \in Dimensions :
              Held(v, d)' => Held(v, d) /\ worker'[v].value = worker[v].value
    PROVE  RowsInv' /\ RatesInv' /\ SentInv' /\ HeldInv'
<1>1. RowsKept
  BY SameRows
<1>2. \A d \in Dimensions : InPlay(d)' \subseteq InPlay(d) \union {Zero}
  BY <1>1, KeptInPlay
<1>3. RowsInv' /\ RatesInv' /\ SentInv'
  BY <1>2, KeepsRows, KeepsRates, KeepsSent DEF BaseInv, looks
<1>4. HeldInv'
  BY DEF HeldInv
<1> QED
  BY <1>3, <1>4

LEMMA RestingFields == Resting.value = Zero /\ Resting.missing = FALSE
BY DEF Resting

LEMMA RestingCounts ==
    ASSUME CountsInv, BaseInv', NEW w \in Workers, worker[w].task # NoTask,
           NEW x \in {"retry", "archived", "done"},
           worker' = [worker EXCEPT ![w] = Resting],
           status' = [status EXCEPT ![worker[w].task] = x],
           x = "retry" => attempts[worker[w].task] < MaxAttempts,
           x = "done" => Do(w) = "ack",
           UNCHANGED <<portraits, rates, gone, attempts, feedback, clobbered, looks>>,
           faults' \in 0 .. MaxFaults
    PROVE  CountsInv'
<1> USE DEF CountsInv, BaseInv, FeedbackInv, LimitInv
<1>1. worker'[w] = Resting /\ \A v \in Workers \ {w} : worker'[v] = worker[v]
  BY DEF QueueInv, WorkerInv
<1>2. PICK t \in Tasks : t = worker[w].task
  BY StageOf
<1>3. status'[t] = x /\ \A u \in Tasks \ {t} : status'[u] = status[u]
  BY <1>2 DEF QueueInv
<1>4. \A v \in Workers : worker'[v].task # NoTask => worker'[v] = worker[v]
  BY <1>1, RestingIs
<1>5. PlaceInv'
  BY <1>4 DEF PlaceInv
<1>6. AttemptsInv'
  BY <1>2, <1>3, <1>4 DEF AttemptsInv
<1>7. Grows
  <2>1. \A u \in Tasks, k \in Nat : Limit(u, k) \in Nat /\ Limit(u, k)' \in Nat
    BY <1>6, LimitType, LimitPrime
  <2>2. \A u \in Tasks, k \in Nat : Limit(u, k) <= Limit(u, k)'
    BY RestingLimit
  <2>3. \A u \in Tasks : attempts[u] \in Nat /\ attempts'[u] = attempts[u]
    BY DEF QueueInv
  <2> QED
    BY <2>1, <2>2, <2>3 DEF Grows
<1>8. \A v \in Workers, d \in Dimensions : Held(v, d)' => Held(v, d) /\ worker'[v].value = worker[v].value
  BY <1>4 DEF Held, HeldIn
<1>9. RowsInv' /\ RatesInv' /\ SentInv' /\ HeldInv'
  BY <1>7, <1>8, RowsUntouched
<1>10. MemoryInv'
  <2>1. \A v \in Workers : worker'[v].value \in {worker[v].value, Zero}
    BY <1>1, RestingFields
  <2> QED
    BY <1>7, <2>1, KeepsMemory
<1>11. WrittenInv'
  <2>1. \A d \in Dimensions, u \in Tasks : CountedFirst(d, u) => CountedFirst(d, u)'
    BY DEF CountedFirst
  <2>2. \A v \in Workers, d \in Dimensions : Passed(v, d)' => Passed(v, d) /\ worker'[v].task = worker[v].task
    <3>1. \A u \in Tasks : CountedIn(u)' = CountedIn(u)
      BY DEF CountedIn, looks
    <3>2. \A v \in Workers : worker'[v].task # NoTask => worker'[v].task \in Tasks
      BY DEF QueueInv, WorkerInv
    <3> QED
      BY <1>4, <3>1, <3>2 DEF Passed, PassedIn
  <2> QED
    BY <2>1, <2>2, KeepsWritten
<1>12. DoneInv'
  <2> SUFFICES ASSUME NEW u \in Tasks, status'[u] = "done", NEW d \in CountedIn(u)
               PROVE  CountedFirst(d, u)'
    BY DEF DoneInv, CountedIn, looks
  <2>1. d \in Dimensions
    BY CountedInIs
  <2>2. CountedFirst(d, u)
    <3>1. CASE u # t
      BY <1>3, <3>1 DEF DoneInv
    <3>2. CASE u = t
      <4>1. Do(w) = "ack"
        BY <1>3, <3>2
      <4>2. worker[w].at = EnqueueAt(t) + 1
        <5>1. StageShape(t, worker[w].at)
          BY <1>2, StageOf
        <5> QED
          BY <1>2, <4>1, <5>1 DEF StageShape, Do
      <4>3. WriteAt(t, d) < EnqueueAt(t) + 1
        <5>1. WriteAt(t, d) \in 0 .. EnqueueAt(t) - 1 /\ EnqueueAt(t) \in 8 .. 14
          BY <2>1, <3>2, WritesIs
        <5> QED
          BY <5>1
      <4>4. Passed(w, d)
        BY <1>2, <3>2, <4>2, <4>3 DEF Passed, PassedIn
      <4> QED
        BY <1>2, <2>1, <3>2, <4>4 DEF WrittenInv
    <3> QED
      BY <3>1, <3>2
  <2> QED
    BY <2>2 DEF CountedFirst
<1>13. TypesInv'
  <2>1. \A v \in Workers : worker'[v].missing \in BOOLEAN /\ worker'[v].value \in Counts
    BY <1>1, RestingFields, ZeroIs DEF TypesInv
  <2> QED
    BY <2>1 DEF TypesInv
<1> QED
  BY <1>5, <1>6, <1>9, <1>10, <1>11, <1>12, <1>13

LEMMA FailCounts ==
    ASSUME CountsInv, BaseInv', NEW w \in Workers, worker[w].task # NoTask, Fail(w),
           UNCHANGED <<portraits, rates, gone, attempts, feedback, clobbered, looks>>,
           faults' \in 0 .. MaxFaults
    PROVE  CountsInv'
<1> DEFINE x == IF attempts[worker[w].task] < MaxAttempts THEN "retry" ELSE "archived"
<1>1. /\ x \in {"retry", "archived", "done"} /\ x # "done"
      /\ x = "retry" => attempts[worker[w].task] < MaxAttempts
  OBVIOUS
<1>2. worker' = [worker EXCEPT ![w] = Resting] /\ status' = [status EXCEPT ![worker[w].task] = x]
  BY DEF Fail
<1> HIDE DEF x
<1> QED
  BY <1>1, <1>2, RestingCounts

LEMMA AckCounts ==
    ASSUME CountsInv, BaseInv', NEW w \in Workers, Ack(w)
    PROVE  CountsInv'
<1>1. faults' \in 0 .. MaxFaults
  BY DEF Ack, CountsInv, TypesInv
<1>2. worker[w].task # NoTask /\ Do(w) = "ack"
  BY DEF Ack, At, Do
<1> DEFINE x == "done"
<1>3. /\ worker' = [worker EXCEPT ![w] = Resting]
      /\ status' = [status EXCEPT ![worker[w].task] = x]
      /\ UNCHANGED <<portraits, rates, gone, attempts, feedback, clobbered, looks>>
  BY DEF Ack
<1>4. x \in {"retry", "archived", "done"} /\ x # "retry"
  OBVIOUS
<1> HIDE DEF x
<1> QED
  BY <1>1, <1>2, <1>3, <1>4, RestingCounts

LEMMA TakeCounts ==
    ASSUME CountsInv, BaseInv', NEW w \in Workers, Take(w)
    PROVE  CountsInv'
<1> USE DEF CountsInv, BaseInv, FeedbackInv, LimitInv
<1>1. PICK t \in Tasks : t = Head(queue) /\ status[t] = "pending"
  BY TakeIs
<1>2. /\ worker'[w].task = t /\ worker'[w].at = 1
      /\ \A v \in Workers \ {w} : worker'[v] = worker[v]
  BY <1>1, TakeIs
<1>3. worker'[w].value = Zero /\ worker'[w].missing = FALSE
  <2>1. worker'[w] = [Resting EXCEPT !.task = Head(queue), !.at = 1]
    BY DEF Take, QueueInv, WorkerInv
  <2> QED
    BY <2>1 DEF Resting
<1>4. /\ worker[w].task = NoTask
      /\ status' = [status EXCEPT ![t] = "active"]
      /\ attempts' = [attempts EXCEPT ![t] = @ + 1]
      /\ UNCHANGED <<portraits, rates, gone, feedback, faults, clobbered, looks>>
  BY <1>1 DEF Take
<1>5. /\ status'[t] = "active" /\ attempts'[t] = attempts[t] + 1
      /\ \A u \in Tasks \ {t} : status'[u] = status[u] /\ attempts'[u] = attempts[u]
      /\ \A u \in Tasks : attempts[u] \in Nat
  BY <1>4 DEF QueueInv
<1>6. AttemptsInv'
  <2>1. \A u \in Tasks : attempts'[u] <= MaxAttempts
    <3>1. attempts[t] < MaxAttempts /\ MaxAttempts \in Nat
      BY <1>1, BoundsAssumption DEF AttemptsInv
    <3> QED
      BY <1>5, <3>1 DEF AttemptsInv
  <2>2. \A u \in Tasks : status'[u] \in {"new", "pending", "retry"} => attempts'[u] < MaxAttempts
    BY <1>5 DEF AttemptsInv
  <2>3. ASSUME NEW v \in Workers, worker'[v].task # NoTask PROVE attempts'[worker'[v].task] >= 1
    <3>1. CASE v = w
      BY <1>2, <1>5, <3>1
    <3>2. CASE v # w
      <4>1. worker'[v] = worker[v] /\ worker[v].task \in Tasks /\ attempts[worker[v].task] >= 1
        BY <1>2, <2>3, <3>2, StageOf DEF AttemptsInv
      <4> QED
        BY <1>5, <4>1
    <3> QED
      BY <3>1, <3>2
  <2> QED
    BY <2>1, <2>2, <2>3 DEF AttemptsInv
<1>7. PlaceInv'
  <2>1. 1 \in 1 .. EnqueueAt(t) + 1
    BY DEF EnqueueAt
  <2> QED
    BY <1>2, <2>1 DEF PlaceInv
<1>8. Grows
  <2>1. \A u \in Tasks, k \in Nat : Limit(u, k) \in Nat /\ Limit(u, k)' \in Nat
    BY <1>6, LimitType, LimitPrime
  <2>2. \A u \in Tasks, k \in Nat : Limit(u, k) <= Limit(u, k)'
    BY TakeLimit
  <2>3. \A u \in Tasks : attempts[u] \in Nat /\ attempts'[u] \in Nat /\ attempts[u] <= attempts'[u]
    BY <1>5
  <2> QED
    BY <2>1, <2>2, <2>3 DEF Grows
<1>9. \A d \in Dimensions : ~Held(w, d)' /\ ~Passed(w, d)'
  <2> TAKE d \in Dimensions
  <2>2. CountedIn(t)' = CountedIn(t) /\ (d \in CountedIn(t) => WriteAt(t, d) # 0)
    BY <1>4, WritesIs DEF CountedIn, looks
  <2>1. /\ ReadAt(t, d) \in Nat /\ WriteAt(t, d) \in Nat
        /\ WriteAt(t, d) = 0 => ReadAt(t, d) = 0
        /\ WriteAt(t, d) # 0 => ReadAt(t, d) >= 6 /\ ReadAt(t, d) < WriteAt(t, d)
    BY WritesIs
  <2> QED
    BY <1>2, <2>1, <2>2 DEF Held, HeldIn, Passed, PassedIn
<1>10. \A v \in Workers, d \in Dimensions : Held(v, d)' => Held(v, d) /\ worker'[v].value = worker[v].value
  BY <1>2, <1>9 DEF Held, HeldIn
<1>11. RowsInv' /\ RatesInv' /\ SentInv' /\ HeldInv'
  BY <1>4, <1>8, <1>10, RowsUntouched
<1>12. MemoryInv'
  BY <1>2, <1>3, <1>8, KeepsMemory
<1>13. \A d \in Dimensions, u \in Tasks : CountedFirst(d, u) => CountedFirst(d, u)'
  BY <1>4 DEF CountedFirst
<1>14. WrittenInv' /\ DoneInv'
  <2>1. \A v \in Workers, d \in Dimensions : Passed(v, d)' => Passed(v, d) /\ worker'[v].task = worker[v].task
    BY <1>2, <1>4, <1>9 DEF Passed, PassedIn, CountedIn, looks
  <2>2. \A u \in Tasks : status'[u] = "done" => status[u] = "done" /\ (u \in hard' <=> u \in hard)
    BY <1>4, <1>5 DEF looks
  <2> QED
    BY <1>13, <2>1, <2>2, KeepsWritten, KeepsDone
<1>15. TypesInv'
  BY <1>2, <1>3, <1>4, ZeroIs DEF TypesInv
<1> QED
  BY <1>6, <1>7, <1>11, <1>12, <1>14, <1>15

-----------------------------------------------------------------------------
(***************************************************************************)
(* The other statements.                                                   *)
(***************************************************************************)
\* A statement that succeeds and leaves the rows as they are: all but the
\* rates and the feedback.
LEMMA QuietCounts ==
    ASSUME CountsInv, BaseInv', NEW w \in Workers, Statement(w), LooksKept(w), RowsKept,
           worker'[w].at = worker[w].at \/ Do(w) \notin {"read", "write", "ack"},
           \A v \in Workers : worker'[v].value = worker[v].value /\ worker'[v].missing \in BOOLEAN,
           portraits' \in [Dimensions -> Seq(Counts)],
           UNCHANGED <<gone, faults>>
    PROVE  /\ rates' \in [StepTasks -> SUBSET Counts] /\ RatesInv' /\ SentInv' => CountsInv'
           /\ (\A s \in StepTasks : rates'[s] \subseteq rates[s] \union {Zero}) => RatesInv'
           /\ UNCHANGED feedback => SentInv'
           /\ Grows
<1>1. PlaceInv' /\ AttemptsInv' /\ Grows /\ RowsInv' /\ MemoryInv' /\ HeldInv' /\ WrittenInv' /\ DoneInv'
  BY GentleStatement DEF BaseInv
<1>2. rates' \in [StepTasks -> SUBSET Counts] => TypesInv'
  BY DEF CountsInv, TypesInv, RowsKept
<1>3. (\A s \in StepTasks : rates'[s] \subseteq rates[s] \union {Zero}) => RatesInv'
  BY <1>1, KeepsRates DEF CountsInv, LimitInv
<1>4. UNCHANGED feedback => SentInv'
  BY <1>1, KeepsSent DEF CountsInv, BaseInv, LimitInv
<1> QED
  BY <1>1, <1>2, <1>3, <1>4 DEF CountsInv, LimitInv

\* Proceed keeps what the worker remembers.
LEMMA ProceedKeeps ==
    ASSUME WorkerInv, TypesInv, NEW w \in Workers, Proceed(w)
    PROVE  \A v \in Workers : worker'[v].value = worker[v].value /\ worker'[v].missing \in BOOLEAN
BY DEF Proceed, WorkerInv, Fields, TypesInv

LEMMA ProceedCounts ==
    ASSUME CountsInv, BaseInv', NEW w \in Workers, worker[w].task # NoTask, Proceed(w),
           Do(w) \notin {"read", "write", "ack"},
           UNCHANGED <<portraits, rates, gone, queue, status, attempts, feedback, faults, clobbered, looks>>
    PROVE  CountsInv'
<1>1. Statement(w)
  BY ProceedIs DEF Statement, CountsInv, BaseInv, FeedbackInv, QueueInv
<1>2. RowsKept /\ LooksKept(w)
  BY SameRows, SameLooks
<1>3. \A v \in Workers : worker'[v].value = worker[v].value /\ worker'[v].missing \in BOOLEAN
  BY ProceedKeeps DEF CountsInv, BaseInv, FeedbackInv, QueueInv
<1>4. portraits' \in [Dimensions -> Seq(Counts)] /\ rates' \in [StepTasks -> SUBSET Counts]
  BY DEF CountsInv, TypesInv
<1>5. RatesInv' /\ SentInv'
  BY <1>1, <1>2, <1>3, <1>4, QuietCounts
<1> QED
  BY <1>1, <1>2, <1>3, <1>4, <1>5, QuietCounts

LEMMA SubjectCounts ==
    ASSUME CountsInv, BaseInv', NEW w \in Workers, QuerySubject(w)
    PROVE  CountsInv'
<1>1. /\ worker[w].task # NoTask /\ Do(w) = "subject" /\ faults' \in 0 .. MaxFaults
      /\ UNCHANGED <<portraits, rates, gone, queue, attempts, feedback, faults, clobbered, looks>>
  BY DEF QuerySubject, At, Do, CountsInv, TypesInv
<1>2. Fail(w) \/ (Proceed(w) /\ UNCHANGED status)
  BY DEF QuerySubject
<1> QED
  BY <1>1, <1>2, FailCounts, ProceedCounts

LEMMA QueryStepCounts ==
    ASSUME CountsInv, BaseInv', NEW w \in Workers, QueryStep(w)
    PROVE  CountsInv'
<1> USE DEF BaseInv, FeedbackInv
<1>1. /\ worker[w].task # NoTask /\ Do(w) = "step" /\ faults' \in 0 .. MaxFaults
      /\ UNCHANGED <<portraits, rates, gone, queue, attempts, feedback, faults, clobbered>>
      /\ portraits' \in [Dimensions -> Seq(Counts)] /\ rates' \in [StepTasks -> SUBSET Counts]
      /\ QueueInv /\ LooksInv /\ TypesInv
  BY DEF QueryStep, At, Do, CountsInv, TypesInv
<1>2. CASE Fail(w)
  <2>1. UNCHANGED looks
    <3>1. ~Proceed(w)
      <4>1. worker'[w].task = NoTask
        BY <1>1, <1>2, RestingIs DEF Fail, QueueInv, WorkerInv
      <4> QED
        BY <1>1, <4>1, ProceedIs DEF MovesOn, QueueInv
    <3> QED
      BY <3>1 DEF QueryStep
  <2> QED
    BY <1>1, <1>2, <2>1, FailCounts
<1>3. CASE ~Fail(w)
  <2>1. /\ Proceed(w) /\ UNCHANGED status /\ everHard \subseteq everHard'
        /\ \A t \in Tasks \ {worker[w].task} : t \in hard' <=> t \in hard
    BY <1>1, <1>3, QueryStepLooks
  <2>2. Statement(w)
    BY <1>1, <2>1, ProceedIs DEF Statement, QueueInv
  <2>3. \A v \in Workers : worker'[v].value = worker[v].value /\ worker'[v].missing \in BOOLEAN
    BY <1>1, <2>1, ProceedKeeps DEF QueueInv
  <2>4. RowsKept /\ LooksKept(w)
    BY <1>1, <2>1, SameRows DEF LooksKept
  <2>5. RatesInv' /\ SentInv'
    BY <1>1, <2>2, <2>3, <2>4, QuietCounts
  <2> QED
    BY <1>1, <2>2, <2>3, <2>4, <2>5, QuietCounts
<1> QED
  BY <1>2, <1>3

LEMMA CheckCounts ==
    ASSUME CountsInv, BaseInv', NEW w \in Workers, Check(w)
    PROVE  CountsInv'
<1>1. /\ worker[w].task # NoTask /\ Do(w) = "check" /\ faults' \in 0 .. MaxFaults
      /\ UNCHANGED <<portraits, rates, gone, queue, attempts, feedback, faults, clobbered, looks>>
      /\ portraits' \in [Dimensions -> Seq(Counts)] /\ rates' \in [StepTasks -> SUBSET Counts]
  BY DEF Check, At, Do, CountsInv, TypesInv
<1>2. PICK n \in Nat : n = Len(portraits[Dim(w)])
  BY <1>1, StageOf DEF CountsInv, BaseInv, FeedbackInv, TypesInv
<1>3. CASE n = 0
  <2>1. worker' = [worker EXCEPT ![w].missing = TRUE] /\ UNCHANGED status
    BY <1>2, <1>3 DEF Check
  <2>2. MovesOn(w) /\ worker'[w].at = worker[w].at
    BY <2>1 DEF MovesOn, CountsInv, BaseInv, FeedbackInv, QueueInv, WorkerInv, Fields
  <2>3. Statement(w)
    BY <1>1, <2>1, <2>2 DEF Statement
  <2>4. \A v \in Workers : worker'[v].value = worker[v].value /\ worker'[v].missing \in BOOLEAN
    BY <2>1 DEF CountsInv, BaseInv, FeedbackInv, QueueInv, WorkerInv, Fields, TypesInv
  <2>5. RowsKept /\ LooksKept(w)
    BY <1>1, SameRows, SameLooks
  <2>6. RatesInv' /\ SentInv'
    BY <1>1, <2>2, <2>3, <2>4, <2>5, QuietCounts
  <2> QED
    BY <1>1, <2>2, <2>3, <2>4, <2>5, <2>6, QuietCounts
<1>4. CASE n = 1
  <2>1. Proceed(w) /\ UNCHANGED status
    BY <1>2, <1>4 DEF Check
  <2> QED
    BY <1>1, <2>1, ProceedCounts
<1>5. CASE n # 0 /\ n # 1
  <2>1. Fail(w)
    BY <1>2, <1>5 DEF Check
  <2> QED
    BY <1>1, <2>1, FailCounts
<1> QED
  BY <1>3, <1>4, <1>5

LEMMA CreateCounts ==
    ASSUME CountsInv, BaseInv', NEW w \in Workers, CreatePortrait(w)
    PROVE  CountsInv'
<1>1. /\ worker[w].task # NoTask /\ Do(w) = "check" /\ Proceed(w)
      /\ UNCHANGED <<rates, gone, queue, status, attempts, feedback, faults, clobbered, looks>>
      /\ rates' \in [StepTasks -> SUBSET Counts]
  BY DEF CreatePortrait, At, Do, CountsInv, TypesInv
<1>2. PICK d \in Dimensions : d = Dim(w)
  BY <1>1, StageOf DEF CountsInv, BaseInv, FeedbackInv
<1>3. portraits' = [portraits EXCEPT ![d] = Append(@, Zero)] /\ portraits \in [Dimensions -> Seq(Counts)]
  BY <1>2 DEF CreatePortrait, CountsInv, TypesInv
<1>4. /\ portraits'[d] = Append(portraits[d], Zero)
      /\ \A e \in Dimensions \ {d} : portraits'[e] = portraits[e]
  BY <1>3
<1>5. /\ portraits'[d] \in Seq(Counts) /\ Len(portraits'[d]) = Len(portraits[d]) + 1
      /\ \A i \in 1 .. Len(portraits[d]) : portraits'[d][i] = portraits[d][i]
      /\ portraits'[d][Len(portraits[d]) + 1] = Zero
      /\ Len(portraits[d]) \in Nat
  BY <1>3, <1>4, ZeroIs, AppendProperties
<1>6. portraits' \in [Dimensions -> Seq(Counts)]
  BY <1>3, <1>4, <1>5
<1>7. RowsKept
  <2>1. \A i \in 1 .. Len(portraits'[d]) :
           portraits'[d][i] = Zero \/ \E j \in 1 .. Len(portraits[d]) : portraits'[d][i] = portraits[d][j]
    <3> TAKE i \in 1 .. Len(portraits'[d])
    <3>1. i \in 1 .. Len(portraits[d]) \/ i = Len(portraits[d]) + 1
      BY <1>5
    <3> QED
      BY <1>5, <3>1
  <2>2. portraits[d] # << >> => portraits'[d] # << >> /\ portraits'[d][1] = portraits[d][1]
    <3> SUFFICES ASSUME portraits[d] # << >> PROVE portraits'[d] # << >> /\ portraits'[d][1] = portraits[d][1]
      OBVIOUS
    <3>1. 1 \in 1 .. Len(portraits[d])
      BY <1>3
    <3>2. Len(portraits'[d]) # 0
      BY <1>5
    <3> QED
      BY <1>5, <3>1, <3>2
  <2>3. \A e \in Dimensions \ {d} : \A i \in 1 .. Len(portraits'[e]) :
           \E j \in 1 .. Len(portraits[e]) : portraits'[e][i] = portraits[e][j]
    BY <1>4
  <2>4. \A e \in Dimensions : \A i \in 1 .. Len(portraits'[e]) :
           portraits'[e][i] = Zero \/ \E j \in 1 .. Len(portraits[e]) : portraits'[e][i] = portraits[e][j]
    BY <2>1, <2>3, Zenon
  <2> QED
    BY <1>1, <1>4, <2>2, <2>4 DEF RowsKept
<1>8. Statement(w) /\ LooksKept(w)
  BY <1>1, ProceedIs, SameLooks DEF Statement, CountsInv, BaseInv, FeedbackInv, QueueInv
<1>9. \A v \in Workers : worker'[v].value = worker[v].value /\ worker'[v].missing \in BOOLEAN
  BY <1>1, ProceedKeeps DEF CountsInv, BaseInv, FeedbackInv, QueueInv
<1>10. RatesInv' /\ SentInv'
  BY <1>1, <1>6, <1>7, <1>8, <1>9, QuietCounts
<1> QED
  BY <1>1, <1>6, <1>7, <1>8, <1>9, <1>10, QuietCounts

\* A worker at the row of step_rates or at the feedback.
LEMMA LimitPasses ==
    ASSUME CountsInv, NEW w \in Workers, NEW t \in Tasks, worker[w].task = t, Statement(w),
           worker'[w].at # worker[w].at
    PROVE  /\ Do(w) = "rate" => Limit(t, RateAt(t))' = Limit(t, RateAt(t)) + 1
           /\ Do(w) = "enqueue" => Limit(t, EnqueueAt(t))' = Limit(t, EnqueueAt(t)) + 1
<1> USE DEF CountsInv, BaseInv, FeedbackInv
<1>1. StageShape(t, worker[w].at) /\ worker[w].at \in 1 .. EnqueueAt(t) + 1
  BY StageOf DEF Statement
<1>2. PICK k \in Nat \ {0} : k = worker[w].at
  BY <1>1 DEF EnqueueAt
<1>3. Limit(t, k)' = Limit(t, k) + 1
  BY <1>2, StatementLimit
<1>4. /\ Do(w) = "rate" => k = RateAt(t)
      /\ Do(w) = "enqueue" => k = EnqueueAt(t)
  BY <1>1, <1>2 DEF StageShape, Do
<1> QED
  BY <1>3, <1>4

LEMMA CreateRateCounts ==
    ASSUME CountsInv, BaseInv', NEW w \in Workers, CreateRate(w)
    PROVE  CountsInv'
<1>1. /\ worker[w].task # NoTask /\ Do(w) = "rate" /\ faults' \in 0 .. MaxFaults
      /\ UNCHANGED <<portraits, gone, queue, attempts, feedback, faults, clobbered, looks>>
      /\ portraits' \in [Dimensions -> Seq(Counts)]
  BY DEF CreateRate, At, Do, CountsInv, TypesInv
<1>2. PICK s \in StepTasks : s = worker[w].task
  BY DEF CreateRate
<1>3. CASE rates[s] = {}
  <2>1. rates' = [rates EXCEPT ![s] = {Zero}] /\ Proceed(w) /\ UNCHANGED status
    BY <1>2, <1>3 DEF CreateRate
  <2>2. /\ rates' \in [StepTasks -> SUBSET Counts]
        /\ \A r \in StepTasks : rates'[r] \subseteq rates[r] \union {Zero}
    BY <2>1, ZeroIs DEF CountsInv, TypesInv
  <2>3. Statement(w)
    BY <1>1, <2>1, ProceedIs DEF Statement, CountsInv, BaseInv, FeedbackInv, QueueInv
  <2>4. \A v \in Workers : worker'[v].value = worker[v].value /\ worker'[v].missing \in BOOLEAN
    BY <2>1, ProceedKeeps DEF CountsInv, BaseInv, FeedbackInv, QueueInv
  <2>5. RowsKept /\ LooksKept(w)
    BY <1>1, SameRows, SameLooks
  <2>6. RatesInv' /\ SentInv'
    BY <1>1, <2>2, <2>3, <2>4, <2>5, QuietCounts
  <2> QED
    BY <1>1, <2>2, <2>3, <2>4, <2>5, <2>6, QuietCounts
<1>4. CASE rates[s] # {}
  BY <1>1, <1>2, <1>4, FailCounts DEF CreateRate
<1> QED
  BY <1>3, <1>4

LEMMA AddToRateCounts ==
    ASSUME CountsInv, BaseInv', NEW w \in Workers, AddToRate(w)
    PROVE  CountsInv'
<1>1. /\ worker[w].task # NoTask /\ Do(w) = "rate" /\ WorkerInv
      /\ UNCHANGED <<portraits, gone, queue, status, attempts, feedback, faults, clobbered, looks>>
      /\ portraits' \in [Dimensions -> Seq(Counts)]
  BY DEF AddToRate, At, Do, CountsInv, TypesInv, BaseInv, FeedbackInv, QueueInv
<1>2. PICK c \in CommentTasks : c = worker[w].task
  BY DEF AddToRate
<1>3. PICK s \in StepTasks : s = StepOf[c]
  BY StepOfAssumption
<1>4. rates \in [StepTasks -> SUBSET Counts] /\ c \in Tasks
  BY DEF CountsInv, TypesInv, Tasks
<1>5. rates' = [rates EXCEPT ![s] = {Add(v, c) : v \in @}]
  BY <1>2, <1>3 DEF AddToRate
<1>6. \A v \in Counts : /\ Add(v, c) \in Counts /\ Add(v, c)[c] = v[c] + 1
                       /\ \A u \in Tasks \ {c} : Add(v, c)[u] = v[u]
  BY <1>4 DEF Add, Counts
<1>7. rates'[s] = {Add(v, c) : v \in rates[s]} /\ \A r \in StepTasks \ {s} : rates'[r] = rates[r]
  BY <1>4, <1>5
<1>8. rates' \in [StepTasks -> SUBSET Counts]
  <2>1. {Add(v, c) : v \in rates[s]} \subseteq Counts
    BY <1>4, <1>6
  <2> QED
    BY <1>4, <1>5, <2>1
<1>9. Statement(w) /\ worker'[w].at # worker[w].at
  BY <1>1, AddToRateIs DEF Statement
<1>10. \A v \in Workers : worker'[v].value = worker[v].value /\ worker'[v].missing \in BOOLEAN
  <2>1. /\ worker'[w].value = worker[w].value /\ worker'[w].missing \in {worker[w].missing, FALSE}
        /\ \A v \in Workers \ {w} : worker'[v] = worker[v]
    BY <1>1, AddToRateIs DEF MovesOn
  <2> QED
    BY <2>1 DEF CountsInv, TypesInv
<1>11. RowsKept /\ LooksKept(w)
  BY <1>1, SameRows, SameLooks
<1>12. SentInv' /\ Grows
  BY <1>1, <1>9, <1>10, <1>11, QuietCounts
<1>13. RatesInv'
  <2> SUFFICES ASSUME NEW r \in StepTasks, NEW u \in Tasks, NEW x \in rates'[r]
               PROVE  x[u] <= Limit(u, RateAt(u))'
    BY DEF RatesInv
  <2>1. PICK k \in Nat : k = RateAt(u)
    BY DEF RateAt
  <2>2. Limit(u, k) \in Nat /\ Limit(u, k)' \in Nat /\ Limit(u, k) <= Limit(u, k)'
    BY <1>12 DEF Grows
  <2>3. \A v \in rates[r] : v \in Counts /\ v[u] \in Nat /\ v[u] <= Limit(u, k)
    BY <1>4, <2>1 DEF CountsInv, LimitInv, RatesInv, Counts
  <2>4. CASE r # s
    BY <1>7, <2>1, <2>2, <2>3, <2>4
  <2>5. CASE r = s
    <3>1. PICK v \in rates[s] : x = Add(v, c)
      BY <1>7, <2>5
    <3>2. v \in Counts /\ v[u] \in Nat /\ v[u] <= Limit(u, k)
      BY <2>3, <2>5, <3>1
    <3>3. CASE u # c
      BY <1>6, <2>1, <2>2, <3>1, <3>2, <3>3
    <3>4. CASE u = c
      <4>1. Limit(u, k)' = Limit(u, k) + 1
        BY <1>1, <1>2, <1>9, <2>1, <3>4, LimitPasses
      <4> QED
        BY <1>6, <2>1, <2>2, <3>1, <3>2, <3>4, <4>1
    <3> QED
      BY <3>3, <3>4
  <2> QED
    BY <2>4, <2>5
<1> QED
  BY <1>1, <1>8, <1>9, <1>10, <1>11, <1>12, <1>13, QuietCounts

LEMMA SendCounts ==
    ASSUME CountsInv, BaseInv', NEW w \in Workers, EnqueueFeedback(w)
    PROVE  CountsInv'
<1>1. /\ worker[w].task # NoTask /\ Do(w) = "enqueue" /\ Proceed(w)
      /\ UNCHANGED <<portraits, rates, gone, queue, status, attempts, faults, clobbered, looks>>
      /\ portraits' \in [Dimensions -> Seq(Counts)] /\ rates' \in [StepTasks -> SUBSET Counts]
  BY DEF EnqueueFeedback, At, Do, CountsInv, TypesInv
<1>2. PICK t \in Tasks : t = worker[w].task
  BY <1>1, StageOf DEF CountsInv, BaseInv, FeedbackInv
<1>3. /\ feedback \in [Tasks -> Nat] /\ feedback'[t] = feedback[t] + 1
      /\ \A u \in Tasks \ {t} : feedback'[u] = feedback[u]
  BY <1>2 DEF EnqueueFeedback, CountsInv, BaseInv, FeedbackInv
<1>4. Statement(w) /\ worker'[w].at # worker[w].at
  BY <1>1, ProceedIs DEF Statement, CountsInv, BaseInv, FeedbackInv, QueueInv, WorkerInv
<1>5. \A v \in Workers : worker'[v].value = worker[v].value /\ worker'[v].missing \in BOOLEAN
  BY <1>1, ProceedKeeps DEF CountsInv, BaseInv, FeedbackInv, QueueInv
<1>6. RowsKept /\ LooksKept(w)
  BY <1>1, SameRows, SameLooks
<1>7. RatesInv' /\ Grows
  BY <1>1, <1>4, <1>5, <1>6, QuietCounts
<1>8. SentInv'
  <2> SUFFICES ASSUME NEW u \in Tasks PROVE feedback'[u] <= Limit(u, EnqueueAt(u))'
    BY DEF SentInv
  <2>1. PICK k \in Nat : k = EnqueueAt(u)
    BY DEF EnqueueAt
  <2>2. Limit(u, k) \in Nat /\ Limit(u, k)' \in Nat /\ Limit(u, k) <= Limit(u, k)'
    BY <1>7 DEF Grows
  <2>3. feedback[u] \in Nat /\ feedback[u] <= Limit(u, k)
    BY <1>3, <2>1 DEF CountsInv, LimitInv, SentInv
  <2>4. u = t => Limit(u, k)' = Limit(u, k) + 1
    BY <1>1, <1>2, <1>4, <2>1, LimitPasses
  <2> QED
    BY <1>3, <2>1, <2>2, <2>3, <2>4
<1> QED
  BY <1>1, <1>4, <1>5, <1>6, <1>7, <1>8, QuietCounts

\* The requests and the retries touch neither the workers nor the rows.
LEMMA QueueCounts ==
    ASSUME CountsInv, BaseInv',
           UNCHANGED <<portraits, rates, attempts, feedback, worker, faults, clobbered, looks>>,
           gone' \subseteq Tasks,
           \A t \in Tasks : \/ status'[t] = status[t]
                            \/ status[t] \in {"new", "retry"} /\ status'[t] = "pending"
    PROVE  CountsInv'
<1> USE DEF CountsInv, BaseInv, FeedbackInv, LimitInv
<1>1. /\ \A t \in Tasks, k \in Nat : Limit(t, k)' = Limit(t, k)
      /\ \A w \in Workers, d \in Dimensions : (Held(w, d)' <=> Held(w, d)) /\ (Passed(w, d)' <=> Passed(w, d))
      /\ \A d \in Dimensions, t \in Tasks : CountedFirst(d, t)' <=> CountedFirst(d, t)
  BY DEF Limit, LimitIn, Held, HeldIn, Passed, PassedIn, CountedFirst, CountedIn, looks
<1>2. \A d \in Dimensions : InPlay(d)' = InPlay(d)
  BY DEF InPlay, Held
<1>3. AttemptsInv'
  BY DEF AttemptsInv
<1>4. TypesInv' /\ PlaceInv' /\ MemoryInv'
  BY DEF TypesInv, PlaceInv, MemoryInv
<1>5. Grows
  <2>1. \A t \in Tasks, k \in Nat : Limit(t, k) \in Nat
    BY LimitType
  <2>2. \A t \in Tasks : attempts[t] \in Nat /\ attempts'[t] = attempts[t]
    BY DEF QueueInv
  <2> QED
    BY <1>1, <2>1, <2>2 DEF Grows
<1>6. RowsInv' /\ RatesInv' /\ SentInv'
  BY <1>2, <1>5, KeepsRows, KeepsRates, KeepsSent DEF looks
<1>7. HeldInv'
  BY <1>1 DEF HeldInv
<1>8. WrittenInv'
  BY <1>1, KeepsWritten
<1>9. DoneInv'
  BY <1>1, KeepsDone DEF looks
<1> QED
  BY <1>3, <1>4, <1>6, <1>7, <1>8, <1>9

LEMMA CountsInit == Init => CountsInv
<1> SUFFICES ASSUME Init PROVE CountsInv
  OBVIOUS
<1>1. \A w \in Workers : worker[w].task = NoTask /\ worker[w].value = Zero /\ worker[w].missing = FALSE
  BY RestingIs, RestingFields DEF Init
<1>2. \A d \in Dimensions : portraits[d] = << >>
  BY DEF Init
<1>3. /\ \A t \in Tasks : attempts[t] = 0 /\ feedback[t] = 0 /\ status[t] = "new"
      /\ \A s \in StepTasks : rates[s] = {}
  BY DEF Init
<1>4. TypesInv
  <2>1. portraits \in [Dimensions -> Seq(Counts)]
    BY DEF Init
  <2>2. rates \in [StepTasks -> SUBSET Counts]
    BY DEF Init
  <2>3. gone \subseteq Tasks /\ faults \in 0 .. MaxFaults /\ clobbered \subseteq Dimensions \X Tasks
    BY BoundsAssumption DEF Init
  <2> QED
    BY <1>1, <2>1, <2>2, <2>3, ZeroIs DEF TypesInv
<1>5. PlaceInv /\ AttemptsInv
  BY <1>1, <1>3, BoundsAssumption DEF PlaceInv, AttemptsInv
<1>6. \A d \in Dimensions : InPlay(d) = {}
  BY <1>1, <1>2 DEF InPlay, Held, HeldIn
<1>7. \A t \in Tasks, k \in Nat : Limit(t, k) = 0
  BY <1>1, <1>3, TasksAssumption DEF Limit, LimitIn
<1>8. LimitInv
  <2>1. RowsInv /\ RatesInv
    BY <1>3, <1>6 DEF RowsInv, RatesInv
  <2>2. \A t \in Tasks : EnqueueAt(t) \in Nat
    BY DEF EnqueueAt
  <2>3. SentInv
    BY <1>3, <1>7, <2>2 DEF SentInv
  <2>4. MemoryInv
    BY <1>1, <1>3, ZeroIs DEF MemoryInv
  <2> QED
    BY <2>1, <2>3, <2>4 DEF LimitInv
<1>9. HeldInv /\ WrittenInv /\ DoneInv
  BY <1>1, <1>3 DEF HeldInv, WrittenInv, DoneInv, Held, HeldIn, Passed, PassedIn
<1> QED
  BY <1>4, <1>5, <1>8, <1>9, FeedbackInit, LooksInit DEF CountsInv, BaseInv

LEMMA CountsNext == CountsInv /\ [Next]_vars => CountsInv'
<1> SUFFICES ASSUME CountsInv, [Next]_vars PROVE CountsInv'
  OBVIOUS
<1>1. BaseInv'
  BY FeedbackNext, LooksNext DEF CountsInv, BaseInv, FeedbackInv
<1>2. gone \subseteq Tasks
  BY DEF CountsInv, TypesInv
<1>3. CASE UNCHANGED vars
  BY <1>1, <1>2, <1>3, QueueCounts DEF vars
<1>4. ASSUME NEW t \in Tasks, Enqueue(t) \/ LoseTarget(t) \/ Retry(t) PROVE CountsInv'
  <2>1. gone' \subseteq Tasks
    <3>1. CommentsOn(t) \subseteq Tasks
      BY DEF CommentsOn, Tasks
    <3> QED
      BY <1>2, <1>4, <3>1 DEF Enqueue, LoseTarget, Retry
  <2>2. \A u \in Tasks : \/ status'[u] = status[u]
                         \/ status[u] \in {"new", "retry"} /\ status'[u] = "pending"
    BY <1>4 DEF Enqueue, LoseTarget, Retry, CountsInv, BaseInv, FeedbackInv, QueueInv
  <2> QED
    BY <1>1, <1>4, <2>1, <2>2, QueueCounts DEF Enqueue, LoseTarget, Retry
<1>5. ASSUME NEW w \in Workers, ReadPortrait(w) PROVE CountsInv'
  <2>1. worker[w].task # NoTask
    BY <1>5 DEF ReadPortrait, At
  <2>2. CASE Fail(w)
    <3>1. faults' \in 0 .. MaxFaults
      BY <1>5 DEF ReadPortrait, CountsInv, TypesInv
    <3> QED
      BY <1>1, <1>5, <2>1, <2>2, <3>1, FailCounts DEF ReadPortrait
  <2>3. CASE ~Fail(w)
    <3>1. /\ worker' = [worker EXCEPT ![w].at = @ + 1, ![w].value = portraits[Dim(w)][1]]
          /\ UNCHANGED <<status, attempts, queue>>
      BY <1>5, <2>3 DEF ReadPortrait
    <3>2. MovesOn(w)
      BY <3>1 DEF MovesOn, CountsInv, BaseInv, FeedbackInv, QueueInv, WorkerInv, Fields
    <3> QED
      BY <1>1, <1>5, <2>1, <3>1, <3>2, ReadCounts DEF Statement
  <2> QED
    BY <2>2, <2>3
<1>6. ASSUME NEW w \in Workers, Fault(w) PROVE CountsInv'
  <2>1. faults' \in 0 .. MaxFaults
    BY <1>6, BoundsAssumption DEF Fault, CountsInv, TypesInv
  <2> QED
    BY <1>1, <1>6, <2>1, FailCounts DEF Fault
<1>7. ASSUME NEW w \in Workers, Work(w) PROVE CountsInv'
  BY <1>1, <1>5, <1>7, TakeCounts, SubjectCounts, QueryStepCounts, CheckCounts, CreateCounts, WriteCounts,
     CreateRateCounts, AddToRateCounts, SendCounts, AckCounts DEF Work
<1> QED
  BY <1>3, <1>4, <1>6, <1>7 DEF Next

LEMMA CountsTypes == CountsInv => TypeOK
<1> SUFFICES ASSUME CountsInv PROVE TypeOK
  OBVIOUS
<1> USE DEF CountsInv, BaseInv, FeedbackInv, LimitInv
<1>1. MaxAttempts \in Nat /\ \A t \in Tasks : attempts[t] \in Nat /\ attempts[t] <= MaxAttempts
  BY BoundsAssumption DEF AttemptsInv, QueueInv
<1>2. \A t \in Tasks, k \in Nat : Limit(t, k) \in Nat /\ Limit(t, k) <= MaxAttempts
  <2> TAKE t \in Tasks, k \in Nat
  <2>1. Limit(t, k) \in Nat /\ Limit(t, k) <= attempts[t]
    BY LimitType
  <2> QED
    BY <1>1, <2>1
<1>3. \A x \in Counts : (\A t \in Tasks : x[t] <= MaxAttempts) => x \in Value
  BY <1>1 DEF Counts, Value
<1>4. ASSUME NEW d \in Dimensions
      PROVE  /\ DOMAIN portraits[d] = 1 .. Len(portraits[d])
             /\ \A i \in DOMAIN portraits[d] : portraits[d][i] \in Value
  <2>1. portraits[d] \in Seq(Counts)
    BY DEF TypesInv
  <2>2. DOMAIN portraits[d] = 1 .. Len(portraits[d])
    BY <2>1
  <2>3. ASSUME NEW i \in 1 .. Len(portraits[d]) PROVE portraits[d][i] \in Value
    <3>1. PICK x \in Counts : x = portraits[d][i] /\ x \in InPlay(d)
      BY <2>1, ElementOfSeq DEF InPlay
    <3>2. ASSUME NEW t \in Tasks PROVE x[t] <= MaxAttempts
      <4>1. PICK k \in Nat : k = MayWriteAt(t, d)
        BY MayWriteIs
      <4>2. x[t] \in Nat /\ x[t] <= Limit(t, k)
        BY <3>1, <4>1 DEF RowsInv, Counts
      <4> QED
        BY <1>1, <1>2, <4>2
    <3> QED
      BY <1>3, <3>1, <3>2
  <2> QED
    BY <2>2, <2>3
<1>5. rates \in [StepTasks -> SUBSET Value]
  <2>1. ASSUME NEW s \in StepTasks, NEW x \in rates[s] PROVE x \in Value
    <3>1. x \in Counts
      BY DEF TypesInv
    <3>2. ASSUME NEW t \in Tasks PROVE x[t] <= MaxAttempts
      <4>1. PICK k \in Nat : k = RateAt(t)
        BY DEF RateAt
      <4>2. x[t] \in Nat /\ x[t] <= Limit(t, k)
        BY <3>1, <4>1 DEF RatesInv, Counts
      <4> QED
        BY <1>1, <1>2, <4>2
    <3> QED
      BY <1>3, <3>1, <3>2
  <2> QED
    BY <2>1 DEF TypesInv
<1>6. feedback \in [Tasks -> 0 .. MaxAttempts]
  <2>1. ASSUME NEW t \in Tasks PROVE feedback[t] \in 0 .. MaxAttempts
    <3>1. PICK k \in Nat : k = EnqueueAt(t)
      BY DEF EnqueueAt
    <3>2. feedback[t] \in Nat /\ feedback[t] <= Limit(t, k)
      BY <3>1 DEF SentInv
    <3> QED
      BY <1>1, <1>2, <3>2
  <2> QED
    BY <2>1
<1>7. ASSUME NEW w \in Workers PROVE worker[w].value \in Value
  <2>1. worker[w].value \in Counts
    BY DEF TypesInv
  <2>2. ASSUME NEW t \in Tasks PROVE worker[w].value[t] <= MaxAttempts
    <3>1. worker[w].value[t] \in Nat /\ worker[w].value[t] <= attempts[t]
      BY <2>1 DEF MemoryInv, Counts
    <3> QED
      BY <1>1, <3>1
  <2> QED
    BY <1>3, <2>1, <2>2
<1>8. attempts \in [Tasks -> 0 .. MaxAttempts]
  BY <1>1 DEF QueueInv
<1>9. status \in [Tasks -> {"new", "pending", "active", "retry", "done", "archived"}]
  BY DEF QueueInv, Queue!Statuses
<1>10. \A i \in DOMAIN queue : queue[i] \in Tasks
  BY ElementOfSeq DEF QueueInv
<1>11. \A w \in Workers : worker[w].task \in Tasks \union {NoTask} /\ worker[w].missing \in BOOLEAN
  BY DEF QueueInv, WorkerInv, TypesInv
<1>12. /\ DOMAIN portraits = Dimensions /\ gone \subseteq Tasks
       /\ hard \subseteq everHard /\ everHard \subseteq CommentTasks
       /\ faults \in 0 .. MaxFaults /\ clobbered \subseteq Dimensions \X Tasks
  BY DEF TypesInv, LooksInv
<1> QED
  BY <1>4, <1>5, <1>6, <1>7, <1>8, <1>9, <1>10, <1>11, <1>12 DEF TypeOK

(***************************************************************************)
(* The tables, the queue and the workers keep their types: no attempt is   *)
(* one too many, nothing is counted more often than it was attempted.      *)
(***************************************************************************)
THEOREM TypeCorrect == Spec => []TypeOK
<1> QED
  BY CountsInit, CountsNext, CountsTypes, PTL DEF Spec

LEMMA CountsCounted == CountsInv => CountedUnlessClobbered
<1> SUFFICES ASSUME CountsInv, NEW t \in Tasks, NEW d \in Dimensions
             PROVE  /\ status[t] = "done" /\ d \in CountedIn(t) => IsCounted(d, t) \/ <<d, t>> \in clobbered
                    /\ d \notin MayCountIn(t) => ~IsCounted(d, t)
                    /\ \A i \in DOMAIN portraits[d] : portraits[d][i][t] <= attempts[t]
  BY DEF CountedUnlessClobbered
<1> USE DEF CountsInv, BaseInv, FeedbackInv, LimitInv
<1>1. portraits[d] \in Seq(Counts) /\ DOMAIN portraits[d] = 1 .. Len(portraits[d])
  BY DEF TypesInv
<1>2. ASSUME status[t] = "done", d \in CountedIn(t), <<d, t>> \notin clobbered PROVE IsCounted(d, t)
  <2>1. portraits[d] # << >> /\ portraits[d][1][t] > 0
    BY <1>2 DEF DoneInv, CountedFirst
  <2>2. 1 \in DOMAIN portraits[d]
    BY <1>1, <2>1
  <2> QED
    BY <2>1, <2>2 DEF IsCounted
<1>3. PICK k \in Nat : k = MayWriteAt(t, d)
  BY MayWriteIs
<1>4. Limit(t, k) \in Nat /\ Limit(t, k) <= attempts[t] /\ attempts[t] \in Nat
  BY LimitType DEF QueueInv
<1>5. ASSUME NEW i \in DOMAIN portraits[d]
      PROVE  portraits[d][i][t] \in Nat /\ portraits[d][i][t] <= Limit(t, k)
  <2>1. portraits[d][i] \in InPlay(d) /\ portraits[d][i] \in Counts
    BY <1>1, <1>5, ElementOfSeq DEF InPlay
  <2> QED
    BY <1>3, <2>1 DEF RowsInv, Counts
<1>6. ASSUME d \notin MayCountIn(t) PROVE ~IsCounted(d, t)
  <2>1. k = 0 /\ Limit(t, 0) = 0
    BY <1>3, <1>6 DEF MayWriteAt, Limit, LimitIn
  <2> QED
    BY <1>5, <2>1 DEF IsCounted
<1>7. \A i \in DOMAIN portraits[d] : portraits[d][i][t] <= attempts[t]
  BY <1>4, <1>5
<1> QED
  BY <1>2, <1>6, <1>7

(***************************************************************************)
(* A task that completed is counted in every dimension its handler says it *)
(* updates, through crashes, retries and challenges that come and go,      *)
(* unless a stale write dropped it; it is counted nowhere else, and never  *)
(* more often than it was tried.                                           *)
(***************************************************************************)
THEOREM CountedUnlessClobberedAlways == Spec => []CountedUnlessClobbered
<1> QED
  BY CountsInit, CountsNext, CountsCounted, PTL DEF Spec

-----------------------------------------------------------------------------
(***************************************************************************)
(* Two rows of one dimension: no task that is still to pass its check gets *)
(* done any more.                                                          *)
(***************************************************************************)
\* A worker that has to find the two rows yet.
Ahead(w, d) == /\ worker[w].at <= CheckAt(d)
               /\ worker[w].at = CheckAt(d) => ~worker[w].missing

Doom(t, d) == /\ Len(portraits[d]) > 1
              /\ status[t] \in {"new", "pending", "retry", "archived", "active"}
              /\ \A w \in Workers : worker[w].task = t => Ahead(w, d)

Doomed(t) == \E d \in Dimensions : Doom(t, d)

LEMMA CheckAtIs == \A d \in Dimensions : CheckAt(d) \in 2 .. 5
BY DEF CheckAt

LEMMA DoomedStage ==
    ASSUME CountsInv, NEW t \in Tasks, NEW d \in Dimensions, Doom(t, d),
           NEW w \in Workers, worker[w].task = t
    PROVE  /\ Do(w) \in {"subject", "check"} /\ worker[w].at \in Nat
           /\ worker[w].at = CheckAt(d) => Do(w) = "check" /\ Dim(w) = d /\ ~worker[w].missing
<1> USE DEF CountsInv, BaseInv, FeedbackInv
<1>1. t # NoTask
  BY TasksAssumption
<1>2. PICK i \in 1 .. EnqueueAt(t) + 1 : i = worker[w].at
  BY <1>1, StageOf
<1>3. StageShape(t, i) /\ i \in Nat /\ i <= 5
  BY <1>1, <1>2, StageOf, CheckAtIs DEF Doom, Ahead, EnqueueAt
<1>4. Do(w) = Plan[t][i].do /\ Dim(w) = Plan[t][i].dim
  BY <1>2 DEF Do, Dim
<1>5. i = CheckAt(d) <=> Do(w) = "check" /\ Dim(w) = d
  BY <1>3, <1>4 DEF StageShape
<1>6. Do(w) \notin {"step", "rate", "enqueue", "ack"}
  <2>1. i # RateAt(t) /\ i # LookAt(t) /\ i # EnqueueAt(t) /\ i # EnqueueAt(t) + 1
    BY <1>2, <1>3 DEF RateAt, LookAt, EnqueueAt
  <2> QED
    BY <1>3, <1>4, <2>1 DEF StageShape
<1>7. Do(w) \notin {"read", "write"}
  <2>1. PICK e \in Dimensions : e = Dim(w)
    BY <1>1, StageOf
  <2>2. i # ReadAt(t, e) /\ i # WriteAt(t, e)
    <3>1. /\ ReadAt(t, e) \in Nat /\ WriteAt(t, e) \in Nat
          /\ WriteAt(t, e) = 0 => ReadAt(t, e) = 0
          /\ WriteAt(t, e) # 0 => ReadAt(t, e) >= 6 /\ ReadAt(t, e) < WriteAt(t, e)
      BY WritesIs
    <3> QED
      BY <1>2, <1>3, <3>1
  <2> QED
    BY <1>3, <1>4, <2>1, <2>2 DEF StageShape
<1>8. Do(w) \in {"subject", "check", "step", "read", "write", "rate", "enqueue", "ack"}
  BY <1>3, <1>4 DEF StageShape, AnyStage
<1> QED
  BY <1>2, <1>3, <1>5, <1>6, <1>7, <1>8 DEF Doom, Ahead

\* Rows are only ever added.
LEMMA RowsStay ==
    ASSUME CountsInv, [Next]_vars, NEW d \in Dimensions
    PROVE  Len(portraits[d]) \in Nat /\ Len(portraits[d]) <= Len(portraits'[d])
<1>1. portraits \in [Dimensions -> Seq(Counts)]
  BY DEF CountsInv, TypesInv
<1>2. Len(portraits[d]) \in Nat
  BY <1>1
<1>3. ASSUME NEW w \in Workers, CreatePortrait(w) PROVE Len(portraits[d]) <= Len(portraits'[d])
  <2>1. PICK e \in Dimensions : e = Dim(w)
    BY <1>3, StageOf DEF CreatePortrait, At, CountsInv, BaseInv, FeedbackInv
  <2>2. portraits' = [portraits EXCEPT ![e] = Append(@, Zero)]
    BY <1>3, <2>1 DEF CreatePortrait
  <2>3. portraits'[d] = portraits[d] \/ portraits'[d] = Append(portraits[d], Zero)
    BY <1>1, <2>2
  <2>4. Len(Append(portraits[d], Zero)) = Len(portraits[d]) + 1
    BY <1>1, ZeroIs, AppendProperties
  <2> QED
    BY <1>2, <2>3, <2>4
<1>4. ASSUME NEW w \in Workers, WritePortrait(w) PROVE Len(portraits[d]) <= Len(portraits'[d])
  <2> DEFINE new == Written(w)
  <2>1. portraits' = [portraits EXCEPT ![Dim(w)][1] = new]
    BY <1>4 DEF WritePortrait
  <2> HIDE DEF new
  <2>2. portraits'[d] = portraits[d] \/ portraits'[d] = [portraits[d] EXCEPT ![1] = new]
    BY <1>1, <2>1
  <2> DEFINE rows == [portraits[d] EXCEPT ![1] = new]
  <2>3. Len(rows) = Len(portraits[d])
    BY <1>1
  <2>4. portraits'[d] = portraits[d] \/ portraits'[d] = rows
    BY <2>2
  <2> HIDE DEF rows
  <2> QED
    BY <1>2, <2>3, <2>4
<1>5. UNCHANGED portraits \/ \E w \in Workers : CreatePortrait(w) \/ WritePortrait(w)
  BY DEF Next, vars, Enqueue, LoseTarget, Retry, Work, Fault, Take, QuerySubject, Check,
         ReadPortrait, QueryStep, CreateRate, AddToRate, EnqueueFeedback, Ack
<1> QED
  BY <1>2, <1>3, <1>4, <1>5

\* What a step does to a task that is doomed.
LEMMA DoomStatement ==
    ASSUME CountsInv, NEW t \in Tasks, NEW d \in Dimensions, Doom(t, d),
           Len(portraits'[d]) > 1,
           NEW w \in Workers, Statement(w),
           worker[w].task = t => Ahead(w, d)'
    PROVE  Doom(t, d)'
BY DEF Doom, Statement, MovesOn, Ahead

LEMMA DoomResting ==
    ASSUME CountsInv, NEW t \in Tasks, NEW d \in Dimensions, Doom(t, d),
           Len(portraits'[d]) > 1,
           NEW w \in Workers, worker[w].task # NoTask,
           worker' = [worker EXCEPT ![w] = Resting],
           NEW x \in {"retry", "archived", "done"},
           status' = [status EXCEPT ![worker[w].task] = x],
           worker[w].task = t => x # "done"
    PROVE  Doom(t, d)'
<1> USE DEF CountsInv, BaseInv, FeedbackInv
<1>1. status'[t] \in {"new", "pending", "retry", "archived", "active"}
  BY DEF Doom, QueueInv
<1>2. \A v \in Workers : worker'[v].task = t => worker'[v] = worker[v]
  BY RestingIs, TasksAssumption DEF QueueInv, WorkerInv
<1> QED
  BY <1>1, <1>2 DEF Doom, Ahead

LEMMA DoomFail ==
    ASSUME CountsInv, NEW t \in Tasks, NEW d \in Dimensions, Doom(t, d),
           Len(portraits'[d]) > 1,
           NEW w \in Workers, worker[w].task # NoTask, Fail(w)
    PROVE  Doom(t, d)'
<1> DEFINE x == IF attempts[worker[w].task] < MaxAttempts THEN "retry" ELSE "archived"
<1>1. x \in {"retry", "archived", "done"} /\ x # "done"
  OBVIOUS
<1>2. worker' = [worker EXCEPT ![w] = Resting] /\ status' = [status EXCEPT ![worker[w].task] = x]
  BY DEF Fail
<1> HIDE DEF x
<1> QED
  BY <1>1, <1>2, DoomResting

LEMMA DoomNext ==
    ASSUME CountsInv, NEW t \in Tasks, NEW d \in Dimensions, Doom(t, d), [Next]_vars
    PROVE  Doom(t, d)'
<1> USE DEF CountsInv, BaseInv, FeedbackInv
<1>1. Len(portraits'[d]) > 1
  <2>1. /\ Len(portraits[d]) \in Nat /\ Len(portraits[d]) <= Len(portraits'[d])
        /\ Len(portraits[d]) > 1
    BY RowsStay DEF Doom
  <2>2. CountsInv'
    BY CountsNext
  <2>3. Len(portraits'[d]) \in Nat
    BY <2>2 DEF TypesInv
  <2> QED
    BY <2>1, <2>3
<1>2. ASSUME UNCHANGED <<worker, status>> PROVE Doom(t, d)'
  BY <1>1, <1>2 DEF Doom, Ahead
<1>3. ASSUME NEW u \in Tasks, Enqueue(u) \/ LoseTarget(u) \/ Retry(u) PROVE Doom(t, d)'
  <2>1. CASE LoseTarget(u)
    BY <1>2, <2>1 DEF LoseTarget
  <2>2. CASE Enqueue(u) \/ Retry(u)
    <3>1. UNCHANGED worker /\ (status'[t] = status[t] \/ status'[t] = "pending")
      BY <2>2 DEF Enqueue, Retry, QueueInv
    <3> QED
      BY <1>1, <3>1 DEF Doom, Ahead
  <2> QED
    BY <1>3, <2>1, <2>2
<1>4. ASSUME NEW w \in Workers, Take(w) PROVE Doom(t, d)'
  <2>1. /\ worker'[w].at = 1 /\ worker'[w].task = Head(queue)
        /\ \A v \in Workers \ {w} : worker'[v] = worker[v]
    BY <1>4, TakeIs
  <2>2. status'[t] = status[t] \/ status'[t] = "active"
    BY <1>4 DEF Take, QueueInv
  <2>3. Ahead(w, d)'
    BY <2>1, CheckAtIs DEF Ahead
  <2>4. \A v \in Workers : worker'[v].task = t => Ahead(v, d)'
    BY <2>1, <2>3 DEF Doom, Ahead
  <2> QED
    BY <1>1, <2>2, <2>4 DEF Doom
<1>5. ASSUME NEW w \in Workers, worker[w].task # NoTask, Fail(w) PROVE Doom(t, d)'
  BY <1>1, <1>5, DoomFail
<1>6. ASSUME NEW w \in Workers, Ack(w) PROVE Doom(t, d)'
  <2>1. worker[w].task # NoTask /\ Do(w) = "ack"
    BY <1>6 DEF Ack, At, Do
  <2>2. worker[w].task # t
    BY <2>1, DoomedStage
  <2> DEFINE x == "done"
  <2>3. worker' = [worker EXCEPT ![w] = Resting] /\ status' = [status EXCEPT ![worker[w].task] = x]
    BY <1>6 DEF Ack
  <2>4. x \in {"retry", "archived", "done"}
    OBVIOUS
  <2> HIDE DEF x
  <2> QED
    BY <1>1, <2>1, <2>2, <2>3, <2>4, DoomResting
<1>7. ASSUME NEW w \in Workers, Statement(w), worker[w].task # t PROVE Doom(t, d)'
  BY <1>1, <1>7, DoomStatement
\* The statements that get the worker of the task on.
<1>8. ASSUME NEW w \in Workers, worker[w].task = t, Statement(w), Proceed(w), worker[w].at # CheckAt(d)
      PROVE  Doom(t, d)'
  <2>1. worker'[w].at = worker[w].at + 1 /\ worker'[w].missing = FALSE
    BY <1>8 DEF Proceed, QueueInv, WorkerInv, Fields
  <2>2. worker[w].at \in Nat /\ CheckAt(d) \in Nat /\ worker[w].at <= CheckAt(d)
    BY <1>8, DoomedStage, CheckAtIs DEF Doom, Ahead
  <2>3. Ahead(w, d)'
    BY <1>8, <2>1, <2>2 DEF Ahead
  <2> QED
    BY <1>1, <1>8, <2>3, DoomStatement
<1>9. ASSUME NEW w \in Workers, Check(w) PROVE Doom(t, d)'
  <2>1. worker[w].task # NoTask /\ Do(w) = "check"
    BY <1>9 DEF Check, At, Do
  <2>2. PICK n \in Nat : n = Len(portraits[Dim(w)])
    BY <2>1, StageOf DEF TypesInv
  <2>3. CASE n # 0 /\ n # 1
    BY <1>5, <1>9, <2>1, <2>2, <2>3 DEF Check
  <2>4. CASE n = 0 \/ n = 1
    <3>1. UNCHANGED <<status, attempts, queue>>
      BY <1>9, <2>2, <2>4 DEF Check
    <3>2. worker' = [worker EXCEPT ![w].missing = TRUE] \/ Proceed(w)
      BY <1>9, <2>2, <2>4 DEF Check
    <3>3. Statement(w)
      BY <2>1, <3>1, <3>2, ProceedIs DEF Statement, MovesOn, QueueInv, WorkerInv, Fields
    <3>4. ASSUME worker[w].task = t PROVE worker[w].at # CheckAt(d)
      <4>1. worker[w].at = CheckAt(d) => Dim(w) = d
        BY <3>4, DoomedStage
      <4>2. Dim(w) = d => n > 1
        BY <2>2 DEF Doom
      <4> QED
        BY <2>4, <4>1, <4>2
    <3>5. CASE worker[w].task = t /\ ~Proceed(w)
      <4>1. worker'[w].at = worker[w].at
        BY <3>2, <3>5 DEF QueueInv, WorkerInv, Fields
      <4>2. Ahead(w, d)'
        BY <3>4, <3>5, <4>1 DEF Doom, Ahead
      <4> QED
        BY <1>1, <3>3, <4>2, DoomStatement
    <3> QED
      BY <1>7, <1>8, <3>3, <3>4, <3>5
  <2> QED
    BY <2>3, <2>4
<1>10. ASSUME NEW w \in Workers, CreatePortrait(w) PROVE Doom(t, d)'
  <2>1. Statement(w) /\ Proceed(w) /\ worker[w].missing
    BY <1>10, ProceedIs DEF CreatePortrait, At, Statement, QueueInv
  <2>2. worker[w].task = t => worker[w].at # CheckAt(d)
    BY <2>1, DoomedStage
  <2> QED
    BY <1>7, <1>8, <2>1, <2>2
<1>11. ASSUME NEW w \in Workers, QuerySubject(w) PROVE Doom(t, d)'
  <2>1. worker[w].task # NoTask /\ Do(w) = "subject"
    BY <1>11 DEF QuerySubject, At, Do
  <2>2. CASE Fail(w)
    BY <1>5, <2>1, <2>2
  <2>3. CASE ~Fail(w)
    <3>1. Statement(w) /\ Proceed(w)
      BY <1>11, <2>1, <2>3, ProceedIs DEF QuerySubject, Statement, QueueInv
    <3>2. worker[w].task = t => worker[w].at # CheckAt(d)
      BY <2>1, DoomedStage
    <3> QED
      BY <1>7, <1>8, <3>1, <3>2
  <2> QED
    BY <2>2, <2>3
<1>12. ASSUME NEW w \in Workers,
              ReadPortrait(w) \/ WritePortrait(w) \/ CreateRate(w) \/ AddToRate(w) \/ EnqueueFeedback(w)
       PROVE  Doom(t, d)'
  <2>1. worker[w].task # NoTask /\ Do(w) \in {"read", "write", "rate", "enqueue"}
    BY <1>12 DEF ReadPortrait, WritePortrait, CreateRate, AddToRate, EnqueueFeedback, At, Do
  <2>2. worker[w].task # t
    BY <2>1, DoomedStage
  <2>3. Statement(w) \/ GivesUp(w)
    BY <1>12, PortraitStatements, RateStatements DEF Quiet, QueueInv
  <2> QED
    BY <1>5, <1>7, <2>2, <2>3 DEF GivesUp
<1>13. ASSUME NEW w \in Workers, QueryStep(w) PROVE Doom(t, d)'
  <2>1. worker[w].task # NoTask /\ Do(w) = "step"
    BY <1>13 DEF QueryStep, At, Do
  <2>2. worker[w].task # t
    BY <2>1, DoomedStage
  <2> QED
    BY <1>5, <1>7, <1>13, <2>2, PortraitStatements DEF GivesUp, Quiet, QueueInv
<1>14. ASSUME NEW w \in Workers, Fault(w) PROVE Doom(t, d)'
  BY <1>5, <1>14 DEF Fault
<1> QED
  BY <1>2, <1>3, <1>4, <1>6, <1>9, <1>10, <1>11, <1>12, <1>13, <1>14 DEF Next, vars, Work

(***************************************************************************)
(* Once a dimension has two rows, no task that is not in a worker's hands  *)
(* is ever done.                                                           *)
(***************************************************************************)
THEOREM DuplicateStopsStatisticsAlways == Spec => DuplicateStopsStatistics
<1> SUFFICES ASSUME NEW t \in Tasks
             PROVE  Spec => [](Duplicated /\ status[t] \in {"new", "pending", "retry"} => [](status[t] # "done"))
  BY DEF DuplicateStopsStatistics
<1>1. CountsInv /\ Duplicated /\ status[t] \in {"new", "pending", "retry"} => Doomed(t)
  <2> SUFFICES ASSUME CountsInv, NEW d \in Dimensions, Len(portraits[d]) > 1,
                      status[t] \in {"new", "pending", "retry"}
               PROVE  Doom(t, d)
    BY DEF Duplicated, Doomed
  <2>1. \A w \in Workers : worker[w].task # t
    BY TasksAssumption DEF CountsInv, BaseInv, FeedbackInv, QueueInv
  <2> QED
    BY <2>1 DEF Doom
<1>2. CountsInv /\ Doomed(t) /\ [Next]_vars => Doomed(t)'
  BY DoomNext DEF Doomed
<1>3. Doomed(t) => status[t] # "done"
  BY DEF Doomed, Doom
<1> QED
  BY <1>1, <1>2, <1>3, CountsInit, CountsNext, PTL DEF Spec
=============================================================================
