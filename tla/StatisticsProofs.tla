-------------------------- MODULE StatisticsProofs --------------------------
(***************************************************************************)
(* The plans of the handlers, the queue behind Statistics and the feedback *)
(* of its steps, for any tasks, workers, attempts and faults.  Two facts   *)
(* carry the proofs: a pending task is once on the list and in no worker's *)
(* hands, an active one in the hands of one worker; and a step's handler   *)
(* creates the row of step_rates two statements before the end, just       *)
(* before the feedback.  StatisticsCounts goes on to what is counted.      *)
(***************************************************************************)
EXTENDS Statistics, SequenceTheorems, TLAPS

(***************************************************************************)
(* The plan of each handler as one tuple: the concatenations of Statistics *)
(* are worked out here once and for all.                                   *)
(***************************************************************************)
AnyStage == [do : {"subject", "check", "step", "read", "write", "rate", "enqueue", "ack"},
             dim : Dimensions]

\* What s \o t is.
LEMMA Joined ==
    ASSUME NEW S, NEW s \in Seq(S), NEW t \in Seq(S), NEW p \in Seq(S), Len(p) = Len(s) + Len(t),
           \A i \in 1 .. Len(s) : p[i] = s[i],
           \A i \in 1 .. Len(t) : p[Len(s) + i] = t[i]
    PROVE  s \o t = p
<1> DEFINE q == s \o t
<1>1. /\ q \in Seq(S) /\ Len(q) = Len(s) + Len(t)
      /\ \A i \in 1 .. Len(s) + Len(t) : q[i] = IF i <= Len(s) THEN s[i] ELSE t[i - Len(s)]
  BY ConcatProperties, Zenon
<1>2. Len(s) \in Nat /\ Len(t) \in Nat
  OBVIOUS
<1>3. \A i \in 1 .. Len(s) + Len(t) : i \in 1 .. Len(s) \/ (~(i <= Len(s)) /\ i - Len(s) \in 1 .. Len(t) /\ Len(s) + (i - Len(s)) = i)
  BY <1>2
<1>4. \A i \in 1 .. Len(s) + Len(t) : q[i] = p[i]
  BY <1>1, <1>2, <1>3
<1> HIDE DEF q
<1>5. q = p
  BY <1>1, <1>4, SeqEqual, Zenon
<1> QED
  BY <1>5 DEF q

\* What every handler begins with.
Common == <<Stage("subject", Basic), Stage("check", Basic), Stage("check", Discipline),
            Stage("check", Execution), Stage("check", Growth)>>

LEMMA CommonPlan == Subject \o CheckStatistics = Common
<1> DEFINE s == Subject
           t == CheckStatistics
           p == Common
<1>1. /\ s \in Seq(AnyStage) /\ t \in Seq(AnyStage) /\ p \in Seq(AnyStage)
      /\ Len(p) = Len(s) + Len(t)
      /\ \A i \in 1 .. Len(s) : p[i] = s[i]
      /\ \A i \in 1 .. Len(t) : p[Len(s) + i] = t[i]
  BY DEF Common, Subject, CheckStatistics, AnyStage, Stage, Dimensions
<1> HIDE DEF s, t, p
<1>2. s \o t = p
  BY <1>1, Joined
<1> QED
  BY <1>2 DEF s, t, p

\* The plans, statement by statement.
LEMMA TargetPlan ==
    ASSUME NEW t \in TargetTasks
    PROVE  Plan[t] =
             <<Stage("subject", Basic), Stage("check", Basic),
               Stage("check", Discipline), Stage("check", Execution),
               Stage("check", Growth), Stage("read", Basic), Stage("write", Basic),
               Stage("enqueue", Basic), Stage("ack", Basic)>>
<1> DEFINE p0 == Common
           q1 == Count(Basic)
           p1 == <<Stage("subject", Basic), Stage("check", Basic),
                   Stage("check", Discipline), Stage("check", Execution),
                   Stage("check", Growth), Stage("read", Basic), Stage("write", Basic)>>
           q2 == Finale
           p2 == <<Stage("subject", Basic), Stage("check", Basic),
                   Stage("check", Discipline), Stage("check", Execution),
                   Stage("check", Growth), Stage("read", Basic), Stage("write", Basic),
                   Stage("enqueue", Basic), Stage("ack", Basic)>>
<1>1. Plan[t] = p0 \o q1 \o q2
  BY CommonPlan, TasksAssumption DEF Plan, Tasks, HandleTargetCreate
<1>2. /\ p0 \in Seq(AnyStage) /\ q1 \in Seq(AnyStage) /\ p1 \in Seq(AnyStage)
      /\ Len(p1) = Len(p0) + Len(q1)
      /\ \A i \in 1 .. Len(p0) : p1[i] = p0[i]
      /\ \A i \in 1 .. Len(q1) : p1[Len(p0) + i] = q1[i]
  BY DEF Common, Count, Rate, Finale, AnyStage, Stage, Dimensions
<1>3. /\ p1 \in Seq(AnyStage) /\ q2 \in Seq(AnyStage) /\ p2 \in Seq(AnyStage)
      /\ Len(p2) = Len(p1) + Len(q2)
      /\ \A i \in 1 .. Len(p1) : p2[i] = p1[i]
      /\ \A i \in 1 .. Len(q2) : p2[Len(p1) + i] = q2[i]
  BY DEF Common, Count, Rate, Finale, AnyStage, Stage, Dimensions
<1> HIDE DEF p0, p1, p2, q1, q2
<1>4. p0 \o q1 = p1
  BY <1>2, Joined
<1>5. p1 \o q2 = p2
  BY <1>3, Joined
<1>6. Plan[t] = p2
  BY <1>1, <1>4, <1>5
<1> QED
  BY <1>6 DEF p2

LEMMA StepPlan ==
    ASSUME NEW t \in StepTasks
    PROVE  Plan[t] =
             <<Stage("subject", Basic), Stage("check", Basic),
               Stage("check", Discipline), Stage("check", Execution),
               Stage("check", Growth), Stage("read", Basic), Stage("subject", Basic),
               Stage("write", Basic), Stage("rate", Basic), Stage("enqueue", Basic),
               Stage("ack", Basic)>>
<1> DEFINE p0 == Common
           q1 == <<Stage("read", Basic), Stage("subject", Basic), Stage("write", Basic)>>
           p1 == <<Stage("subject", Basic), Stage("check", Basic),
                   Stage("check", Discipline), Stage("check", Execution),
                   Stage("check", Growth), Stage("read", Basic),
                   Stage("subject", Basic), Stage("write", Basic)>>
           q2 == Rate
           p2 == <<Stage("subject", Basic), Stage("check", Basic),
                   Stage("check", Discipline), Stage("check", Execution),
                   Stage("check", Growth), Stage("read", Basic),
                   Stage("subject", Basic), Stage("write", Basic),
                   Stage("rate", Basic)>>
           q3 == Finale
           p3 == <<Stage("subject", Basic), Stage("check", Basic),
                   Stage("check", Discipline), Stage("check", Execution),
                   Stage("check", Growth), Stage("read", Basic),
                   Stage("subject", Basic), Stage("write", Basic),
                   Stage("rate", Basic), Stage("enqueue", Basic), Stage("ack", Basic)>>
<1>1. Plan[t] = p0 \o q1 \o q2 \o q3
  BY CommonPlan, TasksAssumption DEF Plan, Tasks, HandleStepCreate
<1>2. /\ p0 \in Seq(AnyStage) /\ q1 \in Seq(AnyStage) /\ p1 \in Seq(AnyStage)
      /\ Len(p1) = Len(p0) + Len(q1)
      /\ \A i \in 1 .. Len(p0) : p1[i] = p0[i]
      /\ \A i \in 1 .. Len(q1) : p1[Len(p0) + i] = q1[i]
  BY DEF Common, Count, Rate, Finale, AnyStage, Stage, Dimensions
<1>3. /\ p1 \in Seq(AnyStage) /\ q2 \in Seq(AnyStage) /\ p2 \in Seq(AnyStage)
      /\ Len(p2) = Len(p1) + Len(q2)
      /\ \A i \in 1 .. Len(p1) : p2[i] = p1[i]
      /\ \A i \in 1 .. Len(q2) : p2[Len(p1) + i] = q2[i]
  BY DEF Common, Count, Rate, Finale, AnyStage, Stage, Dimensions
<1>4. /\ p2 \in Seq(AnyStage) /\ q3 \in Seq(AnyStage) /\ p3 \in Seq(AnyStage)
      /\ Len(p3) = Len(p2) + Len(q3)
      /\ \A i \in 1 .. Len(p2) : p3[i] = p2[i]
      /\ \A i \in 1 .. Len(q3) : p3[Len(p2) + i] = q3[i]
  BY DEF Common, Count, Rate, Finale, AnyStage, Stage, Dimensions
<1> HIDE DEF p0, p1, p2, p3, q1, q2, q3
<1>5. p0 \o q1 = p1
  BY <1>2, Joined
<1>6. p1 \o q2 = p2
  BY <1>3, Joined
<1>7. p2 \o q3 = p3
  BY <1>4, Joined
<1>8. Plan[t] = p3
  BY <1>1, <1>5, <1>6, <1>7
<1> QED
  BY <1>8 DEF p3

LEMMA CommentPlan ==
    ASSUME NEW t \in CommentTasks
    PROVE  Plan[t] =
             <<Stage("subject", Basic), Stage("check", Basic), Stage("check", Discipline),
               Stage("check", Execution), Stage("check", Growth), Stage("step", Basic),
               Stage("rate", Basic), Stage("read", Discipline), Stage("write", Discipline),
               Stage("read", Execution), Stage("write", Execution), Stage("read", Growth),
               Stage("write", Growth), Stage("enqueue", Basic), Stage("ack", Basic)>>
<1> DEFINE p0 == Common
           q1 == ReadStep
           p1 == <<Stage("subject", Basic), Stage("check", Basic),
                   Stage("check", Discipline), Stage("check", Execution),
                   Stage("check", Growth), Stage("step", Basic)>>
           q2 == Rate
           p2 == <<Stage("subject", Basic), Stage("check", Basic),
                   Stage("check", Discipline), Stage("check", Execution),
                   Stage("check", Growth), Stage("step", Basic), Stage("rate", Basic)>>
           q3 == Count(Discipline)
           p3 == <<Stage("subject", Basic), Stage("check", Basic),
                   Stage("check", Discipline), Stage("check", Execution),
                   Stage("check", Growth), Stage("step", Basic), Stage("rate", Basic),
                   Stage("read", Discipline), Stage("write", Discipline)>>
           q4 == Count(Execution)
           p4 == <<Stage("subject", Basic), Stage("check", Basic),
                   Stage("check", Discipline), Stage("check", Execution),
                   Stage("check", Growth), Stage("step", Basic), Stage("rate", Basic),
                   Stage("read", Discipline), Stage("write", Discipline),
                   Stage("read", Execution), Stage("write", Execution)>>
           q5 == Count(Growth)
           p5 == <<Stage("subject", Basic), Stage("check", Basic),
                   Stage("check", Discipline), Stage("check", Execution),
                   Stage("check", Growth), Stage("step", Basic), Stage("rate", Basic),
                   Stage("read", Discipline), Stage("write", Discipline),
                   Stage("read", Execution), Stage("write", Execution),
                   Stage("read", Growth), Stage("write", Growth)>>
           q6 == Finale
           p6 == <<Stage("subject", Basic), Stage("check", Basic),
                   Stage("check", Discipline), Stage("check", Execution),
                   Stage("check", Growth), Stage("step", Basic), Stage("rate", Basic),
                   Stage("read", Discipline), Stage("write", Discipline),
                   Stage("read", Execution), Stage("write", Execution),
                   Stage("read", Growth), Stage("write", Growth), Stage("enqueue", Basic),
                   Stage("ack", Basic)>>
<1>1. Plan[t] = p0 \o q1 \o q2 \o q3 \o q4 \o q5 \o q6
  BY CommonPlan, TasksAssumption DEF Plan, Tasks, HandleStepComment
<1>2. /\ p0 \in Seq(AnyStage) /\ q1 \in Seq(AnyStage) /\ p1 \in Seq(AnyStage)
      /\ Len(p1) = Len(p0) + Len(q1)
      /\ \A i \in 1 .. Len(p0) : p1[i] = p0[i]
      /\ \A i \in 1 .. Len(q1) : p1[Len(p0) + i] = q1[i]
  BY DEF Common, ReadStep, Count, Rate, Finale, AnyStage, Stage, Dimensions
<1>3. /\ p1 \in Seq(AnyStage) /\ q2 \in Seq(AnyStage) /\ p2 \in Seq(AnyStage)
      /\ Len(p2) = Len(p1) + Len(q2)
      /\ \A i \in 1 .. Len(p1) : p2[i] = p1[i]
      /\ \A i \in 1 .. Len(q2) : p2[Len(p1) + i] = q2[i]
  BY DEF Common, ReadStep, Count, Rate, Finale, AnyStage, Stage, Dimensions
<1>4. /\ p2 \in Seq(AnyStage) /\ q3 \in Seq(AnyStage) /\ p3 \in Seq(AnyStage)
      /\ Len(p3) = Len(p2) + Len(q3)
      /\ \A i \in 1 .. Len(p2) : p3[i] = p2[i]
      /\ \A i \in 1 .. Len(q3) : p3[Len(p2) + i] = q3[i]
  BY DEF Common, ReadStep, Count, Rate, Finale, AnyStage, Stage, Dimensions
<1>5. /\ p3 \in Seq(AnyStage) /\ q4 \in Seq(AnyStage) /\ p4 \in Seq(AnyStage)
      /\ Len(p4) = Len(p3) + Len(q4)
      /\ \A i \in 1 .. Len(p3) : p4[i] = p3[i]
      /\ \A i \in 1 .. Len(q4) : p4[Len(p3) + i] = q4[i]
  BY DEF Common, ReadStep, Count, Rate, Finale, AnyStage, Stage, Dimensions
<1>6. /\ p4 \in Seq(AnyStage) /\ q5 \in Seq(AnyStage) /\ p5 \in Seq(AnyStage)
      /\ Len(p5) = Len(p4) + Len(q5)
      /\ \A i \in 1 .. Len(p4) : p5[i] = p4[i]
      /\ \A i \in 1 .. Len(q5) : p5[Len(p4) + i] = q5[i]
  BY DEF Common, ReadStep, Count, Rate, Finale, AnyStage, Stage, Dimensions
<1>7. /\ p5 \in Seq(AnyStage) /\ q6 \in Seq(AnyStage) /\ p6 \in Seq(AnyStage)
      /\ Len(p6) = Len(p5) + Len(q6)
      /\ \A i \in 1 .. Len(p5) : p6[i] = p5[i]
      /\ \A i \in 1 .. Len(q6) : p6[Len(p5) + i] = q6[i]
  BY DEF Common, ReadStep, Count, Rate, Finale, AnyStage, Stage, Dimensions
<1> HIDE DEF p0, p1, p2, p3, p4, p5, p6, q1, q2, q3, q4, q5, q6
<1>8. p0 \o q1 = p1
  BY <1>2, Joined
<1>9. p1 \o q2 = p2
  BY <1>3, Joined
<1>10. p2 \o q3 = p3
  BY <1>4, Joined
<1>11. p3 \o q4 = p4
  BY <1>5, Joined
<1>12. p4 \o q5 = p5
  BY <1>6, Joined
<1>13. p5 \o q6 = p6
  BY <1>7, Joined
<1>14. Plan[t] = p6
  BY <1>1, <1>8, <1>9, <1>10, <1>11, <1>12, <1>13
<1> QED
  BY <1>14 DEF p6

(***************************************************************************)
(* Where the statements of a task are; 0 for one its handler does not have.*)
(***************************************************************************)
WriteAt(t, d) ==
    IF t \in TargetTasks THEN IF d = Basic THEN 7 ELSE 0
    ELSE IF t \in StepTasks THEN IF d = Basic THEN 8 ELSE 0
    ELSE IF d = Discipline THEN 9 ELSE IF d = Execution THEN 11 ELSE IF d = Growth THEN 13 ELSE 0

ReadAt(t, d) == IF WriteAt(t, d) = 0 THEN 0
                ELSE IF t \in StepTasks THEN 6 ELSE WriteAt(t, d) - 1

CheckAt(d) == IF d = Basic THEN 2 ELSE IF d = Discipline THEN 3 ELSE IF d = Execution THEN 4 ELSE 5

LookAt(t) == IF t \in CommentTasks THEN 6 ELSE 0

RateAt(t) == IF t \in TargetTasks THEN 0 ELSE IF t \in StepTasks THEN 9 ELSE 7

EnqueueAt(t) == IF t \in TargetTasks THEN 8 ELSE IF t \in StepTasks THEN 10 ELSE 14

\* What a plan tells of one stage.
StageShape(t, i) ==
    LET s == Plan[t][i] IN
    /\ s \in AnyStage
    /\ s.do = "check"   <=> i \in 2 .. 5
    /\ s.do = "step"    <=> i = LookAt(t)
    /\ s.do = "rate"    <=> i = RateAt(t)
    /\ s.do = "enqueue" <=> i = EnqueueAt(t)
    /\ s.do = "ack"     <=> i = EnqueueAt(t) + 1
    /\ \A d \in Dimensions : /\ s.do = "check" /\ s.dim = d <=> i = CheckAt(d)
                             /\ s.do = "write" /\ s.dim = d <=> i = WriteAt(t, d)
                             /\ s.do = "read" /\ s.dim = d  <=> i = ReadAt(t, d)

\* What is where in a plan.
LEMMA ShapeIs ==
    ASSUME NEW t \in Tasks
    PROVE  /\ Len(Plan[t]) = EnqueueAt(t) + 1
           /\ \A i \in 1 .. EnqueueAt(t) + 1 : StageShape(t, i)
<1> USE DEF Stage, AnyStage, Dimensions, Basic, Discipline, Execution, Growth
<1>1. CASE t \in TargetTasks
  <2>1. t \notin StepTasks /\ t \notin CommentTasks
    BY <1>1, TasksAssumption
  <2>2. EnqueueAt(t) = 8 /\ RateAt(t) = 0 /\ LookAt(t) = 0
    BY <1>1, <2>1 DEF EnqueueAt, RateAt, LookAt
  <2>3. Len(Plan[t]) = 9
    BY <1>1, TargetPlan
  <2>4. ASSUME NEW i \in 1 .. 9 PROVE StageShape(t, i)
    BY <1>1, <2>1, <2>2, TargetPlan DEF StageShape, WriteAt, ReadAt, CheckAt
  <2> QED
    BY <2>2, <2>3, <2>4
<1>2. CASE t \in StepTasks
  <2>1. t \notin TargetTasks /\ t \notin CommentTasks
    BY <1>2, TasksAssumption
  <2>2. EnqueueAt(t) = 10 /\ RateAt(t) = 9 /\ LookAt(t) = 0
    BY <1>2, <2>1 DEF EnqueueAt, RateAt, LookAt
  <2>3. Len(Plan[t]) = 11
    BY <1>2, StepPlan
  <2>4. ASSUME NEW i \in 1 .. 11 PROVE StageShape(t, i)
    BY <1>2, <2>1, <2>2, StepPlan DEF StageShape, WriteAt, ReadAt, CheckAt
  <2> QED
    BY <2>2, <2>3, <2>4
<1>3. CASE t \in CommentTasks
  <2>1. t \notin TargetTasks /\ t \notin StepTasks
    BY <1>3, TasksAssumption
  <2>2. EnqueueAt(t) = 14 /\ RateAt(t) = 7 /\ LookAt(t) = 6
    BY <1>3, <2>1 DEF EnqueueAt, RateAt, LookAt
  <2>3. Len(Plan[t]) = 15
    BY <1>3, CommentPlan
  <2>4. ASSUME NEW i \in 1 .. 15 PROVE StageShape(t, i)
    BY <1>3, <2>1, <2>2, CommentPlan DEF StageShape, WriteAt, ReadAt, CheckAt
  <2> QED
    BY <2>2, <2>3, <2>4
<1> QED
  BY <1>1, <1>2, <1>3 DEF Tasks

\* A row is read before it is written, and written before another is read;
\* the dimensions a handler counts in are written, and no others but for the
\* discipline of a comment.
LEMMA WritesIs ==
    ASSUME NEW t \in Tasks, NEW d \in Dimensions
    PROVE  /\ EnqueueAt(t) \in 8 .. 14 /\ RateAt(t) \in 0 .. EnqueueAt(t) - 1
           /\ WriteAt(t, d) \in 0 .. EnqueueAt(t) - 1 /\ ReadAt(t, d) \in 0 .. EnqueueAt(t) - 1
           /\ d \in CountedIn(t) => WriteAt(t, d) # 0
           /\ WriteAt(t, d) # 0 /\ d \notin CountedIn(t) => t \in CommentTasks \ hard /\ d = Discipline
           /\ t \in CommentTasks => WriteAt(t, Discipline) = 9
           /\ WriteAt(t, d) = 0 => ReadAt(t, d) = 0
           /\ WriteAt(t, d) # 0 => ReadAt(t, d) >= 6 /\ ReadAt(t, d) < WriteAt(t, d)
           /\ \A e \in Dimensions : ReadAt(t, d) < ReadAt(t, e) => WriteAt(t, d) < ReadAt(t, e)
<1> USE DEF Dimensions, Basic, Discipline, Execution, Growth
<1>1. CASE t \in TargetTasks
  <2>1. t \notin StepTasks /\ t \notin CommentTasks
    BY <1>1, TasksAssumption
  <2> QED
    BY <1>1, <2>1 DEF WriteAt, ReadAt, EnqueueAt, RateAt, CountedIn
<1>2. CASE t \in StepTasks
  <2>1. t \notin TargetTasks /\ t \notin CommentTasks
    BY <1>2, TasksAssumption
  <2> QED
    BY <1>2, <2>1 DEF WriteAt, ReadAt, EnqueueAt, RateAt, CountedIn
<1>3. CASE t \in CommentTasks
  <2>1. t \notin TargetTasks /\ t \notin StepTasks
    BY <1>3, TasksAssumption
  <2> QED
    BY <1>3, <2>1 DEF WriteAt, ReadAt, EnqueueAt, RateAt, CountedIn
<1> QED
  BY <1>1, <1>2, <1>3 DEF Tasks

-----------------------------------------------------------------------------
(***************************************************************************)
(* The queue.                                                              *)
(***************************************************************************)
Fields == {"task", "at", "missing", "value"}

WorkerInv == /\ DOMAIN worker = Workers
             /\ \A w \in Workers : /\ DOMAIN worker[w] = Fields
                                   /\ worker[w].task \in Tasks \union {NoTask}
                                   /\ worker[w].at \in Nat

QueueInv ==
    /\ WorkerInv
    /\ status \in [Tasks -> Queue!Statuses]
    /\ attempts \in [Tasks -> Nat]
    /\ queue \in Seq(Tasks)
    /\ \A i \in 1 .. Len(queue) : status[queue[i]] = "pending"
    /\ \A i, j \in 1 .. Len(queue) : queue[i] = queue[j] => i = j
    /\ \A w \in Workers : worker[w].task # NoTask => status[worker[w].task] = "active"
    /\ \A w, v \in Workers : worker[w].task # NoTask /\ worker[w].task = worker[v].task => w = v

Do(w) == Plan[worker[w].task][worker[w].at].do

\* A comment on a step that is no challenge passes over the discipline.
PassesOver(w) == /\ worker'[w].at = worker[w].at + 3
                 /\ worker[w].task \in CommentTasks \ hard
                 /\ Do(w) = "rate"

\* Another statement of the same task.
MovesOn(w) == /\ DOMAIN worker' = Workers
              /\ \A v \in Workers \ {w} : worker'[v] = worker[v]
              /\ DOMAIN worker'[w] = Fields
              /\ worker'[w].task = worker[w].task
              /\ worker'[w].at \in {worker[w].at, worker[w].at + 1} \/ PassesOver(w)

LEMMA RestingIs == DOMAIN Resting = Fields /\ Resting.task = NoTask /\ Resting.at = 0
BY DEF Resting, Fields

LEMMA ProceedIs ==
    ASSUME WorkerInv, NEW w \in Workers, Proceed(w)
    PROVE  MovesOn(w) /\ worker'[w].at = worker[w].at + 1
BY DEF WorkerInv, Proceed, MovesOn, Fields

LEMMA QueueInit == Init => QueueInv /\ Queue!Init
BY RestingIs, TasksAssumption DEF Init, QueueInv, WorkerInv, Queue!Init, Queue!Statuses

LEMMA MovesOnQueue ==
    ASSUME QueueInv, NEW w \in Workers, MovesOn(w), UNCHANGED <<status, attempts, queue>>
    PROVE  QueueInv' /\ UNCHANGED Queue!vars
<1>1. ASSUME NEW v \in Workers
      PROVE  worker'[v].task = worker[v].task /\ DOMAIN worker'[v] = Fields /\ worker'[v].at \in Nat
  <2>1. worker[v].at \in Nat /\ DOMAIN worker[v] = Fields
    BY DEF QueueInv, WorkerInv
  <2>2. CASE v = w
    <3>1. worker'[w].at \in {worker[w].at, worker[w].at + 1, worker[w].at + 3}
      BY DEF MovesOn, PassesOver
    <3> QED
      BY <2>1, <2>2, <3>1 DEF MovesOn
  <2> QED
    BY <2>1, <2>2 DEF MovesOn
<1>2. WorkerInv'
  BY <1>1 DEF MovesOn, QueueInv, WorkerInv
<1> QED
  BY <1>1, <1>2 DEF QueueInv, Queue!vars

\* The worker lets the task go, done, failed or given up.
LEMMA LetsGo ==
    ASSUME QueueInv, NEW w \in Workers, worker[w].task # NoTask,
           NEW x \in {"retry", "archived", "done"},
           worker' = [worker EXCEPT ![w] = Resting],
           status' = [status EXCEPT ![worker[w].task] = x],
           UNCHANGED <<attempts, queue>>
    PROVE  QueueInv' /\ worker[w].task \in Tasks /\ status[worker[w].task] = "active"
<1>1. PICK t \in Tasks : t = worker[w].task
  BY DEF QueueInv, WorkerInv
<1>2. status[t] = "active"
  BY <1>1 DEF QueueInv
<1>3. worker'[w] = Resting /\ \A v \in Workers \ {w} : worker'[v] = worker[v]
  BY DEF QueueInv, WorkerInv
<1>4. WorkerInv'
  BY <1>3, RestingIs DEF QueueInv, WorkerInv
<1>5. /\ status' \in [Tasks -> Queue!Statuses] /\ status'[t] = x
      /\ \A u \in Tasks \ {t} : status'[u] = status[u]
  BY <1>1 DEF QueueInv, Queue!Statuses
<1>6. \A i \in 1 .. Len(queue) : queue[i] \in Tasks \ {t}
  BY <1>2 DEF QueueInv
<1>7. \A i \in 1 .. Len(queue) : status'[queue[i]] = "pending"
  BY <1>5, <1>6 DEF QueueInv
<1>8. ASSUME NEW v \in Workers, worker'[v].task # NoTask
      PROVE  v # w /\ worker[v].task = worker'[v].task /\ status'[worker'[v].task] = "active"
  <2>1. v # w /\ worker'[v] = worker[v]
    BY <1>3, <1>8, RestingIs
  <2>2. worker[v].task \in Tasks \ {t} /\ status[worker[v].task] = "active"
    BY <1>1, <1>8, <2>1 DEF QueueInv, WorkerInv
  <2> QED
    BY <1>5, <2>1, <2>2
<1>9. \A u, v \in Workers : worker'[u].task # NoTask /\ worker'[u].task = worker'[v].task => u = v
  BY <1>8 DEF QueueInv
<1> QED
  BY <1>1, <1>2, <1>4, <1>5, <1>7, <1>8, <1>9 DEF QueueInv

LEMMA FailQueue ==
    ASSUME QueueInv, NEW w \in Workers, worker[w].task # NoTask, Fail(w), UNCHANGED <<attempts, queue>>
    PROVE  QueueInv' /\ Queue!Next
<1> DEFINE x == IF attempts[worker[w].task] < MaxAttempts THEN "retry" ELSE "archived"
<1>1. x \in {"retry", "archived", "done"}
  OBVIOUS
<1>2. worker' = [worker EXCEPT ![w] = Resting] /\ status' = [status EXCEPT ![worker[w].task] = x]
  BY DEF Fail
<1> HIDE DEF x
<1>3. QueueInv' /\ worker[w].task \in Tasks /\ status[worker[w].task] = "active"
  BY <1>1, <1>2, LetsGo
<1>4. Queue!Fail(worker[w].task)
  BY <1>2, <1>3 DEF Queue!Fail, Queue!Move, x
<1> QED
  BY <1>3, <1>4 DEF Queue!Next

LEMMA AckQueue ==
    ASSUME QueueInv, NEW w \in Workers, Ack(w)
    PROVE  QueueInv' /\ Queue!Next
<1>1. /\ worker[w].task # NoTask
      /\ worker' = [worker EXCEPT ![w] = Resting]
      /\ status' = [status EXCEPT ![worker[w].task] = "done"]
      /\ UNCHANGED <<attempts, queue>>
  BY DEF Ack, At
<1>2. QueueInv' /\ worker[w].task \in Tasks /\ status[worker[w].task] = "active"
  BY <1>1, LetsGo
<1>3. Queue!Finish(worker[w].task)
  BY <1>1, <1>2 DEF Queue!Finish, Queue!Move
<1> QED
  BY <1>2, <1>3 DEF Queue!Next

\* Enqueue and Retry.
LEMMA Appended ==
    ASSUME QueueInv, NEW t \in Tasks, status[t] \in {"new", "retry"},
           status' = [status EXCEPT ![t] = "pending"], queue' = Append(queue, t),
           UNCHANGED <<worker, attempts>>
    PROVE  QueueInv'
<1>1. /\ queue' \in Seq(Tasks) /\ Len(queue') = Len(queue) + 1 /\ Len(queue) \in Nat
      /\ \A i \in 1 .. Len(queue) : queue'[i] = queue[i]
      /\ queue'[Len(queue) + 1] = t
  BY AppendProperties DEF QueueInv
<1>2. \A i \in 1 .. Len(queue) : queue[i] \in Tasks \ {t}
  BY DEF QueueInv
<1>3. /\ status' \in [Tasks -> Queue!Statuses] /\ status'[t] = "pending"
      /\ \A u \in Tasks \ {t} : status'[u] = status[u]
  BY DEF QueueInv, Queue!Statuses
<1>4. \A i \in 1 .. Len(queue') : i \in 1 .. Len(queue) \/ i = Len(queue) + 1
  BY <1>1
<1>5. \A i \in 1 .. Len(queue') : status'[queue'[i]] = "pending"
  BY <1>1, <1>2, <1>3, <1>4 DEF QueueInv
<1>6. \A i, j \in 1 .. Len(queue') : queue'[i] = queue'[j] => i = j
  BY <1>1, <1>2, <1>4 DEF QueueInv
<1>7. \A w \in Workers : worker[w].task # NoTask => worker[w].task \in Tasks \ {t}
  BY DEF QueueInv, WorkerInv
<1>8. \A w \in Workers : worker'[w].task # NoTask => status'[worker'[w].task] = "active"
  BY <1>3, <1>7 DEF QueueInv
<1>9. WorkerInv'
  BY DEF QueueInv, WorkerInv
<1> QED
  BY <1>1, <1>3, <1>5, <1>6, <1>8, <1>9 DEF QueueInv

LEMMA EnqueueQueue ==
    ASSUME QueueInv, NEW t \in Tasks, Enqueue(t) \/ Retry(t)
    PROVE  QueueInv' /\ Queue!Next
<1>1. QueueInv'
  BY Appended DEF Enqueue, Retry
<1>2. Queue!Enqueue(t) \/ Queue!Retry(t)
  BY DEF Enqueue, Retry, Queue!Enqueue, Queue!Retry, Queue!Move
<1> QED
  BY <1>1, <1>2 DEF Queue!Next

LEMMA TakeIs ==
    ASSUME QueueInv, NEW w \in Workers, Take(w)
    PROVE  /\ Head(queue) \in Tasks /\ status[Head(queue)] = "pending"
           /\ DOMAIN worker'[w] = Fields /\ worker'[w].task = Head(queue) /\ worker'[w].at = 1
           /\ DOMAIN worker' = Workers /\ \A v \in Workers \ {w} : worker'[v] = worker[v]
           /\ Tail(queue) \in Seq(Tasks)
           /\ \A i \in 1 .. Len(Tail(queue)) : /\ i + 1 \in 1 .. Len(queue)
                                               /\ Tail(queue)[i] = queue[i + 1]
                                               /\ Tail(queue)[i] # Head(queue)
<1>1. queue # << >> /\ queue \in Seq(Tasks)
  BY DEF Take, QueueInv
<1>2. /\ Head(queue) \in Tasks /\ Tail(queue) \in Seq(Tasks) /\ Len(Tail(queue)) = Len(queue) - 1
      /\ \A i \in 1 .. Len(Tail(queue)) : Tail(queue)[i] = queue[i + 1]
  BY <1>1, HeadTailProperties
<1>3. Len(queue) \in Nat \ {0} /\ Head(queue) = queue[1]
  BY <1>1
<1>4. \A i \in 1 .. Len(Tail(queue)) : i + 1 \in 1 .. Len(queue) /\ i + 1 # 1
  BY <1>2, <1>3
<1>5. \A i \in 1 .. Len(Tail(queue)) : Tail(queue)[i] # Head(queue)
  BY <1>2, <1>3, <1>4 DEF QueueInv
<1>6. status[Head(queue)] = "pending"
  BY <1>3 DEF QueueInv
<1> DEFINE q == [Resting EXCEPT !.task = Head(queue), !.at = 1]
<1>7. DOMAIN q = Fields /\ q.task = Head(queue) /\ q.at = 1
  BY RestingIs DEF Fields
<1>8. worker' = [worker EXCEPT ![w] = q]
  BY DEF Take
<1> HIDE DEF q
<1>9. worker'[w] = q /\ DOMAIN worker' = Workers /\ \A v \in Workers \ {w} : worker'[v] = worker[v]
  BY <1>8 DEF QueueInv, WorkerInv
<1> QED
  BY <1>2, <1>4, <1>5, <1>6, <1>7, <1>9

LEMMA TakeQueue ==
    ASSUME QueueInv, NEW w \in Workers, Take(w)
    PROVE  QueueInv' /\ Queue!Next
<1>1. PICK t \in Tasks : t = Head(queue)
  BY TakeIs
<1>2. /\ status[t] = "pending" /\ DOMAIN worker'[w] = Fields
      /\ worker'[w].task = t /\ worker'[w].at = 1
      /\ DOMAIN worker' = Workers /\ \A v \in Workers \ {w} : worker'[v] = worker[v]
  BY <1>1, TakeIs
<1>3. PICK rest \in Seq(Tasks) : rest = Tail(queue)
  BY TakeIs
<1>4. \A i \in 1 .. Len(rest) : i + 1 \in 1 .. Len(queue) /\ rest[i] = queue[i + 1] /\ rest[i] # t
  BY <1>1, <1>3, TakeIs
<1>5. /\ status' = [status EXCEPT ![t] = "active"] /\ attempts' = [attempts EXCEPT ![t] = @ + 1]
      /\ queue' = rest /\ worker[w].task = NoTask
  BY <1>1, <1>3 DEF Take
<1>6. Queue!Take(t)
  BY <1>2, <1>5 DEF Queue!Take, Queue!Move
<1>7. WorkerInv'
  <2>1. WorkerInv
    BY DEF QueueInv
  <2> QED
    BY <1>2, <2>1 DEF WorkerInv
<1>8. /\ status' \in [Tasks -> Queue!Statuses] /\ status'[t] = "active"
      /\ \A u \in Tasks \ {t} : status'[u] = status[u]
      /\ attempts' \in [Tasks -> Nat]
  BY <1>5 DEF QueueInv, Queue!Statuses
<1>9. \A i \in 1 .. Len(rest) : status'[rest[i]] = "pending"
  <2> SUFFICES ASSUME NEW i \in 1 .. Len(rest) PROVE status'[rest[i]] = "pending"
    OBVIOUS
  <2>1. PICK k \in 1 .. Len(queue) : k = i + 1 /\ rest[i] = queue[k] /\ rest[i] # t
    BY <1>4
  <2>2. queue[k] \in Tasks
    BY ElementOfSeq DEF QueueInv
  <2>3. status[queue[k]] = "pending"
    BY DEF QueueInv
  <2> QED
    BY <1>8, <2>1, <2>2, <2>3
<1>10. ASSUME NEW i \in 1 .. Len(rest), NEW j \in 1 .. Len(rest), rest[i] = rest[j] PROVE i = j
  <2>1. i + 1 = j + 1
    BY <1>4, <1>10 DEF QueueInv
  <2> QED
    BY <2>1
<1>11. \A v \in Workers : worker[v].task # NoTask => worker[v].task \in Tasks \ {t}
  BY <1>2 DEF QueueInv, WorkerInv
<1>12. ASSUME NEW v \in Workers, worker'[v].task # NoTask
       PROVE  /\ status'[worker'[v].task] = "active"
              /\ worker'[v].task = t => v = w
              /\ v # w => worker[v].task = worker'[v].task
  <2>1. CASE v = w
    BY <1>2, <1>8, <2>1
  <2>2. CASE v # w
    <3>1. worker'[v] = worker[v]
      BY <1>2, <2>2
    <3>2. worker[v].task \in Tasks \ {t}
      BY <1>11, <1>12, <3>1
    <3>3. status[worker[v].task] = "active"
      BY <1>12, <3>1 DEF QueueInv
    <3> QED
      BY <1>8, <3>1, <3>2, <3>3
  <2> QED
    BY <2>1, <2>2
<1>13. ASSUME NEW u \in Workers, NEW v \in Workers, worker'[u].task # NoTask, worker'[u].task = worker'[v].task
       PROVE  u = v
  <2>1. CASE u = w \/ v = w
    BY <1>2, <1>12, <1>13, <2>1
  <2>2. CASE u # w /\ v # w
    BY <1>12, <1>13, <2>2 DEF QueueInv
  <2> QED
    BY <2>1, <2>2
<1>14. QueueInv'
  BY <1>5, <1>7, <1>8, <1>9, <1>10, <1>12, <1>13 DEF QueueInv
<1> QED
  BY <1>6, <1>14 DEF Queue!Next

(***************************************************************************)
(* The statements of the handlers leave the queue alone or fail.           *)
(***************************************************************************)
\* A statement that succeeds.
Statement(w) == /\ worker[w].task # NoTask
                /\ MovesOn(w)
                /\ UNCHANGED <<status, attempts, queue>>

\* One that has nothing to do with the rates and the feedback.
Quiet(w) == /\ Statement(w)
            /\ worker'[w].at = worker[w].at \/ Do(w) \notin {"rate", "enqueue", "ack"}
            /\ UNCHANGED <<rates, feedback>>

GivesUp(w) == /\ worker[w].task # NoTask
              /\ Fail(w)
              /\ UNCHANGED <<attempts, queue, rates, feedback>>

LEMMA PortraitStatements ==
    ASSUME WorkerInv, NEW w \in Workers,
           \/ QuerySubject(w) \/ Check(w) \/ CreatePortrait(w) \/ QueryStep(w)
           \/ ReadPortrait(w) \/ WritePortrait(w) \/ Fault(w)
    PROVE  Quiet(w) \/ GivesUp(w)
<1>1. CASE QuerySubject(w)
  <2>1. Do(w) = "subject" /\ worker[w].task # NoTask
    BY <1>1 DEF QuerySubject, At, Do
  <2> QED
    BY <1>1, <2>1, ProceedIs DEF QuerySubject, Quiet, Statement, GivesUp
<1>2. CASE Check(w)
  <2>1. Do(w) = "check" /\ worker[w].task # NoTask
    BY <1>2 DEF Check, At, Do
  <2>2. CASE Len(portraits[Dim(w)]) = 0
    <3>1. worker' = [worker EXCEPT ![w].missing = TRUE] /\ UNCHANGED <<status, attempts, queue, rates, feedback>>
      BY <1>2, <2>2 DEF Check
    <3>2. MovesOn(w) /\ worker'[w].at = worker[w].at
      BY <3>1 DEF MovesOn, WorkerInv, Fields
    <3> QED
      BY <2>1, <3>1, <3>2 DEF Quiet, Statement
  <2>3. CASE Len(portraits[Dim(w)]) # 0
    <3>1. (Proceed(w) /\ UNCHANGED status) \/ Fail(w) \/ UNCHANGED <<status, worker>>
      BY <1>2, <2>3 DEF Check
    <3> QED
      BY <1>2, <2>1, <3>1, ProceedIs DEF Check, Quiet, Statement, GivesUp, MovesOn, WorkerInv
  <2> QED
    BY <2>2, <2>3
<1>3. CASE CreatePortrait(w)
  <2>1. Do(w) = "check" /\ worker[w].task # NoTask
    BY <1>3 DEF CreatePortrait, At, Do
  <2> QED
    BY <1>3, <2>1, ProceedIs DEF CreatePortrait, Quiet, Statement
<1>4. CASE ReadPortrait(w)
  <2>1. Do(w) = "read" /\ worker[w].task # NoTask
    BY <1>4 DEF ReadPortrait, At, Do
  <2>2. CASE Len(portraits[Dim(w)]) = 1
    <3>1. /\ worker' = [worker EXCEPT ![w].at = @ + 1, ![w].value = portraits[Dim(w)][1]]
          /\ UNCHANGED <<status, attempts, queue, rates, feedback>>
      BY <1>4, <2>2 DEF ReadPortrait
    <3>2. MovesOn(w)
      BY <3>1 DEF MovesOn, WorkerInv, Fields
    <3> QED
      BY <2>1, <3>1, <3>2 DEF Quiet, Statement
  <2>3. CASE Len(portraits[Dim(w)]) # 1
    BY <1>4, <2>1, <2>3 DEF ReadPortrait, GivesUp
  <2> QED
    BY <2>2, <2>3
<1>5. CASE WritePortrait(w)
  <2>1. Do(w) = "write" /\ worker[w].task # NoTask
    BY <1>5 DEF WritePortrait, At, Do
  <2>2. Proceed(w) /\ UNCHANGED <<status, attempts, queue, rates, feedback>>
    BY <1>5 DEF WritePortrait
  <2> QED
    BY <2>1, <2>2, ProceedIs DEF Quiet, Statement
<1>6. CASE Fault(w)
  BY <1>6 DEF Fault, GivesUp
<1>7. CASE QueryStep(w)
  <2>1. Do(w) = "step" /\ worker[w].task # NoTask /\ UNCHANGED <<attempts, queue, rates, feedback>>
    BY <1>7 DEF QueryStep, At, Do
  <2>2. (Proceed(w) /\ UNCHANGED status) \/ Fail(w)
    BY <1>7 DEF QueryStep
  <2> QED
    BY <2>1, <2>2, ProceedIs DEF Quiet, Statement, GivesUp
<1> QED
  BY <1>1, <1>2, <1>3, <1>4, <1>5, <1>6, <1>7

LEMMA AddToRateIs ==
    ASSUME WorkerInv, NEW w \in Workers, AddToRate(w)
    PROVE  /\ MovesOn(w) /\ worker'[w].at # worker[w].at
           /\ worker'[w].value = worker[w].value /\ worker'[w].missing \in {worker[w].missing, FALSE}
           /\ worker'[w].at = worker[w].at + 1 => worker[w].task \in hard
           /\ worker[w].task # NoTask /\ Do(w) = "rate"
           /\ UNCHANGED <<status, attempts, queue, feedback>>
<1>1. worker[w].task \in CommentTasks /\ worker[w].task # NoTask /\ Do(w) = "rate"
  BY DEF AddToRate, At, Do
<1>2. UNCHANGED <<status, attempts, queue, feedback>>
  BY DEF AddToRate
<1>3. CASE worker[w].task \in hard
  <2>1. Proceed(w)
    BY <1>3 DEF AddToRate
  <2> QED
    BY <1>1, <1>2, <1>3, <2>1 DEF Proceed, MovesOn, WorkerInv, Fields
<1>4. CASE worker[w].task \notin hard
  <2>1. worker' = [worker EXCEPT ![w].at = @ + 3]
    BY <1>4 DEF AddToRate
  <2> QED
    BY <1>1, <1>2, <1>4, <2>1 DEF PassesOver, MovesOn, WorkerInv, Fields
<1> QED
  BY <1>3, <1>4

LEMMA RateStatements ==
    ASSUME WorkerInv, NEW w \in Workers,
           CreateRate(w) \/ AddToRate(w) \/ EnqueueFeedback(w)
    PROVE  Statement(w) \/ GivesUp(w)
<1>1. CASE AddToRate(w)
  BY <1>1, AddToRateIs DEF Statement
<1>2. CASE CreateRate(w) \/ EnqueueFeedback(w)
  <2>1. worker[w].task # NoTask /\ UNCHANGED <<attempts, queue>>
    BY <1>2 DEF CreateRate, EnqueueFeedback, At
  <2>2. (Proceed(w) /\ UNCHANGED status) \/ (Fail(w) /\ UNCHANGED <<rates, feedback>>)
    BY <1>2 DEF CreateRate, EnqueueFeedback
  <2> QED
    BY <2>1, <2>2, ProceedIs DEF Statement, GivesUp
<1> QED
  BY <1>1, <1>2

LEMMA QueueNext == QueueInv /\ [Next]_vars => QueueInv' /\ [Queue!Next]_(Queue!vars)
<1> SUFFICES ASSUME QueueInv, [Next]_vars PROVE QueueInv' /\ [Queue!Next]_(Queue!vars)
  OBVIOUS
<1>1. ASSUME UNCHANGED <<worker, status, attempts, queue>> PROVE QueueInv' /\ [Queue!Next]_(Queue!vars)
  BY <1>1 DEF QueueInv, WorkerInv, Queue!vars
<1>2. ASSUME NEW t \in Tasks, Enqueue(t) \/ LoseTarget(t) \/ Retry(t)
      PROVE  QueueInv' /\ [Queue!Next]_(Queue!vars)
  BY <1>1, <1>2, EnqueueQueue DEF LoseTarget
<1>3. ASSUME NEW w \in Workers, Statement(w) \/ GivesUp(w)
      PROVE  QueueInv' /\ [Queue!Next]_(Queue!vars)
  BY <1>3, MovesOnQueue, FailQueue DEF Statement, GivesUp
<1>4. ASSUME NEW w \in Workers, Work(w) \/ Fault(w)
      PROVE  QueueInv' /\ [Queue!Next]_(Queue!vars)
  <2>1. CASE Take(w) \/ Ack(w)
    BY <2>1, TakeQueue, AckQueue
  <2>2. CASE CreateRate(w) \/ AddToRate(w) \/ EnqueueFeedback(w)
    BY <1>3, <2>2, RateStatements DEF QueueInv
  <2>3. CASE \/ QuerySubject(w) \/ Check(w) \/ CreatePortrait(w) \/ QueryStep(w)
            \/ ReadPortrait(w) \/ WritePortrait(w) \/ Fault(w)
    BY <1>3, <2>3, PortraitStatements DEF QueueInv, Quiet
  <2> QED
    BY <1>4, <2>1, <2>2, <2>3 DEF Work
<1> QED
  BY <1>1, <1>2, <1>4 DEF Next, vars

(***************************************************************************)
(* Whatever the workers do, the tasks go through the queue as TaskQueue    *)
(* says: in one worker's hands at a time, done once, given up after the    *)
(* last attempt.                                                           *)
(***************************************************************************)
THEOREM QueueSafeAlways == Spec => QueueSafe
<1> QED
  BY QueueInit, QueueNext, PTL DEF Spec, QueueSafe, Queue!Spec

-----------------------------------------------------------------------------
(***************************************************************************)
(* What the comments found of their steps: a worker is at the two          *)
(* statements of the discipline for a challenge only.                      *)
(***************************************************************************)
CommentStage(w) ==
    LET c == worker[w].task IN
    c \in CommentTasks => /\ worker[w].at \in 1 .. 15
                          /\ worker[w].at \in {8, 9} => c \in hard

LooksInv == /\ hard \subseteq everHard /\ everHard \subseteq CommentTasks
            /\ \A w \in Workers : CommentStage(w)

LEMMA LooksInit == Init => LooksInv
<1> SUFFICES ASSUME Init PROVE LooksInv
  OBVIOUS
<1>1. \A w \in Workers : worker[w].task \notin CommentTasks
  BY RestingIs, TasksAssumption DEF Init, Tasks
<1> QED
  BY <1>1 DEF Init, LooksInv, CommentStage

LEMMA CommentDo ==
    ASSUME LooksInv, NEW w \in Workers, worker[w].task \in CommentTasks
    PROVE  /\ worker[w].at \in 1 .. 15
           /\ Do(w) = "step" <=> worker[w].at = 6
           /\ Do(w) = "rate" <=> worker[w].at = 7
           /\ Do(w) = "ack" <=> worker[w].at = 15
<1>1. PICK c \in CommentTasks : c = worker[w].task
  OBVIOUS
<1>2. PICK i \in 1 .. 15 : i = worker[w].at
  BY <1>1 DEF LooksInv, CommentStage
<1>3. c \in Tasks /\ c \notin TargetTasks /\ c \notin StepTasks
  BY TasksAssumption DEF Tasks
<1>4. LookAt(c) = 6 /\ RateAt(c) = 7 /\ EnqueueAt(c) = 14
  BY <1>3 DEF LookAt, RateAt, EnqueueAt
<1>5. StageShape(c, i) /\ Do(w) = Plan[c][i].do
  BY <1>1, <1>2, <1>3, <1>4, ShapeIs DEF Do
<1> QED
  BY <1>2, <1>4, <1>5 DEF StageShape

\* A worker that does nothing finds what its own comment found unchanged.
LEMMA OtherLooks ==
    ASSUME QueueInv, LooksInv, NEW w \in Workers, worker[w].task # NoTask,
           \A v \in Workers \ {w} : worker'[v] = worker[v],
           \A c \in CommentTasks \ {worker[w].task} : c \in hard => c \in hard'
    PROVE  \A v \in Workers \ {w} : CommentStage(v)'
<1> TAKE v \in Workers \ {w}
<1>1. worker[v].task # worker[w].task /\ worker'[v] = worker[v]
  BY DEF QueueInv
<1>2. CommentStage(v)
  BY DEF LooksInv
<1> QED
  BY <1>1, <1>2 DEF CommentStage

LEMMA StatementLooks ==
    ASSUME QueueInv, LooksInv, NEW w \in Workers, Statement(w), UNCHANGED looks,
           worker'[w].at = worker[w].at \/ Do(w) # "ack",
           worker'[w].at = worker[w].at + 1 /\ Do(w) = "rate" => worker[w].task \notin CommentTasks \ hard
    PROVE  LooksInv'
<1>1. /\ worker'[w].task = worker[w].task /\ worker[w].task # NoTask
      /\ \A v \in Workers \ {w} : worker'[v] = worker[v]
      /\ worker'[w].at \in {worker[w].at, worker[w].at + 1} \/ (worker'[w].at = worker[w].at + 3 /\ Do(w) = "rate")
      /\ hard' = hard /\ everHard' = everHard
  BY DEF Statement, MovesOn, PassesOver, looks
<1>2. \A v \in Workers \ {w} : CommentStage(v)'
  BY <1>1, OtherLooks
<1>3. CommentStage(w)'
  <2> SUFFICES ASSUME worker[w].task \in CommentTasks
               PROVE  /\ worker'[w].at \in 1 .. 15
                      /\ worker'[w].at \in {8, 9} => worker[w].task \in hard
    BY <1>1 DEF CommentStage
  <2>1. PICK i \in 1 .. 15 : i = worker[w].at /\ (i \in {8, 9} => worker[w].task \in hard)
    BY DEF LooksInv, CommentStage
  <2>2. (Do(w) = "rate" <=> i = 7) /\ (Do(w) = "ack" <=> i = 15)
    BY <2>1, CommentDo
  <2>3. CASE worker'[w].at = i
    BY <2>1, <2>3
  <2>4. CASE worker'[w].at = i + 1 /\ i # 15
    BY <2>1, <2>2, <2>4
  <2>5. CASE worker'[w].at = i + 3 /\ i = 7
    BY <2>5
  <2> QED
    BY <1>1, <2>1, <2>2, <2>3, <2>4, <2>5
<1> QED
  BY <1>1, <1>2, <1>3 DEF LooksInv

LEMMA QueryStepLooks ==
    ASSUME QueueInv, LooksInv, NEW w \in Workers, QueryStep(w), ~Fail(w)
    PROVE  /\ LooksInv' /\ everHard \subseteq everHard' /\ Proceed(w) /\ UNCHANGED status
           /\ \A t \in Tasks \ {worker[w].task} : t \in hard' <=> t \in hard
<1>1. worker[w].task # NoTask /\ Do(w) = "step"
  BY DEF QueryStep, At, Do
<1>2. PICK c \in Tasks : c = worker[w].task
  BY <1>1 DEF QueueInv, WorkerInv
<1>3. c \in CommentTasks
  BY <1>2 DEF QueryStep
<1>4. PICK found \in SUBSET {c} : /\ hard' = (hard \ {c}) \union found
                                /\ everHard' = everHard \union found
                                /\ Proceed(w) /\ UNCHANGED status
  BY <1>2 DEF QueryStep
<1>5. worker[w].at = 6 /\ worker'[w].task = c /\ worker'[w].at = 7
  <2>1. worker[w].at = 6
    BY <1>1, <1>2, <1>3, CommentDo
  <2> QED
    BY <1>2, <1>4, <2>1, ProceedIs DEF QueueInv, MovesOn
<1>6. \A v \in Workers \ {w} : worker'[v] = worker[v]
  BY <1>4, ProceedIs DEF QueueInv, MovesOn
<1>7. \A t \in Tasks \ {c} : t \in hard' <=> t \in hard
  BY <1>4
<1>8. \A v \in Workers \ {w} : CommentStage(v)'
  <2>1. CommentTasks \subseteq Tasks
    BY DEF Tasks
  <2> QED
    BY <1>1, <1>2, <1>6, <1>7, <2>1, OtherLooks
<1>9. CommentStage(w)'
  BY <1>5 DEF CommentStage
<1>10. hard' \subseteq everHard' /\ everHard' \subseteq CommentTasks /\ everHard \subseteq everHard'
  BY <1>3, <1>4 DEF LooksInv
<1> QED
  BY <1>2, <1>4, <1>7, <1>8, <1>9, <1>10 DEF LooksInv

LEMMA RestingLooks ==
    ASSUME QueueInv, LooksInv, NEW w \in Workers, worker[w].task # NoTask,
           worker' = [worker EXCEPT ![w] = Resting], UNCHANGED looks
    PROVE  LooksInv'
<1>1. worker'[w].task \notin CommentTasks
  BY RestingIs, TasksAssumption DEF QueueInv, WorkerInv, Tasks
<1>2. \A v \in Workers \ {w} : worker'[v] = worker[v]
  BY DEF QueueInv, WorkerInv
<1>3. hard' = hard /\ everHard' = everHard
  BY DEF looks
<1>4. \A v \in Workers \ {w} : CommentStage(v)'
  BY <1>2, <1>3, OtherLooks
<1>5. CommentStage(w)'
  BY <1>1 DEF CommentStage
<1> QED
  BY <1>3, <1>4, <1>5 DEF LooksInv

LEMMA LooksNext == QueueInv /\ LooksInv /\ [Next]_vars => LooksInv'
<1> SUFFICES ASSUME QueueInv, LooksInv, [Next]_vars PROVE LooksInv'
  OBVIOUS
<1>1. ASSUME UNCHANGED <<worker, looks>> PROVE LooksInv'
  BY <1>1 DEF LooksInv, CommentStage, looks
<1>2. ASSUME NEW w \in Workers, worker[w].task # NoTask, UNCHANGED looks, Fail(w) \/ Ack(w)
      PROVE  LooksInv'
  <2>1. worker' = [worker EXCEPT ![w] = Resting]
    BY <1>2 DEF Fail, Ack
  <2> QED
    BY <1>2, <2>1, RestingLooks
<1>3. ASSUME NEW w \in Workers, Take(w) PROVE LooksInv'
  <2>1. /\ worker'[w].at = 1 /\ UNCHANGED looks
        /\ \A v \in Workers \ {w} : worker'[v] = worker[v]
    BY <1>3, TakeIs DEF Take
  <2> QED
    BY <2>1 DEF LooksInv, CommentStage, looks
<1>4. ASSUME NEW w \in Workers, QueryStep(w) PROVE LooksInv'
  <2>1. CASE Fail(w) /\ UNCHANGED looks
    BY <1>2, <1>4, <2>1 DEF QueryStep, At
  <2>2. CASE ~Fail(w)
    BY <1>4, <2>2, QueryStepLooks
  <2>3. CASE Fail(w) /\ ~UNCHANGED looks
    <3>1. Proceed(w)
      BY <1>4, <2>3 DEF QueryStep
    <3>2. worker'[w].task # NoTask
      BY <1>4, <3>1, ProceedIs DEF QueryStep, At, MovesOn, QueueInv
    <3> QED
      BY <2>3, <3>2, RestingIs DEF Fail, QueueInv, WorkerInv
  <2> QED
    BY <2>1, <2>2, <2>3
<1>5. ASSUME NEW w \in Workers, AddToRate(w) PROVE LooksInv'
  BY <1>5, AddToRateIs, StatementLooks DEF AddToRate, Statement, QueueInv
<1>6. ASSUME NEW w \in Workers,
             \/ QuerySubject(w) \/ Check(w) \/ CreatePortrait(w)
             \/ ReadPortrait(w) \/ WritePortrait(w) \/ Fault(w)
      PROVE  LooksInv'
  <2>1. UNCHANGED looks
    BY <1>6 DEF QuerySubject, Check, CreatePortrait, ReadPortrait, WritePortrait, Fault
  <2>2. CASE GivesUp(w)
    BY <1>2, <2>1, <2>2 DEF GivesUp
  <2>3. CASE Quiet(w)
    <3>1. worker[w].at \in Nat
      BY DEF QueueInv, WorkerInv
    <3>2. worker'[w].at # worker[w].at => Do(w) \notin {"rate", "ack"}
      BY <2>3 DEF Quiet
    <3>3. Statement(w)
      BY <2>3 DEF Quiet
    <3>4. worker'[w].at = worker[w].at + 1 => worker'[w].at # worker[w].at
      BY <3>1
    <3> QED
      BY <2>1, <3>2, <3>3, <3>4, StatementLooks
  <2> QED
    BY <1>6, <2>2, <2>3, PortraitStatements DEF QueueInv
<1>7. ASSUME NEW w \in Workers, CreateRate(w) \/ EnqueueFeedback(w) PROVE LooksInv'
  <2>1. UNCHANGED looks /\ worker[w].task # NoTask /\ Do(w) \in {"rate", "enqueue"}
    BY <1>7 DEF CreateRate, EnqueueFeedback, At, Do
  <2>2. Do(w) = "rate" => worker[w].task \notin CommentTasks
    BY <1>7, TasksAssumption DEF CreateRate, EnqueueFeedback, At, Do
  <2>3. CASE Statement(w)
    BY <2>1, <2>2, <2>3, StatementLooks
  <2>4. CASE GivesUp(w)
    BY <1>2, <2>1, <2>4 DEF GivesUp
  <2> QED
    BY <1>7, <2>3, <2>4, RateStatements DEF QueueInv
<1>8. ASSUME NEW w \in Workers, Ack(w) PROVE LooksInv'
  BY <1>2, <1>8 DEF Ack, At
<1>9. ASSUME NEW t \in Tasks, Enqueue(t) \/ LoseTarget(t) \/ Retry(t) PROVE LooksInv'
  BY <1>1, <1>9 DEF Enqueue, LoseTarget, Retry
<1> QED
  BY <1>1, <1>3, <1>4, <1>5, <1>6, <1>7, <1>8, <1>9 DEF Next, Work, vars

-----------------------------------------------------------------------------
(***************************************************************************)
(* The feedback.                                                           *)
(***************************************************************************)
\* A step's worker has created the row of step_rates before it gets to the
\* feedback, and has not enqueued one yet when it is there.
StepStage(w) ==
    LET s == worker[w].task IN
    s \in StepTasks => /\ worker[w].at \in 1 .. 11
                       /\ worker[w].at >= 10 => rates[s] # {}
                       /\ worker[w].at = 10 => feedback[s] = 0

FeedbackInv ==
    /\ QueueInv
    /\ DOMAIN rates = StepTasks
    /\ feedback \in [Tasks -> Nat]
    /\ \A s \in StepTasks : feedback[s] <= 1 /\ (rates[s] = {} => feedback[s] = 0)
    /\ \A w \in Workers : StepStage(w)

LEMMA FeedbackInit == Init => FeedbackInv
<1> SUFFICES ASSUME Init PROVE FeedbackInv
  OBVIOUS
<1>1. StepTasks \subseteq Tasks /\ NoTask \notin StepTasks
  BY TasksAssumption DEF Tasks
<1>2. \A w \in Workers : worker[w].task = NoTask
  BY RestingIs DEF Init
<1> QED
  BY <1>1, <1>2, QueueInit DEF Init, FeedbackInv, StepStage

LEMMA StepDo ==
    ASSUME FeedbackInv, NEW w \in Workers, worker[w].task \in StepTasks
    PROVE  /\ Do(w) = "rate" => worker[w].at = 9
           /\ Do(w) = "enqueue" => worker[w].at = 10
           /\ Do(w) \notin {"rate", "enqueue", "ack"} => worker[w].at \in 1 .. 8
<1>1. PICK s \in StepTasks : s = worker[w].task
  OBVIOUS
<1>2. PICK i \in 1 .. 11 : i = worker[w].at
  BY DEF FeedbackInv, StepStage
<1>3. i \in 1 .. 8 \/ i = 9 \/ i = 10 \/ i = 11
  BY <1>2
<1>4. Do(w) = Plan[s][i].do
  BY <1>1, <1>2 DEF Do
<1>5. s \in Tasks /\ s \notin TargetTasks
  BY TasksAssumption DEF Tasks
<1>6. RateAt(s) = 9 /\ EnqueueAt(s) = 10
  BY <1>5 DEF RateAt, EnqueueAt
<1>7. StageShape(s, i)
  BY <1>5, <1>6, ShapeIs
<1> QED
  BY <1>2, <1>3, <1>4, <1>6, <1>7 DEF StageShape

\* The workers that do nothing have nothing to fear from a row of rates that
\* another one creates.
LEMMA Others ==
    ASSUME FeedbackInv, NEW w \in Workers, NEW v \in Workers \ {w}, worker'[v] = worker[v],
           worker[w].task # NoTask,
           \A s \in StepTasks : rates[s] # {} => rates'[s] # {},
           \A s \in StepTasks \ {worker[w].task} : feedback'[s] = feedback[s]
    PROVE  StepStage(v)'
<1>1. worker[v].task # worker[w].task
  BY DEF FeedbackInv, QueueInv
<1>2. StepStage(v)
  BY DEF FeedbackInv
<1> QED
  BY <1>1, <1>2 DEF StepStage

LEMMA RestingStage ==
    ASSUME FeedbackInv, QueueInv', NEW w \in Workers, worker[w].task # NoTask,
           worker' = [worker EXCEPT ![w] = Resting], UNCHANGED <<rates, feedback>>
    PROVE  FeedbackInv'
<1>1. worker'[w].task \notin StepTasks
  BY RestingIs, TasksAssumption DEF FeedbackInv, QueueInv, WorkerInv, Tasks
<1>2. \A v \in Workers \ {w} : worker'[v] = worker[v]
  BY DEF FeedbackInv, QueueInv, WorkerInv
<1>3. \A v \in Workers \ {w} : StepStage(v)'
  BY <1>2, Others
<1>4. StepStage(w)'
  BY <1>1 DEF StepStage
<1> QED
  BY <1>3, <1>4 DEF FeedbackInv

LEMMA QuietFeedback ==
    ASSUME FeedbackInv, QueueInv', NEW w \in Workers, Quiet(w)
    PROVE  FeedbackInv'
<1>1. /\ worker[w].task # NoTask /\ UNCHANGED <<rates, feedback>>
      /\ worker'[w].task = worker[w].task
      /\ \A v \in Workers \ {w} : worker'[v] = worker[v]
      /\ worker'[w].at \in {worker[w].at, worker[w].at + 1} \/ Do(w) = "rate"
      /\ worker'[w].at = worker[w].at \/ Do(w) \notin {"rate", "enqueue", "ack"}
  BY DEF Quiet, Statement, MovesOn, PassesOver
<1>2. \A v \in Workers \ {w} : StepStage(v)'
  BY <1>1, Others
<1>3. StepStage(w)'
  <2>1. CASE worker'[w].at = worker[w].at
    BY <1>1, <2>1 DEF FeedbackInv, StepStage
  <2>2. CASE worker'[w].at # worker[w].at
    <3>1. worker[w].task \in StepTasks => worker[w].at \in 1 .. 8
      BY <1>1, <2>2, StepDo
    <3>2. worker'[w].task \in StepTasks => worker'[w].at \in 1 .. 9
      BY <1>1, <3>1
    <3> QED
      BY <3>2 DEF StepStage
  <2> QED
    BY <2>1, <2>2
<1> QED
  BY <1>1, <1>2, <1>3 DEF FeedbackInv

LEMMA CreateRateFeedback ==
    ASSUME FeedbackInv, QueueInv', NEW w \in Workers, CreateRate(w), Proceed(w)
    PROVE  FeedbackInv'
<1>1. PICK s \in StepTasks : s = worker[w].task
  BY DEF CreateRate
<1>2. rates[s] = {} /\ rates' = [rates EXCEPT ![s] = {Zero}] /\ UNCHANGED feedback
  <2>1. worker' # [worker EXCEPT ![w] = Resting]
    <3>1. worker'[w].task = worker[w].task /\ worker[w].task # NoTask
      BY ProceedIs DEF MovesOn, CreateRate, At, FeedbackInv, QueueInv
    <3> QED
      BY <3>1, RestingIs DEF FeedbackInv, QueueInv, WorkerInv
  <2> QED
    BY <1>1, <2>1 DEF CreateRate, Fail
<1>3. Do(w) = "rate" /\ worker[w].task # NoTask
  BY DEF CreateRate, At, Do
<1>4. worker[w].at = 9
  BY <1>1, <1>3, StepDo
<1>5. MovesOn(w) /\ worker'[w].at = 10
  BY <1>4, ProceedIs DEF FeedbackInv, QueueInv
<1>6. \A r \in StepTasks : rates[r] # {} => rates'[r] # {}
  BY <1>2 DEF FeedbackInv
<1>7. DOMAIN rates' = StepTasks /\ rates'[s] # {} /\ \A r \in StepTasks : rates'[r] = {} => rates[r] = {}
  BY <1>2 DEF FeedbackInv
<1>8. feedback[s] = 0
  BY <1>2 DEF FeedbackInv
<1>9. \A v \in Workers \ {w} : StepStage(v)'
  BY <1>2, <1>3, <1>5, <1>6, Others DEF MovesOn
<1>10. StepStage(w)'
  BY <1>1, <1>2, <1>5, <1>7, <1>8 DEF StepStage, MovesOn
<1> QED
  BY <1>2, <1>7, <1>9, <1>10 DEF FeedbackInv

LEMMA AddToRateFeedback ==
    ASSUME FeedbackInv, QueueInv', NEW w \in Workers, AddToRate(w)
    PROVE  FeedbackInv'
<1>1. PICK c \in CommentTasks : c = worker[w].task
  BY DEF AddToRate
<1>2. PICK s \in StepTasks : s = StepOf[c]
  BY StepOfAssumption
<1>3. rates' = [rates EXCEPT ![s] = {Add(v, c) : v \in @}] /\ UNCHANGED feedback
  BY <1>1, <1>2 DEF AddToRate
<1>4. DOMAIN rates' = StepTasks /\ \A r \in StepTasks : rates'[r] = {} <=> rates[r] = {}
  <2>1. rates'[s] = {Add(v, c) : v \in rates[s]}
    BY <1>3 DEF FeedbackInv
  <2>2. DOMAIN rates' = StepTasks /\ \A r \in StepTasks \ {s} : rates'[r] = rates[r]
    BY <1>3 DEF FeedbackInv
  <2> QED
    BY <2>1, <2>2
<1>5. worker[w].task # NoTask /\ MovesOn(w)
  BY AddToRateIs DEF FeedbackInv, QueueInv
<1>6. \A v \in Workers \ {w} : StepStage(v)'
  BY <1>3, <1>4, <1>5, Others DEF MovesOn
<1>7. StepStage(w)'
  BY <1>1, <1>5, TasksAssumption DEF StepStage, MovesOn
<1> QED
  BY <1>3, <1>4, <1>6, <1>7 DEF FeedbackInv

LEMMA EnqueueFeedbackFeedback ==
    ASSUME FeedbackInv, QueueInv', NEW w \in Workers, EnqueueFeedback(w)
    PROVE  FeedbackInv'
<1>1. worker[w].task # NoTask /\ Do(w) = "enqueue" /\ UNCHANGED rates
  BY DEF EnqueueFeedback, At, Do
<1>2. PICK t \in Tasks : t = worker[w].task
  BY <1>1 DEF FeedbackInv, QueueInv, WorkerInv
<1>3. feedback' = [feedback EXCEPT ![t] = @ + 1]
  BY <1>2 DEF EnqueueFeedback
<1>4. /\ feedback' \in [Tasks -> Nat] /\ feedback'[t] = feedback[t] + 1
      /\ \A u \in Tasks \ {t} : feedback'[u] = feedback[u]
  BY <1>3 DEF FeedbackInv
<1>5. StepTasks \subseteq Tasks
  BY DEF Tasks
<1>6. MovesOn(w) /\ worker'[w].at = worker[w].at + 1
  BY ProceedIs DEF EnqueueFeedback, FeedbackInv, QueueInv
<1>7. t \in StepTasks => worker[w].at = 10 /\ feedback[t] = 0 /\ rates[t] # {}
  <2>1. t \in StepTasks => worker[w].at = 10
    BY <1>1, <1>2, StepDo
  <2>2. StepStage(w)
    BY DEF FeedbackInv
  <2> QED
    BY <1>2, <2>1, <2>2 DEF StepStage
<1>8. \A v \in Workers \ {w} : StepStage(v)'
  BY <1>1, <1>2, <1>4, <1>5, <1>6, Others DEF MovesOn
<1>9. StepStage(w)'
  BY <1>1, <1>2, <1>6, <1>7 DEF StepStage, MovesOn
<1>10. ASSUME NEW s \in StepTasks PROVE feedback'[s] <= 1 /\ (rates'[s] = {} => feedback'[s] = 0)
  <2>1. CASE s = t
    BY <1>1, <1>4, <1>7, <2>1
  <2>2. CASE s # t
    BY <1>1, <1>4, <1>5, <2>2 DEF FeedbackInv
  <2> QED
    BY <2>1, <2>2
<1> QED
  BY <1>1, <1>4, <1>8, <1>9, <1>10 DEF FeedbackInv

LEMMA TakeFeedback ==
    ASSUME FeedbackInv, QueueInv', NEW w \in Workers, Take(w)
    PROVE  FeedbackInv'
<1>1. /\ worker'[w].at = 1 /\ UNCHANGED <<rates, feedback>>
      /\ \A v \in Workers \ {w} : worker'[v] = worker[v]
  BY TakeIs DEF Take, FeedbackInv
<1>2. \A v \in Workers : StepStage(v)'
  BY <1>1 DEF StepStage, FeedbackInv
<1> QED
  BY <1>1, <1>2 DEF FeedbackInv

LEMMA FeedbackNext == FeedbackInv /\ [Next]_vars => FeedbackInv'
<1> SUFFICES ASSUME FeedbackInv, [Next]_vars PROVE FeedbackInv'
  OBVIOUS
<1>1. QueueInv'
  BY QueueNext DEF FeedbackInv
<1>2. ASSUME UNCHANGED <<worker, rates, feedback>> PROVE FeedbackInv'
  BY <1>1, <1>2 DEF FeedbackInv, StepStage
<1>3. ASSUME NEW w \in Workers, Ack(w) \/ GivesUp(w) PROVE FeedbackInv'
  <2>1. /\ worker[w].task # NoTask
        /\ worker' = [worker EXCEPT ![w] = Resting]
        /\ UNCHANGED <<rates, feedback>>
    BY <1>3 DEF Ack, At, GivesUp, Fail
  <2> QED
    BY <1>1, <2>1, RestingStage
<1>4. ASSUME NEW w \in Workers, CreateRate(w) PROVE FeedbackInv'
  <2>1. CASE Proceed(w)
    BY <1>1, <1>4, <2>1, CreateRateFeedback
  <2>2. CASE ~Proceed(w)
    BY <1>3, <1>4, <2>2 DEF CreateRate, GivesUp, At
  <2> QED
    BY <2>1, <2>2
<1>5. ASSUME NEW w \in Workers, Work(w) \/ Fault(w) PROVE FeedbackInv'
  <2>1. CASE \/ QuerySubject(w) \/ Check(w) \/ CreatePortrait(w) \/ QueryStep(w)
            \/ ReadPortrait(w) \/ WritePortrait(w) \/ Fault(w)
    BY <1>1, <1>3, <2>1, PortraitStatements, QuietFeedback DEF FeedbackInv, QueueInv
  <2> QED
    BY <1>1, <1>3, <1>4, <1>5, <2>1, TakeFeedback, AddToRateFeedback, EnqueueFeedbackFeedback DEF Work
<1> QED
  BY <1>2, <1>5 DEF Next, vars, Enqueue, LoseTarget, Retry

(***************************************************************************)
(* The feedback of a step is enqueued at most once, whatever the retries   *)
(* and crashes.                                                            *)
(***************************************************************************)
THEOREM StepFeedbackOnceAlways == Spec => []StepFeedbackOnce
<1>1. FeedbackInv => StepFeedbackOnce
  BY DEF FeedbackInv, StepFeedbackOnce
<1> QED
  BY <1>1, FeedbackInit, FeedbackNext, PTL DEF Spec
=============================================================================
