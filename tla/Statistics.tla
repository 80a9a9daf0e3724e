----------------------------- MODULE Statistics -----------------------------
(***************************************************************************)
(* The statistics of one user: the tasks that the requests put on the      *)
(* Asynq queue, the workers that handle them, and the tables `portraits`   *)
(* and `step_rates` they update.  The source is                            *)
(* src/internal/data/statistics.go, called by                              *)
(* src/internal/biz/asynq-statistics.go.                                   *)
(*                                                                         *)
(* A handler is a list of database statements; each is an action here.     *)
(* The value of a portrait row is a JSON object that is read, changed in   *)
(* memory and written back whole.  What matters of it is which tasks are   *)
(* counted in it, so a value maps each task to the number of times it is   *)
(* counted.  Rows of different users never meet, every query names a user. *)
(***************************************************************************)
EXTENDS Naturals, Sequences, SequencesExt

CONSTANTS
    TargetTasks,    \* tasks enqueued by CreateTarget
    StepTasks,      \* tasks enqueued by Upload
    CommentTasks,   \* tasks enqueued by SetCommentForStep
    StepOf,         \* the step task whose step a comment is about
    Losable,        \* tasks whose target or step may be deleted meanwhile
    Workers,        \* goroutines of the Asynq server
    NoTask,
    MaxAttempts,    \* bound: Asynq archives a task after its retries (25)
    MaxFaults       \* bound: statements that fail or workers that crash

Tasks == TargetTasks \union StepTasks \union CommentTasks

ASSUME TasksAssumption  == /\ TargetTasks \intersect StepTasks = {}
                           /\ (TargetTasks \union StepTasks) \intersect CommentTasks = {}
                           /\ NoTask \notin Tasks
ASSUME StepOfAssumption == StepOf \in [CommentTasks -> StepTasks]
ASSUME LosableAssumption == Losable \subseteq TargetTasks \union StepTasks
ASSUME BoundsAssumption == MaxAttempts \in Nat \ {0} /\ MaxFaults \in Nat

VARIABLES
    portraits,   \* dimension -> the rows of the user with that dimension
    rates,       \* step task -> its row of step_rates, as a set of 0 or 1 values
    gone,        \* tasks that find no target any more
    hard,        \* comment tasks that found a challenge when they last looked
    queue,       \* the pending list of Asynq
    status,      \* where each task is
    attempts,    \* how often a worker took each task up
    feedback,    \* how many feedback tasks each task enqueued
    worker,      \* what each worker is doing
    faults,
    clobbered,   \* history: <<dimension, task>> dropped by a stale write
    everHard     \* history: comment tasks that found a challenge in some attempt

looks == <<hard, everHard>>
vars == <<portraits, rates, gone, queue, status, attempts, feedback, worker, faults, clobbered,
          looks>>

Basic      == "basic"
Discipline == "self_discipline"
Execution  == "target_and_execution"
Growth     == "learning_and_growth"
Dimensions == {Basic, Discipline, Execution, Growth}

Value == [Tasks -> 0 .. MaxAttempts]
Zero  == [t \in Tasks |-> 0]

Add(value, t) == [value EXCEPT ![t] = @ + 1]

-----------------------------------------------------------------------------
(***************************************************************************)
(* The statements of a handler, in the order of the code.                  *)
(***************************************************************************)
Stage(do, dim) == [do |-> do, dim |-> dim]
Count(dim)     == <<Stage("read", dim), Stage("write", dim)>>

\* CheckStatistics: each dimension is looked up and created when missing.
CheckStatistics == <<Stage("check", Basic), Stage("check", Discipline),
                     Stage("check", Execution), Stage("check", Growth)>>

Subject == <<Stage("subject", Basic)>>
Rate    == <<Stage("rate", Basic)>>

\* The usecase enqueues the feedback when the handler has succeeded; Asynq
\* takes the task off its lists after that.
Finale == <<Stage("enqueue", Basic), Stage("ack", Basic)>>

HandleTargetCreate == Subject \o CheckStatistics \o Count(Basic) \o Finale

\* Mutant: the rate row is created after the feedback is on the queue.
HandleStepCreateRateLast ==
    Subject \o CheckStatistics \o Count(Basic)
      \o <<Stage("enqueue", Basic), Stage("rate", Basic), Stage("ack", Basic)>>

\* The first step of the target, for its bonus, is looked up between the read
\* and the write of the portrait and missing when the target is gone by then.
HandleStepCreate ==
    Subject \o CheckStatistics
      \o <<Stage("read", Basic), Stage("subject", Basic), Stage("write", Basic)>>
      \o Rate \o Finale

\* The step, with its is_challenge, is read anew in every attempt.
ReadStep == <<Stage("step", Basic)>>

\* The two statements of the discipline are for a challenge only: see AddToRate.
HandleStepComment ==
    Subject \o CheckStatistics \o ReadStep \o Rate
      \o Count(Discipline) \o Count(Execution) \o Count(Growth) \o Finale

Plan == [t \in Tasks |-> CASE t \in TargetTasks  -> HandleTargetCreate
                           [] t \in StepTasks    -> HandleStepCreate
                           [] t \in CommentTasks -> HandleStepComment]

\* The dimensions a task is counted in, as the comments on the handlers say: a
\* comment in the discipline if its last look at the step found a challenge.
CountedIn(t) == CASE t \in TargetTasks \union StepTasks -> {Basic}
                  [] t \in CommentTasks -> {Execution, Growth} \union
                                           (IF t \in hard THEN {Discipline} ELSE {})

\* An earlier attempt may have found a challenge that is none any more.
MayCountIn(t) == CountedIn(t) \union (IF t \in everHard THEN {Discipline} ELSE {})

-----------------------------------------------------------------------------
Resting == [task |-> NoTask, at |-> 0, missing |-> FALSE, value |-> Zero]

Init == /\ portraits = [d \in Dimensions |-> << >>]
        /\ rates = [s \in StepTasks |-> {}]
        /\ gone = {}
        /\ hard = {}
        /\ queue = << >>
        /\ status = [t \in Tasks |-> "new"]
        /\ attempts = [t \in Tasks |-> 0]
        /\ feedback = [t \in Tasks |-> 0]
        /\ worker = [w \in Workers |-> Resting]
        /\ faults = 0
        /\ clobbered = {}
        /\ everHard = {}

At(w, do)  == worker[w].task # NoTask /\ Plan[worker[w].task][worker[w].at].do = do
Dim(w)     == Plan[worker[w].task][worker[w].at].dim
Proceed(w) == worker' = [worker EXCEPT ![w].at = @ + 1, ![w].missing = FALSE]

\* Mutant: one attempt too many.
FailOnceMore(w) ==
    LET t == worker[w].task IN
    /\ worker' = [worker EXCEPT ![w] = Resting]
    /\ status' = [status EXCEPT ![t] = IF attempts[t] <= MaxAttempts THEN "retry" ELSE "archived"]

\* The handler returns an error, or the worker dies and the task's lease runs
\* out: Asynq keeps the task for a retry or, after the last one, archives it.
Fail(w) ==
    LET t == worker[w].task IN
    /\ worker' = [worker EXCEPT ![w] = Resting]
    /\ status' = [status EXCEPT ![t] = IF attempts[t] < MaxAttempts THEN "retry" ELSE "archived"]

(***************************************************************************)
(* The requests.  The step or the target is in its table when its task is  *)
(* put on the queue; others see it, comment on it or delete it before that.*)
(***************************************************************************)
Enqueue(t) ==
    /\ status[t] = "new"
    /\ status' = [status EXCEPT ![t] = "pending"]
    /\ queue' = Append(queue, t)
    /\ UNCHANGED <<portraits, rates, gone, attempts, feedback, worker, faults, clobbered, looks>>

CommentsOn(t) == {c \in CommentTasks : StepOf[c] = t}

\* DeleteTarget, DeleteTargetStep: the row of a target task is gone, a step loses
\* its target or goes itself.  The comments on a step that lost its own target
\* may still find one through the directory above it, as long as that has one.
LoseTarget(t) ==
    /\ t \in Losable
    /\ \E above \in {{}, CommentsOn(t)} :
          /\ ~({t} \union above \subseteq gone)
          /\ gone' = gone \union {t} \union above
    /\ UNCHANGED <<portraits, rates, queue, status, attempts, feedback, worker, faults, clobbered, looks>>

(***************************************************************************)
(* Asynq.                                                                  *)
(***************************************************************************)
\* Mutant: the task stays on the list while it is handled.
TakeNot(w) ==
    /\ worker[w].task = NoTask
    /\ queue # << >>
    /\ attempts[Head(queue)] < MaxAttempts
    /\ worker' = [worker EXCEPT ![w] = [Resting EXCEPT !.task = Head(queue), !.at = 1]]
    /\ status' = [status EXCEPT ![Head(queue)] = "active"]
    /\ attempts' = [attempts EXCEPT ![Head(queue)] = @ + 1]
    /\ UNCHANGED <<portraits, rates, gone, queue, feedback, faults, clobbered, looks>>

Take(w) ==
    /\ worker[w].task = NoTask
    /\ queue # << >>
    /\ worker' = [worker EXCEPT ![w] = [Resting EXCEPT !.task = Head(queue), !.at = 1]]
    /\ status' = [status EXCEPT ![Head(queue)] = "active"]
    /\ attempts' = [attempts EXCEPT ![Head(queue)] = @ + 1]
    /\ queue' = Tail(queue)
    /\ UNCHANGED <<portraits, rates, gone, feedback, faults, clobbered, looks>>

Retry(t) ==
    /\ status[t] = "retry"
    /\ status' = [status EXCEPT ![t] = "pending"]
    /\ queue' = Append(queue, t)
    /\ UNCHANGED <<portraits, rates, gone, attempts, feedback, worker, faults, clobbered, looks>>

\* A database error, a crash, a deadline or a failed Enqueue, at any statement.
Fault(w) ==
    /\ worker[w].task # NoTask
    /\ faults < MaxFaults
    /\ faults' = faults + 1
    /\ Fail(w)
    /\ UNCHANGED <<portraits, rates, gone, queue, attempts, feedback, clobbered, looks>>

(***************************************************************************)
(* The statements.                                                         *)
(***************************************************************************)
\* A missing target is an error; a step without target is a nil dereference in
\* HandleStepCreate, which Asynq recovers, and an error for a comment.
\* UpdateTargetStep may have made the step a directory, and a file again, at any
\* time before: HandleStepCreate has no action for a directory and fails.
QuerySubject(w) ==
    /\ At(w, "subject")
    /\ \/ /\ worker[w].task \notin gone
          /\ Proceed(w)
          /\ UNCHANGED status
       \/ /\ worker[w].task \in gone \union StepTasks
          /\ Fail(w)
    /\ UNCHANGED <<portraits, rates, gone, queue, attempts, feedback, faults, clobbered, looks>>

\* Mutant: Query().First, which takes any row.
CheckFirst(w) ==
    /\ At(w, "check") /\ ~worker[w].missing
    /\ IF portraits[Dim(w)] = << >>
       THEN worker' = [worker EXCEPT ![w].missing = TRUE]
       ELSE Proceed(w)
    /\ UNCHANGED <<portraits, rates, gone, queue, status, attempts, feedback, faults, clobbered, looks>>

\* Mutant: a second row is waited out instead of reported.
CheckWaits(w) ==
    /\ At(w, "check") /\ ~worker[w].missing
    /\ CASE Len(portraits[Dim(w)]) = 0 -> worker' = [worker EXCEPT ![w].missing = TRUE]
         [] Len(portraits[Dim(w)]) = 1 -> Proceed(w)
         [] OTHER -> FALSE
    /\ UNCHANGED <<portraits, rates, gone, queue, status, attempts, feedback, faults, clobbered, looks>>

\* Query().Only: one row is what it wants, none leads to the creation of one
\* by the next statement, two are an error.
Check(w) ==
    /\ At(w, "check") /\ ~worker[w].missing
    /\ CASE Len(portraits[Dim(w)]) = 0 -> /\ worker' = [worker EXCEPT ![w].missing = TRUE]
                                          /\ UNCHANGED status
         [] Len(portraits[Dim(w)]) = 1 -> Proceed(w) /\ UNCHANGED status
         [] OTHER -> Fail(w)
    /\ UNCHANGED <<portraits, rates, gone, queue, attempts, feedback, faults, clobbered, looks>>

CreatePortrait(w) ==
    /\ At(w, "check") /\ worker[w].missing
    /\ portraits' = [portraits EXCEPT ![Dim(w)] = Append(@, Zero)]
    /\ Proceed(w)
    /\ UNCHANGED <<rates, gone, queue, status, attempts, feedback, faults, clobbered, looks>>

\* Query().Only again.
ReadPortrait(w) ==
    /\ At(w, "read")
    /\ IF Len(portraits[Dim(w)]) = 1
       THEN /\ worker' = [worker EXCEPT ![w].at = @ + 1, ![w].value = portraits[Dim(w)][1]]
            /\ UNCHANGED status
       ELSE Fail(w)
    /\ UNCHANGED <<portraits, rates, gone, queue, attempts, feedback, faults, clobbered, looks>>

\* The value in memory plus this task's points replaces the value of the row.
\* It was the only row when it was read, and rows are only ever appended.
Written(w) == Add(worker[w].value, worker[w].task)

WritePortrait(w) ==
    /\ At(w, "write")
    /\ portraits' = [portraits EXCEPT ![Dim(w)][1] = Written(w)]
    /\ clobbered' = clobbered \union
          {<<Dim(w), t>> : t \in {t \in Tasks : Written(w)[t] < portraits[Dim(w)][1][t]}}
    /\ Proceed(w)
    /\ UNCHANGED <<rates, gone, queue, status, attempts, feedback, faults, looks>>

\* UpdateTargetStep sets is_challenge whenever the owner likes, so what a task
\* finds is one or the other, whatever it or another task found before.  The step
\* may have been deleted since a target was found for it, and its comment may be
\* malformed or empty: see Comments.
QueryStep(w) ==
    LET c == worker[w].task IN
    /\ At(w, "step") /\ c \in CommentTasks
    /\ \/ \E found \in {{}, {c}} : /\ hard' = (hard \ {c}) \union found
                                  /\ everHard' = everHard \union found
                                  /\ Proceed(w)
                                  /\ UNCHANGED status
       \/ Fail(w) /\ UNCHANGED looks
    /\ UNCHANGED <<portraits, rates, gone, queue, attempts, feedback, faults, clobbered>>

\* StepRate.Create: the unique index on step_id refuses a second row.
CreateRate(w) ==
    LET s == worker[w].task IN
    /\ At(w, "rate") /\ s \in StepTasks
    /\ IF rates[s] = {}
       THEN /\ rates' = [rates EXCEPT ![s] = {Zero}]
            /\ Proceed(w)
            /\ UNCHANGED status
       ELSE Fail(w) /\ UNCHANGED rates
    /\ UNCHANGED <<portraits, gone, queue, attempts, feedback, faults, clobbered, looks>>

\* Mutant: the discipline is updated whatever the step is.
AddToRateAnyway(w) ==
    LET c == worker[w].task IN
    /\ At(w, "rate") /\ c \in CommentTasks
    /\ rates' = [rates EXCEPT ![StepOf[c]] = {Add(v, c) : v \in @}]
    /\ Proceed(w)
    /\ UNCHANGED <<portraits, gone, queue, status, attempts, feedback, faults, clobbered, looks>>

\* StepRate.Update...Add: one statement that adds in the database to the rows
\* of the step, if there are any.  What the task read of the step decides
\* whether the discipline is next or passed over.
AddToRate(w) ==
    LET c == worker[w].task IN
    /\ At(w, "rate") /\ c \in CommentTasks
    /\ rates' = [rates EXCEPT ![StepOf[c]] = {Add(v, c) : v \in @}]
    /\ IF c \in hard THEN Proceed(w)
                      ELSE worker' = [worker EXCEPT ![w].at = @ + 3]
    /\ UNCHANGED <<portraits, gone, queue, status, attempts, feedback, faults, clobbered, looks>>

EnqueueFeedback(w) ==
    /\ At(w, "enqueue")
    /\ feedback' = [feedback EXCEPT ![worker[w].task] = @ + 1]
    /\ Proceed(w)
    /\ UNCHANGED <<portraits, rates, gone, queue, status, attempts, faults, clobbered, looks>>

Ack(w) ==
    /\ At(w, "ack")
    /\ worker' = [worker EXCEPT ![w] = Resting]
    /\ status' = [status EXCEPT ![worker[w].task] = "done"]
    /\ UNCHANGED <<portraits, rates, gone, queue, attempts, feedback, faults, clobbered, looks>>

Work(w) == \/ Take(w) \/ QuerySubject(w) \/ Check(w) \/ CreatePortrait(w)
           \/ ReadPortrait(w) \/ WritePortrait(w) \/ QueryStep(w) \/ CreateRate(w) \/ AddToRate(w)
           \/ EnqueueFeedback(w) \/ Ack(w)

Next == \/ \E t \in Tasks : Enqueue(t) \/ LoseTarget(t) \/ Retry(t)
        \/ \E w \in Workers : Work(w) \/ Fault(w)

Spec == Init /\ [][Next]_vars

\* The server keeps its workers going and forwards the tasks to be retried.
FairSpec == /\ Spec
            /\ \A w \in Workers : WF_vars(Work(w))
            /\ \A t \in Tasks : WF_vars(Retry(t))

-----------------------------------------------------------------------------
TypeOK == /\ DOMAIN portraits = Dimensions
          /\ \A d \in Dimensions : /\ DOMAIN portraits[d] = 1 .. Len(portraits[d])
                                   /\ \A i \in DOMAIN portraits[d] : portraits[d][i] \in Value
          /\ rates \in [StepTasks -> SUBSET Value]
          /\ gone \subseteq Tasks
          /\ hard \subseteq everHard /\ everHard \subseteq CommentTasks
          /\ \A i \in DOMAIN queue : queue[i] \in Tasks
          /\ status \in [Tasks -> {"new", "pending", "active", "retry", "done", "archived"}]
          /\ attempts \in [Tasks -> 0 .. MaxAttempts]
          /\ feedback \in [Tasks -> 0 .. MaxAttempts]
          /\ \A w \in Workers : /\ worker[w].task \in Tasks \union {NoTask}
                                /\ worker[w].missing \in BOOLEAN
                                /\ worker[w].value \in Value
          /\ faults \in 0 .. MaxFaults
          /\ clobbered \subseteq Dimensions \X Tasks

\* Task t is counted in dimension d, in one of the rows there may be.
IsCounted(d, t) == \E i \in DOMAIN portraits[d] : portraits[d][i][t] > 0

(***************************************************************************)
(* A task that completed is counted in every dimension its handler says it *)
(* updates, through crashes and retries, unless another worker wrote back  *)
(* a value it had read before: a comment in the discipline if its step was *)
(* a challenge when the attempt that completed looked.  It is counted in   *)
(* no other dimension but for the discipline, where an earlier attempt may *)
(* have found a challenge, and no row counts it more often than it was     *)
(* tried: every attempt that fails late may count once more, no more.      *)
(***************************************************************************)
CountedUnlessClobbered ==
    \A t \in Tasks, d \in Dimensions :
        /\ status[t] = "done" /\ d \in CountedIn(t) => IsCounted(d, t) \/ <<d, t>> \in clobbered
        /\ d \notin MayCountIn(t) => ~IsCounted(d, t)
        /\ \A i \in DOMAIN portraits[d] : portraits[d][i][t] <= attempts[t]

(***************************************************************************)
(* The feedback of a step is enqueued at most once, whatever the retries   *)
(* and crashes: HandleStepCreate creates the row of step_rates before it,  *)
(* and the unique index on step_id fails every later attempt.              *)
(***************************************************************************)
StepFeedbackOnce == \A s \in StepTasks : feedback[s] <= 1

Duplicated == \E d \in Dimensions : Len(portraits[d]) > 1

(***************************************************************************)
(* Two workers that both find a dimension missing both create it, and from *)
(* then on every task that is not yet in a worker's hands fails to the     *)
(* end: CheckStatistics and the readers want Only one row.                 *)
(***************************************************************************)
DuplicateStopsStatistics ==
    \A t \in Tasks :
        [](Duplicated /\ status[t] \in {"new", "pending", "retry"} => [](status[t] # "done"))

(***************************************************************************)
(* Workers, list, retries and failures together hand out the tasks as      *)
(* TaskQueue says: each to one worker at a time, until it is done or given *)
(* up.  Under the fairness of the server every task that is enqueued is    *)
(* handled or archived in the end: failing handlers, crashes and a list    *)
(* longer than the workers delay it, no more.                              *)
(***************************************************************************)
Queue     == INSTANCE TaskQueue
QueueSafe == Queue!Spec
QueueFair == Queue!FairSpec

(***************************************************************************)
(* NewStatisticsRepo: each evaluation looks whether the data exists and    *)
(* creates it when it does not; every reader asks for Only one row.        *)
(***************************************************************************)
OneRowPerDimension == ~Duplicated

(***************************************************************************)
(* HandleStepCreate: every creation of a step adds 1 to the patience or to *)
(* the perseverance.                                                       *)
(***************************************************************************)
StepAddsOne ==
    \A s \in StepTasks : FoldSeq(LAMBDA row, n : row[s] + n, 0, portraits[Basic]) <= 1
=============================================================================
