------------------------------ MODULE Comments ------------------------------
(***************************************************************************)
(* A step, the comments others write on it, and how both reach the row of  *)
(* step_rates: Upload inserts the step, walks the statuses and enqueues a  *)
(* task; SetCommentForStep looks at the comment column, writes it and      *)
(* enqueues a task; the workers create the rate row for the one and add    *)
(* the comment found in the column *by then* to it for the other.  The     *)
(* source is src/internal/biz/step.go, src/internal/data/step-noauth.go    *)
(* and src/internal/biz/step-noauth.go for the requests,                   *)
(* src/internal/data/statistics.go for the tasks.                          *)
(*                                                                         *)
(* The portraits the tasks update as well are in Statistics, the walk over *)
(* the targets is in Targets: here it can only fail.                       *)
(***************************************************************************)
EXTENDS Naturals

CONSTANTS
    Steps,         \* the steps that may be recorded, one upload each
    Kinds,         \* comment columns: teacher, parent, friend
    Commenters,    \* requests to comment, one comment each
    NoText,        \* an empty column, or the JSON null, which reads the same
    Malformed,     \* a JSON object that is no comment
    MaxAttempts,   \* bound: Asynq archives a task after its retries (25)
    MaxFaults      \* bound: statements that fail, workers that crash

Tasks == Steps \union Commenters

ASSUME TasksAssumption  == Steps \intersect Commenters = {}
ASSUME TextAssumption   == {NoText, Malformed} \intersect Commenters = {} /\ NoText # Malformed
ASSUME BoundsAssumption == MaxAttempts \in Nat \ {0} /\ MaxFaults \in Nat

VARIABLES
    row,       \* what each step is in its table: a file, a directory, nothing
    reach,     \* where the climb from each step finds a target: own, above it
    passed,    \* steps that a request to update or delete found the target of
    column,    \* step -> kind -> the comment in that column
    upload,    \* what the request that records each step does next
    comment,   \* what each request to comment has read and does next
    task,      \* where each task is, and what its worker has read
    rated,     \* steps that have a row in step_rates
    counted,   \* step -> text -> how often it was added to that row
    faults,
    early,     \* history: comment tasks whose update found no rate row
    met        \* history: requests to comment that were between look and write together

requests == <<upload, comment>>
tables   == <<row, reach, passed, column>>
rates    == <<rated, counted, early>>
vars     == <<row, reach, passed, column, upload, comment, task, rated, counted, faults, early, met>>

Texts == Commenters \union {NoText, Malformed}

Idle == [pc |-> "idle"]
At(pc, s, k, text) == [pc |-> pc, step |-> s, kind |-> k, text |-> text]

Stored(s) == row[s] \in {"file", "dir"}

\* GetTargetByStepIDRecursively: at the step, or at a directory it lies in.
Reachable(s) == Stored(s) /\ reach[s] # {}

\* A comment is about a step once its request has looked at it.
About(c, s, k) == comment[c].pc # "idle" /\ comment[c].step = s /\ comment[c].kind = k

NewTask == [at |-> "new", tries |-> 0, text |-> NoText]
Active  == {"look", "read", "rate", "ack"}

-----------------------------------------------------------------------------
Init == /\ row = [s \in Steps |-> "none"]
        /\ reach = [s \in Steps |-> {}]
        /\ passed = {}
        /\ column = [s \in Steps |-> [k \in Kinds |-> NoText]]
        /\ upload = [s \in Steps |-> "idle"]
        /\ comment = [c \in Commenters |-> Idle]
        /\ task = [t \in Tasks |-> NewTask]
        /\ rated = {}
        /\ counted = [s \in Steps |-> [x \in Texts |-> 0]]
        /\ faults = 0
        /\ early = {}
        /\ met = {}

Fault == faults < MaxFaults /\ faults' = faults + 1

(***************************************************************************)
(* Upload and AddTargetDirStep.  Either stores the target with the step;   *)
(* an upload may put it into a directory as well, and may call itself one. *)
(***************************************************************************)
Insert(s, type, places, pc) ==
    /\ upload[s] = "idle"
    /\ row' = [row EXCEPT ![s] = type]
    /\ reach' = [reach EXCEPT ![s] = places]
    /\ upload' = [upload EXCEPT ![s] = pc]
    /\ UNCHANGED <<passed, column, comment, task, rates, faults, met>>

InsertStep(s, type, places) == Insert(s, type, places, "walk")

\* A directory is recorded by one statement and never enqueued.
InsertDir(s) == Insert(s, "dir", {"own"}, "over")

\* SetTargetStatusRecursively fails on a target that is gone, as on an error
\* of the database: Upload returns it and the step is never enqueued.
Walk(s) ==
    /\ upload[s] = "walk"
    /\ \/ /\ "own" \in reach[s]
          /\ upload' = [upload EXCEPT ![s] = "enqueue"]
          /\ UNCHANGED faults
       \/ /\ upload' = [upload EXCEPT ![s] = "over"]
          /\ IF "own" \in reach[s] THEN Fault ELSE UNCHANGED faults
    /\ UNCHANGED <<tables, comment, task, rates, met>>

Pending(t) == task' = [task EXCEPT ![t].at = "pending"]

\* An error of Enqueue is logged, the request succeeds.
EnqueueStep(s) ==
    /\ upload[s] = "enqueue"
    /\ upload' = [upload EXCEPT ![s] = "over"]
    /\ \/ Pending(s) /\ UNCHANGED faults
       \/ Fault /\ UNCHANGED task
    /\ UNCHANGED <<tables, comment, rates, met>>

(***************************************************************************)
(* UpdateTargetStep and DeleteTargetStep find a target of the step, which  *)
(* is its owner's, and change the row by its id some statements later.     *)
(***************************************************************************)
FindTarget(s) ==
    /\ Reachable(s)
    /\ passed' = passed \union {s}
    /\ UNCHANGED <<row, reach, column, requests, task, rates, faults, met>>

SetType(s, type) ==
    /\ s \in passed
    /\ Stored(s)
    /\ row' = [row EXCEPT ![s] = type]
    /\ UNCHANGED <<reach, passed, column, requests, task, rates, faults, met>>

DeleteRow(s) ==
    /\ s \in passed
    /\ Stored(s)
    /\ row' = [row EXCEPT ![s] = "deleted"]
    /\ column' = [column EXCEPT ![s] = [k \in Kinds |-> NoText]]
    /\ UNCHANGED <<reach, passed, requests, task, rates, faults, met>>

\* The foreign keys: DeleteTarget takes its own target from the step, or one
\* above it, or both, the deletion of a directory what is above.
LoseTarget(s, places) ==
    /\ places # {}
    /\ places \subseteq reach[s]
    /\ reach' = [reach EXCEPT ![s] = @ \ places]
    /\ UNCHANGED <<row, passed, column, requests, task, rates, faults, met>>

(***************************************************************************)
(* SetCommentForStep: look at the column, write it by id, enqueue.         *)
(***************************************************************************)
Rivals(s, k) == {c \in Commenters : comment[c].pc = "write" /\ About(c, s, k)}

\* Mutant: the column is not looked at.
LookForCommentNot(c, s, k, text) ==
    /\ comment[c].pc = "idle"
    /\ Stored(s)
    /\ comment' = [comment EXCEPT ![c] = At("write", s, k, text)]
    /\ met' = IF Rivals(s, k) = {} THEN met ELSE met \union Rivals(s, k) \union {c}
    /\ UNCHANGED <<tables, upload, task, rates, faults>>

LookForComment(c, s, k, text) ==
    /\ comment[c].pc = "idle"
    /\ Stored(s)
    /\ column[s][k] = NoText
    /\ comment' = [comment EXCEPT ![c] = At("write", s, k, text)]
    /\ met' = IF Rivals(s, k) = {} THEN met ELSE met \union Rivals(s, k) \union {c}
    /\ UNCHANGED <<tables, upload, task, rates, faults>>

\* The update of a step that was deleted, or that fails, ends the request.
WriteComment(c) ==
    LET q == comment[c] IN
    /\ q.pc = "write"
    /\ \/ /\ Stored(q.step)
          /\ column' = [column EXCEPT ![q.step][q.kind] = q.text]
          /\ comment' = [comment EXCEPT ![c].pc = "enqueue"]
          /\ UNCHANGED faults
       \/ /\ comment' = [comment EXCEPT ![c].pc = "refused"]
          /\ IF Stored(q.step) THEN Fault ELSE UNCHANGED faults
          /\ UNCHANGED column
    /\ UNCHANGED <<row, reach, passed, upload, task, rates, met>>

\* As for a step, an error of Enqueue is logged.  An update that is stored and
\* reports an error ends here too, behind the update and without a task.
EnqueueComment(c) ==
    /\ comment[c].pc = "enqueue"
    /\ comment' = [comment EXCEPT ![c].pc = "over"]
    /\ \/ Pending(c) /\ UNCHANGED faults
       \/ Fault /\ UNCHANGED task
    /\ UNCHANGED <<tables, upload, rates, met>>

(***************************************************************************)
(* The tasks.  Any task that is pending may be taken, there are more       *)
(* workers than tasks here; a step task and a comment task look for the    *)
(* target first, at the step alone and on the climb, and fail without one. *)
(* A directory is no step to rate.                                         *)
(***************************************************************************)
Advance(t, at) == task' = [task EXCEPT ![t].at = at]

Take(t) ==
    /\ task[t].at = "pending"
    /\ task' = [task EXCEPT ![t].at = "look", ![t].tries = @ + 1]
    /\ UNCHANGED <<tables, requests, rates, faults, met>>

\* Mutants: one attempt too many; a failure is logged and the task is done.
FailOnceMore(t) == Advance(t, IF task[t].tries <= MaxAttempts THEN "retry" ELSE "archived")
FailQuietly(t)  == Advance(t, "done")

Fail(t) == Advance(t, IF task[t].tries < MaxAttempts THEN "retry" ELSE "archived")

Retry(t) ==
    /\ task[t].at = "retry"
    /\ Advance(t, "pending")
    /\ UNCHANGED <<tables, requests, rates, faults, met>>

\* A failing statement, a panic, a deadline or the death of the worker.
Crash(t) ==
    /\ task[t].at \in Active
    /\ Fault
    /\ Fail(t)
    /\ UNCHANGED <<tables, requests, rates, met>>

Found(t) == IF t \in Steps THEN row[t] = "file" /\ "own" \in reach[t]
            ELSE Reachable(comment[t].step)

\* Mutants: without a target there is nothing to do; a comment waits for the
\* rate of its step.
LookForgives(t) ==
    /\ task[t].at = "look"
    /\ Advance(t, IF ~Found(t) THEN "ack"
                  ELSE IF t \in Steps THEN "rate" ELSE "read")
    /\ UNCHANGED <<tables, requests, rates, faults, met>>

LookWaits(t) ==
    /\ task[t].at = "look"
    /\ t \in Commenters /\ Found(t) => comment[t].step \in rated
    /\ IF Found(t)
       THEN Advance(t, IF t \in Steps THEN "rate" ELSE "read")
       ELSE Fail(t)
    /\ UNCHANGED <<tables, requests, rates, faults, met>>

Look(t) ==
    /\ task[t].at = "look"
    /\ IF Found(t)
       THEN Advance(t, IF t \in Steps THEN "rate" ELSE "read")
       ELSE Fail(t)
    /\ UNCHANGED <<tables, requests, rates, faults, met>>

\* Mutant: the first comment that is there, of whatever kind.
ReadAnyComment(c) ==
    LET s == comment[c].step
        found == {column[s][k] : k \in Kinds} \ {NoText}
    IN
    /\ task[c].at = "read"
    /\ IF Stored(s)
       THEN task' = [task EXCEPT ![c].at = "rate",
                                 ![c].text = IF found = {} THEN NoText ELSE CHOOSE x \in found : TRUE]
       ELSE Fail(c)
    /\ UNCHANGED <<tables, requests, rates, faults, met>>

\* HandleStepComment reads the step again, now for its comment: what the
\* column holds at this moment, not what the request wrote.
ReadComment(c) ==
    LET s == comment[c].step
        text == column[s][comment[c].kind]
    IN
    /\ task[c].at = "read"
    /\ IF Stored(s) /\ text # Malformed
       THEN task' = [task EXCEPT ![c].at = "rate", ![c].text = text]
       ELSE Fail(c)
    /\ UNCHANGED <<tables, requests, rates, faults, met>>

\* HandleStepCreate: the unique index on step_id refuses a second row.
CreateRate(s) ==
    /\ task[s].at = "rate"
    /\ IF s \in rated THEN Fail(s) /\ UNCHANGED rated
       ELSE rated' = rated \union {s} /\ Advance(s, "ack")
    /\ UNCHANGED <<tables, requests, counted, faults, early, met>>

\* HandleStepComment: an update of the rows of the step, of which there may
\* be none.
AddToRate(c) ==
    LET s == comment[c].step IN
    /\ task[c].at = "rate"
    /\ IF s \in rated
       THEN counted' = [counted EXCEPT ![s][task[c].text] = @ + 1] /\ UNCHANGED early
       ELSE early' = early \union {c} /\ UNCHANGED counted
    /\ Advance(c, "ack")
    /\ UNCHANGED <<tables, requests, rated, faults, met>>

Ack(t) ==
    /\ task[t].at = "ack"
    /\ Advance(t, "done")
    /\ UNCHANGED <<tables, requests, rates, faults, met>>

-----------------------------------------------------------------------------
UploadNext(s)  == Walk(s) \/ EnqueueStep(s)
CommentNext(c) == WriteComment(c) \/ EnqueueComment(c)
Work(t)        == \/ Look(t) \/ Ack(t)
                  \/ t \in Steps /\ CreateRate(t)
                  \/ t \in Commenters /\ (ReadComment(t) \/ AddToRate(t))

Types  == {"file", "dir"}
Places == {"own", "above"}

Next == \/ \E s \in Steps :
              \/ \E type \in Types, places \in {{"own"}, Places} : InsertStep(s, type, places)
              \/ InsertDir(s) \/ UploadNext(s)
              \/ FindTarget(s) \/ DeleteRow(s)
              \/ \E type \in Types : SetType(s, type)
              \/ \E places \in SUBSET Places : LoseTarget(s, places)
        \/ \E c \in Commenters :
              \/ \E s \in Steps, k \in Kinds, text \in {c, NoText, Malformed} :
                    LookForComment(c, s, k, text)
              \/ CommentNext(c)
        \/ \E t \in Tasks : Take(t) \/ Retry(t) \/ Work(t) \/ Crash(t)

Spec == Init /\ [][Next]_vars

\* The server runs the requests it has accepted, and the queue its tasks.
FairSpec == /\ Spec
            /\ \A s \in Steps : WF_vars(UploadNext(s))
            /\ \A c \in Commenters : WF_vars(CommentNext(c))
            /\ \A t \in Tasks : WF_vars(Take(t)) /\ WF_vars(Retry(t)) /\ WF_vars(Work(t))

-----------------------------------------------------------------------------
TypeOK == /\ row \in [Steps -> {"none", "file", "dir", "deleted"}]
          /\ reach \in [Steps -> SUBSET Places]
          /\ passed \subseteq Steps
          /\ column \in [Steps -> [Kinds -> Texts]]
          /\ upload \in [Steps -> {"idle", "walk", "enqueue", "over"}]
          /\ comment \in [Commenters -> {Idle} \union
                                [pc   : {"write", "enqueue", "refused", "over"},
                                 step : Steps, kind : Kinds, text : Texts]]
          /\ task \in [Tasks -> [at    : {"new", "pending", "retry", "done", "archived"} \union Active,
                                 tries : 0 .. MaxAttempts,
                                 text  : Texts]]
          /\ rated \subseteq Steps
          /\ counted \in [Steps -> [Texts -> Nat]]
          /\ faults \in 0 .. MaxFaults
          /\ early \subseteq Commenters
          /\ met \subseteq Commenters

Underway(t) == task[t].at \in {"pending", "retry"} \union Active

(***************************************************************************)
(* A comment that stands in its column is in the rate of its step, or its  *)
(* request or its task is on the way there; whatever becomes of the step,  *)
(* its target and other comments in between.  The exceptions are all there *)
(* are: the request could not enqueue the task, which it reports to nobody *)
(* (or was told that the update failed), the task was tried as often as it *)
(* may be, or it was handled before the task of the step (a directory has  *)
(* none) and updated no row.                                               *)
(***************************************************************************)
StandingCommentCounted ==
    \A s \in Steps, k \in Kinds, c \in Commenters :
        column[s][k] = c =>
            \/ counted[s][c] > 0
            \/ comment[c].pc = "enqueue"
            \/ Underway(c)
            \/ task[c].at = "new" /\ comment[c].pc = "over"
            \/ task[c].at = "archived"
            \/ c \in early

(***************************************************************************)
(* A step in the table that is no directory has its rate, or its upload or *)
(* its task is on the way; or the upload ended behind the insert, with an  *)
(* error (the walk) or without one (the queue), or it was recorded as a    *)
(* directory, which enqueues nothing; or the task was given up.            *)
(***************************************************************************)
StepIsRated ==
    \A s \in Steps :
        row[s] = "file" =>
            \/ s \in rated
            \/ upload[s] \in {"walk", "enqueue"}
            \/ Underway(s)
            \/ upload[s] = "over" /\ task[s].at \in {"new", "archived"}

(***************************************************************************)
(* A comment is added to the rate once, but for retries, or if another     *)
(* comment of the kind was accepted for the step as well: the tasks then   *)
(* all add the comment they find.                                          *)
(***************************************************************************)
CountedOnce ==
    \A s \in Steps, c \in Commenters :
        counted[s][c] > 1 =>
            \/ task[c].tries > 1
            \/ \E d \in Commenters \ {c} :
                  /\ About(d, s, comment[c].kind)
                  /\ comment[d].pc \in {"enqueue", "over"}

(***************************************************************************)
(* A comment is replaced by another only if their requests met between     *)
(* look and write: the check of SetCommentForStep holds against everything *)
(* but that.  No lock or condition in the update says so.                  *)
(***************************************************************************)
ReplacedOnlyWhenMet ==
    [][\A s \in Steps, k \in Kinds, c \in Commenters :
          column[s][k] = c /\ column'[s][k] # c => row'[s] = "deleted" \/ c \in met]_vars

(***************************************************************************)
(* A comment that was stored is settled in the end: its task is done or    *)
(* given up, or was never enqueued.                                        *)
(***************************************************************************)
CommentsSettle ==
    \A c \in Commenters :
        comment[c].pc = "enqueue" ~>
            comment[c].pc = "over" /\ task[c].at \in {"new", "done", "archived"}
=============================================================================
