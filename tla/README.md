# step-go: a verification project

Step is a Go backend (Kratos, ent/MySQL, Minio, Asynq/Redis) in which users set
*targets*, record *steps* (a picture, video, audio or a directory of these)
towards them, let others comment on the steps, and are shown a *portrait* of
themselves and *awards* they earn. The repository has no tests. About 4.4K lines are
hand written; the rest is generated by ent and protobuf.

The facts that make it hard are the same everywhere. A request or a queue task
is a list of database statements with **no transaction around them**; requests
run concurrently (HTTP and gRPC), queue tasks run on ten workers with
at-least-once delivery; MySQL and Minio share no commit; the server cancels a
request after its timeout. Every module below models a statement as one atomic
action and lets other handlers run between any two.

## 1. Inventory

| component | source | state | operations |
|---|---|---|---|
| Targets | `internal/data/step.go` | table `targets` (owner, parent, layer, status) | CreateTarget, UpdateTarget, DeleteTarget, DoneTarget, SetTargetStatusRecursively |
| Target views | `internal/data/step.go` | none | GetTargets, GetTargetTree, GetTarget, findRootTarget, GetTopTargetByTargetID |
| Steps and files | `internal/biz/step.go`, `internal/data/step.go`, `internal/data/minio.go` | table `steps`, Minio bucket | Upload, AddTargetDirStep, UpdateTargetStep, DeleteTargetStep, GetTargetDirStepChildren |
| Statistics | `internal/data/statistics.go`, `internal/biz/asynq-statistics.go` | tables `portraits`, `step_rates` | CheckStatistics, HandleTargetCreate, HandleStepCreate, HandleStepComment |
| Task queue | `internal/data/asynq-enqueue.go`, `internal/server/asynq.go` | Redis | enqueue of four task types, ten workers, retry, archive |
| Feedback | `internal/biz/asynq-feedback.go` | table `awards` (status) | setted -> achieved when a threshold is met |
| Awards | `internal/biz/feedback.go` | table `awards`, Minio | create, realize, list, get, delete |
| Shared steps, comments | `internal/data/step-noauth.go` | comment columns of `steps` | GetNoauthStep, SetCommentForStep |
| Database layer | `internal/data/ent` (generated), `internal/data/ent/schema` | all tables | Create, Update, UpdateOne, DeleteOne of seven entities |
| Share links | `internal/data/encrypt.go` | none | pad, encrypt, decrypt, unpad |
| Portrait queries | `internal/biz/portrait.go` | none | read-only reports |
| Wiring, transport, middleware, template | `cmd`, `internal/server`, `internal/service`, `pkg`, `internal/conf` | none | pass-through |

How they interact: CreateTarget and Upload write their rows and then enqueue a
task; Upload also calls the status walk on the target; SetCommentForStep
enqueues a task. The statistics workers read targets and steps that requests
may delete meanwhile, update portraits and rates, and enqueue a feedback task,
whose worker compares the portraits with the awards. DeleteTarget reaches into
the steps by a foreign key (`ref_target_id` becomes NULL), and so into what
the statistics and the step calls find later.

What makes each component correct:

* Targets: the table stays a forest with one owner per tree; a status moves
  forward and reaches the parents; only owners change rows; walks end.
* Views: every target is found, by one path, by its owner alone; the lookups
  that are written twice agree.
* Steps and files: table and bucket agree, through errors in the middle.
* Statistics: each task is counted once where its comment says; one row per
  dimension; every task ends; feedback follows what was counted.
* Awards and feedback: setted -> achieved -> realized and never back; files
  belong to awards.
* Comments: at most one per kind and step; each is counted.
* Task queue: a task is with one worker at a time and ends.
* Database layer: what is saved is what the calls say and the schema allows.

The hazards, line by line, are in `PROJECT.json`.

## 2. Modules

| module | models | extends or instantiates |
|---|---|---|
| `Targets` | the `targets` table and its calls, statement by statement | implements `TargetForest` |
| `TargetForest` | what those calls promise, each in one step | |
| `TargetViews` | the read calls as operators on a state of the table | `Targets` |
| `Statistics` | queue, workers, portraits, rates of one user | implements `TaskQueue` |
| `Comments` | a step, the comments on it, both kinds of task, `step_rates` | |
| `TaskQueue` | what the queue promises its tasks | |
| `StepFiles` | `steps` and the bucket, for one user | |
| `StepPages` | the two paged listings of steps | `StepFiles` |
| `Awards` | table `awards`, their files, the feedback worker, for one user | |
| `EntBuilders` | the database layer: builder chains, checks, statements | `EntAward` ... `EntTarget` |
| `EntAward`, `EntPortrait`, `EntShow`, `EntShowReserve`, `EntStep`, `EntStepRate`, `EntTarget` | what the layer offers for one entity | |
| `TargetsProofs`, `CommentsProofs`, `StepFilesProofs`, `AwardsProofs` | theorems | their module, TLAPS |
| `StatisticsProofs`, `StatisticsCounts` | theorems on queue and feedback; on what is counted | `Statistics`; `StatisticsProofs` |
| `EntProofs` | theorems on the database layer, its tables included | `EntBuilders`, `Climbs` |
| `Climbs` | lemmas: recursive functions over rows and their parents exist | `WellFoundedInduction`, TLAPS |
| `MCTargets`, `MCStatistics`, `MCComments`, `MCStepFiles`, `MCAwards`, `MCEnt` | symmetry and values for TLC | their module |

Operators marked *Mutant* in a comment are no part of a specification: each is a
plausible bug, kept beside the definition it would replace, and shows that a
property can fail. Variables marked *history* are only read by properties.

### Targets

`targets` is the table, ids are handed out in order (`nextId`), an absent row
has no owner. `req[r]` is what handler `r` keeps between statements: the call
(`op`), the caller, the target at hand (`cur`), the status and the parent the
walk has read. `pc` names the next statement.

* `BeginCreate`, `Insert`: the parent's Get with its owner check, then the
  INSERT, which the foreign key on `parent_id` refuses if the parent has gone.
  The create without parent is the same with `NoParent`.
* `BeginOnTarget`: the Get and owner check with which DeleteTarget, DoneTarget
  and Upload start. A call refused here changes nothing and is no action.
* `Delete`: one DELETE; `ON DELETE SET NULL` clears `parent_id` of the children
  and detaches the steps.
* `AddStep`: Upload's INSERT of a step, which can also fail.
* `Query`, `LoadParent`, `Update`, `CheckSiblings`: SetTargetStatusRecursively,
  one action per statement (`WithParent` is a query of its own; the guard
  looks at what the first query read; `Update` names the id alone). The three
  cases of its switch differ in `Sources`, the statuses they move on from, and
  in the look at the siblings, which only done has.
* `Abort`: error, timeout or crash between statements. `interrupted` remembers
  where the walk was going.

What is left out: title, description, type and the time columns; UpdateTarget,
which sets only the first two.

`TargetForest` is the table as the API describes it: a target is created under a
parent that is there, belongs to the same user and is one layer up, all in one
step. `Targets` looks at the parent in one statement and inserts in another, and
implements it all the same (`ActsLikeForest`): owner and layer of a row never
change, and the foreign key asks again whether it is there.

### TargetViews

`FindRoot`, `TopTarget`, `Subtree`, `ListTargets` are recursive functions over
ids, as in findRootTarget, GetTopTargetByTargetID, getChildrenTargets and
GetTargets. They are evaluated on one state; the code spreads them over several
queries. A well-founded recursion needs `ForestOK`, which is proved. That every
target has a tree at all is part of `LookupsAgree`.

### Statistics

A handler is a sequence of stages (`Plan`), and a worker is a task and a
position in it; the stages are the statements of statistics.go in their order.
A portrait value is a JSON object of points; the model keeps which task is
counted how often in it, which is what loss and double counting are about.
`Check` and `CreatePortrait` are the two statements CheckStatistics makes for
each dimension, `ReadPortrait` and `WritePortrait` the read-modify-write.
`step_rates` has a unique index on `step_id` (`CreateRate`) and is added to in
the database (`AddToRate`), so nothing is lost there. The stage `subject`
stands for the look-ups that fail once the target is gone; HandleStepCreate has
one more between the read and the write of the portrait, the look for the first
step of the target. A nil target there is a panic that Asynq recovers: the same
as an error. A directory is no step to count, and UpdateTargetStep can make a
step one at any time, so the stage may fail for every step. `Take`, `Retry`, `Ack`,
`Fail` are Asynq, as this code uses it.

`QueryStep` is HandleStepComment's look at the step, made anew in every attempt: it
finds a challenge or not, whatever the attempt before found, because UpdateTargetStep
sets `is_challenge` when it likes, or no step or no comment at all. What it found
last (`hard`) decides whether the self-discipline is updated; what some attempt
found (`everHard`) is history. The three portraits of a comment are therefore not
fixed: a retry can leave a comment counted in the self-discipline that its last
attempt has no business with.

One user is enough: every statement names a user, rows of two users never
meet. What exactly becomes of a step and of its comment columns is in `Comments`.

### TaskQueue

A task is new, pending, active, waiting for a retry, done or archived; it is
handed out only while pending, finished or failed only while active, and
archived only after `MaxAttempts`. `Statistics` implements it with a list and
a fixed number of workers (`status` and `attempts` are its own): the two could
disagree, by a task that is on the list twice or in two workers' hands. So both the
assumption that the handlers of statistics.go rest on and the fairness their users
expect are stated once. `Comments` and `Awards` have no list of their own and take the
protocol for granted.

### Comments

`row`, `reach`, `column` are a step in its table with its type, where the climb from it
finds a target (its own, or one above the directory it lies in), and
its three comment columns. `InsertStep`, `Walk`, `EnqueueStep` are the statements of
Upload, the walk over the targets reduced to success or failure; `InsertDir` is
AddTargetDirStep; `FindTarget` is the owner check with which UpdateTargetStep and
DeleteTargetStep begin, `SetType` and `DeleteRow` the statement they end with, some time
later (`passed` keeps the steps on which one has begun); `LoseTarget` is what DeleteTarget
and the deletion of a directory do to a step. `LookForComment`, `WriteComment`,
`EnqueueComment` are SetCommentForStep and its caller, which logs an error of
Enqueue and succeeds. `Look` and `ReadComment` are the two queries of
HandleStepComment that matter here, the look for step and target and the
look for the comment, `AddToRate` and `CreateRate` the two statements on
`step_rates`. A text is the request that brought it, or `NoText`: the JSON null,
which leaves the column empty, or `Malformed`: an object that is no comment, which
fails the task. `early` remembers tasks that were handled before
the rate row was there, `met` requests that were between look and write at once.

### StepFiles

`steps` and `objects` are the two stores. `BeginUpload` covers the three forms
(target, parent step, both) and the object name each gives; `Put`, `Insert` are
its two writes; `BeginDelete` (target and owner), `LookForStep` (the object
name), `RemoveFile` and `DeleteRow` are DeleteTargetStep, one for each thing it
asks of the stores; `TargetOf` is GetTargetByStepIDRecursively, taken as one
read because a step loses its parent only when the directory goes. `AddDir` is one action: its read of the
target is asked again by the foreign key when the row goes in. The content of
a file is the number of the upload that brought it. `contested` remembers the
object names on which two requests met (or one uploaded a name that a row
holds), or where a request ended without its row: the properties speak of the
other names, and the reader can see from them exactly what it takes to make
table and bucket disagree.

### StepPages

`TargetSteps` and `DirSteps` are the two listings (newest first), `Shows` one
query with its `Offset`, which the code computes in 32 bits: `Word` stands for
2^32. A walk is a sequence of such queries on a table that changes in between;
`WalkSkipsOnlyDeleted` says, change by change, what it may miss.

### EntBuilders and the entities

ent generates, for each entity, a mutation with typed and by-name methods and
builders that check it and turn it into one statement. That code is alike for the
seven entities but for its tables: which methods there are, which columns are
checked, written, read and returned. Each `Ent*` module lists these tables, column by
column, from the generated code, and beside them what the hand-written schema
(`ent/schema`) says; `EntBuilders` is the machine that runs them:

* `Begin`, `Call`, `CallByName`: a chain starts and collects calls in its
  mutation (`Set`, `Add`, `Append_`, `Clear`, `ClearEdge`, `Reset`);
* `SaveCreate`, `SaveUpdate`, `SaveUpdateOne`: `Defaulted`, `Check`, then the
  statement (`Inserted`, `Updated`), refused by the database when a column without
  default would stay empty;
* `DeleteOne`: a row goes, under the feet of the chains.

The value, the increment and the appended elements of one column may all be in
one UPDATE; that their assignments come in this order is the SQL builder's doing, a
library. Clearing an edge counts before setting it, whatever the order of the
calls (`ClearTarget` leaves the id of an earlier `SetTargetID` in the mutation):
`Meant` says so, it is the one way in which a chain is not the sequence of its
calls; but for that it goes through the calls one by one (`Applied`), and does not
look at the mutation. Appending to a list that the same chain sets or clears is
left out. The assumptions of the module say that the markers for no value
(`NULL`), no call (`Unset`) and no row (`Absent`) are not values a column or a
row can have.

### Awards

`awards` is the table, `objects` the bucket, `score` the one number the
thresholds are compared with: a dimension of the portrait or an average over a
target (`targetType`), which the worker treats alike. It may fall as well as rise,
since an average can.

* `BeginCreate`, `BeginRealize`: CreateFeedbackAward inserts the row without
  files, RealizeFeedbackAward reads the row and looks at its owner, not at its
  status. Both then go through the files of the form (`PutFile`, `PutFails`),
  and `Proceed` is the test behind the loop: when as many files were put as the
  form has, `Save` writes the keys into the row, otherwise creation deletes the
  row (`Drop`) and both remove what they put (`RemoveFile`). The code compares
  two numbers; that is the same as comparing the sets as long as a form does
  not name one file twice, which is left out.
* `BeginDelete`, `Delete`: DeleteFeedbackAward reads the keys with the row,
  deletes the row, and then removes the files.
* `PutFails` is an error of UploadFile, with the object stored or not: the code
  takes the one for the other, and an object that was stored all the same
  (`stray`) is in none of its lists.
* `Change`, `Enqueue`, `NeverEnqueued`: the statistics as the awards see them.
  The score is committed some statements before the feedback task is enqueued.
* `Rerate`: an average that changes and owes no task. The rate of 0 that
  HandleStepCreate inserts takes part in the averages of the top target, and the
  task it ends with names the portrait alone; HandleStepComment adds to the rate under
  the top target of the day the step was counted and names the top target of now.
* `Take`, `ReadScore`, `ListAwards`, `Achieve`: the feedback worker. Its
  errors are logged and the task is done all the same (`Swallow`,
  `AchieveFails`); only a crash brings a task back (`Crash`).

`contested` and `unchecked` are history: awards on which two requests met,
which were realized twice or whose request was cut short; and awards that
nobody will compare with the score of now. `stray` is the third.

## 3. Runs

| run | module | question | bounds |
|---|---|---|---|
| `targets_table` | MCTargets | is the table a forest, and the abstract table; does done reach the parents; two users apart; views | 3 targets, 2 users, 2 handlers, 1 fault |
| `targets_live` | MCTargets | do steps and challenges move targets and parents; backward moves; does every handler end | 2 targets, 2 handlers, all calls, no fault |
| `targets_delete_doc` | MCTargets | *violated*: deletion takes the sub-targets along | 3 targets, 1 handler |
| `stats_concurrent` | MCStatistics | what a completed task leaves behind; the abstract queue | target, step, comment; 2 workers; 2 attempts; 1 fault |
| `stats_live` | MCStatistics | does every task settle; what two rows do | 3 tasks, 2 workers, 2 attempts, 1 fault |
| `stats_dup` | MCStatistics | *violated*: one row per dimension | target and step, 2 workers, no fault |
| `stats_retry` | MCStatistics | *violated*: each step adds one | target and step, 1 worker, 2 attempts, 1 fault |
| `comments` | MCComments | what of a comment reaches the rate, how often, is it replaced | 1 step, 2 columns, 2 requests, 2 attempts, 1 fault |
| `comments_live` | MCComments | is every comment settled | 1 step, 1 column, 1 request, 2 attempts, 2 faults |
| `files` | MCStepFiles | do table and bucket agree; what do the pages show | 2 targets, 1 name, 3 steps, 2 uploads, 2 handlers, 1 fault; page numbers below 4, default size 2 |
| `awards` | MCAwards | is a reached award achieved, does it stay realized, are its files there, and no others | 1 award, 2 files, 2 handlers, 1 worker, 2 changes of a score in 0..1, 1 fault |
| `ent` | MCEnt | is what a chain saves what its calls say and the schema allows | each entity; each column together with one required column; 1 row, 2 chains, 3 calls |

Why the bounds suffice. Two handlers give every pairwise interleaving, and no
statement involves more than two. Three targets make a chain, whose middle can go
and whose climb goes past one level, or a root with the two siblings that the look at the
siblings needs, or two families of two owners; two make the parent and the child of
the goals without a look at siblings. Two attempts make a retry and an
archived task, two workers a lost update and a double creation; three tasks
for two workers (`stats_live`) make the list longer than the workers, and send a retry
behind a task that waits. Two requests to
comment meet on one column, follow each other on it or use two; the step under
them is recorded, changes its type, is deleted or loses its target at any
moment. Whether a comment settles does not depend on another (no task waits for
one), so one is enough for `comments_live`. Two uploads
meet on one name, follow each other on it, or go to a target and to a directory
in it; the third step row is the directory. With page numbers and sizes up to 3
an offset of three rows wraps, as one of 2^32 does, and three rows fill
pages of one, two and three. One award is enough because every statement about
an award names its id and its keys contain it; two changes let a score
rise behind a worker that has read it, or fall again, with a task or without one;
a second worker would only find what the first leaves; two files let a form be
put in part. Three calls set, clear and set a column again, or change it in
two chains at once; the columns of a row meet only in the check for required ones,
which is why two are enough.
The theorems below hold for every bound.

`CHECK_DEADLOCK FALSE` stands in the runs of Statistics, StepFiles, Comments
and Awards, which come to rest: when all tasks are settled, or all targets, rows,
awards and changes are used up.

Symmetry of handlers, workers, users, comment columns, commenters and chains is used
in safety runs only.

**Fairness.** `targets_live` assumes that an accepted handler takes its next
statement (the server runs it; `Abort` is not required). `stats_live` assumes
that the server keeps each worker going and forwards tasks due for a retry,
which is what asynq.Server does while it runs; it checks that this gives each
*task* the fairness of `TaskQueue` (`QueueFair`), though the fairness assumed is
one of workers and all tasks share one list. `comments_live` assumes the same of the
requests that were accepted and, there being more workers than tasks, of each
task. Nothing assumes that requests arrive or that faults stop before `MaxFaults`,
which is the bound that makes "in the end" meaningful.

**What the violated runs show.** step.proto:72 promises the deletion of the
sub-targets, the code (and its own comment) leaves them. Two tasks of a new
user create a portrait dimension twice, after which (`DuplicateStopsStatistics`)
no later task of this user completes, since every reader wants `Only` one row.
A failure behind the portrait write makes the retry count again. `StepFeedbackOnce` shows the other side of that retry: once the rate row
exists, its unique index fails every later attempt.

**What the exceptions in the invariants say.** They are part of the result, each was
needed: `interrupted` (nothing resumes a walk; repeating the call does not help
because a child that is done stops it), `overwritten` (the update names the id
alone), `pruned` (DeleteTarget does not look at the parent), `clobbered`
(read-modify-write), `contested` (put before insert, remove before delete; for
awards, no look at the status and removal after the delete), `unchecked` (errors
logged and forgotten, awards set below the score of the day, averages that change and
owe no task), `stray` (a put that reports an error and has stored), `everHard` (each
attempt reads `is_challenge` anew), `early` (the update of
no row is no error), `met` (check, then write), a comment or step whose task is
still `new` though its request is over (the error of Enqueue is logged), `Wraps`
(a page number behind 2^32 rows). That a comment which is tried again is counted again
is what the code does; `CountedUnlessClobbered` bounds it by the attempts of the
task. `RealizedStays` allows
the one step back there is: the worker that had listed the award as setted
writes achieved over realized.

## 4. Proofs

TLAPS checks the proof modules for every value of the constants that meets
the assumptions of the modelled module (`NoUser` is no user, the sets of tasks
are apart, the bounds are natural numbers, ...). Every invariant and every action
property of the passing runs is a theorem, and so are the refinements: of
`TargetForest` by `Targets`, and of `TaskQueue` (its safety) by `Statistics`.

`TargetsProofs`: `TypeCorrect`, `ForestCorrect` (`ForestOK`), `StepMovesTargetAlways`,
`ProgressReachesParentAlways`, `DoneReachesParentAlways`,
`RegressOnlyStaleAlways`, `OnlyOwnersChangeAlways`, and `ActsLikeForestAlways`,
the refinement of `TargetForest`. The argument is an inductive invariant in three
layers, each preserved by every action under the ones before:

1. `TypeInv`: types, and what a pending request holds (`Proper`: its ids exist,
   the op fits the program counter). `TypeOK` alone is not inductive, since
   nothing in it says that a request about to insert has a user.
2. `ForestInv`: `ForestOK`, that ids below `nextId` only are in use, and that
   whatever a request refers to, *if it is still live*, is owned by the
   caller and is what the request believes (`RefOK`: layer of the parent to
   insert under, parent edge of a walk). Owner, parent and layer of a row change only
   by its deletion or that of its parent, and ids are not handed out twice:
   that is why a check made statements ago still counts, and why the insert is
   the one step `CreateUnder` of `TargetForest`.
3. `StatusInv`: the three status invariants, that a walk between its
   statements carries what they need (`WalkOK`: the status it saw had not
   passed the goal, a walk at the siblings has done its own update), and that absent
   targets have no steps. The look at the siblings after the update is what
   makes the proof of `DoneReachesParent` go through, and its mutant fails there.

`ListReachesAllAlways` and `LookupsAgreeAlways` are about the read calls, which are
recursive functions. Given `ForestOK` and that absent rows have no layer
(`AbsentInv`, inductive under the first two layers) a parent is an older row, so
each of these functions exists and satisfies its own equation (`Climbs`); that
the two look-ups find the same head, and that every target is below one
head of its owner, follows from a least target for which it would not hold.

`CommentsProofs`: `TypeCorrect`, `StandingCommentCountedAlways`, `StepIsRatedAlways`, `CountedOnceAlways`,
`ReplacedOnlyWhenMetAlways`. The invariant follows a text: a request carries its own
(`TextInv`), what stands in a column was written by such a request and is
counted unless its task is on the way (`ColumnInv`), two requests on one column
have `met` (`MetInv`), a worker holds only texts of the column its task names
(`CarryInv`), so that each further count needs a retry or a second
request (`CountInv`). `RatedInv` does the same for the step's own task. Each action
moves one task or one request; `Effects` says once what each leaves alone.

`StatisticsProofs`: `QueueSafeAlways` and `StepFeedbackOnceAlways`. `QueueInv` says
that a pending task is once on the list and in no worker's hands and an active
one in the hands of exactly one worker; with it each step is a step of `TaskQueue`
or none. `StepPlan` computes the eleven statements of HandleStepCreate from
the concatenation that defines them. `FeedbackInv` adds that a step's worker that
is past the ninth has made the row of `step_rates` itself: the unique index
lets one attempt through, whatever is retried.

`StatisticsCounts`: `TypeCorrect`, `CountedUnlessClobberedAlways`,
`DuplicateStopsStatisticsAlways`. `CountsInv` adds three things. A task is counted no
more often than it has been taken up, one less while its worker is still before
the statement that counts (`Limit`): that holds for the rows, for the rates, for the
feedback and for values that are in a worker's hands (`InPlay`), which another
worker may have read long ago. A worker that holds a value of a dimension has
got it from a row (`HeldInv`). And a worker past its write finds its task in
the first row, or another worker has dropped it (`WrittenInv`), so that this is true of
a task when it is done (`DoneInv`). In which dimensions a comment has to be found is what
its worker last read of the step, and does not change behind that read
(`LooksInv`, of `StatisticsProofs`). `TypeOK`, whose bounds on the counts are not
inductive, follows. The third theorem needs that rows of a
dimension are never taken away: a task that is not yet past the check of a
dimension with two rows (`Doom`) stays so until it is given up.

`StepFilesProofs`: `TypeCorrect`, `StepHasItsFileAlways`, `FileHasItsStepAlways`.
The invariant (`SafeInv`) takes each object name by itself (`KeyOK`): while the
name is not contested at most one request and one row have it, and where the
request stands tells what the bucket holds. A step that changes another name
leaves it alone (`Elsewhere`). That names are found again where they
were recorded needs `StepKeyInv`, and `FreshInv` that ids are new.

`LostStepsStayAlways` is about the climb to a target, of any length:
a step's parent is an older step (`LinkInv`), links are only ever lost
(`LinksStay`), and of the steps that found no target before a step of the system
the least one that finds one after it leads to a contradiction.
`PagesPartitionAlways` and `WalkSkipsOnlyDeletedAlways`: the place of a row is the
size of the set of rows that come before it. Places are therefore apart and without
gaps, and one row more or less moves the others by one at most.

`AwardsProofs`: `TypeCorrect`, `AchievedAlways`, `ListedFilesExistAlways`,
`FilesAreListedAlways`, `RealizedStaysAlways`. `AchievedWhenReached` is inductive as
it stands, given the types. For the files the invariant takes each award by
itself (`AwardOK`): while it is not contested one request at most is at work on it, and
`Fits` says, by where that request stands, which keys it has put, which the row
lists and which the bucket holds, beside what is `stray`.

`EntProofs`: `CheckEnforcesTheSchemaAlways`, `NamesReachTheirCallsAlways`,
`ReturnedIsStoredAlways`, `SavesWhatWasCalledAlways`, `RefusedForCauseAlways`, for any
number of rows, chains and calls. `Fits` says what the tables of an entity must
have in common (what `check()` requires is what the schema requires, what can be
called can be called by name, is written, returned and read back, ...); it
is proved for each of the seven, and the rest of the argument knows nothing else of
them. `EntInv` gives a mutation and a row the types of their columns and says that a
stored row is one the schema allows. `FaithfulInv` is the heart: for every
value a column *may* have when Save runs, what the calls so far mean is
what the mutation makes of it (`Left`). The value has to be quantified here, since
other chains write the row until then. `Meant` goes through the calls from the
first on; that such a recursive function exists, and what one more call
does to it, are `StoryExists` and `SaidMore`, by `CountUp`.

**Induction.** The induction theorems of the library take a predicate as a
parameter, which the provers here cannot be given. `Climbs` does without: a set of
numbers that is not empty has a least member (from `NatLessThanWellFounded`), so
the least counterexample of a claim can be picked and refuted. `CountUp`,
`ClimbExists` and `DescentExists` are proved so, and the lemmas above
use them.

**The prover's sequences.** In the SMT encoding of tlapm 1.4.5 every value has a
length: `DOMAIN S = 1..N <=> Len(S) = N` and `Len(S) >= 0` hold of any `S`. That is
false of a function on `0..n`, and makes a leaf that mentions both too easy. All
proofs have therefore been run a second time with these axioms weakened to what
is true of every value, and no leaf depends on the difference.

Each step lemma has one step per action. The theorems combine
initialisation, the step and PTL. Only model-checked are the liveness properties,
`HandlersEnd`, `QueueFair` and `CommentsSettle`, which need ENABLED and fairness and so
are out of the prover's reach, and the violations that three runs expect.

## 5. Not modelled, and why

* **UpdateTarget, and the texts of UpdateTargetStep**: titles and descriptions, which
  no other call looks at; as database statements they are the UpdateOne of
  `EntBuilders`. The type and `is_challenge` of a step, which the workers do look at, are
  in `Comments` and `Statistics`.
* **Encryption of share links**: AES is a library, and the padding around it cuts and
  joins bytes without state or branches that another part relies on.
* **Portrait queries, GetTarget's and the awards' other reads** keep no state.
* **Presigned URLs** are computed in memory; **services and transport** pass
  through, their timeout is the `Abort` or `Fault` of the models.
* **Queries and predicates of ent**: a predicate is one comparison in SQL. The
  models use the contract of the queries (`Only` fails on none and on two, `First`
  on none) and of the schema: foreign keys `ON DELETE SET NULL`, unique indexes
  on `object_name` and `step_id`.
* **Edges to many rows, bulk creation, transactions, hooks and interceptors
  of ent**: the program uses none of them.
* **protobuf code** has descriptors, getters and stubs, no state.
* **Greeter, wiring, tracing, configuration**: the template of the framework.
* **Composition of all parts** in one state space: Upload's walk and its
  tasks are in `Targets` and `Comments`, its file in `StepFiles`; each keeps of the
  others what can fail there (a lost target, a refused row, an ended
  request). Together they would exceed what TLC can enumerate, and the
  hazards at their seams are covered by those actions.
