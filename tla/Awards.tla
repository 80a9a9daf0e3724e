------------------------------- MODULE Awards -------------------------------
(***************************************************************************)
(* The awards of one user, in the table `awards`: the requests that        *)
(* create, realize and delete them, with their files in the Minio bucket   *)
(* (src/internal/biz/feedback.go), and the feedback worker that compares   *)
(* them with a score after each change of it                               *)
(* (src/internal/biz/asynq-feedback.go).                                   *)
(*                                                                         *)
(* The score is one dimension of one portrait, or one average of the rates *)
(* of one target: the worker treats all of them alike, one after another.  *)
(* An action is one statement; nothing spans several of them.              *)
(***************************************************************************)
EXTENDS Naturals

CONSTANTS
    Files,       \* file names in the forms
    Requests,    \* handlers that can be in progress at the same time
    Workers,     \* goroutines of the Asynq server
    MaxAwards,   \* bound: rows that are ever inserted
    MaxScore,    \* bound: the largest score
    MaxChanges,  \* bound: changes of the score
    MaxFaults    \* bound: statements that fail, handlers that are cut short

ASSUME BoundsAssumption ==
    MaxAwards \in Nat /\ MaxScore \in Nat /\ MaxChanges \in Nat /\ MaxFaults \in Nat

VARIABLES
    awards,     \* the table: id -> row, NoRow where there is none
    nextId,     \* the AUTO_INCREMENT counter
    objects,    \* the keys in the bucket
    targetType, \* of the awards: what the score is taken from
    score,      \* what the thresholds are compared with
    changes,    \* how often the score has changed
    owed,       \* changes whose feedback task is not on the queue yet
    pending,    \* feedback tasks on the queue
    req,        \* what each handler in progress has read and does next
    worker,     \* the same for each worker
    faults,
    stray,      \* history: keys that only a put which reported an error stored
    contested,  \* history: awards two requests met on, or one was cut short on
    unchecked   \* history: awards nobody will compare with the score of now

vars == <<awards, nextId, objects, targetType, score, changes, owed, pending, req, worker, faults,
          stray, contested, unchecked>>

AwardIds == 1 .. MaxAwards
Score    == 0 .. MaxScore
Folders  == {"setted", "realized"}

\* feedback/award/uid/id/folder/name
Key(a, folder, f) == [award |-> a, folder |-> folder, file |-> f]
Keys == [award : AwardIds, folder : Folders, file : Files]

KeysOf(a, folder, fs) == {Key(a, folder, f) : f \in fs}

NoRow == [status |-> "none", threshold |-> 0, setted |-> {}, realized |-> {}]

Stored    == {a \in AwardIds : awards[a].status # "none"}
Listed(a) == KeysOf(a, "setted", awards[a].setted) \union KeysOf(a, "realized", awards[a].realized)

Idle == [pc |-> "idle", folder |-> "setted", award |-> 0, files |-> {}, todo |-> {}, keys |-> {}]
Rest == [pc |-> "idle", score |-> 0, list |-> {}]

Busy(a) == {r \in Requests : req[r].pc # "idle" /\ req[r].award = a}

-----------------------------------------------------------------------------
Init == /\ awards = [a \in AwardIds |-> NoRow]
        /\ nextId = 1
        /\ objects = {}
        /\ targetType \in {"portrait", "target"}
        /\ score = 0
        /\ changes = 0
        /\ owed = 0
        /\ pending = 0
        /\ req = [r \in Requests |-> Idle]
        /\ worker = [w \in Workers |-> Rest]
        /\ faults = 0
        /\ stray = {}
        /\ contested = {}
        /\ unchecked = {}

bucket   == <<objects, stray>>
table    == <<awards, nextId>>
scores   == <<targetType, score, changes, owed>>
feedback == <<scores, pending, worker>>

Continue(r, q) == req' = [req EXCEPT ![r] = q]
Finish(r)      == Continue(r, Idle)

(***************************************************************************)
(* CreateFeedbackAward and RealizeFeedbackAward put the files of the form  *)
(* in a loop that goes on after a failure, and then either save the keys   *)
(* in the row or take back what was put.                                   *)
(***************************************************************************)
\* Mutant: the keys are saved although some of the files failed.
ProceedAnyway(q) ==
    [q EXCEPT !.pc = IF q.todo # {} THEN "put" ELSE "save"]

\* keys are those put so far.
Proceed(q) ==
    [q EXCEPT !.pc = IF q.todo # {} THEN "put"
                     ELSE IF q.keys = KeysOf(q.award, q.folder, q.files) THEN "save"
                     ELSE IF q.folder = "setted" THEN "drop"
                     ELSE IF q.keys # {} THEN "remove"
                     ELSE "idle"]

\* Mutant: the files of the form are not kept to compare with.
FilingForgetful(a, folder, fs) ==
    Proceed([Idle EXCEPT !.award = a, !.folder = folder, !.todo = fs])

Filing(a, folder, fs) ==
    Proceed([Idle EXCEPT !.award = a, !.folder = folder, !.files = fs, !.todo = fs])

\* The row is inserted first, without its files.
BeginCreate(r, threshold, fs) ==
    /\ req[r].pc = "idle"
    /\ nextId <= MaxAwards
    /\ awards' = [awards EXCEPT ![nextId] = [NoRow EXCEPT !.status = "setted",
                                                          !.threshold = threshold]]
    /\ nextId' = nextId + 1
    /\ Continue(r, Filing(nextId, "setted", fs))
    /\ unchecked' = IF score >= threshold THEN unchecked \union {nextId} ELSE unchecked
    /\ UNCHANGED <<bucket, feedback, faults, contested>>

\* The status is not looked at.
BeginRealize(r, a, fs) ==
    /\ req[r].pc = "idle"
    /\ a \in Stored
    /\ Continue(r, Filing(a, "realized", fs))
    /\ contested' = IF Busy(a) # {} \/ awards[a].realized # {}
                    THEN contested \union {a} ELSE contested
    /\ UNCHANGED <<table, bucket, feedback, faults, unchecked>>

\* The files come in the order of the form, which can be any.
PutFile(r, f) ==
    LET q == req[r]
        k == Key(q.award, q.folder, f)
    IN
    /\ q.pc = "put"
    /\ f \in q.todo
    /\ objects' = objects \union {k}
    /\ stray' = stray \ {k}
    /\ Continue(r, Proceed([q EXCEPT !.todo = @ \ {f}, !.keys = @ \union {k}]))
    /\ UNCHANGED <<table, feedback, faults, contested, unchecked>>

\* A file that cannot be opened or put; or is put, and an error reported of it.
PutFails(r, f) ==
    LET q == req[r]
        k == Key(q.award, q.folder, f)
    IN
    /\ q.pc = "put"
    /\ f \in q.todo
    /\ faults < MaxFaults
    /\ faults' = faults + 1
    /\ \/ UNCHANGED bucket
       \/ objects' = objects \union {k} /\ stray' = stray \union ({k} \ objects)
    /\ Continue(r, Proceed([q EXCEPT !.todo = @ \ {f}]))
    /\ UNCHANGED <<table, feedback, contested, unchecked>>

\* Mutant: creation saves the row as it was inserted.
SavedWhole(row, folder, fs) ==
    IF folder = "setted" THEN [row EXCEPT !.setted = fs, !.status = "setted"]
    ELSE [row EXCEPT !.realized = fs, !.status = "realized"]

Saved(row, folder, fs) ==
    IF folder = "setted" THEN [row EXCEPT !.setted = fs]
    ELSE [row EXCEPT !.realized = fs, !.status = "realized"]

\* UpdateOneID fails when the row is gone; the files stay.
Save(r) ==
    LET q == req[r] IN
    /\ q.pc = "save"
    /\ awards' = IF q.award \in Stored
                 THEN [awards EXCEPT ![q.award] = Saved(@, q.folder, q.files)] ELSE awards
    /\ Finish(r)
    /\ UNCHANGED <<nextId, bucket, feedback, faults, contested, unchecked>>

\* Where a request goes to take its keys out of the bucket, if there are any.
Removing(q) == IF q.keys = {} THEN Idle ELSE [q EXCEPT !.pc = "remove"]

\* CreateFeedbackAward deletes the row of an award whose files failed.
Drop(r) ==
    /\ req[r].pc = "drop"
    /\ awards' = [awards EXCEPT ![req[r].award] = NoRow]
    /\ Continue(r, Removing(req[r]))
    /\ UNCHANGED <<nextId, bucket, feedback, faults, contested, unchecked>>

\* Its error is not looked at.  A fault came before it, so it needs no bound.
DropFails(r) ==
    /\ req[r].pc = "drop"
    /\ Continue(r, Removing(req[r]))
    /\ UNCHANGED <<table, bucket, feedback, faults, contested, unchecked>>

(***************************************************************************)
(* DeleteFeedbackAward: the keys are read with the row, the row goes       *)
(* first, then the files.                                                  *)
(***************************************************************************)
\* Mutant: only the files it was set with.
KeysToDeleteSetted(a) == KeysOf(a, "setted", awards[a].setted)

KeysToDelete(a) == Listed(a)

BeginDelete(r, a) ==
    /\ req[r].pc = "idle"
    /\ a \in Stored
    /\ Continue(r, [Idle EXCEPT !.pc = "delete", !.award = a, !.keys = KeysToDelete(a)])
    /\ contested' = IF Busy(a) # {} THEN contested \union {a} ELSE contested
    /\ UNCHANGED <<table, bucket, feedback, faults, unchecked>>

Delete(r) ==
    LET q == req[r] IN
    /\ q.pc = "delete"
    /\ IF q.award \in Stored
       THEN /\ awards' = [awards EXCEPT ![q.award] = NoRow]
            /\ Continue(r, Removing(q))
       ELSE /\ UNCHANGED awards
            /\ Finish(r)
    /\ UNCHANGED <<nextId, bucket, feedback, faults, contested, unchecked>>

\* RemoveFile, one after the other, its error not looked at.
RemoveFile(r, k) ==
    /\ req[r].pc = "remove"
    /\ k \in req[r].keys
    /\ objects' = objects \ {k}
    /\ stray' = stray \ {k}
    /\ Continue(r, Removing([req[r] EXCEPT !.keys = @ \ {k}]))
    /\ UNCHANGED <<table, feedback, faults, contested, unchecked>>

RemoveFails(r, k) ==
    /\ req[r].pc = "remove"
    /\ k \in req[r].keys
    /\ faults < MaxFaults
    /\ faults' = faults + 1
    /\ Continue(r, Removing([req[r] EXCEPT !.keys = @ \ {k}]))
    /\ contested' = contested \union {req[r].award}
    /\ UNCHANGED <<table, bucket, feedback, unchecked>>

\* A database error, the timeout of the server or a crash.
Abort(r) ==
    /\ req[r].pc # "idle"
    /\ faults < MaxFaults
    /\ faults' = faults + 1
    /\ contested' = contested \union {req[r].award}
    /\ Finish(r)
    /\ UNCHANGED <<table, bucket, feedback, unchecked>>

-----------------------------------------------------------------------------
(***************************************************************************)
(* The feedback.  The handlers of the statistics change the score and      *)
(* enqueue a task some statements later; one that fails in between is      *)
(* retried, but a step's retries all fail (see Statistics).                *)
(***************************************************************************)
Change(s) ==
    /\ changes < MaxChanges
    /\ score' = s
    /\ changes' = changes + 1
    /\ owed' = owed + 1
    /\ unchecked' = {}
    /\ UNCHANGED <<table, bucket, targetType, pending, req, worker, faults, contested>>

\* A task that will read the score.
Coming == owed > 0 \/ pending > 0 \/ \E w \in Workers : worker[w].pc = "read"

\* The average of a target changes by a step of it as well, which names the
\* portrait alone, and by a comment on a step that has another target by now,
\* which names that one: no task comes of these.
Rerate(s) ==
    /\ targetType = "target"
    /\ changes < MaxChanges
    /\ score' = s
    /\ changes' = changes + 1
    /\ unchecked' = IF Coming THEN unchecked ELSE Stored
    /\ UNCHANGED <<table, bucket, targetType, owed, pending, req, worker, faults, contested>>

Enqueue ==
    /\ owed > 0
    /\ owed' = owed - 1
    /\ pending' = pending + 1
    /\ UNCHANGED <<table, bucket, targetType, score, changes, req, worker, faults, contested, unchecked>>

\* A handler that fails in each of its attempts, by faults or for good: with
\* two rows of a portrait, or without the step.
NeverEnqueued ==
    /\ owed > 0
    /\ owed' = owed - 1
    /\ unchecked' = unchecked \union Stored
    /\ UNCHANGED <<table, bucket, targetType, score, changes, pending, req, worker, faults, contested>>

Turn(w, q) == worker' = [worker EXCEPT ![w] = q]

Take(w) ==
    /\ worker[w].pc = "idle"
    /\ pending > 0
    /\ pending' = pending - 1
    /\ Turn(w, [Rest EXCEPT !.pc = "read"])
    /\ UNCHANGED <<table, bucket, scores, req, faults, contested, unchecked>>

ReadScore(w) ==
    /\ worker[w].pc = "read"
    /\ Turn(w, [Rest EXCEPT !.pc = "list", !.score = score])
    /\ UNCHANGED <<table, bucket, scores, pending, req, faults, contested, unchecked>>

\* Mutant: the threshold itself is not enough.
ReachedStrictly(a, s) == s > awards[a].threshold

Reached(a, s) == s >= awards[a].threshold

Achieving(q) == IF q.list = {} THEN Rest ELSE [q EXCEPT !.pc = "achieve"]

\* The awards that are setted; those below their threshold are passed over.
ListAwards(w) ==
    /\ worker[w].pc = "list"
    /\ Turn(w, Achieving([worker[w] EXCEPT !.list =
            {a \in Stored : awards[a].status = "setted" /\ Reached(a, worker[w].score)}]))
    /\ UNCHANGED <<table, bucket, scores, pending, req, faults, contested, unchecked>>

\* UpdateOne names the id alone.  A row that is gone is an error, passed over.
Achieve(w, a) ==
    /\ worker[w].pc = "achieve"
    /\ a \in worker[w].list
    /\ awards' = IF a \in Stored THEN [awards EXCEPT ![a].status = "achieved"] ELSE awards
    /\ Turn(w, Achieving([worker[w] EXCEPT !.list = @ \ {a}]))
    /\ UNCHANGED <<nextId, bucket, scores, pending, req, faults, contested, unchecked>>

\* Errors of the queries are logged and the task counts as done.
Swallow(w) ==
    /\ worker[w].pc \in {"read", "list"}
    /\ faults < MaxFaults
    /\ faults' = faults + 1
    /\ unchecked' = unchecked \union Stored
    /\ Turn(w, Rest)
    /\ UNCHANGED <<table, bucket, scores, pending, req, contested>>

AchieveFails(w, a) ==
    /\ worker[w].pc = "achieve"
    /\ a \in worker[w].list
    /\ faults < MaxFaults
    /\ faults' = faults + 1
    /\ unchecked' = unchecked \union {a}
    /\ Turn(w, Achieving([worker[w] EXCEPT !.list = @ \ {a}]))
    /\ UNCHANGED <<table, bucket, scores, pending, req, contested>>

\* The worker dies, its lease runs out, Asynq retries the task.
Crash(w) ==
    /\ worker[w].pc # "idle"
    /\ faults < MaxFaults
    /\ faults' = faults + 1
    /\ pending' = pending + 1
    /\ Turn(w, Rest)
    /\ UNCHANGED <<table, bucket, scores, req, contested, unchecked>>

-----------------------------------------------------------------------------
Next ==
    \/ \E r \in Requests :
          \/ \E fs \in SUBSET Files :
                \/ \E threshold \in Score : BeginCreate(r, threshold, fs)
                \/ \E a \in AwardIds : BeginRealize(r, a, fs)
          \/ \E f \in Files : PutFile(r, f) \/ PutFails(r, f)
          \/ \E k \in Keys : RemoveFile(r, k) \/ RemoveFails(r, k)
          \/ \E a \in AwardIds : BeginDelete(r, a)
          \/ Save(r) \/ Drop(r) \/ DropFails(r) \/ Delete(r) \/ Abort(r)
    \/ \E s \in Score : Change(s) \/ Rerate(s)
    \/ Enqueue \/ NeverEnqueued
    \/ \E w \in Workers :
          \/ Take(w) \/ ReadScore(w) \/ ListAwards(w) \/ Swallow(w) \/ Crash(w)
          \/ \E a \in AwardIds : Achieve(w, a) \/ AchieveFails(w, a)

Spec == Init /\ [][Next]_vars

-----------------------------------------------------------------------------
TypeOK == /\ awards \in [AwardIds -> [status    : {"none", "setted", "achieved", "realized"},
                                      threshold : Score,
                                      setted    : SUBSET Files,
                                      realized  : SUBSET Files]]
          /\ nextId \in 1 .. MaxAwards + 1
          /\ objects \subseteq Keys
          /\ targetType \in {"portrait", "target"}
          /\ score \in Score
          /\ changes \in 0 .. MaxChanges
          /\ owed \in 0 .. MaxChanges
          /\ pending \in 0 .. MaxChanges + MaxFaults
          /\ \A r \in Requests : /\ req[r].pc \in {"idle", "put", "save", "drop", "delete", "remove"}
                                 /\ req[r].award \in 0 .. MaxAwards
                                 /\ req[r].todo \subseteq req[r].files
                                 /\ req[r].keys \subseteq Keys
          /\ \A w \in Workers : /\ worker[w].pc \in {"idle", "read", "list", "achieve"}
                                /\ worker[w].score \in Score
                                /\ worker[w].list \subseteq AwardIds
          /\ faults \in 0 .. MaxFaults
          /\ stray \subseteq Keys
          /\ contested \subseteq AwardIds
          /\ unchecked \subseteq AwardIds

\* A worker that will still compare award a with the score of now.
Comparing(w, a) == \/ worker[w].pc = "read"
                   \/ worker[w].pc = "list" /\ worker[w].score >= awards[a].threshold
                   \/ worker[w].pc = "achieve" /\ a \in worker[w].list

(***************************************************************************)
(* An award whose threshold is met does not stay setted: a task that will  *)
(* see it is about to be enqueued, on the queue or in a worker's hands,    *)
(* however changes of the score, creations and comparisons interleave.     *)
(* Otherwise the award was created after the score was there already, an   *)
(* error of the comparison was logged and forgotten, the task was never    *)
(* enqueued, or the score is an average that changed and named another     *)
(* target or none; and no other change has come since.                     *)
(***************************************************************************)
AchievedWhenReached ==
    \A a \in Stored :
        awards[a].status = "setted" /\ score >= awards[a].threshold =>
            \/ owed > 0 \/ pending > 0
            \/ \E w \in Workers : Comparing(w, a)
            \/ a \in unchecked

(***************************************************************************)
(* A realized award stays realized, unless a worker that had listed it as  *)
(* setted before writes achieved over it.                                  *)
(***************************************************************************)
RealizedStays ==
    [][\A a \in Stored :
          awards[a].status = "realized" =>
             \/ awards'[a].status \in {"realized", "none"}
             \/ \E w \in Workers : worker[w].pc = "achieve" /\ a \in worker[w].list]_vars

(***************************************************************************)
(* What an award lists is in the bucket, through files that cannot be put  *)
(* and files that are taken back, as long as requests do not meet on the   *)
(* award and it is not realized a second time: a second attempt that fails *)
(* takes back the files of the first one of the same name.                 *)
(***************************************************************************)
ListedFilesExist == \A a \in Stored \ contested : Listed(a) \subseteq objects

(***************************************************************************)
(* The bucket keeps no file of an award that nobody lists or is about to   *)
(* save or to remove, but for awards that requests met on, that were       *)
(* realized twice, or whose request was cut short or failed to remove, and *)
(* for files that were put although an error was reported: the request     *)
(* takes back only those it knows it has put.                              *)
(***************************************************************************)
FilesAreListed ==
    \A k \in objects :
        \/ k \in Listed(k.award)
        \/ \E r \in Busy(k.award) : k \in req[r].keys
        \/ k.award \in contested
        \/ k \in stray
=============================================================================
