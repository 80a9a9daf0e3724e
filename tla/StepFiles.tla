----------------------------- MODULE StepFiles -----------------------------
(***************************************************************************)
(* The steps of one user and their files: rows of the MySQL table `steps`, *)
(* objects of the Minio bucket.  Nothing spans the two stores: Upload puts *)
(* the object and then inserts the row, DeleteTargetStep removes the       *)
(* object and then deletes the row.  The source is Upload of               *)
(* src/internal/biz/step.go and the step calls of                          *)
(* src/internal/data/step.go.                                              *)
(*                                                                         *)
(* A directory is a step without a file; the column `type` and the texts   *)
(* of a step play no part here and UpdateTargetStep, which only sets       *)
(* these, is no action.  The statuses of the targets are in Targets.       *)
(***************************************************************************)
EXTENDS Naturals

CONSTANTS
    Targets,      \* ids of the targets of the user
    NoTarget,     \* ref_target_id NULL, or no targetID in the form
    Names,        \* file names the client chooses
    Requests,     \* handlers that can be in progress at the same time
    MaxSteps,     \* bound: rows that are ever inserted
    MaxUploads,   \* bound: uploads that are ever begun
    MaxFaults     \* bound: handlers that are cut short

ASSUME TargetAssumption == NoTarget \notin Targets
ASSUME BoundsAssumption == MaxSteps \in Nat /\ MaxUploads \in Nat /\ MaxFaults \in Nat

VARIABLES
    live,       \* the targets that are not deleted
    steps,      \* the table: id -> row, NoRow where there is none
    nextId,     \* the AUTO_INCREMENT counter
    objects,    \* the bucket: key -> content, NoContent where there is none
    uploads,    \* how many uploads began; the n-th has content n
    req,        \* what each handler in progress does next
    faults,     \* handlers cut short so far
    contested   \* history: keys where two requests met or one did not finish

vars == <<live, steps, nextId, objects, uploads, req, faults, contested>>

StepIds   == 1 .. MaxSteps
NoStep    == 0
NoContent == 0
Contents  == 1 .. MaxUploads

\* uid/target_{id}/name, or uid/target_{id}/dir_{dir}/name in a directory.
Key(t, dir, name) == [target |-> t, dir |-> dir, name |-> name]
Keys == [target : Targets, dir : 0 .. MaxSteps, name : Names]
NoKey == [target |-> NoTarget, dir |-> NoStep, name |-> ""]

Row(t, parent, key, content) ==
    [exists |-> TRUE, target |-> t, parent |-> parent, key |-> key, content |-> content]
NoRow == [exists |-> FALSE, target |-> NoTarget, parent |-> NoStep,
          key |-> NoKey, content |-> NoContent]

\* A request: put and insert belong to an upload, look, remove and delete to
\* the deletion of a step.  `dir` is the parent a new row gets.
Idle == [pc |-> "idle", target |-> NoTarget, dir |-> NoStep, step |-> NoStep,
         key |-> NoKey, content |-> NoContent]

Stored    == {s \in StepIds : steps[s].exists}
Holder(k) == {s \in Stored : steps[s].key = k}
Busy(k)   == {r \in Requests : req[r].pc # "idle" /\ req[r].key = k}

\* GetTargetByStepIDRecursively: the nearest target on the way up, or none.
TargetOf[s \in StepIds] ==
    IF s \notin Stored THEN NoTarget
    ELSE IF steps[s].target # NoTarget \/ steps[s].parent = NoStep THEN steps[s].target
    ELSE TargetOf[steps[s].parent]

-----------------------------------------------------------------------------
Init == /\ live = Targets
        /\ steps = [s \in StepIds |-> NoRow]
        /\ nextId = 1
        /\ objects = [k \in Keys |-> NoContent]
        /\ uploads = 0
        /\ req = [r \in Requests |-> Idle]
        /\ faults = 0
        /\ contested = {}

Continue(r, q) == req' = [req EXCEPT ![r] = q]
Finish(r)      == Continue(r, Idle)

\* Another request is at work on the name k; a directory has none.
Contest(k)      == contested' = contested \union ({k} \ {NoKey})
Meet(k, others) == IF others # {} THEN Contest(k) ELSE UNCHANGED contested

(***************************************************************************)
(* Upload.  The form names a target, a parent step or both; without a      *)
(* target the one above the parent step counts.  The owner of the target   *)
(* that counts is asked.  Beside a target the parent step is not looked    *)
(* at: here it is any id, but steps of other users are not in this module. *)
(***************************************************************************)
FormTarget(t, dir) == IF t # NoTarget THEN t ELSE TargetOf[dir]

\* Mutant: the target of the form, not the one found through the directory.
FormKeyUnresolved(t, dir, name) == Key(t, IF t # NoTarget THEN NoStep ELSE dir, name)

FormKey(t, dir, name) == Key(FormTarget(t, dir), IF t # NoTarget THEN NoStep ELSE dir, name)

\* Mutant: the row is inserted first.
FirstOfUploadRow == "insert"

FirstOfUpload == "put"

BeginUpload(r, t, dir, name) ==
    /\ req[r].pc = "idle"
    /\ uploads < MaxUploads
    /\ t = NoTarget => dir \in Stored
    /\ FormTarget(t, dir) \in live
    /\ LET key == FormKey(t, dir, name) IN
       /\ Continue(r, [Idle EXCEPT !.pc = FirstOfUpload, !.target = FormTarget(t, dir),
                                   !.dir = dir, !.key = key, !.content = uploads + 1])
       /\ Meet(key, Busy(key) \union Holder(key))
    /\ uploads' = uploads + 1
    /\ UNCHANGED <<live, steps, nextId, objects, faults>>

\* UploadFile: PutObject replaces what the bucket has under the key.
Put(r) ==
    /\ req[r].pc = "put"
    /\ objects' = [objects EXCEPT ![req[r].key] = req[r].content]
    /\ Continue(r, [req[r] EXCEPT !.pc = "insert"])
    /\ UNCHANGED <<live, steps, nextId, uploads, faults, contested>>

\* The unique index on object_name and the foreign keys on ref_target_id and
\* parent_id may refuse the row, which leaves the object where it is.
Accepts(q) == /\ nextId <= MaxSteps
              /\ Holder(q.key) = {}
              /\ q.target \in live
              /\ q.dir # NoStep => q.dir \in Stored

Insert(r) ==
    /\ req[r].pc = "insert"
    /\ IF Accepts(req[r])
       THEN /\ steps' = [steps EXCEPT ![nextId] =
                            Row(req[r].target, req[r].dir, req[r].key, req[r].content)]
            /\ nextId' = nextId + 1
            /\ UNCHANGED contested
       ELSE /\ Contest(req[r].key)
            /\ UNCHANGED <<steps, nextId>>
    /\ Finish(r)
    /\ UNCHANGED <<live, objects, uploads, faults>>

\* AddTargetDirStep: the foreign key asks again what the handler has read.
AddDir(t) ==
    /\ t \in live
    /\ nextId <= MaxSteps
    /\ steps' = [steps EXCEPT ![nextId] = Row(t, NoStep, NoKey, NoContent)]
    /\ nextId' = nextId + 1
    /\ UNCHANGED <<live, objects, uploads, req, faults, contested>>

(***************************************************************************)
(* DeleteTargetStep.                                                       *)
(***************************************************************************)
\* Mutant: the file is forgotten.
FirstOfDeleteRow(s) == "delete"

FirstOfDelete(s) == IF steps[s].key # NoKey THEN "remove" ELSE "delete"

\* Mutant: a step that belongs to no target any more can be deleted.
BeginDeleteAny(r, s) ==
    /\ req[r].pc = "idle"
    /\ s \in Stored
    /\ Continue(r, [Idle EXCEPT !.pc = "look", !.step = s])
    /\ UNCHANGED <<live, steps, nextId, objects, uploads, faults, contested>>

\* The target is looked for and its owner compared with the caller.
BeginDelete(r, s) ==
    /\ req[r].pc = "idle"
    /\ s \in Stored
    /\ TargetOf[s] # NoTarget
    /\ Continue(r, [Idle EXCEPT !.pc = "look", !.step = s])
    /\ UNCHANGED <<live, steps, nextId, objects, uploads, faults, contested>>

\* The step is queried for its object name, or is gone by now.
LookForStep(r) ==
    LET s == req[r].step IN
    /\ req[r].pc = "look"
    /\ IF s \in Stored
       THEN /\ Continue(r, [Idle EXCEPT !.pc = FirstOfDelete(s), !.step = s, !.key = steps[s].key])
            /\ Meet(steps[s].key, Busy(steps[s].key))
       ELSE Finish(r) /\ UNCHANGED contested
    /\ UNCHANGED <<live, steps, nextId, objects, uploads, faults>>

\* RemoveFile: DeleteObject succeeds whether there is an object or not.
RemoveFile(r) ==
    /\ req[r].pc = "remove"
    /\ objects' = [objects EXCEPT ![req[r].key] = NoContent]
    /\ Continue(r, [req[r] EXCEPT !.pc = "delete"])
    /\ UNCHANGED <<live, steps, nextId, uploads, faults, contested>>

\* The foreign key sets parent_id of the children to NULL.
WithoutStep(s) == [c \in StepIds |->
                     IF c = s THEN NoRow
                     ELSE IF steps[c].parent = s THEN [steps[c] EXCEPT !.parent = NoStep]
                     ELSE steps[c]]

DeleteRow(r) ==
    /\ req[r].pc = "delete"
    /\ steps' = IF req[r].step \in Stored THEN WithoutStep(req[r].step) ELSE steps
    /\ Finish(r)
    /\ UNCHANGED <<live, nextId, objects, uploads, faults, contested>>

\* DeleteTarget: the foreign key sets ref_target_id of its steps to NULL.
DeleteTarget(t) ==
    /\ t \in live
    /\ live' = live \ {t}
    /\ steps' = [s \in StepIds |-> IF steps[s].target = t
                                   THEN [steps[s] EXCEPT !.target = NoTarget] ELSE steps[s]]
    /\ UNCHANGED <<nextId, objects, uploads, req, faults, contested>>

\* An error, the timeout of the server or a crash between two statements.
Abort(r) ==
    /\ req[r].pc # "idle"
    /\ faults < MaxFaults
    /\ faults' = faults + 1
    /\ Contest(req[r].key)
    /\ Finish(r)
    /\ UNCHANGED <<live, steps, nextId, objects, uploads>>

-----------------------------------------------------------------------------
Next == \/ \E r \in Requests :
              \/ \E t \in Targets \union {NoTarget}, dir \in 0 .. MaxSteps, n \in Names :
                    BeginUpload(r, t, dir, n)
              \/ \E s \in StepIds : BeginDelete(r, s)
              \/ Put(r) \/ Insert(r) \/ LookForStep(r) \/ RemoveFile(r) \/ DeleteRow(r) \/ Abort(r)
        \/ \E t \in Targets : AddDir(t) \/ DeleteTarget(t)

Spec == Init /\ [][Next]_vars

-----------------------------------------------------------------------------
TypeOK == /\ live \subseteq Targets
          /\ steps \in [StepIds -> [exists  : BOOLEAN,
                                    target  : Targets \union {NoTarget},
                                    parent  : 0 .. MaxSteps,
                                    key     : Keys \union {NoKey},
                                    content : Contents \union {NoContent}]]
          /\ nextId \in 1 .. MaxSteps + 1
          /\ objects \in [Keys -> Contents \union {NoContent}]
          /\ uploads \in 0 .. MaxUploads
          /\ req \in [Requests -> [pc      : {"idle", "put", "insert", "look", "remove", "delete"},
                                   target  : Targets \union {NoTarget},
                                   dir     : 0 .. MaxSteps,
                                   step    : 0 .. MaxSteps,
                                   key     : Keys \union {NoKey},
                                   content : Contents \union {NoContent}]]
          /\ faults \in 0 .. MaxFaults
          /\ contested \subseteq Keys

(***************************************************************************)
(* The step a user sees has the file that was uploaded for it, or its      *)
(* deletion is half done; whatever happens to targets, directories and     *)
(* other files meanwhile.  Only work that met on the very same object name *)
(* (a second upload of the name replaces the file before the unique index  *)
(* refuses its row) or that was cut short can break it.                    *)
(***************************************************************************)
StepHasItsFile ==
    \A s \in Stored :
        LET k == steps[s].key IN
        k \notin contested \union {NoKey} =>
            \/ objects[k] = steps[s].content
            \/ \E r \in Requests : req[r].pc = "delete" /\ req[r].step = s

(***************************************************************************)
(* The bucket keeps nothing without a step: an object belongs to a row, or *)
(* the upload that put it is about to insert the row, unless requests met  *)
(* on its name, the row was refused or a handler was cut short.            *)
(***************************************************************************)
FileHasItsStep ==
    \A k \in Keys \ contested :
        objects[k] # NoContent =>
            \/ Holder(k) # {}
            \/ \E r \in Requests : req[r].pc = "insert" /\ req[r].key = k

(***************************************************************************)
(* A step that has lost its target, its own and those above it, is out of  *)
(* reach for good: unless a deletion was under way it stays in the table   *)
(* with its file for ever, because DeleteTargetStep looks for the owner    *)
(* through the target.                                                     *)
(***************************************************************************)
LostStepsStay ==
    [][\A s \in Stored :
          TargetOf[s] = NoTarget /\ (\A r \in Requests : req[r].step # s) =>
             /\ steps'[s].exists
             /\ TargetOf'[s] = NoTarget
             /\ \A r \in Requests : req'[r].step # s]_vars
=============================================================================
