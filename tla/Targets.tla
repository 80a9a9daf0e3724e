------------------------------ MODULE Targets ------------------------------
(***************************************************************************)
(* The target forest of a user and its status walk.                        *)
(*                                                                         *)
(* A target is a row of the MySQL table `targets`.  A handler is a request *)
(* that runs several database statements one after the other, with no      *)
(* transaction around them: every action below is one statement, and what  *)
(* the handler read before it is kept in the request's record.  The source *)
(* is src/internal/data/step.go, with Upload of src/internal/biz/step.go   *)
(* as the caller of the status walk for the goals step and step_hard.      *)
(***************************************************************************)
EXTENDS Naturals

CONSTANTS
    Users,        \* ids of signed-in users, the header GetUid reads
    NoUser,       \* owner of an absent row
    Requests,     \* handlers that can be in progress at the same time
    Ops,          \* the calls the instance enables, a subset of AllOps
    MaxTargets,   \* bound: rows that are ever inserted
    MaxFaults     \* bound: handlers that are cut short

Goals  == {"step", "step_hard", "done"}
AllOps == Goals \union {"create", "delete"}

ASSUME UsersAssumption  == NoUser \notin Users
ASSUME OpsAssumption    == Ops \subseteq AllOps
ASSUME BoundsAssumption == MaxTargets \in Nat /\ MaxFaults \in Nat

VARIABLES
    targets,      \* the table: id -> row, NoRow where there is none
    nextId,       \* the AUTO_INCREMENT counter
    steps,        \* the kinds of steps Upload attached to each target
    req,          \* what each handler in progress has read and does next
    faults,       \* handlers cut short so far
    interrupted,  \* history: targets a cut-short walk was on its way to
    overwritten,  \* history: targets whose status was set back
    pruned        \* history: targets that lost an unfinished child

table   == <<targets, nextId, steps>>
history == <<faults, interrupted, overwritten, pruned>>
vars    == <<targets, nextId, steps, req, faults, interrupted, overwritten, pruned>>

TargetIds == 1 .. MaxTargets
NoParent  == 0
Status    == Goals \union {"init"}
StepKinds == {"step", "step_hard"}

TargetRow == [owner  : Users \union {NoUser},
              parent : 0 .. MaxTargets,
              layer  : Nat,
              status : Status]

NoRow == [owner |-> NoUser, parent |-> NoParent, layer |-> 0, status |-> "init"]

PCs == {"idle", "insert", "delete", "addstep", "query", "load", "update", "siblings"}

Request == [pc    : PCs,
            op    : AllOps,
            uid   : Users \union {NoUser},
            cur   : 0 .. MaxTargets,   \* the target at hand; a create's parent
            layer : Nat,               \* of the target a create inserts
            seen  : Status,            \* the status Query read
            edge  : 0 .. MaxTargets]   \* the parent the walk loaded

Idle == [pc |-> "idle", op |-> "create", uid |-> NoUser, cur |-> NoParent,
         layer |-> 0, seen |-> "init", edge |-> NoParent]

Live        == {t \in TargetIds : targets[t].owner # NoUser}
Children(p) == {c \in Live : targets[c].parent = p}

\* Mutants: a challenge is refused on a target without a step; a challenge is
\* refused on one that has a step; a step reopens a target that is done.
SourcesHardAfterStep(goal) == CASE goal = "step"      -> {"init"}
                                [] goal = "step_hard" -> {"step"}
                                [] goal = "done"      -> Status \ {"done"}
SourcesHardFirst(goal) == IF goal = "done" THEN Status \ {"done"} ELSE {"init"}
SourcesReopen(goal) == Status \ {goal}

\* The statuses from which SetTargetStatusRecursively moves a target to goal.
Sources(goal) == CASE goal = "step"      -> {"init"}
                   [] goal = "step_hard" -> {"init", "step"}
                   [] goal = "done"      -> Status \ {"done"}

Rank(s) == CASE s = "init"      -> 0
             [] s = "step"      -> 1
             [] s = "step_hard" -> 2
             [] s = "done"      -> 3

-----------------------------------------------------------------------------
Init == /\ targets = [t \in TargetIds |-> NoRow]
        /\ nextId = 1
        /\ steps = [t \in TargetIds |-> {}]
        /\ req = [r \in Requests |-> Idle]
        /\ faults = 0
        /\ interrupted = {}
        /\ overwritten = {}
        /\ pruned = {}

Continue(r, q) == req' = [req EXCEPT ![r] = q]
Finish(r)      == Continue(r, Idle)

\* A walk about to read target t.
WalkingTo(q, t) == [q EXCEPT !.pc = "query", !.cur = t, !.seen = "init", !.edge = NoParent]

(***************************************************************************)
(* CreateTarget: the parent, when the call names one, is read for its      *)
(* owner and its layer; the row is inserted by a later statement.          *)
(***************************************************************************)
Creating(u, p) == [Idle EXCEPT !.pc = "insert", !.uid = u, !.cur = p,
                               !.layer = IF p = NoParent THEN 0 ELSE targets[p].layer + 1]

\* Mutant: the owner of the parent is not compared.
BeginCreateAnywhere(r, u, p) ==
    /\ req[r].pc = "idle"
    /\ "create" \in Ops
    /\ p # NoParent => p \in Live
    /\ Continue(r, Creating(u, p))
    /\ UNCHANGED <<table, history>>

BeginCreate(r, u, p) ==
    /\ req[r].pc = "idle"
    /\ "create" \in Ops
    /\ p # NoParent => p \in Live /\ targets[p].owner = u
    /\ Continue(r, Creating(u, p))
    /\ UNCHANGED <<table, history>>

\* Mutant: the table has no foreign key on parent_id.
CanInsertNoKey(q) == nextId <= MaxTargets

\* The foreign key refuses a parent deleted since; a full table (the bound
\* MaxTargets) refuses the row like any other database error.
CanInsert(q) == /\ nextId <= MaxTargets
                /\ q.cur # NoParent => q.cur \in Live

\* Mutant: the status is not set.
NewRowNoStatus(q) == [owner |-> q.uid, parent |-> q.cur, layer |-> q.layer, status |-> ""]

NewRow(q) == [owner |-> q.uid, parent |-> q.cur, layer |-> q.layer, status |-> "init"]

Insert(r) ==
    /\ req[r].pc = "insert"
    /\ IF CanInsert(req[r])
       THEN /\ targets' = [targets EXCEPT ![nextId] = NewRow(req[r])]
            /\ nextId' = nextId + 1
       ELSE UNCHANGED <<targets, nextId>>
    /\ Finish(r)
    /\ UNCHANGED <<steps, history>>

(***************************************************************************)
(* DeleteTarget, DoneTarget and Upload start alike: the target is read and *)
(* its owner compared with the caller.  A call that fails here changes     *)
(* nothing and is not a step of the model.                                 *)
(***************************************************************************)
FirstStatement(op) == CASE op = "delete"       -> "delete"
                        [] op \in StepKinds    -> "addstep"
                        [] op = "done"         -> "query"

Starting(u, t, op) == [Idle EXCEPT !.pc = FirstStatement(op), !.op = op,
                                   !.uid = u, !.cur = t]

\* Mutant: the owner is not compared.
BeginOnAnyTarget(r, u, t, op) ==
    /\ req[r].pc = "idle"
    /\ op \in Ops \ {"create"}
    /\ t \in Live
    /\ Continue(r, Starting(u, t, op))
    /\ UNCHANGED <<table, history>>

BeginOnTarget(r, u, t, op) ==
    /\ req[r].pc = "idle"
    /\ op \in Ops \ {"create"}
    /\ t \in Live
    /\ targets[t].owner = u
    /\ Continue(r, Starting(u, t, op))
    /\ UNCHANGED <<table, history>>

\* One DELETE: the foreign keys of the table set parent_id of the children
\* and ref_target_id of the steps to NULL.  Deleting a deleted row fails.
Without(t) == [c \in TargetIds |->
                 IF c = t THEN NoRow
                 ELSE IF targets[c].parent = t THEN [targets[c] EXCEPT !.parent = NoParent]
                 ELSE targets[c]]

Delete(r) ==
    LET t == req[r].cur IN
    /\ req[r].pc = "delete"
    /\ IF t \in Live
       THEN /\ targets' = Without(t)
            /\ steps' = [steps EXCEPT ![t] = {}]
            /\ pruned' = IF targets[t].status # "done" /\ targets[t].parent # NoParent
                         THEN pruned \union {targets[t].parent} ELSE pruned
       ELSE UNCHANGED <<targets, steps, pruned>>
    /\ Finish(r)
    /\ UNCHANGED <<nextId, faults, interrupted, overwritten>>

(***************************************************************************)
(* Upload inserts the step between its owner check and the status walk.    *)
(* The insert fails when the target is gone (foreign key) and may fail     *)
(* because the object name is taken (unique index): the call ends there.   *)
(***************************************************************************)
AddStep(r) ==
    LET t == req[r].cur IN
    /\ req[r].pc = "addstep"
    /\ \/ /\ t \in Live
          /\ steps' = [steps EXCEPT ![t] = @ \union {req[r].op}]
          /\ Continue(r, WalkingTo(req[r], t))
       \/ /\ Finish(r)
          /\ UNCHANGED steps
    /\ UNCHANGED <<targets, nextId, history>>

(***************************************************************************)
(* SetTargetStatusRecursively(cur, op), statement by statement: the row,   *)
(* its parent edge (WithParent is a second query), the update by id, for   *)
(* done the look at the siblings, then the same on the parent.             *)
(***************************************************************************)
Query(r) ==
    LET t == req[r].cur IN
    /\ req[r].pc = "query"
    /\ IF t \in Live
       THEN Continue(r, [req[r] EXCEPT !.pc = "load", !.seen = targets[t].status,
                                       !.edge = targets[t].parent])
       ELSE Finish(r)
    /\ UNCHANGED <<table, history>>

\* The guard looks at the status read by Query, not at the row of now.
Advances(q) == q.seen \in Sources(q.op)

\* About to update, with the parent if it is still there.
Decided(q) == [q EXCEPT !.pc = "update", !.edge = IF q.edge \in Live THEN q.edge ELSE NoParent]

\* Mutant: done looks at the siblings before its own update, not after.
LoadParentSiblingsFirst(r) ==
    LET q == req[r]
        open == q.op = "done" /\ \E c \in Children(q.edge) \ {q.cur} : targets[c].status # "done"
    IN
    /\ q.pc = "load"
    /\ IF Advances(q)
       THEN Continue(r, [q EXCEPT !.pc = "update",
                                  !.edge = IF q.edge \in Live /\ ~open THEN q.edge ELSE NoParent])
       ELSE Finish(r)
    /\ UNCHANGED <<table, history>>

LoadParent(r) ==
    /\ req[r].pc = "load"
    /\ IF Advances(req[r])
       THEN Continue(r, Decided(req[r]))
       ELSE Finish(r)
    /\ UNCHANGED <<table, history>>

Update(r) ==
    LET q == req[r]
        t == q.cur
    IN
    /\ q.pc = "update"
    /\ IF t \in Live
       THEN /\ targets' = [targets EXCEPT ![t].status = q.op]
            /\ overwritten' = IF Rank(q.op) < Rank(targets[t].status)
                              THEN overwritten \union {t} ELSE overwritten
            /\ IF q.edge = NoParent THEN Finish(r)
               ELSE IF q.op = "done" THEN Continue(r, [q EXCEPT !.pc = "siblings"])
               ELSE Continue(r, WalkingTo(q, q.edge))
       ELSE /\ Finish(r)
            /\ UNCHANGED <<targets, overwritten>>
    /\ UNCHANGED <<nextId, steps, faults, interrupted, pruned>>

ExistNonDoneChild(p) == \E c \in Children(p) : targets[c].status # "done"

\* Mutant: an unfinished sibling is waited for.
CheckSiblingsWait(r) ==
    /\ req[r].pc = "siblings"
    /\ IF ExistNonDoneChild(req[r].edge) THEN UNCHANGED req ELSE Continue(r, WalkingTo(req[r], req[r].edge))
    /\ UNCHANGED <<table, history>>

CheckSiblings(r) ==
    /\ req[r].pc = "siblings"
    /\ IF ExistNonDoneChild(req[r].edge) THEN Finish(r) ELSE Continue(r, WalkingTo(req[r], req[r].edge))
    /\ UNCHANGED <<table, history>>

(***************************************************************************)
(* A database error, the ten-second timeout of the server (the context of  *)
(* the next statement is cancelled) or a crash ends a handler between two  *)
(* statements.  Nothing resumes it.                                        *)
(***************************************************************************)
Heading(q) == CASE q.pc \in {"query", "load", "update"} -> {q.cur}
                [] q.pc = "siblings"                    -> {q.edge}
                [] OTHER                                -> {}

Abort(r) ==
    /\ req[r].pc # "idle"
    /\ faults < MaxFaults
    /\ faults' = faults + 1
    /\ interrupted' = interrupted \union Heading(req[r])
    /\ Finish(r)
    /\ UNCHANGED <<table, overwritten, pruned>>

-----------------------------------------------------------------------------
Walk(r)   == Query(r) \/ LoadParent(r) \/ Update(r) \/ CheckSiblings(r)
Handle(r) == Insert(r) \/ Delete(r) \/ AddStep(r) \/ Walk(r)

Begin(r) == \E u \in Users :
               \/ \E p \in 0 .. MaxTargets : BeginCreate(r, u, p)
               \/ \E t \in TargetIds, op \in AllOps : BeginOnTarget(r, u, t, op)

Next == \E r \in Requests : Begin(r) \/ Handle(r) \/ Abort(r)

Spec == Init /\ [][Next]_vars

\* The server runs every handler it has accepted to its end.
FairSpec == Spec /\ \A r \in Requests : WF_vars(Handle(r))

-----------------------------------------------------------------------------
TypeOK == /\ targets \in [TargetIds -> TargetRow]
          /\ nextId \in 1 .. MaxTargets + 1
          /\ steps \in [TargetIds -> SUBSET StepKinds]
          /\ req \in [Requests -> Request]
          /\ faults \in 0 .. MaxFaults
          /\ interrupted \subseteq TargetIds
          /\ overwritten \subseteq TargetIds
          /\ pruned \subseteq TargetIds

(***************************************************************************)
(* The table stays a forest that belongs to one user per tree: a parent is *)
(* a live row, older than its child, of the same owner and one layer up.   *)
(* CreateTarget checks all this on a row it read before the insert, while  *)
(* other requests delete targets; getChildrenTargets and                   *)
(* GetTopTargetByTargetID recurse on it without any check of their own.    *)
(***************************************************************************)
ForestOK ==
    \A t \in Live :
        LET p == targets[t].parent IN
        p # NoParent => /\ p \in Live
                        /\ p < t
                        /\ targets[p].owner = targets[t].owner
                        /\ targets[t].layer = targets[p].layer + 1

\* Request r is on its way to set target t to goal g, and has not given up.
HeadedTo(t, g) == \E r \in Requests : req[r].op = g /\ t \in Heading(req[r])

(***************************************************************************)
(* A step that Upload recorded shows in the status of its target: the      *)
(* status has reached the step's kind, or a request is on its way to set   *)
(* it, or one was cut short there, or a slower request has set the status  *)
(* back; and even then not to init.                                        *)
(***************************************************************************)
StepMovesTarget ==
    \A t \in Live, k \in StepKinds :
        k \in steps[t] =>
            \/ Rank(targets[t].status) >= Rank(k)
            \/ HeadedTo(t, k)
            \/ t \in interrupted
            \/ t \in overwritten /\ targets[t].status # "init"

(***************************************************************************)
(* The recursion of SetTargetStatusRecursively for step and step_hard does *)
(* its work under interleaving: a parent is at least as far as a child     *)
(* that is being worked on, unless a request is on its way to move it, one *)
(* was cut short there, or a slower request has set it back.               *)
(***************************************************************************)
ProgressReachesParent ==
    \A c \in Live :
        LET p == targets[c].parent
            s == targets[c].status
        IN  p # NoParent /\ s \in StepKinds =>
               \/ Rank(targets[p].status) >= Rank(s)
               \/ \E g \in StepKinds : Rank(g) >= Rank(s) /\ HeadedTo(p, g)
               \/ p \in interrupted
               \/ p \in overwritten /\ targets[p].status # "init"

(***************************************************************************)
(* When every child of a target is done the target becomes done, whatever  *)
(* the order in which concurrent requests finish the children and look at  *)
(* their siblings: otherwise a request is on its way there, or one was cut *)
(* short, or a slower one set the target back, or the last unfinished      *)
(* child was deleted, which DeleteTarget does not propagate.               *)
(***************************************************************************)
DoneReachesParent ==
    \A p \in Live :
        Children(p) # {} /\ ~ExistNonDoneChild(p) =>
            \/ targets[p].status = "done"
            \/ HeadedTo(p, "done")
            \/ p \in interrupted \union overwritten \union pruned

(***************************************************************************)
(* A status moves backwards only through the update of a request that      *)
(* decided on a status somebody has changed since (the walk's update names *)
(* the id alone, not the status it saw).                                   *)
(***************************************************************************)
RegressOnlyStale ==
    [][\A t \in Live :
          Rank(targets'[t].status) < Rank(targets[t].status) /\ targets'[t].owner # NoUser =>
             \E r \in Requests : /\ req[r].pc = "update"
                                 /\ req[r].cur = t
                                 /\ Rank(req[r].seen) < Rank(targets[t].status)]_vars

(***************************************************************************)
(* Every change of a row, the climb of a status to an ancestor and the     *)
(* NULL that a deletion leaves in the children included, is the work of a  *)
(* request of the row's owner, although only the first target of a request *)
(* is compared with the caller.                                            *)
(***************************************************************************)
OnlyOwnersChange ==
    [][\A t \in Live :
          targets'[t] # targets[t] =>
             \E r \in Requests : req'[r] # req[r] /\ req[r].uid = targets[t].owner]_vars

\* Every handler ends: the walk up the parents cannot go on for ever.
HandlersEnd == \A r \in Requests : req[r].pc # "idle" ~> req[r].pc = "idle"

(***************************************************************************)
(* The calls change the table as if each checked and wrote in one step:    *)
(* what CreateTarget has read of the parent (its owner, its layer) some    *)
(* statements before its insert is as good as read at that moment.         *)
(***************************************************************************)
Forest         == INSTANCE TargetForest
ActsLikeForest == Forest!Spec
=============================================================================
