--------------------------- MODULE TargetsProofs ---------------------------
(***************************************************************************)
(* Theorems about Targets and TargetViews, for all users, requests and     *)
(* bounds: the forest of targets, the status walk on it, the refinement of *)
(* TargetForest, and at the end the read calls, whose climbs and descents  *)
(* are followed from child to older parent.                                *)
(***************************************************************************)
EXTENDS TargetViews, Climbs

(***************************************************************************)
(* The inductive invariant, in three layers.                               *)
(***************************************************************************)

\* What a request in progress carries, whatever the table holds.
Proper == {q \in Request :
             /\ q.pc # "idle" => q.uid \in Users
             /\ q.pc = "addstep" => q.op \in StepKinds
             /\ q.pc \in {"query", "load", "update", "siblings"} => q.op \in Goals
             /\ q.pc \in {"delete", "addstep", "query", "load", "update"} => q.cur \in TargetIds
             /\ q.pc = "siblings" => q.op = "done" /\ q.edge \in TargetIds}

TypeInv == TypeOK /\ req \in [Requests -> Proper]

\* What a request remembers of the table is still true of the rows that are
\* still there; ids are not used twice, so a deleted row never comes back.
RefOK(q) ==
    /\ q.cur < nextId
    /\ q.edge < nextId
    /\ q.pc = "insert" /\ q.cur \in Live =>
          q.uid = targets[q.cur].owner /\ q.layer = targets[q.cur].layer + 1
    /\ q.pc = "insert" /\ q.cur = NoParent => q.layer = 0
    /\ q.pc \notin {"idle", "insert"} /\ q.cur \in Live => q.uid = targets[q.cur].owner
    /\ q.pc \in {"load", "update", "siblings"} /\ q.edge \in Live =>
          q.uid = targets[q.edge].owner

ForestInv == /\ ForestOK
             /\ \A t \in Live : t < nextId
             /\ \A r \in Requests : RefOK(req[r])

\* What the walk of q has read is still what decides its next statement.
WalkOK(q) ==
    /\ q.pc \in {"load", "update"} /\ q.cur \in Live =>
          targets[q.cur].parent \in {NoParent, q.edge}
    /\ q.pc = "update" => q.seen \in Sources(q.op)
    /\ q.pc = "load" /\ q.cur \in Live /\ q.seen \notin Sources(q.op) =>
          \/ Rank(targets[q.cur].status) >= Rank(q.op)
          \/ q.cur \in overwritten /\ targets[q.cur].status # "init"

StatusInv == /\ StepMovesTarget
             /\ ProgressReachesParent
             /\ DoneReachesParent
             /\ \A r \in Requests : WalkOK(req[r])
             /\ \A t \in TargetIds \ Live : steps[t] = {}

LEMMA NoParentType == NoParent \in 0 .. MaxTargets
BY BoundsAssumption DEF BoundsAssumption, NoParent

LEMMA IdIsRef == TargetIds \subseteq 0 .. MaxTargets
BY BoundsAssumption DEF BoundsAssumption, TargetIds

LEMMA StatusType == "init" \in Status /\ Goals \subseteq Status
BY DEF Status

LEMMA IdleType == Idle \in Proper
BY NoParentType, StatusType
   DEF Idle, Request, PCs, AllOps, Proper

LEMMA CreatingType ==
    ASSUME TypeOK, NEW u \in Users, NEW p \in 0 .. MaxTargets
    PROVE  Creating(u, p) \in Proper
<1>1. ASSUME NEW l \in Nat
      PROVE  [Idle EXCEPT !.pc = "insert", !.uid = u, !.cur = p, !.layer = l] \in Proper
  BY IdleType DEF Proper, Request, PCs
<1>2. CASE p = NoParent
  BY <1>2, <1>1 DEF Creating
<1>3. CASE p # NoParent
  <2>1. p \in TargetIds
    BY <1>3, BoundsAssumption DEF NoParent, TargetIds, BoundsAssumption
  <2>2. targets[p].layer + 1 \in Nat
    BY <2>1 DEF TypeOK, TargetRow
  <2> QED
    BY <1>1, <1>3, <2>2 DEF Creating
<1> QED
  BY <1>2, <1>3

LEMMA StartingType ==
    ASSUME NEW u \in Users, NEW t \in TargetIds, NEW op \in AllOps \ {"create"}
    PROVE  Starting(u, t, op) \in Proper
<1>1. CASE op = "delete"
  BY <1>1, IdleType, IdIsRef DEF Starting, FirstStatement, Proper, Request, PCs, AllOps
<1>2. CASE op \in StepKinds
  BY <1>2, IdleType, IdIsRef
     DEF Starting, FirstStatement, Proper, Request, PCs, AllOps, StepKinds, Goals
<1>3. CASE op = "done"
  BY <1>3, IdleType, IdIsRef
     DEF Starting, FirstStatement, Proper, Request, PCs, AllOps, StepKinds, Goals
<1> QED
  BY <1>1, <1>2, <1>3 DEF AllOps, Goals, StepKinds

LEMMA WalkingToType ==
    ASSUME NEW q \in Proper, q.pc # "idle", q.op \in Goals, NEW t \in TargetIds
    PROVE  WalkingTo(q, t) \in Proper
BY NoParentType, StatusType, IdIsRef DEF WalkingTo, Proper, Request, PCs

LEMMA LoadingType ==
    ASSUME NEW q \in Proper, q.pc = "query", NEW s \in Status, NEW e \in 0 .. MaxTargets
    PROVE  [q EXCEPT !.pc = "load", !.seen = s, !.edge = e] \in Proper
BY DEF Proper, Request, PCs

LEMMA DecidedType ==
    ASSUME NEW q \in Proper, q.pc = "load"
    PROVE  Decided(q) \in Proper
BY NoParentType DEF Decided, Proper, Request, PCs

LEMMA SiblingsType ==
    ASSUME NEW q \in Proper, q.pc = "update", q.op = "done", q.edge # NoParent
    PROVE  [q EXCEPT !.pc = "siblings"] \in Proper /\ q.edge \in TargetIds
<1>1. q.edge \in TargetIds
  BY BoundsAssumption DEF BoundsAssumption, TargetIds, NoParent, Proper, Request
<1> QED
  BY <1>1 DEF Proper, Request, PCs

LEMMA ContinueType ==
    ASSUME req \in [Requests -> Proper], NEW r \in Requests, NEW q \in Proper, Continue(r, q)
    PROVE  req' \in [Requests -> Proper]
BY DEF Continue

LEMMA RowTypes ==
    /\ NoRow \in TargetRow
    /\ \A q \in Proper : q.pc = "insert" => NewRow(q) \in TargetRow
    /\ \A row \in TargetRow : [row EXCEPT !.parent = NoParent] \in TargetRow
    /\ \A row \in TargetRow, g \in Goals : [row EXCEPT !.status = g] \in TargetRow
BY NoParentType, StatusType DEF NoRow, NewRow, TargetRow, Request, Proper

(***************************************************************************)
(* First layer: types.                                                     *)
(***************************************************************************)
LEMMA TypeInit == Init => TypeInv
<1> SUFFICES ASSUME Init PROVE TypeInv
  OBVIOUS
<1>1. targets \in [TargetIds -> TargetRow] /\ steps \in [TargetIds -> SUBSET StepKinds]
  BY RowTypes DEF Init
<1>2. req \in [Requests -> Proper]
  BY IdleType DEF Init
<1>3. nextId \in 1 .. MaxTargets + 1 /\ faults \in 0 .. MaxFaults
  BY BoundsAssumption DEF Init, BoundsAssumption
<1> QED
  BY <1>1, <1>2, <1>3 DEF Init, TypeOK, TypeInv, Proper

\* Only the requests change.
LEMMA TypeFrame ==
    ASSUME TypeInv, NEW r \in Requests, NEW q \in Proper, Continue(r, q),
           UNCHANGED <<table, history>>
    PROVE  TypeInv'
BY ContinueType DEF TypeInv, TypeOK, table, history, Proper

LEMMA TypeNext == TypeInv /\ [Next]_vars => TypeInv'
<1> SUFFICES ASSUME TypeInv, [Next]_vars PROVE TypeInv'
  OBVIOUS
<1> USE IdleType, ContinueType
<1>t. TypeOK /\ req \in [Requests -> Proper]
  BY DEF TypeInv
<1>1. ASSUME NEW r \in Requests, NEW u \in Users, NEW p \in 0 .. MaxTargets, BeginCreate(r, u, p)
      PROVE  TypeInv'
  BY <1>1, <1>t, CreatingType, TypeFrame DEF BeginCreate
<1>2. ASSUME NEW r \in Requests, NEW u \in Users, NEW t \in TargetIds, NEW op \in AllOps,
             BeginOnTarget(r, u, t, op)
      PROVE  TypeInv'
  <2>1. Starting(u, t, op) \in Proper
    BY <1>2, StartingType DEF BeginOnTarget
  <2> QED
    BY <1>2, <2>1, TypeFrame DEF BeginOnTarget
<1>3. ASSUME NEW r \in Requests, Insert(r) PROVE TypeInv'
  <2>1. req' \in [Requests -> Proper]
    BY <1>3, <1>t DEF Insert, Finish
  <2>2. CASE CanInsert(req[r])
    <3>1. nextId + 1 \in 1 .. MaxTargets + 1
      BY <2>2, <1>t, BoundsAssumption DEF CanInsert, TypeOK, BoundsAssumption
    <3>2. NewRow(req[r]) \in TargetRow
      BY <1>3, <1>t, RowTypes DEF Insert
    <3>3. targets' \in [TargetIds -> TargetRow] /\ nextId' \in 1 .. MaxTargets + 1
      BY <1>3, <2>2, <3>1, <3>2, <1>t DEF Insert, TypeOK
    <3> QED
      BY <1>3, <1>t, <2>1, <3>3 DEF Insert, TypeInv, TypeOK, history, Proper
  <2>3. CASE ~CanInsert(req[r])
    BY <1>3, <1>t, <2>1, <2>3 DEF Insert, TypeInv, TypeOK, history, Proper
  <2> QED
    BY <2>2, <2>3
<1>4. ASSUME NEW r \in Requests, Delete(r) PROVE TypeInv'
  <2>1. req' \in [Requests -> Proper]
    BY <1>4, <1>t DEF Delete, Finish
  <2>2. Without(req[r].cur) \in [TargetIds -> TargetRow]
    BY <1>t, RowTypes DEF Without, TypeOK
  <2>3. ASSUME NEW p \in 0 .. MaxTargets, p # NoParent PROVE p \in TargetIds
    BY <2>3, BoundsAssumption DEF BoundsAssumption, NoParent, TargetIds
  <2>4. \A t \in Live : targets[t].parent # NoParent => targets[t].parent \in TargetIds
    BY <1>t, <2>3 DEF TypeOK, TargetRow, Live
  <2>5. targets' \in [TargetIds -> TargetRow] /\ steps' \in [TargetIds -> SUBSET StepKinds]
    BY <1>4, <1>t, <2>2 DEF Delete, TypeOK
  <2>6. pruned' \subseteq TargetIds
    BY <1>4, <1>t, <2>4 DEF Delete, TypeOK
  <2> QED
    BY <1>4, <1>t, <2>1, <2>5, <2>6 DEF Delete, TypeInv, TypeOK, Proper
<1>5. ASSUME NEW r \in Requests, AddStep(r) PROVE TypeInv'
  <2>1. req[r] \in Proper /\ req[r].pc = "addstep" /\ req[r].op \in StepKinds
        /\ req[r].op \in Goals /\ req[r].cur \in TargetIds
    BY <1>5, <1>t DEF AddStep, Proper, StepKinds, Goals
  <2>2. WalkingTo(req[r], req[r].cur) \in Proper
    BY <2>1, WalkingToType
  <2>3. req' \in [Requests -> Proper]
    BY <1>5, <1>t, <2>2 DEF AddStep, Finish
  <2>4. steps' \in [TargetIds -> SUBSET StepKinds]
    BY <1>5, <1>t, <2>1 DEF AddStep, TypeOK
  <2> QED
    BY <1>5, <1>t, <2>3, <2>4 DEF AddStep, TypeInv, TypeOK, history, Proper
<1>6. ASSUME NEW r \in Requests, Query(r) PROVE TypeInv'
  <2>1. CASE req[r].cur \in Live
    <3>1. targets[req[r].cur].status \in Status /\ targets[req[r].cur].parent \in 0 .. MaxTargets
      BY <2>1, <1>t DEF TypeOK, TargetRow, Live
    <3> QED
      BY <1>6, <1>t, <2>1, <3>1, LoadingType, TypeFrame DEF Query
  <2>2. CASE req[r].cur \notin Live
    BY <1>6, <2>2, TypeFrame DEF Query, Finish
  <2> QED
    BY <2>1, <2>2
<1>7. ASSUME NEW r \in Requests, LoadParent(r) PROVE TypeInv'
  BY <1>7, <1>t, DecidedType, TypeFrame DEF LoadParent, Finish
<1>8. ASSUME NEW r \in Requests, Update(r) PROVE TypeInv'
  <2>1. req[r] \in Proper /\ req[r].pc = "update" /\ req[r].op \in Goals /\ req[r].cur \in TargetIds
    BY <1>8, <1>t DEF Update, Proper
  <2>2. CASE req[r].cur \notin Live
    BY <1>8, <1>t, <2>2 DEF Update, Finish, TypeInv, TypeOK, Proper
  <2>3. CASE req[r].cur \in Live
    <3>1. req[r].edge # NoParent => req[r].edge \in TargetIds
      BY <2>1, BoundsAssumption DEF BoundsAssumption, NoParent, TargetIds, Proper, Request
    <3>2. req[r].edge # NoParent => WalkingTo(req[r], req[r].edge) \in Proper
      BY <2>1, <3>1, WalkingToType
    <3>3. req' \in [Requests -> Proper]
      BY <1>8, <1>t, <2>1, <2>3, <3>2, SiblingsType DEF Update, Finish
    <3>4. targets' \in [TargetIds -> TargetRow]
      BY <1>8, <1>t, <2>1, <2>3, RowTypes DEF Update, TypeOK
    <3>5. overwritten' \subseteq TargetIds
      BY <1>8, <1>t, <2>1, <2>3 DEF Update, TypeOK
    <3> QED
      BY <1>8, <1>t, <3>3, <3>4, <3>5 DEF Update, TypeInv, TypeOK, Proper
  <2> QED
    BY <2>2, <2>3
<1>9. ASSUME NEW r \in Requests, CheckSiblings(r) PROVE TypeInv'
  <2>1. req[r] \in Proper /\ req[r].pc = "siblings" /\ req[r].op \in Goals /\ req[r].edge \in TargetIds
    BY <1>9, <1>t DEF CheckSiblings, Proper
  <2>2. WalkingTo(req[r], req[r].edge) \in Proper
    BY <2>1, WalkingToType
  <2> QED
    BY <1>9, <2>2, TypeFrame DEF CheckSiblings, Finish
<1>10. ASSUME NEW r \in Requests, Abort(r) PROVE TypeInv'
  <2>1. Heading(req[r]) \subseteq TargetIds
    BY <1>t DEF Heading, Proper
  <2>2. faults + 1 \in 0 .. MaxFaults
    BY <1>10, <1>t, BoundsAssumption DEF Abort, TypeOK, BoundsAssumption
  <2> QED
    BY <1>10, <1>t, <2>1, <2>2 DEF Abort, Finish, TypeInv, TypeOK, table, Proper
<1>11. CASE UNCHANGED vars
  BY <1>11, <1>t DEF vars, TypeInv, TypeOK, Proper
<1> QED
  BY <1>1, <1>2, <1>3, <1>4, <1>5, <1>6, <1>7, <1>8, <1>9, <1>10, <1>11
     DEF Next, Begin, Handle, Walk

(***************************************************************************)
(* Every variable keeps its type, for any number of users, requests and    *)
(* targets: the statements of the handlers write nothing else.             *)
(***************************************************************************)
THEOREM TypeCorrect == Spec => []TypeOK
<1>1. TypeInv => TypeOK
  BY DEF TypeInv
<1> QED
  BY <1>1, TypeInit, TypeNext, PTL DEF Spec

(***************************************************************************)
(* Second layer: the forest, and what requests remember of it.             *)
(***************************************************************************)
LEMMA ForestInit == Init => ForestInv
<1> SUFFICES ASSUME Init PROVE ForestInv
  OBVIOUS
<1>1. Live = {}
  BY DEF Init, Live, NoRow
<1>2. \A r \in Requests : RefOK(req[r])
  BY <1>1 DEF Init, RefOK, Idle, NoParent
<1> QED
  BY <1>1, <1>2 DEF ForestInv, ForestOK

\* Only the requests change.
LEMMA ForestFrame ==
    ASSUME TypeInv, ForestInv, NEW r \in Requests, NEW q \in Proper, RefOK(q),
           Continue(r, q), UNCHANGED <<targets, nextId>>
    PROVE  ForestInv'
<1>1. \A x \in Requests : RefOK(req'[x])
  BY DEF TypeInv, ForestInv, Continue
<1>2. (\A x \in Requests : RefOK(req[x]))'
  BY <1>1 DEF RefOK, Live
<1>3. ForestOK'
  BY DEF ForestInv, ForestOK, Live
<1> QED
  BY <1>2, <1>3 DEF ForestInv, Live

\* The effect of the three writes on the table.
LEMMA InsertEffect ==
    ASSUME TypeInv, ForestInv, NEW r \in Requests, Insert(r), CanInsert(req[r])
    PROVE  /\ nextId \in TargetIds \ Live
           /\ nextId' = nextId + 1
           /\ Live' = Live \union {nextId}
           /\ targets'[nextId] = NewRow(req[r])
           /\ \A t \in TargetIds \ {nextId} : targets'[t] = targets[t]
<1>1. nextId \in TargetIds
  BY BoundsAssumption DEF BoundsAssumption, Insert, CanInsert, TypeInv, TypeOK, TargetIds
<1>2. nextId \notin Live
  BY <1>1 DEF ForestInv, TargetIds
<1>3. targets' = [targets EXCEPT ![nextId] = NewRow(req[r])] /\ nextId' = nextId + 1
  BY DEF Insert
<1>4. /\ targets'[nextId] = NewRow(req[r])
      /\ \A t \in TargetIds \ {nextId} : targets'[t] = targets[t]
  BY <1>1, <1>3 DEF TypeInv, TypeOK
<1>5. NewRow(req[r]).owner # NoUser
  BY UsersAssumption DEF UsersAssumption, NewRow, Insert, TypeInv, Proper
<1>6. Live' = Live \union {nextId}
  BY <1>1, <1>4, <1>5 DEF Live
<1> QED
  BY <1>1, <1>2, <1>3, <1>4, <1>6

LEMMA DeleteEffect ==
    ASSUME TypeInv, ForestInv, NEW r \in Requests, Delete(r), req[r].cur \in Live
    PROVE  /\ Live' = Live \ {req[r].cur}
           /\ nextId' = nextId
           /\ \A t \in Live' : /\ targets'[t].owner = targets[t].owner
                               /\ targets'[t].layer = targets[t].layer
                               /\ targets'[t].status = targets[t].status
                               /\ targets'[t].parent = IF targets[t].parent = req[r].cur
                                                       THEN NoParent ELSE targets[t].parent
<1>1. targets' = Without(req[r].cur) /\ nextId' = nextId
  BY DEF Delete
<1>2. targets'[req[r].cur].owner = NoUser
  BY <1>1 DEF Without, Live, NoRow
<1>3. \A t \in TargetIds \ {req[r].cur} :
         /\ targets'[t].owner = targets[t].owner
         /\ targets'[t].layer = targets[t].layer
         /\ targets'[t].status = targets[t].status
         /\ targets'[t].parent = IF targets[t].parent = req[r].cur
                                 THEN NoParent ELSE targets[t].parent
  BY <1>1 DEF Without, TypeInv, TypeOK, TargetRow
<1>4. Live' = Live \ {req[r].cur}
  BY <1>2, <1>3 DEF Live
<1> QED
  BY <1>1, <1>3, <1>4 DEF Live

LEMMA UpdateEffect ==
    ASSUME TypeInv, NEW r \in Requests, Update(r), req[r].cur \in Live
    PROVE  /\ Live' = Live
           /\ nextId' = nextId
           /\ targets'[req[r].cur].status = req[r].op
           /\ \A t \in TargetIds : /\ targets'[t].owner = targets[t].owner
                                   /\ targets'[t].layer = targets[t].layer
                                   /\ targets'[t].parent = targets[t].parent
                                   /\ t # req[r].cur => targets'[t] = targets[t]
<1>1. /\ targets' = [targets EXCEPT ![req[r].cur].status = req[r].op]
      /\ nextId' = nextId /\ req[r].cur \in TargetIds
  BY DEF Update, Live
<1>2. /\ targets'[req[r].cur].status = req[r].op
      /\ \A t \in TargetIds : /\ targets'[t].owner = targets[t].owner
                              /\ targets'[t].layer = targets[t].layer
                              /\ targets'[t].parent = targets[t].parent
                              /\ t # req[r].cur => targets'[t] = targets[t]
  BY <1>1 DEF TypeInv, TypeOK, TargetRow
<1>3. Live' = Live
  BY <1>2 DEF Live
<1> QED
  BY <1>1, <1>2, <1>3

LEMMA IdleRef == TypeInv => RefOK(Idle) /\ (TypeInv' => RefOK(Idle)')
BY BoundsAssumption DEF BoundsAssumption, TypeInv, TypeOK, RefOK, Idle, NoParent, Live, TargetIds

LEMMA ForestNext == TypeInv /\ TypeInv' /\ ForestInv /\ [Next]_vars => ForestInv'
<1> SUFFICES ASSUME TypeInv, TypeInv', ForestInv, [Next]_vars PROVE ForestInv'
  OBVIOUS
<1>f. /\ \A x \in Requests : req[x] \in Proper /\ RefOK(req[x])
      /\ \A t \in Live : t < nextId
      /\ nextId \in Nat
      /\ RefOK(Idle)
  BY IdleRef, BoundsAssumption DEF BoundsAssumption, TypeInv, TypeOK, ForestInv
<1>1. ASSUME NEW r \in Requests, NEW u \in Users, NEW p \in 0 .. MaxTargets, BeginCreate(r, u, p)
      PROVE  ForestInv'
  <2>1. Creating(u, p) \in Proper
    BY CreatingType DEF TypeInv
  <2>2. /\ Creating(u, p).pc = "insert" /\ Creating(u, p).cur = p /\ Creating(u, p).edge = 0
        /\ Creating(u, p).uid = u
        /\ Creating(u, p).layer = IF p = NoParent THEN 0 ELSE targets[p].layer + 1
    BY DEF Creating, Idle, NoParent
  <2>3. p \in Live => p # NoParent
    BY BoundsAssumption DEF BoundsAssumption, Live, TargetIds, NoParent
  <2>4. p < nextId /\ 0 < nextId
    BY <1>1, <1>f DEF BeginCreate, TypeInv, TypeOK, NoParent
  <2>5. RefOK(Creating(u, p))
    BY <1>1, <2>2, <2>3, <2>4 DEF RefOK, BeginCreate
  <2> QED
    BY <1>1, <2>1, <2>5, ForestFrame DEF BeginCreate, table
<1>2. ASSUME NEW r \in Requests, NEW u \in Users, NEW t \in TargetIds, NEW op \in AllOps,
             BeginOnTarget(r, u, t, op)
      PROVE  ForestInv'
  <2>1. Starting(u, t, op) \in Proper
    BY <1>2, StartingType DEF BeginOnTarget
  <2>2. /\ Starting(u, t, op).pc \in {"delete", "addstep", "query"}
        /\ Starting(u, t, op).cur = t /\ Starting(u, t, op).edge = 0 /\ Starting(u, t, op).uid = u
    BY <1>2 DEF Starting, FirstStatement, BeginOnTarget, AllOps, Goals, StepKinds, Idle, NoParent
  <2>3. t < nextId /\ 0 < nextId
    BY <1>2, <1>f DEF BeginOnTarget, TypeInv, TypeOK
  <2>4. RefOK(Starting(u, t, op))
    BY <1>2, <2>2, <2>3 DEF RefOK, BeginOnTarget
  <2> QED
    BY <1>2, <2>1, <2>4, ForestFrame DEF BeginOnTarget, table
<1>3. ASSUME NEW r \in Requests, Insert(r) PROVE ForestInv'
  <2>1. CASE ~CanInsert(req[r])
    BY <1>3, <1>f, <2>1, IdleType, ForestFrame DEF Insert, Finish
  <2>2. CASE CanInsert(req[r])
    <3> DEFINE n == nextId
    <3>1. /\ n \in TargetIds \ Live /\ nextId' = n + 1 /\ Live' = Live \union {n}
          /\ targets'[n] = NewRow(req[r])
          /\ \A t \in TargetIds \ {n} : targets'[t] = targets[t]
      BY <1>3, <2>2, InsertEffect
    <3>2. \A t \in Live' : t < nextId'
      BY <3>1, <1>f DEF TargetIds, Live
    <3>3. /\ req[r].cur # NoParent =>
                /\ req[r].cur \in Live /\ req[r].cur # n /\ req[r].cur < n
                /\ targets'[req[r].cur] = targets[req[r].cur]
                /\ req[r].uid = targets[req[r].cur].owner
                /\ req[r].layer = targets[req[r].cur].layer + 1
      BY <1>3, <2>2, <3>1, <1>f DEF CanInsert, Insert, RefOK, Live
    <3>4. ForestOK'
      <4> SUFFICES ASSUME NEW t \in Live', targets'[t].parent # NoParent
                   PROVE  LET p == targets'[t].parent IN
                          /\ p \in Live' /\ p < t
                          /\ targets'[p].owner = targets'[t].owner
                          /\ targets'[t].layer = targets'[p].layer + 1
        BY DEF ForestOK
      <4>1. CASE t = n
        BY <4>1, <3>1, <3>3 DEF NewRow
      <4>2. CASE t # n
        <5>1. t \in Live /\ targets'[t] = targets[t] /\ targets[t].parent \in Live
          BY <4>2, <3>1 DEF Live, ForestInv, ForestOK
        <5>2. targets[t].parent # n /\ targets'[targets[t].parent] = targets[targets[t].parent]
          BY <5>1, <3>1 DEF Live
        <5> QED
          BY <5>1, <5>2, <3>1 DEF ForestInv, ForestOK
      <4> QED
        BY <4>1, <4>2
    <3>5. ASSUME NEW x \in Requests PROVE RefOK(req[x])'
      <4>1. CASE x = r
        <5>1. req'[x] = Idle
          BY <1>3, <4>1 DEF Insert, Finish, Continue, TypeInv
        <5> QED
          BY <5>1, IdleRef DEF RefOK, Idle
      <4>2. CASE x # r
        <5>1. req'[x] = req[x]
          BY <1>3, <4>2 DEF Insert, Finish, Continue, TypeInv
        <5>2. /\ req[x].cur \in Nat /\ req[x].edge \in Nat
              /\ req[x].cur < n /\ req[x].edge < n
          BY <1>f, BoundsAssumption DEF BoundsAssumption, RefOK, Proper, Request
        <5>3. /\ req[x].cur < nextId' /\ req[x].edge < nextId'
              /\ req[x].cur # n /\ req[x].edge # n
          BY <5>2, <3>1, <1>f
        <5>4. /\ req[x].cur \in Live' => req[x].cur \in Live /\ targets'[req[x].cur] = targets[req[x].cur]
              /\ req[x].edge \in Live' => req[x].edge \in Live /\ targets'[req[x].edge] = targets[req[x].edge]
          BY <5>3, <3>1 DEF Live
        <5> QED
          BY <5>1, <5>3, <5>4, <1>f DEF RefOK
      <4> QED
        BY <4>1, <4>2
    <3> QED
      BY <3>2, <3>4, <3>5 DEF ForestInv
  <2> QED
    BY <2>1, <2>2
<1>4. ASSUME NEW r \in Requests, Delete(r) PROVE ForestInv'
  <2>1. CASE req[r].cur \notin Live
    BY <1>4, <1>f, <2>1, IdleType, ForestFrame DEF Delete, Finish
  <2>2. CASE req[r].cur \in Live
    <3> DEFINE d == req[r].cur
    <3>1. /\ Live' = Live \ {d} /\ nextId' = nextId
          /\ \A t \in Live' : /\ targets'[t].owner = targets[t].owner
                              /\ targets'[t].layer = targets[t].layer
                              /\ targets'[t].parent = IF targets[t].parent = d
                                                      THEN NoParent ELSE targets[t].parent
      BY <1>4, <2>2, DeleteEffect
    <3>2. ForestOK'
      BY <3>1 DEF ForestInv, ForestOK
    <3>3. ASSUME NEW x \in Requests PROVE RefOK(req[x])'
      <4>1. req'[x] = Idle \/ req'[x] = req[x]
        BY <1>4 DEF Delete, Finish, Continue, TypeInv
      <4>2. CASE req'[x] = Idle
        BY <4>2, IdleRef DEF RefOK, Idle
      <4>3. CASE req'[x] = req[x]
        BY <4>3, <3>1, <1>f DEF RefOK
      <4> QED
        BY <4>1, <4>2, <4>3
    <3> QED
      BY <3>1, <3>2, <3>3, <1>f DEF ForestInv
  <2> QED
    BY <2>1, <2>2
<1>5. ASSUME NEW r \in Requests, AddStep(r) PROVE ForestInv'
  <2>1. /\ req[r].pc = "addstep" /\ req[r].op \in Goals /\ req[r].cur \in TargetIds
    BY <1>5, <1>f DEF AddStep, Proper, StepKinds, Goals
  <2>2. WalkingTo(req[r], req[r].cur) \in Proper
    BY <2>1, <1>f, WalkingToType
  <2>3. RefOK(WalkingTo(req[r], req[r].cur))
    BY <2>1, <1>f DEF WalkingTo, RefOK, Proper, Request, Idle, NoParent
  <2> QED
    BY <1>5, <2>2, <2>3, <1>f, IdleType, ForestFrame DEF AddStep, Finish
<1>6. ASSUME NEW r \in Requests, Query(r) PROVE ForestInv'
  <2>1. CASE req[r].cur \notin Live
    BY <1>6, <2>1, <1>f, IdleType, ForestFrame DEF Query, Finish, table
  <2>2. CASE req[r].cur \in Live
    <3> DEFINE t == req[r].cur
               q == [req[r] EXCEPT !.pc = "load", !.seen = targets[t].status,
                                   !.edge = targets[t].parent]
    <3>1. targets[t].status \in Status /\ targets[t].parent \in 0 .. MaxTargets
      BY <2>2 DEF TypeInv, TypeOK, TargetRow, Live
    <3>2. q \in Proper
      BY <1>6, <1>f, <3>1, LoadingType DEF Query
    <3>3. targets[t].parent < nextId
      <4>1. CASE targets[t].parent = NoParent
        BY <4>1 DEF NoParent, TypeInv, TypeOK
      <4>2. CASE targets[t].parent # NoParent
        BY <4>2, <2>2, <1>f DEF ForestInv, ForestOK
      <4> QED
        BY <4>1, <4>2
    <3>4. q.pc = "load" /\ q.cur = t /\ q.uid = req[r].uid /\ q.edge = targets[t].parent
      BY <1>f DEF Proper, Request
    <3>5. targets[t].parent \in Live => targets[targets[t].parent].owner = targets[t].owner
      BY <2>2, BoundsAssumption
         DEF BoundsAssumption, ForestInv, ForestOK, Live, TargetIds, NoParent
    <3>6. t < nextId /\ req[r].uid = targets[t].owner
      BY <1>6, <2>2, <1>f DEF RefOK, Query
    <3>7. RefOK(q)
      BY <2>2, <3>3, <3>4, <3>5, <3>6 DEF RefOK
    <3> QED
      BY <1>6, <2>2, <3>2, <3>7, ForestFrame DEF Query, table
  <2> QED
    BY <2>1, <2>2
<1>7. ASSUME NEW r \in Requests, LoadParent(r) PROVE ForestInv'
  <2>1. req[r].pc = "load"
    BY <1>7 DEF LoadParent
  <2>2. /\ Decided(req[r]) \in Proper
        /\ Decided(req[r]).pc = "update" /\ Decided(req[r]).cur = req[r].cur
        /\ Decided(req[r]).uid = req[r].uid
        /\ Decided(req[r]).edge \in {NoParent, req[r].edge}
    <3>1. Decided(req[r]) \in Proper
      BY <2>1, <1>f, DecidedType
    <3> QED
      BY <3>1, <1>f DEF Decided, Proper, Request
  <2>3. NoParent < nextId /\ NoParent \notin Live
    BY BoundsAssumption DEF BoundsAssumption, NoParent, TypeInv, TypeOK, Live, TargetIds
  <2>4. RefOK(Decided(req[r]))
    BY <2>1, <2>2, <2>3, <1>f DEF RefOK
  <2> QED
    BY <1>7, <2>2, <2>4, <1>f, IdleType, ForestFrame DEF LoadParent, Finish, table
<1>8. ASSUME NEW r \in Requests, Update(r) PROVE ForestInv'
  <2>1. CASE req[r].cur \notin Live
    BY <1>8, <1>f, <2>1, IdleType, ForestFrame DEF Update, Finish
  <2>2. CASE req[r].cur \in Live
    <3>1. /\ Live' = Live /\ nextId' = nextId
          /\ \A t \in TargetIds : /\ targets'[t].owner = targets[t].owner
                                  /\ targets'[t].layer = targets[t].layer
                                  /\ targets'[t].parent = targets[t].parent
      BY <1>8, <2>2, UpdateEffect
    <3>2. ForestOK'
      BY <3>1 DEF ForestInv, ForestOK, Live
    <3>3. ASSUME NEW x \in Requests PROVE RefOK(req'[x])
      <4>1. CASE x # r
        BY <1>8, <2>2, <4>1, <1>f DEF Update, Finish, Continue, TypeInv
      <4>2. CASE x = r
        <5>1. \/ req'[x] = Idle
              \/ req'[x] = [req[r] EXCEPT !.pc = "siblings"]
              \/ req'[x] = WalkingTo(req[r], req[r].edge) /\ req[r].edge # NoParent
          BY <1>8, <2>2, <4>2 DEF Update, Finish, Continue, TypeInv
        <5>2. req[r].pc = "update"
          BY <1>8 DEF Update
        <5>3. RefOK([req[r] EXCEPT !.pc = "siblings"])
          BY <5>2, <1>f DEF RefOK, Proper, Request
        <5>4. RefOK(WalkingTo(req[r], req[r].edge))
          BY <5>2, <1>f DEF RefOK, WalkingTo, Proper, Request, Idle, NoParent
        <5> QED
          BY <5>1, <5>3, <5>4, <1>f
      <4> QED
        BY <4>1, <4>2
    <3>4. (\A x \in Requests : RefOK(req[x]))'
      BY <3>1, <3>3 DEF RefOK, Live
    <3> QED
      BY <3>1, <3>2, <3>4, <1>f DEF ForestInv
  <2> QED
    BY <2>1, <2>2
<1>9. ASSUME NEW r \in Requests, CheckSiblings(r) PROVE ForestInv'
  <2>1. req[r].pc = "siblings" /\ req[r].op \in Goals /\ req[r].edge \in TargetIds
    BY <1>9, <1>f DEF CheckSiblings, Proper
  <2>2. WalkingTo(req[r], req[r].edge) \in Proper
    BY <2>1, <1>f, WalkingToType
  <2>3. RefOK(WalkingTo(req[r], req[r].edge))
    BY <2>1, <1>f DEF RefOK, WalkingTo, Proper, Request, Idle, NoParent
  <2> QED
    BY <1>9, <2>2, <2>3, <1>f, IdleType, ForestFrame DEF CheckSiblings, Finish, table
<1>10. ASSUME NEW r \in Requests, Abort(r) PROVE ForestInv'
  BY <1>10, <1>f, IdleType, ForestFrame DEF Abort, Finish, table
<1>11. CASE UNCHANGED vars
  BY <1>11 DEF vars, ForestInv, ForestOK, RefOK, Live
<1> QED
  BY <1>1, <1>2, <1>3, <1>4, <1>5, <1>6, <1>7, <1>8, <1>9, <1>10, <1>11
     DEF Next, Begin, Handle, Walk

(***************************************************************************)
(* The table stays a forest, one owner per tree, although CreateTarget     *)
(* relies on a parent it read before and other requests delete targets:    *)
(* for any number of requests and targets.                                 *)
(***************************************************************************)
THEOREM ForestCorrect == Spec => []ForestOK
<1>1. ForestInv => ForestOK
  BY DEF ForestInv
<1>2. Spec => [](TypeInv /\ ForestInv)
  BY TypeInit, TypeNext, ForestInit, ForestNext, PTL DEF Spec
<1> QED
  BY <1>1, <1>2, PTL

(***************************************************************************)
(* Third layer: statuses and the walks that are under way.                 *)
(***************************************************************************)
LEMMA StatusInit == Init => StatusInv
<1> SUFFICES ASSUME Init PROVE StatusInv
  OBVIOUS
<1>1. Live = {}
  BY DEF Init, Live, NoRow
<1>2. \A r \in Requests : WalkOK(req[r])
  BY DEF Init, WalkOK, Idle
<1> QED
  BY <1>1, <1>2
     DEF Init, StatusInv, StepMovesTarget, ProgressReachesParent, DoneReachesParent

LEMMA RankType == /\ \A s \in Status : Rank(s) \in 0 .. 3
                  /\ \A s \in Status : Rank(s) = 0 <=> s = "init"
                  /\ \A s \in Status : Rank(s) >= 3 <=> s = "done"
                  /\ \A s \in Status, g \in Goals : s \in Sources(g) <=> Rank(s) < Rank(g)
<1>1. /\ Rank("init") = 0 /\ Rank("step") = 1 /\ Rank("step_hard") = 2 /\ Rank("done") = 3
  BY DEF Rank
<1>2. /\ Sources("step") = {"init"} /\ Sources("step_hard") = {"init", "step"}
      /\ Sources("done") = {"init", "step", "step_hard"}
  BY DEF Sources, Status, Goals
<1> QED
  BY <1>1, <1>2 DEF Status, Goals

\* A step of request r leaves the others on their way.
LEMMA HeadedFrame ==
    ASSUME req \in [Requests -> Proper], NEW r \in Requests, NEW q \in Proper, Continue(r, q),
           NEW t, NEW g
    PROVE  /\ HeadedTo(t, g) /\ ~(req[r].op = g /\ t \in Heading(req[r])) => HeadedTo(t, g)'
           /\ q.op = g /\ t \in Heading(q) => HeadedTo(t, g)'
<1>1. \A x \in Requests : req'[x] = IF x = r THEN q ELSE req[x]
  BY DEF Continue
<1> QED
  BY <1>1 DEF HeadedTo, Heading

\* Nothing is left to do for a request on its way to set t to g.
Settled(t, g) ==
    \/ t \notin Live
    \/ g # "done" /\ Rank(targets[t].status) >= Rank(g)
    \/ g # "done" /\ t \in overwritten /\ targets[t].status # "init"
    \/ g = "done" /\ (targets[t].status = "done" \/ t \in overwritten \/ ExistNonDoneChild(t))

\* The rows, the steps and all but `interrupted` of the history stay, and
\* request r drops a target it was heading to only when it may.
LEMMA StatusFrame ==
    ASSUME TypeInv, ForestInv, StatusInv, NEW r \in Requests, NEW q \in Proper, Continue(r, q),
           UNCHANGED <<targets, steps, overwritten, pruned>>,
           interrupted \subseteq interrupted',
           WalkOK(q),
           \A t \in Heading(req[r]) : \/ t \in Heading(q) /\ q.op = req[r].op
                                      \/ t \in interrupted'
                                      \/ Settled(t, req[r].op)
    PROVE  StatusInv'
<1>t. /\ req \in [Requests -> Proper]
      /\ \A t \in TargetIds : targets[t].status \in Status
      /\ \A s \in Status : Rank(s) \in Nat
      /\ StepKinds \subseteq Status
  BY RankType DEF TypeInv, TypeOK, TargetRow, Status, Goals, StepKinds
<1>1. Live' = Live
  BY DEF Live
<1>2. ASSUME NEW t \in Live, NEW g, HeadedTo(t, g)
      PROVE  HeadedTo(t, g)' \/ t \in interrupted' \/ Settled(t, g)
  BY <1>2, <1>t, HeadedFrame
<1>3. StepMovesTarget'
  <2> SUFFICES ASSUME NEW t \in Live, NEW k \in StepKinds, k \in steps[t]
               PROVE  \/ Rank(targets[t].status) >= Rank(k)
                      \/ HeadedTo(t, k)'
                      \/ t \in interrupted'
                      \/ t \in overwritten /\ targets[t].status # "init"
    BY <1>1 DEF StepMovesTarget
  <2>1. k # "done"
    BY DEF StepKinds
  <2> QED
    BY <1>2, <2>1 DEF StatusInv, StepMovesTarget, Settled
<1>4. ProgressReachesParent'
  <2> SUFFICES ASSUME NEW c \in Live, targets[c].parent # NoParent, targets[c].status \in StepKinds
               PROVE  LET p == targets[c].parent
                          s == targets[c].status
                      IN  \/ Rank(targets[p].status) >= Rank(s)
                          \/ \E g \in StepKinds : Rank(g) >= Rank(s) /\ HeadedTo(p, g)'
                          \/ p \in interrupted'
                          \/ p \in overwritten /\ targets[p].status # "init"
    BY <1>1 DEF ProgressReachesParent
  <2> DEFINE p == targets[c].parent
             s == targets[c].status
  <2>1. p \in Live /\ p \in TargetIds /\ c \in TargetIds
    BY DEF ForestInv, ForestOK, Live
  <2>2. CASE \E g \in StepKinds : Rank(g) >= Rank(s) /\ HeadedTo(p, g)
    <3>1. PICK g \in StepKinds : Rank(g) >= Rank(s) /\ HeadedTo(p, g)
      BY <2>2
    <3>2. g # "done"
      BY DEF StepKinds
    <3>3. HeadedTo(p, g)' \/ p \in interrupted' \/ Settled(p, g)
      BY <2>1, <3>1, <1>2
    <3>4. Settled(p, g) => \/ Rank(targets[p].status) >= Rank(s)
                           \/ p \in overwritten /\ targets[p].status # "init"
      <4>1. Rank(targets[p].status) \in Nat /\ Rank(g) \in Nat /\ Rank(s) \in Nat
        BY <1>t, <2>1
      <4> QED
        BY <2>1, <3>1, <3>2, <4>1 DEF Settled
    <3> QED
      BY <3>1, <3>3, <3>4
  <2>3. CASE ~ \E g \in StepKinds : Rank(g) >= Rank(s) /\ HeadedTo(p, g)
    BY <2>3 DEF StatusInv, ProgressReachesParent
  <2> QED
    BY <2>2, <2>3
<1>5. DoneReachesParent'
  <2>1. \A p : Children(p)' = Children(p)
    BY <1>1 DEF Children
  <2>2. \A p : ExistNonDoneChild(p)' = ExistNonDoneChild(p)
    BY <2>1 DEF ExistNonDoneChild
  <2> SUFFICES ASSUME NEW p \in Live, Children(p) # {}, ~ExistNonDoneChild(p)
               PROVE  \/ targets[p].status = "done"
                      \/ HeadedTo(p, "done")'
                      \/ p \in interrupted' \union overwritten \union pruned
    BY <1>1, <2>1, <2>2 DEF DoneReachesParent
  <2> QED
    BY <1>2 DEF StatusInv, DoneReachesParent, Settled
<1>6. (\A x \in Requests : WalkOK(req[x]))'
  <2>1. \A x \in Requests : WalkOK(req'[x])
    BY <1>t DEF StatusInv, Continue
  <2> QED
    BY <1>1, <2>1 DEF WalkOK
<1>7. (\A t \in TargetIds \ Live : steps[t] = {})'
  BY <1>1 DEF StatusInv
<1> QED
  BY <1>3, <1>4, <1>5, <1>6, <1>7 DEF StatusInv

LEMMA StatusInsert ==
    ASSUME TypeInv, ForestInv, ForestInv', StatusInv, NEW r \in Requests, Insert(r), CanInsert(req[r])
    PROVE  StatusInv'
<1> DEFINE n == nextId
<1>t. /\ req \in [Requests -> Proper] /\ Idle \in Proper /\ Continue(r, Idle)
      /\ UNCHANGED <<steps, interrupted, overwritten, pruned>>
      /\ Heading(req[r]) = {}
  BY IdleType DEF Insert, Finish, TypeInv, history, Heading
<1>1. /\ n \in TargetIds \ Live /\ Live' = Live \union {n}
      /\ targets'[n] = NewRow(req[r])
      /\ \A t \in TargetIds \ {n} : targets'[t] = targets[t]
  BY InsertEffect
<1>2. \A t \in Live : t # n /\ t \in TargetIds /\ targets'[t] = targets[t] /\ targets[t].parent # n
  BY <1>1, BoundsAssumption DEF BoundsAssumption, Live, ForestInv, ForestOK, TargetIds, NoParent
<1>3. targets'[n].parent # n /\ targets'[n].status = "init"
  BY <1>1, BoundsAssumption
     DEF BoundsAssumption, NewRow, Insert, CanInsert, TargetIds, NoParent
<1>4. \A t, g : HeadedTo(t, g) => HeadedTo(t, g)'
  BY <1>t, HeadedFrame
<1>5. StepMovesTarget'
  BY <1>1, <1>2, <1>4, <1>t DEF StatusInv, StepMovesTarget
<1>6. ProgressReachesParent'
  <2> SUFFICES ASSUME NEW c \in Live', NEW p, NEW s,
                      p = targets'[c].parent, s = targets'[c].status,
                      p # NoParent, s \in StepKinds
               PROVE  \/ Rank(targets'[p].status) >= Rank(s)
                      \/ \E g \in StepKinds : Rank(g) >= Rank(s) /\ HeadedTo(p, g)'
                      \/ p \in interrupted'
                      \/ p \in overwritten' /\ targets'[p].status # "init"
    BY DEF ProgressReachesParent, HeadedTo
  <2>1. c \in Live /\ targets'[c] = targets[c]
    BY <1>1, <1>2, <1>3 DEF StepKinds
  <2>2. targets[c].parent \in Live
    BY <2>1 DEF ForestInv, ForestOK
  <2> QED
    BY <1>2, <1>4, <1>t, <2>1, <2>2 DEF StatusInv, ProgressReachesParent
<1>7. DoneReachesParent'
  <2> SUFFICES ASSUME NEW p \in Live', Children(p)' # {}, ~ExistNonDoneChild(p)'
               PROVE  \/ targets'[p].status = "done"
                      \/ HeadedTo(p, "done")'
                      \/ p \in (interrupted \union overwritten \union pruned)'
    BY DEF DoneReachesParent
  <2>1. n \notin Children(p)'
    BY <1>1, <1>3 DEF ExistNonDoneChild, Children
  <2>2. Children(p)' = Children(p)
    BY <1>1, <1>2, <2>1 DEF Children
  <2>3. p # n
    BY <1>2, <2>2 DEF Children
  <2>4. ~ExistNonDoneChild(p)
    BY <1>2, <2>2 DEF ExistNonDoneChild, Children
  <2> QED
    BY <1>1, <1>2, <1>4, <1>t, <2>2, <2>3, <2>4 DEF StatusInv, DoneReachesParent
<1>8. ASSUME NEW x \in Requests PROVE WalkOK(req[x])'
  <2>1. CASE x = r
    BY <1>t, <2>1 DEF Continue, WalkOK, Idle
  <2>2. CASE x # r
    <3>1. req'[x] = req[x] /\ req[x].cur # n
      <4>1. req[x].cur \in Nat /\ n \in Nat /\ req[x].cur < n
        BY BoundsAssumption
           DEF BoundsAssumption, ForestInv, RefOK, TypeInv, TypeOK, Proper, Request
      <4> QED
        BY <4>1, <1>t, <2>2 DEF Continue
    <3> QED
      BY <3>1, <1>1, <1>2, <1>t DEF StatusInv, WalkOK
  <2> QED
    BY <2>1, <2>2
<1>9. (\A t \in TargetIds \ Live : steps[t] = {})'
  BY <1>1, <1>t DEF StatusInv
<1> QED
  BY <1>5, <1>6, <1>7, <1>8, <1>9 DEF StatusInv

LEMMA StatusDelete ==
    ASSUME TypeInv, ForestInv, StatusInv, NEW r \in Requests, Delete(r), req[r].cur \in Live
    PROVE  StatusInv'
<1> DEFINE d == req[r].cur
<1>t. /\ req \in [Requests -> Proper] /\ Idle \in Proper /\ Continue(r, Idle)
      /\ UNCHANGED <<interrupted, overwritten>>
      /\ Heading(req[r]) = {}
      /\ d \in TargetIds
      /\ \A t \in TargetIds : steps'[t] = IF t = d THEN {} ELSE steps[t]
      /\ pruned' = IF targets[d].status # "done" /\ targets[d].parent # NoParent
                   THEN pruned \union {targets[d].parent} ELSE pruned
  BY IdleType DEF Delete, Finish, TypeInv, TypeOK, Heading, Live
<1>1. /\ Live' = Live \ {d}
      /\ \A t \in Live' : /\ targets'[t].status = targets[t].status
                          /\ targets'[t].parent = IF targets[t].parent = d
                                                  THEN NoParent ELSE targets[t].parent
  BY DeleteEffect
<1>2. \A t \in Live : t \in TargetIds /\ t # NoParent
  BY BoundsAssumption DEF BoundsAssumption, Live, TargetIds, NoParent
<1>4. \A t, g : HeadedTo(t, g) => HeadedTo(t, g)'
  BY <1>t, HeadedFrame
<1>5. StepMovesTarget'
  BY <1>1, <1>2, <1>4, <1>t DEF StatusInv, StepMovesTarget
<1>6. ProgressReachesParent'
  <2> SUFFICES ASSUME NEW c \in Live', NEW p, NEW s,
                      p = targets'[c].parent, s = targets'[c].status,
                      p # NoParent, s \in StepKinds
               PROVE  \/ Rank(targets'[p].status) >= Rank(s)
                      \/ \E g \in StepKinds : Rank(g) >= Rank(s) /\ HeadedTo(p, g)'
                      \/ p \in interrupted'
                      \/ p \in overwritten' /\ targets'[p].status # "init"
    BY DEF ProgressReachesParent, HeadedTo
  <2>1. /\ c \in Live /\ targets'[c].parent = targets[c].parent /\ targets[c].parent # d
        /\ targets'[c].status = targets[c].status
    BY <1>1
  <2>2. targets[c].parent \in Live'
    BY <1>1, <2>1 DEF ForestInv, ForestOK
  <2> QED
    BY <1>1, <1>4, <1>t, <2>1, <2>2 DEF StatusInv, ProgressReachesParent
<1>7. DoneReachesParent'
  <2> SUFFICES ASSUME NEW p \in Live', Children(p)' # {}, ~ExistNonDoneChild(p)'
               PROVE  \/ targets'[p].status = "done"
                      \/ HeadedTo(p, "done")'
                      \/ p \in (interrupted \union overwritten \union pruned)'
    BY DEF DoneReachesParent
  <2>1. p # d /\ p \in Live /\ p # NoParent
    BY <1>1, <1>2
  <2>2. Children(p)' = Children(p) \ {d}
    BY <1>1, <2>1 DEF Children
  <2>3. CASE d \in Children(p) /\ targets[d].status # "done"
    BY <1>t, <2>1, <2>3 DEF Children
  <2>4. CASE ~(d \in Children(p) /\ targets[d].status # "done")
    <3>1. ~ExistNonDoneChild(p)
      BY <1>1, <2>2, <2>4 DEF ExistNonDoneChild, Children
    <3> QED
      BY <1>1, <1>4, <1>t, <2>1, <2>2, <3>1 DEF StatusInv, DoneReachesParent
  <2> QED
    BY <2>3, <2>4
<1>8. ASSUME NEW x \in Requests PROVE WalkOK(req[x])'
  <2>1. CASE x = r
    BY <1>t, <2>1 DEF Continue, WalkOK, Idle
  <2>2. CASE x # r
    <3>1. req'[x] = req[x]
      BY <1>t, <2>2 DEF Continue
    <3> QED
      BY <3>1, <1>1, <1>t DEF StatusInv, WalkOK
  <2> QED
    BY <2>1, <2>2
<1>9. (\A t \in TargetIds \ Live : steps[t] = {})'
  BY <1>1, <1>t DEF StatusInv
<1> QED
  BY <1>5, <1>6, <1>7, <1>8, <1>9 DEF StatusInv

LEMMA StatusUpdate ==
    ASSUME TypeInv, ForestInv, StatusInv, NEW r \in Requests, Update(r), req[r].cur \in Live
    PROVE  StatusInv'
<1> DEFINE q == req[r]
           w == req[r].cur
           g == req[r].op
<1>t. /\ q \in Proper /\ q.pc = "update" /\ w \in TargetIds /\ g \in Goals
      /\ Heading(q) = {w}
      /\ UNCHANGED <<steps, interrupted, pruned>>
      /\ overwritten' = IF Rank(g) < Rank(targets[w].status)
                        THEN overwritten \union {w} ELSE overwritten
  BY DEF Update, TypeInv, Proper, Heading
<1>s. /\ \A t \in TargetIds : targets[t].status \in Status
      /\ \A s \in Status : Rank(s) \in Nat
      /\ StepKinds \subseteq Status /\ Goals \subseteq Status
      /\ g # "init"
      /\ \A x \in Requests : req[x] \in Request
  BY <1>t, RankType DEF TypeInv, TypeOK, TargetRow, Status, Goals, StepKinds, Proper
<1>1. /\ Live' = Live
      /\ targets'[w].status = g
      /\ \A t \in TargetIds : /\ targets'[t].parent = targets[t].parent
                              /\ t # w => targets'[t] = targets[t]
  BY UpdateEffect
<1>2. \A t \in Live : t \in TargetIds /\ t # NoParent
  BY BoundsAssumption DEF BoundsAssumption, Live, TargetIds, NoParent
\* The status of w has grown or w is on record as overwritten.
<1>3. Rank(g) >= Rank(targets[w].status) \/ w \in overwritten'
  BY <1>t, <1>s
\* The request goes on to the parent.
<1>4. PICK n \in Proper : Continue(r, n) /\ WalkOK(n)
                       /\ n = IF q.edge = NoParent THEN Idle
                              ELSE IF g = "done" THEN [q EXCEPT !.pc = "siblings"]
                              ELSE WalkingTo(q, q.edge)
  <2> DEFINE n == IF q.edge = NoParent THEN Idle
                  ELSE IF g = "done" THEN [q EXCEPT !.pc = "siblings"]
                  ELSE WalkingTo(q, q.edge)
  <2>1. Continue(r, n)
    BY <1>t DEF Update, Finish
  <2>2. q.edge # NoParent => q.edge \in TargetIds
    BY <1>s, BoundsAssumption DEF BoundsAssumption, Request, TargetIds, NoParent
  <2>3. q.edge # NoParent => WalkingTo(q, q.edge) \in Proper
    BY <2>2, <1>t, WalkingToType
  <2>4. n \in Proper
    BY <2>3, <1>t, IdleType, SiblingsType
  <2>5. n.pc \notin {"load", "update"}
    BY <1>s DEF Idle, WalkingTo, Request
  <2>6. WalkOK(n)
    BY <2>5 DEF WalkOK
  <2> QED
    BY <2>1, <2>4, <2>6
<1>5. q.edge # NoParent => n.op = g /\ q.edge \in Heading(n)
  BY <1>4, <1>s DEF Heading, WalkingTo, Request
<1>6. targets[w].parent \in {NoParent, q.edge}
  BY <1>t DEF StatusInv, WalkOK
<1>7. /\ \A t, k : HeadedTo(t, k) /\ ~(t = w /\ k = g) => HeadedTo(t, k)'
      /\ \A t, k : t = q.edge /\ t # NoParent /\ k = g => HeadedTo(t, k)'
  <2>1. req \in [Requests -> Proper]
    BY DEF TypeInv
  <2>2. \A t, k : HeadedTo(t, k) /\ ~(k = g /\ t \in Heading(q)) => HeadedTo(t, k)'
    BY <2>1, <1>4, HeadedFrame
  <2>3. \A t, k : n.op = k /\ t \in Heading(n) => HeadedTo(t, k)'
    BY <2>1, <1>4, HeadedFrame
  <2> QED
    BY <2>2, <2>3, <1>5, <1>t
<1>8. StepMovesTarget'
  <2> SUFFICES ASSUME NEW t \in Live, NEW k \in StepKinds, k \in steps[t]
               PROVE  \/ Rank(targets'[t].status) >= Rank(k)
                      \/ HeadedTo(t, k)'
                      \/ t \in interrupted'
                      \/ t \in overwritten' /\ targets'[t].status # "init"
    BY <1>1, <1>t DEF StepMovesTarget
  <2>1. CASE t # w
    BY <2>1, <1>1, <1>2, <1>7, <1>t DEF StatusInv, StepMovesTarget
  <2>2. CASE t = w
    <3>1. Rank(g) \in Nat /\ Rank(k) \in Nat /\ Rank(targets[w].status) \in Nat
      BY <1>s, <1>t
    <3>2. CASE w \in overwritten'
      BY <2>2, <3>2, <1>1, <1>s
    <3>3. CASE w \notin overwritten'
      <4>1. Rank(g) >= Rank(targets[w].status) /\ w \notin overwritten
        BY <3>3, <1>3, <1>t
      <4>2. \/ Rank(targets[w].status) >= Rank(k)
            \/ HeadedTo(w, k)
            \/ w \in interrupted
        BY <2>2, <4>1 DEF StatusInv, StepMovesTarget
      <4>3. CASE k = g
        BY <2>2, <4>3, <3>1, <1>1
      <4>4. CASE k # g
        BY <2>2, <4>1, <4>2, <4>4, <3>1, <1>1, <1>7, <1>t
      <4> QED
        BY <4>3, <4>4
    <3> QED
      BY <3>2, <3>3
  <2> QED
    BY <2>1, <2>2
<1>9. ProgressReachesParent'
  <2> SUFFICES ASSUME NEW c \in Live, NEW p, NEW s,
                      p = targets[c].parent, s = targets'[c].status,
                      p # NoParent, s \in StepKinds
               PROVE  \/ Rank(targets'[p].status) >= Rank(s)
                      \/ \E k \in StepKinds : Rank(k) >= Rank(s) /\ HeadedTo(p, k)'
                      \/ p \in interrupted'
                      \/ p \in overwritten' /\ targets'[p].status # "init"
    BY <1>1, <1>2 DEF ProgressReachesParent, HeadedTo
  <2>0. Rank(s) \in Nat /\ Rank(g) \in Nat /\ Rank(targets[w].status) \in Nat
    BY <1>s, <1>t
  <2>1. p \in Live /\ p # c
    BY <1>2 DEF ForestInv, ForestOK, TargetIds
  <2>2. CASE c = w
    <3>1. p = q.edge /\ s = g
      BY <2>2, <1>1, <1>6
    <3> QED
      BY <3>1, <2>0, <1>7
  <2>3. CASE c # w /\ p # w
    <3>1. s = targets[c].status /\ targets'[p] = targets[p]
      BY <2>1, <2>3, <1>1, <1>2
    <3> QED
      BY <2>1, <2>3, <3>1, <1>7, <1>t DEF StatusInv, ProgressReachesParent
  <2>4. CASE c # w /\ p = w
    <3>1. s = targets[c].status /\ targets'[p].status = g
      BY <2>4, <1>1, <1>2
    <3>2. CASE w \in overwritten'
      BY <2>4, <3>1, <3>2, <1>s
    <3>3. CASE w \notin overwritten'
      <4>1. Rank(g) >= Rank(targets[w].status) /\ w \notin overwritten
        BY <3>3, <1>3, <1>t
      <4>2. \/ Rank(targets[w].status) >= Rank(s)
            \/ \E k \in StepKinds : Rank(k) >= Rank(s) /\ HeadedTo(w, k)
            \/ w \in interrupted
        BY <2>4, <3>1, <4>1 DEF StatusInv, ProgressReachesParent
      <4>3. CASE Rank(targets[w].status) >= Rank(s)
        BY <4>1, <4>3, <2>0, <3>1
      <4>4. CASE \E k \in StepKinds : Rank(k) >= Rank(s) /\ HeadedTo(w, k)
        BY <2>4, <4>4, <3>1, <1>7
      <4> QED
        BY <2>4, <4>2, <4>3, <4>4, <1>t
    <3> QED
      BY <3>2, <3>3
  <2> QED
    BY <2>2, <2>3, <2>4
<1>10. DoneReachesParent'
  <2> SUFFICES ASSUME NEW p \in Live, Children(p)' # {}, ~ExistNonDoneChild(p)'
               PROVE  \/ targets'[p].status = "done"
                      \/ HeadedTo(p, "done")'
                      \/ p \in (interrupted \union overwritten \union pruned)'
    BY <1>1 DEF DoneReachesParent
  <2>1. Children(p)' = Children(p) /\ p \notin Children(p)
    BY <1>1, <1>2 DEF Children, ForestInv, ForestOK, TargetIds
  <2>2. CASE w \in Children(p)
    <3>1. g = "done" /\ q.edge = p
      BY <2>1, <2>2, <1>1, <1>2, <1>6 DEF ExistNonDoneChild, Children
    <3> QED
      BY <3>1, <1>2, <1>7
  <2>3. CASE w \notin Children(p)
    <3>1. ~ExistNonDoneChild(p)
      BY <2>1, <2>3, <1>1, <1>2 DEF ExistNonDoneChild, Children
    <3>2. \/ targets[p].status = "done"
          \/ HeadedTo(p, "done")
          \/ p \in interrupted \union overwritten \union pruned
      BY <2>1, <3>1 DEF StatusInv, DoneReachesParent
    <3>3. CASE p # w
      BY <3>2, <3>3, <1>1, <1>2, <1>7, <1>t
    <3>4. CASE p = w /\ g = "done"
      BY <3>4, <1>1
    <3>5. CASE p = w /\ g # "done"
      <4>1. targets[w].status = "done" => Rank(g) < Rank(targets[w].status)
        BY <3>5, <1>t DEF Rank, Goals
      <4> QED
        BY <3>2, <3>5, <4>1, <1>7, <1>t
    <3> QED
      BY <3>3, <3>4, <3>5
  <2> QED
    BY <2>2, <2>3
<1>11. ASSUME NEW x \in Requests PROVE WalkOK(req[x])'
  <2>1. CASE x = r
    <3>1. req'[x] = n /\ n.pc \notin {"load", "update"}
      BY <2>1, <1>4, <1>s DEF Continue, TypeInv, Idle, WalkingTo, Request
    <3> QED
      BY <3>1 DEF WalkOK
  <2>2. CASE x # r
    <3>1. req'[x] = req[x]
      BY <2>2, <1>4 DEF Continue, TypeInv
    <3>2. WalkOK(req[x])
      BY DEF StatusInv
    <3>3. CASE req[x].cur # w \/ req[x].cur \notin Live
      BY <3>1, <3>2, <3>3, <1>1, <1>2, <1>t DEF WalkOK
    <3>4. CASE req[x].cur = w /\ w \in Live
      <4>1. CASE req[x].pc = "load"
        <5>1. Rank(req[x].op) \in Nat /\ Rank(g) \in Nat /\ Rank(targets[w].status) \in Nat
          <6>1. req[x].op \in Goals
            BY <4>1 DEF TypeInv, Proper
          <6> QED
            BY <6>1, <1>s, <1>t
        <5>2. /\ targets'[w].parent = targets[w].parent /\ targets'[w].status = g /\ g # "init"
          BY <1>1, <1>s, <1>t
        <5>3. Rank(targets[w].status) >= Rank(req[x].op) =>
                 Rank(g) >= Rank(req[x].op) \/ w \in overwritten'
          BY <5>1, <1>3
        <5> QED
          BY <3>1, <3>2, <3>4, <4>1, <5>2, <5>3, <1>t, <1>1 DEF WalkOK
      <4>2. CASE req[x].pc # "load"
        BY <3>1, <3>2, <3>4, <4>2, <1>1, <1>t DEF WalkOK
      <4> QED
        BY <4>1, <4>2
    <3> QED
      BY <3>3, <3>4
  <2> QED
    BY <2>1, <2>2
<1>12. (\A t \in TargetIds \ Live : steps[t] = {})'
  BY <1>1, <1>t DEF StatusInv
<1> QED
  BY <1>8, <1>9, <1>10, <1>11, <1>12 DEF StatusInv

\* Upload records its step and is on its way to the target at once.
LEMMA StatusAddStep ==
    ASSUME TypeInv, ForestInv, StatusInv, NEW r \in Requests, AddStep(r), req[r].cur \in Live,
           steps' = [steps EXCEPT ![req[r].cur] = @ \union {req[r].op}],
           Continue(r, WalkingTo(req[r], req[r].cur))
    PROVE  StatusInv'
<1> DEFINE w == req[r].cur
           q == WalkingTo(req[r], w)
<1>t. /\ req \in [Requests -> Proper] /\ Heading(req[r]) = {}
      /\ w \in TargetIds /\ req[r].op \in StepKinds /\ req[r].op \in Goals
      /\ UNCHANGED <<targets, nextId, history>>
      /\ \A t \in TargetIds : steps'[t] = IF t = w THEN steps[t] \union {req[r].op} ELSE steps[t]
  BY DEF AddStep, TypeInv, TypeOK, Proper, Heading, StepKinds, Goals
<1>1. q \in Proper
  BY <1>t, WalkingToType DEF AddStep
<1>2. q.pc = "query" /\ q.op = req[r].op /\ q.cur = w
  BY <1>t DEF WalkingTo, Proper, Request
<1>3. /\ \A t, g : HeadedTo(t, g) => HeadedTo(t, g)'
      /\ \A t, g : t = w /\ g = req[r].op => HeadedTo(t, g)'
  BY <1>1, <1>2, <1>t, HeadedFrame DEF Heading
<1>4. Live' = Live
  BY <1>t DEF Live
<1>5. StepMovesTarget'
  <2> SUFFICES ASSUME NEW t \in Live, NEW k \in StepKinds, k \in steps'[t]
               PROVE  \/ Rank(targets[t].status) >= Rank(k)
                      \/ HeadedTo(t, k)'
                      \/ t \in interrupted
                      \/ t \in overwritten /\ targets[t].status # "init"
    BY <1>4, <1>t DEF StepMovesTarget, history
  <2>1. k \in steps[t] \/ (t = w /\ k = req[r].op)
    BY <1>t DEF Live
  <2> QED
    BY <2>1, <1>3 DEF StatusInv, StepMovesTarget
<1>6. ProgressReachesParent'
  <2> SUFFICES ASSUME NEW c \in Live, NEW p, NEW s,
                      p = targets[c].parent, s = targets[c].status,
                      p # NoParent, s \in StepKinds
               PROVE  \/ Rank(targets[p].status) >= Rank(s)
                      \/ \E k \in StepKinds : Rank(k) >= Rank(s) /\ HeadedTo(p, k)'
                      \/ p \in interrupted
                      \/ p \in overwritten /\ targets[p].status # "init"
    BY <1>4, <1>t DEF ProgressReachesParent, HeadedTo, history
  <2> QED
    BY <1>3 DEF StatusInv, ProgressReachesParent
<1>7. DoneReachesParent'
  <2> SUFFICES ASSUME NEW p \in Live, Children(p)' # {}, ~ExistNonDoneChild(p)'
               PROVE  \/ targets[p].status = "done"
                      \/ HeadedTo(p, "done")'
                      \/ p \in interrupted \union overwritten \union pruned
    BY <1>4, <1>t DEF DoneReachesParent, history
  <2>1. Children(p)' = Children(p) /\ ~ExistNonDoneChild(p)
    BY <1>4, <1>t DEF Children, ExistNonDoneChild
  <2> QED
    BY <2>1, <1>3 DEF StatusInv, DoneReachesParent
<1>8. ASSUME NEW x \in Requests PROVE WalkOK(req[x])'
  <2>1. req'[x] = req[x] \/ req'[x].pc = "query"
    BY <1>t, <1>2 DEF Continue
  <2> QED
    BY <2>1, <1>4, <1>t DEF StatusInv, WalkOK, history
<1>9. (\A t \in TargetIds \ Live : steps[t] = {})'
  BY <1>4, <1>t DEF StatusInv
<1> QED
  BY <1>5, <1>6, <1>7, <1>8, <1>9 DEF StatusInv

LEMMA StatusNext ==
    TypeInv /\ ForestInv /\ ForestInv' /\ StatusInv /\ [Next]_vars => StatusInv'
<1> SUFFICES ASSUME TypeInv, ForestInv, ForestInv', StatusInv, [Next]_vars PROVE StatusInv'
  OBVIOUS
<1>t. /\ \A x \in Requests : req[x] \in Proper
      /\ Idle \in Proper /\ WalkOK(Idle)
      /\ \A t \in TargetIds : targets[t].status \in Status
  BY IdleType DEF TypeInv, TypeOK, TargetRow, WalkOK, Idle
\* Requests that end without having been on their way to a target.
<1>e. ASSUME NEW r \in Requests, Finish(r), Heading(req[r]) = {},
             UNCHANGED <<targets, steps, interrupted, overwritten, pruned>>
      PROVE  StatusInv'
  BY <1>e, <1>t, StatusFrame DEF Finish
<1>1. ASSUME NEW r \in Requests, NEW u \in Users, NEW p \in 0 .. MaxTargets, BeginCreate(r, u, p)
      PROVE  StatusInv'
  <2>1. Creating(u, p) \in Proper
    BY CreatingType DEF TypeInv
  <2>2. WalkOK(Creating(u, p)) /\ Heading(req[r]) = {}
    BY <1>1 DEF Creating, Idle, WalkOK, BeginCreate, Heading
  <2> QED
    BY <1>1, <2>1, <2>2, StatusFrame DEF BeginCreate, table, history
<1>2. ASSUME NEW r \in Requests, NEW u \in Users, NEW t \in TargetIds, NEW op \in AllOps,
             BeginOnTarget(r, u, t, op)
      PROVE  StatusInv'
  <2>1. Starting(u, t, op) \in Proper
    BY <1>2, StartingType DEF BeginOnTarget
  <2>2. Starting(u, t, op).pc \in {"delete", "addstep", "query"}
    BY <1>2 DEF Starting, FirstStatement, BeginOnTarget, AllOps, Goals, StepKinds, Idle
  <2>3. WalkOK(Starting(u, t, op)) /\ Heading(req[r]) = {}
    BY <1>2, <2>2 DEF WalkOK, BeginOnTarget, Heading
  <2> QED
    BY <1>2, <2>1, <2>3, StatusFrame DEF BeginOnTarget, table, history
<1>3. ASSUME NEW r \in Requests, Insert(r) PROVE StatusInv'
  <2>1. CASE CanInsert(req[r])
    BY <1>3, <2>1, StatusInsert
  <2>2. CASE ~CanInsert(req[r])
    BY <1>3, <2>2, <1>e DEF Insert, Heading, history
  <2> QED
    BY <2>1, <2>2
<1>4. ASSUME NEW r \in Requests, Delete(r) PROVE StatusInv'
  <2>1. CASE req[r].cur \in Live
    BY <1>4, <2>1, StatusDelete
  <2>2. CASE req[r].cur \notin Live
    BY <1>4, <2>2, <1>e DEF Delete, Heading
  <2> QED
    BY <2>1, <2>2
<1>5. ASSUME NEW r \in Requests, AddStep(r) PROVE StatusInv'
  <2>1. CASE Finish(r) /\ UNCHANGED steps
    BY <1>5, <2>1, <1>e DEF AddStep, Heading, history
  <2>2. CASE ~(Finish(r) /\ UNCHANGED steps)
    BY <1>5, <2>2, StatusAddStep DEF AddStep
  <2> QED
    BY <2>1, <2>2
<1>6. ASSUME NEW r \in Requests, Query(r) PROVE StatusInv'
  <2> DEFINE t == req[r].cur
             q == [req[r] EXCEPT !.pc = "load", !.seen = targets[t].status,
                                 !.edge = targets[t].parent]
  <2>1. Heading(req[r]) = {t} /\ t \in TargetIds /\ req[r].op \in Goals
    BY <1>6, <1>t DEF Query, Heading, Proper
  <2>2. CASE t \notin Live
    <3>1. Settled(t, req[r].op)
      BY <2>2 DEF Settled
    <3> QED
      BY <1>6, <1>t, <2>1, <2>2, <3>1, StatusFrame DEF Query, Finish, table, history
  <2>3. CASE t \in Live
    <3>1. targets[t].status \in Status /\ targets[t].parent \in 0 .. MaxTargets
      BY <2>1 DEF TypeInv, TypeOK, TargetRow
    <3>2. q \in Proper
      BY <1>6, <1>t, <3>1, LoadingType DEF Query
    <3>3. /\ q.pc = "load" /\ q.cur = t /\ q.op = req[r].op
          /\ q.seen = targets[t].status /\ q.edge = targets[t].parent
      BY <1>t DEF Proper, Request
    <3>4. Rank(targets[t].status) \in Nat /\ Rank(req[r].op) \in Nat
      BY <3>1, <2>1, RankType DEF Status
    <3>5. targets[t].status \notin Sources(req[r].op) => Rank(targets[t].status) >= Rank(req[r].op)
      BY <3>1, <3>4, <2>1, RankType
    <3>6. WalkOK(q) /\ t \in Heading(q)
      BY <3>3, <3>5 DEF WalkOK, Heading
    <3> QED
      BY <1>6, <2>1, <2>3, <3>2, <3>3, <3>6, StatusFrame DEF Query, table, history
  <2> QED
    BY <2>2, <2>3
<1>7. ASSUME NEW r \in Requests, LoadParent(r) PROVE StatusInv'
  <2> DEFINE t == req[r].cur
  <2>1. Heading(req[r]) = {t} /\ t \in TargetIds /\ req[r].op \in Goals /\ req[r].pc = "load"
    BY <1>7, <1>t DEF LoadParent, Heading, Proper
  <2>2. CASE ~Advances(req[r])
    <3>1. t \in Live => \/ Rank(targets[t].status) >= Rank(req[r].op)
                        \/ t \in overwritten /\ targets[t].status # "init"
      BY <2>1, <2>2 DEF StatusInv, WalkOK, Advances
    <3>2. req[r].op = "done" /\ Rank(targets[t].status) >= Rank(req[r].op)
             => targets[t].status = "done"
      BY <2>1, <1>t DEF Rank, Status, Goals
    <3>3. Settled(t, req[r].op)
      BY <3>1, <3>2 DEF Settled
    <3> QED
      BY <1>7, <1>t, <2>1, <2>2, <3>3, StatusFrame DEF LoadParent, Finish, table, history
  <2>3. CASE Advances(req[r])
    <3>1. Decided(req[r]) \in Proper
      BY <2>1, <1>t, DecidedType
    <3>2. /\ Decided(req[r]).pc = "update" /\ Decided(req[r]).cur = t
          /\ Decided(req[r]).op = req[r].op /\ Decided(req[r]).seen = req[r].seen
          /\ Decided(req[r]).edge = IF req[r].edge \in Live THEN req[r].edge ELSE NoParent
      BY <1>t DEF Decided, Proper, Request
    <3>3. t \in Live => targets[t].parent \in {NoParent, Decided(req[r]).edge}
      BY <2>1, <3>2 DEF StatusInv, WalkOK, ForestInv, ForestOK
    <3>4. WalkOK(Decided(req[r])) /\ t \in Heading(Decided(req[r]))
      BY <2>3, <3>2, <3>3 DEF WalkOK, Heading, Advances
    <3> QED
      BY <1>7, <2>1, <2>3, <3>1, <3>2, <3>4, StatusFrame DEF LoadParent, table, history
  <2> QED
    BY <2>2, <2>3
<1>8. ASSUME NEW r \in Requests, Update(r) PROVE StatusInv'
  <2>1. CASE req[r].cur \in Live
    BY <1>8, <2>1, StatusUpdate
  <2>2. CASE req[r].cur \notin Live
    <3>1. \A t \in Heading(req[r]) : Settled(t, req[r].op)
      BY <1>8, <2>2 DEF Update, Heading, Settled
    <3> QED
      BY <1>8, <1>t, <2>2, <3>1, StatusFrame DEF Update, Finish
  <2> QED
    BY <2>1, <2>2
<1>9. ASSUME NEW r \in Requests, CheckSiblings(r) PROVE StatusInv'
  <2> DEFINE t == req[r].edge
  <2>1. /\ req[r].pc = "siblings" /\ req[r].op = "done" /\ req[r].op \in Goals /\ t \in TargetIds
        /\ Heading(req[r]) = {t}
    BY <1>9, <1>t DEF CheckSiblings, Proper, Heading
  <2>2. CASE ExistNonDoneChild(t)
    <3>1. Settled(t, req[r].op)
      BY <2>1, <2>2 DEF Settled
    <3> QED
      BY <1>9, <1>t, <2>1, <2>2, <3>1, StatusFrame DEF CheckSiblings, Finish, table, history
  <2>3. CASE ~ExistNonDoneChild(t)
    <3>1. WalkingTo(req[r], t) \in Proper
      BY <2>1, <1>t, WalkingToType
    <3>2. /\ WalkingTo(req[r], t).pc = "query" /\ WalkingTo(req[r], t).cur = t
          /\ WalkingTo(req[r], t).op = req[r].op
      BY <1>t DEF WalkingTo, Proper, Request
    <3>3. WalkOK(WalkingTo(req[r], t)) /\ t \in Heading(WalkingTo(req[r], t))
      BY <3>2 DEF WalkOK, Heading
    <3> QED
      BY <1>9, <2>1, <2>3, <3>1, <3>2, <3>3, StatusFrame DEF CheckSiblings, table, history
  <2> QED
    BY <2>2, <2>3
<1>10. ASSUME NEW r \in Requests, Abort(r) PROVE StatusInv'
  BY <1>10, <1>t, StatusFrame DEF Abort, Finish, table
<1>11. CASE UNCHANGED vars
  <2>1. UNCHANGED <<targets, steps, req, interrupted, overwritten, pruned>>
    BY <1>11 DEF vars
  <2> QED
    BY <2>1 DEF StatusInv, StepMovesTarget, ProgressReachesParent, DoneReachesParent, WalkOK,
                HeadedTo, Heading, Live, Children, ExistNonDoneChild
<1> QED
  BY <1>1, <1>2, <1>3, <1>4, <1>5, <1>6, <1>7, <1>8, <1>9, <1>10, <1>11
     DEF Next, Begin, Handle, Walk

LEMMA Inductive == Spec => [](TypeInv /\ ForestInv /\ StatusInv)
BY TypeInit, TypeNext, ForestInit, ForestNext, StatusInit, StatusNext, PTL DEF Spec

(***************************************************************************)
(* A step Upload recorded shows in the status of its target, unless its    *)
(* walk is under way, was cut short or was overtaken by a slower request.  *)
(***************************************************************************)
THEOREM StepMovesTargetAlways == Spec => []StepMovesTarget
<1>1. StatusInv => StepMovesTarget
  BY DEF StatusInv
<1> QED
  BY <1>1, Inductive, PTL

(***************************************************************************)
(* The recursion of SetTargetStatusRecursively for step and step_hard      *)
(* reaches the parent under any interleaving of requests and deletions.    *)
(***************************************************************************)
THEOREM ProgressReachesParentAlways == Spec => []ProgressReachesParent
<1>1. StatusInv => ProgressReachesParent
  BY DEF StatusInv
<1> QED
  BY <1>1, Inductive, PTL

(***************************************************************************)
(* A target all of whose children are done becomes done: of the requests   *)
(* that finish the children the last to look at the siblings goes on.      *)
(***************************************************************************)
THEOREM DoneReachesParentAlways == Spec => []DoneReachesParent
<1>1. StatusInv => DoneReachesParent
  BY DEF StatusInv
<1> QED
  BY <1>1, Inductive, PTL

(***************************************************************************)
(* A status goes back only in an update decided on a status that somebody  *)
(* has changed since.                                                      *)
(***************************************************************************)
THEOREM RegressOnlyStaleAlways == Spec => RegressOnlyStale
<1> DEFINE A == \A t \in Live :
          Rank(targets'[t].status) < Rank(targets[t].status) /\ targets'[t].owner # NoUser =>
             \E r \in Requests : /\ req[r].pc = "update"
                                 /\ req[r].cur = t
                                 /\ Rank(req[r].seen) < Rank(targets[t].status)
<1>1. TypeInv /\ ForestInv /\ StatusInv /\ [Next]_vars => [A]_vars
  <2> SUFFICES ASSUME TypeInv, ForestInv, StatusInv, Next PROVE A
    OBVIOUS
  <2>t. \A t \in TargetIds : Rank(targets[t].status) \in Nat
    BY RankType DEF TypeInv, TypeOK, TargetRow
  <2>1. ASSUME \A t \in Live : targets'[t].owner # NoUser => targets'[t].status = targets[t].status
        PROVE  A
    BY <2>1, <2>t DEF Live
  <2>2. ASSUME NEW r \in Requests, Insert(r) PROVE A
    <3>1. CASE CanInsert(req[r])
      BY <2>1, <2>2, <3>1, InsertEffect DEF Live
    <3>2. CASE ~CanInsert(req[r])
      BY <2>1, <2>2, <3>2 DEF Insert
    <3> QED
      BY <3>1, <3>2
  <2>3. ASSUME NEW r \in Requests, Delete(r) PROVE A
    <3>1. CASE req[r].cur \in Live
      <4>1. \A t \in Live : targets'[t].owner # NoUser => t \in Live'
        BY DEF Live
      <4> QED
        BY <2>1, <2>3, <3>1, <4>1, DeleteEffect
    <3>2. CASE req[r].cur \notin Live
      BY <2>1, <2>3, <3>2 DEF Delete
    <3> QED
      BY <3>1, <3>2
  <2>4. ASSUME NEW r \in Requests, Update(r) PROVE A
    <3>1. CASE req[r].cur \in Live
      <4>1. /\ targets'[req[r].cur].status = req[r].op
            /\ \A t \in Live \ {req[r].cur} : targets'[t] = targets[t]
        BY <2>4, <3>1, UpdateEffect DEF Live
      <4>2. /\ req[r].pc = "update" /\ req[r].op \in Goals /\ req[r].seen \in Status
            /\ req[r].seen \in Sources(req[r].op)
        BY <2>4 DEF Update, TypeInv, Proper, Request, StatusInv, WalkOK
      <4>3. /\ Rank(req[r].seen) < Rank(req[r].op)
            /\ Rank(req[r].seen) \in Nat /\ Rank(req[r].op) \in Nat
        BY <4>2, RankType DEF Status
      <4> QED
        BY <2>t, <4>1, <4>2, <4>3 DEF Live
    <3>2. CASE req[r].cur \notin Live
      BY <2>1, <2>4, <3>2 DEF Update
    <3> QED
      BY <3>1, <3>2
  <2>5. CASE UNCHANGED targets
    BY <2>1, <2>5
  <2> QED
    BY <2>2, <2>3, <2>4, <2>5
       DEF Next, Begin, Handle, Walk, BeginCreate, BeginOnTarget, AddStep, Query, LoadParent,
           CheckSiblings, Abort, table
<1> QED
  BY <1>1, Inductive, PTL DEF Spec, RegressOnlyStale

(***************************************************************************)
(* Whatever changes a row is a request of the row's owner, also where the  *)
(* walk climbs to rows whose owner the code never compares.                *)
(***************************************************************************)
THEOREM OnlyOwnersChangeAlways == Spec => OnlyOwnersChange
<1> DEFINE A == \A t \in Live :
          targets'[t] # targets[t] =>
             \E r \in Requests : req'[r] # req[r] /\ req[r].uid = targets[t].owner
<1>1. TypeInv /\ ForestInv /\ StatusInv /\ [Next]_vars => [A]_vars
  <2> SUFFICES ASSUME TypeInv, ForestInv, Next PROVE A
    OBVIOUS
  <2>1. ASSUME NEW r \in Requests, Insert(r) PROVE A
    <3>1. CASE CanInsert(req[r])
      BY <2>1, <3>1, InsertEffect DEF Live
    <3>2. CASE ~CanInsert(req[r])
      BY <2>1, <3>2 DEF Insert
    <3> QED
      BY <3>1, <3>2
  <2>2. ASSUME NEW r \in Requests, Delete(r) PROVE A
    <3>1. CASE req[r].cur \in Live
      <4>1. req'[r] # req[r] /\ req[r].uid = targets[req[r].cur].owner
        BY <2>2, <3>1 DEF Delete, Finish, Continue, Idle, TypeInv, ForestInv, RefOK
      <4>2. \A t \in Live : targets'[t] # targets[t] =>
                t = req[r].cur \/ targets[t].parent = req[r].cur
        BY <2>2, <3>1 DEF Delete, Without, Live
      <4>3. req[r].cur # NoParent
        BY <3>1, BoundsAssumption DEF BoundsAssumption, Live, TargetIds, NoParent
      <4> QED
        BY <4>1, <4>2, <4>3 DEF ForestInv, ForestOK
    <3>2. CASE req[r].cur \notin Live
      BY <2>2, <3>2 DEF Delete
    <3> QED
      BY <3>1, <3>2
  <2>3. ASSUME NEW r \in Requests, Update(r) PROVE A
    <3>1. CASE req[r].cur \in Live
      <4>1. req[r].uid = targets[req[r].cur].owner
        BY <2>3, <3>1 DEF Update, ForestInv, RefOK
      <4>2. req'[r].pc # "update"
        <5>1. req[r] \in Request
          BY DEF TypeInv, Proper
        <5>2. \/ Continue(r, Idle)
              \/ Continue(r, [req[r] EXCEPT !.pc = "siblings"])
              \/ Continue(r, WalkingTo(req[r], req[r].edge))
          BY <2>3, <3>1 DEF Update, Finish
        <5>3. /\ Idle.pc # "update" /\ [req[r] EXCEPT !.pc = "siblings"].pc # "update"
              /\ WalkingTo(req[r], req[r].edge).pc # "update"
          BY <5>1 DEF Idle, WalkingTo, Request
        <5> QED
          BY <5>2, <5>3 DEF Continue, TypeInv
      <4>3. \A t \in Live \ {req[r].cur} : targets'[t] = targets[t]
        BY <2>3, <3>1, UpdateEffect DEF Live
      <4> QED
        BY <2>3, <4>1, <4>2, <4>3 DEF Update
    <3>2. CASE req[r].cur \notin Live
      BY <2>3, <3>2 DEF Update
    <3> QED
      BY <3>1, <3>2
  <2>4. CASE UNCHANGED targets
    BY <2>4
  <2> QED
    BY <2>1, <2>2, <2>3, <2>4
       DEF Next, Begin, Handle, Walk, BeginCreate, BeginOnTarget, AddStep, Query, LoadParent,
           CheckSiblings, Abort, table
<1> QED
  BY <1>1, Inductive, PTL DEF Spec, OnlyOwnersChange

(***************************************************************************)
(* The table of Targets is a TargetForest: what a request remembers of the *)
(* parent is what the insert would read (RefOK), every other write names   *)
(* a live row.                                                             *)
(***************************************************************************)
THEOREM ActsLikeForestAlways == Spec => ActsLikeForest
<1> USE DEF Forest!vars, Forest!Ids, TargetIds, NoParent, Forest!NoParent
<1>1. Init => Forest!Init
  BY DEF Init, Forest!Init, Forest!Absent, NoRow
<1>2. TypeInv /\ ForestInv /\ [Next]_vars => [Forest!Next]_(Forest!vars)
  <2> SUFFICES ASSUME TypeInv, ForestInv, Next PROVE [Forest!Next]_(Forest!vars)
    BY DEF vars
  <2>p. Live = Forest!Present
    BY DEF Live, Forest!Present
  <2>1. ASSUME NEW r \in Requests, Insert(r) PROVE [Forest!Next]_(Forest!vars)
    <3> DEFINE q == req[r]
    <3>1. CASE CanInsert(q)
      <4>1. q.uid \in Users /\ q.cur \in 0 .. MaxTargets /\ q.pc = "insert" /\ q.layer \in Nat
        BY <2>1 DEF Insert, TypeInv, Proper, Request
      <4>2. nextId \in 1 .. MaxTargets
        BY <3>1, BoundsAssumption DEF CanInsert, TypeInv, TypeOK, BoundsAssumption
      <4>3. Forest!Add(NewRow(q))
        BY <2>1, <3>1, <4>2 DEF Insert, Forest!Add
      <4>4. CASE q.cur = 0
        <5>1. q.layer = 0
          BY <4>4, <4>1 DEF ForestInv, RefOK
        <5>2. Forest!CreateTop(q.uid)
          BY <4>3, <4>4, <5>1 DEF NewRow, Forest!CreateTop
        <5> QED
          BY <4>1, <5>2 DEF Forest!Next
      <4>5. CASE q.cur # 0
        <5>1. q.cur \in Live
          BY <3>1, <4>5 DEF CanInsert
        <5>2. targets[q.cur].owner = q.uid /\ q.layer = targets[q.cur].layer + 1
          BY <4>1, <5>1 DEF ForestInv, RefOK
        <5>3. Forest!CreateUnder(q.uid, q.cur)
          BY <2>p, <4>3, <5>1, <5>2 DEF NewRow, Forest!CreateUnder
        <5> QED
          BY <4>1, <5>1, <5>3 DEF Forest!Next, Live
      <4> QED
        BY <4>4, <4>5
    <3>2. CASE ~CanInsert(q)
      BY <2>1, <3>2 DEF Insert
    <3> QED
      BY <3>1, <3>2
  <2>2. ASSUME NEW r \in Requests, Delete(r) PROVE [Forest!Next]_(Forest!vars)
    <3>1. CASE req[r].cur \in Live
      <4>1. Forest!Delete(req[r].cur)
        BY <2>p, <2>2, <3>1 DEF Delete, Without, NoRow, Forest!Delete, Forest!Absent
      <4> QED
        BY <3>1, <4>1 DEF Forest!Next, Live
    <3>2. CASE req[r].cur \notin Live
      BY <2>2, <3>2 DEF Delete
    <3> QED
      BY <3>1, <3>2
  <2>3. ASSUME NEW r \in Requests, Update(r) PROVE [Forest!Next]_(Forest!vars)
    <3>1. CASE req[r].cur \in Live
      <4>1. Forest!SetStatus(req[r].cur, req[r].op)
        BY <2>p, <2>3, <3>1 DEF Update, Forest!SetStatus
      <4>2. req[r].op \in {"step", "step_hard", "done"}
        BY <2>3 DEF Update, TypeInv, Proper, Goals
      <4> QED
        BY <3>1, <4>1, <4>2 DEF Forest!Next, Live
    <3>2. CASE req[r].cur \notin Live
      BY <2>3, <3>2 DEF Update
    <3> QED
      BY <3>1, <3>2
  <2>4. CASE UNCHANGED <<targets, nextId>>
    BY <2>4
  <2> QED
    BY <2>1, <2>2, <2>3, <2>4
       DEF Next, Begin, Handle, Walk, BeginCreate, BeginOnTarget, AddStep, Query, LoadParent,
           CheckSiblings, Abort, table
<1> QED
  BY <1>1, <1>2, Inductive, PTL DEF Spec, ActsLikeForest, Forest!Spec

-----------------------------------------------------------------------------
(***************************************************************************)
(* What the read calls answer.  The climbs and the descent are defined on  *)
(* every id, so an absent row has to end them too.                         *)
(***************************************************************************)
AbsentInv == \A t \in TargetIds \ Live : targets[t].layer = 0

LEMMA AbsentInit == Init => AbsentInv
BY DEF Init, AbsentInv, NoRow

LEMMA AbsentNext == TypeInv /\ ForestInv /\ AbsentInv /\ [Next]_vars => AbsentInv'
<1> SUFFICES ASSUME TypeInv, ForestInv, AbsentInv, [Next]_vars PROVE AbsentInv'
  OBVIOUS
<1>1. ASSUME UNCHANGED targets PROVE AbsentInv'
  BY <1>1 DEF AbsentInv, Live
<1>2. ASSUME NEW r \in Requests, Insert(r) PROVE AbsentInv'
  <2>1. CASE CanInsert(req[r])
    BY <1>2, <2>1, InsertEffect DEF AbsentInv
  <2>2. CASE ~CanInsert(req[r])
    BY <1>1, <1>2, <2>2 DEF Insert
  <2> QED
    BY <2>1, <2>2
<1>3. ASSUME NEW r \in Requests, Delete(r) PROVE AbsentInv'
  <2>1. CASE req[r].cur \in Live
    <3>1. targets' = Without(req[r].cur)
      BY <1>3, <2>1 DEF Delete
    <3>2. \A t \in TargetIds \ {req[r].cur} : /\ targets'[t].owner = targets[t].owner
                                              /\ targets'[t].layer = targets[t].layer
      BY <3>1 DEF Without, TypeInv, TypeOK, TargetRow
    <3>3. req[r].cur \in TargetIds => targets'[req[r].cur].layer = 0
      BY <3>1 DEF Without, NoRow
    <3> QED
      BY <3>2, <3>3 DEF AbsentInv, Live
  <2>2. CASE req[r].cur \notin Live
    BY <1>1, <1>3, <2>2 DEF Delete
  <2> QED
    BY <2>1, <2>2
<1>4. ASSUME NEW r \in Requests, Update(r) PROVE AbsentInv'
  <2>1. CASE req[r].cur \in Live
    BY <1>4, <2>1, UpdateEffect DEF AbsentInv
  <2>2. CASE req[r].cur \notin Live
    BY <1>1, <1>4, <2>2 DEF Update
  <2> QED
    BY <2>1, <2>2
<1>5. CASE UNCHANGED vars
  BY <1>1, <1>5 DEF vars
<1>6. CASE Next
  BY <1>6, <1>1, <1>2, <1>3, <1>4
     DEF Next, Begin, Handle, Walk, BeginCreate, BeginOnTarget, AddStep, Query, LoadParent,
         CheckSiblings, Abort, table
<1> QED
  BY <1>5, <1>6

(***************************************************************************)
(* The recursive functions satisfy their equations.                        *)
(***************************************************************************)
TableOK == TypeOK /\ ForestOK /\ AbsentInv

\* A target has no parent, or an older one with the same owner, one layer up.
LEMMA ParentIs ==
    ASSUME TableOK, NEW t \in Live
    PROVE  LET p == targets[t].parent IN
           /\ t \in TargetIds
           /\ p # NoParent => /\ p \in Live /\ p \in 1 .. t - 1 /\ t \in Children(p)
                              /\ targets[p].owner = targets[t].owner
                              /\ targets[t].layer # 0
           /\ p = NoParent => p \notin Live
<1> DEFINE p == targets[t].parent
<1>1. t \in TargetIds /\ NoParent \notin Live
  BY DEF Live, TargetIds, NoParent
<1>2. ASSUME p # NoParent
      PROVE  /\ p \in Live /\ p \in 1 .. t - 1 /\ t \in Children(p)
             /\ targets[p].owner = targets[t].owner
             /\ targets[t].layer # 0
  <2>1. p \in Live /\ p < t /\ targets[p].owner = targets[t].owner
        /\ targets[t].layer = targets[p].layer + 1
    BY <1>2 DEF TableOK, ForestOK
  <2>2. p \in TargetIds /\ targets[p].layer \in Nat
    BY <2>1 DEF Live, TableOK, TypeOK, TargetRow
  <2>3. p \in 1 .. t - 1 /\ targets[t].layer # 0
    BY <1>1, <2>1, <2>2 DEF TargetIds
  <2> QED
    BY <2>1, <2>3 DEF Children
<1> QED
  BY <1>1, <1>2

LEMMA TopTargetIs ==
    ASSUME TableOK, NEW t \in Live
    PROVE  TopTarget[t] = IF targets[t].parent = NoParent THEN t
                          ELSE TopTarget[targets[t].parent]
<1> DEFINE stops == {s \in TargetIds : targets[s].layer = 0 \/ targets[s].parent = NoParent}
           val == [s \in TargetIds |-> s]
           up == [s \in TargetIds |-> targets[s].parent]
           Body(f) == [s \in TargetIds |-> IF targets[s].layer = 0 \/ targets[s].parent = NoParent
                                           THEN s ELSE f[targets[s].parent]]
<1>1. \A s \in 1 .. MaxTargets : s \notin stops => up[s] \in 1 .. s - 1
  BY ParentIs DEF TargetIds, AbsentInv, TableOK
<1>2. MaxTargets \in Nat
  BY BoundsAssumption
<1> HIDE DEF stops, val, up
<1>3. PICK f : IsClimb(f, MaxTargets, stops, val, up)
  BY <1>1, <1>2, ClimbExists
<1> USE DEF stops, val, up
<1>4. \A s \in TargetIds : (IF s \in stops THEN val[s] ELSE f[up[s]]) = Body(f)[s]
  OBVIOUS
<1>5. f = Body(f)
  BY <1>3, <1>4 DEF TargetIds, IsClimb
<1>6. TopTarget = Body(TopTarget)
  <2>1. TopTarget = CHOOSE g : g = Body(g)
    BY DEF TopTarget
  <2> HIDE DEF Body
  <2> QED
    BY <1>5, <2>1
<1> QED
  BY <1>6, ParentIs

LEMMA FindRootIs ==
    ASSUME TableOK, NEW t \in Live
    PROVE  FindRoot[t] = LET p == targets[t].parent IN
                         IF targets[t].layer = 0 THEN t
                         ELSE IF p \notin Live THEN NoRoot
                         ELSE IF targets[p].layer = 0 THEN p
                         ELSE FindRoot[p]
<1> DEFINE Ends(s) == targets[s].layer = 0 \/ targets[s].parent \notin Live
                                           \/ targets[targets[s].parent].layer = 0
           stops == {s \in TargetIds : Ends(s)}
           val == [s \in TargetIds |-> IF targets[s].layer = 0 THEN s
                                       ELSE IF targets[s].parent \notin Live THEN NoRoot
                                       ELSE targets[s].parent]
           up == [s \in TargetIds |-> targets[s].parent]
           Body(f) == [s \in TargetIds |->
                         LET p == targets[s].parent IN
                         IF targets[s].layer = 0 THEN s
                         ELSE IF p \notin Live THEN NoRoot
                         ELSE IF targets[p].layer = 0 THEN p
                         ELSE f[p]]
<1>1. \A s \in 1 .. MaxTargets : s \notin stops => up[s] \in 1 .. s - 1
  BY ParentIs DEF TargetIds, AbsentInv, TableOK
<1>2. MaxTargets \in Nat
  BY BoundsAssumption
<1> HIDE DEF stops, val, up
<1>3. PICK f : IsClimb(f, MaxTargets, stops, val, up)
  BY <1>1, <1>2, ClimbExists
<1> USE DEF stops, val, up
<1>4. \A s \in TargetIds : (IF s \in stops THEN val[s] ELSE f[up[s]]) = Body(f)[s]
  OBVIOUS
<1>5. f = Body(f)
  BY <1>3, <1>4 DEF TargetIds, IsClimb
<1>6. FindRoot = Body(FindRoot)
  <2>1. FindRoot = CHOOSE g : g = Body(g)
    BY DEF FindRoot
  <2> HIDE DEF Body
  <2> QED
    BY <1>5, <2>1
<1>7. FindRoot[t] = Body(FindRoot)[t] /\ t \in TargetIds
  BY <1>6, ParentIs
<1> QED
  BY <1>7

LEMMA SubtreeIs ==
    ASSUME TableOK, NEW t \in Live
    PROVE  \A x : x \in Subtree[t] <=> x = t \/ \E c \in Children(t) : x \in Subtree[c]
<1> DEFINE kids == [s \in TargetIds |-> Children(s)]
           Body(f) == [s \in TargetIds |-> {s} \union UNION {f[c] : c \in Children(s)}]
<1>1. \A s \in 1 .. MaxTargets : \A c \in kids[s] : c \in s + 1 .. MaxTargets
  <2> TAKE s \in 1 .. MaxTargets
  <2> TAKE c \in kids[s]
  <2>1. s \in TargetIds /\ c \in Live /\ targets[c].parent = s /\ s # NoParent
    BY DEF TargetIds, Children, NoParent
  <2>2. c \in 1 .. MaxTargets /\ s \in 1 .. c - 1
    BY <2>1, ParentIs DEF TargetIds
  <2> QED
    BY <2>2
<1>2. MaxTargets \in Nat
  BY BoundsAssumption
<1> HIDE DEF kids
<1>3. PICK f : IsDescent(f, MaxTargets, kids)
  BY <1>1, <1>2, DescentExists
<1>4. \A s \in TargetIds : kids[s] = Children(s)
  BY DEF kids
<1>5. f = Body(f)
  BY <1>3, <1>4 DEF TargetIds, IsDescent
<1>6. Subtree = Body(Subtree)
  <2>1. Subtree = CHOOSE g : g = Body(g)
    BY DEF Subtree
  <2> HIDE DEF Body
  <2> QED
    BY <1>5, <2>1
<1>7. Subtree[t] = {t} \union UNION {Subtree[c] : c \in Children(t)}
  <2>1. t \in TargetIds
    BY ParentIs
  <2>2. Subtree[t] = Body(Subtree)[t]
    BY <1>6
  <2> QED
    BY <2>1, <2>2
<1> QED
  BY <1>7

(***************************************************************************)
(* Climbing, by the least target for which it fails.                       *)
(***************************************************************************)
TopOK(t) ==
    /\ TopTarget[t] \in Live
    /\ targets[TopTarget[t]].owner = targets[t].owner
    /\ targets[TopTarget[t]].parent = NoParent
    /\ FindRoot[t] = IF targets[TopTarget[t]].layer = 0 THEN TopTarget[t] ELSE NoRoot

LEMMA ClimbsAgree ==
    ASSUME TableOK
    PROVE  \A t \in Live : TopOK(t)
<1> DEFINE T == {t \in Live : ~TopOK(t)}
<1> SUFFICES ASSUME T # {} PROVE FALSE
  OBVIOUS
<1>1. T \subseteq Nat
  BY DEF Live, TargetIds
<1>2. PICK t \in T : \A x \in T : t <= x
  <2> HIDE DEF T
  <2> QED
    BY <1>1, LeastNat
<1> DEFINE p == targets[t].parent
<1>3. t \in Live /\ ~TopOK(t)
  OBVIOUS
<1>4. CASE p = NoParent
  <2>1. TopTarget[t] = t /\ p \notin Live
    BY <1>3, <1>4, TopTargetIs, ParentIs
  <2>2. FindRoot[t] = IF targets[t].layer = 0 THEN t ELSE NoRoot
    BY <1>3, <2>1, FindRootIs
  <2> QED
    BY <1>3, <1>4, <2>1, <2>2 DEF TopOK
<1>5. CASE p # NoParent
  <2>1. /\ p \in Live /\ p \in 1 .. t - 1 /\ targets[p].owner = targets[t].owner
        /\ targets[t].layer # 0
    BY <1>3, <1>5, ParentIs
  <2>2. TopOK(p)
    <3>1. p \in Nat /\ t \in Nat /\ ~(t <= p)
      BY <1>1, <2>1
    <3>2. p \notin T
      BY <1>2, <3>1
    <3> QED
      BY <2>1, <3>2
  <2>3. TopTarget[t] = TopTarget[p]
    BY <1>3, <1>5, TopTargetIs
  <2>4. FindRoot[t] = IF targets[p].layer = 0 THEN p ELSE FindRoot[p]
    BY <1>3, <2>1, FindRootIs
  <2>5. targets[p].layer = 0 => FindRoot[p] = p
    BY <2>1, FindRootIs
  <2>6. FindRoot[t] = FindRoot[p]
    BY <2>4, <2>5
  <2> QED
    BY <1>3, <2>1, <2>2, <2>3, <2>6 DEF TopOK
<1> QED
  BY <1>4, <1>5

(***************************************************************************)
(* Descending, by the greatest target for which it fails: what is found    *)
(* under a target is a target of the same owner, under the same head, and  *)
(* its children are found with it.                                         *)
(***************************************************************************)
TreeOK(t) ==
    \A x \in Subtree[t] :
        /\ x \in Live
        /\ targets[x].owner = targets[t].owner
        /\ TopTarget[x] = TopTarget[t]
        /\ Children(x) \subseteq Subtree[t]

LEMMA TreesOK ==
    ASSUME TableOK
    PROVE  \A t \in Live : TreeOK(t)
<1> DEFINE T == {t \in Live : ~TreeOK(t)}
<1> SUFFICES ASSUME T # {} PROVE FALSE
  OBVIOUS
<1>1. T \subseteq 0 .. MaxTargets /\ MaxTargets \in Nat
  BY BoundsAssumption DEF Live, TargetIds
<1>2. PICK t \in T : \A y \in T : y <= t
  <2> HIDE DEF T
  <2> QED
    BY <1>1, GreatestNat
<1>3. t \in Live /\ ~TreeOK(t)
  OBVIOUS
<1>4. ASSUME NEW c \in Children(t)
      PROVE  /\ c \in Live /\ TreeOK(c)
             /\ targets[c].owner = targets[t].owner /\ TopTarget[c] = TopTarget[t]
  <2>1. c \in Live /\ targets[c].parent = t /\ t # NoParent
    BY <1>3 DEF Children, Live, TargetIds, NoParent
  <2>2. t \in 1 .. c - 1 /\ targets[c].owner = targets[t].owner /\ c \in TargetIds
    BY <2>1, ParentIs
  <2>3. TopTarget[c] = TopTarget[t]
    BY <2>1, TopTargetIs
  <2>4. c \notin T
    <3>1. c \in Nat /\ t \in Nat /\ ~(c <= t)
      BY <2>2 DEF TargetIds
    <3> QED
      BY <1>2, <3>1
  <2> QED
    BY <2>1, <2>2, <2>3, <2>4
<1> HIDE DEF T
<1>5. ASSUME NEW x \in Subtree[t]
      PROVE  /\ x \in Live
             /\ targets[x].owner = targets[t].owner
             /\ TopTarget[x] = TopTarget[t]
             /\ Children(x) \subseteq Subtree[t]
  <2>1. CASE x = t
    <3>1. \A c \in Children(t) : c \in Subtree[c]
      BY <1>4, SubtreeIs
    <3>2. Children(t) \subseteq Subtree[t]
      BY <1>3, <3>1, SubtreeIs
    <3> QED
      BY <1>3, <2>1, <3>2
  <2>2. ASSUME NEW c \in Children(t), x \in Subtree[c]
        PROVE  /\ x \in Live
               /\ targets[x].owner = targets[t].owner
               /\ TopTarget[x] = TopTarget[t]
               /\ Children(x) \subseteq Subtree[t]
    <3>1. /\ x \in Live /\ targets[x].owner = targets[c].owner
          /\ TopTarget[x] = TopTarget[c] /\ Children(x) \subseteq Subtree[c]
      BY <1>4, <2>2 DEF TreeOK
    <3>2. Subtree[c] \subseteq Subtree[t]
      BY <1>3, SubtreeIs
    <3> QED
      BY <1>4, <3>1, <3>2
  <2> QED
    BY <1>3, <2>1, <2>2, SubtreeIs
<1> QED
  BY <1>3, <1>5 DEF TreeOK

\* Every target is found under its head.
LEMMA HeadsReachAll ==
    ASSUME TableOK
    PROVE  \A t \in Live : t \in Subtree[TopTarget[t]]
<1> DEFINE T == {t \in Live : t \notin Subtree[TopTarget[t]]}
<1> SUFFICES ASSUME T # {} PROVE FALSE
  OBVIOUS
<1>1. T \subseteq Nat
  BY DEF Live, TargetIds
<1>2. PICK t \in T : \A x \in T : t <= x
  <2> HIDE DEF T
  <2> QED
    BY <1>1, LeastNat
<1> DEFINE p == targets[t].parent
<1>3. t \in Live /\ t \notin Subtree[TopTarget[t]]
  OBVIOUS
<1>4. p # NoParent
  <2>1. t \in Subtree[t]
    BY <1>3, SubtreeIs
  <2> QED
    BY <1>3, <2>1, TopTargetIs
<1>5. p \in Live /\ p \in 1 .. t - 1 /\ t \in Children(p) /\ TopTarget[t] = TopTarget[p]
  BY <1>3, <1>4, ParentIs, TopTargetIs
<1>6. p \in Subtree[TopTarget[p]]
  <2>1. p \in Nat /\ t \in Nat /\ ~(t <= p)
    BY <1>1, <1>5
  <2>2. p \notin T
    BY <1>2, <2>1
  <2> QED
    BY <1>5, <2>2
<1>7. TopTarget[p] \in Live
  BY <1>5, ClimbsAgree DEF TopOK
<1>8. Children(p) \subseteq Subtree[TopTarget[p]]
  BY <1>6, <1>7, TreesOK DEF TreeOK
<1> QED
  BY <1>3, <1>5, <1>8

LEMMA TableAlways == Spec => []TableOK
<1>1. TypeInv /\ ForestInv => TypeOK /\ ForestOK
  BY DEF TypeInv, ForestInv
<1>2. Init => TypeInv /\ ForestInv /\ AbsentInv
  BY TypeInit, ForestInit, AbsentInit
<1>3. TypeInv /\ ForestInv /\ AbsentInv /\ [Next]_vars => (TypeInv /\ ForestInv /\ AbsentInv)'
  BY TypeNext, ForestNext, AbsentNext
<1> QED
  BY <1>1, <1>2, <1>3, PTL DEF Spec, TableOK

(***************************************************************************)
(* From the list GetTargets answers first, a user reaches each of his      *)
(* targets along one path, and nobody else's, although the descent of      *)
(* getChildrenTargets asks for no owner.                                   *)
(***************************************************************************)
THEOREM ListReachesAllAlways == Spec => []ListReachesAll
<1>1. TableOK => ListReachesAll
  <2> SUFFICES ASSUME TableOK, NEW u \in Users
               PROVE  /\ UNION {Subtree[t] : t \in ListTargets(u, NoParent)}
                           = {t \in Live : targets[t].owner = u}
                      /\ \A s, t \in ListTargets(u, NoParent) :
                            s # t => Subtree[s] \intersect Subtree[t] = {}
    BY DEF ListReachesAll
  <2> DEFINE Heads == ListTargets(u, NoParent)
             Mine == {t \in Live : targets[t].owner = u}
  <2>1. \A t : t \in Heads <=> t \in Mine /\ targets[t].parent = NoParent
    BY DEF ListTargets
  <2> HIDE DEF Heads
  <2>2. \A t \in Heads : t \in Live /\ targets[t].owner = u /\ TopTarget[t] = t
    BY <2>1, TopTargetIs
  <2>3. \A t \in Heads : TreeOK(t)
    BY <2>2, TreesOK
  <2>4. \A t \in Heads : \A x \in Subtree[t] : x \in Mine /\ TopTarget[x] = t
    BY <2>2, <2>3 DEF TreeOK
  <2>5. \A x \in Mine : TopTarget[x] \in Heads /\ x \in Subtree[TopTarget[x]]
    BY <2>1, ClimbsAgree, HeadsReachAll DEF TopOK
  <2>6. UNION {Subtree[t] : t \in Heads} = Mine
    <3> HIDE DEF Mine
    <3>1. \A x : x \in UNION {Subtree[t] : t \in Heads} <=> \E t \in Heads : x \in Subtree[t]
      OBVIOUS
    <3>2. \A x : x \in UNION {Subtree[t] : t \in Heads} <=> x \in Mine
      BY <2>4, <2>5, <3>1
    <3> QED
      BY <3>2
  <2>7. \A s, t \in Heads : s # t => Subtree[s] \intersect Subtree[t] = {}
    BY <2>4
  <2> QED
    BY <2>6, <2>7 DEF Heads
<1> QED
  BY <1>1, TableAlways, PTL

(***************************************************************************)
(* findRootTarget and GetTopTargetByTargetID agree on the head of a tree,  *)
(* and the former fails exactly when the head lost its parents.            *)
(***************************************************************************)
THEOREM LookupsAgreeAlways == Spec => []LookupsAgree
<1>1. TableOK => LookupsAgree
  BY ClimbsAgree DEF LookupsAgree, TopOK, ListTargets
<1> QED
  BY <1>1, TableAlways, PTL
=============================================================================
