---------------------------- MODULE TargetViews ----------------------------
(***************************************************************************)
(* What the read calls answer on the table of Targets: GetTargets,         *)
(* GetTargetTree with its climb to the root and its descent, and the climb *)
(* with which the statistics find the target a step counts for.  Each is   *)
(* evaluated on one state of the table: their statements are not           *)
(* interleaved with writes here.                                           *)
(***************************************************************************)
EXTENDS Targets

NoRoot == 0

\* findRootTarget: the answer, or NoRoot where the code returns an error.
FindRoot[t \in TargetIds] ==
    LET p == targets[t].parent IN
    IF targets[t].layer = 0 THEN t
    ELSE IF p \notin Live THEN NoRoot
    ELSE IF targets[p].layer = 0 THEN p
    ELSE FindRoot[p]

\* GetTopTargetByTargetID: unlike findRootTarget it stops at a lost parent.
TopTarget[t \in TargetIds] ==
    IF targets[t].layer = 0 \/ targets[t].parent = NoParent THEN t
    ELSE TopTarget[targets[t].parent]

\* getChildrenTargets: the nodes under t, by parent id and whoever owns them.
Subtree[t \in TargetIds] == {t} \union UNION {Subtree[c] : c \in Children(t)}

\* Mutant: the first list is taken by layer.
ListTargetsByLayer(u, p) == IF p = NoParent
                            THEN {t \in Live : targets[t].owner = u /\ targets[t].layer = 0}
                            ELSE Children(p)

\* GetTargets: with parent 0 the targets of the user that have no parent.
ListTargets(u, p) == IF p = NoParent
                     THEN {t \in Live : targets[t].owner = u /\ targets[t].parent = NoParent}
                     ELSE Children(p)

-----------------------------------------------------------------------------
(***************************************************************************)
(* From the list a user sees first, the client can reach each of the       *)
(* user's targets by expanding children, along one path only, and it never *)
(* meets a target of somebody else, although the descent asks for no owner.*)
(***************************************************************************)
ListReachesAll ==
    \A u \in Users :
        /\ UNION {Subtree[t] : t \in ListTargets(u, NoParent)}
             = {t \in Live : targets[t].owner = u}
        /\ \A s, t \in ListTargets(u, NoParent) : s # t => Subtree[s] \intersect Subtree[t] = {}

(***************************************************************************)
(* The two climbs, written twice with different stopping rules, agree: the *)
(* statistics count a step for the target at the head of the tree that     *)
(* GetTargetTree shows, or GetTargetTree fails, and it fails exactly when  *)
(* the head has lost the parents it was created under.                     *)
(***************************************************************************)
LookupsAgree ==
    \A t \in Live :
        LET top == TopTarget[t] IN
        /\ top \in ListTargets(targets[t].owner, NoParent)
        /\ FindRoot[t] = IF targets[top].layer = 0 THEN top ELSE NoRoot

(***************************************************************************)
(* step.proto says of DeleteTarget that it deletes the sub-targets of the  *)
(* target as well.                                                         *)
(***************************************************************************)
DeleteCascades ==
    [][\A t \in Live : targets'[t].owner = NoUser =>
          \A c \in Children(t) : targets'[c].owner = NoUser]_vars
=============================================================================
