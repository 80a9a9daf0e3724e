---------------------------- MODULE TargetForest ----------------------------
(***************************************************************************)
(* What the target calls promise of the table `targets`, each as one step: *)
(* a target is created under a parent that is there, of the same user, one *)
(* layer up; it is deleted and its children lose their parent; its status  *)
(* is set, never to init.  Targets, which reads and writes in separate     *)
(* statements, implements it.                                              *)
(***************************************************************************)
EXTENDS Naturals

CONSTANTS Users, NoUser, MaxTargets

VARIABLES
    targets,   \* id -> row
    nextId     \* the id of the next target

vars == <<targets, nextId>>

NoParent == 0
Ids      == 1 .. MaxTargets
Absent   == [owner |-> NoUser, parent |-> NoParent, layer |-> 0, status |-> "init"]
Present  == {t \in Ids : targets[t].owner # NoUser}

Init == /\ targets = [t \in Ids |-> Absent]
        /\ nextId = 1

Add(row) == /\ nextId \in Ids
            /\ targets' = [targets EXCEPT ![nextId] = row]
            /\ nextId' = nextId + 1

CreateTop(u) == Add([owner |-> u, parent |-> NoParent, layer |-> 0, status |-> "init"])

CreateUnder(u, p) ==
    /\ p \in Present
    /\ targets[p].owner = u
    /\ Add([owner |-> u, parent |-> p, layer |-> targets[p].layer + 1, status |-> "init"])

Delete(t) ==
    /\ t \in Present
    /\ targets' = [c \in Ids |-> IF c = t THEN Absent
                                 ELSE IF targets[c].parent = t
                                      THEN [targets[c] EXCEPT !.parent = NoParent]
                                      ELSE targets[c]]
    /\ UNCHANGED nextId

SetStatus(t, goal) ==
    /\ t \in Present
    /\ targets' = [targets EXCEPT ![t].status = goal]
    /\ UNCHANGED nextId

Next == \/ \E u \in Users : CreateTop(u) \/ \E p \in Ids : CreateUnder(u, p)
        \/ \E t \in Ids : Delete(t) \/ \E goal \in {"step", "step_hard", "done"} : SetStatus(t, goal)

Spec == Init /\ [][Next]_vars
=============================================================================
