----------------------------- MODULE TaskQueue -----------------------------
(***************************************************************************)
(* What the Asynq queue promises to the code that uses it, whatever runs   *)
(* the handlers: an accepted task is handed to one worker at a time, again *)
(* after a failure, until it is done or its attempts are used up.          *)
(* Statistics implements it.  Asynq is a library: this is how              *)
(* src/internal/data/asynq-enqueue.go and src/internal/server/asynq.go     *)
(* use it.                                                                 *)
(***************************************************************************)
EXTENDS Naturals

CONSTANTS
    Tasks,
    MaxAttempts   \* how often a task is tried before it is archived

VARIABLES
    status,       \* where each task is
    attempts      \* how often it was handed to a worker

vars == <<status, attempts>>

Statuses == {"new", "pending", "active", "retry", "done", "archived"}

Init == /\ status = [t \in Tasks |-> "new"]
        /\ attempts = [t \in Tasks |-> 0]

Move(t, from, to) == /\ status[t] = from
                     /\ status' = [status EXCEPT ![t] = to]

Enqueue(t) == Move(t, "new", "pending") /\ UNCHANGED attempts

Take(t) == /\ Move(t, "pending", "active")
           /\ attempts' = [attempts EXCEPT ![t] = @ + 1]

Finish(t) == Move(t, "active", "done") /\ UNCHANGED attempts

Fail(t) == /\ Move(t, "active", IF attempts[t] < MaxAttempts THEN "retry" ELSE "archived")
           /\ UNCHANGED attempts

Retry(t) == Move(t, "retry", "pending") /\ UNCHANGED attempts

Next == \E t \in Tasks : Enqueue(t) \/ Take(t) \/ Finish(t) \/ Fail(t) \/ Retry(t)

Spec == Init /\ [][Next]_vars

FairSpec == /\ Spec
            /\ \A t \in Tasks : /\ WF_vars(Take(t))
                                /\ WF_vars(Finish(t) \/ Fail(t))
                                /\ WF_vars(Retry(t))
=============================================================================
