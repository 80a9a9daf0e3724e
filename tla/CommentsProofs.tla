--------------------------- MODULE CommentsProofs ---------------------------
(* Theorems about Comments, for all steps, kinds, requests and bounds. *)
EXTENDS Comments, TLAPS

(***************************************************************************)
(* First layer: types, that a task which may be taken again has attempts   *)
(* left, and that only a request that is over has enqueued its task.       *)
(***************************************************************************)
Asked == [pc : {"write", "enqueue", "refused", "over"}, step : Steps, kind : Kinds, text : Texts]

TypeInv == /\ TypeOK
           /\ \A t \in Tasks : task[t].at \in {"new", "pending", "retry"} => task[t].tries < MaxAttempts
           /\ \A c \in Commenters : task[c].at # "new" => comment[c] \in Asked /\ comment[c].pc = "over"
           /\ \A s \in Steps : upload[s] # "over" => task[s].at = "new"

Stages == {"new", "pending", "retry", "done", "archived"} \union Active
ATask  == [at : Stages, tries : 0 .. MaxAttempts, text : Texts]

LEMMA IdleNotAsked == Idle \notin Asked /\ \A q \in Asked : q.pc # "idle"
BY DEF Idle, Asked

LEMMA TypeInit == Init => TypeInv
<1> SUFFICES ASSUME Init PROVE TypeInv
  OBVIOUS
<1>1. NewTask \in ATask /\ NewTask.tries < MaxAttempts
  BY BoundsAssumption DEF NewTask, ATask, Stages, Texts, BoundsAssumption
<1>2. task \in [Tasks -> ATask] /\ \A t \in Tasks : task[t] = NewTask
  BY <1>1 DEF Init
<1>3. counted \in [Steps -> [Texts -> Nat]] /\ column \in [Steps -> [Kinds -> Texts]]
  BY DEF Init, Texts
<1>4. faults \in 0 .. MaxFaults
  BY BoundsAssumption DEF Init, BoundsAssumption
<1>5. Commenters \subseteq Tasks /\ Steps \subseteq Tasks /\ NewTask.at = "new"
  BY DEF Tasks, NewTask
<1> QED
  BY <1>1, <1>2, <1>3, <1>4, <1>5 DEF Init, TypeInv, TypeOK, ATask, Stages

\* What a step that moves one task and nothing it depends on must do.
LEMMA TypeMove ==
    ASSUME TypeInv, NEW t \in Tasks, NEW to \in ATask,
           task' = [task EXCEPT ![t] = to],
           to.at \in {"new", "pending", "retry"} => to.tries < MaxAttempts,
           t \in Commenters /\ to.at # "new" => comment[t] \in Asked /\ comment[t].pc = "over",
           UNCHANGED comment
    PROVE  /\ task' \in [Tasks -> ATask]
           /\ \A x \in Tasks : task'[x].at \in {"new", "pending", "retry"} => task'[x].tries < MaxAttempts
           /\ \A c \in Commenters : task'[c].at # "new" => comment'[c] \in Asked /\ comment'[c].pc = "over"
<1>1. task \in [Tasks -> ATask]
  BY DEF TypeInv, TypeOK, ATask, Stages
<1>2. Commenters \subseteq Tasks
  BY DEF Tasks
<1> QED
  BY <1>1, <1>2 DEF TypeInv

(***************************************************************************)
(* Every action that works on a task moves that one, in one of these ways. *)
(***************************************************************************)
Same(t) == task'[t].tries = task[t].tries /\ task'[t].text = task[t].text

GivenBack(t) == /\ task[t].at \in Active
                /\ task'[t].at = (IF task[t].tries < MaxAttempts THEN "retry" ELSE "archived")
                /\ Same(t)

Handed(t) == \/ /\ task[t].at = "pending" /\ task'[t].at = "look"
                /\ task'[t].tries = task[t].tries + 1 /\ task'[t].text = task[t].text
             \/ task[t].at = "retry" /\ task'[t].at = "pending" /\ Same(t)
             \/ GivenBack(t)
             \/ /\ task[t].at = "look" /\ task'[t].at = (IF t \in Steps THEN "rate" ELSE "read")
                /\ Same(t)
             \/ task[t].at = "ack" /\ task'[t].at = "done" /\ Same(t)

Moved(t) == task'[t] \in ATask /\ task' = [task EXCEPT ![t] = task'[t]]

LEMMA AdvanceMoves ==
    ASSUME TypeInv, NEW t \in Tasks, NEW at \in Stages, Advance(t, at)
    PROVE  Moved(t) /\ Same(t) /\ task'[t].at = at
<1>1. task[t] \in ATask /\ task \in [Tasks -> ATask]
  BY DEF TypeInv, TypeOK, ATask, Stages
<1>2. task'[t] = [task[t] EXCEPT !.at = at] /\ task' = [task EXCEPT ![t] = task'[t]]
  BY <1>1 DEF Advance
<1> QED
  BY <1>1, <1>2 DEF Moved, Same, ATask

LEMMA FailMoves ==
    ASSUME TypeInv, NEW t \in Tasks, task[t].at \in Active, Fail(t)
    PROVE  Moved(t) /\ GivenBack(t)
<1>1. (IF task[t].tries < MaxAttempts THEN "retry" ELSE "archived") \in Stages
  BY DEF Stages
<1> QED
  BY <1>1, AdvanceMoves DEF Fail, GivenBack

LEMMA Handing ==
    ASSUME TypeInv, NEW t \in Tasks, Take(t) \/ Retry(t) \/ Crash(t) \/ Look(t) \/ Ack(t)
    PROVE  Moved(t) /\ Handed(t)
<1>0. task[t] \in ATask /\ task \in [Tasks -> ATask]
  BY DEF TypeInv, TypeOK, ATask, Stages
<1>1. CASE Take(t)
  <2>1. task'[t] = [task[t] EXCEPT !.at = "look", !.tries = @ + 1] /\ task' = [task EXCEPT ![t] = task'[t]]
    BY <1>0, <1>1 DEF Take
  <2>2. task[t].tries + 1 \in 0 .. MaxAttempts
    BY <1>0, <1>1, BoundsAssumption DEF Take, TypeInv, ATask, BoundsAssumption
  <2>3. "look" \in Stages
    BY DEF Stages, Active
  <2> QED
    BY <1>0, <1>1, <2>1, <2>2, <2>3 DEF Moved, Handed, ATask, Take
<1>2. CASE Retry(t)
  BY <1>2, AdvanceMoves DEF Retry, Handed, Stages
<1>3. CASE Crash(t)
  BY <1>3, FailMoves DEF Crash, Handed
<1>4. CASE Look(t)
  <2>1. task[t].at = "look" /\ "look" \in Active
    BY <1>4 DEF Look, Active
  <2>2. (IF t \in Steps THEN "rate" ELSE "read") \in Stages
    BY DEF Stages, Active
  <2>3. Fail(t) \/ Advance(t, IF t \in Steps THEN "rate" ELSE "read")
    BY <1>4 DEF Look
  <2>4. CASE Fail(t)
    BY <2>1, <2>4, FailMoves DEF Handed
  <2>5. CASE Advance(t, IF t \in Steps THEN "rate" ELSE "read")
    BY <2>1, <2>2, <2>5, AdvanceMoves DEF Handed
  <2> QED
    BY <2>3, <2>4, <2>5
<1>5. CASE Ack(t)
  BY <1>5, AdvanceMoves DEF Ack, Handed, Stages
<1> QED
  BY <1>1, <1>2, <1>3, <1>4, <1>5

LEMMA HandedTypes ==
    ASSUME TypeInv, NEW t \in Tasks, Moved(t), Handed(t), UNCHANGED comment
    PROVE  /\ task' \in [Tasks -> ATask]
           /\ \A x \in Tasks : task'[x].at \in {"new", "pending", "retry"} => task'[x].tries < MaxAttempts
           /\ \A c \in Commenters : task'[c].at # "new" => comment'[c] \in Asked /\ comment'[c].pc = "over"
           /\ \A s \in Steps : upload[s] # "over" => task'[s].at = "new"
<1>1. task[t].at # "new"
  BY DEF Handed, GivenBack, Active
<1>2. task'[t].at \in {"new", "pending", "retry"} => task'[t].tries < MaxAttempts
  BY DEF Handed, GivenBack, Same, TypeInv, Active
<1>3. t \in Commenters => comment[t] \in Asked /\ comment[t].pc = "over"
  BY <1>1 DEF TypeInv
<1>4. task'[t] \in ATask /\ task' = [task EXCEPT ![t] = task'[t]]
  BY DEF Moved
<1> HIDE DEF Moved, Handed
<1> QED
  <2>1. Steps \subseteq Tasks /\ task \in [Tasks -> ATask]
    BY DEF Tasks, TypeInv, TypeOK, ATask, Stages
  <2>2. \A s \in Steps : upload[s] # "over" => task'[s].at = "new"
    BY <1>1, <1>4, <2>1 DEF TypeInv
  <2> QED
    BY <1>2, <1>3, <1>4, <2>2, TypeMove

\* The three statements that do more than move their task.
LEMMA CreateRateMoves ==
    ASSUME TypeInv, NEW s \in Steps, CreateRate(s)
    PROVE  /\ Moved(s) /\ task[s].at = "rate"
           /\ \/ s \in rated /\ GivenBack(s) /\ UNCHANGED rated
              \/ s \notin rated /\ rated' = rated \union {s} /\ task'[s].at = "ack" /\ Same(s)
<1>1. s \in Tasks /\ "rate" \in Active /\ "ack" \in Stages
  BY DEF Tasks, Active, Stages
<1> QED
  BY <1>1, FailMoves, AdvanceMoves DEF CreateRate

LEMMA ReadCommentMoves ==
    ASSUME TypeInv, NEW c \in Commenters, ReadComment(c)
    PROVE  /\ Moved(c) /\ task[c].at = "read"
           /\ comment[c] \in Asked /\ comment[c].pc = "over"
           /\ \/ GivenBack(c)
              \/ /\ task'[c].at = "rate" /\ task'[c].tries = task[c].tries
                 /\ task'[c].text = column[comment[c].step][comment[c].kind]
<1>1. c \in Tasks /\ c \notin Steps /\ "read" \in Active
  BY TasksAssumption DEF Tasks, Active, TasksAssumption
<1>2. comment[c] \in Asked /\ comment[c].pc = "over"
  BY DEF ReadComment, TypeInv
<1>3. CASE Fail(c)
  BY <1>1, <1>2, <1>3, FailMoves DEF ReadComment
<1>4. CASE ~Fail(c)
  <2> DEFINE x == column[comment[c].step][comment[c].kind]
  <2>1. task[c] \in ATask /\ task \in [Tasks -> ATask]
    BY <1>1 DEF TypeInv, TypeOK, ATask, Stages
  <2>2. task' = [task EXCEPT ![c].at = "rate", ![c].text = x]
    BY <1>1, <1>4 DEF ReadComment
  <2>3. x \in Texts
    BY <1>2 DEF TypeInv, TypeOK, Asked
  <2>4. task'[c] = [task[c] EXCEPT !.at = "rate", !.text = x] /\ task' = [task EXCEPT ![c] = task'[c]]
    BY <1>1, <2>1, <2>2
  <2>5. task'[c] \in ATask
    BY <2>1, <2>3, <2>4 DEF ATask, Stages, Active
  <2> QED
    BY <1>2, <2>1, <2>4, <2>5 DEF ReadComment, Moved, ATask
<1> QED
  BY <1>3, <1>4

LEMMA AddToRateMoves ==
    ASSUME TypeInv, NEW c \in Commenters, AddToRate(c)
    PROVE  /\ Moved(c) /\ task[c].at = "rate" /\ task'[c].at = "ack" /\ Same(c)
           /\ comment[c] \in Asked /\ comment[c].pc = "over" /\ task[c].text \in Texts
           /\ \/ /\ comment[c].step \in rated /\ UNCHANGED early
                 /\ counted' = [counted EXCEPT ![comment[c].step][task[c].text] = @ + 1]
              \/ /\ comment[c].step \notin rated /\ UNCHANGED counted
                 /\ early' = early \union {c}
<1>1. c \in Tasks /\ c \notin Steps /\ "ack" \in Stages
  BY TasksAssumption DEF Tasks, Active, Stages, TasksAssumption
<1>2. comment[c] \in Asked /\ comment[c].pc = "over" /\ task[c].text \in Texts
  BY <1>1 DEF AddToRate, TypeInv, TypeOK
<1> QED
  BY <1>1, <1>2, AdvanceMoves DEF AddToRate

\* What happens to a step but for its upload and its deletion.
Inserted(s) == \/ \E type \in Types, places \in {{"own"}, Places} : InsertStep(s, type, places)
               \/ InsertDir(s)

Changed(s) == \/ FindTarget(s)
              \/ \E type \in Types : SetType(s, type)
              \/ \E places \in SUBSET Places : LoseTarget(s, places)

LEMMA TypeNext == TypeInv /\ [Next]_vars => TypeInv'
<1> SUFFICES ASSUME TypeInv, [Next]_vars PROVE TypeInv'
  OBVIOUS
<1>t. task \in [Tasks -> ATask] /\ Commenters \subseteq Tasks /\ Steps \subseteq Tasks
  BY DEF TypeInv, TypeOK, ATask, Stages, Tasks
<1>c. comment \in [Commenters -> {Idle} \union Asked]
  BY DEF TypeInv, TypeOK, Asked
<1>f. Fault \/ UNCHANGED faults => faults' \in 0 .. MaxFaults
  BY BoundsAssumption DEF Fault, TypeInv, TypeOK, BoundsAssumption
<1>a. ASSUME NEW t \in Tasks, Moved(t), task[t].at # "new", UNCHANGED comment,
             task'[t].at \in {"new", "pending", "retry"} => task'[t].tries < MaxAttempts
      PROVE  /\ task' \in [Tasks -> [at    : {"new", "pending", "retry", "done", "archived"} \union Active,
                                     tries : 0 .. MaxAttempts,
                                     text  : Texts]]
             /\ \A x \in Tasks : task'[x].at \in {"new", "pending", "retry"} => task'[x].tries < MaxAttempts
             /\ \A c \in Commenters : task'[c].at # "new" => comment'[c] \in Asked /\ comment'[c].pc = "over"
             /\ \A s \in Steps : upload[s] # "over" => task'[s].at = "new"
  <2>1. t \in Commenters => comment[t] \in Asked /\ comment[t].pc = "over"
    BY <1>a DEF TypeInv
  <2> QED
    BY <1>a, <1>t, <2>1, TypeMove DEF Moved, TypeInv, ATask, Stages
<1>b. ASSUME NEW t \in Tasks, task[t].at = "new", Pending(t), UNCHANGED <<rates, tables, met>>,
             t \in Commenters => comment'[t] \in Asked /\ comment'[t].pc = "over",
             \A c \in Commenters \ {t} : comment'[c] = comment[c]
      PROVE  /\ task' \in [Tasks -> [at    : {"new", "pending", "retry", "done", "archived"} \union Active,
                                     tries : 0 .. MaxAttempts,
                                     text  : Texts]]
             /\ \A x \in Tasks : task'[x].at \in {"new", "pending", "retry"} => task'[x].tries < MaxAttempts
             /\ \A c \in Commenters : task'[c].at # "new" => comment'[c] \in Asked /\ comment'[c].pc = "over"
             /\ \A s \in Steps \ {t} : upload[s] # "over" => task'[s].at = "new"
  <2>1. Moved(t) /\ Same(t) /\ task'[t].at = "pending"
    BY <1>b, AdvanceMoves DEF Pending, Advance, Stages
  <2>2. task[t].tries < MaxAttempts
    BY <1>b DEF TypeInv
  <2> QED
    BY <1>t, <1>b, <2>1, <2>2 DEF Moved, Same, TypeInv, ATask, Stages
<1>1. ASSUME NEW s \in Steps, Inserted(s) PROVE TypeInv'
  <2>1. PICK type \in {"file", "dir"}, places \in SUBSET Places, pc \in {"walk", "over"} : Insert(s, type, places, pc)
    <3>1. CASE InsertDir(s)
      BY <3>1 DEF InsertDir, Places
    <3>2. ASSUME NEW type \in Types, NEW places \in {{"own"}, Places}, InsertStep(s, type, places)
          PROVE  \E p \in SUBSET Places : Insert(s, type, p, "walk")
      <4>1. places \in SUBSET Places
        BY DEF Places
      <4> QED
        BY <3>2, <4>1 DEF InsertStep
    <3> QED
      BY <1>1, <3>1, <3>2 DEF Inserted, Types
  <2>2. /\ row \in [Steps -> {"none", "file", "dir", "deleted"}] /\ reach \in [Steps -> SUBSET Places]
        /\ upload \in [Steps -> {"idle", "walk", "enqueue", "over"}]
    BY DEF TypeInv, TypeOK
  <2>3. /\ row' \in [Steps -> {"none", "file", "dir", "deleted"}] /\ reach' \in [Steps -> SUBSET Places]
        /\ upload' \in [Steps -> {"idle", "walk", "enqueue", "over"}]
    BY <2>1, <2>2 DEF Insert
  <2>4. \A x \in Steps : upload'[x] # "over" => upload[x] # "over"
    BY <2>1, <2>2 DEF Insert
  <2>5. UNCHANGED <<passed, column, comment, task, rates, faults, met>>
    BY <2>1 DEF Insert
  <2> QED
    BY <2>3, <2>4, <2>5 DEF rates, TypeInv, TypeOK
<1>2. ASSUME NEW s \in Steps, Walk(s) PROVE TypeInv'
  <2>1. faults' \in 0 .. MaxFaults /\ upload' \in [Steps -> {"idle", "walk", "enqueue", "over"}]
    BY <1>2, <1>f DEF Walk, TypeInv, TypeOK
  <2> QED
    BY <1>2, <2>1 DEF Walk, rates, tables, TypeInv, TypeOK
<1>3. ASSUME NEW s \in Steps, EnqueueStep(s) PROVE TypeInv'
  <2>1. CASE UNCHANGED task
    <3>1. faults' \in 0 .. MaxFaults /\ upload' \in [Steps -> {"idle", "walk", "enqueue", "over"}]
      BY <1>3, <1>f DEF EnqueueStep, TypeInv, TypeOK
    <3> QED
      BY <1>3, <2>1, <3>1 DEF EnqueueStep, rates, tables, TypeInv, TypeOK
  <2>2. CASE Pending(s) /\ UNCHANGED faults
    <3>1. s \notin Commenters /\ task[s].at = "new"
      BY <1>3, TasksAssumption DEF TasksAssumption, EnqueueStep, TypeInv
    <3>2. upload'[s] = "over" /\ \A x \in Steps \ {s} : upload'[x] = upload[x]
      BY <1>3 DEF EnqueueStep, TypeInv, TypeOK
    <3> QED
      BY <1>3, <1>t, <1>b, <2>2, <3>1, <3>2 DEF EnqueueStep, rates, tables, TypeInv, TypeOK
  <2> QED
    BY <1>3, <2>1, <2>2 DEF EnqueueStep
<1>4. ASSUME NEW s \in Steps, DeleteRow(s) \/ Changed(s) PROVE TypeInv'
  <2>1. [k \in Kinds |-> NoText] \in [Kinds -> Texts]
    BY DEF Texts
  <2>2. CASE DeleteRow(s)
    <3>1. column' \in [Steps -> [Kinds -> Texts]]
      BY <2>1, <2>2 DEF DeleteRow, TypeInv, TypeOK
    <3> QED
      BY <2>2, <3>1 DEF DeleteRow, rates, requests, TypeInv, TypeOK
  <2>3. CASE Changed(s)
    <3>0. /\ row \in [Steps -> {"none", "file", "dir", "deleted"}] /\ passed \subseteq Steps
          /\ reach \in [Steps -> SUBSET Places]
      BY DEF TypeInv, TypeOK
    <3>b. ASSUME NEW type \in Types, SetType(s, type)
          PROVE  row' \in [Steps -> {"none", "file", "dir", "deleted"}] /\ UNCHANGED <<reach, passed>>
      BY <3>0, <3>b DEF SetType, Types
    <3>c. ASSUME NEW places \in SUBSET Places, LoseTarget(s, places)
          PROVE  reach' \in [Steps -> SUBSET Places] /\ UNCHANGED <<row, passed>>
      BY <3>0, <3>c DEF LoseTarget
    <3>1. /\ UNCHANGED <<column, requests, task, rates, faults, met>>
          /\ row' \in [Steps -> {"none", "file", "dir", "deleted"}] /\ passed' \subseteq Steps
          /\ reach' \in [Steps -> SUBSET Places]
      <4>1. UNCHANGED <<column, requests, task, rates, faults, met>>
        BY <2>3 DEF Changed, FindTarget, SetType, LoseTarget
      <4>2. CASE FindTarget(s)
        BY <3>0, <4>1, <4>2 DEF FindTarget
      <4> QED
        BY <2>3, <3>0, <3>b, <3>c, <4>1, <4>2 DEF Changed
    <3> QED
      BY <3>1 DEF rates, requests, TypeInv, TypeOK
  <2> QED
    BY <1>4, <2>2, <2>3
<1>5. ASSUME NEW c \in Commenters, NEW s \in Steps, NEW k \in Kinds, NEW text \in {c, NoText, Malformed},
             LookForComment(c, s, k, text)
      PROVE  TypeInv'
  <2>1. At("write", s, k, text) \in Asked
    BY DEF At, Asked, Texts
  <2>2. Rivals(s, k) \subseteq Commenters
    BY DEF Rivals
  <2>3. task[c].at = "new"
    BY <1>5 DEF LookForComment, TypeInv, Asked
  <2> QED
    BY <1>5, <2>1, <2>2, <2>3 DEF LookForComment, rates, tables, TypeInv, TypeOK, Asked
<1>6. ASSUME NEW c \in Commenters, WriteComment(c) PROVE TypeInv'
  <2>1. comment[c] \in Asked /\ task[c].at = "new"
    BY <1>6 DEF WriteComment, TypeInv, TypeOK, Asked, Idle
  <2>2. /\ [comment[c] EXCEPT !.pc = "enqueue"] \in Asked
        /\ [comment[c] EXCEPT !.pc = "refused"] \in Asked
    BY <2>1 DEF Asked
  <2>3. comment' \in [Commenters -> {Idle} \union Asked] /\ \A x \in Commenters \ {c} : comment'[x] = comment[x]
    BY <1>6, <1>c, <2>2 DEF WriteComment
  <2>4. column' \in [Steps -> [Kinds -> Texts]]
    <3>1. /\ comment[c].step \in Steps /\ comment[c].kind \in Kinds /\ comment[c].text \in Texts
          /\ column \in [Steps -> [Kinds -> Texts]]
      BY <2>1 DEF Asked, TypeInv, TypeOK
    <3>2. \/ UNCHANGED column
          \/ column' = [column EXCEPT ![comment[c].step][comment[c].kind] = comment[c].text]
      BY <1>6 DEF WriteComment
    <3> QED
      BY <3>1, <3>2
  <2>5. faults' \in 0 .. MaxFaults
    BY <1>6, <1>f DEF WriteComment
  <2> QED
    BY <1>6, <2>1, <2>3, <2>4, <2>5 DEF WriteComment, rates, TypeInv, TypeOK, Asked
<1>7. ASSUME NEW c \in Commenters, EnqueueComment(c) PROVE TypeInv'
  <2>1. comment[c] \in Asked /\ task[c].at = "new"
    BY <1>7 DEF EnqueueComment, TypeInv, TypeOK, Asked, Idle
  <2>2. [comment[c] EXCEPT !.pc = "over"] \in Asked /\ [comment[c] EXCEPT !.pc = "over"].pc = "over"
    BY <2>1 DEF Asked
  <2>3. /\ comment' \in [Commenters -> {Idle} \union Asked]
        /\ comment'[c] = [comment[c] EXCEPT !.pc = "over"]
        /\ \A x \in Commenters \ {c} : comment'[x] = comment[x]
    BY <1>7, <1>c, <2>2 DEF EnqueueComment
  <2>4. CASE UNCHANGED task
    BY <1>7, <1>f, <2>1, <2>3, <2>4 DEF EnqueueComment, rates, tables, TypeInv, TypeOK, Asked
  <2>5. CASE Pending(c) /\ UNCHANGED faults
    <3>1. c \in Tasks /\ Steps \ {c} = Steps
      BY <1>t, TasksAssumption DEF TasksAssumption
    <3>2. UNCHANGED <<rates, tables, met, upload, faults>>
      BY <1>7, <2>5 DEF EnqueueComment
    <3>3. /\ task' \in [Tasks -> [at    : {"new", "pending", "retry", "done", "archived"} \union Active,
                                  tries : 0 .. MaxAttempts,
                                  text  : Texts]]
          /\ \A x \in Tasks : task'[x].at \in {"new", "pending", "retry"} => task'[x].tries < MaxAttempts
          /\ \A d \in Commenters : task'[d].at # "new" => comment'[d] \in Asked /\ comment'[d].pc = "over"
          /\ \A s \in Steps : upload[s] # "over" => task'[s].at = "new"
      BY <1>b, <2>1, <2>2, <2>3, <2>5, <3>1, <3>2
    <3> QED
      BY <2>3, <3>2, <3>3 DEF rates, tables, TypeInv, TypeOK, Asked
  <2> QED
    BY <1>7, <2>4, <2>5 DEF EnqueueComment
<1>8. ASSUME NEW t \in Tasks, Take(t) \/ Retry(t) \/ Crash(t) \/ Look(t) \/ Ack(t) PROVE TypeInv'
  <2>1. Moved(t) /\ Handed(t)
    BY <1>8, Handing
  <2>2. UNCHANGED <<tables, requests, rates, met>> /\ faults' \in 0 .. MaxFaults
    BY <1>8, BoundsAssumption
       DEF Take, Retry, Crash, Look, Ack, Fault, TypeInv, TypeOK, BoundsAssumption
  <2> QED
    BY <2>1, <2>2, HandedTypes DEF tables, requests, rates, TypeInv, TypeOK, ATask, Stages
<1>9. ASSUME NEW s \in Steps, CreateRate(s) PROVE TypeInv'
  <2>1. /\ Moved(s) /\ task[s].at # "new"
        /\ task'[s].at \in {"new", "pending", "retry"} => task'[s].tries < MaxAttempts
    BY <1>9, CreateRateMoves DEF GivenBack, Same
  <2>2. rated' \subseteq Steps
    <3>1. rated \subseteq Steps
      BY DEF TypeInv, TypeOK
    <3>2. UNCHANGED rated \/ rated' = rated \union {s}
      BY <1>9, CreateRateMoves
    <3> QED
      BY <3>1, <3>2
  <2> QED
    BY <1>9, <1>t, <1>a, <2>1, <2>2 DEF CreateRate, tables, requests, TypeInv, TypeOK
<1>10. ASSUME NEW c \in Commenters, ReadComment(c) PROVE TypeInv'
  <2>1. /\ Moved(c) /\ task[c].at # "new"
        /\ task'[c].at \in {"new", "pending", "retry"} => task'[c].tries < MaxAttempts
    BY <1>10, ReadCommentMoves DEF GivenBack, Same
  <2> QED
    BY <1>10, <1>t, <1>a, <2>1 DEF ReadComment, tables, requests, rates, TypeInv, TypeOK
<1>11. ASSUME NEW c \in Commenters, AddToRate(c) PROVE TypeInv'
  <2>1. /\ Moved(c) /\ task[c].at # "new"
        /\ task'[c].at \notin {"new", "pending", "retry"}
    BY <1>11, AddToRateMoves
  <2>2. counted' \in [Steps -> [Texts -> Nat]] /\ early' \subseteq Commenters
    <3>1. /\ comment[c].step \in Steps /\ task[c].text \in Texts /\ early \subseteq Commenters
          /\ counted \in [Steps -> [Texts -> Nat]]
      BY <1>11, AddToRateMoves DEF Asked, TypeInv, TypeOK
    <3> DEFINE to == [counted[comment[c].step] EXCEPT ![task[c].text] = @ + 1]
    <3>2. to \in [Texts -> Nat]
      BY <3>1
    <3>3. counted' = counted \/ counted' = [counted EXCEPT ![comment[c].step] = to]
      BY <1>11, AddToRateMoves
    <3>4. early' \subseteq Commenters
      BY <1>11, <3>1, AddToRateMoves
    <3> QED
      BY <3>1, <3>2, <3>3, <3>4
  <2> QED
    BY <1>11, <1>t, <1>a, <2>1, <2>2 DEF AddToRate, tables, requests, TypeInv, TypeOK
<1>12. CASE UNCHANGED vars
  BY <1>12 DEF vars, TypeInv, TypeOK
<1> QED
  BY <1>1, <1>2, <1>3, <1>4, <1>5, <1>6, <1>7, <1>8, <1>9, <1>10, <1>11, <1>12
     DEF Next, UploadNext, CommentNext, Work, Inserted, Changed

(***************************************************************************)
(* Comments is type correct.                                               *)
(***************************************************************************)
LEMMA TypeAlways == Spec => []TypeInv
BY TypeInit, TypeNext, PTL DEF Spec

(* The type invariant of Comments, for any steps, kinds, commenters, bounds. *)
THEOREM TypeCorrect == Spec => []TypeOK
<1>1. TypeInv => TypeOK
  BY DEF TypeInv
<1> QED
  BY <1>1, TypeAlways, PTL

(***************************************************************************)
(* Second layer: what a comment, its column, its task and the rate of its  *)
(* step have to do with each other.                                        *)
(***************************************************************************)
Wrote(c)   == comment[c] \in Asked /\ comment[c].pc \in {"enqueue", "over"}
Writes(c)  == comment[c] \in Asked /\ comment[c].pc = "write"
Meet(c, d) == comment[c].step = comment[d].step /\ comment[c].kind = comment[d].kind

\* A request writes its own comment, none or what is no comment.
TextInv == \A c \in Commenters : comment[c] \in Asked => comment[c].text \in {c, NoText, Malformed}

\* A comment in a column was written by its request; its task, once it has
\* looked, carries it, and once it has updated, has counted it or come early.
ColumnInv ==
    \A s \in Steps, k \in Kinds, c \in Commenters :
        column[s][k] = c =>
            /\ Wrote(c) /\ comment[c].step = s /\ comment[c].kind = k
            /\ task[c].at = "rate" => task[c].text = c
            /\ task[c].at \in {"ack", "done"} => counted[s][c] > 0 \/ c \in early

\* Whoever may still overwrite a comment has met its request.
MetInv ==
    \A c, d \in Commenters :
        c # d /\ Writes(d) /\ comment[c] \in Asked /\ Meet(c, d)
              /\ (comment[c].pc = "write" \/ column[comment[c].step][comment[c].kind] = c)
            => c \in met

\* A task carries a comment that was written where its own was.
CarryInv == \A c, d \in Commenters : task[d].text = c => Wrote(c) /\ Wrote(d) /\ Meet(c, d)

Alone(c) == Wrote(c) /\ \A d \in Commenters \ {c} : ~(Wrote(d) /\ Meet(c, d))

\* Only written comments are counted, at their step; and a comment alone in its
\* place at most once for each attempt of its task that is past the update.
CountInv ==
    \A c \in Commenters :
        /\ \A s \in Steps : counted[s][c] > 0 => Wrote(c) /\ comment[c].step = s
        /\ Alone(c) =>
              /\ counted[comment[c].step][c] <= task[c].tries
              /\ task[c].at \in {"look", "read", "rate"}
                    => counted[comment[c].step][c] + 1 <= task[c].tries

RatedInv ==
    \A s \in Steps :
        /\ task[s].at \in {"ack", "done"} => s \in rated
        /\ upload[s] = "idle" => row[s] = "none"

Same6 == UNCHANGED <<column, comment, met, counted, early>>
Others(c) == \A d \in Commenters \ {c} : comment'[d] = comment[d]
OtherTasks(c) == \A d \in Commenters \ {c} : task'[d] = task[d]

\* What a step does to comments, their columns and their tasks.
Quiet == Same6 /\ \A c \in Commenters : task'[c] = task[c]

Cleared == /\ \E s \in Steps : \A x \in Steps :
                 column'[x] = IF x = s THEN [k \in Kinds |-> NoText] ELSE column[x]
           /\ UNCHANGED <<comment, met, counted, early, task>>

Looked(c) == /\ comment[c] = Idle /\ task[c].at = "new" /\ Others(c)
             /\ Writes(c)' /\ comment'[c].text \in {c, NoText, Malformed}
             /\ column[comment'[c].step][comment'[c].kind] = NoText
             /\ met \subseteq met'
             /\ \A d \in Commenters \ {c} : Writes(d) /\ Meet(c, d)' => c \in met' /\ d \in met'
             /\ UNCHANGED <<column, counted, early, task>>

Written(c) == /\ Writes(c) /\ task[c].at = "new" /\ Others(c)
              /\ comment'[c] \in Asked /\ Wrote(c)'
              /\ comment'[c].step = comment[c].step /\ comment'[c].kind = comment[c].kind
              /\ comment'[c].text = comment[c].text
              /\ column' = [column EXCEPT ![comment[c].step][comment[c].kind] = comment[c].text]
              /\ UNCHANGED <<met, counted, early, task>>

Refused(c) == /\ Writes(c) /\ task[c].at = "new" /\ Others(c)
              /\ comment'[c] \in Asked /\ comment'[c].pc = "refused"
              /\ comment'[c].text = comment[c].text
              /\ UNCHANGED <<column, met, counted, early, task>>

Sent(c) == /\ Wrote(c) /\ task[c].at = "new" /\ Others(c)
           /\ Wrote(c)' /\ comment'[c].step = comment[c].step /\ comment'[c].kind = comment[c].kind
           /\ comment'[c].text = comment[c].text
           /\ task'[c].at \in {"new", "pending"} /\ task'[c].tries = task[c].tries
           /\ task'[c].text = task[c].text /\ OtherTasks(c)
           /\ UNCHANGED <<column, met, counted, early>>

HandedOver(c) == Handed(c) /\ OtherTasks(c) /\ Same6

Read(c) == /\ Wrote(c) /\ task[c].at = "read" /\ OtherTasks(c) /\ Same6
           /\ task'[c].at = "rate" /\ task'[c].tries = task[c].tries
           /\ task'[c].text = column[comment[c].step][comment[c].kind]

Added(c) == /\ Wrote(c) /\ task[c].at = "rate" /\ task'[c].at = "ack" /\ Same(c) /\ OtherTasks(c)
            /\ \/ /\ counted' = [counted EXCEPT ![comment[c].step][task[c].text] = @ + 1]
                  /\ UNCHANGED early
               \/ UNCHANGED counted /\ early' = early \union {c}
            /\ UNCHANGED <<column, comment, met>>
LEMMA Effects ==
    ASSUME TypeInv, [Next]_vars
    PROVE  \/ Quiet \/ Cleared
           \/ \E c \in Commenters : Looked(c) \/ Written(c) \/ Refused(c) \/ Sent(c)
                                    \/ HandedOver(c) \/ Read(c) \/ Added(c)
<1>c. /\ comment \in [Commenters -> {Idle} \union Asked] /\ Commenters \subseteq Tasks /\ Steps \subseteq Tasks
      /\ \A s \in Steps, c \in Commenters : s # c
  BY TasksAssumption DEF TypeInv, TypeOK, Asked, Tasks, TasksAssumption
<1>m. ASSUME NEW t \in Tasks, Moved(t)
      PROVE  \A c \in Commenters \ {t} : task'[c] = task[c]
  BY <1>c, <1>m DEF Moved, TypeInv, TypeOK
<1>1. ASSUME NEW s \in Steps, Inserted(s) \/ Walk(s) \/ Changed(s) PROVE Quiet
  BY <1>1 DEF Inserted, InsertStep, InsertDir, Insert, Walk, Changed, FindTarget, SetType, LoseTarget,
              rates, tables, requests, Quiet, Same6
<1>2. ASSUME NEW s \in Steps, EnqueueStep(s) PROVE Quiet
  <2>1. \A c \in Commenters : task'[c] = task[c]
    BY <1>2, <1>c DEF EnqueueStep, Pending, TypeInv, TypeOK
  <2> QED
    BY <1>2, <2>1 DEF EnqueueStep, rates, tables, Quiet, Same6
<1>3. ASSUME NEW s \in Steps, DeleteRow(s) PROVE Cleared
  <2>1. \A x \in Steps : column'[x] = IF x = s THEN [k \in Kinds |-> NoText] ELSE column[x]
    BY <1>3 DEF DeleteRow, TypeInv, TypeOK
  <2> QED
    BY <1>3, <2>1 DEF DeleteRow, rates, requests, Cleared
<1>4. ASSUME NEW c \in Commenters, NEW s \in Steps, NEW k \in Kinds, NEW text \in {c, NoText, Malformed},
             LookForComment(c, s, k, text)
      PROVE  Looked(c)
  <2>1. comment[c] = Idle /\ task[c].at = "new"
    BY <1>4, <1>c DEF LookForComment, TypeInv, Asked
  <2>2. comment'[c] = At("write", s, k, text) /\ Others(c)
    BY <1>4, <1>c DEF LookForComment, Others
  <2>3. Writes(c)' /\ comment'[c].step = s /\ comment'[c].kind = k /\ comment'[c].text = text
    BY <2>2 DEF Writes, At, Asked, Texts
  <2>4. \A d \in Commenters \ {c} : Writes(d) /\ Meet(c, d)' => d \in Rivals(s, k)
    BY <2>2, <2>3 DEF Others, Meet, Writes, Rivals, About
  <2>5. met \subseteq met' /\ (Rivals(s, k) # {} => c \in met' /\ Rivals(s, k) \subseteq met')
    BY <1>4 DEF LookForComment
  <2> QED
    BY <1>4, <2>1, <2>2, <2>3, <2>4, <2>5 DEF LookForComment, Looked, tables, rates
<1>5. ASSUME NEW c \in Commenters, WriteComment(c) PROVE Written(c) \/ Refused(c)
  <2>1. Writes(c) /\ task[c].at = "new" /\ comment[c].pc # "over"
    BY <1>5, <1>c DEF WriteComment, Writes, TypeInv, Asked, Idle
  <2>2. CASE /\ column' = [column EXCEPT ![comment[c].step][comment[c].kind] = comment[c].text]
             /\ comment' = [comment EXCEPT ![c].pc = "enqueue"]
    <3>1. Others(c) /\ comment'[c] = [comment[c] EXCEPT !.pc = "enqueue"]
      BY <1>c, <2>2 DEF Others
    <3> QED
      BY <1>5, <2>1, <2>2, <3>1 DEF WriteComment, Written, Writes, Wrote, Asked, rates
  <2>3. CASE comment' = [comment EXCEPT ![c].pc = "refused"] /\ UNCHANGED column
    <3>1. Others(c) /\ comment'[c] = [comment[c] EXCEPT !.pc = "refused"]
      BY <1>c, <2>3 DEF Others
    <3> QED
      BY <1>5, <2>1, <2>3, <3>1 DEF WriteComment, Refused, Writes, Asked, rates
  <2> QED
    BY <1>5, <2>2, <2>3 DEF WriteComment
<1>6. ASSUME NEW c \in Commenters, EnqueueComment(c) PROVE Sent(c)
  <2>1. comment[c] \in Asked /\ task[c].at = "new" /\ Wrote(c)
    BY <1>6, <1>c DEF EnqueueComment, Wrote, TypeInv, Asked, Idle
  <2>2. Others(c) /\ comment'[c] = [comment[c] EXCEPT !.pc = "over"]
    BY <1>6, <1>c DEF EnqueueComment, Others
  <2>3. /\ task'[c].at \in {"new", "pending"} /\ task'[c].tries = task[c].tries
        /\ task'[c].text = task[c].text /\ OtherTasks(c)
    <3>1. CASE UNCHANGED task
      BY <2>1, <3>1 DEF OtherTasks
    <3>2. CASE Pending(c)
      <4>1. Moved(c) /\ Same(c) /\ task'[c].at = "pending"
        BY <1>c, <3>2, AdvanceMoves DEF Pending, Advance, Stages
      <4> QED
        BY <1>c, <1>m, <4>1 DEF Same, OtherTasks
    <3> QED
      BY <1>6, <3>1, <3>2 DEF EnqueueComment
  <2> QED
    BY <1>6, <2>1, <2>2, <2>3 DEF EnqueueComment, Sent, Wrote, Asked, tables, rates
<1>7. ASSUME NEW t \in Tasks, Take(t) \/ Retry(t) \/ Crash(t) \/ Look(t) \/ Ack(t)
      PROVE  Quiet \/ \E c \in Commenters : HandedOver(c)
  <2>1. Moved(t) /\ Handed(t)
    BY <1>7, Handing
  <2>2. Same6
    BY <1>7 DEF Take, Retry, Crash, Look, Ack, tables, requests, rates, Same6
  <2>3. CASE t \in Commenters
    BY <1>m, <2>1, <2>2, <2>3 DEF HandedOver, OtherTasks
  <2>4. CASE t \notin Commenters
    BY <1>m, <2>1, <2>2, <2>4 DEF Quiet
  <2> QED
    BY <2>3, <2>4
<1>8. ASSUME NEW s \in Steps, CreateRate(s) PROVE Quiet
  <2>1. \A c \in Commenters : task'[c] = task[c]
    BY <1>8, <1>c, <1>m, CreateRateMoves
  <2> QED
    BY <1>8, <2>1 DEF CreateRate, tables, requests, Quiet, Same6
<1>9. ASSUME NEW c \in Commenters, ReadComment(c) PROVE HandedOver(c) \/ Read(c)
  <2>1. Same6 /\ OtherTasks(c)
    BY <1>9, <1>c, <1>m, ReadCommentMoves DEF ReadComment, tables, requests, rates, Same6, OtherTasks
  <2> QED
    BY <1>9, <2>1, ReadCommentMoves DEF HandedOver, Handed, Read, Wrote
<1>10. ASSUME NEW c \in Commenters, AddToRate(c) PROVE Added(c)
  <2>1. OtherTasks(c)
    BY <1>10, <1>c, <1>m, AddToRateMoves DEF OtherTasks
  <2> QED
    BY <1>10, <2>1, AddToRateMoves DEF AddToRate, Added, Wrote, tables, requests
<1>11. CASE UNCHANGED vars
  BY <1>11 DEF vars, Quiet, Same6
<1> QED
  <2>1. CASE Next
    BY <1>1, <1>2, <1>3, <1>4, <1>5, <1>6, <1>7, <1>8, <1>9, <1>10, <2>1
       DEF Next, UploadNext, CommentNext, Work, Inserted, Changed
  <2> QED
    BY <1>11, <2>1


\* The shape of a comment that nothing but its request changes.
LEMMA Shape ==
    ASSUME TypeInv
    PROVE  /\ comment \in [Commenters -> {Idle} \union Asked] /\ Idle \notin Asked
           /\ column \in [Steps -> [Kinds -> Texts]] /\ counted \in [Steps -> [Texts -> Nat]]
           /\ \A c \in Commenters : /\ task[c] \in ATask /\ c \in Texts /\ c # NoText /\ c # Malformed
                                    /\ task[c].at # "new" => Wrote(c)
                                    /\ comment[c] \in Asked => /\ comment[c].step \in Steps
                                                               /\ comment[c].kind \in Kinds
                                                               /\ comment[c].text \in Texts
<1>1. \A c \in Commenters : c \in Tasks /\ c \in Texts /\ c # NoText /\ c # Malformed
  BY TextAssumption DEF Tasks, Texts, TextAssumption
<1> QED
  BY <1>1, IdleNotAsked DEF Idle, TypeInv, TypeOK, Wrote, Asked, ATask, Stages

LEMMA TextNext == ASSUME TypeInv, TextInv, [Next]_vars PROVE TextInv'
<1>1. CASE UNCHANGED comment
  BY <1>1 DEF TextInv
<1>2. ASSUME NEW c \in Commenters, Looked(c) \/ Written(c) \/ Refused(c) \/ Sent(c) PROVE TextInv'
  <2>1. Others(c) /\ comment'[c].text \in {c, NoText, Malformed}
    BY <1>2 DEF Looked, Written, Refused, Sent, Writes, Wrote, TextInv
  <2> QED
    BY <2>1 DEF Others, TextInv
<1> QED
  BY <1>1, <1>2, Effects DEF Quiet, Cleared, HandedOver, Read, Added, Same6

LEMMA ColumnNext == ASSUME TypeInv, TextInv, ColumnInv, [Next]_vars PROVE ColumnInv'
<1> DEFINE Held(s, k, c) == /\ Wrote(c) /\ comment[c].step = s /\ comment[c].kind = k
                            /\ task[c].at = "rate" => task[c].text = c
                            /\ task[c].at \in {"ack", "done"} => counted[s][c] > 0 \/ c \in early
<1> SUFFICES ASSUME NEW s \in Steps, NEW k \in Kinds, NEW c \in Commenters, column'[s][k] = c
             PROVE  Held(s, k, c)'
  BY DEF ColumnInv
<1>0. column[s][k] = c => Held(s, k, c)
  BY DEF ColumnInv
<1>1. CASE Quiet
  BY <1>0, <1>1 DEF Quiet, Same6, Wrote
<1>2. CASE Cleared
  <2>1. column[s][k] = c
    BY <1>2, Shape DEF Cleared
  <2> QED
    BY <1>0, <1>2, <2>1 DEF Cleared, Wrote
<1>3. ASSUME NEW d \in Commenters, Looked(d) \/ Refused(d) PROVE Held(s, k, c)'
  <2>1. column[s][k] = c /\ d # c
    BY <1>0, <1>3, Shape DEF Looked, Refused, Writes, Wrote
  <2> QED
    BY <1>0, <1>3, <2>1 DEF Looked, Refused, Others, Wrote
<1>4. ASSUME NEW d \in Commenters, Written(d) PROVE Held(s, k, c)'
  <2>1. CASE d = c
    <3>1. comment[c].step = s /\ comment[c].kind = k
      BY <1>0, <1>4, <2>1, Shape DEF Written, Writes, Wrote
    <3> QED
      BY <1>4, <2>1, <3>1, Shape DEF Written
  <2>2. CASE d # c
    <3>1. comment[d].text # c
      BY <1>4, <2>2, Shape DEF Written, Writes, TextInv
    <3>2. column[s][k] = c
      BY <1>4, <3>1, Shape DEF Written, Writes
    <3> QED
      BY <1>0, <1>4, <2>2, <3>2 DEF Written, Others, Wrote
  <2> QED
    BY <2>1, <2>2
<1>5. ASSUME NEW d \in Commenters, Sent(d) PROVE Held(s, k, c)'
  BY <1>0, <1>5 DEF Sent, Others, OtherTasks, Wrote
<1>6. ASSUME NEW d \in Commenters, HandedOver(d) PROVE Held(s, k, c)'
  <2>1. d \notin Steps
    BY TasksAssumption DEF TasksAssumption
  <2> QED
    BY <1>0, <1>6, <2>1 DEF HandedOver, Handed, GivenBack, Same, Active, Same6, OtherTasks, Wrote
<1>7. ASSUME NEW d \in Commenters, Read(d) PROVE Held(s, k, c)'
  BY <1>0, <1>7 DEF Read, Same6, OtherTasks, Wrote
<1>8. ASSUME NEW d \in Commenters, Added(d) PROVE Held(s, k, c)'
  <2>1. column[s][k] = c
    BY <1>8 DEF Added
  <2>2. \A x \in Steps, y \in Texts : counted'[x][y] >= counted[x][y]
    <3>1. /\ comment[d].step \in Steps /\ task[d].text \in Texts
          /\ \A x \in Steps : counted[x] \in [Texts -> Nat]
      BY <1>8, Shape DEF Added, Wrote, ATask
    <3>2. CASE UNCHANGED counted
      BY <3>1, <3>2
    <3>3. CASE counted' = [counted EXCEPT ![comment[d].step][task[d].text] = @ + 1]
      BY <3>1, <3>3, Shape
    <3> QED
      BY <1>8, <3>2, <3>3 DEF Added
  <2>3. CASE d = c
    <3>1. c \in early' \/ counted' = [counted EXCEPT ![s][c] = @ + 1]
      BY <1>0, <1>8, <2>1, <2>3 DEF Added
    <3>2. c \in early' \/ counted'[s][c] > 0
      BY <3>1, Shape
    <3> QED
      BY <1>0, <1>8, <2>1, <2>3, <3>2 DEF Added, Wrote
  <2>4. CASE d # c
    <3>1. counted[s][c] > 0 => counted'[s][c] > 0
      <4>1. counted[s][c] \in Nat /\ counted'[s][c] \in Nat
        BY <1>8, Shape DEF Added, Wrote
      <4> QED
        BY <2>2, <4>1, Shape
    <3> QED
      BY <1>0, <1>8, <2>1, <2>4, <3>1 DEF Added, OtherTasks, Wrote
  <2> QED
    BY <2>3, <2>4
<1> QED
  BY <1>1, <1>2, <1>3, <1>4, <1>5, <1>6, <1>7, <1>8, Effects

LEMMA MetNext == ASSUME TypeInv, TextInv, ColumnInv, MetInv, [Next]_vars PROVE MetInv'
<1> DEFINE Open(c) == comment[c].pc = "write" \/ column[comment[c].step][comment[c].kind] = c
<1> SUFFICES ASSUME NEW c \in Commenters, NEW d \in Commenters, c # d, Writes(d)',
                    (comment[c] \in Asked)', Meet(c, d)', Open(c)'
             PROVE  c \in met'
  BY DEF MetInv
<1>0. Writes(d) /\ comment[c] \in Asked /\ Meet(c, d) /\ Open(c) => c \in met
  BY DEF MetInv
<1>1. CASE UNCHANGED <<column, comment, met>>
  BY <1>0, <1>1 DEF Writes, Meet
<1>2. CASE Cleared
  <2>1. Open(c)
    BY <1>2, Shape DEF Cleared
  <2> QED
    BY <1>0, <1>2, <2>1 DEF Cleared, Writes, Meet
<1>3. ASSUME NEW x \in Commenters, Looked(x) PROVE c \in met'
  <2>1. CASE x = c
    BY <1>3, <2>1 DEF Looked, Others, Writes, Meet
  <2>2. CASE x = d
    <3>1. comment'[c] = comment[c] /\ Meet(d, c)'
      BY <1>3, <2>2 DEF Looked, Others, Meet
    <3>2. comment[c].pc = "write"
      BY <1>3, <2>2, <3>1, Shape DEF Looked, Meet
    <3> QED
      BY <1>3, <2>2, <3>1, <3>2 DEF Looked, Writes
  <2>3. CASE x # c /\ x # d
    BY <1>0, <1>3, <2>3 DEF Looked, Others, Writes, Meet
  <2> QED
    BY <2>1, <2>2, <2>3
<1>4. ASSUME NEW x \in Commenters, Written(x) \/ Refused(x) \/ Sent(x) PROVE c \in met'
  <2>1. x # d /\ UNCHANGED met
    BY <1>4 DEF Written, Refused, Sent, Writes, Wrote, Asked
  <2>2. CASE x = c
    <3>1. Written(x) => c \in met
      BY <1>0, <1>4, <2>1, <2>2 DEF Written, Others, Writes, Meet
    <3>2. ~Refused(x)
      <4>1. SUFFICES ASSUME Refused(x) PROVE FALSE
        OBVIOUS
      <4>2. column'[comment'[c].step][comment'[c].kind] = c /\ UNCHANGED column
        BY <2>2, <4>1 DEF Refused
      <4>3. comment'[c].step \in Steps /\ comment'[c].kind \in Kinds
        BY <2>2, <4>1 DEF Refused, Asked
      <4>4. Wrote(c)
        BY <4>2, <4>3 DEF ColumnInv
      <4> QED
        BY <2>2, <4>1, <4>4 DEF Refused, Wrote, Writes
    <3>3. Sent(x) => c \in met
      BY <1>0, <1>4, <2>1, <2>2 DEF Sent, Others, Writes, Wrote, Meet
    <3> QED
      BY <1>4, <2>1, <3>1, <3>2, <3>3
  <2>3. CASE x # c
    <3>1. comment'[c] = comment[c] /\ comment'[d] = comment[d]
      BY <1>4, <2>1, <2>3 DEF Written, Refused, Sent, Others
    <3>2. Open(c)
      <4>1. CASE UNCHANGED column
        BY <3>1, <4>1
      <4>2. CASE Written(x)
        <5>1. comment[x].text # c
          BY <2>3, <4>2, Shape DEF Written, Writes, TextInv
        <5> QED
          BY <3>1, <4>2, <5>1, Shape DEF Written, Writes
      <4> QED
        BY <1>4, <4>1, <4>2 DEF Refused, Sent
    <3> QED
      BY <1>0, <2>1, <3>1, <3>2 DEF Writes, Meet
  <2> QED
    BY <2>2, <2>3
<1> QED
  BY <1>1, <1>2, <1>3, <1>4, Effects DEF Quiet, HandedOver, Read, Added, Same6


LEMMA CarryNext == ASSUME TypeInv, TextInv, ColumnInv, CarryInv, [Next]_vars PROVE CarryInv'
<1> SUFFICES ASSUME NEW c \in Commenters, NEW d \in Commenters, task'[d].text = c
             PROVE  (Wrote(c) /\ Wrote(d) /\ Meet(c, d))'
  BY DEF CarryInv
<1>0. task[d].text = c => Wrote(c) /\ Wrote(d) /\ Meet(c, d)
  BY DEF CarryInv
<1>1. CASE UNCHANGED comment /\ task'[d].text = task[d].text
  BY <1>0, <1>1 DEF Wrote, Meet
<1>2. ASSUME NEW x \in Commenters, Looked(x) \/ Written(x) \/ Refused(x) \/ Sent(x)
      PROVE  (Wrote(c) /\ Wrote(d) /\ Meet(c, d))'
  <2>1. task[d].text = c
    BY <1>2 DEF Looked, Written, Refused, Sent, OtherTasks
  <2>2. Wrote(c) /\ Wrote(d) /\ Meet(c, d)
    BY <1>0, <2>1
  <2>3. \A e \in {c, d} : Wrote(e)' /\ comment'[e].step = comment[e].step /\ comment'[e].kind = comment[e].kind
    BY <1>2, <2>2, Shape DEF Looked, Written, Refused, Sent, Others, Wrote, Writes
  <2> QED
    BY <2>2, <2>3 DEF Meet
<1>3. ASSUME NEW x \in Commenters, Read(x) PROVE (Wrote(c) /\ Wrote(d) /\ Meet(c, d))'
  <2>1. CASE x = d
    <3>1. Wrote(d) /\ column[comment[d].step][comment[d].kind] = c
      BY <1>3, <2>1 DEF Read
    <3>a. comment[d].step \in Steps /\ comment[d].kind \in Kinds
      BY <3>1, Shape DEF Wrote
    <3>2. Wrote(c) /\ Meet(c, d)
      BY <3>1, <3>a DEF ColumnInv, Meet
    <3> QED
      BY <1>3, <3>1, <3>2 DEF Read, Same6, Wrote, Meet
  <2>2. CASE x # d
    BY <1>1, <1>3, <2>2 DEF Read, Same6, OtherTasks
  <2> QED
    BY <2>1, <2>2
<1>4. ASSUME NEW x \in Commenters, HandedOver(x) \/ Added(x)
      PROVE  UNCHANGED comment /\ task'[d].text = task[d].text
  BY <1>4 DEF HandedOver, Handed, GivenBack, Same, Same6, OtherTasks, Added
<1> QED
  BY <1>1, <1>2, <1>3, <1>4, Effects DEF Quiet, Cleared, Same6

\* A comment that is alone after a step and was written before it was alone.
LEMMA AloneBefore ==
    ASSUME TypeInv, NEW c \in Commenters, Alone(c)', Wrote(c),
           \A d \in Commenters : Wrote(d) => /\ Wrote(d)' /\ comment'[d].step = comment[d].step
                                             /\ comment'[d].kind = comment[d].kind
    PROVE  Alone(c) /\ comment'[c].step = comment[c].step
BY DEF Alone, Meet

LEMMA CountNext == ASSUME TypeInv, TextInv, ColumnInv, CarryInv, CountInv, [Next]_vars PROVE CountInv'
<1> DEFINE Bounded(c) == /\ counted[comment[c].step][c] <= task[c].tries
                         /\ task[c].at \in {"look", "read", "rate"}
                               => counted[comment[c].step][c] + 1 <= task[c].tries
           Placed(c) == \A s \in Steps : counted[s][c] > 0 => Wrote(c) /\ comment[c].step = s
<1> SUFFICES ASSUME NEW c \in Commenters PROVE Placed(c)' /\ (Alone(c)' => Bounded(c)')
  BY DEF CountInv
<1>0. Placed(c) /\ (Alone(c) => Bounded(c))
  BY DEF CountInv
<1>k. \A d \in Commenters : Wrote(d) => /\ Wrote(d)' /\ comment'[d].step = comment[d].step
                                        /\ comment'[d].kind = comment[d].kind
  <2>1. CASE UNCHANGED comment
    BY <2>1 DEF Wrote
  <2>2. ASSUME NEW x \in Commenters, Looked(x) \/ Written(x) \/ Refused(x) \/ Sent(x)
        PROVE \A d \in Commenters : Wrote(d) => /\ Wrote(d)' /\ comment'[d].step = comment[d].step
                                                /\ comment'[d].kind = comment[d].kind
    BY <2>2, Shape DEF Looked, Written, Refused, Sent, Others, Wrote, Writes
  <2> QED
    BY <2>1, <2>2, Effects DEF Quiet, Cleared, HandedOver, Read, Added, Same6
<1>a. Alone(c)' /\ Wrote(c) => Alone(c) /\ comment'[c].step = comment[c].step /\ Bounded(c)
  BY <1>0, <1>k, AloneBefore
<1>p. ASSUME UNCHANGED counted PROVE Placed(c)'
  BY <1>0, <1>k, <1>p
<1>u. ASSUME UNCHANGED counted, Alone(c)',
             /\ task'[c].tries = task[c].tries
             /\ task'[c].at \in {"look", "read", "rate"} => task[c].at \in {"look", "read", "rate"},
             Wrote(c)
      PROVE  Bounded(c)'
  BY <1>a, <1>u
<1>1. CASE Quiet \/ Cleared
  <2>1. UNCHANGED <<counted, comment>> /\ task'[c] = task[c]
    BY <1>1 DEF Quiet, Cleared, Same6
  <2> QED
    BY <1>p, <1>u, <2>1 DEF Alone, Wrote
<1>2. ASSUME NEW x \in Commenters, Looked(x) \/ Written(x) \/ Refused(x) \/ Sent(x)
      PROVE  Placed(c)' /\ (Alone(c)' => Bounded(c)')
  <2>1. UNCHANGED counted
    BY <1>2 DEF Looked, Written, Refused, Sent
  <2>2. /\ task'[c].tries = task[c].tries
        /\ task'[c].at \in {"look", "read", "rate"} => task[c].at \in {"look", "read", "rate"}
    BY <1>2 DEF Looked, Written, Refused, Sent, OtherTasks
  <2>3. ASSUME Alone(c)', ~Wrote(c) PROVE Bounded(c)'
    <3>1. task[c].at = "new" /\ comment'[c] \in Asked
      BY <2>3, Shape DEF Alone, Wrote
    <3>2. task'[c].at \notin {"look", "read", "rate"}
      BY <2>2, <3>1
    <3>3. comment'[c].step \in Steps /\ c \in Texts
      BY <3>1, Shape DEF Asked
    <3>4. counted[comment'[c].step][c] = 0
      <4>1. ~(counted[comment'[c].step][c] > 0)
        BY <1>0, <2>3, <3>3
      <4>2. counted[comment'[c].step][c] \in Nat
        BY <3>3, Shape
      <4> QED
        BY <4>1, <4>2
    <3>5. task'[c].tries \in Nat
      BY <2>2, Shape, BoundsAssumption DEF ATask, BoundsAssumption
    <3> QED
      BY <2>1, <3>2, <3>4, <3>5
  <2> QED
    BY <1>p, <1>u, <2>1, <2>2, <2>3
<1>3. ASSUME NEW x \in Commenters, HandedOver(x) PROVE Placed(c)' /\ (Alone(c)' => Bounded(c)')
  <2>1. UNCHANGED <<counted, comment>>
    BY <1>3 DEF HandedOver, Same6
  <2>2. ASSUME Alone(c)' PROVE Bounded(c)'
    <3>1. Wrote(c)
      BY <2>1, <2>2 DEF Alone, Wrote
    <3>2. Bounded(c) /\ comment'[c].step = comment[c].step
      BY <1>a, <2>2, <3>1
    <3>3. comment[c].step \in Steps /\ counted[comment[c].step][c] \in Nat /\ task[c].tries \in Nat
      BY <3>1, Shape, BoundsAssumption DEF Wrote, ATask, BoundsAssumption
    <3>4. \/ /\ task'[c].tries = task[c].tries
             /\ task'[c].at \in {"look", "read", "rate"} => task[c].at \in {"look", "read", "rate"}
          \/ task'[c].tries = task[c].tries + 1
      BY <1>3 DEF HandedOver, Handed, GivenBack, Same, OtherTasks
    <3> QED
      BY <2>1, <3>2, <3>3, <3>4
  <2> QED
    BY <1>p, <2>1, <2>2
<1>4. ASSUME NEW x \in Commenters, Read(x) PROVE Placed(c)' /\ (Alone(c)' => Bounded(c)')
  <2>1. UNCHANGED <<counted, comment>>
    BY <1>4 DEF Read, Same6
  <2>2. /\ task'[c].tries = task[c].tries
        /\ task'[c].at \in {"look", "read", "rate"} => task[c].at \in {"look", "read", "rate"}
    BY <1>4 DEF Read, OtherTasks
  <2> QED
    BY <1>p, <1>u, <2>1, <2>2 DEF Alone, Wrote
<1>5. ASSUME NEW x \in Commenters, Added(x) PROVE Placed(c)' /\ (Alone(c)' => Bounded(c)')
  <2>1. UNCHANGED comment /\ (Alone(c)' => Wrote(c))
    BY <1>5 DEF Added, Alone, Wrote
  <2>2. /\ task'[c].tries = task[c].tries
        /\ task'[c].at \in {"look", "read", "rate"} => task[c].at \in {"look", "read", "rate"}
    BY <1>5 DEF Added, OtherTasks, Same
  <2>3. CASE UNCHANGED counted
    BY <1>p, <1>u, <2>1, <2>2, <2>3
  <2>4. CASE counted' = [counted EXCEPT ![comment[x].step][task[x].text] = @ + 1]
    <3>1. comment[x].step \in Steps /\ task[x].text \in Texts /\ c \in Texts
      BY <1>5, Shape DEF Added, Wrote, ATask
    <3>2. CASE task[x].text # c
      <4>1. \A s \in Steps : counted'[s][c] = counted[s][c]
        BY <2>4, <3>1, <3>2, Shape
      <4>2. Placed(c)'
        BY <1>0, <2>1, <4>1 DEF Wrote
      <4>3. ASSUME Alone(c)' PROVE Bounded(c)'
        <5>1. Bounded(c) /\ comment'[c].step = comment[c].step /\ comment[c].step \in Steps
          BY <1>a, <2>1, <4>3, Shape DEF Wrote
        <5> QED
          BY <2>2, <4>1, <5>1
      <4> QED
        BY <4>2, <4>3
    <3>3. CASE task[x].text = c
      <4>1. Wrote(c) /\ Wrote(x) /\ Meet(c, x)
        BY <3>3 DEF CarryInv
      <4>2. Placed(c)'
        <5>1. \A s \in Steps \ {comment[c].step} : counted'[s][c] = counted[s][c]
          BY <2>4, <3>1, <4>1, Shape DEF Meet
        <5> QED
          BY <1>0, <2>1, <4>1, <5>1 DEF Wrote
      <4>3. ASSUME Alone(c)' PROVE Bounded(c)'
        <5>1. x = c
          BY <2>1, <4>1, <4>3 DEF Alone, Wrote, Meet
        <5>2. Bounded(c) /\ comment'[c].step = comment[c].step /\ task[c].at = "rate" /\ task'[c].at = "ack"
          BY <1>a, <1>5, <4>1, <4>3, <5>1 DEF Added
        <5>3. counted'[comment[c].step][c] = counted[comment[c].step][c] + 1
          BY <2>4, <3>1, <3>3, <5>1, Shape
        <5> QED
          BY <2>2, <5>2, <5>3
      <4> QED
        BY <4>2, <4>3
    <3> QED
      BY <3>2, <3>3
  <2> QED
    BY <1>5, <2>3, <2>4 DEF Added
<1> QED
  BY <1>1, <1>2, <1>3, <1>4, <1>5, Effects

LEMMA RatedNext == ASSUME TypeInv, RatedInv, [Next]_vars PROVE RatedInv'
<1>t. /\ task \in [Tasks -> ATask] /\ Steps \subseteq Tasks /\ Commenters \subseteq Tasks
      /\ \A s \in Steps, c \in Commenters : s # c
  BY TasksAssumption DEF TasksAssumption, TypeInv, TypeOK, ATask, Stages, Tasks
<1>1. ASSUME NEW s \in Steps, Inserted(s) PROVE RatedInv'
  BY <1>1 DEF Inserted, InsertStep, InsertDir, Insert, rates, TypeInv, TypeOK, RatedInv
<1>2. ASSUME NEW s \in Steps, Walk(s) PROVE RatedInv'
  BY <1>2 DEF Walk, rates, tables, TypeInv, TypeOK, RatedInv
<1>3. ASSUME NEW s \in Steps, EnqueueStep(s) PROVE RatedInv'
  <2>1. \A x \in Steps : task'[x].at = task[x].at \/ task'[x].at = "pending"
    BY <1>3, <1>t DEF EnqueueStep, Pending, ATask
  <2>2. \A x \in Steps : upload'[x] = "idle" => upload[x] = "idle"
    BY <1>3 DEF EnqueueStep, TypeInv, TypeOK
  <2> QED
    BY <1>3, <2>1, <2>2 DEF EnqueueStep, rates, tables, RatedInv
<1>4. ASSUME NEW s \in Steps, DeleteRow(s) \/ Changed(s) PROVE RatedInv'
  BY <1>4 DEF DeleteRow, Changed, FindTarget, SetType, LoseTarget, Stored, rates, requests, TypeInv, TypeOK, RatedInv
<1>5. ASSUME NEW c \in Commenters,
             \/ \E s \in Steps, k \in Kinds, text \in {c, NoText, Malformed} : LookForComment(c, s, k, text)
             \/ WriteComment(c) \/ EnqueueComment(c)
      PROVE  RatedInv'
  <2>1. \A x \in Steps : task'[x] = task[x]
    BY <1>5, <1>t DEF LookForComment, WriteComment, EnqueueComment, Pending
  <2>2. UNCHANGED <<upload, row, rated>>
    BY <1>5 DEF LookForComment, WriteComment, EnqueueComment, tables, rates
  <2> QED
    BY <2>1, <2>2 DEF RatedInv
<1>6. ASSUME NEW t \in Tasks, Take(t) \/ Retry(t) \/ Crash(t) \/ Look(t) \/ Ack(t) PROVE RatedInv'
  <2>1. Moved(t) /\ Handed(t)
    BY <1>6, Handing
  <2>2. \A x \in Steps : task'[x].at \in {"ack", "done"} => task[x].at \in {"ack", "done"}
    BY <1>t, <2>1 DEF Moved, Handed, GivenBack, Active
  <2>3. UNCHANGED <<upload, row, rated>>
    BY <1>6 DEF Take, Retry, Crash, Look, Ack, tables, requests, rates
  <2> QED
    BY <2>2, <2>3 DEF RatedInv
<1>7. ASSUME NEW s \in Steps, CreateRate(s) PROVE RatedInv'
  <2>1. rated \subseteq rated' /\ (task'[s].at \in {"ack", "done"} => s \in rated')
    BY <1>7, CreateRateMoves DEF GivenBack
  <2>2. \A x \in Steps \ {s} : task'[x] = task[x]
    BY <1>7, <1>t, CreateRateMoves DEF Moved
  <2> QED
    BY <1>7, <2>1, <2>2 DEF CreateRate, tables, requests, RatedInv
<1>8. ASSUME NEW c \in Commenters, ReadComment(c) \/ AddToRate(c) PROVE RatedInv'
  <2>1. Moved(c)
    BY <1>8, ReadCommentMoves, AddToRateMoves
  <2>2. \A x \in Steps : task'[x] = task[x]
    BY <1>t, <2>1 DEF Moved
  <2>3. UNCHANGED <<upload, row, rated>>
    BY <1>8 DEF ReadComment, AddToRate, tables, requests, rates
  <2> QED
    BY <2>2, <2>3 DEF RatedInv
<1>9. CASE UNCHANGED vars
  BY <1>9 DEF vars, RatedInv
<1> QED
  <2>1. CASE Next
    BY <1>1, <1>2, <1>3, <1>4, <1>5, <1>6, <1>7, <1>8, <2>1
       DEF Next, UploadNext, CommentNext, Work, Inserted, Changed
  <2> QED
    BY <1>9, <2>1

Inv == TypeInv /\ TextInv /\ ColumnInv /\ MetInv /\ CarryInv /\ CountInv /\ RatedInv

LEMMA InvAlways == Spec => []Inv
<1>1. Init => Inv
  <2> SUFFICES ASSUME Init PROVE Inv
    OBVIOUS
  <2>1. TypeInv
    BY TypeInit
  <2>2. \A c \in Commenters : comment[c] \notin Asked /\ c \in Texts /\ c # NoText /\ c \in Tasks
    BY <2>1, Shape DEF Init, Tasks
  <2>3. TextInv /\ MetInv /\ ColumnInv
    BY <2>2 DEF Init, TextInv, MetInv, ColumnInv
  <2>4. CarryInv
    BY <2>2 DEF Init, CarryInv, NewTask
  <2>5. CountInv
    BY <2>2 DEF Init, CountInv, Alone, Wrote
  <2>6. RatedInv
    BY DEF Init, RatedInv, Tasks, NewTask
  <2> QED
    BY <2>1, <2>3, <2>4, <2>5, <2>6 DEF Inv
<1>2. Inv /\ [Next]_vars => Inv'
  BY TypeNext, TextNext, ColumnNext, MetNext, CarryNext, CountNext, RatedNext DEF Inv
<1> QED
  BY <1>1, <1>2, PTL DEF Spec

(***************************************************************************)
(* A comment that stands in its column is counted, or on the way, or one   *)
(* of the exceptions.                                                      *)
(***************************************************************************)
THEOREM StandingCommentCountedAlways == Spec => []StandingCommentCounted
<1>1. Inv => StandingCommentCounted
  <2> SUFFICES ASSUME Inv, NEW s \in Steps, NEW k \in Kinds, NEW c \in Commenters, column[s][k] = c
               PROVE  \/ counted[s][c] > 0
                      \/ comment[c].pc = "enqueue"
                      \/ Underway(c)
                      \/ task[c].at = "new" /\ comment[c].pc = "over"
                      \/ task[c].at = "archived"
                      \/ c \in early
    BY DEF StandingCommentCounted
  <2>1. comment[c].pc \in {"enqueue", "over"} /\ task[c].at \in Stages
    BY Shape DEF Inv, ColumnInv, Wrote, ATask
  <2>2. task[c].at \in {"ack", "done"} => counted[s][c] > 0 \/ c \in early
    BY DEF Inv, ColumnInv
  <2> QED
    BY <2>1, <2>2 DEF Underway, Stages, Active
<1> QED
  BY <1>1, InvAlways, PTL

(***************************************************************************)
(* A step in the table that is no directory is rated, or on the way, or    *)
(* one of the exceptions.                                                  *)
(***************************************************************************)
THEOREM StepIsRatedAlways == Spec => []StepIsRated
<1>1. Inv => StepIsRated
  <2> SUFFICES ASSUME Inv, NEW s \in Steps, row[s] = "file"
               PROVE  \/ s \in rated
                      \/ upload[s] \in {"walk", "enqueue"}
                      \/ Underway(s)
                      \/ upload[s] = "over" /\ task[s].at \in {"new", "archived"}
    BY DEF StepIsRated
  <2>1. task[s].at \in Stages /\ upload[s] \in {"idle", "walk", "enqueue", "over"}
    BY DEF Inv, TypeInv, TypeOK, Tasks, Stages
  <2>2. (task[s].at \in {"ack", "done"} => s \in rated) /\ upload[s] # "idle"
    BY DEF Inv, RatedInv
  <2> QED
    BY <2>1, <2>2 DEF Underway, Stages, Active
<1> QED
  BY <1>1, InvAlways, PTL

(***************************************************************************)
(* A comment is added to the rate once, but for retries and rivals.        *)
(***************************************************************************)
THEOREM CountedOnceAlways == Spec => []CountedOnce
<1>1. Inv => CountedOnce
  <2> SUFFICES ASSUME Inv, NEW s \in Steps, NEW c \in Commenters, counted[s][c] > 1, ~(task[c].tries > 1)
               PROVE  \E d \in Commenters \ {c} : /\ About(d, s, comment[c].kind)
                                                  /\ comment[d].pc \in {"enqueue", "over"}
    BY DEF CountedOnce
  <2>1. counted[s][c] \in Nat /\ task[c].tries \in Nat
    BY Shape, BoundsAssumption DEF Inv, ATask, BoundsAssumption
  <2>2. Wrote(c) /\ comment[c].step = s
    BY <2>1 DEF Inv, CountInv
  <2>3. ~Alone(c)
    BY <2>1, <2>2 DEF Inv, CountInv
  <2>4. PICK d \in Commenters \ {c} : Wrote(d) /\ Meet(c, d)
    BY <2>2, <2>3 DEF Alone
  <2> QED
    BY <2>2, <2>4 DEF Wrote, Meet, About, Asked
<1> QED
  BY <1>1, InvAlways, PTL

(***************************************************************************)
(* A comment is replaced by another only if their requests met between     *)
(* look and write.                                                         *)
(***************************************************************************)
THEOREM ReplacedOnlyWhenMetAlways == Spec => ReplacedOnlyWhenMet
<1> DEFINE Kept == \A s \in Steps, k \in Kinds, c \in Commenters :
                      column[s][k] = c /\ column'[s][k] # c => row'[s] = "deleted" \/ c \in met
<1>1. Inv /\ [Next]_vars => [Kept]_vars
  <2> SUFFICES ASSUME Inv, [Next]_vars, NEW s \in Steps, NEW k \in Kinds, NEW c \in Commenters,
                      column[s][k] = c, column'[s][k] # c
               PROVE  row'[s] = "deleted" \/ c \in met
    OBVIOUS
  <2>1. ASSUME NEW x \in Steps, DeleteRow(x) PROVE row'[s] = "deleted"
    BY <2>1 DEF DeleteRow, Inv, TypeInv, TypeOK
  <2>2. ASSUME NEW d \in Commenters, WriteComment(d) PROVE c \in met
    <3>1. Writes(d) /\ comment[d].step = s /\ comment[d].kind = k
      <4>1. Writes(d) /\ d \in Commenters
        BY <2>2, Shape DEF Inv, WriteComment, Writes, Idle, Asked
      <4>2. column' = [column EXCEPT ![comment[d].step][comment[d].kind] = comment[d].text]
        BY <2>2 DEF WriteComment
      <4> QED
        BY <4>1, <4>2, Shape DEF Inv, Writes
    <3>2. Wrote(c) /\ comment[c].step = s /\ comment[c].kind = k
      BY DEF Inv, ColumnInv
    <3> QED
      BY <3>1, <3>2 DEF Inv, MetInv, Writes, Wrote, Meet
  <2>3. ASSUME UNCHANGED column PROVE FALSE
    BY <2>3
  <2> QED
    <3>1. CASE Next
      BY <2>1, <2>2, <2>3, <3>1
         DEF Next, UploadNext, CommentNext, Work, InsertStep, InsertDir, Insert, Walk, EnqueueStep,
             FindTarget, SetType, LoseTarget, LookForComment, EnqueueComment, Take, Retry, Crash, Look, Ack, CreateRate,
             ReadComment, AddToRate, tables
    <3> QED
      BY <2>3, <3>1 DEF vars
<1> QED
  BY <1>1, InvAlways, PTL DEF Spec, ReplacedOnlyWhenMet
=============================================================================
