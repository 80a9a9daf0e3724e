-------------------------- MODULE StepFilesProofs --------------------------
(***************************************************************************)
(* Table and bucket agree, for any number of targets, names, steps,        *)
(* uploads and handlers.  The inductive invariant follows each object name *)
(* by itself: as long as no two requests met on it and none was refused or *)
(* cut short on it, at most one request is at work on it and at most one   *)
(* row has it, and where that request is tells what the bucket holds.      *)
(* A step that lost its target stays lost because links are only ever lost *)
(* (LinksStay), which one follows up the chain of older and older parents; *)
(* the pages follow from the place of a step being the size of a set.      *)
(***************************************************************************)
EXTENDS StepPages, Climbs, FiniteSetTheorems

ARow == [exists  : BOOLEAN,
         target  : Targets \union {NoTarget},
         parent  : 0 .. MaxSteps,
         key     : Keys \union {NoKey},
         content : Contents \union {NoContent}]

ARequest == [pc      : {"idle", "put", "insert", "look", "remove", "delete"},
             target  : Targets \union {NoTarget},
             dir     : 0 .. MaxSteps,
             step    : 0 .. MaxSteps,
             key     : Keys \union {NoKey},
             content : Contents \union {NoContent}]

TypeInv == /\ live \subseteq Targets
           /\ steps \in [StepIds -> ARow]
           /\ nextId \in 1 .. MaxSteps + 1
           /\ objects \in [Keys -> Contents \union {NoContent}]
           /\ uploads \in 0 .. MaxUploads
           /\ req \in [Requests -> ARequest]
           /\ faults \in 0 .. MaxFaults
           /\ contested \subseteq Keys

LEMMA TypeIs == TypeInv <=> TypeOK
BY DEF TypeInv, TypeOK, ARow, ARequest

LEMMA NoKeyIsNoKey == NoKey \notin Keys
BY TargetAssumption DEF NoKey, Keys

LEMMA IdleType == Idle \in ARequest
BY BoundsAssumption DEF Idle, ARequest, NoStep

LEMMA NoRowType == NoRow \in ARow /\ ~NoRow.exists /\ NoRow.key = NoKey
BY BoundsAssumption DEF NoRow, ARow, NoStep

LEMMA RowType ==
    ASSUME NEW t \in Targets \union {NoTarget}, NEW d \in 0 .. MaxSteps,
           NEW k \in Keys \union {NoKey}, NEW c \in Contents \union {NoContent}
    PROVE  /\ Row(t, d, k, c) \in ARow
           /\ Row(t, d, k, c).exists
           /\ Row(t, d, k, c).key = k
           /\ Row(t, d, k, c).content = c
BY DEF Row, ARow

(***************************************************************************)
(* What a step does to the requests: one goes on, or none.                 *)
(***************************************************************************)
LEMMA GoesOn ==
    ASSUME TypeInv, NEW r \in Requests, NEW q \in ARequest, Continue(r, q)
    PROVE  /\ req' \in [Requests -> ARequest]
           /\ req'[r] = q
           /\ \A x \in Requests \ {r} : req'[x] = req[x]
BY DEF Continue, TypeInv

LEMMA TypeInit == Init => TypeInv
BY BoundsAssumption, IdleType, NoRowType
   DEF Init, TypeInv, StepIds, Contents, NoContent

LEMMA BeginUploadType ==
    ASSUME TypeInv, NEW r \in Requests, NEW t \in Targets \union {NoTarget},
           NEW dir \in 0 .. MaxSteps, NEW n \in Names, BeginUpload(r, t, dir, n)
    PROVE  /\ TypeInv'
           /\ FormKey(t, dir, n) \in Keys
           /\ uploads + 1 \in Contents
           /\ req'[r] \in ARequest
           /\ req'[r].pc = "put" /\ req'[r].key = FormKey(t, dir, n)
           /\ \A x \in Requests \ {r} : req'[x] = req[x]
<1> DEFINE k == FormKey(t, dir, n)
           q == [Idle EXCEPT !.pc = FirstOfUpload, !.target = FormTarget(t, dir),
                             !.dir = dir, !.key = k, !.content = uploads + 1]
<1>1. FormTarget(t, dir) \in Targets
  BY DEF BeginUpload, TypeInv
<1>2. k \in Keys
  BY <1>1, BoundsAssumption DEF FormKey, Key, Keys, NoStep
<1>3. uploads + 1 \in Contents /\ uploads + 1 \in 0 .. MaxUploads
  BY BoundsAssumption DEF BeginUpload, TypeInv, Contents
<1>4. q \in ARequest /\ q.pc = "put" /\ q.key = k
  BY <1>1, <1>2, <1>3, IdleType DEF ARequest, FirstOfUpload, Idle
<1>5. Continue(r, q) /\ Meet(k, Busy(k) \union Holder(k))
  BY DEF BeginUpload
<1> HIDE DEF q, k
<1>6. contested' \subseteq Keys
  BY <1>2, <1>5 DEF Meet, Contest, TypeInv
<1>7. /\ req' \in [Requests -> ARequest] /\ req'[r] = q
      /\ \A x \in Requests \ {r} : req'[x] = req[x]
  BY <1>4, <1>5, GoesOn
<1> QED
  BY <1>2, <1>3, <1>4, <1>6, <1>7 DEF BeginUpload, TypeInv, k

LEMMA PutType ==
    ASSUME TypeInv, NEW r \in Requests, Put(r)
    PROVE  /\ TypeInv'
           /\ req'[r] = [req[r] EXCEPT !.pc = "insert"]
           /\ \A x \in Requests \ {r} : req'[x] = req[x]
<1> DEFINE q == [req[r] EXCEPT !.pc = "insert"]
<1>1. q \in ARequest /\ req[r] \in ARequest
  BY DEF TypeInv, ARequest
<1>2. Continue(r, q)
  BY DEF Put
<1> HIDE DEF q
<1>3. /\ req' \in [Requests -> ARequest] /\ req'[r] = q
      /\ \A x \in Requests \ {r} : req'[x] = req[x]
  BY <1>1, <1>2, GoesOn
<1>4. objects' \in [Keys -> Contents \union {NoContent}]
  BY <1>1 DEF Put, TypeInv, ARequest
<1> QED
  BY <1>3, <1>4 DEF Put, TypeInv, q

LEMMA InsertType ==
    ASSUME TypeInv, NEW r \in Requests, Insert(r)
    PROVE  /\ TypeInv'
           /\ req'[r] = Idle
           /\ \A x \in Requests \ {r} : req'[x] = req[x]
<1>1. req[r] \in ARequest /\ Continue(r, Idle)
  BY DEF TypeInv, Insert, Finish
<1>2. /\ req' \in [Requests -> ARequest] /\ req'[r] = Idle
      /\ \A x \in Requests \ {r} : req'[x] = req[x]
  BY <1>1, GoesOn, IdleType
<1> DEFINE row == Row(req[r].target, req[r].dir, req[r].key, req[r].content)
<1>3. row \in ARow
  BY <1>1, RowType DEF ARequest
<1> HIDE DEF row
<1>4. CASE Accepts(req[r])
  <2>1. nextId \in StepIds /\ steps' = [steps EXCEPT ![nextId] = row] /\ nextId' = nextId + 1
    BY <1>4 DEF Insert, Accepts, TypeInv, StepIds, row
  <2>2. steps' \in [StepIds -> ARow] /\ nextId' \in 1 .. MaxSteps + 1
    BY <1>3, <2>1, BoundsAssumption DEF TypeInv, StepIds
  <2> QED
    BY <1>2, <1>4, <2>2 DEF TypeInv, Insert
<1>5. CASE ~Accepts(req[r])
  <2>1. contested' \subseteq Keys
    BY <1>1, <1>5 DEF Insert, Contest, TypeInv, ARequest
  <2> QED
    BY <1>2, <1>5, <2>1 DEF TypeInv, Insert
<1> QED
  BY <1>4, <1>5

LEMMA AddDirType ==
    ASSUME TypeInv, NEW t \in Targets, AddDir(t)
    PROVE  TypeInv'
<1> DEFINE row == Row(t, NoStep, NoKey, NoContent)
<1>1. row \in ARow
  BY RowType, BoundsAssumption DEF NoStep
<1>2. nextId \in StepIds /\ steps' = [steps EXCEPT ![nextId] = row] /\ nextId' = nextId + 1
  BY DEF AddDir, TypeInv, StepIds
<1> HIDE DEF row
<1>3. steps' \in [StepIds -> ARow] /\ nextId' \in 1 .. MaxSteps + 1
  BY <1>1, <1>2, BoundsAssumption DEF TypeInv, StepIds
<1> QED
  BY <1>3 DEF AddDir, TypeInv

LEMMA BeginDeleteType ==
    ASSUME TypeInv, NEW r \in Requests, NEW s \in StepIds, BeginDelete(r, s)
    PROVE  /\ TypeInv'
           /\ req'[r].pc = "look" /\ req'[r].key = NoKey
           /\ \A x \in Requests \ {r} : req'[x] = req[x]
<1> DEFINE q == [Idle EXCEPT !.pc = "look", !.step = s]
<1>0. s \in 0 .. MaxSteps
  BY DEF StepIds
<1>1. q \in ARequest /\ q.pc = "look" /\ q.key = NoKey
  BY <1>0, IdleType DEF ARequest, Idle
<1>2. Continue(r, q)
  BY DEF BeginDelete
<1> HIDE DEF q
<1>3. /\ req' \in [Requests -> ARequest] /\ req'[r] = q
      /\ \A x \in Requests \ {r} : req'[x] = req[x]
  BY <1>1, <1>2, GoesOn
<1> QED
  BY <1>1, <1>3 DEF BeginDelete, TypeInv

LEMMA LookForStepType ==
    ASSUME TypeInv, NEW r \in Requests, LookForStep(r), req[r].step \in Stored
    PROVE  /\ TypeInv'
           /\ req'[r] \in ARequest
           /\ req'[r].pc = FirstOfDelete(req[r].step)
           /\ req'[r].step = req[r].step /\ req'[r].key = steps[req[r].step].key
           /\ \A x \in Requests \ {r} : req'[x] = req[x]
<1> DEFINE s == req[r].step
           q == [Idle EXCEPT !.pc = FirstOfDelete(s), !.step = s, !.key = steps[s].key]
<1>1. steps[s] \in ARow /\ s \in 0 .. MaxSteps
  BY DEF TypeInv, StepIds, Stored
<1>2. steps[s].key \in Keys \union {NoKey} /\ FirstOfDelete(s) \in {"remove", "delete"}
  BY <1>1 DEF ARow, FirstOfDelete
<1>3. q \in ARequest /\ q.pc = FirstOfDelete(s) /\ q.step = s /\ q.key = steps[s].key
  BY <1>1, <1>2, IdleType DEF ARequest, Idle
<1>4. Continue(r, q) /\ Meet(steps[s].key, Busy(steps[s].key))
  BY DEF LookForStep
<1> HIDE DEF q
<1>5. contested' \subseteq Keys
  BY <1>2, <1>4 DEF Meet, Contest, TypeInv
<1>6. /\ req' \in [Requests -> ARequest] /\ req'[r] = q
      /\ \A x \in Requests \ {r} : req'[x] = req[x]
  BY <1>3, <1>4, GoesOn
<1> QED
  BY <1>3, <1>5, <1>6 DEF LookForStep, TypeInv

LEMMA LookForNothingType ==
    ASSUME TypeInv, NEW r \in Requests, LookForStep(r), req[r].step \notin Stored
    PROVE  /\ TypeInv'
           /\ req'[r] = Idle
           /\ \A x \in Requests \ {r} : req'[x] = req[x]
<1>1. Continue(r, Idle) /\ UNCHANGED contested
  BY DEF LookForStep, Finish
<1>2. /\ req' \in [Requests -> ARequest] /\ req'[r] = Idle
      /\ \A x \in Requests \ {r} : req'[x] = req[x]
  BY <1>1, GoesOn, IdleType
<1> QED
  BY <1>1, <1>2 DEF LookForStep, TypeInv

LEMMA RemoveFileType ==
    ASSUME TypeInv, NEW r \in Requests, RemoveFile(r)
    PROVE  /\ TypeInv'
           /\ req'[r] = [req[r] EXCEPT !.pc = "delete"]
           /\ \A x \in Requests \ {r} : req'[x] = req[x]
<1> DEFINE q == [req[r] EXCEPT !.pc = "delete"]
<1>1. q \in ARequest
  BY DEF TypeInv, ARequest
<1>2. Continue(r, q)
  BY DEF RemoveFile
<1> HIDE DEF q
<1>3. /\ req' \in [Requests -> ARequest] /\ req'[r] = q
      /\ \A x \in Requests \ {r} : req'[x] = req[x]
  BY <1>1, <1>2, GoesOn
<1>4. objects' \in [Keys -> Contents \union {NoContent}]
  BY DEF RemoveFile, TypeInv
<1> QED
  BY <1>3, <1>4 DEF RemoveFile, TypeInv, q

(***************************************************************************)
(* Deleting a step takes its row and the link of its children, and nothing *)
(* else from the table; deleting a target takes links only.                *)
(***************************************************************************)
LEMMA WithoutStepIs ==
    ASSUME TypeInv, NEW s \in StepIds
    PROVE  /\ WithoutStep(s) \in [StepIds -> ARow]
           /\ ~WithoutStep(s)[s].exists
           /\ \A c \in StepIds \ {s} : /\ WithoutStep(s)[c].exists = steps[c].exists
                                        /\ WithoutStep(s)[c].key = steps[c].key
                                        /\ WithoutStep(s)[c].content = steps[c].content
<1>1. \A c \in StepIds : steps[c] \in ARow /\ [steps[c] EXCEPT !.parent = NoStep] \in ARow
  BY BoundsAssumption DEF TypeInv, ARow, NoStep
<1> QED
  BY <1>1, NoRowType DEF WithoutStep, ARow

LEMMA DeleteRowType ==
    ASSUME TypeInv, NEW r \in Requests, DeleteRow(r)
    PROVE  /\ TypeInv'
           /\ req'[r] = Idle
           /\ \A x \in Requests \ {r} : req'[x] = req[x]
<1>1. /\ req' \in [Requests -> ARequest] /\ req'[r] = Idle
      /\ \A x \in Requests \ {r} : req'[x] = req[x]
  BY GoesOn, IdleType DEF DeleteRow, Finish
<1>2. steps' \in [StepIds -> ARow]
  BY WithoutStepIs DEF DeleteRow, TypeInv, Stored
<1> QED
  BY <1>1, <1>2 DEF DeleteRow, TypeInv

LEMMA DeleteTargetType ==
    ASSUME TypeInv, NEW t \in Targets, DeleteTarget(t)
    PROVE  /\ TypeInv'
           /\ \A s \in StepIds : /\ steps'[s].exists = steps[s].exists
                                  /\ steps'[s].key = steps[s].key
                                  /\ steps'[s].content = steps[s].content
<1>1. \A s \in StepIds : steps[s] \in ARow /\ [steps[s] EXCEPT !.target = NoTarget] \in ARow
  BY DEF TypeInv, ARow
<1>2. /\ steps' \in [StepIds -> ARow]
      /\ \A s \in StepIds : /\ steps'[s].exists = steps[s].exists
                             /\ steps'[s].key = steps[s].key
                             /\ steps'[s].content = steps[s].content
  BY <1>1 DEF DeleteTarget, ARow
<1> QED
  BY <1>2 DEF DeleteTarget, TypeInv

LEMMA AbortType ==
    ASSUME TypeInv, NEW r \in Requests, Abort(r)
    PROVE  /\ TypeInv'
           /\ req'[r] = Idle
           /\ \A x \in Requests \ {r} : req'[x] = req[x]
<1>1. /\ req' \in [Requests -> ARequest] /\ req'[r] = Idle
      /\ \A x \in Requests \ {r} : req'[x] = req[x]
  BY GoesOn, IdleType DEF Abort, Finish
<1>2. contested' \subseteq Keys
  BY DEF Abort, Contest, TypeInv, ARequest
<1>3. faults' \in 0 .. MaxFaults
  BY BoundsAssumption DEF Abort, TypeInv
<1> QED
  BY <1>1, <1>2, <1>3 DEF Abort, TypeInv

LEMMA TypeNext == TypeInv /\ [Next]_vars => TypeInv'
<1> SUFFICES ASSUME TypeInv, [Next]_vars PROVE TypeInv'
  OBVIOUS
<1>1. CASE UNCHANGED vars
  BY <1>1 DEF vars, TypeInv
<1>2. CASE Next
  BY <1>2, BeginUploadType, PutType, InsertType, AddDirType, BeginDeleteType,
     LookForStepType, LookForNothingType, RemoveFileType, DeleteRowType, DeleteTargetType, AbortType DEF Next
<1> QED
  BY <1>1, <1>2

LEMMA TypeAlways == Spec => []TypeInv
BY TypeInit, TypeNext, PTL DEF Spec

(* StepFiles is type correct, for any targets, names, handlers and bounds. *)
THEOREM TypeCorrect == Spec => []TypeOK
BY TypeIs, TypeAlways, PTL

-----------------------------------------------------------------------------
(***************************************************************************)
(* Ids are given once, and a deletion that is under way knows the object   *)
(* name of its step, if the step is still there.                           *)
(***************************************************************************)
FreshInv == \A s \in StepIds : s >= nextId => ~steps[s].exists

StepKeyInv ==
    \A r \in Requests :
        /\ req[r].pc \in {"remove", "delete"} =>
              /\ req[r].step \in StepIds /\ req[r].step < nextId
              /\ req[r].step \in Stored => steps[req[r].step].key = req[r].key
        /\ req[r].pc = "look" => req[r].key = NoKey

\* What holds of an object name on which nothing went wrong.
KeyOK(k) ==
    /\ \A a, b \in Busy(k) : a = b
    /\ \A a, b \in Holder(k) : a = b
    /\ \A r \in Busy(k) :
          /\ req[r].pc \in {"put", "insert"} => Holder(k) = {}
          /\ req[r].pc \in {"remove", "delete"} => req[r].step \in Holder(k)
          /\ req[r].pc \in {"put", "delete"} => objects[k] = NoContent
          /\ req[r].pc = "insert" => objects[k] = req[r].content
    /\ \A s \in Holder(k) : \/ objects[k] = steps[s].content
                            \/ \E r \in Busy(k) : req[r].pc = "delete"
    /\ Holder(k) = {} /\ Busy(k) = {} => objects[k] = NoContent

SafeInv == /\ TypeInv
           /\ FreshInv
           /\ StepKeyInv
           /\ \A k \in Keys \ contested : KeyOK(k)

(***************************************************************************)
(* Lemmas on what a step leaves alone.                                     *)
(***************************************************************************)
LEMMA BusyIs ==
    ASSUME TypeInv, NEW r \in Requests, NEW k \in Keys,
           \A x \in Requests \ {r} : req'[x] = req[x]
    PROVE  /\ req'[r].pc # "idle" /\ req'[r].key = k => Busy(k)' = Busy(k) \union {r}
           /\ req'[r].pc = "idle" \/ req'[r].key # k => Busy(k)' = Busy(k) \ {r}
BY DEF Busy

LEMMA TableSame ==
    ASSUME NEW k \in Keys, UNCHANGED steps
    PROVE  Holder(k)' = Holder(k)
BY DEF Holder, Stored

LEMMA HolderSame ==
    ASSUME NEW k \in Keys,
           \A s \in StepIds : /\ steps'[s].exists = steps[s].exists
                              /\ steps'[s].key = steps[s].key
    PROVE  Holder(k)' = Holder(k)
BY DEF Holder, Stored

LEMMA Frame ==
    ASSUME NEW k \in Keys, KeyOK(k),
           Busy(k)' = Busy(k), \A r \in Busy(k) : req'[r] = req[r],
           Holder(k)' = Holder(k), \A s \in Holder(k) : steps'[s].content = steps[s].content,
           objects'[k] = objects[k]
    PROVE  KeyOK(k)'
BY DEF KeyOK

\* The step of one handler at another object name.
LEMMA Elsewhere ==
    ASSUME TypeInv, NEW r \in Requests, NEW k \in Keys, KeyOK(k),
           \A x \in Requests \ {r} : req'[x] = req[x],
           r \notin Busy(k), req'[r].pc = "idle" \/ req'[r].key # k,
           Holder(k)' = Holder(k), \A s \in Holder(k) : steps'[s].content = steps[s].content,
           objects'[k] = objects[k]
    PROVE  KeyOK(k)'
<1>1. Busy(k)' = Busy(k)
  BY BusyIs
<1>2. \A x \in Busy(k) : req'[x] = req[x]
  BY DEF Busy
<1> QED
  BY <1>1, <1>2, Frame

LEMMA SafeInit == Init => SafeInv
<1> SUFFICES ASSUME Init PROVE SafeInv
  OBVIOUS
<1>1. Stored = {} /\ \A r \in Requests : req[r].pc = "idle"
  BY NoRowType DEF Init, Stored, Idle
<1>2. \A k \in Keys : KeyOK(k)
  BY <1>1 DEF Init, KeyOK, Holder, Busy
<1>3. FreshInv /\ StepKeyInv
  BY <1>1 DEF FreshInv, StepKeyInv, Stored
<1> QED
  BY <1>2, <1>3, TypeInit DEF SafeInv

(***************************************************************************)
(* FreshInv and StepKeyInv.                                                *)
(***************************************************************************)
LEMMA RequestsKeep ==
    ASSUME SafeInv, NEW r \in Requests,
           \A x \in Requests \ {r} : req'[x] = req[x],
           req'[r].pc \in {"remove", "delete"} =>
              /\ req'[r].step \in StepIds /\ req'[r].step < nextId
              /\ req'[r].step \in Stored => steps[req'[r].step].key = req'[r].key,
           req'[r].pc = "look" => req'[r].key = NoKey,
           UNCHANGED <<steps, nextId>>
    PROVE  FreshInv' /\ StepKeyInv'
<1>1. FreshInv'
  BY DEF FreshInv, SafeInv
<1>2. Stored' = Stored
  BY DEF Stored
<1> QED
  BY <1>1, <1>2 DEF StepKeyInv, SafeInv

\* A new row takes a fresh id.
LEMMA RowIsNew ==
    ASSUME SafeInv, NEW row \in ARow, nextId <= MaxSteps,
           steps' = [steps EXCEPT ![nextId] = row], nextId' = nextId + 1,
           \A x \in Requests : req'[x].pc \in {"look", "remove", "delete"} => req'[x] = req[x]
    PROVE  FreshInv' /\ StepKeyInv'
<1>1. nextId \in StepIds /\ nextId \in Nat
  BY DEF SafeInv, TypeInv, StepIds
<1>2. FreshInv'
  BY <1>1 DEF FreshInv, SafeInv, TypeInv, StepIds
<1>3. \A s \in StepIds : s < nextId => steps'[s] = steps[s]
  BY <1>1 DEF SafeInv, TypeInv, StepIds
<1>4. \A s \in StepIds : s < nextId => s < nextId'
  BY <1>1 DEF StepIds
<1>5. ASSUME NEW x \in Requests, req'[x].pc \in {"remove", "delete"}
      PROVE  /\ req'[x].step \in StepIds /\ req'[x].step < nextId'
             /\ req'[x].step \in Stored' => steps'[req'[x].step].key = req'[x].key
  BY <1>3, <1>4, <1>5 DEF StepKeyInv, SafeInv, Stored
<1>6. ASSUME NEW x \in Requests, req'[x].pc = "look" PROVE req'[x].key = NoKey
  BY <1>6 DEF StepKeyInv, SafeInv
<1> QED
  BY <1>2, <1>5, <1>6 DEF StepKeyInv

\* Rows go or keep their object name.
LEMMA RowsKeep ==
    ASSUME SafeInv, UNCHANGED nextId,
           \A s \in StepIds : steps'[s].exists => steps[s].exists /\ steps'[s].key = steps[s].key,
           \A x \in Requests : req'[x].pc \in {"look", "remove", "delete"} => req'[x] = req[x]
    PROVE  FreshInv' /\ StepKeyInv'
<1>1. FreshInv'
  BY DEF FreshInv, SafeInv
<1> QED
  BY <1>1 DEF StepKeyInv, SafeInv, Stored

(***************************************************************************)
(* One lemma for each action: SafeInv is kept.                             *)
(***************************************************************************)
LEMMA BeginUploadSafe ==
    ASSUME SafeInv, NEW r \in Requests, NEW t \in Targets \union {NoTarget},
           NEW dir \in 0 .. MaxSteps, NEW n \in Names, BeginUpload(r, t, dir, n)
    PROVE  SafeInv'
<1> DEFINE key == FormKey(t, dir, n)
<1>1. /\ TypeInv' /\ key \in Keys
      /\ req'[r] \in ARequest /\ req'[r].pc = "put" /\ req'[r].key = key
      /\ \A x \in Requests \ {r} : req'[x] = req[x]
  BY BeginUploadType DEF SafeInv
<1>2. /\ Meet(key, Busy(key) \union Holder(key)) /\ req[r].pc = "idle"
      /\ UNCHANGED <<steps, nextId, objects>>
  BY DEF BeginUpload
<1> HIDE DEF key
<1>3. FreshInv' /\ StepKeyInv'
  BY <1>1, <1>2, RequestsKeep
<1>4. ASSUME NEW k \in Keys, k \notin contested' PROVE KeyOK(k)'
  <2>1. TypeInv /\ k \notin contested /\ KeyOK(k)
    BY <1>2, <1>4 DEF Meet, Contest, SafeInv
  <2>2. Holder(k)' = Holder(k) /\ r \notin Busy(k)
    BY <1>2, TableSame DEF Busy
  <2>3. CASE k = key
    <3>1. Busy(k) = {} /\ Holder(k) = {}
      BY <1>1, <1>2, <1>4, <2>3, NoKeyIsNoKey DEF Meet, Contest
    <3>2. Busy(k)' = {r}
      BY <1>1, <2>1, <2>3, <3>1, BusyIs
    <3> QED
      BY <1>1, <1>2, <2>1, <2>2, <3>1, <3>2 DEF KeyOK
  <2>4. CASE k # key
    BY <1>1, <1>2, <2>1, <2>2, <2>4, Elsewhere
  <2> QED
    BY <2>3, <2>4
<1> QED
  BY <1>1, <1>3, <1>4 DEF SafeInv

LEMMA PutSafe ==
    ASSUME SafeInv, NEW r \in Requests, Put(r)
    PROVE  SafeInv'
<1>1. /\ TypeInv' /\ TypeInv /\ req[r] \in ARequest
      /\ req'[r] = [req[r] EXCEPT !.pc = "insert"]
      /\ \A x \in Requests \ {r} : req'[x] = req[x]
  BY PutType DEF SafeInv, TypeInv
<1>2. /\ req[r].pc = "put" /\ req'[r].pc = "insert"
      /\ req'[r].key = req[r].key /\ req'[r].content = req[r].content
      /\ objects' = [objects EXCEPT ![req[r].key] = req[r].content]
      /\ UNCHANGED <<steps, nextId, contested>>
  BY <1>1 DEF Put, ARequest
<1>3. FreshInv' /\ StepKeyInv'
  BY <1>1, <1>2, RequestsKeep
<1>4. ASSUME NEW k \in Keys, k \notin contested' PROVE KeyOK(k)'
  <2>1. KeyOK(k) /\ Holder(k)' = Holder(k)
    BY <1>2, <1>4, TableSame DEF SafeInv
  <2>2. CASE k = req[r].key
    <3>1. r \in Busy(k) /\ Busy(k)' = Busy(k)
      <4>1. r \in Busy(k)
        BY <1>2, <2>2 DEF Busy
      <4>2. Busy(k)' = Busy(k) \union {r}
        BY <1>1, <1>2, <2>2, BusyIs
      <4> QED
        BY <4>1, <4>2
    <3>2. Busy(k) = {r} /\ Holder(k) = {}
      BY <1>2, <2>1, <3>1 DEF KeyOK
    <3>3. objects'[k] = req'[r].content
      BY <1>1, <1>2, <2>2 DEF TypeInv
    <3> QED
      BY <1>2, <2>1, <3>1, <3>2, <3>3 DEF KeyOK
  <2>3. CASE k # req[r].key
    <3>1. r \notin Busy(k) /\ objects'[k] = objects[k]
      BY <1>1, <1>2, <2>3 DEF Busy, TypeInv
    <3> QED
      BY <1>1, <1>2, <2>1, <2>3, <3>1, Elsewhere
  <2> QED
    BY <2>2, <2>3
<1> QED
  BY <1>1, <1>3, <1>4 DEF SafeInv

LEMMA InsertSafe ==
    ASSUME SafeInv, NEW r \in Requests, Insert(r)
    PROVE  SafeInv'
<1>1. /\ TypeInv' /\ TypeInv /\ req[r] \in ARequest
      /\ req'[r] = Idle /\ req'[r].pc = "idle"
      /\ \A x \in Requests \ {r} : req'[x] = req[x]
  BY InsertType DEF SafeInv, TypeInv, Idle
<1>2. /\ req[r].pc = "insert" /\ UNCHANGED objects /\ contested \subseteq contested'
  BY DEF Insert, Contest
<1> DEFINE row == Row(req[r].target, req[r].dir, req[r].key, req[r].content)
<1>3. row \in ARow /\ row.exists /\ row.key = req[r].key /\ row.content = req[r].content
  <2>1. /\ req[r].target \in Targets \union {NoTarget} /\ req[r].dir \in 0 .. MaxSteps
        /\ req[r].key \in Keys \union {NoKey} /\ req[r].content \in Contents \union {NoContent}
    BY <1>1 DEF ARequest
  <2>2. PICK t \in Targets \union {NoTarget}, d \in 0 .. MaxSteps,
             k \in Keys \union {NoKey}, c \in Contents \union {NoContent} :
             t = req[r].target /\ d = req[r].dir /\ k = req[r].key /\ c = req[r].content
    BY <2>1
  <2>3. /\ Row(t, d, k, c) \in ARow /\ Row(t, d, k, c).exists
        /\ Row(t, d, k, c).key = k /\ Row(t, d, k, c).content = c
    BY RowType
  <2>4. row = Row(t, d, k, c)
    BY <2>2
  <2> HIDE DEF row
  <2> QED
    BY <2>2, <2>3, <2>4
<1>4. CASE ~Accepts(req[r])
  <2>1. UNCHANGED <<steps, nextId>> /\ contested' = contested \union ({req[r].key} \ {NoKey})
    BY <1>4 DEF Insert, Contest
  <2>2. FreshInv' /\ StepKeyInv'
    BY <1>1, <2>1, RequestsKeep
  <2>3. ASSUME NEW k \in Keys, k \notin contested' PROVE KeyOK(k)'
    <3>1. KeyOK(k) /\ Holder(k)' = Holder(k) /\ r \notin Busy(k)
      BY <2>1, <2>3, TableSame, NoKeyIsNoKey DEF SafeInv, Busy
    <3> QED
      BY <1>1, <1>2, <2>1, <3>1, Elsewhere
  <2> QED
    BY <1>1, <2>2, <2>3 DEF SafeInv
<1>5. CASE Accepts(req[r])
  <2>1. /\ nextId <= MaxSteps /\ nextId \in StepIds /\ Holder(req[r].key) = {}
        /\ steps' = [steps EXCEPT ![nextId] = row] /\ nextId' = nextId + 1
        /\ UNCHANGED contested
    BY <1>1, <1>5 DEF Insert, Accepts, TypeInv, StepIds
  <2>2. ~steps[nextId].exists
    BY <2>1 DEF SafeInv, FreshInv, StepIds
  <2> HIDE DEF row
  <2>3. \A x \in Requests : req'[x].pc \in {"look", "remove", "delete"} => req'[x] = req[x]
    BY <1>1
  <2>4. FreshInv' /\ StepKeyInv'
    BY <1>3, <2>1, <2>3, RowIsNew
  <2>5. steps'[nextId] = row /\ \A s \in StepIds \ {nextId} : steps'[s] = steps[s]
    BY <1>1, <2>1 DEF TypeInv
  <2>6. ASSUME NEW k \in Keys, k \notin contested' PROVE KeyOK(k)'
    <3>1. KeyOK(k)
      BY <2>1, <2>6 DEF SafeInv
    <3>2. CASE k = req[r].key
      <4>1. r \in Busy(k) /\ Busy(k)' = Busy(k) \ {r}
        BY <1>1, <1>2, <3>2, BusyIs DEF Busy
      <4>2. Busy(k)' = {} /\ objects[k] = req[r].content
        BY <1>2, <3>1, <4>1 DEF KeyOK
      <4>3. Holder(k)' = {nextId}
        BY <1>3, <2>1, <2>5, <3>2 DEF Holder, Stored
      <4> QED
        BY <1>2, <1>3, <2>5, <4>2, <4>3 DEF KeyOK
    <3>3. CASE k # req[r].key
      <4>1. r \notin Busy(k)
        BY <3>3 DEF Busy
      <4>2. Holder(k)' = Holder(k) /\ nextId \notin Holder(k)
        BY <1>3, <2>1, <2>2, <2>5, <3>3 DEF Holder, Stored
      <4>3. \A s \in Holder(k) : steps'[s].content = steps[s].content
        BY <2>5, <4>2 DEF Holder, Stored
      <4> QED
        BY <1>1, <1>2, <3>1, <4>1, <4>2, <4>3, Elsewhere
    <3> QED
      BY <3>2, <3>3
  <2> QED
    BY <1>1, <2>4, <2>6 DEF SafeInv
<1> QED
  BY <1>4, <1>5

LEMMA AddDirSafe ==
    ASSUME SafeInv, NEW t \in Targets, AddDir(t)
    PROVE  SafeInv'
<1> DEFINE row == Row(t, NoStep, NoKey, NoContent)
<1>1. TypeInv' /\ TypeInv
  BY AddDirType DEF SafeInv
<1>2. row \in ARow /\ row.key = NoKey
  BY RowType, BoundsAssumption DEF NoStep
<1>3. /\ nextId <= MaxSteps /\ nextId \in StepIds
      /\ steps' = [steps EXCEPT ![nextId] = row] /\ nextId' = nextId + 1
      /\ UNCHANGED <<objects, req, contested>>
  BY <1>1 DEF AddDir, TypeInv, StepIds
<1> HIDE DEF row
<1>4. FreshInv' /\ StepKeyInv'
  BY <1>2, <1>3, RowIsNew
<1>5. ~steps[nextId].exists
  BY <1>3 DEF SafeInv, FreshInv, StepIds
<1>6. steps'[nextId] = row /\ \A s \in StepIds \ {nextId} : steps'[s] = steps[s]
  BY <1>1, <1>3 DEF TypeInv
<1>7. ASSUME NEW k \in Keys, k \notin contested' PROVE KeyOK(k)'
  <2>1. KeyOK(k) /\ Busy(k)' = Busy(k)
    BY <1>3, <1>7 DEF SafeInv, Busy
  <2>2. Holder(k)' = Holder(k) /\ nextId \notin Holder(k)
    BY <1>2, <1>5, <1>6, NoKeyIsNoKey DEF Holder, Stored
  <2>3. \A s \in Holder(k) : steps'[s].content = steps[s].content
    BY <1>6, <2>2 DEF Holder, Stored
  <2> QED
    BY <1>3, <2>1, <2>2, <2>3, Frame
<1> QED
  BY <1>1, <1>4, <1>7 DEF SafeInv

LEMMA BeginDeleteSafe ==
    ASSUME SafeInv, NEW r \in Requests, NEW s \in StepIds, BeginDelete(r, s)
    PROVE  SafeInv'
<1>1. /\ TypeInv' /\ TypeInv
      /\ req'[r].pc = "look" /\ req'[r].key = NoKey
      /\ \A x \in Requests \ {r} : req'[x] = req[x]
  BY BeginDeleteType DEF SafeInv
<1>2. req[r].pc = "idle" /\ UNCHANGED <<steps, nextId, objects, contested>>
  BY DEF BeginDelete
<1>3. FreshInv' /\ StepKeyInv'
  BY <1>1, <1>2, RequestsKeep
<1>4. ASSUME NEW k \in Keys, k \notin contested' PROVE KeyOK(k)'
  <2>1. KeyOK(k) /\ Holder(k)' = Holder(k) /\ r \notin Busy(k) /\ req'[r].key # k
    BY <1>1, <1>2, <1>4, TableSame, NoKeyIsNoKey DEF SafeInv, Busy
  <2> QED
    BY <1>1, <1>2, <2>1, Elsewhere
<1> QED
  BY <1>1, <1>3, <1>4 DEF SafeInv

LEMMA LookForStepSafe ==
    ASSUME SafeInv, NEW r \in Requests, LookForStep(r), req[r].step \in Stored
    PROVE  SafeInv'
<1> DEFINE s == req[r].step
           key == steps[s].key
<1>1. /\ TypeInv' /\ TypeInv
      /\ req'[r].pc = FirstOfDelete(s) /\ req'[r].step = s /\ req'[r].key = key
      /\ \A x \in Requests \ {r} : req'[x] = req[x]
  BY LookForStepType DEF SafeInv
<1>2. /\ Meet(key, Busy(key)) /\ s \in Stored /\ s \in StepIds
      /\ req[r].pc = "look" /\ req[r].key = NoKey
      /\ UNCHANGED <<steps, nextId, objects>>
  BY DEF LookForStep, SafeInv, StepKeyInv, Stored
<1> HIDE DEF s
<1>3. s < nextId
  BY <1>1, <1>2 DEF SafeInv, FreshInv, Stored, TypeInv, StepIds
<1>4. FreshInv' /\ StepKeyInv'
  BY <1>1, <1>2, <1>3, RequestsKeep DEF FirstOfDelete
<1>5. ASSUME NEW k \in Keys, k \notin contested' PROVE KeyOK(k)'
  <2>1. TypeInv /\ k \notin contested /\ KeyOK(k)
    BY <1>2, <1>5 DEF Meet, Contest, SafeInv
  <2>2. Holder(k)' = Holder(k) /\ r \notin Busy(k)
    BY <1>2, TableSame, NoKeyIsNoKey DEF Busy
  <2>3. CASE k = key
    <3>1. Busy(k) = {} /\ s \in Holder(k) /\ req'[r].pc = "remove"
      BY <1>1, <1>2, <1>5, <2>3, NoKeyIsNoKey DEF Meet, Contest, Holder, FirstOfDelete
    <3>2. Busy(k)' = {r}
      BY <1>1, <2>1, <2>3, <3>1, BusyIs
    <3>3. \A x \in Holder(k) : objects[k] = steps[x].content
      BY <2>1, <3>1 DEF KeyOK
    <3> QED
      BY <1>1, <1>2, <2>1, <2>2, <3>1, <3>2, <3>3 DEF KeyOK
  <2>4. CASE k # key
    BY <1>1, <1>2, <2>1, <2>2, <2>4, Elsewhere
  <2> QED
    BY <2>3, <2>4
<1> QED
  BY <1>1, <1>4, <1>5 DEF SafeInv

\* The step is gone: the request gives up and touches no object name.
LEMMA LookForNothingSafe ==
    ASSUME SafeInv, NEW r \in Requests, LookForStep(r), req[r].step \notin Stored
    PROVE  SafeInv'
<1>1. /\ TypeInv' /\ TypeInv /\ req'[r].pc = "idle"
      /\ \A x \in Requests \ {r} : req'[x] = req[x]
  BY LookForNothingType DEF SafeInv, Idle
<1>2. /\ req[r].pc = "look" /\ req[r].key = NoKey
      /\ UNCHANGED <<steps, nextId, objects, contested>>
  BY DEF LookForStep, SafeInv, StepKeyInv
<1>3. FreshInv' /\ StepKeyInv'
  BY <1>1, <1>2, RequestsKeep
<1>4. ASSUME NEW k \in Keys, k \notin contested' PROVE KeyOK(k)'
  <2>1. KeyOK(k) /\ Holder(k)' = Holder(k) /\ r \notin Busy(k)
    BY <1>2, <1>4, TableSame, NoKeyIsNoKey DEF SafeInv, Busy
  <2> QED
    BY <1>1, <1>2, <2>1, Elsewhere
<1> QED
  BY <1>1, <1>3, <1>4 DEF SafeInv

LEMMA RemoveFileSafe ==
    ASSUME SafeInv, NEW r \in Requests, RemoveFile(r)
    PROVE  SafeInv'
<1>1. /\ TypeInv' /\ TypeInv /\ req[r] \in ARequest
      /\ req'[r] = [req[r] EXCEPT !.pc = "delete"]
      /\ \A x \in Requests \ {r} : req'[x] = req[x]
  BY RemoveFileType DEF SafeInv, TypeInv
<1>2. /\ req[r].pc = "remove" /\ req'[r].pc = "delete"
      /\ req'[r].key = req[r].key /\ req'[r].step = req[r].step
      /\ objects' = [objects EXCEPT ![req[r].key] = NoContent]
      /\ UNCHANGED <<steps, nextId, contested>>
  BY <1>1 DEF RemoveFile, ARequest
<1>3. FreshInv' /\ StepKeyInv'
  <2>1. /\ req'[r].step \in StepIds /\ req'[r].step < nextId
        /\ req'[r].step \in Stored => steps[req'[r].step].key = req'[r].key
    BY <1>2 DEF SafeInv, StepKeyInv
  <2> QED
    BY <1>1, <1>2, <2>1, RequestsKeep
<1>4. ASSUME NEW k \in Keys, k \notin contested' PROVE KeyOK(k)'
  <2>1. KeyOK(k) /\ Holder(k)' = Holder(k)
    BY <1>2, <1>4, TableSame DEF SafeInv
  <2>2. CASE k = req[r].key
    <3>1. r \in Busy(k) /\ Busy(k)' = Busy(k)
      <4>1. r \in Busy(k)
        BY <1>2, <2>2 DEF Busy
      <4>2. Busy(k)' = Busy(k) \union {r}
        BY <1>1, <1>2, <2>2, BusyIs
      <4> QED
        BY <4>1, <4>2
    <3>2. Busy(k) = {r} /\ req[r].step \in Holder(k)
      BY <1>2, <2>1, <3>1 DEF KeyOK
    <3>3. objects'[k] = NoContent
      BY <1>1, <1>2, <2>2 DEF TypeInv
    <3> QED
      BY <1>2, <2>1, <3>1, <3>2, <3>3 DEF KeyOK
  <2>3. CASE k # req[r].key
    <3>1. r \notin Busy(k) /\ objects'[k] = objects[k]
      BY <1>1, <1>2, <2>3 DEF Busy, TypeInv
    <3> QED
      BY <1>1, <1>2, <2>1, <2>3, <3>1, Elsewhere
  <2> QED
    BY <2>2, <2>3
<1> QED
  BY <1>1, <1>3, <1>4 DEF SafeInv

LEMMA DeleteRowSafe ==
    ASSUME SafeInv, NEW r \in Requests, DeleteRow(r)
    PROVE  SafeInv'
<1> DEFINE s == req[r].step
<1>1. /\ TypeInv' /\ TypeInv
      /\ req'[r] = Idle /\ req'[r].pc = "idle"
      /\ \A x \in Requests \ {r} : req'[x] = req[x]
  BY DeleteRowType DEF SafeInv, Idle
<1>2. /\ req[r].pc = "delete" /\ UNCHANGED <<nextId, objects, contested>>
      /\ s \in StepIds
      /\ s \in Stored => steps[s].key = req[r].key
  BY DEF DeleteRow, SafeInv, StepKeyInv
<1>3. ~steps'[s].exists /\ \A c \in StepIds \ {s} : /\ steps'[c].exists = steps[c].exists
                                                      /\ steps'[c].key = steps[c].key
                                                      /\ steps'[c].content = steps[c].content
  <2>1. CASE s \in Stored
    BY <1>1, <1>2, <2>1, WithoutStepIs DEF DeleteRow
  <2>2. CASE s \notin Stored
    BY <1>2, <2>2 DEF DeleteRow, Stored
  <2> QED
    BY <2>1, <2>2
<1> HIDE DEF s
<1>4. \A x \in Requests : req'[x].pc \in {"look", "remove", "delete"} => req'[x] = req[x]
  BY <1>1
<1>5. \A c \in StepIds : steps'[c].exists => steps[c].exists /\ steps'[c].key = steps[c].key
  BY <1>3
<1>6. FreshInv' /\ StepKeyInv'
  BY <1>2, <1>4, <1>5, RowsKeep
<1>7. ASSUME NEW k \in Keys, k \notin contested' PROVE KeyOK(k)'
  <2>1. KeyOK(k) /\ Holder(k)' = Holder(k) \ {s}
    BY <1>2, <1>3, <1>7 DEF SafeInv, Holder, Stored
  <2>2. CASE k = req[r].key
    <3>1. r \in Busy(k) /\ Busy(k)' = Busy(k) \ {r}
      <4>1. r \in Busy(k)
        BY <1>2, <2>2 DEF Busy
      <4> QED
        BY <1>1, <2>2, <4>1, BusyIs
    <3>2. Busy(k)' = {} /\ Holder(k)' = {} /\ objects[k] = NoContent
      BY <1>2, <2>1, <3>1 DEF KeyOK, s
    <3> QED
      BY <1>2, <3>2 DEF KeyOK
  <2>3. CASE k # req[r].key
    <3>1. r \notin Busy(k) /\ s \notin Holder(k)
      BY <1>2, <2>3 DEF Busy, Holder
    <3>2. \A c \in Holder(k) : steps'[c].content = steps[c].content
      BY <1>3, <3>1 DEF Holder, Stored
    <3> QED
      BY <1>1, <1>2, <2>1, <3>1, <3>2, Elsewhere
  <2> QED
    BY <2>2, <2>3
<1> QED
  BY <1>1, <1>6, <1>7 DEF SafeInv

LEMMA DeleteTargetSafe ==
    ASSUME SafeInv, NEW t \in Targets, DeleteTarget(t)
    PROVE  SafeInv'
<1>1. /\ TypeInv' /\ TypeInv /\ UNCHANGED <<nextId, objects, req, contested>>
      /\ \A s \in StepIds : /\ steps'[s].exists = steps[s].exists
                             /\ steps'[s].key = steps[s].key
                             /\ steps'[s].content = steps[s].content
  BY DeleteTargetType DEF SafeInv, DeleteTarget
<1>2. FreshInv' /\ StepKeyInv'
  BY <1>1, RowsKeep
<1>3. ASSUME NEW k \in Keys, k \notin contested' PROVE KeyOK(k)'
  <2>1. KeyOK(k) /\ Busy(k)' = Busy(k) /\ Holder(k)' = Holder(k)
    BY <1>1, <1>3, HolderSame DEF SafeInv, Busy
  <2> QED
    BY <1>1, <2>1, Frame DEF Holder, Stored
<1> QED
  BY <1>1, <1>2, <1>3 DEF SafeInv

LEMMA AbortSafe ==
    ASSUME SafeInv, NEW r \in Requests, Abort(r)
    PROVE  SafeInv'
<1>1. /\ TypeInv' /\ TypeInv /\ req'[r].pc = "idle"
      /\ \A x \in Requests \ {r} : req'[x] = req[x]
      /\ UNCHANGED <<steps, nextId, objects>>
      /\ contested' = contested \union ({req[r].key} \ {NoKey})
  BY AbortType DEF SafeInv, Idle, Abort, Contest
<1>2. FreshInv' /\ StepKeyInv'
  BY <1>1, RequestsKeep
<1>3. ASSUME NEW k \in Keys, k \notin contested' PROVE KeyOK(k)'
  <2>1. KeyOK(k) /\ Holder(k)' = Holder(k) /\ r \notin Busy(k)
    BY <1>1, <1>3, TableSame, NoKeyIsNoKey DEF SafeInv, Busy
  <2> QED
    BY <1>1, <2>1, Elsewhere
<1> QED
  BY <1>1, <1>2, <1>3 DEF SafeInv

LEMMA SafeNext == SafeInv /\ [Next]_vars => SafeInv'
<1> SUFFICES ASSUME SafeInv, [Next]_vars PROVE SafeInv'
  OBVIOUS
<1>1. CASE UNCHANGED vars
  <2>1. TypeInv' /\ FreshInv' /\ StepKeyInv'
    BY <1>1 DEF SafeInv, vars, TypeInv, FreshInv, StepKeyInv, Stored
  <2>2. \A k \in Keys \ contested' : KeyOK(k)'
    BY <1>1 DEF SafeInv, vars, KeyOK, Busy, Holder, Stored
  <2> QED
    BY <2>1, <2>2 DEF SafeInv
<1>2. CASE Next
  BY <1>2, BeginUploadSafe, PutSafe, InsertSafe, AddDirSafe, BeginDeleteSafe,
     LookForStepSafe, LookForNothingSafe, RemoveFileSafe, DeleteRowSafe, DeleteTargetSafe, AbortSafe DEF Next
<1> QED
  BY <1>1, <1>2

LEMMA SafeAlways == Spec => []SafeInv
BY SafeInit, SafeNext, PTL DEF Spec

(***************************************************************************)
(* A step has the file that was uploaded for it, or its deletion is half   *)
(* done, whatever other requests do: Upload and DeleteTargetStep.          *)
(***************************************************************************)
THEOREM StepHasItsFileAlways == Spec => []StepHasItsFile
<1>1. SafeInv => StepHasItsFile
  <2> SUFFICES ASSUME SafeInv, NEW s \in Stored, steps[s].key \notin contested \union {NoKey}
               PROVE  \/ objects[steps[s].key] = steps[s].content
                      \/ \E r \in Requests : req[r].pc = "delete" /\ req[r].step = s
    BY DEF StepHasItsFile
  <2>1. steps[s].key \in Keys /\ s \in Holder(steps[s].key)
    BY DEF SafeInv, TypeInv, ARow, Stored, Holder
  <2>2. KeyOK(steps[s].key)
    BY <2>1 DEF SafeInv
  <2> QED
    BY <2>1, <2>2 DEF KeyOK, Busy
<1> QED
  BY <1>1, SafeAlways, PTL

(***************************************************************************)
(* The bucket keeps nothing without a step, but for requests that met on   *)
(* a name, were refused or cut short: Upload and DeleteTargetStep.         *)
(***************************************************************************)
THEOREM FileHasItsStepAlways == Spec => []FileHasItsStep
<1>1. SafeInv => FileHasItsStep
  <2> SUFFICES ASSUME SafeInv, NEW k \in Keys \ contested, objects[k] # NoContent,
                      Holder(k) = {}
               PROVE  \E r \in Requests : req[r].pc = "insert" /\ req[r].key = k
    BY DEF FileHasItsStep
  <2>1. KeyOK(k)
    BY DEF SafeInv
  <2>2. PICK r \in Busy(k) : TRUE
    BY <2>1 DEF KeyOK
  <2>3. r \in Requests /\ req[r].key = k /\ req[r].pc # "idle" /\ req[r] \in ARequest
    BY <2>2 DEF Busy, SafeInv, TypeInv
  <2>4. req[r].pc \in {"put", "insert", "remove", "delete"}
    BY <2>3, NoKeyIsNoKey DEF ARequest, SafeInv, StepKeyInv
  <2> QED
    BY <2>1, <2>2, <2>3, <2>4 DEF KeyOK
<1> QED
  BY <1>1, SafeAlways, PTL

-----------------------------------------------------------------------------
(***************************************************************************)
(* A step is under an older step that is in the table, or under none: the  *)
(* foreign key on parent_id.                                               *)
(***************************************************************************)
LinkInv == \A s \in Stored : steps[s].parent # NoStep =>
               steps[s].parent \in Stored /\ steps[s].parent < s

\* What a step may do to the links: they are lost, never changed.
LinksStay ==
    \A s \in Stored : s \in Stored' =>
        /\ steps'[s].target \in {steps[s].target, NoTarget}
        /\ steps'[s].parent \in {steps[s].parent, NoStep}

\* A row goes only by a request that is at work on it, and a request begins to
\* work on a step only through its target.
StaysUntilAsked ==
    \A s \in Stored : (\A r \in Requests : req[r].step # s) =>
        /\ s \in Stored'
        /\ TargetOf[s] = NoTarget => \A r \in Requests : req'[r].step # s

\* The climb from a step to its target is well defined.
TargetRule ==
    \A s \in Stored :
        TargetOf[s] = IF steps[s].target # NoTarget \/ steps[s].parent = NoStep
                      THEN steps[s].target ELSE TargetOf[steps[s].parent]

LEMMA TargetOfIs == TypeInv /\ LinkInv => TargetRule
<1> SUFFICES ASSUME TypeInv, LinkInv PROVE TargetRule
  OBVIOUS
<1> DEFINE stops == {s \in StepIds : s \notin Stored \/ steps[s].target # NoTarget
                                                     \/ steps[s].parent = NoStep}
           val == [s \in StepIds |-> IF s \notin Stored THEN NoTarget ELSE steps[s].target]
           up == [s \in StepIds |-> steps[s].parent]
           Body(f) == [s \in StepIds |-> IF s \notin Stored THEN NoTarget
                         ELSE IF steps[s].target # NoTarget \/ steps[s].parent = NoStep
                              THEN steps[s].target ELSE f[steps[s].parent]]
<1>1. \A s \in 1 .. MaxSteps : s \notin stops => up[s] \in 1 .. s - 1
  BY BoundsAssumption DEF LinkInv, TypeInv, ARow, StepIds, Stored, NoStep
<1>2. MaxSteps \in Nat
  BY BoundsAssumption
<1> HIDE DEF stops, val, up
<1>3. PICK f : IsClimb(f, MaxSteps, stops, val, up)
  BY <1>1, <1>2, ClimbExists
<1> USE DEF stops, val, up
<1>4. \A s \in StepIds : (IF s \in stops THEN val[s] ELSE f[up[s]]) = Body(f)[s]
  OBVIOUS
<1>5. f = Body(f)
  BY <1>3, <1>4 DEF StepIds, IsClimb
<1>6. TargetOf = Body(TargetOf)
  <2>1. TargetOf = CHOOSE g : g = Body(g)
    BY DEF TargetOf
  <2> HIDE DEF Body
  <2> QED
    BY <1>5, <2>1
<1>7. Stored \subseteq StepIds
  BY DEF Stored
<1> QED
  BY <1>6, <1>7 DEF TargetRule

LEMMA LinkInit == Init => LinkInv
BY DEF Init, LinkInv, Stored, NoRow

\* A step that leaves the table alone.
LEMMA TableAlone ==
    ASSUME LinkInv, UNCHANGED steps
    PROVE  LinkInv' /\ LinksStay /\ Stored' = Stored
BY DEF LinkInv, LinksStay, Stored

\* A new row is under a row that is there, or under none.
LEMMA RowAdded ==
    ASSUME SafeInv, LinkInv, NEW row \in ARow, nextId <= MaxSteps,
           steps' = [steps EXCEPT ![nextId] = row],
           row.parent # NoStep => row.parent \in Stored
    PROVE  LinkInv' /\ LinksStay /\ Stored \subseteq Stored'
<1>1. nextId \in StepIds /\ nextId \notin Stored /\ \A s \in Stored : s < nextId
  BY DEF SafeInv, TypeInv, FreshInv, Stored, StepIds
<1>2. steps'[nextId] = row /\ \A s \in StepIds \ {nextId} : steps'[s] = steps[s]
  BY <1>1 DEF SafeInv, TypeInv
<1>3. Stored \subseteq Stored' /\ Stored' \subseteq Stored \union {nextId}
  BY <1>1, <1>2 DEF Stored
<1>4. \A s \in Stored : steps'[s] = steps[s]
  BY <1>1, <1>2 DEF Stored
<1>5. LinksStay
  BY <1>4 DEF LinksStay
<1>6. ASSUME NEW s \in Stored', steps'[s].parent # NoStep
      PROVE  steps'[s].parent \in Stored' /\ steps'[s].parent < s
  <2>1. CASE s \in Stored
    BY <1>3, <1>4, <1>6, <2>1 DEF LinkInv
  <2>2. CASE s = nextId
    BY <1>1, <1>2, <1>3, <1>6, <2>2
  <2> QED
    BY <1>3, <2>1, <2>2
<1>7. LinkInv'
  BY <1>6 DEF LinkInv
<1> QED
  BY <1>3, <1>5, <1>7

\* A deleted row takes the links of its children with it.
LEMMA RowGone ==
    ASSUME TypeInv, LinkInv, NEW s \in Stored, steps' = WithoutStep(s)
    PROVE  LinkInv' /\ LinksStay /\ Stored' = Stored \ {s}
<1>1. \A c \in StepIds \ {s} :
         /\ steps'[c].exists = steps[c].exists
         /\ steps'[c].target = steps[c].target
         /\ steps'[c].parent = IF steps[c].parent = s THEN NoStep ELSE steps[c].parent
  BY DEF WithoutStep, TypeInv, ARow
<1>2. s \in StepIds /\ ~steps'[s].exists
  BY WithoutStepIs DEF Stored
<1>3. Stored' = Stored \ {s}
  BY <1>1, <1>2 DEF Stored
<1>4. \A c \in Stored' : c \in Stored /\ c \in StepIds \ {s}
  BY <1>3 DEF Stored
<1>5. LinksStay
  BY <1>1, <1>4 DEF LinksStay
<1>6. LinkInv'
  BY <1>1, <1>3, <1>4 DEF LinkInv
<1> QED
  BY <1>3, <1>5, <1>6

LEMMA TargetGone ==
    ASSUME TypeInv, LinkInv, NEW t \in Targets, DeleteTarget(t)
    PROVE  LinkInv' /\ LinksStay /\ Stored' = Stored
<1>1. \A s \in StepIds :
         /\ steps'[s].exists = steps[s].exists
         /\ steps'[s].parent = steps[s].parent
         /\ steps'[s].target \in {steps[s].target, NoTarget}
  BY DEF DeleteTarget, TypeInv, ARow
<1>2. Stored' = Stored /\ Stored \subseteq StepIds
  BY <1>1 DEF Stored
<1> QED
  BY <1>1, <1>2 DEF LinkInv, LinksStay

(***************************************************************************)
(* The actions that change the table, then all of them.                    *)
(***************************************************************************)
LEMMA InsertLinks ==
    ASSUME SafeInv, LinkInv, NEW r \in Requests, Insert(r)
    PROVE  LinkInv' /\ LinksStay /\ Stored \subseteq Stored'
<1> DEFINE row == Row(req[r].target, req[r].dir, req[r].key, req[r].content)
<1>1. CASE Accepts(req[r])
  <2>1. req[r] \in ARequest
    BY DEF SafeInv, TypeInv
  <2>2. row \in ARow /\ row.parent = req[r].dir
    BY <2>1, RowType DEF ARequest, Row
  <2>3. steps' = [steps EXCEPT ![nextId] = row] /\ nextId <= MaxSteps
    BY <1>1 DEF Insert, Accepts
  <2>4. row.parent # NoStep => row.parent \in Stored
    BY <1>1, <2>2 DEF Accepts
  <2> HIDE DEF row
  <2> QED
    BY <2>2, <2>3, <2>4, RowAdded
<1>2. CASE ~Accepts(req[r])
  BY <1>2, TableAlone DEF Insert
<1> QED
  BY <1>1, <1>2

LEMMA AddDirLinks ==
    ASSUME SafeInv, LinkInv, NEW t \in Targets, AddDir(t)
    PROVE  LinkInv' /\ LinksStay /\ Stored \subseteq Stored'
<1> DEFINE row == Row(t, NoStep, NoKey, NoContent)
<1>1. row \in ARow /\ row.parent = NoStep
  BY RowType, BoundsAssumption DEF NoStep, Row
<1>2. steps' = [steps EXCEPT ![nextId] = row] /\ nextId <= MaxSteps
  BY DEF AddDir
<1> HIDE DEF row
<1> QED
  BY <1>1, <1>2, RowAdded

LEMMA DeleteRowLinks ==
    ASSUME SafeInv, LinkInv, NEW r \in Requests, DeleteRow(r)
    PROVE  LinkInv' /\ LinksStay /\ Stored \ {req[r].step} \subseteq Stored'
BY RowGone, TableAlone DEF DeleteRow, SafeInv

\* No handler but the one that goes on has another step than before.
LEMMA OneGoesOn ==
    ASSUME SafeInv, NEW r \in Requests, NEW q \in ARequest, Continue(r, q),
           q.step \in {NoStep, req[r].step}, Stored \ {req[r].step} \subseteq Stored'
    PROVE  StaysUntilAsked
<1>1. req'[r] = q /\ \A x \in Requests \ {r} : req'[x] = req[x]
  BY GoesOn DEF SafeInv
<1>2. NoStep \notin Stored
  BY DEF Stored, StepIds, NoStep
<1> QED
  BY <1>1, <1>2 DEF StaysUntilAsked

LEMMA LinkStep ==
    ASSUME SafeInv, LinkInv, [Next]_vars
    PROVE  LinkInv' /\ LinksStay /\ StaysUntilAsked
<1> USE DEF SafeInv
<1>1. CASE UNCHANGED vars
  BY <1>1, TableAlone DEF vars, StaysUntilAsked
<1>2. ASSUME NEW r \in Requests, NEW t \in Targets \union {NoTarget},
             NEW dir \in 0 .. MaxSteps, NEW n \in Names, BeginUpload(r, t, dir, n)
      PROVE  LinkInv' /\ LinksStay /\ StaysUntilAsked
  <2> DEFINE q == [Idle EXCEPT !.pc = FirstOfUpload, !.target = FormTarget(t, dir), !.dir = dir,
                               !.key = FormKey(t, dir, n), !.content = uploads + 1]
  <2>1. Continue(r, q) /\ UNCHANGED steps /\ req'[r] \in ARequest
    BY <1>2, BeginUploadType DEF BeginUpload
  <2>2. q.step = NoStep
    BY DEF Idle
  <2>3. q \in ARequest
    <3> HIDE DEF q
    <3> QED
      BY <2>1 DEF Continue, TypeInv
  <2> HIDE DEF q
  <2> QED
    BY <2>1, <2>2, <2>3, TableAlone, OneGoesOn
<1>3. ASSUME NEW r \in Requests, Put(r) \/ RemoveFile(r)
      PROVE  LinkInv' /\ LinksStay /\ StaysUntilAsked
  <2>1. PICK pc \in {"insert", "delete"} : Continue(r, [req[r] EXCEPT !.pc = pc])
    BY <1>3 DEF Put, RemoveFile
  <2>2. [req[r] EXCEPT !.pc = pc] \in ARequest /\ [req[r] EXCEPT !.pc = pc].step = req[r].step
    BY DEF TypeInv, ARequest
  <2>3. UNCHANGED steps
    BY <1>3 DEF Put, RemoveFile
  <2> QED
    BY <2>1, <2>2, <2>3, TableAlone, OneGoesOn
<1>4. ASSUME NEW r \in Requests, Insert(r)
      PROVE  LinkInv' /\ LinksStay /\ StaysUntilAsked
  BY <1>4, InsertLinks, IdleType, OneGoesOn DEF Insert, Finish, Idle
<1>5. ASSUME NEW r \in Requests, DeleteRow(r)
      PROVE  LinkInv' /\ LinksStay /\ StaysUntilAsked
  BY <1>5, DeleteRowLinks, IdleType, OneGoesOn DEF DeleteRow, Finish, Idle
<1>6. ASSUME NEW r \in Requests, Abort(r)
      PROVE  LinkInv' /\ LinksStay /\ StaysUntilAsked
  BY <1>6, TableAlone, IdleType, OneGoesOn DEF Abort, Finish, Idle
<1>7. ASSUME NEW r \in Requests, LookForStep(r)
      PROVE  LinkInv' /\ LinksStay /\ StaysUntilAsked
  <2> DEFINE s == req[r].step
             q == IF s \in Stored THEN [Idle EXCEPT !.pc = FirstOfDelete(s), !.step = s, !.key = steps[s].key]
                  ELSE Idle
  <2>1. Continue(r, q) /\ UNCHANGED steps
    BY <1>7 DEF LookForStep, Finish
  <2>2. q.step \in {NoStep, req[r].step}
    BY DEF Idle
  <2>3. q \in ARequest
    BY IdleType DEF TypeInv, ARequest, ARow, Stored, FirstOfDelete, StepIds
  <2> HIDE DEF q
  <2> QED
    BY <2>1, <2>2, <2>3, TableAlone, OneGoesOn
<1>8. ASSUME NEW r \in Requests, NEW s \in StepIds, BeginDelete(r, s)
      PROVE  LinkInv' /\ LinksStay /\ StaysUntilAsked
  <2> DEFINE q == [Idle EXCEPT !.pc = "look", !.step = s]
  <2>1. Continue(r, q) /\ UNCHANGED steps /\ TargetOf[s] # NoTarget
    BY <1>8 DEF BeginDelete
  <2>0. s \in 0 .. MaxSteps
    BY BoundsAssumption DEF StepIds
  <2>2. q \in ARequest /\ q.step = s
    BY <2>0, IdleType DEF ARequest
  <2> HIDE DEF q
  <2>3. req'[r] = q /\ \A x \in Requests \ {r} : req'[x] = req[x]
    BY <2>1, <2>2, GoesOn
  <2>4. LinkInv' /\ LinksStay /\ Stored' = Stored
    BY <2>1, TableAlone
  <2>5. StaysUntilAsked
    BY <2>1, <2>2, <2>3, <2>4 DEF StaysUntilAsked
  <2> QED
    BY <2>4, <2>5
<1>9. ASSUME NEW t \in Targets, AddDir(t) \/ DeleteTarget(t)
      PROVE  LinkInv' /\ LinksStay /\ StaysUntilAsked
  <2>1. LinkInv' /\ LinksStay /\ Stored \subseteq Stored' /\ UNCHANGED req
    BY <1>9, AddDirLinks, TargetGone DEF AddDir, DeleteTarget
  <2> QED
    BY <2>1 DEF StaysUntilAsked
<1>10. CASE Next
  BY <1>10, <1>2, <1>3, <1>4, <1>5, <1>6, <1>7, <1>8, <1>9 DEF Next
<1> QED
  BY <1>1, <1>10

\* Links get lost only, so a step without a target stays without one.
LEMMA LostStaysLost ==
    ASSUME TypeInv, LinkInv, TypeInv', LinkInv', LinksStay
    PROVE  \A s \in Stored : s \in Stored' /\ TargetOf[s] = NoTarget => TargetOf'[s] = NoTarget
<1> DEFINE T == {s \in Stored : s \in Stored' /\ TargetOf[s] = NoTarget /\ TargetOf'[s] # NoTarget}
<1>1. T \subseteq Nat
  BY DEF Stored, StepIds
<1> SUFFICES ASSUME T # {} PROVE FALSE
  OBVIOUS
<1>2. PICK s \in T : \A x \in T : s <= x
  <2> HIDE DEF T
  <2> QED
    BY <1>1, LeastNat
<1>3. TargetOf[s] = IF steps[s].target # NoTarget \/ steps[s].parent = NoStep
                    THEN steps[s].target ELSE TargetOf[steps[s].parent]
  BY TargetOfIs DEF TargetRule
<1>4. TargetOf'[s] = IF steps'[s].target # NoTarget \/ steps'[s].parent = NoStep
                     THEN steps'[s].target ELSE TargetOf'[steps'[s].parent]
  <2>1. TargetRule'
    BY TargetOfIs, PTL
  <2> QED
    BY <2>1 DEF TargetRule
<1>5. /\ s \in Stored /\ s \in Stored' /\ TargetOf[s] = NoTarget /\ TargetOf'[s] # NoTarget
      /\ steps'[s].target \in {steps[s].target, NoTarget}
      /\ steps'[s].parent \in {steps[s].parent, NoStep}
  BY DEF LinksStay
<1>6. steps[s].target = NoTarget
  BY <1>3, <1>5
<1>7. /\ steps'[s].parent # NoStep /\ steps'[s].parent = steps[s].parent
      /\ TargetOf[steps[s].parent] = NoTarget /\ TargetOf'[steps[s].parent] # NoTarget
  BY <1>3, <1>4, <1>5, <1>6
<1>8. steps[s].parent \in T /\ steps[s].parent < s
  BY <1>5, <1>7 DEF LinkInv
<1>9. steps[s].parent \in Nat /\ s \in Nat
  BY <1>1, <1>8
<1> QED
  BY <1>2, <1>8, <1>9

(***************************************************************************)
(* A step that has lost its target is out of reach for good: no request of *)
(* DeleteTargetStep begins on it, and it has no target again.              *)
(***************************************************************************)
THEOREM LostStepsStayAlways == Spec => LostStepsStay
<1>1. Init => SafeInv /\ LinkInv
  BY SafeInit, LinkInit
<1>2. SafeInv /\ LinkInv /\ [Next]_vars => (SafeInv /\ LinkInv)'
  BY SafeNext, LinkStep
<1> DEFINE Stay == \A s \in Stored :
                       TargetOf[s] = NoTarget /\ (\A r \in Requests : req[r].step # s) =>
                          /\ steps'[s].exists
                          /\ TargetOf'[s] = NoTarget
                          /\ \A r \in Requests : req'[r].step # s
<1>3. SafeInv /\ LinkInv /\ [Next]_vars => Stay
  <2> SUFFICES ASSUME SafeInv, LinkInv, [Next]_vars PROVE Stay
    OBVIOUS
  <2>1. SafeInv' /\ LinkInv' /\ LinksStay /\ StaysUntilAsked
    BY SafeNext, LinkStep
  <2>2. TypeInv /\ TypeInv'
    BY <2>1 DEF SafeInv
  <2>3. \A s \in Stored : s \in Stored' /\ TargetOf[s] = NoTarget => TargetOf'[s] = NoTarget
    BY <2>1, <2>2, LostStaysLost
  <2>4. \A s \in Stored' : steps'[s].exists
    BY DEF Stored
  <2> QED
    BY <2>1, <2>3, <2>4 DEF StaysUntilAsked
<1> QED
  BY <1>1, <1>2, <1>3, PTL DEF Spec, LostStepsStay

-----------------------------------------------------------------------------
(***************************************************************************)
(* The place of a step in a listing.                                       *)
(***************************************************************************)
From(l, s) == {x \in l : x >= s}

LEMMA RankIs ==
    ASSUME NEW l \in SUBSET StepIds, NEW s \in l
    PROVE  /\ IsFiniteSet(l) /\ IsFiniteSet(From(l, s))
           /\ Rank(l, s) = Cardinality(From(l, s))
           /\ Rank(l, s) \in Nat /\ Rank(l, s) >= 1
<1>1. IsFiniteSet(StepIds)
  BY FS_Interval, BoundsAssumption DEF StepIds
<1>2. IsFiniteSet(l) /\ From(l, s) \in SUBSET l /\ l \in SUBSET StepIds
  BY <1>1, FS_Subset DEF From
<1>3. IsFiniteSet(From(l, s)) /\ s \in From(l, s)
  BY <1>2, FS_Subset DEF From, StepIds
<1>4. Cardinality(From(l, s)) \in Nat /\ Cardinality(From(l, s)) # 0
  BY <1>3, FS_CardinalityType, FS_EmptySet
<1>5. Rank(l, s) = Cardinality(From(l, s))
  BY DEF Rank, From
<1> QED
  BY <1>2, <1>3, <1>4, <1>5

LEMMA DivIs ==
    ASSUME NEW a \in Nat, NEW z \in Nat, z > 0
    PROVE  /\ a \div z \in Nat
           /\ (a \div z) * z <= a
           /\ a < (a \div z) * z + z
OBVIOUS

LEMMA NextMultiple ==
    ASSUME NEW p \in Nat, NEW q \in Nat, NEW z \in Nat, p < q
    PROVE  p * z + z <= q * z
<1>1. PICK d \in Nat : q = p + 1 + d
  <2>1. q - p - 1 \in Nat
    OBVIOUS
  <2> QED
    BY <2>1
<1>2. q * z = p * z + z + d * z
  BY <1>1
<1>3. d * z \in Nat /\ p * z \in Nat
  OBVIOUS
<1> QED
  BY <1>2, <1>3

\* Of the intervals that begin with the multiples of z, one holds a.
LEMMA OneInterval ==
    ASSUME NEW a \in Nat, NEW z \in Nat, z > 0, NEW p \in Nat
    PROVE  p * z <= a /\ a < p * z + z <=> p = a \div z
<1> DEFINE q == a \div z
<1>1. q \in Nat /\ q * z <= a /\ a < q * z + z
  BY DivIs
<1> HIDE DEF q
<1>2. p < q => p * z + z <= q * z
  BY <1>1, NextMultiple
<1>3. q < p => q * z + z <= p * z
  BY <1>1, NextMultiple
<1>4. p * z \in Nat /\ q * z \in Nat
  BY <1>1
<1>5. p * z <= a /\ a < p * z + z => p = q
  BY <1>1, <1>2, <1>3, <1>4
<1>6. p = q => p * z <= a /\ a < p * z + z
  BY <1>1
<1> QED
  BY <1>5, <1>6 DEF q

LEMMA PageShows ==
    ASSUME NEW page \in Numbers, NEW size \in Numbers, ~Wraps(page, size),
           NEW place \in Nat, place >= 1
    PROVE  Shows(page, size, place) <=> PageNumber(page) = (place - 1) \div PageSize(size) + 1
<1> DEFINE z == PageSize(size)
           p == PageNumber(page) - 1
           a == place - 1
<1>1. z \in Nat /\ z > 0 /\ p \in Nat /\ a \in Nat /\ PageNumber(page) = p + 1 /\ Word \in Nat
  BY WordAssumption DEF PageSize, PageNumber, Numbers
<1>2. p * z \in Nat /\ p * z < Word
  BY <1>1 DEF Wraps
<1>3. Offset(page, size) = p * z
  <2>1. Offset(page, size) = (p * z) % Word
    BY DEF Offset
  <2> DEFINE w == p * z
  <2> HIDE DEF w, p, z
  <2>2. w % Word = w
    BY <1>1, <1>2 DEF w
  <2> QED
    BY <2>1, <2>2 DEF w
<1>4. Shows(page, size, place) <=> p * z <= a /\ a < p * z + z
  <2>1. Shows(page, size, place) <=> place > p * z /\ place <= p * z + z
    BY <1>3 DEF Shows
  <2> QED
    BY <1>1, <1>2, <2>1
<1>5. p * z <= a /\ a < p * z + z <=> p = a \div z
  <2> HIDE DEF p, z, a
  <2> QED
    BY <1>1, OneInterval
<1>6. a \div z \in Nat
  <2> HIDE DEF p, z, a
  <2> QED
    BY <1>1, DivIs
<1>7. p = a \div z <=> PageNumber(page) = a \div z + 1
  BY <1>1, <1>6
<1> QED
  BY <1>4, <1>5, <1>7

(***************************************************************************)
(* Each step of a listing is on the one page that holds its place: Offset  *)
(* and Limit of step.go, but for offsets that leave 32 bits.               *)
(***************************************************************************)
THEOREM PagesPartitionAlways == Spec => []PagesPartition
<1>1. TypeInv => PagesPartition
  <2> SUFFICES ASSUME NEW l \in Listings, NEW s \in l,
                      NEW size \in Numbers, NEW page \in Numbers, ~Wraps(page, size)
               PROVE  Shows(page, size, Rank(l, s))
                         <=> PageNumber(page) = (Rank(l, s) - 1) \div PageSize(size) + 1
    BY DEF PagesPartition
  <2>1. l \in SUBSET StepIds
    BY DEF Listings, TargetSteps, DirSteps, Stored
  <2>2. Rank(l, s) \in Nat /\ Rank(l, s) >= 1
    BY <2>1, RankIs
  <2> QED
    BY <2>2, PageShows
<1> QED
  BY <1>1, TypeAlways, PTL

-----------------------------------------------------------------------------
(***************************************************************************)
(* Two listings of which one became the other.                             *)
(***************************************************************************)
\* A step moves forward by n places only if some before it left.
LEMMA MovesForward ==
    ASSUME NEW l \in SUBSET StepIds, NEW new \in SUBSET StepIds, NEW s \in l \intersect new,
           NEW n \in Nat, Rank(l, s) > n, Rank(new, s) <= n
    PROVE  \E x \in l \ new : Rank(l, x) <= n
<1> DEFINE Left == From(l, s) \ From(new, s)
<1>1. /\ IsFiniteSet(From(l, s)) /\ Rank(l, s) = Cardinality(From(l, s)) /\ Rank(l, s) \in Nat
      /\ IsFiniteSet(From(new, s)) /\ Rank(new, s) = Cardinality(From(new, s)) /\ Rank(new, s) \in Nat
  BY RankIs
<1>2. Left # {}
  <2> SUFFICES ASSUME From(l, s) \in SUBSET From(new, s) PROVE FALSE
    OBVIOUS
  <2>1. Cardinality(From(l, s)) <= Cardinality(From(new, s))
    BY <1>1, FS_Subset
  <2> QED
    BY <1>1, <2>1
<1>3. Left \subseteq 0 .. MaxSteps /\ MaxSteps \in Nat
  <2>1. MaxSteps \in Nat /\ \A x \in StepIds : x \in 0 .. MaxSteps
    BY BoundsAssumption DEF StepIds
  <2> QED
    BY <2>1 DEF From
<1>4. PICK y \in Left : \A x \in Left : x <= y
  <2> HIDE DEF Left
  <2> QED
    BY <1>2, <1>3, GreatestNat
<1>5. y \in l /\ y \notin new /\ y >= s /\ y # s
  BY DEF From
<1> DEFINE Before == From(l, y) \ {y}
<1>6. Before \subseteq From(new, s) \ {s}
  <2> SUFFICES ASSUME NEW x \in Before PROVE x \in From(new, s) \ {s}
    OBVIOUS
  <2>1. x \in l /\ x >= y /\ x # y /\ x \in Nat /\ y \in Nat /\ s \in Nat
    BY <1>5 DEF From, StepIds
  <2>2. x > s /\ ~(x <= y)
    BY <1>5, <2>1
  <2>4. s \in Nat /\ x # s
    BY <2>1, <2>2
  <2>3. x \in From(new, s)
    BY <1>4, <2>1, <2>2 DEF From
  <2> QED
    BY <2>3, <2>4
<1>7. /\ IsFiniteSet(From(l, y)) /\ Rank(l, y) = Cardinality(From(l, y)) /\ Rank(l, y) \in Nat
      /\ y \in From(l, y) /\ s \in From(new, s)
  <2>1. y >= y /\ s >= s
    BY <1>5 DEF StepIds
  <2>2. y \in From(l, y) /\ s \in From(new, s)
    BY <1>5, <2>1 DEF From
  <2> QED
    BY <1>5, <2>2, RankIs
<1>8. Cardinality(Before) = Cardinality(From(l, y)) - 1
  BY <1>7, FS_RemoveElement
<1>9. /\ IsFiniteSet(From(new, s) \ {s})
      /\ Cardinality(From(new, s) \ {s}) = Cardinality(From(new, s)) - 1
  BY <1>1, <1>7, FS_RemoveElement
<1>10. Cardinality(Before) <= Cardinality(From(new, s) \ {s})
  <2> HIDE DEF Before
  <2> QED
    BY <1>6, <1>9, FS_Subset
<1>11. Rank(l, y) <= n
  BY <1>1, <1>7, <1>8, <1>9, <1>10
<1> QED
  BY <1>5, <1>11

\* A step moves back only if one was added.
LEMMA MovesBack ==
    ASSUME NEW l \in SUBSET StepIds, NEW new \in SUBSET StepIds, NEW s \in l \intersect new,
           NEW n \in Nat, Rank(l, s) <= n, Rank(new, s) > n
    PROVE  new \ l # {}
<1> SUFFICES ASSUME new \subseteq l PROVE FALSE
  OBVIOUS
<1>1. /\ IsFiniteSet(From(l, s)) /\ Rank(l, s) = Cardinality(From(l, s)) /\ Rank(l, s) \in Nat
      /\ Rank(new, s) = Cardinality(From(new, s)) /\ Rank(new, s) \in Nat
  BY RankIs
<1>2. From(new, s) \in SUBSET From(l, s)
  BY DEF From
<1>3. Cardinality(From(new, s)) <= Cardinality(From(l, s))
  BY <1>1, <1>2, FS_Subset
<1> QED
  BY <1>1, <1>3

\* The newest is the first.
LEMMA NewestFirst ==
    ASSUME NEW new \in SUBSET StepIds, NEW s \in new, \A x \in new : x <= s
    PROVE  Rank(new, s) = 1
<1>1. s \in Nat /\ \A x \in new : x \in Nat
  BY DEF StepIds
<1>2. \A x \in new : x >= s <=> x = s
  BY <1>1
<1>3. From(new, s) = {s}
  BY <1>2 DEF From
<1> QED
  BY <1>3, RankIs, FS_Singleton

LEMMA WalkIs ==
    ASSUME NEW l \in SUBSET StepIds, NEW new \in SUBSET StepIds,
           \A s \in new \ l : \A x \in new : x <= s,
           NEW n \in 1 .. MaxSteps
    PROVE  WalkMeets(l, new, n)
<1>1. n \in Nat /\ n >= 1
  OBVIOUS
<1>2. ASSUME NEW s \in l \intersect new
      PROVE  /\ Rank(l, s) > n /\ Rank(new, s) <= n => \E x \in l \ new : Rank(l, x) <= n
             /\ Rank(l, s) <= n /\ Rank(new, s) > n => new \ l # {}
  BY <1>1, MovesForward, MovesBack
<1>3. \A s \in new \ l : Rank(new, s) <= n
  BY <1>1, NewestFirst
<1> QED
  BY <1>2, <1>3 DEF WalkMeets

(***************************************************************************)
(* A row that is added is newer than every other row.                      *)
(***************************************************************************)
NewIsNewest == \A s \in Stored' : s \notin Stored => \A x \in Stored' : x <= s

LEMMA AddedIsNewest ==
    ASSUME SafeInv, NEW row, nextId <= MaxSteps, steps' = [steps EXCEPT ![nextId] = row]
    PROVE  NewIsNewest
<1>1. nextId \in StepIds /\ \A s \in Stored : s < nextId
  BY DEF SafeInv, TypeInv, FreshInv, Stored, StepIds
<1>2. \A s \in StepIds \ {nextId} : steps'[s] = steps[s]
  BY DEF SafeInv, TypeInv
<1>3. Stored' \subseteq Stored \union {nextId}
  BY <1>2 DEF Stored
<1>4. \A x \in Stored' : x <= nextId
  <2> TAKE x \in Stored'
  <2>1. x \in Nat /\ nextId \in Nat
    BY <1>1 DEF Stored, StepIds
  <2>2. x = nextId \/ x < nextId
    BY <1>1, <1>3
  <2> QED
    BY <2>1, <2>2
<1> QED
  BY <1>3, <1>4 DEF NewIsNewest

LEMMA NewestStep ==
    ASSUME SafeInv, [Next]_vars
    PROVE  NewIsNewest
<1>1. CASE Stored' \subseteq Stored
  BY <1>1 DEF NewIsNewest
<1>2. CASE \E row : nextId <= MaxSteps /\ steps' = [steps EXCEPT ![nextId] = row]
  BY <1>2, AddedIsNewest
<1>3. ASSUME NEW r \in Requests, Insert(r)
      PROVE  \/ UNCHANGED steps
             \/ \E row : nextId <= MaxSteps /\ steps' = [steps EXCEPT ![nextId] = row]
  BY <1>3 DEF Insert, Accepts
<1>4. ASSUME NEW t \in Targets, AddDir(t)
      PROVE  \E row : nextId <= MaxSteps /\ steps' = [steps EXCEPT ![nextId] = row]
  BY <1>4 DEF AddDir
<1>5. ASSUME NEW r \in Requests, DeleteRow(r)
      PROVE  UNCHANGED steps \/ Stored' \subseteq Stored
  BY <1>5, WithoutStepIs DEF DeleteRow, SafeInv, Stored
<1>6. ASSUME NEW t \in Targets, DeleteTarget(t)
      PROVE  Stored' \subseteq Stored
  BY <1>6, DeleteTargetType DEF SafeInv, Stored
<1>7. UNCHANGED steps => Stored' \subseteq Stored
  BY DEF Stored
<1>8. CASE UNCHANGED vars
  BY <1>1, <1>7, <1>8 DEF vars
<1>9. CASE Next
  BY <1>9, <1>1, <1>2, <1>3, <1>4, <1>5, <1>6, <1>7
     DEF Next, BeginUpload, Put, BeginDelete, LookForStep, RemoveFile, Abort
<1> QED
  BY <1>8, <1>9

(***************************************************************************)
(* A walk through the pages skips a step only if one already shown was     *)
(* deleted, and shows one twice only if one was added: the pages of        *)
(* GetTarget and GetTargetDirStepChildren, newest first.                   *)
(***************************************************************************)
THEOREM WalkSkipsOnlyDeletedAlways == Spec => WalkSkipsOnlyDeleted
<1>1. Init => SafeInv /\ LinkInv
  BY SafeInit, LinkInit
<1>2. SafeInv /\ LinkInv /\ [Next]_vars => (SafeInv /\ LinkInv)'
  BY SafeNext, LinkStep
<1> DEFINE Walk == \A n \in 1 .. MaxSteps :
                      /\ \A t \in live \cap live' : WalkMeets(TargetSteps(t), TargetSteps(t)', n)
                      /\ \A d \in StepIds : WalkMeets(DirSteps(d), DirSteps(d)', n)
<1>3. SafeInv /\ LinkInv /\ [Next]_vars => Walk
  <2> SUFFICES ASSUME SafeInv, LinkInv, [Next]_vars, NEW n \in 1 .. MaxSteps
               PROVE  /\ \A t \in live \cap live' : WalkMeets(TargetSteps(t), TargetSteps(t)', n)
                      /\ \A d \in StepIds : WalkMeets(DirSteps(d), DirSteps(d)', n)
    OBVIOUS
  <2>1. LinksStay /\ NewIsNewest
    BY LinkStep, NewestStep
  <2>2. ASSUME NEW t \in live \cap live'
        PROVE  WalkMeets(TargetSteps(t), TargetSteps(t)', n)
    <3>1. t # NoTarget
      BY TargetAssumption DEF SafeInv, TypeInv
    <3>2. TargetSteps(t)' = {s \in Stored' : steps'[s].target = t}
      BY DEF TargetSteps
    <3>3. \A s \in TargetSteps(t)' : s \in Stored => s \in TargetSteps(t)
      BY <2>1, <3>1, <3>2 DEF LinksStay, TargetSteps
    <3>4. TargetSteps(t) \in SUBSET StepIds /\ TargetSteps(t)' \in SUBSET StepIds
      BY <3>2 DEF TargetSteps, Stored
    <3>5. \A s \in TargetSteps(t)' \ TargetSteps(t) : \A x \in TargetSteps(t)' : x <= s
      BY <2>1, <3>2, <3>3 DEF NewIsNewest
    <3> QED
      BY <3>4, <3>5, WalkIs
  <2>3. ASSUME NEW d \in StepIds
        PROVE  WalkMeets(DirSteps(d), DirSteps(d)', n)
    <3>1. d # NoStep
      BY DEF StepIds, NoStep
    <3>2. DirSteps(d)' = {s \in Stored' : steps'[s].parent = d}
      BY DEF DirSteps
    <3>3. \A s \in DirSteps(d)' : s \in Stored => s \in DirSteps(d)
      BY <2>1, <3>1, <3>2 DEF LinksStay, DirSteps
    <3>4. DirSteps(d) \in SUBSET StepIds /\ DirSteps(d)' \in SUBSET StepIds
      BY <3>2 DEF DirSteps, Stored
    <3>5. \A s \in DirSteps(d)' \ DirSteps(d) : \A x \in DirSteps(d)' : x <= s
      BY <2>1, <3>2, <3>3 DEF NewIsNewest
    <3> QED
      BY <3>4, <3>5, WalkIs
  <2> QED
    BY <2>2, <2>3
<1>4. SafeInv /\ LinkInv /\ [Next]_vars => (steps' # steps => Walk)
  BY <1>3
<1> HIDE DEF Walk
<1>5. Spec => [][steps' # steps => Walk]_vars
  BY <1>1, <1>2, <1>4, PTL DEF Spec
<1> QED
  BY <1>5 DEF WalkSkipsOnlyDeleted, Walk
=============================================================================
