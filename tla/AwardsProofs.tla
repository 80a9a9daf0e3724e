---------------------------- MODULE AwardsProofs ----------------------------
(***************************************************************************)
(* What Awards promises, for any number of files, handlers, workers,       *)
(* awards, scores and faults.  That a threshold which is met is noticed is *)
(* inductive as it stands, given the types.  For the files the invariant   *)
(* follows each award by itself: as long as no two requests met on it and  *)
(* none was cut short, at most one request is at work on it, and where     *)
(* that request is tells what row and bucket hold.                         *)
(***************************************************************************)
EXTENDS Awards, TLAPS

ARow == [status    : {"none", "setted", "achieved", "realized"},
         threshold : Score,
         setted    : SUBSET Files,
         realized  : SUBSET Files]

ARequest == {q \in [pc     : {"idle", "put", "save", "drop", "delete", "remove"},
                    folder : Folders,
                    award  : 0 .. MaxAwards,
                    files  : SUBSET Files,
                    todo   : SUBSET Files,
                    keys   : SUBSET Keys] :
                /\ q.todo \subseteq q.files
                /\ q.pc # "idle" => q.award \in AwardIds
                /\ \A k \in q.keys : k.award = q.award}

AWorker == [pc : {"idle", "read", "list", "achieve"}, score : Score, list : SUBSET AwardIds]

TypeInv == /\ awards \in [AwardIds -> ARow]
           /\ nextId \in 1 .. MaxAwards + 1
           /\ objects \subseteq Keys
           /\ targetType \in {"portrait", "target"}
           /\ score \in Score
           /\ changes \in 0 .. MaxChanges
           /\ owed \in Nat /\ owed <= changes
           /\ pending \in Nat /\ owed + pending <= changes + faults
           /\ req \in [Requests -> ARequest]
           /\ worker \in [Workers -> AWorker]
           /\ faults \in 0 .. MaxFaults
           /\ stray \subseteq Keys
           /\ contested \subseteq AwardIds
           /\ unchecked \subseteq AwardIds

LEMMA TypeImplies == TypeInv => TypeOK
<1> SUFFICES ASSUME TypeInv PROVE TypeOK
  OBVIOUS
<1>1. owed \in 0 .. MaxChanges /\ pending \in 0 .. MaxChanges + MaxFaults
  BY BoundsAssumption DEF TypeInv
<1>2. \A r \in Requests : /\ req[r].pc \in {"idle", "put", "save", "drop", "delete", "remove"}
                          /\ req[r].award \in 0 .. MaxAwards
                          /\ req[r].todo \subseteq req[r].files
                          /\ req[r].keys \subseteq Keys
  BY DEF TypeInv, ARequest
<1>3. \A w \in Workers : /\ worker[w].pc \in {"idle", "read", "list", "achieve"}
                         /\ worker[w].score \in Score
                         /\ worker[w].list \subseteq AwardIds
  BY DEF TypeInv, AWorker
<1> QED
  BY <1>1, <1>2, <1>3 DEF TypeInv, TypeOK, ARow

(***************************************************************************)
(* The records.                                                            *)
(***************************************************************************)
LEMMA NoRowType == NoRow \in ARow /\ NoRow.status = "none" /\ NoRow.setted = {} /\ NoRow.realized = {}
BY BoundsAssumption DEF NoRow, ARow, Score

LEMMA NewRowIs ==
    ASSUME NEW t \in Score
    PROVE  /\ [NoRow EXCEPT !.status = "setted", !.threshold = t] \in ARow
           /\ [NoRow EXCEPT !.status = "setted", !.threshold = t].status = "setted"
           /\ [NoRow EXCEPT !.status = "setted", !.threshold = t].threshold = t
           /\ [NoRow EXCEPT !.status = "setted", !.threshold = t].setted = {}
           /\ [NoRow EXCEPT !.status = "setted", !.threshold = t].realized = {}
BY DEF NoRow, ARow

LEMMA SavedIs ==
    ASSUME NEW row \in ARow, NEW folder \in Folders, NEW fs \in SUBSET Files
    PROVE  /\ Saved(row, folder, fs) \in ARow
           /\ Saved(row, folder, fs).threshold = row.threshold
           /\ folder = "setted" =>
                /\ Saved(row, folder, fs).status = row.status
                /\ Saved(row, folder, fs).setted = fs
                /\ Saved(row, folder, fs).realized = row.realized
           /\ folder # "setted" =>
                /\ Saved(row, folder, fs).status = "realized"
                /\ Saved(row, folder, fs).setted = row.setted
                /\ Saved(row, folder, fs).realized = fs
BY DEF Saved, ARow

LEMMA IdleType == Idle \in ARequest /\ Idle.pc = "idle"
BY BoundsAssumption DEF Idle, ARequest, Folders

LEMMA RestType == Rest \in AWorker /\ Rest.pc = "idle"
BY BoundsAssumption DEF Rest, AWorker, Score

LEMMA KeyIs ==
    ASSUME NEW a \in AwardIds, NEW folder \in Folders, NEW f \in Files
    PROVE  /\ Key(a, folder, f) \in Keys
           /\ Key(a, folder, f).award = a
           /\ Key(a, folder, f) \in KeysOf(a, folder, Files)
BY DEF Key, Keys, KeysOf

LEMMA ProceedIs ==
    ASSUME NEW q \in ARequest, q.award \in AwardIds
    PROVE  /\ Proceed(q) \in ARequest
           /\ Proceed(q).award = q.award /\ Proceed(q).folder = q.folder
           /\ Proceed(q).files = q.files /\ Proceed(q).keys = q.keys
           /\ \/ Proceed(q).pc = "put"
              \/ Proceed(q).pc = "save" /\ q.keys = KeysOf(q.award, q.folder, q.files)
              \/ Proceed(q).pc = "drop" /\ q.folder = "setted"
              \/ Proceed(q).pc = "remove" /\ q.folder # "setted"
              \/ Proceed(q).pc = "idle" /\ q.keys = {}
BY DEF Proceed, ARequest

LEMMA FilingIs ==
    ASSUME NEW a \in AwardIds, NEW folder \in Folders, NEW fs \in SUBSET Files
    PROVE  /\ Filing(a, folder, fs) \in ARequest
           /\ Filing(a, folder, fs).award = a /\ Filing(a, folder, fs).folder = folder
           /\ Filing(a, folder, fs).files = fs /\ Filing(a, folder, fs).keys = {}
           /\ Filing(a, folder, fs).pc \in {"put", "save"}
           /\ Filing(a, folder, fs).pc = "save" => KeysOf(a, folder, fs) = {}
<1> DEFINE q == [Idle EXCEPT !.award = a, !.folder = folder, !.files = fs, !.todo = fs]
<1>1. /\ q \in ARequest /\ q.award = a /\ q.folder = folder /\ q.files = fs
      /\ q.todo = fs /\ q.keys = {}
  <2>1. a \in 0 .. MaxAwards
    BY BoundsAssumption DEF AwardIds
  <2>2. /\ q.pc = "idle" /\ q.award = a /\ q.folder = folder /\ q.files = fs
        /\ q.todo = fs /\ q.keys = {}
    BY DEF Idle
  <2>3. q \in [pc     : {"idle", "put", "save", "drop", "delete", "remove"},
              folder : Folders, award : 0 .. MaxAwards, files : SUBSET Files,
              todo   : SUBSET Files, keys : SUBSET Keys]
    BY <2>1 DEF Idle
  <2> HIDE DEF q
  <2> QED
    BY <2>2, <2>3 DEF ARequest
<1>2. Filing(a, folder, fs) = Proceed(q)
  BY DEF Filing
<1> HIDE DEF q
<1>3. CASE fs = {}
  <2>1. KeysOf(a, folder, fs) = {}
    BY <1>3 DEF KeysOf
  <2>2. Proceed(q).pc = "save"
    BY <1>1, <1>3, <2>1 DEF Proceed, ARequest
  <2> QED
    BY <1>1, <1>2, <2>1, <2>2, ProceedIs
<1>4. CASE fs # {}
  <2>1. Proceed(q).pc = "put"
    BY <1>1, <1>4 DEF Proceed, ARequest
  <2> QED
    BY <1>1, <1>2, <2>1, ProceedIs
<1> QED
  BY <1>3, <1>4

LEMMA RemovingIs ==
    ASSUME NEW q \in ARequest, q.award \in AwardIds
    PROVE  /\ Removing(q) \in ARequest
           /\ q.keys = {} => Removing(q).pc = "idle"
           /\ q.keys # {} => /\ Removing(q).pc = "remove"
                             /\ Removing(q).award = q.award
                             /\ Removing(q).keys = q.keys
<1>1. CASE q.keys = {}
  BY <1>1, IdleType DEF Removing
<1>2. CASE q.keys # {}
  <2>1. Removing(q) = [q EXCEPT !.pc = "remove"]
    BY <1>2 DEF Removing
  <2> QED
    BY <1>2, <2>1 DEF ARequest
<1> QED
  BY <1>1, <1>2

LEMMA AchievingIs ==
    ASSUME NEW q \in AWorker
    PROVE  /\ Achieving(q) \in AWorker
           /\ q.list # {} => Achieving(q).pc = "achieve" /\ Achieving(q).list = q.list
<1>1. CASE q.list = {}
  BY <1>1, RestType DEF Achieving
<1>2. CASE q.list # {}
  <2>1. Achieving(q) = [q EXCEPT !.pc = "achieve"]
    BY <1>2 DEF Achieving
  <2> QED
    BY <1>2, <2>1 DEF AWorker
<1> QED
  BY <1>1, <1>2

(***************************************************************************)
(* One request, or one worker, moves at a time.                            *)
(***************************************************************************)
LEMMA GoesOn ==
    ASSUME TypeInv, NEW r \in Requests, NEW q \in ARequest, Continue(r, q)
    PROVE  /\ req' \in [Requests -> ARequest]
           /\ req'[r] = q
           /\ \A x \in Requests \ {r} : req'[x] = req[x]
BY DEF Continue, TypeInv

LEMMA Turns ==
    ASSUME TypeInv, NEW w \in Workers, NEW q \in AWorker, Turn(w, q)
    PROVE  /\ worker' \in [Workers -> AWorker]
           /\ worker'[w] = q
           /\ \A x \in Workers \ {w} : worker'[x] = worker[x]
BY DEF Turn, TypeInv

-----------------------------------------------------------------------------
(***************************************************************************)
(* Type correctness, one lemma for each action, with what the later proofs *)
(* need to know of the request or the worker that moved.                   *)
(***************************************************************************)
LEMMA TypeInit == Init => TypeInv
BY BoundsAssumption, IdleType, RestType, NoRowType DEF Init, TypeInv, Score

LEMMA BeginCreateType ==
    ASSUME TypeInv, NEW r \in Requests, NEW t \in Score, NEW fs \in SUBSET Files,
           BeginCreate(r, t, fs)
    PROVE  /\ TypeInv' /\ nextId \in AwardIds
           /\ req'[r] = Filing(nextId, "setted", fs)
           /\ \A x \in Requests \ {r} : req'[x] = req[x]
           /\ awards'[nextId].status = "setted" /\ awards'[nextId].threshold = t
           /\ awards'[nextId].setted = {} /\ awards'[nextId].realized = {}
           /\ \A a \in AwardIds \ {nextId} : awards'[a] = awards[a]
<1> DEFINE row == [NoRow EXCEPT !.status = "setted", !.threshold = t]
<1>1. nextId \in AwardIds /\ nextId' \in 1 .. MaxAwards + 1
  BY BoundsAssumption DEF BeginCreate, TypeInv, AwardIds
<1>2. Filing(nextId, "setted", fs) \in ARequest
  BY <1>1, FilingIs DEF Folders
<1>3. /\ req' \in [Requests -> ARequest] /\ req'[r] = Filing(nextId, "setted", fs)
      /\ \A x \in Requests \ {r} : req'[x] = req[x]
  BY <1>2, GoesOn DEF BeginCreate
<1>4. /\ row \in ARow /\ row.status = "setted" /\ row.threshold = t
      /\ row.setted = {} /\ row.realized = {}
  BY NewRowIs
<1>5. awards' = [awards EXCEPT ![nextId] = row]
  BY DEF BeginCreate
<1> HIDE DEF row
<1>6. /\ awards' \in [AwardIds -> ARow] /\ awards'[nextId] = row
      /\ \A a \in AwardIds \ {nextId} : awards'[a] = awards[a]
  BY <1>1, <1>4, <1>5 DEF TypeInv
<1>7. unchecked' \subseteq AwardIds
  BY <1>1 DEF BeginCreate, TypeInv
<1>8. TypeInv'
  BY <1>1, <1>3, <1>6, <1>7 DEF BeginCreate, TypeInv, bucket, feedback, scores
<1> QED
  BY <1>1, <1>3, <1>4, <1>6, <1>8

LEMMA BeginRealizeType ==
    ASSUME TypeInv, NEW r \in Requests, NEW a \in AwardIds, NEW fs \in SUBSET Files,
           BeginRealize(r, a, fs)
    PROVE  /\ TypeInv'
           /\ req'[r] = Filing(a, "realized", fs)
           /\ \A x \in Requests \ {r} : req'[x] = req[x]
<1>1. Filing(a, "realized", fs) \in ARequest
  BY FilingIs DEF Folders
<1>2. /\ req' \in [Requests -> ARequest] /\ req'[r] = Filing(a, "realized", fs)
      /\ \A x \in Requests \ {r} : req'[x] = req[x]
  BY <1>1, GoesOn DEF BeginRealize
<1> QED
  BY <1>2 DEF BeginRealize, TypeInv, table, bucket, feedback, scores

LEMMA PutFileType ==
    ASSUME TypeInv, NEW r \in Requests, NEW f \in Files, PutFile(r, f),
           NEW k, k = Key(req[r].award, req[r].folder, f)
    PROVE  /\ TypeInv'
           /\ req[r] \in ARequest /\ req[r].award \in AwardIds
           /\ k \in Keys /\ k.award = req[r].award /\ k \in KeysOf(req[r].award, req[r].folder, Files)
           /\ \E q \in ARequest :
                 /\ q.award = req[r].award /\ q.folder = req[r].folder /\ q.files = req[r].files
                 /\ q.keys = req[r].keys \union {k}
                 /\ req'[r] = Proceed(q)
           /\ \A x \in Requests \ {r} : req'[x] = req[x]
<1> DEFINE q == [req[r] EXCEPT !.todo = @ \ {f}, !.keys = @ \union {k}]
<1>1. req[r] \in ARequest /\ req[r].award \in AwardIds
  BY DEF TypeInv, ARequest, PutFile
<1>2. k \in Keys /\ k.award = req[r].award /\ k \in KeysOf(req[r].award, req[r].folder, Files)
  BY <1>1, KeyIs DEF ARequest
<1>3. /\ q \in ARequest /\ q.award = req[r].award /\ q.folder = req[r].folder
      /\ q.files = req[r].files /\ q.keys = req[r].keys \union {k}
  BY <1>1, <1>2 DEF ARequest
<1>4. Continue(r, Proceed(q)) /\ objects' = objects \union {k}
  BY DEF PutFile
<1> HIDE DEF q
<1>5. Proceed(q) \in ARequest
  BY <1>1, <1>3, ProceedIs
<1>6. /\ req' \in [Requests -> ARequest] /\ req'[r] = Proceed(q)
      /\ \A x \in Requests \ {r} : req'[x] = req[x]
  BY <1>4, <1>5, GoesOn
<1>7. TypeInv'
  BY <1>2, <1>4, <1>6 DEF PutFile, TypeInv, table, feedback, scores
<1> QED
  BY <1>1, <1>2, <1>3, <1>6, <1>7

LEMMA PutFailsType ==
    ASSUME TypeInv, NEW r \in Requests, NEW f \in Files, PutFails(r, f)
    PROVE  /\ TypeInv'
           /\ req[r] \in ARequest /\ req[r].award \in AwardIds
           /\ \E q \in ARequest :
                 /\ q.award = req[r].award /\ q.folder = req[r].folder /\ q.files = req[r].files
                 /\ q.keys = req[r].keys
                 /\ req'[r] = Proceed(q)
           /\ \A x \in Requests \ {r} : req'[x] = req[x]
<1> DEFINE q == [req[r] EXCEPT !.todo = @ \ {f}]
<1>1. req[r] \in ARequest /\ req[r].award \in AwardIds
  BY DEF TypeInv, ARequest, PutFails
<1>2. /\ q \in ARequest /\ q.award = req[r].award /\ q.folder = req[r].folder
      /\ q.files = req[r].files /\ q.keys = req[r].keys
  BY <1>1 DEF ARequest
<1>3. Continue(r, Proceed(q))
  BY DEF PutFails
<1> HIDE DEF q
<1>4. Proceed(q) \in ARequest
  BY <1>1, <1>2, ProceedIs
<1>5. /\ req' \in [Requests -> ARequest] /\ req'[r] = Proceed(q)
      /\ \A x \in Requests \ {r} : req'[x] = req[x]
  BY <1>3, <1>4, GoesOn
<1>k. Key(req[r].award, req[r].folder, f) \in Keys
  BY <1>1, KeyIs DEF ARequest
<1>b. objects' \subseteq Keys /\ stray' \subseteq Keys
  BY <1>k DEF PutFails, TypeInv, bucket
<1>6. TypeInv'
  BY <1>5, <1>b, BoundsAssumption DEF PutFails, TypeInv, table, feedback, scores
<1> QED
  BY <1>1, <1>2, <1>5, <1>6

LEMMA SaveType ==
    ASSUME TypeInv, NEW r \in Requests, Save(r)
    PROVE  /\ TypeInv' /\ req[r] \in ARequest /\ req[r].award \in AwardIds
           /\ req'[r].pc = "idle"
           /\ \A x \in Requests \ {r} : req'[x] = req[x]
           /\ \A a \in AwardIds \ {req[r].award} : awards'[a] = awards[a]
           /\ req[r].award \in Stored =>
                 awards'[req[r].award] = Saved(awards[req[r].award], req[r].folder, req[r].files)
           /\ req[r].award \notin Stored => awards' = awards
<1> DEFINE row == Saved(awards[req[r].award], req[r].folder, req[r].files)
<1>1. req[r] \in ARequest /\ req[r].award \in AwardIds
  BY DEF TypeInv, ARequest, Save
<1>2. awards[req[r].award] \in ARow
  BY <1>1 DEF TypeInv
<1>3. row \in ARow
  BY <1>1, <1>2, SavedIs DEF ARequest
<1>4. awards' = IF req[r].award \in Stored THEN [awards EXCEPT ![req[r].award] = row] ELSE awards
  BY DEF Save
<1> HIDE DEF row
<1>5. /\ req' \in [Requests -> ARequest] /\ req'[r].pc = "idle"
      /\ \A x \in Requests \ {r} : req'[x] = req[x]
  BY IdleType, GoesOn DEF Save, Finish
<1>6. /\ awards' \in [AwardIds -> ARow]
      /\ \A a \in AwardIds \ {req[r].award} : awards'[a] = awards[a]
      /\ req[r].award \in Stored => awards'[req[r].award] = row
      /\ req[r].award \notin Stored => awards' = awards
  BY <1>1, <1>3, <1>4 DEF TypeInv
<1>7. TypeInv'
  BY <1>5, <1>6 DEF Save, TypeInv, bucket, feedback, scores
<1> QED
  BY <1>1, <1>5, <1>6, <1>7 DEF row

\* Drop and Delete: the row goes.
LEMMA RowGoes ==
    ASSUME TypeInv, NEW a \in AwardIds, awards' = [awards EXCEPT ![a] = NoRow]
    PROVE  /\ awards' \in [AwardIds -> ARow]
           /\ awards'[a] = NoRow
           /\ \A b \in AwardIds \ {a} : awards'[b] = awards[b]
BY NoRowType DEF TypeInv

LEMMA DropType ==
    ASSUME TypeInv, NEW r \in Requests, Drop(r) \/ DropFails(r)
    PROVE  /\ TypeInv' /\ req[r] \in ARequest /\ req[r].award \in AwardIds
           /\ req'[r] = Removing(req[r])
           /\ \A x \in Requests \ {r} : req'[x] = req[x]
           /\ \A a \in AwardIds \ {req[r].award} : awards'[a] = awards[a]
           /\ awards'[req[r].award] \in {NoRow, awards[req[r].award]}
<1>1. req[r] \in ARequest /\ req[r].award \in AwardIds
  BY DEF TypeInv, ARequest, Drop, DropFails
<1>2. Removing(req[r]) \in ARequest
  BY <1>1, RemovingIs
<1>3. /\ req' \in [Requests -> ARequest] /\ req'[r] = Removing(req[r])
      /\ \A x \in Requests \ {r} : req'[x] = req[x]
  BY <1>2, GoesOn DEF Drop, DropFails
<1>4. /\ awards' \in [AwardIds -> ARow]
      /\ \A a \in AwardIds \ {req[r].award} : awards'[a] = awards[a]
      /\ awards'[req[r].award] \in {NoRow, awards[req[r].award]}
  <2>1. CASE Drop(r)
    BY <1>1, <2>1, RowGoes DEF Drop
  <2>2. CASE DropFails(r)
    BY <2>2 DEF DropFails, TypeInv, table
  <2> QED
    BY <2>1, <2>2
<1>5. TypeInv'
  BY <1>3, <1>4 DEF Drop, DropFails, TypeInv, table, bucket, feedback, scores
<1> QED
  BY <1>1, <1>3, <1>4, <1>5

LEMMA BeginDeleteType ==
    ASSUME TypeInv, NEW r \in Requests, NEW a \in AwardIds, BeginDelete(r, a)
    PROVE  /\ TypeInv'
           /\ req'[r].pc = "delete" /\ req'[r].award = a /\ req'[r].keys = Listed(a)
           /\ \A x \in Requests \ {r} : req'[x] = req[x]
<1> DEFINE q == [Idle EXCEPT !.pc = "delete", !.award = a, !.keys = Listed(a)]
<1>1. Listed(a) \subseteq Keys /\ \A k \in Listed(a) : k.award = a
  <2>1. awards[a].setted \in SUBSET Files /\ awards[a].realized \in SUBSET Files
    BY DEF TypeInv, ARow
  <2>2. \A folder \in Folders, fs \in SUBSET Files :
           KeysOf(a, folder, fs) \subseteq Keys /\ \A k \in KeysOf(a, folder, fs) : k.award = a
    BY KeyIs DEF KeysOf
  <2> QED
    BY <2>1, <2>2 DEF Listed, Folders
<1>2. q \in ARequest /\ q.pc = "delete" /\ q.award = a /\ q.keys = Listed(a)
  <2>1. a \in 0 .. MaxAwards
    BY BoundsAssumption DEF AwardIds
  <2>2. q.pc = "delete" /\ q.award = a /\ q.keys = Listed(a) /\ q.todo = {} /\ q.files = {}
    BY DEF Idle
  <2>3. q \in [pc     : {"idle", "put", "save", "drop", "delete", "remove"},
              folder : Folders, award : 0 .. MaxAwards, files : SUBSET Files,
              todo   : SUBSET Files, keys : SUBSET Keys]
    BY <1>1, <2>1 DEF Folders, Idle
  <2> HIDE DEF q
  <2> QED
    BY <1>1, <2>2, <2>3 DEF ARequest
<1>3. Continue(r, q)
  BY DEF BeginDelete, KeysToDelete
<1> HIDE DEF q
<1>4. /\ req' \in [Requests -> ARequest] /\ req'[r] = q
      /\ \A x \in Requests \ {r} : req'[x] = req[x]
  BY <1>2, <1>3, GoesOn
<1>5. TypeInv'
  BY <1>4 DEF BeginDelete, TypeInv, table, bucket, feedback, scores
<1> QED
  BY <1>2, <1>4, <1>5

LEMMA DeleteType ==
    ASSUME TypeInv, NEW r \in Requests, Delete(r)
    PROVE  /\ TypeInv' /\ req[r] \in ARequest /\ req[r].award \in AwardIds
           /\ req'[r] \in {Idle, Removing(req[r])}
           /\ \A x \in Requests \ {r} : req'[x] = req[x]
           /\ \A a \in AwardIds \ {req[r].award} : awards'[a] = awards[a]
           /\ req[r].award \in Stored => /\ awards'[req[r].award] = NoRow
                                         /\ req'[r] = Removing(req[r])
           /\ req[r].award \notin Stored => awards' = awards
<1>1. req[r] \in ARequest /\ req[r].award \in AwardIds
  BY DEF TypeInv, ARequest, Delete
<1>2. Removing(req[r]) \in ARequest /\ Idle \in ARequest
  BY <1>1, RemovingIs, IdleType
<1>3. CASE req[r].award \in Stored
  <2>1. /\ awards' \in [AwardIds -> ARow] /\ awards'[req[r].award] = NoRow
        /\ \A a \in AwardIds \ {req[r].award} : awards'[a] = awards[a]
    BY <1>1, <1>3, RowGoes DEF Delete
  <2>2. /\ req' \in [Requests -> ARequest] /\ req'[r] = Removing(req[r])
        /\ \A x \in Requests \ {r} : req'[x] = req[x]
    BY <1>2, <1>3, GoesOn DEF Delete
  <2>3. TypeInv'
    BY <2>1, <2>2 DEF Delete, TypeInv, bucket, feedback, scores
  <2> QED
    BY <1>1, <1>3, <2>1, <2>2, <2>3
<1>4. CASE req[r].award \notin Stored
  <2>1. /\ req' \in [Requests -> ARequest] /\ req'[r] = Idle
        /\ \A x \in Requests \ {r} : req'[x] = req[x]
    BY <1>2, <1>4, GoesOn DEF Delete, Finish
  <2>2. awards' = awards
    BY <1>4 DEF Delete
  <2>3. TypeInv'
    BY <2>1, <2>2 DEF Delete, TypeInv, bucket, feedback, scores
  <2> QED
    BY <1>1, <1>4, <2>1, <2>2, <2>3
<1> QED
  BY <1>3, <1>4

LEMMA RemoveFileType ==
    ASSUME TypeInv, NEW r \in Requests, NEW k \in Keys, RemoveFile(r, k) \/ RemoveFails(r, k)
    PROVE  /\ TypeInv' /\ req[r] \in ARequest /\ req[r].award \in AwardIds /\ k.award = req[r].award
           /\ \/ req'[r].pc = "idle" /\ req[r].keys = {k}
              \/ /\ req'[r].pc = "remove" /\ req'[r].award = req[r].award
                 /\ req'[r].keys = req[r].keys \ {k}
           /\ \A x \in Requests \ {r} : req'[x] = req[x]
<1> DEFINE q == [req[r] EXCEPT !.keys = @ \ {k}]
<1>1. /\ req[r] \in ARequest /\ req[r].award \in AwardIds /\ k \in req[r].keys
      /\ k.award = req[r].award
  BY DEF TypeInv, ARequest, RemoveFile, RemoveFails
<1>2. q \in ARequest /\ q.award = req[r].award /\ q.keys = req[r].keys \ {k}
  BY <1>1 DEF ARequest
<1>3. Continue(r, Removing(q))
  BY DEF RemoveFile, RemoveFails
<1> HIDE DEF q
<1>4. /\ Removing(q) \in ARequest
      /\ q.keys = {} => Removing(q).pc = "idle"
      /\ q.keys # {} => /\ Removing(q).pc = "remove" /\ Removing(q).award = req[r].award
                        /\ Removing(q).keys = q.keys
  BY <1>1, <1>2, RemovingIs
<1>5. /\ req' \in [Requests -> ARequest] /\ req'[r] = Removing(q)
      /\ \A x \in Requests \ {r} : req'[x] = req[x]
  BY <1>3, <1>4, GoesOn
<1>6. /\ objects' \subseteq Keys /\ stray' \subseteq Keys /\ contested' \subseteq AwardIds
      /\ faults' \in 0 .. MaxFaults /\ faults' >= faults
  BY <1>1, BoundsAssumption DEF RemoveFile, RemoveFails, TypeInv, bucket
<1>7. TypeInv'
  BY <1>5, <1>6 DEF RemoveFile, RemoveFails, TypeInv, table, feedback, scores
<1> QED
  BY <1>1, <1>2, <1>4, <1>5, <1>7

LEMMA AbortType ==
    ASSUME TypeInv, NEW r \in Requests, Abort(r)
    PROVE  /\ TypeInv' /\ req'[r].pc = "idle"
           /\ \A x \in Requests \ {r} : req'[x] = req[x]
<1>1. /\ req' \in [Requests -> ARequest] /\ req'[r] = Idle
      /\ \A x \in Requests \ {r} : req'[x] = req[x]
  BY IdleType, GoesOn DEF Abort, Finish
<1>2. contested' \subseteq AwardIds
  BY DEF Abort, TypeInv, ARequest
<1>3. TypeInv'
  BY <1>1, <1>2, BoundsAssumption DEF Abort, TypeInv, table, bucket, feedback, scores
<1> QED
  BY <1>1, <1>3, IdleType

\* The steps of the score and of the tasks it owes.
ScoreStep == (\E s \in Score : Change(s) \/ Rerate(s)) \/ Enqueue \/ NeverEnqueued

LEMMA ScoreType ==
    ASSUME TypeInv, ScoreStep
    PROVE  TypeInv'
<1>1. CASE \E s \in Score : Change(s)
  BY <1>1, BoundsAssumption DEF Change, TypeInv, table, bucket
<1>2. CASE Enqueue
  BY <1>2 DEF Enqueue, TypeInv, table, bucket
<1>3. CASE NeverEnqueued
  BY <1>3, BoundsAssumption DEF NeverEnqueued, TypeInv, table, bucket, Stored
<1>4. CASE \E s \in Score : Rerate(s)
  BY <1>4, BoundsAssumption DEF Rerate, TypeInv, table, bucket, Stored
<1> QED
  BY <1>1, <1>2, <1>3, <1>4 DEF ScoreStep

(***************************************************************************)
(* The workers.  The table changes in one of them only, and there only in  *)
(* the status of one award.                                                *)
(***************************************************************************)
LEMMA TakeType ==
    ASSUME TypeInv, NEW w \in Workers, Take(w)
    PROVE  /\ TypeInv' /\ worker'[w].pc = "read"
           /\ \A x \in Workers \ {w} : worker'[x] = worker[x]
<1> DEFINE q == [Rest EXCEPT !.pc = "read"]
<1>1. q \in AWorker /\ q.pc = "read"
  BY RestType DEF AWorker
<1>2. Turn(w, q)
  BY DEF Take
<1> HIDE DEF q
<1>3. /\ worker' \in [Workers -> AWorker] /\ worker'[w] = q
      /\ \A x \in Workers \ {w} : worker'[x] = worker[x]
  BY <1>1, <1>2, Turns
<1> QED
  BY <1>1, <1>3 DEF Take, TypeInv, table, bucket, scores

LEMMA ReadScoreType ==
    ASSUME TypeInv, NEW w \in Workers, ReadScore(w)
    PROVE  /\ TypeInv' /\ worker'[w].pc = "list" /\ worker'[w].score = score
           /\ \A x \in Workers \ {w} : worker'[x] = worker[x]
<1> DEFINE q == [Rest EXCEPT !.pc = "list", !.score = score]
<1>1. q \in AWorker /\ q.pc = "list" /\ q.score = score
  BY RestType DEF AWorker, TypeInv
<1>2. Turn(w, q)
  BY DEF ReadScore
<1> HIDE DEF q
<1>3. /\ worker' \in [Workers -> AWorker] /\ worker'[w] = q
      /\ \A x \in Workers \ {w} : worker'[x] = worker[x]
  BY <1>1, <1>2, Turns
<1> QED
  BY <1>1, <1>3 DEF ReadScore, TypeInv, table, bucket, scores

LEMMA ListAwardsType ==
    ASSUME TypeInv, NEW w \in Workers, ListAwards(w)
    PROVE  /\ TypeInv'
           /\ \A a \in Stored : awards[a].status = "setted" /\ worker[w].score >= awards[a].threshold
                                  => worker'[w].pc = "achieve" /\ a \in worker'[w].list
           /\ \A x \in Workers \ {w} : worker'[x] = worker[x]
<1> DEFINE found == {a \in Stored : awards[a].status = "setted" /\ Reached(a, worker[w].score)}
           q == [worker[w] EXCEPT !.list = found]
<1>1. q \in AWorker /\ q.list = found
  BY DEF AWorker, TypeInv, Stored
<1>2. Turn(w, Achieving(q))
  BY DEF ListAwards
<1> HIDE DEF q
<1>3. Achieving(q) \in AWorker
      /\ (q.list # {} => Achieving(q).pc = "achieve" /\ Achieving(q).list = q.list)
  BY <1>1, AchievingIs
<1>4. /\ worker' \in [Workers -> AWorker] /\ worker'[w] = Achieving(q)
      /\ \A x \in Workers \ {w} : worker'[x] = worker[x]
  BY <1>2, <1>3, Turns
<1>5. TypeInv'
  BY <1>4 DEF ListAwards, TypeInv, table, bucket, scores
<1> QED
  BY <1>1, <1>3, <1>4, <1>5 DEF Reached

LEMMA ListShrinks ==
    ASSUME TypeInv, NEW w \in Workers, NEW a \in AwardIds,
           Turn(w, Achieving([worker[w] EXCEPT !.list = @ \ {a}]))
    PROVE  /\ worker' \in [Workers -> AWorker]
           /\ \A b \in worker[w].list \ {a} : worker'[w].pc = "achieve" /\ b \in worker'[w].list
           /\ \A x \in Workers \ {w} : worker'[x] = worker[x]
<1> DEFINE q == [worker[w] EXCEPT !.list = @ \ {a}]
<1>1. q \in AWorker /\ q.list = worker[w].list \ {a}
  BY DEF AWorker, TypeInv
<1> HIDE DEF q
<1>2. Achieving(q) \in AWorker
      /\ (q.list # {} => Achieving(q).pc = "achieve" /\ Achieving(q).list = q.list)
  BY <1>1, AchievingIs
<1>3. /\ worker' \in [Workers -> AWorker] /\ worker'[w] = Achieving(q)
      /\ \A x \in Workers \ {w} : worker'[x] = worker[x]
  BY <1>2, Turns DEF q
<1> QED
  BY <1>1, <1>2, <1>3

LEMMA AchieveType ==
    ASSUME TypeInv, NEW w \in Workers, NEW a \in AwardIds, Achieve(w, a)
    PROVE  /\ TypeInv'
           /\ \A b \in worker[w].list \ {a} : worker'[w].pc = "achieve" /\ b \in worker'[w].list
           /\ \A x \in Workers \ {w} : worker'[x] = worker[x]
           /\ \A b \in AwardIds \ {a} : awards'[b] = awards[b]
           /\ awards'[a].status = IF a \in Stored THEN "achieved" ELSE "none"
           /\ awards'[a].setted = awards[a].setted /\ awards'[a].realized = awards[a].realized
           /\ awards'[a].threshold = awards[a].threshold
<1>1. /\ worker' \in [Workers -> AWorker]
      /\ \A b \in worker[w].list \ {a} : worker'[w].pc = "achieve" /\ b \in worker'[w].list
      /\ \A x \in Workers \ {w} : worker'[x] = worker[x]
  BY ListShrinks DEF Achieve
<1>2. awards \in [AwardIds -> ARow]
  BY DEF TypeInv
<1>3. CASE a \in Stored
  <2>1. awards' = [awards EXCEPT ![a].status = "achieved"]
    BY <1>3 DEF Achieve
  <2>2. /\ awards'[a] = [awards[a] EXCEPT !.status = "achieved"]
        /\ \A b \in AwardIds \ {a} : awards'[b] = awards[b]
    BY <1>2, <2>1
  <2>3. /\ awards'[a] \in ARow /\ awards'[a].status = "achieved"
        /\ awards'[a].setted = awards[a].setted /\ awards'[a].realized = awards[a].realized
        /\ awards'[a].threshold = awards[a].threshold
    BY <1>2, <2>2 DEF ARow
  <2>4. awards' \in [AwardIds -> ARow]
    BY <1>2, <2>1, <2>2, <2>3
  <2>5. TypeInv'
    BY <1>1, <2>4 DEF Achieve, TypeInv, bucket, scores
  <2> QED
    BY <1>1, <1>3, <2>2, <2>3, <2>5
<1>4. CASE a \notin Stored
  <2>1. awards' = awards /\ awards[a].status = "none"
    BY <1>4 DEF Achieve, Stored
  <2>2. TypeInv'
    BY <1>1, <2>1 DEF Achieve, TypeInv, bucket, scores
  <2> QED
    BY <1>1, <1>4, <2>1, <2>2
<1> QED
  BY <1>3, <1>4

LEMMA AchieveFailsType ==
    ASSUME TypeInv, NEW w \in Workers, NEW a \in AwardIds, AchieveFails(w, a)
    PROVE  /\ TypeInv'
           /\ \A b \in worker[w].list \ {a} : worker'[w].pc = "achieve" /\ b \in worker'[w].list
           /\ \A x \in Workers \ {w} : worker'[x] = worker[x]
<1>1. /\ worker' \in [Workers -> AWorker]
      /\ \A b \in worker[w].list \ {a} : worker'[w].pc = "achieve" /\ b \in worker'[w].list
      /\ \A x \in Workers \ {w} : worker'[x] = worker[x]
  BY ListShrinks DEF AchieveFails
<1> QED
  BY <1>1, BoundsAssumption DEF AchieveFails, TypeInv, table, bucket, scores

LEMMA SwallowType ==
    ASSUME TypeInv, NEW w \in Workers, Swallow(w) \/ Crash(w)
    PROVE  TypeInv' /\ \A x \in Workers \ {w} : worker'[x] = worker[x]
<1>1. /\ worker' \in [Workers -> AWorker]
      /\ \A x \in Workers \ {w} : worker'[x] = worker[x]
  BY RestType, Turns DEF Swallow, Crash
<1>2. CASE Swallow(w)
  BY <1>1, <1>2, BoundsAssumption DEF Swallow, TypeInv, table, bucket, scores, Stored
<1>3. CASE Crash(w)
  BY <1>1, <1>3, BoundsAssumption DEF Crash, TypeInv, table, bucket, scores
<1> QED
  BY <1>1, <1>2, <1>3

LEMMA TypeNext == TypeInv /\ [Next]_vars => TypeInv'
<1> SUFFICES ASSUME TypeInv, [Next]_vars PROVE TypeInv'
  OBVIOUS
<1>1. CASE UNCHANGED vars
  BY <1>1 DEF vars, TypeInv
<1>2. ASSUME NEW r \in Requests, NEW f \in Files, PutFile(r, f) PROVE TypeInv'
  BY <1>2, PutFileType
<1>3. CASE Next
  BY <1>2, <1>3, BeginCreateType, BeginRealizeType, PutFailsType, RemoveFileType,
     BeginDeleteType, SaveType, DropType, DeleteType, AbortType, ScoreType,
     TakeType, ReadScoreType, ListAwardsType, SwallowType, AchieveType, AchieveFailsType
     DEF Next, ScoreStep
<1> QED
  BY <1>1, <1>3

LEMMA TypeAlways == Spec => []TypeInv
BY TypeInit, TypeNext, PTL DEF Spec

(* Awards is type correct, for any files, handlers, workers and bounds. *)
THEOREM TypeCorrect == Spec => []TypeOK
BY TypeImplies, TypeAlways, PTL

-----------------------------------------------------------------------------
(***************************************************************************)
(* The feedback.  A worker's step matters to an award only while the       *)
(* worker has yet to compare it.                                           *)
(***************************************************************************)
Waits(a) == /\ a \in Stored
            /\ awards[a].status = "setted"
            /\ score >= awards[a].threshold

Cared(a) == \/ owed > 0 \/ pending > 0
            \/ \E w \in Workers : Comparing(w, a)
            \/ a \in unchecked

LEMMA Achieved == AchievedWhenReached <=> \A a \in AwardIds : Waits(a) => Cared(a)
BY DEF AchievedWhenReached, Waits, Cared, Stored

\* Steps of requests: nobody who cares about an award stops.
LEMMA RequestCares ==
    ASSUME AchievedWhenReached, UNCHANGED <<score, owed, pending, worker>>,
           unchecked \subseteq unchecked',
           \A a \in AwardIds : Waits(a)' =>
              \/ Waits(a) /\ awards'[a].threshold = awards[a].threshold
              \/ a \in unchecked'
    PROVE  AchievedWhenReached'
<1> SUFFICES ASSUME NEW a \in AwardIds, Waits(a)' PROVE Cared(a)'
  BY DEF AchievedWhenReached, Waits, Cared, Stored
<1>1. CASE a \in unchecked'
  BY <1>1 DEF Cared
<1>2. CASE Waits(a) /\ awards'[a].threshold = awards[a].threshold
  BY <1>2, Achieved DEF Cared, Comparing
<1> QED
  BY <1>1, <1>2

LEMMA AchievedNext == TypeInv /\ AchievedWhenReached /\ [Next]_vars => AchievedWhenReached'
<1> SUFFICES ASSUME TypeInv, AchievedWhenReached, [Next]_vars PROVE AchievedWhenReached'
  OBVIOUS
<1>1. CASE UNCHANGED vars
  BY <1>1 DEF vars, AchievedWhenReached, Stored, Comparing
<1>2. ASSUME NEW r \in Requests, NEW t \in Score, NEW fs \in SUBSET Files, BeginCreate(r, t, fs)
      PROVE  AchievedWhenReached'
  <2>1. PICK n \in AwardIds : n = nextId
    BY <1>2, BeginCreateType
  <2>2. /\ awards'[n].threshold = t
        /\ \A a \in AwardIds \ {n} : awards'[a] = awards[a]
    BY <1>2, <2>1, BeginCreateType
  <2>3. /\ UNCHANGED <<score, owed, pending, worker>> /\ unchecked \subseteq unchecked'
        /\ score >= t => n \in unchecked'
    BY <1>2, <2>1 DEF BeginCreate, feedback, scores
  <2>4. \A a \in AwardIds \ {n} : Waits(a)' => Waits(a)
    BY <2>2, <2>3 DEF Waits, Stored
  <2>5. Waits(n)' => n \in unchecked'
    BY <2>2, <2>3 DEF Waits
  <2> QED
    BY <2>2, <2>3, <2>4, <2>5, RequestCares
<1>3. ASSUME UNCHANGED <<awards, score, owed, pending, worker, unchecked>>
      PROVE  AchievedWhenReached'
  BY <1>3 DEF AchievedWhenReached, Stored, Comparing
<1>4. ASSUME NEW r \in Requests, Save(r) PROVE AchievedWhenReached'
  <2>1. PICK a \in AwardIds : a = req[r].award
    BY <1>4, SaveType
  <2>2. /\ req[r] \in ARequest
        /\ \A b \in AwardIds \ {a} : awards'[b] = awards[b]
        /\ a \in Stored => awards'[a] = Saved(awards[a], req[r].folder, req[r].files)
        /\ a \notin Stored => awards' = awards
    BY <1>4, <2>1, SaveType
  <2>3. UNCHANGED <<score, owed, pending, worker, unchecked>>
    BY <1>4 DEF Save, feedback, scores
  <2>4. ASSUME a \in Stored, Waits(a)'
        PROVE  Waits(a) /\ awards'[a].threshold = awards[a].threshold
    <3>1. awards[a] \in ARow /\ req[r].folder \in Folders /\ req[r].files \in SUBSET Files
      BY <2>2 DEF TypeInv, ARequest
    <3>2. awards'[a].threshold = awards[a].threshold /\ awards'[a].status \in {awards[a].status, "realized"}
      BY <2>2, <2>4, <3>1, SavedIs
    <3> QED
      BY <2>3, <2>4, <3>2 DEF Waits
  <2>5. \A b \in AwardIds : Waits(b)' => Waits(b) /\ awards'[b].threshold = awards[b].threshold
    BY <2>2, <2>3, <2>4 DEF Waits, Stored
  <2> QED
    BY <2>3, <2>5, RequestCares
<1>5. ASSUME NEW a \in AwardIds, awards'[a] \in {NoRow, awards[a]},
             \A b \in AwardIds \ {a} : awards'[b] = awards[b],
             UNCHANGED <<score, owed, pending, worker, unchecked>>
      PROVE  AchievedWhenReached'
  <2>1. \A b \in AwardIds : Waits(b)' => Waits(b) /\ awards'[b].threshold = awards[b].threshold
    BY <1>5, NoRowType DEF Waits, Stored
  <2> QED
    BY <1>5, <2>1, RequestCares
<1>6. ASSUME NEW r \in Requests, Drop(r) \/ DropFails(r) PROVE AchievedWhenReached'
  BY <1>5, <1>6, DropType DEF Drop, DropFails, feedback, scores, table
<1>7. ASSUME NEW r \in Requests, Delete(r) PROVE AchievedWhenReached'
  BY <1>5, <1>7, DeleteType DEF Delete, feedback, scores
<1>8. CASE ScoreStep
  <2>1. CASE \E s \in Score : Rerate(s)
    <3> SUFFICES ASSUME NEW a \in AwardIds, Waits(a)' PROVE Cared(a)'
      BY DEF AchievedWhenReached, Waits, Cared, Stored
    <3>1. UNCHANGED <<awards, owed, pending, worker>> /\ unchecked' = IF Coming THEN unchecked ELSE Stored
      BY <2>1 DEF Rerate, table
    <3>2. a \in Stored
      BY <3>1 DEF Waits, Stored
    <3>3. CASE Coming
      BY <3>1, <3>3 DEF Coming, Cared, Comparing
    <3>4. CASE ~Coming
      BY <3>1, <3>2, <3>4 DEF Cared
    <3> QED
      BY <3>3, <3>4
  <2>2. CASE ~\E s \in Score : Rerate(s)
    BY <1>8, <2>2 DEF ScoreStep, Change, Enqueue, NeverEnqueued, AchievedWhenReached, table, Stored,
                      Comparing, TypeInv
  <2> QED
    BY <2>1, <2>2
<1>9. ASSUME NEW w \in Workers, UNCHANGED <<awards, score, owed>>, pending' >= pending \/ worker'[w].pc = "read",
             pending' \in Nat, unchecked \subseteq unchecked',
             \A x \in Workers \ {w} : worker'[x] = worker[x],
             \A a \in AwardIds : Waits(a) /\ Comparing(w, a) => Cared(a)'
      PROVE  AchievedWhenReached'
  <2> SUFFICES ASSUME NEW a \in AwardIds, Waits(a) PROVE Cared(a)'
    BY <1>9 DEF AchievedWhenReached, Waits, Cared, Stored
  <2>1. Cared(a)
    BY Achieved
  <2>2. CASE worker'[w].pc = "read"
    BY <2>2 DEF Cared, Comparing
  <2>3. CASE pending' >= pending /\ \E x \in Workers \ {w} : Comparing(x, a)
    BY <1>9, <2>3 DEF Cared, Comparing
  <2> QED
    BY <1>9, <2>1, <2>2, <2>3 DEF Cared, TypeInv
<1>10. ASSUME NEW w \in Workers, Take(w) PROVE AchievedWhenReached'
  BY <1>9, <1>10, TakeType DEF Take, TypeInv, Comparing, table, scores
<1>11. ASSUME NEW w \in Workers, ReadScore(w) PROVE AchievedWhenReached'
  <2>1. \A a \in AwardIds : Waits(a) => Cared(a)'
    BY <1>11, ReadScoreType DEF ReadScore, Waits, Cared, Comparing, table
  <2> QED
    BY <1>11, <2>1, ReadScoreType DEF ReadScore, AchievedWhenReached, Waits, Cared, table, scores, Stored
<1>12. ASSUME NEW w \in Workers, ListAwards(w) PROVE AchievedWhenReached'
  <2>1. \A a \in AwardIds : Waits(a) /\ Comparing(w, a) => Cared(a)'
    BY <1>12, ListAwardsType DEF ListAwards, Waits, Cared, Comparing
  <2> QED
    BY <1>9, <1>12, <2>1, ListAwardsType DEF ListAwards, TypeInv, table, scores
<1>13. ASSUME NEW w \in Workers, NEW a \in AwardIds, Achieve(w, a) PROVE AchievedWhenReached'
  <2>1. UNCHANGED <<score, owed, pending, unchecked>> /\ worker[w].pc = "achieve"
    BY <1>13 DEF Achieve, scores
  <2>2. ~Waits(a)'
    BY <1>13, AchieveType DEF Waits
  <2>3. ASSUME NEW b \in AwardIds \ {a}, Waits(b) PROVE Cared(b)'
    <3>1. CASE Comparing(w, b)
      <4>1. worker'[w].pc = "achieve" /\ b \in worker'[w].list
        BY <1>13, <2>1, <3>1, AchieveType DEF Comparing
      <4> QED
        BY <4>1 DEF Cared, Comparing
    <3>2. CASE \E x \in Workers \ {w} : Comparing(x, b)
      <4>1. awards'[b] = awards[b] /\ \A x \in Workers \ {w} : worker'[x] = worker[x]
        BY <1>13, AchieveType
      <4> QED
        BY <3>2, <4>1 DEF Cared, Comparing
    <3> QED
      BY <2>1, <2>3, <3>1, <3>2, Achieved DEF Cared
  <2>4. \A b \in AwardIds \ {a} : Waits(b)' => Waits(b)
    BY <1>13, <2>1, AchieveType DEF Waits, Stored
  <2> QED
    BY <2>2, <2>3, <2>4 DEF AchievedWhenReached, Waits, Cared, Stored
<1>14. ASSUME NEW w \in Workers, NEW a \in AwardIds, AchieveFails(w, a) PROVE AchievedWhenReached'
  <2>1. \A b \in AwardIds : Waits(b) /\ Comparing(w, b) => Cared(b)'
    BY <1>14, AchieveFailsType DEF AchieveFails, Waits, Cared, Comparing
  <2> QED
    BY <1>9, <1>14, <2>1, AchieveFailsType DEF AchieveFails, TypeInv, table, scores
<1>15. ASSUME NEW w \in Workers, Swallow(w) \/ Crash(w) PROVE AchievedWhenReached'
  <2>1. \A b \in AwardIds : Waits(b) /\ Comparing(w, b) => Cared(b)'
    BY <1>15 DEF Swallow, Crash, Waits, Cared, TypeInv
  <2> QED
    BY <1>9, <1>15, <2>1, SwallowType DEF Swallow, Crash, TypeInv, table, scores
<1>16. ASSUME NEW r \in Requests, NEW a \in AwardIds, NEW fs \in SUBSET Files, BeginRealize(r, a, fs)
       PROVE  AchievedWhenReached'
  BY <1>3, <1>16 DEF BeginRealize, table, feedback, scores
<1>17. ASSUME NEW r \in Requests, NEW f \in Files, PutFile(r, f) \/ PutFails(r, f)
       PROVE  AchievedWhenReached'
  BY <1>3, <1>17 DEF PutFile, PutFails, table, feedback, scores
<1>18. ASSUME NEW r \in Requests, NEW k \in Keys, RemoveFile(r, k) \/ RemoveFails(r, k)
       PROVE  AchievedWhenReached'
  BY <1>3, <1>18 DEF RemoveFile, RemoveFails, table, feedback, scores
<1>19. ASSUME NEW r \in Requests, NEW a \in AwardIds, BeginDelete(r, a) PROVE AchievedWhenReached'
  BY <1>3, <1>19 DEF BeginDelete, table, feedback, scores
<1>20. ASSUME NEW r \in Requests, Abort(r) PROVE AchievedWhenReached'
  BY <1>3, <1>20 DEF Abort, table, feedback, scores
<1> QED
  BY <1>1, <1>2, <1>4, <1>6, <1>7, <1>8, <1>10, <1>11, <1>12, <1>13, <1>14, <1>15,
     <1>16, <1>17, <1>18, <1>19, <1>20 DEF Next, ScoreStep

(***************************************************************************)
(* A threshold that is met is noticed, however requests, changes of the    *)
(* score and comparisons interleave: the feedback worker and its queue.    *)
(***************************************************************************)
THEOREM AchievedAlways == Spec => []AchievedWhenReached
<1>1. Init => AchievedWhenReached
  BY NoRowType DEF Init, AchievedWhenReached, Stored
<1> QED
  BY <1>1, TypeAlways, AchievedNext, PTL DEF Spec

-----------------------------------------------------------------------------
(***************************************************************************)
(* The files.  What a request at work on award a may rely on, as long as   *)
(* nothing went wrong with a.                                              *)
(***************************************************************************)
Fits(q, a) ==
    /\ q.pc \in {"put", "save", "drop", "delete"} => a \in Stored
    /\ q.pc \in {"put", "save", "drop"} =>
          /\ awards[a].realized = {}
          /\ q.folder = "setted" => awards[a].setted = {}
          /\ q.keys \subseteq KeysOf(a, q.folder, Files)
          /\ q.keys \subseteq objects
    /\ q.pc = "save" => q.keys = KeysOf(a, q.folder, q.files)
    /\ q.pc = "drop" => q.folder = "setted"
    /\ q.pc = "delete" => Listed(a) \subseteq q.keys
    /\ q.pc = "remove" => Listed(a) \intersect q.keys = {}

AwardOK(a) ==
    /\ \A x, y \in Busy(a) : x = y
    /\ \A r \in Busy(a) : Fits(req[r], a)
    /\ Listed(a) \subseteq objects
    /\ \A k \in objects \ stray : k.award = a => \/ k \in Listed(a)
                                                 \/ \E r \in Busy(a) : k \in req[r].keys

\* Ids are given once.
FreshInv == \A a \in AwardIds : a >= nextId => awards[a] = NoRow /\ Busy(a) = {}

FilesInv == /\ TypeInv
            /\ FreshInv
            /\ \A a \in AwardIds \ contested : AwardOK(a)

LEMMA ListedNoRow ==
    ASSUME NEW a \in AwardIds, awards[a].setted = {}, awards[a].realized = {}
    PROVE  Listed(a) = {}
BY DEF Listed, KeysOf

(***************************************************************************)
(* Lemmas: nothing happens to an award, or its only request moves.         *)
(***************************************************************************)
LEMMA Frame ==
    ASSUME NEW a \in AwardIds, AwardOK(a),
           Busy(a)' = Busy(a), \A r \in Busy(a) : req'[r] = req[r],
           (awards'[a].status = "none") <=> (awards[a].status = "none"),
           awards'[a].setted = awards[a].setted, awards'[a].realized = awards[a].realized,
           \A k : k.award = a => (k \in objects' <=> k \in objects) /\ (k \in stray' <=> k \in stray),
           \A k \in Listed(a) : k.award = a,
           \A r \in Busy(a) : \A k \in req[r].keys : k.award = a
    PROVE  AwardOK(a)'
<1>1. Listed(a)' = Listed(a) /\ (a \in Stored)' = (a \in Stored)
  BY DEF Listed, Stored
<1>2. Listed(a)' \subseteq objects'
  BY <1>1 DEF AwardOK
<1>3. \A k \in objects' \ stray' : k.award = a => \/ k \in Listed(a)'
                                                  \/ \E r \in Busy(a)' : k \in req'[r].keys
  BY <1>1 DEF AwardOK
<1>4. ASSUME NEW r \in Busy(a)' PROVE Fits(req[r], a)'
  <2>1. Fits(req[r], a) /\ req'[r] = req[r]
    BY DEF AwardOK
  <2>2. req[r].keys \subseteq objects => req[r].keys \subseteq objects'
    OBVIOUS
  <2> QED
    BY <1>1, <2>1, <2>2 DEF Fits
<1>5. \A x, y \in Busy(a)' : x = y
  BY DEF AwardOK
<1> QED
  BY <1>2, <1>3, <1>4, <1>5 DEF AwardOK

LEMMA KeysOfAward ==
    ASSUME TypeInv, NEW a \in AwardIds
    PROVE  /\ \A k \in Listed(a) : k.award = a
           /\ \A r \in Busy(a) : \A k \in req[r].keys : k.award = a
BY DEF TypeInv, ARequest, Listed, KeysOf, Key, Busy

\* A request that is at work on another award moves.
LEMMA Elsewhere ==
    ASSUME TypeInv, NEW r \in Requests, NEW a \in AwardIds, AwardOK(a),
           \A x \in Requests \ {r} : req'[x] = req[x],
           req[r].pc = "idle" \/ req[r].award # a,
           req'[r].pc = "idle" \/ req'[r].award # a,
           awards'[a] = awards[a],
           \A k : k.award = a => (k \in objects' <=> k \in objects) /\ (k \in stray' <=> k \in stray)
    PROVE  AwardOK(a)'
<1>1. Busy(a)' = Busy(a) /\ \A x \in Busy(a) : req'[x] = req[x]
  BY DEF Busy
<1> QED
  BY <1>1, KeysOfAward, Frame

\* The request of the award itself moves.
LEMMA Own ==
    ASSUME NEW r \in Requests, NEW a \in AwardIds,
           \A x \in Requests \ {r} : req'[x] = req[x],
           Busy(a) \subseteq {r},
           req'[r].pc = "idle" \/ req'[r].award = a,
           req'[r].pc # "idle" => Fits(req[r], a)',
           Listed(a)' \subseteq objects',
           \A k \in objects' \ stray' : k.award = a =>
              k \in Listed(a)' \/ (req'[r].pc # "idle" /\ k \in req'[r].keys)
    PROVE  AwardOK(a)'
<1>1. Busy(a)' \subseteq {r}
  BY DEF Busy
<1>2. req'[r].pc # "idle" => r \in Busy(a)'
  BY DEF Busy
<1>3. \A x \in Busy(a)' : Fits(req[x], a)'
  BY <1>1 DEF Busy
<1> QED
  BY <1>1, <1>2, <1>3 DEF AwardOK

\* What is known of the request that moves.
LEMMA Mine ==
    ASSUME TypeInv, NEW r \in Requests, req[r].pc # "idle", NEW a \in AwardIds,
           req[r].award = a, AwardOK(a)
    PROVE  Busy(a) = {r} /\ Fits(req[r], a)
BY DEF AwardOK, Busy

LEMMA FilesInit == Init => FilesInv
<1> SUFFICES ASSUME Init PROVE FilesInv
  OBVIOUS
<1>1. \A a \in AwardIds : Busy(a) = {} /\ Listed(a) = {} /\ objects = {}
  BY NoRowType, IdleType DEF Init, Busy, Listed, KeysOf
<1>2. \A a \in AwardIds : AwardOK(a)
  BY <1>1 DEF AwardOK
<1>3. FreshInv
  BY <1>1 DEF FreshInv, Init
<1> QED
  BY <1>2, <1>3, TypeInit DEF FilesInv

\* An existing award is below the counter, and so is that of a request.
LEMMA FreshKept ==
    ASSUME FilesInv, TypeInv', NEW r \in Requests, nextId' >= nextId,
           \A x \in Requests \ {r} : req'[x] = req[x],
           req'[r].pc = "idle" \/ (req[r].pc # "idle" /\ req'[r].award = req[r].award)
              \/ req'[r].award < nextId',
           \A a \in AwardIds : a >= nextId' => awards'[a] \in {awards[a], NoRow}
    PROVE  FreshInv'
<1> SUFFICES ASSUME NEW a \in AwardIds, a >= nextId'
             PROVE  awards'[a] = NoRow /\ Busy(a)' = {}
  BY DEF FreshInv
<1>1. a >= nextId /\ nextId' \in Nat /\ a \in Nat
  BY DEF FilesInv, TypeInv, AwardIds
<1>2. awards[a] = NoRow /\ Busy(a) = {}
  BY <1>1 DEF FilesInv, FreshInv
<1>3. \A x \in Requests : req'[x].pc = "idle" \/ req'[x].award # a
  BY <1>1, <1>2 DEF Busy
<1> QED
  BY <1>2, <1>3 DEF Busy

\* The same when no id is given.
LEMMA FreshSame ==
    ASSUME FilesInv, TypeInv', NEW r \in Requests, UNCHANGED nextId,
           \A x \in Requests \ {r} : req'[x] = req[x],
           req'[r].pc = "idle" \/ (req[r].pc # "idle" /\ req'[r].award = req[r].award)
              \/ req'[r].award < nextId,
           \A a \in AwardIds : a >= nextId => awards'[a] \in {awards[a], NoRow}
    PROVE  FreshInv'
<1>1. nextId' >= nextId
  BY DEF FilesInv, TypeInv
<1> QED
  BY <1>1, FreshKept

(***************************************************************************)
(* One lemma for each action of a request.                                 *)
(***************************************************************************)
LEMMA BeginCreateFiles ==
    ASSUME FilesInv, NEW r \in Requests, NEW t \in Score, NEW fs \in SUBSET Files,
           BeginCreate(r, t, fs)
    PROVE  FilesInv'
<1>1. PICK n \in AwardIds : n = nextId
  BY BeginCreateType DEF FilesInv
<1>2. /\ TypeInv /\ TypeInv' /\ req'[r] = Filing(n, "setted", fs)
      /\ \A x \in Requests \ {r} : req'[x] = req[x]
      /\ awards'[n].status = "setted" /\ awards'[n].setted = {} /\ awards'[n].realized = {}
      /\ \A a \in AwardIds \ {n} : awards'[a] = awards[a]
  BY <1>1, BeginCreateType DEF FilesInv
<1>3. /\ req'[r].award = n /\ req'[r].folder = "setted" /\ req'[r].files = fs
      /\ req'[r].keys = {} /\ req'[r].pc \in {"put", "save"}
      /\ req'[r].pc = "save" => KeysOf(n, "setted", fs) = {}
  BY <1>2, FilingIs DEF Folders
<1>4. /\ req[r].pc = "idle" /\ nextId' = nextId + 1 /\ UNCHANGED <<objects, stray, contested>>
      /\ n \in Nat /\ n < nextId'
  BY <1>1 DEF BeginCreate, bucket, AwardIds
<1>5. FreshInv'
  BY <1>1, <1>2, <1>3, <1>4, FreshKept DEF AwardIds
<1>6. ASSUME NEW a \in AwardIds, a \notin contested' PROVE AwardOK(a)'
  <2>1. AwardOK(a)
    BY <1>4, <1>6 DEF FilesInv
  <2>2. CASE a = n
    <3>1. awards[a] = NoRow /\ Busy(a) = {}
      BY <1>1, <1>4, <2>2 DEF FilesInv, FreshInv
    <3>2. Listed(a) = {} /\ Listed(a)' = {}
      BY <1>2, <2>2, <3>1, NoRowType, ListedNoRow DEF Listed, KeysOf
    <3>3. \A k \in objects' \ stray' : k.award # a
      BY <1>4, <2>1, <3>1, <3>2 DEF AwardOK
    <3>4. Fits(req[r], a)'
      BY <1>2, <1>3, <2>2 DEF Fits, Stored
    <3> QED
      BY <1>2, <1>3, <2>2, <3>1, <3>2, <3>3, <3>4, Own
  <2>3. CASE a # n
    BY <1>2, <1>3, <1>4, <2>1, <2>3, Elsewhere
  <2> QED
    BY <2>2, <2>3
<1> QED
  BY <1>2, <1>5, <1>6 DEF FilesInv

LEMMA BeginRealizeFiles ==
    ASSUME FilesInv, NEW r \in Requests, NEW n \in AwardIds, NEW fs \in SUBSET Files,
           BeginRealize(r, n, fs)
    PROVE  FilesInv'
<1>1. /\ TypeInv /\ TypeInv' /\ req'[r] = Filing(n, "realized", fs)
      /\ \A x \in Requests \ {r} : req'[x] = req[x]
  BY BeginRealizeType DEF FilesInv
<1>2. /\ req'[r].award = n /\ req'[r].folder = "realized" /\ req'[r].files = fs
      /\ req'[r].keys = {} /\ req'[r].pc \in {"put", "save"}
      /\ req'[r].pc = "save" => KeysOf(n, "realized", fs) = {}
  BY <1>1, FilingIs DEF Folders
<1>3. /\ req[r].pc = "idle" /\ n \in Stored
      /\ UNCHANGED <<objects, stray, awards, nextId>> /\ contested \subseteq contested'
      /\ n \notin contested' => Busy(n) = {} /\ awards[n].realized = {}
  BY DEF BeginRealize, bucket, table
<1>4. n < nextId
  BY <1>1, <1>3, NoRowType DEF FilesInv, FreshInv, Stored, TypeInv, AwardIds
<1>5. FreshInv'
  BY <1>1, <1>2, <1>3, <1>4, FreshSame
<1>6. ASSUME NEW a \in AwardIds, a \notin contested' PROVE AwardOK(a)'
  <2>1. AwardOK(a)
    BY <1>3, <1>6 DEF FilesInv
  <2>2. CASE a = n
    <3>1. Busy(a) = {} /\ awards[a].realized = {}
      BY <1>3, <1>6, <2>2
    <3>2. Listed(a)' = Listed(a)
      BY <1>3 DEF Listed
    <3>3. \A k \in objects \ stray : k.award = a => k \in Listed(a)
      BY <2>1, <3>1 DEF AwardOK
    <3>4. Fits(req[r], a)'
      BY <1>2, <1>3, <2>2, <3>1 DEF Fits, Stored
    <3>5. Listed(a) \subseteq objects
      BY <2>1 DEF AwardOK
    <3> QED
      BY <1>1, <1>2, <1>3, <2>2, <3>1, <3>2, <3>3, <3>4, <3>5, Own
  <2>3. CASE a # n
    BY <1>1, <1>2, <1>3, <2>1, <2>3, Elsewhere
  <2> QED
    BY <2>2, <2>3
<1> QED
  BY <1>1, <1>5, <1>6 DEF FilesInv

\* After a file, put or not: where Proceed leads, the request still fits.
LEMMA ProceedFits ==
    ASSUME NEW a \in AwardIds, NEW q \in ARequest, q.award = a, a \in Stored',
           awards'[a].realized = {}, q.folder = "setted" => awards'[a].setted = {},
           q.keys \subseteq KeysOf(a, q.folder, Files), q.keys \subseteq objects'
    PROVE  Proceed(q).pc # "idle" => Fits(Proceed(q), a)'
<1>1. q.folder \in Folders
  BY DEF ARequest
<1>2. q.folder # "setted" => Listed(a)' \intersect q.keys = {}
  BY <1>1 DEF Listed, KeysOf, Key, Folders
<1> DEFINE p == Proceed(q)
<1>3. /\ p.award = a /\ p.folder = q.folder /\ p.files = q.files /\ p.keys = q.keys
      /\ \/ p.pc = "put"
         \/ p.pc = "save" /\ q.keys = KeysOf(a, q.folder, q.files)
         \/ p.pc = "drop" /\ q.folder = "setted"
         \/ p.pc = "remove" /\ q.folder # "setted"
         \/ p.pc = "idle" /\ q.keys = {}
  BY ProceedIs
<1>4. p.pc # "idle" => Fits(p, a)'
  BY <1>2, <1>3 DEF Fits
<1> QED
  BY <1>4

LEMMA PutFileFiles ==
    ASSUME FilesInv, NEW r \in Requests, NEW f \in Files, PutFile(r, f)
    PROVE  FilesInv'
<1>1. PICK n \in AwardIds : n = req[r].award
  BY PutFileType DEF FilesInv
<1>2. PICK k : k = Key(n, req[r].folder, f)
  OBVIOUS
<1>3. /\ TypeInv /\ TypeInv' /\ req[r] \in ARequest
      /\ k \in Keys /\ k.award = n /\ k \in KeysOf(n, req[r].folder, Files)
      /\ \A x \in Requests \ {r} : req'[x] = req[x]
  BY <1>1, <1>2, PutFileType DEF FilesInv
<1>4. PICK q \in ARequest :
           /\ q.award = n /\ q.folder = req[r].folder /\ q.files = req[r].files
           /\ q.keys = req[r].keys \union {k}
           /\ req'[r] = Proceed(q)
  BY <1>1, <1>2, PutFileType DEF FilesInv
<1>5. /\ req'[r].award = n /\ req'[r].keys = q.keys
      /\ req'[r].pc = "idle" => q.keys = {}
  BY <1>4, ProceedIs
<1>6. /\ req[r].pc = "put" /\ UNCHANGED <<awards, nextId, contested>>
      /\ objects' = objects \union {k} /\ stray' = stray \ {k}
  BY <1>1, <1>2 DEF PutFile, table
<1>7. FreshInv'
  BY <1>1, <1>3, <1>5, <1>6, FreshSame
<1>8. ASSUME NEW a \in AwardIds, a \notin contested' PROVE AwardOK(a)'
  <2>1. AwardOK(a)
    BY <1>6, <1>8 DEF FilesInv
  <2>2. CASE a = n
    <3>1. Busy(a) = {r} /\ Fits(req[r], a)
      BY <1>1, <1>3, <1>6, <2>1, <2>2, Mine
    <3>2. Listed(a)' = Listed(a) /\ Listed(a) \subseteq objects
      BY <1>6, <2>1 DEF Listed, AwardOK
    <3>3. \A o \in objects' \ stray' : o.award = a => o \in Listed(a) \/ o \in q.keys
      BY <1>4, <1>6, <2>1, <3>1 DEF AwardOK
    <3>4. /\ a \in Stored' /\ awards'[a].realized = {}
          /\ q.folder = "setted" => awards'[a].setted = {}
          /\ q.keys \subseteq KeysOf(a, q.folder, Files) /\ q.keys \subseteq objects'
      BY <1>3, <1>4, <1>6, <2>2, <3>1 DEF Fits, Stored
    <3>5. req'[r].pc # "idle" => Fits(req[r], a)'
      <4>1. Proceed(q).pc # "idle" => Fits(Proceed(q), a)'
        BY <1>4, <2>2, <3>4, ProceedFits
      <4> QED
        BY <1>4, <4>1
    <3> QED
      BY <1>3, <1>5, <1>6, <2>2, <3>1, <3>2, <3>3, <3>5, Own
  <2>3. CASE a # n
    BY <1>1, <1>3, <1>5, <1>6, <2>1, <2>3, Elsewhere
  <2> QED
    BY <2>2, <2>3
<1> QED
  BY <1>3, <1>7, <1>8 DEF FilesInv

LEMMA PutFailsFiles ==
    ASSUME FilesInv, NEW r \in Requests, NEW f \in Files, PutFails(r, f)
    PROVE  FilesInv'
<1>1. PICK n \in AwardIds : n = req[r].award
  BY PutFailsType DEF FilesInv
<1>2. /\ TypeInv /\ TypeInv' /\ req[r] \in ARequest
      /\ \A x \in Requests \ {r} : req'[x] = req[x]
  BY PutFailsType DEF FilesInv
<1>3. PICK q \in ARequest :
           /\ q.award = n /\ q.folder = req[r].folder /\ q.files = req[r].files
           /\ q.keys = req[r].keys
           /\ req'[r] = Proceed(q)
  BY <1>1, PutFailsType DEF FilesInv
<1>4. /\ req'[r].award = n /\ req'[r].keys = q.keys
      /\ req'[r].pc = "idle" => q.keys = {}
  BY <1>3, ProceedIs
<1>5. /\ req[r].pc = "put" /\ UNCHANGED <<awards, nextId, contested>>
      /\ objects \subseteq objects' /\ objects' \ stray' \subseteq objects \ stray
      /\ \A k : k.award # n => (k \in objects' <=> k \in objects) /\ (k \in stray' <=> k \in stray)
  BY <1>1 DEF PutFails, table, bucket, Key
<1>6. FreshInv'
  BY <1>1, <1>2, <1>4, <1>5, FreshSame
<1>7. ASSUME NEW a \in AwardIds, a \notin contested' PROVE AwardOK(a)'
  <2>1. AwardOK(a)
    BY <1>5, <1>7 DEF FilesInv
  <2>2. CASE a = n
    <3>1. Busy(a) = {r} /\ Fits(req[r], a)
      BY <1>1, <1>2, <1>5, <2>1, <2>2, Mine
    <3>2. Listed(a)' = Listed(a) /\ Listed(a) \subseteq objects
      BY <1>5, <2>1 DEF Listed, AwardOK
    <3>3. \A o \in objects' \ stray' : o.award = a => o \in Listed(a) \/ o \in q.keys
      BY <1>3, <1>5, <2>1, <3>1 DEF AwardOK
    <3>4. /\ a \in Stored' /\ awards'[a].realized = {}
          /\ q.folder = "setted" => awards'[a].setted = {}
          /\ q.keys \subseteq KeysOf(a, q.folder, Files) /\ q.keys \subseteq objects'
      BY <1>3, <1>5, <2>2, <3>1 DEF Fits, Stored
    <3>5. req'[r].pc # "idle" => Fits(req[r], a)'
      BY <1>3, <2>2, <3>4, ProceedFits
    <3> QED
      BY <1>2, <1>4, <1>5, <2>2, <3>1, <3>2, <3>3, <3>5, Own
  <2>3. CASE a # n
    BY <1>1, <1>2, <1>4, <1>5, <2>1, <2>3, Elsewhere
  <2> QED
    BY <2>2, <2>3
<1> QED
  BY <1>2, <1>6, <1>7 DEF FilesInv

LEMMA SaveFiles ==
    ASSUME FilesInv, NEW r \in Requests, Save(r)
    PROVE  FilesInv'
<1>1. PICK n \in AwardIds : n = req[r].award
  BY SaveType DEF FilesInv
<1>2. /\ TypeInv /\ TypeInv' /\ req[r] \in ARequest /\ req'[r].pc = "idle"
      /\ \A x \in Requests \ {r} : req'[x] = req[x]
      /\ \A a \in AwardIds \ {n} : awards'[a] = awards[a]
      /\ n \in Stored => awards'[n] = Saved(awards[n], req[r].folder, req[r].files)
      /\ n \notin Stored => awards' = awards
  BY <1>1, SaveType DEF FilesInv
<1>3. req[r].pc = "save" /\ UNCHANGED <<nextId, objects, stray, contested>>
  BY DEF Save, bucket
<1>4. FreshInv'
  <2>1. \A a \in AwardIds : a >= nextId => a \notin Stored
    BY NoRowType DEF FilesInv, FreshInv, Stored
  <2>2. \A a \in AwardIds : a >= nextId' => awards'[a] \in {awards[a], NoRow}
    BY <1>2, <1>3, <2>1
  <2> QED
    BY <1>2, <1>3, <2>2, FreshSame
<1>5. ASSUME NEW a \in AwardIds, a \notin contested' PROVE AwardOK(a)'
  <2>1. AwardOK(a)
    BY <1>3, <1>5 DEF FilesInv
  <2>2. CASE a = n
    <3>1. Busy(a) = {r} /\ Fits(req[r], a)
      BY <1>1, <1>2, <1>3, <2>1, <2>2, Mine
    <3>2. /\ a \in Stored /\ awards[a].realized = {}
          /\ req[r].folder = "setted" => awards[a].setted = {}
          /\ req[r].keys = KeysOf(a, req[r].folder, req[r].files)
          /\ req[r].keys \subseteq objects
      BY <1>3, <3>1 DEF Fits
    <3>3. /\ awards[a] \in ARow /\ req[r].folder \in Folders /\ req[r].files \in SUBSET Files
          /\ awards'[a] = Saved(awards[a], req[r].folder, req[r].files)
      BY <1>2, <2>2, <3>2 DEF TypeInv, ARequest
    <3>4. Listed(a)' = Listed(a) \union req[r].keys
      <4>1. CASE req[r].folder = "setted"
        <5>1. awards'[a].setted = req[r].files /\ awards'[a].realized = awards[a].realized
          BY <3>3, <4>1, SavedIs
        <5> QED
          BY <3>2, <4>1, <5>1 DEF Listed, KeysOf
      <4>2. CASE req[r].folder # "setted"
        <5>1. awards'[a].realized = req[r].files /\ awards'[a].setted = awards[a].setted
          BY <3>3, <4>2, SavedIs
        <5>2. req[r].folder = "realized"
          BY <3>3, <4>2 DEF Folders
        <5> QED
          BY <3>2, <5>1, <5>2 DEF Listed, KeysOf
      <4> QED
        BY <4>1, <4>2
    <3>5. Listed(a)' \subseteq objects' /\ \A o \in objects' \ stray' : o.award = a => o \in Listed(a)'
      BY <1>3, <2>1, <3>1, <3>2, <3>4 DEF AwardOK
    <3> QED
      BY <1>2, <3>1, <3>5, Own
  <2>3. CASE a # n
    BY <1>1, <1>2, <1>3, <2>1, <2>3, Elsewhere
  <2> QED
    BY <2>2, <2>3
<1> QED
  BY <1>2, <1>4, <1>5 DEF FilesInv

(***************************************************************************)
(* Drop, DropFails and Delete: the row is gone or lists nothing of what is *)
(* to be removed, and the request goes on to remove its files.             *)
(***************************************************************************)
LEMMA GoesToRemove ==
    ASSUME FilesInv, TypeInv', NEW r \in Requests, NEW n \in AwardIds, n = req[r].award,
           req[r].pc # "idle", \A x \in Requests \ {r} : req'[x] = req[x],
           req'[r] = Removing(req[r]),
           \A a \in AwardIds \ {n} : awards'[a] = awards[a],
           awards'[n] \in {NoRow, awards[n]},
           n \notin contested => Listed(n)' = {} /\ Listed(n) \subseteq req[r].keys,
           UNCHANGED <<nextId, objects, stray, contested>>
    PROVE  FilesInv'
<1>1. TypeInv /\ req[r] \in ARequest
  BY DEF FilesInv, TypeInv
<1>2. /\ req[r].keys = {} => req'[r].pc = "idle"
      /\ req[r].keys # {} => req'[r].pc = "remove" /\ req'[r].award = n /\ req'[r].keys = req[r].keys
  BY <1>1, RemovingIs
<1>3. FreshInv'
  BY <1>2, FreshSame
<1>4. ASSUME NEW a \in AwardIds, a \notin contested' PROVE AwardOK(a)'
  <2>1. AwardOK(a)
    BY <1>4 DEF FilesInv
  <2>2. CASE a = n
    <3>1. Busy(a) = {r} /\ Listed(a)' = {} /\ Listed(a) \subseteq req[r].keys
      BY <1>1, <1>4, <2>1, <2>2, Mine
    <3>2. \A o \in objects' \ stray' : o.award = a => o \in req[r].keys
      BY <2>1, <3>1 DEF AwardOK
    <3>3. req'[r].pc # "idle" => Fits(req[r], a)'
      BY <1>2, <3>1 DEF Fits
    <3> QED
      BY <1>2, <2>2, <3>1, <3>2, <3>3, Own
  <2>3. CASE a # n
    BY <1>1, <1>2, <2>1, <2>3, Elsewhere
  <2> QED
    BY <2>2, <2>3
<1> QED
  BY <1>3, <1>4 DEF FilesInv

LEMMA DropFiles ==
    ASSUME FilesInv, NEW r \in Requests, Drop(r) \/ DropFails(r)
    PROVE  FilesInv'
<1>1. PICK n \in AwardIds : n = req[r].award
  BY DropType DEF FilesInv
<1>2. /\ TypeInv /\ TypeInv' /\ req'[r] = Removing(req[r])
      /\ \A x \in Requests \ {r} : req'[x] = req[x]
      /\ \A a \in AwardIds \ {n} : awards'[a] = awards[a]
      /\ awards'[n] \in {NoRow, awards[n]}
  BY <1>1, DropType DEF FilesInv
<1>3. req[r].pc = "drop" /\ UNCHANGED <<nextId, objects, stray, contested>>
  BY DEF Drop, DropFails, bucket, table
<1>4. ASSUME n \notin contested PROVE Listed(n)' = {} /\ Listed(n) = {}
  <2>1. Fits(req[r], n)
    BY <1>1, <1>2, <1>3, <1>4, Mine DEF FilesInv
  <2>2. awards[n].setted = {} /\ awards[n].realized = {}
    BY <1>3, <2>1 DEF Fits
  <2>3. awards'[n].setted = {} /\ awards'[n].realized = {}
    BY <1>2, <2>2, NoRowType
  <2> QED
    BY <2>2, <2>3 DEF Listed, KeysOf
<1> QED
  BY <1>1, <1>2, <1>3, <1>4, GoesToRemove

LEMMA BeginDeleteFiles ==
    ASSUME FilesInv, NEW r \in Requests, NEW n \in AwardIds, BeginDelete(r, n)
    PROVE  FilesInv'
<1>1. /\ TypeInv /\ TypeInv'
      /\ req'[r].pc = "delete" /\ req'[r].award = n /\ req'[r].keys = Listed(n)
      /\ \A x \in Requests \ {r} : req'[x] = req[x]
  BY BeginDeleteType DEF FilesInv
<1>2. /\ req[r].pc = "idle" /\ n \in Stored
      /\ UNCHANGED <<objects, stray, awards, nextId>> /\ contested \subseteq contested'
      /\ n \notin contested' => Busy(n) = {}
  BY DEF BeginDelete, bucket, table
<1>3. n < nextId
  BY <1>1, <1>2, NoRowType DEF FilesInv, FreshInv, Stored, TypeInv, AwardIds
<1>4. FreshInv'
  BY <1>1, <1>2, <1>3, FreshSame
<1>5. ASSUME NEW a \in AwardIds, a \notin contested' PROVE AwardOK(a)'
  <2>1. AwardOK(a)
    BY <1>2, <1>5 DEF FilesInv
  <2>2. CASE a = n
    <3>1. Busy(a) = {} /\ Listed(a)' = Listed(a)
      BY <1>2, <1>5, <2>2 DEF Listed
    <3>2. Listed(a) \subseteq objects /\ \A k \in objects \ stray : k.award = a => k \in Listed(a)
      BY <2>1, <3>1 DEF AwardOK
    <3>3. Fits(req[r], a)'
      BY <1>1, <1>2, <2>2, <3>1 DEF Fits, Stored
    <3> QED
      BY <1>1, <1>2, <2>2, <3>1, <3>2, <3>3, Own
  <2>3. CASE a # n
    BY <1>1, <1>2, <2>1, <2>3, Elsewhere
  <2> QED
    BY <2>2, <2>3
<1> QED
  BY <1>1, <1>4, <1>5 DEF FilesInv

LEMMA DeleteFiles ==
    ASSUME FilesInv, NEW r \in Requests, Delete(r)
    PROVE  FilesInv'
<1>1. PICK n \in AwardIds : n = req[r].award
  BY DeleteType DEF FilesInv
<1>2. /\ TypeInv /\ TypeInv' /\ req'[r] \in {Idle, Removing(req[r])}
      /\ \A x \in Requests \ {r} : req'[x] = req[x]
      /\ \A a \in AwardIds \ {n} : awards'[a] = awards[a]
      /\ n \in Stored => awards'[n] = NoRow /\ req'[r] = Removing(req[r])
      /\ n \notin Stored => awards' = awards
  BY <1>1, DeleteType DEF FilesInv
<1>3. req[r].pc = "delete" /\ UNCHANGED <<nextId, objects, stray, contested>>
  BY DEF Delete, bucket
<1>4. n \notin contested => n \in Stored /\ Listed(n) \subseteq req[r].keys
  <2>1. n \notin contested => Fits(req[r], n)
    BY <1>1, <1>2, <1>3, Mine DEF FilesInv
  <2> QED
    BY <1>3, <2>1 DEF Fits
<1>5. CASE n \in Stored
  <2>1. awards'[n] = NoRow /\ Listed(n)' = {}
    BY <1>2, <1>5, NoRowType DEF Listed, KeysOf
  <2> QED
    BY <1>1, <1>2, <1>3, <1>4, <1>5, <2>1, GoesToRemove
<1>6. CASE n \notin Stored
  <2>1. awards' = awards /\ n \in contested /\ (req'[r].pc = "idle" \/ req'[r].award = n)
    <3>1. req[r] \in ARequest
      BY <1>2 DEF TypeInv
    <3>2. Removing(req[r]).pc = "idle" \/ Removing(req[r]).award = n
      BY <1>1, <3>1, RemovingIs
    <3> QED
      BY <1>2, <1>4, <1>6, <3>2, IdleType
  <2>2. FreshInv'
    BY <1>1, <1>2, <1>3, <2>1, FreshSame
  <2>3. ASSUME NEW a \in AwardIds, a \notin contested' PROVE AwardOK(a)'
    <3>1. AwardOK(a) /\ a # n
      BY <1>3, <2>1, <2>3 DEF FilesInv
    <3> QED
      BY <1>1, <1>2, <1>3, <2>1, <3>1, Elsewhere
  <2> QED
    BY <1>2, <2>2, <2>3 DEF FilesInv
<1> QED
  BY <1>5, <1>6

LEMMA RemoveFileFiles ==
    ASSUME FilesInv, NEW r \in Requests, NEW k \in Keys, RemoveFile(r, k) \/ RemoveFails(r, k)
    PROVE  FilesInv'
<1>1. PICK n \in AwardIds : n = req[r].award
  BY RemoveFileType DEF FilesInv
<1>2. /\ TypeInv /\ TypeInv' /\ k.award = n
      /\ \/ req'[r].pc = "idle" /\ req[r].keys = {k}
         \/ req'[r].pc = "remove" /\ req'[r].award = n /\ req'[r].keys = req[r].keys \ {k}
      /\ \A x \in Requests \ {r} : req'[x] = req[x]
  BY <1>1, RemoveFileType DEF FilesInv
<1>3. /\ req[r].pc = "remove" /\ k \in req[r].keys
      /\ UNCHANGED <<nextId, awards>> /\ contested \subseteq contested'
      /\ n \in contested' \/ (objects' = objects \ {k} /\ stray' = stray \ {k})
      /\ UNCHANGED <<objects, stray>> \/ (objects' = objects \ {k} /\ stray' = stray \ {k})
  BY <1>1 DEF RemoveFile, RemoveFails, bucket, table
<1>4. FreshInv'
  BY <1>1, <1>2, <1>3, FreshSame
<1>5. ASSUME NEW a \in AwardIds, a \notin contested' PROVE AwardOK(a)'
  <2>1. AwardOK(a)
    BY <1>3, <1>5 DEF FilesInv
  <2>2. CASE a = n
    <3>1. Busy(a) = {r} /\ Fits(req[r], a)
      BY <1>1, <1>2, <1>3, <2>1, <2>2, Mine
    <3>2. /\ Listed(a)' = Listed(a) /\ Listed(a) \intersect req[r].keys = {}
          /\ objects' = objects \ {k} /\ stray' = stray \ {k}
      BY <1>3, <1>5, <2>2, <3>1 DEF Listed, Fits
    <3>3. Listed(a)' \subseteq objects'
      BY <1>3, <2>1, <3>2 DEF AwardOK
    <3>4. \A o \in objects' \ stray' : o.award = a => o \in Listed(a)' \/ o \in req[r].keys \ {k}
      BY <2>1, <3>1, <3>2 DEF AwardOK
    <3>5. req'[r].pc # "idle" => Fits(req[r], a)'
      BY <1>2, <3>2 DEF Fits
    <3> QED
      BY <1>2, <2>2, <3>1, <3>3, <3>4, <3>5, Own
  <2>3. CASE a # n
    BY <1>1, <1>2, <1>3, <2>1, <2>3, Elsewhere
  <2> QED
    BY <2>2, <2>3
<1> QED
  BY <1>2, <1>4, <1>5 DEF FilesInv

LEMMA AbortFiles ==
    ASSUME FilesInv, NEW r \in Requests, Abort(r)
    PROVE  FilesInv'
<1>1. /\ TypeInv /\ TypeInv' /\ req'[r].pc = "idle" /\ req[r].pc # "idle"
      /\ \A x \in Requests \ {r} : req'[x] = req[x]
      /\ UNCHANGED <<awards, nextId, objects, stray>> /\ contested' = contested \union {req[r].award}
  BY AbortType DEF FilesInv, Abort, table, bucket
<1>2. FreshInv'
  BY <1>1, FreshSame
<1>3. ASSUME NEW a \in AwardIds, a \notin contested' PROVE AwardOK(a)'
  BY <1>1, <1>3, Elsewhere DEF FilesInv
<1> QED
  BY <1>1, <1>2, <1>3 DEF FilesInv

(***************************************************************************)
(* Everything else leaves files and requests alone; a worker changes the   *)
(* status of an award that is there.                                       *)
(***************************************************************************)
LEMMA FilesKept ==
    ASSUME FilesInv, TypeInv', UNCHANGED <<nextId, objects, stray, req, contested>>,
           \A a \in AwardIds : /\ (awards'[a].status = "none") <=> (awards[a].status = "none")
                               /\ awards'[a].setted = awards[a].setted
                               /\ awards'[a].realized = awards[a].realized
                               /\ awards[a] = NoRow => awards'[a] = NoRow
    PROVE  FilesInv'
<1>1. FreshInv'
  BY DEF FilesInv, FreshInv, Busy
<1>2. ASSUME NEW a \in AwardIds, a \notin contested' PROVE AwardOK(a)'
  <2>1. TypeInv /\ AwardOK(a) /\ Busy(a)' = Busy(a)
    BY <1>2 DEF FilesInv, Busy
  <2>2. /\ \A k \in Listed(a) : k.award = a
        /\ \A r \in Busy(a) : \A k \in req[r].keys : k.award = a
    BY <2>1, KeysOfAward
  <2> QED
    BY <2>1, <2>2, Frame
<1> QED
  BY <1>1, <1>2 DEF FilesInv

LEMMA AchieveFiles ==
    ASSUME FilesInv, NEW w \in Workers, NEW n \in AwardIds, Achieve(w, n)
    PROVE  FilesInv'
<1>1. /\ TypeInv' /\ \A b \in AwardIds \ {n} : awards'[b] = awards[b]
      /\ awards'[n].status = IF n \in Stored THEN "achieved" ELSE "none"
      /\ awards'[n].setted = awards[n].setted /\ awards'[n].realized = awards[n].realized
  BY AchieveType DEF FilesInv
<1>2. UNCHANGED <<nextId, objects, stray, req, contested>> /\ (n \notin Stored => awards' = awards)
  BY DEF Achieve, bucket
<1>3. \A a \in AwardIds : (awards'[a].status = "none") <=> (awards[a].status = "none")
  BY <1>1 DEF Stored
<1>4. awards[n] = NoRow => awards'[n] = NoRow
  BY <1>2, NoRowType DEF Stored
<1> QED
  BY <1>1, <1>2, <1>3, <1>4, FilesKept

LEMMA FilesNext == FilesInv /\ [Next]_vars => FilesInv'
<1> SUFFICES ASSUME FilesInv, [Next]_vars PROVE FilesInv'
  OBVIOUS
<1>1. TypeInv'
  BY TypeNext DEF FilesInv
<1>2. ASSUME UNCHANGED <<awards, nextId, objects, stray, req, contested>> PROVE FilesInv'
  BY <1>1, <1>2, FilesKept
<1>3. CASE UNCHANGED vars
  BY <1>2, <1>3 DEF vars
<1>4. CASE ScoreStep
  BY <1>2, <1>4 DEF ScoreStep, Change, Rerate, Enqueue, NeverEnqueued, table, bucket
<1>5. ASSUME NEW w \in Workers,
             Take(w) \/ ReadScore(w) \/ ListAwards(w) \/ Swallow(w) \/ Crash(w)
      PROVE  FilesInv'
  BY <1>2, <1>5 DEF Take, ReadScore, ListAwards, Swallow, Crash, table, bucket
<1>6. ASSUME NEW w \in Workers, NEW a \in AwardIds, AchieveFails(w, a) PROVE FilesInv'
  BY <1>2, <1>6 DEF AchieveFails, table, bucket
<1>7. CASE Next
  BY <1>4, <1>5, <1>6, <1>7, BeginCreateFiles, BeginRealizeFiles, PutFileFiles, PutFailsFiles,
     RemoveFileFiles, BeginDeleteFiles, SaveFiles, DropFiles, DeleteFiles, AbortFiles, AchieveFiles
     DEF Next, ScoreStep
<1> QED
  BY <1>3, <1>7

LEMMA FilesAlways == Spec => []FilesInv
BY FilesInit, FilesNext, PTL DEF Spec

(***************************************************************************)
(* What an award lists is in the bucket, unless requests met on the award  *)
(* or one was cut short: CreateFeedbackAward and its relatives.            *)
(***************************************************************************)
THEOREM ListedFilesExistAlways == Spec => []ListedFilesExist
<1>1. FilesInv => ListedFilesExist
  BY DEF FilesInv, AwardOK, ListedFilesExist, Stored
<1> QED
  BY <1>1, FilesAlways, PTL

(***************************************************************************)
(* The bucket keeps no file of an award that nobody lists or is about to   *)
(* save or to remove, with the same exceptions and but for stray ones.     *)
(***************************************************************************)
THEOREM FilesAreListedAlways == Spec => []FilesAreListed
<1>1. FilesInv => FilesAreListed
  BY DEF FilesInv, TypeInv, AwardOK, FilesAreListed, Keys
<1> QED
  BY <1>1, FilesAlways, PTL

(***************************************************************************)
(* A realized award stays realized but for a worker that had listed it.    *)
(***************************************************************************)
THEOREM RealizedStaysAlways == Spec => RealizedStays
<1> DEFINE Kept(a) == awards[a].status = "realized" =>
                         \/ awards'[a].status \in {"realized", "none"}
                         \/ \E w \in Workers : worker[w].pc = "achieve" /\ a \in worker[w].list
<1>1. FilesInv /\ [Next]_vars => [\A a \in Stored : Kept(a)]_vars
  <2> SUFFICES ASSUME FilesInv, Next, NEW a \in AwardIds PROVE Kept(a)
    BY DEF Stored
  <2>1. ASSUME awards'[a] = awards[a] \/ awards'[a] = NoRow PROVE Kept(a)
    BY <2>1, NoRowType
  <2>2. ASSUME NEW r \in Requests, NEW t \in Score, NEW fs \in SUBSET Files, BeginCreate(r, t, fs)
        PROVE  Kept(a)
    <3>1. CASE a = nextId
      BY <3>1, NoRowType DEF FilesInv, FreshInv, TypeInv
    <3>2. CASE a # nextId
      BY <2>1, <2>2, <3>2, BeginCreateType DEF FilesInv
    <3> QED
      BY <3>1, <3>2
  <2>3. ASSUME NEW r \in Requests, Save(r) PROVE Kept(a)
    <3>1. CASE a # req[r].award \/ a \notin Stored
      BY <2>1, <2>3, <3>1, SaveType DEF FilesInv
    <3>2. CASE a = req[r].award /\ a \in Stored
      <4>1. /\ awards[a] \in ARow /\ req[r].folder \in Folders /\ req[r].files \in SUBSET Files
            /\ awards'[a] = Saved(awards[a], req[r].folder, req[r].files)
        BY <2>3, <3>2, SaveType DEF FilesInv, TypeInv, ARequest
      <4> QED
        BY <4>1, SavedIs
    <3> QED
      BY <3>1, <3>2
  <2>4. ASSUME NEW r \in Requests, Drop(r) \/ DropFails(r) \/ Delete(r) PROVE Kept(a)
    BY <2>1, <2>4, DropType, DeleteType DEF FilesInv
  <2>5. ASSUME NEW w \in Workers, NEW b \in AwardIds, Achieve(w, b) PROVE Kept(a)
    <3>1. CASE a # b
      BY <2>1, <2>5, <3>1, AchieveType DEF FilesInv
    <3>2. CASE a = b
      BY <2>5, <3>2 DEF Achieve
    <3> QED
      BY <3>1, <3>2
  <2>6. ASSUME UNCHANGED awards PROVE Kept(a)
    BY <2>1, <2>6
  <2> HIDE DEF Kept
  <2>7. ASSUME NEW r \in Requests, NEW fs \in SUBSET Files, NEW b \in AwardIds,
               BeginRealize(r, b, fs) \/ BeginDelete(r, b)
        PROVE  Kept(a)
    BY <2>6, <2>7 DEF BeginRealize, BeginDelete, table
  <2>8. ASSUME NEW r \in Requests, NEW f \in Files, PutFile(r, f) \/ PutFails(r, f) PROVE Kept(a)
    BY <2>6, <2>8 DEF PutFile, PutFails, table
  <2>9. ASSUME NEW r \in Requests, NEW k \in Keys, RemoveFile(r, k) \/ RemoveFails(r, k) PROVE Kept(a)
    BY <2>6, <2>9 DEF RemoveFile, RemoveFails, table
  <2>10. ASSUME NEW r \in Requests, Abort(r) PROVE Kept(a)
    BY <2>6, <2>10 DEF Abort, table
  <2>11. CASE ScoreStep
    BY <2>6, <2>11 DEF ScoreStep, Change, Rerate, Enqueue, NeverEnqueued, table
  <2>12. ASSUME NEW w \in Workers, NEW b \in AwardIds,
                Take(w) \/ ReadScore(w) \/ ListAwards(w) \/ Swallow(w) \/ Crash(w) \/ AchieveFails(w, b)
         PROVE  Kept(a)
    BY <2>6, <2>12 DEF Take, ReadScore, ListAwards, Swallow, Crash, AchieveFails, table
  <2> QED
    BY <2>2, <2>3, <2>4, <2>5, <2>7, <2>8, <2>9, <2>10, <2>11, <2>12 DEF Next, ScoreStep
<1>2. FilesInv /\ [Next]_vars
        => [\A a \in Stored :
              awards[a].status = "realized" =>
                 \/ awards'[a].status \in {"realized", "none"}
                 \/ \E w \in Workers : worker[w].pc = "achieve" /\ a \in worker[w].list]_vars
  BY <1>1
<1> QED
  BY <1>2, FilesAlways, PTL DEF Spec, RealizedStays
=============================================================================
