----------------------------- MODULE EntBuilders -----------------------------
(*****************************************************************************
The generated database layer (internal/data/ent) under the chains the program
is made of: a builder is begun (Create, Update, UpdateOne), collects calls in a
mutation, and Save runs check() and one statement.  Builders run concurrently;
a row may be changed or deleted between the first call and Save.

The tables of an entity come from its own module; what the entity has to do is
what the hand-written schema (ent/schema) says.  A behaviour is about one
entity and two columns of it, `focus`; the caller has given every
other column of a row it creates.  A limited column takes Good values and the
Bad one, any other column Good ones.
*****************************************************************************)
EXTENDS Naturals, Sequences, Functions

CONSTANTS
    Rows,        \* the ids of rows
    Builders,    \* the chains under way at once
    MaxCalls,    \* bound: calls of all builders between them
    MaxSize,     \* bound: a number, and the length of a list
    NULL,        \* a column without a value
    Unset,       \* a column a mutation does not set
    Absent,      \* a row that does not exist
    Zero         \* the zero value of a column's Go type

Award       == INSTANCE EntAward
Portrait    == INSTANCE EntPortrait
Show        == INSTANCE EntShow
ShowReserve == INSTANCE EntShowReserve
Step        == INSTANCE EntStep
StepRate    == INSTANCE EntStepRate
Target      == INSTANCE EntTarget

Entities ==
    [award |-> Award!Entity, portrait |-> Portrait!Entity, show |-> Show!Entity,
     show_reserve |-> ShowReserve!Entity, step |-> Step!Entity,
     step_rate |-> StepRate!Entity, target |-> Target!Entity]

\* What a column may hold: a number, or a list of numbers.
Values == Nat \cup Seq(Nat)

\* NULL and Unset are no values of a column, nor each other; no row is Absent.
ASSUME NullAssumption == NULL \notin Values /\ Unset \notin Values \cup {NULL}
ASSUME AbsentAssumption ==
    \A e \in DOMAIN Entities : \A f, g \in Entities[e].columns :
        Absent \notin [{f, g} -> Values \cup {NULL}]

VARIABLES
    entity,    \* whose builders these are
    focus,     \* the columns the calls are about
    rows,      \* id -> the row's columns, or Absent
    builder,   \* chain -> its operation and its mutation
    result     \* how the latest Save, Delete or call by name ended

vars == <<entity, focus, rows, builder, result>>

E == Entities[entity]
Ops == {"create", "update", "updateOne"}
IsLink(f) == f \in {E.edges[e] : e \in DOMAIN E.edges}

Good == 1
Bad == 2
Other == 2     \* a number that is not a default

\* The arguments a call may have: a caller may try a value outside the limits.
Arguments(call, f) ==
    CASE call = "Set" /\ f \in E.lists   -> {<<Good>>}
      [] call = "Set" /\ f \in E.limited -> {Good, Bad}
      [] call = "Set" /\ f \in E.numbers -> {Other}
      [] call = "Append"                 -> {<<Bad>>}
      [] OTHER                           -> {Good}

(*****************************************************************************
The mutation: what each call leaves behind.
*****************************************************************************)

NewMutation ==
    [value    |-> [f \in focus |-> Unset],
     added    |-> [f \in focus |-> 0],
     appended |-> [f \in focus |-> <<>>],
     cleared  |-> {},
     unlinked |-> {}]

\* Mutant: the increment is not taken back.
SetKeepsAdded(m, f, v) == [m EXCEPT !.value[f] = v]

\* SetX does not undo an earlier ClearX: sqlSave writes NULL, then the value.
Set(m, f, v) ==
    [m EXCEPT !.value[f] = v, !.added[f] = 0, !.appended[f] = <<>>]

Add(m, f, d) == [m EXCEPT !.added[f] = @ + d]

Append_(m, f, l) == [m EXCEPT !.appended[f] = @ \o l]

Clear(m, f) ==
    [m EXCEPT !.value[f] = Unset, !.added[f] = 0, !.appended[f] = <<>>,
              !.cleared = @ \cup {f}]

\* ClearTarget and its like leave the id of an earlier SetTargetID in place.
ClearEdge(m, f) ==
    [m EXCEPT !.unlinked = @ \cup {f}, !.cleared = @ \cup {f}]

Reset(m, f) ==
    [m EXCEPT !.value[f] = Unset, !.added[f] = 0, !.appended[f] = <<>>,
              !.cleared = @ \ {f}]

After(m, call, f, v) ==
    CASE call = "Set"       -> Set(m, f, v)
      [] call = "Add"       -> Add(m, f, v)
      [] call = "Append"    -> Append_(m, f, v)
      [] call = "Clear"     -> Clear(m, f)
      [] call = "ClearEdge" -> ClearEdge(m, f)
      [] call = "Reset"     -> Reset(m, f)

(*****************************************************************************
Save: defaults(), check() and the statement.
*****************************************************************************)

IsSet(m, f) == m.value[f] # Unset

\* defaults(), of a create only.
Defaulted(m) ==
    [m EXCEPT !.value = [f \in focus |->
        IF m.value[f] = Unset /\ f \in E.defaults THEN Good ELSE m.value[f]]]

\* check(): of a create also that what is required is there.
Check(op, m) ==
    /\ \A f \in focus \cap E.validates[op] : m.value[f] # Bad
    /\ op = "create" => \A f \in focus \cap E.requires : IsSet(m, f)

\* createSpec(): only what is set is part of the INSERT.
Inserted(m) ==
    [f \in focus |->
        IF IsSet(m, f) /\ <<"Set", f>> \in E.spec.create THEN m.value[f] ELSE NULL]

Plus(v, d) == (IF v = NULL THEN 0 ELSE v) + d
Longer(v, l) == (IF v = NULL THEN <<>> ELSE v) \o l

\* The assignments sqlSave makes to a column, in the order the UPDATE has them:
\* NULL, the value, the increment, the appended elements.
Updated(old, op, m, f) ==
    LET Writes(call) == <<call, f>> \in E.spec[op]
        cleared == IF f \in m.cleared \cup m.unlinked /\ Writes("Clear") THEN NULL ELSE old
        set     == IF IsSet(m, f) /\ Writes("Set") THEN m.value[f] ELSE cleared
        added   == IF m.added[f] # 0 /\ Writes("Add") THEN Plus(set, m.added[f]) ELSE set
    IN IF m.appended[f] # <<>> /\ Writes("Append")
       THEN Longer(added, m.appended[f]) ELSE added

\* The row as an entity: a column without a value reads as the zero value.
Loaded(row) ==
    [f \in focus |-> IF f \in E.loads /\ row[f] # NULL THEN row[f] ELSE Zero]

\* The entity Save returns: a create fills it from the mutation, an UpdateOne
\* reads the row again in the statement's transaction.
Returned(op, m, row) ==
    IF op = "create"
    THEN [f \in focus |->
            IF f \in E.returns /\ IsSet(m, f) THEN m.value[f] ELSE Zero]
    ELSE Loaded(row)

(*****************************************************************************
The machine.
*****************************************************************************)

Idle == [op |-> "idle", id |-> Absent, mutation |-> Unset, calls |-> <<>>]
Quiet == [how |-> "none", about |-> <<>>]
Ends(how) == [how |-> how, about |-> <<>>]

CallsMade == FoldFunction(LAMBDA b, n : Len(b.calls) + n, 0, builder)

\* Bound: every column is looked at together with one required column.
Partner == CHOOSE g \in E.columns \ (E.optional \cup E.immutable) : TRUE

Init ==
    /\ entity \in DOMAIN Entities
    /\ focus \in {{f, Partner} : f \in E.columns}
    /\ rows = [r \in Rows |-> Absent]
    /\ builder = [b \in Builders |-> Idle]
    /\ result = Quiet

\* client.Create(), Update().Where(id) and UpdateOneID(id).
Begin(b, op, r) ==
    /\ builder[b] = Idle
    /\ builder' = [builder EXCEPT ![b] =
           [op |-> op, id |-> r, mutation |-> NewMutation, calls |-> <<>>]]
    /\ result' = Quiet
    /\ UNCHANGED <<entity, focus, rows>>

Record(b, call, f, v) ==
    /\ builder' = [builder EXCEPT
           ![b].mutation = After(@, call, f, v),
           ![b].calls = Append(@, [call |-> call, field |-> f, arg |-> v])]
    /\ result' = Quiet
    /\ UNCHANGED <<entity, focus, rows>>

\* Bound: a chain appends to a list or sets and clears it, never both.
MixesAppend(b, call, f) ==
    \E i \in DOMAIN builder[b].calls :
        LET c == builder[b].calls[i]
        IN c.field = f /\ (c.call = "Append") # (call = "Append")

\* A method of the builder: SetTitle, AddThreshold, ClearParent...
Call(b, call, f, v) ==
    /\ builder[b] # Idle
    /\ CallsMade < MaxCalls
    /\ <<call, f>> \in E.setters[builder[b].op]
    /\ ~MixesAppend(b, call, f)
    /\ Record(b, call, f, v)

\* The mutation's SetField, AddField, ClearField, ResetField and ClearEdge, as a
\* hook would use them.  An increment of a row to be created is not meant.
CallByName(b, call, f, v) ==
    /\ builder[b] # Idle
    /\ CallsMade < MaxCalls
    /\ call = "Add" => builder[b].op # "create"
    /\ IF <<call, f>> \in E.byName
       THEN ~MixesAppend(b, call, f) /\ Record(b, call, f, v)
       ELSE /\ result' = [how |-> "unknown", about |-> <<call, f>>]
            /\ UNCHANGED <<entity, focus, rows, builder>>

End(b, how) ==
    /\ builder' = [builder EXCEPT ![b] = Idle]
    /\ result' = Ends(how)
    /\ UNCHANGED <<entity, focus>>

\* The database refuses a row that lacks a value the schema asks for.  The limits
\* of varchar(50) and ENUM columns, which it has as well, are left to check() alone.
Complete(row) == \A f \in focus \ E.optional : row[f] # NULL

Small(row) ==
    \A f \in focus : /\ f \in E.numbers /\ row[f] # NULL => row[f] <= MaxSize
                     /\ f \in E.lists /\ row[f] # NULL => Len(row[f]) <= MaxSize

Write(b, r, row) ==
    IF Complete(row)
    THEN /\ Small(row)
         /\ rows' = [rows EXCEPT ![r] = row]
         /\ End(b, "saved")
    ELSE UNCHANGED rows /\ End(b, "null")

SaveCreate(b) ==
    /\ builder[b].op = "create"
    /\ LET m == Defaulted(builder[b].mutation) IN
       IF Check("create", m)
       THEN \E r \in Rows : rows[r] = Absent /\ Write(b, r, Inserted(m))
       ELSE UNCHANGED rows /\ End(b, "invalid")

Save(b, op, missing) ==
    /\ builder[b].op = op
    /\ LET m == builder[b].mutation
           r == builder[b].id
       IN IF ~Check(op, m)
          THEN UNCHANGED rows /\ End(b, "invalid")
          ELSE IF rows[r] = Absent
               THEN UNCHANGED rows /\ End(b, missing)
               ELSE Write(b, r, [f \in focus |-> Updated(rows[r][f], op, m, f)])

\* An Update of no row reports that it changed none, an UpdateOne that the row
\* is not found.
SaveUpdate(b) == Save(b, "update", "unmatched")
SaveUpdateOne(b) == Save(b, "updateOne", "not_found")

\* DeleteOneID(id).Exec().
DeleteOne(r) ==
    /\ rows' = [rows EXCEPT ![r] = Absent]
    /\ result' = Ends(IF rows[r] = Absent THEN "not_found" ELSE "deleted")
    /\ UNCHANGED <<entity, focus, builder>>

Next ==
    \/ \E b \in Builders :
        \/ \E op \in Ops, r \in Rows : Begin(b, op, r)
        \/ \E call \in {"Set", "Add", "Append", "Clear", "ClearEdge"}, f \in focus :
              \E v \in Arguments(call, f) : Call(b, call, f, v)
        \/ \E call \in {"Set", "Add", "Clear", "ClearEdge", "Reset"}, f \in focus :
              \E v \in Arguments(call, f) : CallByName(b, call, f, v)
        \/ SaveCreate(b)
        \/ SaveUpdate(b)
        \/ SaveUpdateOne(b)
    \/ \E r \in Rows : DeleteOne(r)

Spec == Init /\ [][Next]_vars

(*****************************************************************************
What the layer promises.
*****************************************************************************)
\* check() of each of the three builders enforces the schema: no statement is sent
\* that the database refuses for a column without a value, and no chain of calls
\* leaves a row with a value outside its column's limits, even where no limit of
\* the database's own would stop it.
CheckEnforcesTheSchema ==
    /\ result.how # "null"
    /\ \A r \in Rows : rows[r] # Absent =>
          \A f \in focus \cap E.limited : rows[r][f] # Bad

\* The methods of a mutation that go by a column's name know every column the
\* typed methods know: a name is refused only for a call no typed method makes.
NamesReachTheirCalls ==
    result.how = "unknown" =>
        /\ result.about \notin E.calls
        /\ ~(result.about[1] = "ClearEdge" /\ IsLink(result.about[2]))

\* What a chain's calls on a column mean, one after the other, for the value the
\* column has when Save runs.  Reset takes back what was said before; clearing an
\* edge counts first, wherever in the chain it is.
Applied(first, v, c) ==
    CASE c.call = "Set"    -> c.arg
      [] c.call = "Add"    -> Plus(v, c.arg)
      [] c.call = "Append" -> Longer(v, c.arg)
      [] c.call = "Clear"  -> NULL
      [] c.call = "Reset"  -> first

Said(first, calls, f) ==
    LET after[n \in 0 .. Len(calls)] ==
            IF n = 0 THEN first
            ELSE IF calls[n].field = f /\ calls[n].call # "ClearEdge"
                 THEN Applied(first, after[n - 1], calls[n])
                 ELSE after[n - 1]
    IN after[Len(calls)]

Unlinks(calls, f) == \E i \in DOMAIN calls : calls[i].call = "ClearEdge" /\ calls[i].field = f

Meant(old, calls, f) == Said(IF Unlinks(calls, f) THEN NULL ELSE old, calls, f)

MeantRow(b, r) ==
    LET calls == builder[b].calls IN
    IF builder[b].op = "create"
    THEN [f \in focus |->
            LET v == Meant(NULL, calls, f)
            IN IF v = NULL /\ f \in E.default THEN Good ELSE v]
    ELSE [f \in focus |->
            IF f \in E.immutable THEN rows[r][f] ELSE Meant(rows[r][f], calls, f)]

SavedBy(b) == builder[b] # Idle /\ builder'[b] = Idle /\ result'.how = "saved"

\* A chain that is saved has exactly the effect of its calls, in their order, on
\* the row as it is when Save runs: what other chains wrote since the first call
\* stays, a column the schema calls immutable keeps the value the row was created
\* with, and no other row changes.
SavesWhatWasCalled ==
    [][\A b \in Builders : SavedBy(b) =>
         \E r \in Rows :
            /\ builder[b].op = "create" => rows[r] = Absent
            /\ builder[b].op # "create" => r = builder[b].id /\ rows[r] # Absent
            /\ rows' = [rows EXCEPT ![r] = MeantRow(b, r)]]_vars

\* check() refuses a chain only for a value outside the limits, or, of a create,
\* for a column without a value the schema asks for.
RefusedForCause ==
    [][\A b \in Builders :
         builder[b] # Idle /\ builder'[b] = Idle /\ result'.how = "invalid" =>
            \/ \E f \in focus \cap E.limited :
                  Meant(NULL, builder[b].calls, f) = Bad
            \/ /\ builder[b].op = "create"
               /\ \E f \in focus \ (E.optional \cup E.default) :
                     Meant(NULL, builder[b].calls, f) = NULL]_vars

\* The entity a Create or an UpdateOne returns is the row it wrote: what the
\* program goes on with is what the next query finds.
ReturnedIsStored ==
    [][\A b \in Builders : SavedBy(b) /\ builder[b].op # "update" =>
          \E r \in Rows :
             /\ builder[b].op = "create" => rows[r] = Absent
             /\ rows'[r] # Absent
             /\ Loaded(rows'[r]) = Returned(builder[b].op,
                   IF builder[b].op = "create" THEN Defaulted(builder[b].mutation)
                   ELSE builder[b].mutation, rows'[r])]_vars
=============================================================================
