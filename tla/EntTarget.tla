------------------------------ MODULE EntTarget ------------------------------
(*****************************************************************************
What the generated code offers for a target.  The schema (schema/target.go) says
which columns a row has, which may be missing (Optional), which never change
after the row was created (Immutable), which have a default and which have a
limited range of values; TargetMutation collects the calls of a builder;
TargetCreate, TargetUpdate and TargetUpdateOne are the builders: the
methods a chain can use, what check() demands, and the columns sqlSave writes.
A call is a pair <<what, column>>; a Set of "all columns" is {"Set"} \X Columns.
Edges to many rows, which no chain of this program uses, are left out.
*****************************************************************************)

\* The schema: the columns, and what a row may and may not hold.
Columns == {"user_id", "title", "description", "type", "created_at",
            "start_at", "challenge_at", "done_at", "layer", "status",
            "parent_id"}
Optional == {"start_at", "challenge_at", "done_at", "parent_id"}
Immutable == {"created_at"}
Default == {"type", "created_at", "layer", "status"}
Limited == {"title", "description", "status"}
Numbers == {"created_at", "start_at", "challenge_at", "done_at", "layer"}
Lists == {}

\* TargetMutation: the calls each field has.
Owner == {"Set"} \X {"user_id", "title", "description", "type"}
Beginnings ==
         {"Set", "Add"} \X {"created_at", "start_at"}
    \cup {"Clear"} \X {"start_at"}
Endings == {"Set", "Add", "Clear"} \X {"challenge_at", "done_at"}
Place ==
         {"Set"} \X {"layer", "status", "parent_id"}
    \cup {"Add"} \X {"layer"}
    \cup {"Clear"} \X {"parent_id"}
Calls ==
    Owner \cup Beginnings \cup Endings \cup Place
    \cup ({"Reset"} \X Columns)
Edges == [parent |-> "parent_id"]

\* The same calls by the name of the field.
FieldNames == {"user_id", "title", "description", "type", "created_at",
               "start_at", "challenge_at", "done_at", "layer", "status",
               "parent_id"}
SetByName == FieldNames
AddByName == {"created_at", "start_at", "challenge_at", "done_at", "layer"}
\* Mutant: done_at is forgotten.
ClearForgetsDone == {"start_at", "challenge_at", "parent_id"}
ClearByName == {"start_at", "challenge_at", "done_at", "parent_id"}
ResetByName == FieldNames
ClearEdgeByName == {"parent"}

\* TargetCreate.
CreateSetters == {"Set"} \X Columns
CreateDefaults == {"type", "created_at", "layer", "status"}
CreateRequires == {"user_id", "title", "description", "type", "created_at",
                   "layer", "status"}
CreateValidates == {"title", "description", "status"}
CreateSpec == Columns
CreateReturns == Columns

\* TargetUpdate.
UpdateSetters ==
         {"Set"} \X (Columns \ {"created_at"})
    \cup {"Add"} \X {"start_at", "challenge_at", "done_at", "layer"}
    \cup {"Clear"} \X {"start_at", "challenge_at", "done_at", "parent_id"}
    \cup {"ClearEdge"} \X {"parent_id"}
UpdateValidates == {"title", "description", "status"}
UpdateSpec ==
         {"Set"} \X (Columns \ {"created_at"})
    \cup {"Add"} \X {"start_at", "challenge_at", "done_at", "layer"}
    \cup {"Clear"} \X {"start_at", "challenge_at", "done_at", "parent_id"}

\* TargetUpdateOne.
UpdateOneSetters == UpdateSetters
UpdateOneValidates == {"title", "description", "status"}
UpdateOneSpec == UpdateSpec

\* Target: the columns a row is read into.
Loads == Columns

\* All of it, for the machine that runs the builders.
Entity ==
    [columns |-> Columns, optional |-> Optional, immutable |-> Immutable,
     default |-> Default, limited |-> Limited, numbers |-> Numbers, lists |-> Lists,
     calls |-> Calls, edges |-> Edges,
     byName |-> ({"Set"} \X SetByName) \cup ({"Add"} \X AddByName)
                \cup ({"Clear"} \X ClearByName) \cup ({"Reset"} \X ResetByName)
                \cup {<<"ClearEdge", Edges[e]>> : e \in ClearEdgeByName},
     setters |-> [create |-> CreateSetters, update |-> UpdateSetters,
                  updateOne |-> UpdateOneSetters],
     requires |-> CreateRequires, defaults |-> CreateDefaults,
     validates |-> [create |-> CreateValidates, update |-> UpdateValidates,
                    updateOne |-> UpdateOneValidates],
     spec |-> [create |-> {"Set"} \X CreateSpec, update |-> UpdateSpec,
               updateOne |-> UpdateOneSpec],
     returns |-> CreateReturns, loads |-> Loads]
==============================================================================
