------------------------------- MODULE EntStep -------------------------------
(*****************************************************************************
What the generated code offers for a step.  The schema (schema/step.go) says
which columns a row has, which may be missing (Optional), which never change
after the row was created (Immutable), which have a default and which have a
limited range of values; StepMutation collects the calls of a builder;
StepCreate, StepUpdate and StepUpdateOne are the builders: the
methods a chain can use, what check() demands, and the columns sqlSave writes.
A call is a pair <<what, column>>; a Set of "all columns" is {"Set"} \X Columns.
Edges to many rows, which no chain of this program uses, are left out.
*****************************************************************************)

\* The schema: the columns, and what a row may and may not hold.
Columns == {"title", "description", "is_challenge", "teacher_comment",
            "parent_comment", "friend_comment", "type", "object_name",
            "created_at", "ref_target_id", "parent_id"}
Optional == {"title", "description", "teacher_comment", "parent_comment",
             "friend_comment", "object_name", "ref_target_id", "parent_id"}
Immutable == {"created_at"}
Default == {"is_challenge", "created_at"}
Limited == {"title", "description", "type"}
Numbers == {"created_at"}
Lists == {}

\* StepMutation: the calls each field has.
Naming ==
         {"Set"} \X {"title", "description", "is_challenge"}
    \cup {"Clear"} \X {"title", "description"}
Comments == {"Set", "Clear"} \X {"teacher_comment", "parent_comment",
                                 "friend_comment"}
Media ==
         {"Set"} \X {"type", "object_name", "created_at"}
    \cup {"Add"} \X {"created_at"}
    \cup {"Clear"} \X {"object_name"}
Links == {"Set", "Clear"} \X {"ref_target_id", "parent_id"}
Calls ==
    Naming \cup Comments \cup Media \cup Links
    \cup ({"Reset"} \X Columns)
Edges == [target |-> "ref_target_id", parent |-> "parent_id"]

\* The same calls by the name of the field.
FieldNames == {"title", "description", "is_challenge", "teacher_comment",
               "parent_comment", "friend_comment", "type", "object_name",
               "created_at", "ref_target_id", "parent_id"}
SetByName == FieldNames
AddByName == {"created_at"}
ClearByName == {"title", "description", "teacher_comment", "parent_comment",
                "friend_comment", "object_name", "ref_target_id", "parent_id"}
ResetByName == FieldNames
ClearEdgeByName == {"target", "parent"}

\* StepCreate.
CreateSetters == {"Set"} \X Columns
CreateDefaults == {"is_challenge", "created_at"}
\* Mutant: a step has to have a title.
CreateRequiresTitle == {"title", "is_challenge", "type", "created_at"}
CreateRequires == {"is_challenge", "type", "created_at"}
CreateValidates == {"title", "description", "type"}
CreateSpec == Columns
CreateReturns == Columns

\* StepUpdate.
UpdateSetters ==
         {"Set"} \X (Columns \ {"created_at"})
    \cup {"Clear"} \X {"title", "description", "teacher_comment",
                       "parent_comment", "friend_comment", "object_name",
                       "ref_target_id", "parent_id"}
    \cup {"ClearEdge"} \X {"ref_target_id", "parent_id"}
\* Mutant: an update may store any type.
UpdateForgetsType == {"title", "description"}
UpdateValidates == {"title", "description", "type"}
UpdateSpec ==
         {"Set"} \X (Columns \ {"created_at"})
    \cup {"Clear"} \X {"title", "description", "teacher_comment",
                       "parent_comment", "friend_comment", "object_name",
                       "ref_target_id", "parent_id"}

\* StepUpdateOne.
UpdateOneSetters == UpdateSetters
UpdateOneValidates == {"title", "description", "type"}
UpdateOneSpec == UpdateSpec

\* Step: the columns a row is read into.
Loads == Columns

\* All of it, for the machine that runs the builders.
Entity ==
    [columns |-> Columns, optional |-> Optional, immutable |-> Immutable,
     default |-> Default, limited |-> Limited, numbers |-> Numbers, lists |-> Lists,
     calls |-> Calls, edges |-> Edges,
     byName |-> ({"Set"} \X SetByName) \cup ({"Add"} \X AddByName)
                \cup ({"Clear"} \X ClearByName) \cup ({"Reset"} \X ResetByName)
                \cup {<<"ClearEdge", Edges[e]>> : e \in ClearEdgeByName},
     setters |-> [create |-> CreateSetters, update |-> UpdateSetters,
                  updateOne |-> UpdateOneSetters],
     requires |-> CreateRequires, defaults |-> CreateDefaults,
     validates |-> [create |-> CreateValidates, update |-> UpdateValidates,
                    updateOne |-> UpdateOneValidates],
     spec |-> [create |-> {"Set"} \X CreateSpec, update |-> UpdateSpec,
               updateOne |-> UpdateOneSpec],
     returns |-> CreateReturns, loads |-> Loads]
==============================================================================
