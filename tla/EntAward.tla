------------------------------ MODULE EntAward -------------------------------
(*****************************************************************************
What the generated code offers for an award.  The schema (schema/award.go) says
which columns a row has, which may be missing (Optional), which never change
after the row was created (Immutable), which have a default and which have a
limited range of values; AwardMutation collects the calls of a builder;
AwardCreate, AwardUpdate and AwardUpdateOne are the builders: the
methods a chain can use, what check() demands, and the columns sqlSave writes.
A call is a pair <<what, column>>; a Set of "all columns" is {"Set"} \X Columns.
Edges to many rows, which no chain of this program uses, are left out.
*****************************************************************************)

\* The schema: the columns, and what a row may and may not hold.
Columns == {"user_id", "status", "description", "setted_files",
            "realized_files", "target_type", "scope", "dimension",
            "threshold", "setted_at", "achieved_at", "realized_at"}
Optional == {"setted_files", "realized_files", "achieved_at", "realized_at"}
Immutable == {"setted_at"}
Default == {"status", "setted_at"}
Limited == {"status", "target_type"}
Numbers == {"threshold", "setted_at", "achieved_at", "realized_at"}
Lists == {"setted_files", "realized_files"}

\* AwardMutation: the calls each field has.
Owner == {"Set"} \X {"user_id", "status", "description"}
Files == {"Set", "Append", "Clear"} \X {"setted_files", "realized_files"}
Criterion == {"Set"} \X {"target_type", "scope", "dimension"}
Threshold == {"Set", "Add"} \X {"threshold", "setted_at"}
Moments == {"Set", "Add", "Clear"} \X {"achieved_at", "realized_at"}
Calls ==
    Owner \cup Files \cup Criterion \cup Threshold \cup Moments
    \cup ({"Reset"} \X Columns)

\* The same calls by the name of the field.
FieldNames == {"user_id", "status", "description", "setted_files",
               "realized_files", "target_type", "scope", "dimension",
               "threshold", "setted_at", "achieved_at", "realized_at"}
SetByName == FieldNames
AddByName == {"threshold", "setted_at", "achieved_at", "realized_at"}
ClearByName == {"setted_files", "realized_files", "achieved_at",
                "realized_at"}
ResetByName == FieldNames

\* AwardCreate.
CreateSetters == {"Set"} \X Columns
CreateDefaults == {"status", "setted_at"}
CreateRequires == {"user_id", "status", "description", "target_type", "scope",
                   "dimension", "threshold", "setted_at"}
CreateValidates == {"status", "target_type"}
CreateSpec == Columns
CreateReturns == Columns

\* AwardUpdate.
UpdateSetters ==
         {"Set"} \X (Columns \ {"setted_at"})
    \cup {"Add"} \X {"threshold", "achieved_at", "realized_at"}
    \cup {"Append"} \X {"setted_files", "realized_files"}
    \cup {"Clear"} \X {"setted_files", "realized_files", "achieved_at",
                       "realized_at"}
UpdateValidates == {"status", "target_type"}
UpdateSpec ==
         {"Set"} \X (Columns \ {"setted_at"})
    \cup {"Add"} \X {"threshold", "achieved_at", "realized_at"}
    \cup {"Append"} \X {"setted_files", "realized_files"}
    \cup {"Clear"} \X {"setted_files", "realized_files", "achieved_at",
                       "realized_at"}

\* AwardUpdateOne.
UpdateOneSetters == UpdateSetters
UpdateOneValidates == {"status", "target_type"}
UpdateOneSpec == UpdateSpec

\* Award: the columns a row is read into.
Loads == Columns

\* All of it, for the machine that runs the builders.
Entity ==
    [columns |-> Columns, optional |-> Optional, immutable |-> Immutable,
     default |-> Default, limited |-> Limited, numbers |-> Numbers, lists |-> Lists,
     calls |-> Calls, edges |-> <<>>,
     byName |-> ({"Set"} \X SetByName) \cup ({"Add"} \X AddByName)
                \cup ({"Clear"} \X ClearByName) \cup ({"Reset"} \X ResetByName),
     setters |-> [create |-> CreateSetters, update |-> UpdateSetters,
                  updateOne |-> UpdateOneSetters],
     requires |-> CreateRequires, defaults |-> CreateDefaults,
     validates |-> [create |-> CreateValidates, update |-> UpdateValidates,
                    updateOne |-> UpdateOneValidates],
     spec |-> [create |-> {"Set"} \X CreateSpec, update |-> UpdateSpec,
               updateOne |-> UpdateOneSpec],
     returns |-> CreateReturns, loads |-> Loads]
==============================================================================
