------------------------------- MODULE EntShow -------------------------------
(*****************************************************************************
What the generated code offers for a show.  The schema (schema/show.go) says
which columns a row has, which may be missing (Optional), which never change
after the row was created (Immutable), which have a default and which have a
limited range of values; ShowMutation collects the calls of a builder;
ShowCreate, ShowUpdate and ShowUpdateOne are the builders: the
methods a chain can use, what check() demands, and the columns sqlSave writes.
A call is a pair <<what, column>>; a Set of "all columns" is {"Set"} \X Columns.
Edges to many rows, which no chain of this program uses, are left out.
*****************************************************************************)

\* The schema: the columns, and what a row may and may not hold.
Columns == {"type", "poster", "content", "media_files", "created_at"}
Optional == {"poster", "media_files"}
Immutable == {"created_at"}
Default == {"created_at"}
Limited == {}
Numbers == {"created_at"}
Lists == {"media_files"}

\* ShowMutation: the calls each field has.
Contents ==
         {"Set"} \X {"type", "poster", "content"}
    \cup {"Clear"} \X {"poster"}
Media ==
         {"Set"} \X {"media_files", "created_at"}
    \cup {"Add"} \X {"created_at"}
    \cup {"Append", "Clear"} \X {"media_files"}
Calls == Contents \cup Media \cup ({"Reset"} \X Columns)

\* The same calls by the name of the field.
FieldNames == {"type", "poster", "content", "media_files", "created_at"}
SetByName == FieldNames
AddByName == {"created_at"}
ClearByName == {"poster", "media_files"}
ResetByName == FieldNames

\* ShowCreate.
CreateSetters == {"Set"} \X Columns
CreateDefaults == {"created_at"}
CreateRequires == {"type", "content", "created_at"}
CreateValidates == {}
CreateSpec == Columns
\* Mutant: the poster is not filled in.
ReturnsNoPoster == Columns \ {"poster"}
CreateReturns == Columns

\* ShowUpdate.
UpdateSetters ==
         {"Set"} \X (Columns \ {"created_at"})
    \cup {"Append"} \X {"media_files"}
    \cup {"Clear"} \X {"poster", "media_files"}
UpdateValidates == {}
UpdateSpec ==
         {"Set"} \X (Columns \ {"created_at"})
    \cup {"Append"} \X {"media_files"}
    \cup {"Clear"} \X {"poster", "media_files"}

\* ShowUpdateOne.
UpdateOneSetters == UpdateSetters
UpdateOneValidates == {}
UpdateOneSpec == UpdateSpec

\* Show: the columns a row is read into.
Loads == Columns

\* All of it, for the machine that runs the builders.
Entity ==
    [columns |-> Columns, optional |-> Optional, immutable |-> Immutable,
     default |-> Default, limited |-> Limited, numbers |-> Numbers, lists |-> Lists,
     calls |-> Calls, edges |-> <<>>,
     byName |-> ({"Set"} \X SetByName) \cup ({"Add"} \X AddByName)
                \cup ({"Clear"} \X ClearByName) \cup ({"Reset"} \X ResetByName),
     setters |-> [create |-> CreateSetters, update |-> UpdateSetters,
                  updateOne |-> UpdateOneSetters],
     requires |-> CreateRequires, defaults |-> CreateDefaults,
     validates |-> [create |-> CreateValidates, update |-> UpdateValidates,
                    updateOne |-> UpdateOneValidates],
     spec |-> [create |-> {"Set"} \X CreateSpec, update |-> UpdateSpec,
               updateOne |-> UpdateOneSpec],
     returns |-> CreateReturns, loads |-> Loads]
==============================================================================
