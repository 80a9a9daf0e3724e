----------------------------- MODULE EntPortrait -----------------------------
(*****************************************************************************
What the generated code offers for a portrait.  The schema (schema/portrait.go) says
which columns a row has, which may be missing (Optional), which never change
after the row was created (Immutable), which have a default and which have a
limited range of values; PortraitMutation collects the calls of a builder;
PortraitCreate, PortraitUpdate and PortraitUpdateOne are the builders: the
methods a chain can use, what check() demands, and the columns sqlSave writes.
A call is a pair <<what, column>>; a Set of "all columns" is {"Set"} \X Columns.
Edges to many rows, which no chain of this program uses, are left out.
*****************************************************************************)

\* The schema: the columns, and what a row may and may not hold.
Columns == {"user_id", "dimension", "value"}
Optional == {}
Immutable == {}
Default == {}
Limited == {"dimension"}
Numbers == {}
Lists == {}

\* PortraitMutation: the calls each field has.
Values == {"Set"} \X {"user_id", "dimension", "value"}
Calls == Values \cup ({"Reset"} \X Columns)

\* The same calls by the name of the field.
FieldNames == {"user_id", "dimension", "value"}
SetByName == FieldNames
AddByName == {}
ClearByName == {}
ResetByName == FieldNames

\* PortraitCreate.
CreateSetters == {"Set"} \X Columns
CreateDefaults == {}
CreateRequires == {"user_id", "dimension", "value"}
CreateValidates == {"dimension"}
CreateSpec == Columns
CreateReturns == Columns

\* PortraitUpdate.
UpdateSetters == {"Set"} \X {"user_id", "dimension", "value"}
UpdateValidates == {"dimension"}
UpdateSpec == {"Set"} \X {"user_id", "dimension", "value"}

\* PortraitUpdateOne.
UpdateOneSetters == UpdateSetters
UpdateOneValidates == {"dimension"}
UpdateOneSpec == UpdateSpec

\* Portrait: the columns a row is read into.
Loads == Columns

\* All of it, for the machine that runs the builders.
Entity ==
    [columns |-> Columns, optional |-> Optional, immutable |-> Immutable,
     default |-> Default, limited |-> Limited, numbers |-> Numbers, lists |-> Lists,
     calls |-> Calls, edges |-> <<>>,
     byName |-> ({"Set"} \X SetByName) \cup ({"Add"} \X AddByName)
                \cup ({"Clear"} \X ClearByName) \cup ({"Reset"} \X ResetByName),
     setters |-> [create |-> CreateSetters, update |-> UpdateSetters,
                  updateOne |-> UpdateOneSetters],
     requires |-> CreateRequires, defaults |-> CreateDefaults,
     validates |-> [create |-> CreateValidates, update |-> UpdateValidates,
                    updateOne |-> UpdateOneValidates],
     spec |-> [create |-> {"Set"} \X CreateSpec, update |-> UpdateSpec,
               updateOne |-> UpdateOneSpec],
     returns |-> CreateReturns, loads |-> Loads]
==============================================================================
