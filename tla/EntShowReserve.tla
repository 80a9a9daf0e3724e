--------------------------- MODULE EntShowReserve ----------------------------
(*****************************************************************************
What the generated code offers for a reservation of a show.  The schema (schema/showreserve.go) says
which columns a row has, which may be missing (Optional), which never change
after the row was created (Immutable), which have a default and which have a
limited range of values; ShowReserveMutation collects the calls of a builder;
ShowReserveCreate, ShowReserveUpdate and ShowReserveUpdateOne are the builders: the
methods a chain can use, what check() demands, and the columns sqlSave writes.
A call is a pair <<what, column>>; a Set of "all columns" is {"Set"} \X Columns.
Edges to many rows, which no chain of this program uses, are left out.
*****************************************************************************)

\* The schema: the columns, and what a row may and may not hold.
Columns == {"user_id", "status", "memories", "created_at", "ref_show_id"}
Optional == {"memories", "ref_show_id"}
Immutable == {"created_at"}
Default == {"status", "created_at"}
Limited == {"status"}
Numbers == {"created_at"}
Lists == {"memories"}

\* ShowReserveMutation: the calls each field has.
Owner ==
         {"Set"} \X {"user_id", "status", "memories"}
    \cup {"Append", "Clear"} \X {"memories"}
Links ==
         {"Set"} \X {"created_at", "ref_show_id"}
    \cup {"Add"} \X {"created_at"}
    \cup {"Clear"} \X {"ref_show_id"}
Calls == Owner \cup Links \cup ({"Reset"} \X Columns)
Edges == [show |-> "ref_show_id"]

\* The same calls by the name of the field.
FieldNames == {"user_id", "status", "memories", "created_at", "ref_show_id"}
SetByName == FieldNames
AddByName == {"created_at"}
ClearByName == {"memories", "ref_show_id"}
ResetByName == FieldNames
ClearEdgeByName == {"show"}

\* ShowReserveCreate.
CreateSetters == {"Set"} \X Columns
CreateDefaults == {"status", "created_at"}
CreateRequires == {"user_id", "status", "created_at"}
CreateValidates == {"status"}
CreateSpec == Columns
CreateReturns == Columns

\* ShowReserveUpdate.
UpdateSetters ==
         {"Set"} \X (Columns \ {"created_at"})
    \cup {"Append"} \X {"memories"}
    \cup {"Clear"} \X {"memories", "ref_show_id"}
    \cup {"ClearEdge"} \X {"ref_show_id"}
UpdateValidates == {"status"}
UpdateSpec ==
         {"Set"} \X (Columns \ {"created_at"})
    \cup {"Append"} \X {"memories"}
    \cup {"Clear"} \X {"memories", "ref_show_id"}

\* ShowReserveUpdateOne.
UpdateOneSetters == UpdateSetters
UpdateOneValidates == {"status"}
UpdateOneSpec == UpdateSpec

\* ShowReserve: the columns a row is read into.
Loads == Columns

\* All of it, for the machine that runs the builders.
Entity ==
    [columns |-> Columns, optional |-> Optional, immutable |-> Immutable,
     default |-> Default, limited |-> Limited, numbers |-> Numbers, lists |-> Lists,
     calls |-> Calls, edges |-> Edges,
     byName |-> ({"Set"} \X SetByName) \cup ({"Add"} \X AddByName)
                \cup ({"Clear"} \X ClearByName) \cup ({"Reset"} \X ResetByName)
                \cup {<<"ClearEdge", Edges[e]>> : e \in ClearEdgeByName},
     setters |-> [create |-> CreateSetters, update |-> UpdateSetters,
                  updateOne |-> UpdateOneSetters],
     requires |-> CreateRequires, defaults |-> CreateDefaults,
     validates |-> [create |-> CreateValidates, update |-> UpdateValidates,
                    updateOne |-> UpdateOneValidates],
     spec |-> [create |-> {"Set"} \X CreateSpec, update |-> UpdateSpec,
               updateOne |-> UpdateOneSpec],
     returns |-> CreateReturns, loads |-> Loads]
==============================================================================
