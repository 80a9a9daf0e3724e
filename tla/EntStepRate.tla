----------------------------- MODULE EntStepRate -----------------------------
(*****************************************************************************
What the generated code offers for the rating of a step.  The schema (schema/steprate.go) says
which columns a row has, which may be missing (Optional), which never change
after the row was created (Immutable), which have a default and which have a
limited range of values; StepRateMutation collects the calls of a builder;
StepRateCreate, StepRateUpdate and StepRateUpdateOne are the builders: the
methods a chain can use, what check() demands, and the columns sqlSave writes.
A call is a pair <<what, column>>; a Set of "all columns" is {"Set"} \X Columns.
Edges to many rows, which no chain of this program uses, are left out.
*****************************************************************************)

\* The schema: the columns, and what a row may and may not hold.
Columns == {"user_id", "top_target_id", "target_id", "step_id",
            "weighted_value", "target_reasonableness", "target_clarity",
            "target_achievement", "reflection_improvement", "innovation",
            "basic_reliability", "skill_improvement", "difficulty", "date"}
Optional == {}
Immutable == {}
Default == {}
Limited == {}
Numbers == Columns \ {"user_id", "date"}
Lists == {}

\* StepRateMutation: the calls each field has.
Owner ==
         {"Set"} \X {"user_id", "top_target_id"}
    \cup {"Add"} \X {"top_target_id"}
Subject == {"Set", "Add"} \X {"target_id", "step_id"}
Aims == {"Set", "Add"} \X {"weighted_value", "target_reasonableness"}
Clarity == {"Set", "Add"} \X {"target_clarity", "target_achievement"}
Progress == {"Set", "Add"} \X {"reflection_improvement", "innovation"}
Skills == {"Set", "Add"} \X {"basic_reliability", "skill_improvement"}
Effort ==
         {"Set"} \X {"difficulty", "date"}
    \cup {"Add"} \X {"difficulty"}
Calls ==
    Owner \cup Subject \cup Aims \cup Clarity \cup Progress \cup Skills \cup Effort
    \cup ({"Reset"} \X Columns)

\* The same calls by the name of the field.
FieldNames == {"user_id", "top_target_id", "target_id", "step_id",
               "weighted_value", "target_reasonableness", "target_clarity",
               "target_achievement", "reflection_improvement", "innovation",
               "basic_reliability", "skill_improvement", "difficulty", "date"}
SetByName == FieldNames
AddByName == Columns \ {"user_id", "date"}
ClearByName == {}
ResetByName == FieldNames

\* StepRateCreate.
CreateSetters == {"Set"} \X Columns
CreateDefaults == {}
CreateRequires == {"user_id", "top_target_id", "target_id", "step_id",
                   "weighted_value", "target_reasonableness",
                   "target_clarity", "target_achievement",
                   "reflection_improvement", "innovation",
                   "basic_reliability", "skill_improvement", "difficulty",
                   "date"}
CreateValidates == {}
CreateSpec == Columns
CreateReturns == Columns

\* StepRateUpdate.
UpdateSetters ==
         {"Set"} \X Columns
    \cup {"Add"} \X (Columns \ {"user_id", "date"})
UpdateValidates == {}
UpdateSpec ==
         {"Set"} \X Columns
    \cup {"Add"} \X (Columns \ {"user_id", "date"})

\* StepRateUpdateOne.
UpdateOneSetters == UpdateSetters
UpdateOneValidates == {}
UpdateOneSpec == UpdateSpec

\* StepRate: the columns a row is read into.
Loads == Columns

\* All of it, for the machine that runs the builders.
Entity ==
    [columns |-> Columns, optional |-> Optional, immutable |-> Immutable,
     default |-> Default, limited |-> Limited, numbers |-> Numbers, lists |-> Lists,
     calls |-> Calls, edges |-> <<>>,
     byName |-> ({"Set"} \X SetByName) \cup ({"Add"} \X AddByName)
                \cup ({"Clear"} \X ClearByName) \cup ({"Reset"} \X ResetByName),
     setters |-> [create |-> CreateSetters, update |-> UpdateSetters,
                  updateOne |-> UpdateOneSetters],
     requires |-> CreateRequires, defaults |-> CreateDefaults,
     validates |-> [create |-> CreateValidates, update |-> UpdateValidates,
                    updateOne |-> UpdateOneValidates],
     spec |-> [create |-> {"Set"} \X CreateSpec, update |-> UpdateSpec,
               updateOne |-> UpdateOneSpec],
     returns |-> CreateReturns, loads |-> Loads]
==============================================================================
