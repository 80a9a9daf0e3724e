------------------------------ MODULE EntProofs ------------------------------
(***************************************************************************)
(* What Save writes, refuses and returns, for any number of chains, calls  *)
(* and rows.                                                               *)
(*                                                                         *)
(* The argument has three parts.  The tables of each entity Fit together:  *)
(* what check() demands is what the schema asks for, what can be called is *)
(* written.  EntInv: a mutation under way holds values of its columns, and *)
(* a row in the database one the schema allows.  FaithfulInv: what a       *)
(* mutation makes of a column is what the calls so far mean, one after the *)
(* other, for every value the column may have by the time of Save.         *)
(***************************************************************************)
EXTENDS EntBuilders, Climbs, SequenceTheorems, TLAPS

(***************************************************************************)
(* The tables.                                                             *)
(***************************************************************************)
NamedCalls == {"Set", "Add", "Clear", "ClearEdge", "Reset"}

\* Every call there is can be made by name.
NamesOK(x) ==
    /\ \A call \in NamedCalls : \A f : <<call, f>> \in x.calls => <<call, f>> \in x.byName
    /\ \A e \in DOMAIN x.edges : <<"ClearEdge", x.edges[e]>> \in x.byName

\* check() asks for what the schema asks for, and no update takes it away.
RequiresOK(x) ==
    /\ x.columns \ x.optional \subseteq x.requires
    /\ \A op \in {"update", "updateOne"} : \A f \in x.columns \ x.optional :
          <<"Clear", f>> \notin x.spec[op]

\* What is set is written, returned and read back.
WritesOK(x) ==
    \A f \in x.columns : <<"Set", f>> \in x.spec.create /\ f \in x.returns /\ f \in x.loads

\* The limits are checked wherever a limited column is set, and no other call
\* changes one.
LimitsOK(x) ==
    /\ \A op \in Ops : \A f \in x.limited : f \in x.validates[op]
    /\ \A f \in x.limited : f \notin x.numbers /\ f \notin x.lists
    /\ \A f \in x.numbers : f \notin x.lists

\* A number is added to numbers and elements are appended to lists.
ArgumentsOK(x) ==
    /\ \A op \in Ops : \A f : <<"Add", f>> \in x.setters[op] => f \in x.numbers
    /\ \A op \in Ops : \A f : <<"Append", f>> \in x.setters[op] => f \in x.lists
    /\ \A f : <<"Add", f>> \in x.byName => f \in x.numbers

\* An update writes every call on a column that may change and none on another;
\* only what may be missing is cleared, and a create sets columns and no more.
MeaningOK(x) ==
    /\ \A op \in {"update", "updateOne"} :
          /\ \A call \in {"Set", "Add", "Append", "Clear"} : \A f \in x.immutable :
                <<call, f>> \notin x.spec[op]
          /\ \A f \in x.columns \ x.immutable : <<"Set", f>> \in x.spec[op]
          /\ \A f \in x.numbers \ x.immutable : <<"Add", f>> \in x.spec[op]
          /\ \A f \in x.lists \ x.immutable : <<"Append", f>> \in x.spec[op]
          /\ \A f \in x.optional \ x.immutable : <<"Clear", f>> \in x.spec[op]
    /\ \A op \in Ops : \A call \in {"Clear", "ClearEdge"} : \A f :
          <<call, f>> \in x.setters[op] \cup x.byName => f \in x.optional
    /\ \A f : <<"Add", f>> \notin x.setters.create /\ <<"Append", f>> \notin x.setters.create
    /\ \A op \in Ops : x.validates[op] \subseteq x.limited

\* defaults() gives a value to the columns the schema gives one, and check() asks
\* for no column that may be missing.
DefaultsOK(x) ==
    /\ \A f \in x.defaults : f \notin x.lists
    /\ \A f \in x.defaults : f \in x.default
    /\ \A f \in x.default : f \in x.defaults
    /\ \A f \in x.requires : f \notin x.optional

\* Init finds a required column.
PartnerOK(x) == \E f \in x.columns : f \notin x.optional \cup x.immutable

Fits(x) == /\ NamesOK(x) /\ RequiresOK(x) /\ WritesOK(x)
           /\ LimitsOK(x) /\ ArgumentsOK(x)
           /\ MeaningOK(x) /\ DefaultsOK(x) /\ PartnerOK(x)

LEMMA AwardFits == Fits(Award!Entity)
<1>1. NamesOK(Award!Entity)
  BY DEF NamesOK, NamedCalls, Award!Entity, Award!Calls, Award!SetByName, Award!AddByName,
         Award!ClearByName, Award!ResetByName, Award!Owner, Award!Files, Award!Criterion,
         Award!Threshold, Award!Moments, Award!Columns, Award!FieldNames
<1>2. RequiresOK(Award!Entity)
  BY DEF RequiresOK, Award!Entity, Award!Columns, Award!Optional, Award!CreateRequires,
         Award!UpdateSpec, Award!UpdateOneSpec
<1>3. WritesOK(Award!Entity)
  BY DEF WritesOK, Award!Entity, Award!Columns, Award!CreateSpec, Award!CreateReturns,
         Award!Loads
<1>4. LimitsOK(Award!Entity)
  BY DEF LimitsOK, Ops, Award!Entity, Award!Limited, Award!Numbers, Award!Lists,
         Award!CreateValidates, Award!UpdateValidates, Award!UpdateOneValidates
<1>5. ArgumentsOK(Award!Entity)
  BY DEF ArgumentsOK, Ops, Award!Entity, Award!Numbers, Award!Lists, Award!CreateSetters,
         Award!UpdateSetters, Award!UpdateOneSetters, Award!SetByName, Award!AddByName,
         Award!ClearByName, Award!ResetByName, Award!Columns, Award!FieldNames
<1>6. DefaultsOK(Award!Entity)
  BY DEF DefaultsOK, Award!Entity, Award!CreateDefaults, Award!Lists, Award!Default,
         Award!Optional, Award!CreateRequires
<1>7. PartnerOK(Award!Entity)
  BY DEF PartnerOK, Award!Entity, Award!Columns, Award!Optional, Award!Immutable
<1>8. MeaningOK(Award!Entity)
  BY DEF MeaningOK, Ops, Award!Entity, Award!Numbers, Award!Lists, Award!CreateSetters,
         Award!UpdateSetters, Award!UpdateOneSetters, Award!SetByName, Award!AddByName,
         Award!ClearByName, Award!ResetByName, Award!Columns, Award!FieldNames,
         Award!Limited, Award!Optional, Award!Immutable, Award!CreateValidates,
         Award!UpdateValidates, Award!UpdateOneValidates, Award!CreateSpec,
         Award!UpdateSpec, Award!UpdateOneSpec
<1> QED
  BY <1>1, <1>2, <1>3, <1>4, <1>5, <1>6, <1>7, <1>8 DEF Fits

LEMMA PortraitFits == Fits(Portrait!Entity)
<1>1. NamesOK(Portrait!Entity)
  BY DEF NamesOK, NamedCalls, Portrait!Entity, Portrait!Calls, Portrait!SetByName,
         Portrait!AddByName, Portrait!ClearByName, Portrait!ResetByName, Portrait!Values,
         Portrait!Columns, Portrait!FieldNames
<1>2. RequiresOK(Portrait!Entity)
  BY DEF RequiresOK, Portrait!Entity, Portrait!Columns, Portrait!Optional,
         Portrait!CreateRequires, Portrait!UpdateSpec, Portrait!UpdateOneSpec
<1>3. WritesOK(Portrait!Entity)
  BY DEF WritesOK, Portrait!Entity, Portrait!Columns, Portrait!CreateSpec,
         Portrait!CreateReturns, Portrait!Loads
<1>4. LimitsOK(Portrait!Entity)
  BY DEF LimitsOK, Ops, Portrait!Entity, Portrait!Limited, Portrait!Numbers,
         Portrait!Lists, Portrait!CreateValidates, Portrait!UpdateValidates,
         Portrait!UpdateOneValidates
<1>5. ArgumentsOK(Portrait!Entity)
  BY DEF ArgumentsOK, Ops, Portrait!Entity, Portrait!Numbers, Portrait!Lists,
         Portrait!CreateSetters, Portrait!UpdateSetters, Portrait!UpdateOneSetters,
         Portrait!SetByName, Portrait!AddByName, Portrait!ClearByName,
         Portrait!ResetByName, Portrait!Columns, Portrait!FieldNames
<1>6. DefaultsOK(Portrait!Entity)
  BY DEF DefaultsOK, Portrait!Entity, Portrait!CreateDefaults, Portrait!Lists,
         Portrait!Default, Portrait!Optional, Portrait!CreateRequires
<1>7. PartnerOK(Portrait!Entity)
  BY DEF PartnerOK, Portrait!Entity, Portrait!Columns, Portrait!Optional,
         Portrait!Immutable
<1>8. MeaningOK(Portrait!Entity)
  BY DEF MeaningOK, Ops, Portrait!Entity, Portrait!Numbers, Portrait!Lists,
         Portrait!CreateSetters, Portrait!UpdateSetters, Portrait!UpdateOneSetters,
         Portrait!SetByName, Portrait!AddByName, Portrait!ClearByName,
         Portrait!ResetByName, Portrait!Columns, Portrait!FieldNames, Portrait!Limited,
         Portrait!Optional, Portrait!Immutable, Portrait!CreateValidates,
         Portrait!UpdateValidates, Portrait!UpdateOneValidates, Portrait!CreateSpec,
         Portrait!UpdateSpec, Portrait!UpdateOneSpec
<1> QED
  BY <1>1, <1>2, <1>3, <1>4, <1>5, <1>6, <1>7, <1>8 DEF Fits

LEMMA ShowFits == Fits(Show!Entity)
<1>1. NamesOK(Show!Entity)
  BY DEF NamesOK, NamedCalls, Show!Entity, Show!Calls, Show!SetByName, Show!AddByName,
         Show!ClearByName, Show!ResetByName, Show!Contents, Show!Media, Show!Columns,
         Show!FieldNames
<1>2. RequiresOK(Show!Entity)
  BY DEF RequiresOK, Show!Entity, Show!Columns, Show!Optional, Show!CreateRequires,
         Show!UpdateSpec, Show!UpdateOneSpec
<1>3. WritesOK(Show!Entity)
  BY DEF WritesOK, Show!Entity, Show!Columns, Show!CreateSpec, Show!CreateReturns,
         Show!Loads
<1>4. LimitsOK(Show!Entity)
  BY DEF LimitsOK, Ops, Show!Entity, Show!Limited, Show!Numbers, Show!Lists,
         Show!CreateValidates, Show!UpdateValidates, Show!UpdateOneValidates
<1>5. ArgumentsOK(Show!Entity)
  BY DEF ArgumentsOK, Ops, Show!Entity, Show!Numbers, Show!Lists, Show!CreateSetters,
         Show!UpdateSetters, Show!UpdateOneSetters, Show!SetByName, Show!AddByName,
         Show!ClearByName, Show!ResetByName, Show!Columns, Show!FieldNames
<1>6. DefaultsOK(Show!Entity)
  BY DEF DefaultsOK, Show!Entity, Show!CreateDefaults, Show!Lists, Show!Default,
         Show!Optional, Show!CreateRequires
<1>7. PartnerOK(Show!Entity)
  BY DEF PartnerOK, Show!Entity, Show!Columns, Show!Optional, Show!Immutable
<1>8. MeaningOK(Show!Entity)
  BY DEF MeaningOK, Ops, Show!Entity, Show!Numbers, Show!Lists, Show!CreateSetters,
         Show!UpdateSetters, Show!UpdateOneSetters, Show!SetByName, Show!AddByName,
         Show!ClearByName, Show!ResetByName, Show!Columns, Show!FieldNames, Show!Limited,
         Show!Optional, Show!Immutable, Show!CreateValidates, Show!UpdateValidates,
         Show!UpdateOneValidates, Show!CreateSpec, Show!UpdateSpec, Show!UpdateOneSpec
<1> QED
  BY <1>1, <1>2, <1>3, <1>4, <1>5, <1>6, <1>7, <1>8 DEF Fits

LEMMA ShowReserveFits == Fits(ShowReserve!Entity)
<1>1. NamesOK(ShowReserve!Entity)
  BY DEF NamesOK, NamedCalls, ShowReserve!Entity, ShowReserve!Calls, ShowReserve!SetByName,
         ShowReserve!AddByName, ShowReserve!ClearByName, ShowReserve!ResetByName,
         ShowReserve!ClearEdgeByName, ShowReserve!Edges, ShowReserve!Owner,
         ShowReserve!Links, ShowReserve!Columns, ShowReserve!FieldNames
<1>2. RequiresOK(ShowReserve!Entity)
  BY DEF RequiresOK, ShowReserve!Entity, ShowReserve!Columns, ShowReserve!Optional,
         ShowReserve!CreateRequires, ShowReserve!UpdateSpec, ShowReserve!UpdateOneSpec
<1>3. WritesOK(ShowReserve!Entity)
  BY DEF WritesOK, ShowReserve!Entity, ShowReserve!Columns, ShowReserve!CreateSpec,
         ShowReserve!CreateReturns, ShowReserve!Loads
<1>4. LimitsOK(ShowReserve!Entity)
  BY DEF LimitsOK, Ops, ShowReserve!Entity, ShowReserve!Limited, ShowReserve!Numbers,
         ShowReserve!Lists, ShowReserve!CreateValidates, ShowReserve!UpdateValidates,
         ShowReserve!UpdateOneValidates
<1>5. ArgumentsOK(ShowReserve!Entity)
  BY DEF ArgumentsOK, Ops, ShowReserve!Entity, ShowReserve!Numbers, ShowReserve!Lists,
         ShowReserve!CreateSetters, ShowReserve!UpdateSetters,
         ShowReserve!UpdateOneSetters, ShowReserve!SetByName, ShowReserve!AddByName,
         ShowReserve!ClearByName, ShowReserve!ResetByName, ShowReserve!ClearEdgeByName,
         ShowReserve!Edges, ShowReserve!Columns, ShowReserve!FieldNames
<1>6. DefaultsOK(ShowReserve!Entity)
  BY DEF DefaultsOK, ShowReserve!Entity, ShowReserve!CreateDefaults, ShowReserve!Lists,
         ShowReserve!Default, ShowReserve!Optional, ShowReserve!CreateRequires
<1>7. PartnerOK(ShowReserve!Entity)
  BY DEF PartnerOK, ShowReserve!Entity, ShowReserve!Columns, ShowReserve!Optional,
         ShowReserve!Immutable
<1>8. MeaningOK(ShowReserve!Entity)
  BY DEF MeaningOK, Ops, ShowReserve!Entity, ShowReserve!Numbers, ShowReserve!Lists,
         ShowReserve!CreateSetters, ShowReserve!UpdateSetters,
         ShowReserve!UpdateOneSetters, ShowReserve!SetByName, ShowReserve!AddByName,
         ShowReserve!ClearByName, ShowReserve!ResetByName, ShowReserve!ClearEdgeByName,
         ShowReserve!Edges, ShowReserve!Columns, ShowReserve!FieldNames,
         ShowReserve!Limited, ShowReserve!Optional, ShowReserve!Immutable,
         ShowReserve!CreateValidates, ShowReserve!UpdateValidates,
         ShowReserve!UpdateOneValidates, ShowReserve!CreateSpec, ShowReserve!UpdateSpec,
         ShowReserve!UpdateOneSpec
<1> QED
  BY <1>1, <1>2, <1>3, <1>4, <1>5, <1>6, <1>7, <1>8 DEF Fits

LEMMA StepFits == Fits(Step!Entity)
<1>1. NamesOK(Step!Entity)
  BY DEF NamesOK, NamedCalls, Step!Entity, Step!Calls, Step!SetByName, Step!AddByName,
         Step!ClearByName, Step!ResetByName, Step!ClearEdgeByName, Step!Edges, Step!Naming,
         Step!Comments, Step!Media, Step!Links, Step!Columns, Step!FieldNames
<1>2. RequiresOK(Step!Entity)
  BY DEF RequiresOK, Step!Entity, Step!Columns, Step!Optional, Step!CreateRequires,
         Step!UpdateSpec, Step!UpdateOneSpec
<1>3. WritesOK(Step!Entity)
  BY DEF WritesOK, Step!Entity, Step!Columns, Step!CreateSpec, Step!CreateReturns,
         Step!Loads
<1>4. LimitsOK(Step!Entity)
  BY DEF LimitsOK, Ops, Step!Entity, Step!Limited, Step!Numbers, Step!Lists,
         Step!CreateValidates, Step!UpdateValidates, Step!UpdateOneValidates
<1>5. ArgumentsOK(Step!Entity)
  BY DEF ArgumentsOK, Ops, Step!Entity, Step!Numbers, Step!Lists, Step!CreateSetters,
         Step!UpdateSetters, Step!UpdateOneSetters, Step!SetByName, Step!AddByName,
         Step!ClearByName, Step!ResetByName, Step!ClearEdgeByName, Step!Edges,
         Step!Columns, Step!FieldNames
<1>6. DefaultsOK(Step!Entity)
  BY DEF DefaultsOK, Step!Entity, Step!CreateDefaults, Step!Lists, Step!Default,
         Step!Optional, Step!CreateRequires
<1>7. PartnerOK(Step!Entity)
  BY DEF PartnerOK, Step!Entity, Step!Columns, Step!Optional, Step!Immutable
<1>8. MeaningOK(Step!Entity)
  BY DEF MeaningOK, Ops, Step!Entity, Step!Numbers, Step!Lists, Step!CreateSetters,
         Step!UpdateSetters, Step!UpdateOneSetters, Step!SetByName, Step!AddByName,
         Step!ClearByName, Step!ResetByName, Step!ClearEdgeByName, Step!Edges,
         Step!Columns, Step!FieldNames, Step!Limited, Step!Optional, Step!Immutable,
         Step!CreateValidates, Step!UpdateValidates, Step!UpdateOneValidates,
         Step!CreateSpec, Step!UpdateSpec, Step!UpdateOneSpec, Step!Naming
<1> QED
  BY <1>1, <1>2, <1>3, <1>4, <1>5, <1>6, <1>7, <1>8 DEF Fits

LEMMA StepRateFits == Fits(StepRate!Entity)
<1>1. NamesOK(StepRate!Entity)
  BY DEF NamesOK, NamedCalls, StepRate!Entity, StepRate!Calls, StepRate!SetByName,
         StepRate!AddByName, StepRate!ClearByName, StepRate!ResetByName, StepRate!Owner,
         StepRate!Subject, StepRate!Aims, StepRate!Clarity, StepRate!Progress,
         StepRate!Skills, StepRate!Effort, StepRate!Columns, StepRate!FieldNames
<1>2. RequiresOK(StepRate!Entity)
  BY DEF RequiresOK, StepRate!Entity, StepRate!Columns, StepRate!Optional,
         StepRate!CreateRequires, StepRate!UpdateSpec, StepRate!UpdateOneSpec
<1>3. WritesOK(StepRate!Entity)
  BY DEF WritesOK, StepRate!Entity, StepRate!Columns, StepRate!CreateSpec,
         StepRate!CreateReturns, StepRate!Loads
<1>4. LimitsOK(StepRate!Entity)
  BY DEF LimitsOK, Ops, StepRate!Entity, StepRate!Limited, StepRate!Numbers,
         StepRate!Lists, StepRate!CreateValidates, StepRate!UpdateValidates,
         StepRate!UpdateOneValidates, StepRate!Columns
<1>5. ArgumentsOK(StepRate!Entity)
  BY DEF ArgumentsOK, Ops, StepRate!Entity, StepRate!Numbers, StepRate!Lists,
         StepRate!CreateSetters, StepRate!UpdateSetters, StepRate!UpdateOneSetters,
         StepRate!SetByName, StepRate!AddByName, StepRate!ClearByName,
         StepRate!ResetByName, StepRate!Columns, StepRate!FieldNames
<1>6. DefaultsOK(StepRate!Entity)
  BY DEF DefaultsOK, StepRate!Entity, StepRate!CreateDefaults, StepRate!Lists,
         StepRate!Default, StepRate!Optional, StepRate!CreateRequires
<1>7. PartnerOK(StepRate!Entity)
  BY DEF PartnerOK, StepRate!Entity, StepRate!Columns, StepRate!Optional,
         StepRate!Immutable
<1>8. MeaningOK(StepRate!Entity)
  BY DEF MeaningOK, Ops, StepRate!Entity, StepRate!Numbers, StepRate!Lists,
         StepRate!CreateSetters, StepRate!UpdateSetters, StepRate!UpdateOneSetters,
         StepRate!SetByName, StepRate!AddByName, StepRate!ClearByName,
         StepRate!ResetByName, StepRate!Columns, StepRate!FieldNames, StepRate!Limited,
         StepRate!Optional, StepRate!Immutable, StepRate!CreateValidates,
         StepRate!UpdateValidates, StepRate!UpdateOneValidates, StepRate!CreateSpec,
         StepRate!UpdateSpec, StepRate!UpdateOneSpec
<1> QED
  BY <1>1, <1>2, <1>3, <1>4, <1>5, <1>6, <1>7, <1>8 DEF Fits

LEMMA TargetFits == Fits(Target!Entity)
<1>1. NamesOK(Target!Entity)
  BY DEF NamesOK, NamedCalls, Target!Entity, Target!Calls, Target!SetByName,
         Target!AddByName, Target!ClearByName, Target!ResetByName, Target!ClearEdgeByName,
         Target!Edges, Target!Owner, Target!Beginnings, Target!Endings, Target!Place,
         Target!Columns, Target!FieldNames
<1>2. RequiresOK(Target!Entity)
  BY DEF RequiresOK, Target!Entity, Target!Columns, Target!Optional, Target!CreateRequires,
         Target!UpdateSpec, Target!UpdateOneSpec
<1>3. WritesOK(Target!Entity)
  BY DEF WritesOK, Target!Entity, Target!Columns, Target!CreateSpec, Target!CreateReturns,
         Target!Loads
<1>4. LimitsOK(Target!Entity)
  BY DEF LimitsOK, Ops, Target!Entity, Target!Limited, Target!Numbers, Target!Lists,
         Target!CreateValidates, Target!UpdateValidates, Target!UpdateOneValidates
<1>5. ArgumentsOK(Target!Entity)
  BY DEF ArgumentsOK, Ops, Target!Entity, Target!Numbers, Target!Lists,
         Target!CreateSetters, Target!UpdateSetters, Target!UpdateOneSetters,
         Target!SetByName, Target!AddByName, Target!ClearByName, Target!ResetByName,
         Target!ClearEdgeByName, Target!Edges, Target!Columns, Target!FieldNames
<1>6. DefaultsOK(Target!Entity)
  BY DEF DefaultsOK, Target!Entity, Target!CreateDefaults, Target!Lists, Target!Default,
         Target!Optional, Target!CreateRequires
<1>7. PartnerOK(Target!Entity)
  BY DEF PartnerOK, Target!Entity, Target!Columns, Target!Optional, Target!Immutable
<1>8. MeaningOK(Target!Entity)
  BY DEF MeaningOK, Ops, Target!Entity, Target!Numbers, Target!Lists, Target!CreateSetters,
         Target!UpdateSetters, Target!UpdateOneSetters, Target!SetByName, Target!AddByName,
         Target!ClearByName, Target!ResetByName, Target!ClearEdgeByName, Target!Edges,
         Target!Columns, Target!FieldNames, Target!Limited, Target!Optional,
         Target!Immutable, Target!CreateValidates, Target!UpdateValidates,
         Target!UpdateOneValidates, Target!CreateSpec, Target!UpdateSpec,
         Target!UpdateOneSpec
<1> QED
  BY <1>1, <1>2, <1>3, <1>4, <1>5, <1>6, <1>7, <1>8 DEF Fits

LEMMA EntitiesFit == \A e \in DOMAIN Entities : Fits(Entities[e])
BY AwardFits, PortraitFits, ShowFits, ShowReserveFits, StepFits, StepRateFits, TargetFits
   DEF Entities

-----------------------------------------------------------------------------
(***************************************************************************)
(* The inductive invariant, for a table x and the columns F.               *)
(***************************************************************************)
NumberLists == Seq(Nat)
ValuesOf(x, f) == IF f \in x.lists THEN NumberLists ELSE Nat

\* A value that the schema allows in a column.
ColumnOK(x, f, v) ==
    /\ v \in ValuesOf(x, f) \cup {NULL}
    /\ f \notin x.optional => v # NULL
    /\ f \in x.limited => v # Bad

RowOK(x, F, row) ==
    /\ row \in [F -> Values \cup {NULL}]
    /\ \A f \in F : ColumnOK(x, f, row[f])

AMutation(F) == [value    : [F -> Values \cup {Unset}],
                 added    : [F -> Nat],
                 appended : [F -> NumberLists],
                 cleared  : SUBSET F,
                 unlinked : SUBSET F]

\* What the calls on column f have left in a mutation.
CallsOK(x, f, m) ==
    /\ m.value[f] \in ValuesOf(x, f) \cup {Unset}
    /\ m.added[f] # 0 => f \in x.numbers
    /\ m.appended[f] # <<>> => f \in x.lists

MutationOK(x, F, m) == m \in AMutation(F) /\ \A f \in F : CallsOK(x, f, m)

Chain(op, r, m, c) == [op |-> op, id |-> r, mutation |-> m, calls |-> c]

ChainOK(x, F, b) ==
    b # Idle => \E op \in Ops, r \in Rows : \E m, c :
                     b = Chain(op, r, m, c) /\ MutationOK(x, F, m)

FocusInv == entity \in DOMAIN Entities /\ \E f, g \in E.columns : focus = {f, g}

RowsInv == /\ rows \in [Rows -> {Absent} \cup [focus -> Values \cup {NULL}]]
           /\ \A r \in Rows : rows[r] # Absent => RowOK(E, focus, rows[r])

ChainsInv == /\ DOMAIN builder = Builders
             /\ builder = [b \in Builders |-> builder[b]]
             /\ \A b \in Builders : ChainOK(E, focus, builder[b])

ResultInv == result.how # "null" /\ NamesReachTheirCalls

EntInv == FocusInv /\ RowsInv /\ ChainsInv /\ ResultInv

LEMMA FocusIs ==
    ASSUME FocusInv
    PROVE  Fits(E) /\ focus \subseteq E.columns
BY EntitiesFit DEF FocusInv, E

(***************************************************************************)
(* The calls.                                                              *)
(***************************************************************************)
LEMMA ListsAre ==
    /\ <<>> \in NumberLists /\ <<Good>> \in NumberLists /\ <<Bad>> \in NumberLists
    /\ \A s, t \in NumberLists : s \o t \in NumberLists
    /\ Good \in Nat /\ Bad \in Nat /\ Other \in Nat /\ Good # Bad
    /\ Values = Nat \cup NumberLists
BY DEF NumberLists, Good, Bad, Other, Values

LEMMA ArgumentIs ==
    ASSUME FocusInv, NEW call, NEW f \in focus, NEW v \in Arguments(call, f)
    PROVE  /\ call = "Set" => v \in ValuesOf(E, f)
           /\ call = "Add" => v \in Nat
           /\ call = "Append" => v \in NumberLists
<1>1. call = "Append" => v = <<Bad>>
  BY DEF Arguments
<1>2. call = "Add" => v = Good
  BY DEF Arguments
<1>3. call = "Set" /\ f \in E.lists => v = <<Good>>
  BY FocusIs DEF Arguments, Fits, LimitsOK
<1>4. call = "Set" /\ f \notin E.lists => v \in {Good, Bad, Other}
  BY DEF Arguments
<1> QED
  BY <1>1, <1>2, <1>3, <1>4, ListsAre DEF ValuesOf

LEMMA NewMutationOK == MutationOK(E, focus, NewMutation)
BY ListsAre DEF MutationOK, AMutation, CallsOK, NewMutation

CallNames == {"Set", "Add", "Append", "Clear", "ClearEdge", "Reset"}

LEMMA AfterOK ==
    ASSUME NEW m, MutationOK(E, focus, m), NEW call \in CallNames, NEW f \in focus, NEW v,
           call = "Set" => v \in ValuesOf(E, f),
           call = "Add" => v \in Nat /\ f \in E.numbers,
           call = "Append" => v \in NumberLists /\ f \in E.lists
    PROVE  MutationOK(E, focus, After(m, call, f, v))
<1> DEFINE n == After(m, call, f, v)
<1>1. m \in AMutation(focus) /\ \A g \in focus : CallsOK(E, g, m)
  BY DEF MutationOK
<1>2. /\ m.value \in [focus -> Values \cup {Unset}] /\ m.added \in [focus -> Nat]
      /\ m.appended \in [focus -> NumberLists]
      /\ m.cleared \in SUBSET focus /\ m.unlinked \in SUBSET focus
  BY <1>1 DEF AMutation
<1>3. \A w \in ValuesOf(E, f) : w \in Values
  BY ListsAre DEF ValuesOf
<1>4. CASE call = "Set"
  <2>1. n = [m EXCEPT !.value[f] = v, !.added[f] = 0, !.appended[f] = <<>>]
    BY <1>4 DEF After, Set
  <2> HIDE DEF n
  <2>2. n \in AMutation(focus)
    BY <1>1, <1>2, <1>3, <1>4, <2>1, ListsAre DEF AMutation
  <2>3. \A g \in focus : CallsOK(E, g, n)
    BY <1>1, <1>2, <1>4, <2>1 DEF CallsOK, AMutation
  <2> QED
    BY <2>2, <2>3 DEF MutationOK, n
<1>5. CASE call = "Add"
  <2>1. n = [m EXCEPT !.added[f] = m.added[f] + v]
    BY <1>5 DEF After, Add
  <2> HIDE DEF n
  <2>2. n \in AMutation(focus)
    BY <1>1, <1>2, <1>5, <2>1 DEF AMutation
  <2>3. \A g \in focus : CallsOK(E, g, n)
    BY <1>1, <1>2, <1>5, <2>1 DEF CallsOK, AMutation
  <2> QED
    BY <2>2, <2>3 DEF MutationOK, n
<1>6. CASE call = "Append"
  <2>1. n = [m EXCEPT !.appended[f] = m.appended[f] \o v]
    BY <1>6 DEF After, Append_
  <2> HIDE DEF n
  <2>2. m.appended[f] \o v \in NumberLists
    BY <1>2, <1>6, ListsAre
  <2>3. n \in AMutation(focus)
    BY <1>1, <1>2, <2>1, <2>2 DEF AMutation
  <2>4. \A g \in focus : CallsOK(E, g, n)
    BY <1>1, <1>2, <1>6, <2>1 DEF CallsOK, AMutation
  <2> QED
    BY <2>3, <2>4 DEF MutationOK, n
<1>7. CASE call = "Clear"
  <2>1. n = [m EXCEPT !.value[f] = Unset, !.added[f] = 0, !.appended[f] = <<>>,
                      !.cleared = m.cleared \cup {f}]
    BY <1>7 DEF After, Clear
  <2> HIDE DEF n
  <2>2. n \in AMutation(focus)
    BY <1>1, <1>2, <1>3, <2>1, ListsAre DEF AMutation
  <2>3. \A g \in focus : CallsOK(E, g, n)
    BY <1>1, <1>2, <2>1 DEF CallsOK, AMutation
  <2> QED
    BY <2>2, <2>3 DEF MutationOK, n
<1>8. CASE call = "ClearEdge"
  <2>1. n = [m EXCEPT !.unlinked = m.unlinked \cup {f}, !.cleared = m.cleared \cup {f}]
    BY <1>8 DEF After, ClearEdge
  <2> HIDE DEF n
  <2>2. n \in AMutation(focus)
    BY <1>1, <1>2, <2>1 DEF AMutation
  <2>3. \A g \in focus : CallsOK(E, g, n)
    BY <1>1, <1>2, <2>1 DEF CallsOK, AMutation
  <2> QED
    BY <2>2, <2>3 DEF MutationOK, n
<1>9. CASE call = "Reset"
  <2>1. n = [m EXCEPT !.value[f] = Unset, !.added[f] = 0, !.appended[f] = <<>>,
                      !.cleared = m.cleared \ {f}]
    BY <1>9 DEF After, Reset
  <2> HIDE DEF n
  <2>2. n \in AMutation(focus)
    BY <1>1, <1>2, <1>3, <2>1, ListsAre DEF AMutation
  <2>3. \A g \in focus : CallsOK(E, g, n)
    BY <1>1, <1>2, <2>1 DEF CallsOK, AMutation
  <2> QED
    BY <2>2, <2>3 DEF MutationOK, n
<1> QED
  BY <1>4, <1>5, <1>6, <1>7, <1>8, <1>9 DEF CallNames

(***************************************************************************)
(* Save.                                                                   *)
(***************************************************************************)
\* defaults() leaves a mutation as the calls could have left it.
LEMMA DefaultedOK ==
    ASSUME FocusInv, NEW m, MutationOK(E, focus, m)
    PROVE  MutationOK(E, focus, Defaulted(m))
<1> DEFINE value == [f \in focus |->
                       IF m.value[f] = Unset /\ f \in E.defaults THEN Good ELSE m.value[f]]
<1>1. m \in AMutation(focus) /\ \A g \in focus : CallsOK(E, g, m)
  BY DEF MutationOK
<1>2. \A f \in focus : value[f] \in ValuesOf(E, f) \cup {Unset}
  BY <1>1, FocusIs, ListsAre DEF CallsOK, ValuesOf, Fits, DefaultsOK
<1>3. value \in [focus -> Values \cup {Unset}]
  BY <1>2, ListsAre DEF ValuesOf
<1>4. Defaulted(m) = [m EXCEPT !.value = value]
  BY DEF Defaulted
<1> HIDE DEF value
<1>5. Defaulted(m) \in AMutation(focus)
  BY <1>1, <1>3, <1>4 DEF AMutation
<1>6. /\ Defaulted(m).value = value /\ Defaulted(m).added = m.added
      /\ Defaulted(m).appended = m.appended
  BY <1>1, <1>4 DEF AMutation
<1>7. \A g \in focus : CallsOK(E, g, Defaulted(m))
  BY <1>1, <1>2, <1>6 DEF CallsOK
<1> QED
  BY <1>5, <1>7 DEF MutationOK

\* The row a create inserts.
LEMMA InsertedOK ==
    ASSUME FocusInv, NEW m, MutationOK(E, focus, m), Check("create", m)
    PROVE  RowOK(E, focus, Inserted(m))
<1>1. Fits(E) /\ focus \subseteq E.columns /\ \A g \in focus : CallsOK(E, g, m)
  BY FocusIs DEF MutationOK
<1>2. ASSUME NEW f \in focus PROVE ColumnOK(E, f, Inserted(m)[f]) /\ Inserted(m)[f] \in Values \cup {NULL}
  <2>1. Inserted(m)[f] = IF IsSet(m, f) THEN m.value[f] ELSE NULL
    BY <1>1 DEF Inserted, Fits, WritesOK
  <2>2. m.value[f] \in ValuesOf(E, f) \cup {Unset} /\ NULL \notin ValuesOf(E, f)
    BY <1>1, NullAssumption, ListsAre DEF CallsOK, ValuesOf
  <2>3. f \notin E.optional => IsSet(m, f)
    BY <1>1 DEF Fits, RequiresOK, Check
  <2>4. f \in E.limited => m.value[f] # Bad
    BY <1>1 DEF Fits, LimitsOK, Check, Ops
  <2>5. NULL # Bad
    BY NullAssumption, ListsAre
  <2> QED
    BY <2>1, <2>2, <2>3, <2>4, <2>5, ListsAre DEF ColumnOK, IsSet, ValuesOf
<1>3. Inserted(m) \in [focus -> Values \cup {NULL}]
  BY <1>2 DEF Inserted
<1> QED
  BY <1>2, <1>3 DEF RowOK

\* A column of the row an update leaves.
LEMMA UpdatedOK ==
    ASSUME FocusInv, NEW m, MutationOK(E, focus, m), NEW op \in {"update", "updateOne"},
           Check(op, m), NEW f \in focus, NEW old, ColumnOK(E, f, old)
    PROVE  ColumnOK(E, f, Updated(old, op, m, f)) /\ Updated(old, op, m, f) \in Values \cup {NULL}
<1> DEFINE Writes(call) == <<call, f>> \in E.spec[op]
           cleared == IF f \in m.cleared \cup m.unlinked /\ Writes("Clear") THEN NULL ELSE old
           set     == IF IsSet(m, f) /\ Writes("Set") THEN m.value[f] ELSE cleared
           added   == IF m.added[f] # 0 /\ Writes("Add") THEN Plus(set, m.added[f]) ELSE set
           longer  == IF m.appended[f] # <<>> /\ Writes("Append")
                      THEN Longer(added, m.appended[f]) ELSE added
<1>1. Fits(E) /\ f \in E.columns /\ CallsOK(E, f, m) /\ m \in AMutation(focus)
  BY FocusIs DEF MutationOK
<1>2. /\ f \in E.limited => f \notin E.numbers /\ f \notin E.lists
      /\ f \in E.numbers => f \notin E.lists
  BY <1>1 DEF Fits, LimitsOK
<1>3. NULL \notin ValuesOf(E, f) /\ NULL # Bad
  BY NullAssumption, ListsAre DEF ValuesOf
<1>4. ColumnOK(E, f, cleared)
  <2>1. f \notin E.optional => ~Writes("Clear")
    BY <1>1 DEF Fits, RequiresOK
  <2> QED
    BY <1>3, <2>1 DEF ColumnOK
<1>5. ColumnOK(E, f, set)
  <2>1. IsSet(m, f) => m.value[f] \in ValuesOf(E, f)
    BY <1>1 DEF CallsOK, IsSet
  <2>2. f \in E.limited => m.value[f] # Bad
    BY <1>1 DEF Fits, LimitsOK, Check, Ops
  <2> HIDE DEF cleared
  <2> QED
    BY <1>3, <1>4, <2>1, <2>2 DEF ColumnOK
<1> HIDE DEF cleared, set
<1>6. ColumnOK(E, f, added)
  <2> SUFFICES ASSUME m.added[f] # 0 PROVE ColumnOK(E, f, Plus(set, m.added[f]))
    BY <1>5
  <2>1. f \in E.numbers /\ m.added[f] \in Nat
    BY <1>1 DEF CallsOK, AMutation
  <2>2. f \notin E.lists /\ f \notin E.limited
    BY <1>2, <2>1
  <2>3. set \in Nat \cup {NULL}
    BY <1>5, <2>2, ListsAre DEF ColumnOK, ValuesOf
  <2>4. Plus(set, m.added[f]) \in Nat
    BY <2>1, <2>3 DEF Plus
  <2> QED
    BY <1>3, <2>2, <2>4, ListsAre DEF ColumnOK, ValuesOf
<1> HIDE DEF added
<1>7. ColumnOK(E, f, longer)
  <2> SUFFICES ASSUME m.appended[f] # <<>> PROVE ColumnOK(E, f, Longer(added, m.appended[f]))
    BY <1>6
  <2>1. f \in E.lists /\ m.appended[f] \in NumberLists
    BY <1>1 DEF CallsOK, AMutation
  <2>2. f \notin E.limited
    BY <1>2, <2>1
  <2>3. added \in NumberLists \cup {NULL}
    BY <1>6, <2>1 DEF ColumnOK, ValuesOf
  <2>4. Longer(added, m.appended[f]) \in NumberLists
    BY <2>1, <2>3, ListsAre DEF Longer
  <2> QED
    BY <1>3, <2>1, <2>2, <2>4 DEF ColumnOK, ValuesOf
<1>8. Updated(old, op, m, f) = longer
  BY DEF Updated, longer, added, set, cleared
<1> HIDE DEF longer
<1> QED
  BY <1>7, <1>8, ListsAre DEF ColumnOK, ValuesOf

(***************************************************************************)
(* The invariant is kept: builders first, then rows.                       *)
(***************************************************************************)
LEMMA ChainIs ==
    ASSUME NEW op \in Ops, NEW r \in Rows, NEW m, NEW c, MutationOK(E, focus, m)
    PROVE  Chain(op, r, m, c) # Idle /\ ChainOK(E, focus, Chain(op, r, m, c))
BY DEF Chain, Idle, ChainOK, Ops

\* A call leaves the operation and the id of its chain alone.
LEMMA ChainGoesOn ==
    ASSUME NEW x, NEW n, NEW d, x = Chain(x.op, x.id, x.mutation, x.calls)
    PROVE  [x EXCEPT !.mutation = n, !.calls = d] = Chain(x.op, x.id, n, d)
<1> DEFINE op == x.op
           r == x.id
           m == x.mutation
           c == x.calls
           y == [x EXCEPT !.mutation = n, !.calls = d]
<1>1. x \in [op : {op}, id : {r}, mutation : {m, n}, calls : {c, d}]
  BY DEF Chain
<1> HIDE DEF op, r, m, c
<1>2. y \in [op : {op}, id : {r}, mutation : {m, n}, calls : {c, d}]
  BY <1>1
<1>3. y.op = op /\ y.id = r /\ y.mutation = n /\ y.calls = d
  BY <1>1 DEF op, r, m, c
<1> HIDE DEF y
<1>4. y = [op |-> y.op, id |-> y.id, mutation |-> y.mutation, calls |-> y.calls]
  BY <1>2
<1> QED
  BY <1>3, <1>4 DEF y, op, r, Chain

LEMMA IdleIs == ChainOK(E, focus, Idle)
BY DEF ChainOK

LEMMA Same ==
    ASSUME FocusInv, UNCHANGED <<entity, focus>>
    PROVE  E' = E /\ FocusInv'
BY DEF FocusInv, E

\* One builder goes on.
LEMMA ChainsKeep ==
    ASSUME FocusInv, ChainsInv, NEW b \in Builders, NEW q, ChainOK(E, focus, q),
           builder' = [builder EXCEPT ![b] = q], UNCHANGED <<entity, focus>>
    PROVE  /\ ChainsInv' /\ builder'[b] = q
           /\ \A x \in Builders \ {b} : builder'[x] = builder[x]
<1>1. /\ builder = [x \in Builders |-> builder[x]]
      /\ \A x \in Builders : ChainOK(E, focus, builder[x])
  BY DEF ChainsInv
<1>2. /\ builder' = [x \in Builders |-> builder'[x]] /\ builder'[b] = q
      /\ DOMAIN builder' = Builders
      /\ \A x \in Builders \ {b} : builder'[x] = builder[x]
  BY <1>1
<1>3. \A x \in Builders : ChainOK(E, focus, builder'[x])
  BY <1>1, <1>2
<1>4. E' = E /\ focus' = focus
  BY Same
<1> QED
  BY <1>2, <1>3, <1>4 DEF ChainsInv

LEMMA RowsSame ==
    ASSUME FocusInv, RowsInv, UNCHANGED <<entity, focus, rows>>
    PROVE  RowsInv'
<1>1. E' = E /\ focus' = focus /\ rows' = rows
  BY Same
<1> QED
  BY <1>1 DEF RowsInv

LEMMA RowsKeep ==
    ASSUME FocusInv, RowsInv, NEW r \in Rows, NEW row, row = Absent \/ RowOK(E, focus, row),
           rows' = [rows EXCEPT ![r] = row], UNCHANGED <<entity, focus>>
    PROVE  RowsInv'
<1>1. E' = E /\ focus' = focus
  BY Same
<1>2. row \in {Absent} \cup [focus -> Values \cup {NULL}]
  BY DEF RowOK
<1>3. rows' \in [Rows -> {Absent} \cup [focus -> Values \cup {NULL}]]
  BY <1>2 DEF RowsInv
<1>4. rows'[r] = row /\ \A x \in Rows \ {r} : rows'[x] = rows[x]
  BY DEF RowsInv
<1>5. \A x \in Rows : rows'[x] # Absent => RowOK(E, focus, rows'[x])
  BY <1>4 DEF RowsInv
<1> QED
  BY <1>1, <1>3, <1>5 DEF RowsInv

\* Any ending but "null" and "unknown" is fine.
LEMMA ResultEnds ==
    ASSUME NEW how, how \notin {"null", "unknown"}, result' = Ends(how)
    PROVE  ResultInv'
BY DEF ResultInv, NamesReachTheirCalls, Ends

LEMMA ResultQuiet ==
    ASSUME result' = Quiet
    PROVE  ResultInv'
BY DEF ResultInv, NamesReachTheirCalls, Quiet

LEMMA EndsWell ==
    ASSUME EntInv, NEW b \in Builders, NEW how, how \notin {"null", "unknown"}, End(b, how)
    PROVE  FocusInv' /\ ChainsInv' /\ ResultInv'
BY IdleIs, ChainsKeep, Same, ResultEnds DEF EntInv, End

\* The row a Save has put together is complete, so it is written.
LEMMA WriteIs ==
    ASSUME EntInv, NEW b \in Builders, NEW r \in Rows, NEW row, RowOK(E, focus, row),
           Write(b, r, row)
    PROVE  /\ rows' = [rows EXCEPT ![r] = row] /\ End(b, "saved")
           /\ EntInv'
<1>1. Complete(row)
  BY DEF Complete, RowOK, ColumnOK
<1>2. rows' = [rows EXCEPT ![r] = row] /\ End(b, "saved")
  BY <1>1 DEF Write
<1>3. UNCHANGED <<entity, focus>>
  BY <1>2 DEF End
<1>4. RowsInv'
  BY <1>2, <1>3, RowsKeep DEF EntInv
<1>5. FocusInv' /\ ChainsInv' /\ ResultInv'
  BY <1>2, EndsWell
<1> QED
  BY <1>2, <1>4, <1>5 DEF EntInv

LEMMA SavesNothing ==
    ASSUME EntInv, NEW b \in Builders, NEW how, how \notin {"null", "unknown"},
           UNCHANGED rows, End(b, how)
    PROVE  EntInv'
<1>1. UNCHANGED <<entity, focus>>
  BY DEF End
<1> QED
  BY <1>1, EndsWell, RowsSame DEF EntInv

\* Whether a builder can save depends on its operation.
LEMMA WorkingIs ==
    ASSUME EntInv, NEW b \in Builders, builder[b] # Idle
    PROVE  /\ builder[b].op \in Ops /\ builder[b].id \in Rows
           /\ MutationOK(E, focus, builder[b].mutation)
           /\ builder[b] = Chain(builder[b].op, builder[b].id, builder[b].mutation, builder[b].calls)
<1>1. PICK op \in Ops, r \in Rows : \E m, c :
         builder[b] = Chain(op, r, m, c) /\ MutationOK(E, focus, m)
  BY DEF EntInv, ChainsInv, ChainOK
<1> QED
  BY <1>1 DEF Chain

LEMMA IdleOp == Idle.op = "idle"
BY DEF Idle

(***************************************************************************)
(* One lemma for each action.                                              *)
(***************************************************************************)
LEMMA BeginKeeps ==
    ASSUME EntInv, NEW b \in Builders, NEW op \in Ops, NEW r \in Rows, Begin(b, op, r)
    PROVE  EntInv' /\ result' = Quiet
<1> DEFINE q == Chain(op, r, NewMutation, <<>>)
<1>1. /\ builder' = [builder EXCEPT ![b] = q] /\ result' = Quiet
      /\ UNCHANGED <<entity, focus, rows>>
  BY DEF Begin, Chain
<1>2. ChainOK(E, focus, q)
  BY NewMutationOK, ChainIs
<1> HIDE DEF q
<1>3. FocusInv' /\ RowsInv' /\ ChainsInv' /\ ResultInv'
  BY <1>1, <1>2, Same, RowsSame, ChainsKeep, ResultQuiet DEF EntInv
<1> QED
  BY <1>1, <1>3 DEF EntInv

LEMMA RecordIs ==
    ASSUME EntInv, NEW b \in Builders, builder[b] # Idle, NEW call, NEW f, NEW v,
           Record(b, call, f, v)
    PROVE  /\ builder' = [builder EXCEPT ![b] =
                 Chain(builder[b].op, builder[b].id, After(builder[b].mutation, call, f, v),
                       Append(builder[b].calls, [call |-> call, field |-> f, arg |-> v]))]
           /\ result' = Quiet /\ UNCHANGED <<entity, focus, rows>>
<1> DEFINE x == builder[b]
           m == After(x.mutation, call, f, v)
           c == Append(x.calls, [call |-> call, field |-> f, arg |-> v])
<1>1. x = Chain(x.op, x.id, x.mutation, x.calls)
  BY WorkingIs
<1>2. builder' = [builder EXCEPT ![b].mutation = m, ![b].calls = c]
  BY DEF Record
<1> HIDE DEF m, c
<1>3. builder' = [builder EXCEPT ![b] = [x EXCEPT !.mutation = m, !.calls = c]]
  BY <1>2
<1> HIDE DEF x
<1>4. [x EXCEPT !.mutation = m, !.calls = c] = Chain(x.op, x.id, m, c)
  BY <1>1, ChainGoesOn
<1> QED
  BY <1>3, <1>4 DEF Record, x, m, c

LEMMA RecordKeeps ==
    ASSUME EntInv, NEW b \in Builders, builder[b] # Idle,
           NEW call \in CallNames, NEW f \in focus, NEW v \in Arguments(call, f),
           call = "Add" => f \in E.numbers, call = "Append" => f \in E.lists,
           Record(b, call, f, v)
    PROVE  EntInv' /\ result' = Quiet
<1> DEFINE m == After(builder[b].mutation, call, f, v)
           c == Append(builder[b].calls, [call |-> call, field |-> f, arg |-> v])
           q == Chain(builder[b].op, builder[b].id, m, c)
<1>1. /\ builder[b].op \in Ops /\ builder[b].id \in Rows
      /\ MutationOK(E, focus, builder[b].mutation)
  BY WorkingIs
<1>2. MutationOK(E, focus, m)
  BY <1>1, AfterOK, ArgumentIs DEF EntInv
<1>3. builder' = [builder EXCEPT ![b] = q] /\ result' = Quiet /\ UNCHANGED <<entity, focus, rows>>
  BY RecordIs
<1> HIDE DEF m, c
<1>4. ChainOK(E, focus, q)
  BY <1>1, <1>2, ChainIs
<1> HIDE DEF q
<1>5. FocusInv' /\ RowsInv' /\ ChainsInv' /\ ResultInv'
  BY <1>3, <1>4, Same, RowsSame, ChainsKeep, ResultQuiet DEF EntInv
<1> QED
  BY <1>3, <1>5 DEF EntInv

LEMMA CallKeeps ==
    ASSUME EntInv, NEW b \in Builders, NEW call \in {"Set", "Add", "Append", "Clear", "ClearEdge"},
           NEW f \in focus, NEW v \in Arguments(call, f), Call(b, call, f, v)
    PROVE  EntInv' /\ result' = Quiet
<1>1. builder[b] # Idle /\ <<call, f>> \in E.setters[builder[b].op] /\ Record(b, call, f, v)
  BY DEF Call
<1>2. builder[b].op \in Ops /\ Fits(E)
  BY <1>1, WorkingIs, FocusIs DEF EntInv
<1>3. (call = "Add" => f \in E.numbers) /\ (call = "Append" => f \in E.lists)
  BY <1>1, <1>2 DEF Fits, ArgumentsOK
<1> QED
  BY <1>1, <1>3, RecordKeeps DEF CallNames

LEMMA CallByNameKeeps ==
    ASSUME EntInv, NEW b \in Builders, NEW call \in NamedCalls,
           NEW f \in focus, NEW v \in Arguments(call, f), CallByName(b, call, f, v)
    PROVE  EntInv' /\ result'.how \notin {"saved", "invalid"}
<1>1. builder[b] # Idle /\ Fits(E)
  BY FocusIs DEF CallByName, EntInv
<1>2. CASE <<call, f>> \in E.byName
  <2>1. Record(b, call, f, v) /\ (call = "Add" => f \in E.numbers)
    BY <1>1, <1>2 DEF CallByName, Fits, ArgumentsOK
  <2> QED
    BY <1>1, <2>1, RecordKeeps DEF CallNames, NamedCalls, Quiet
<1>3. CASE <<call, f>> \notin E.byName
  <2>1. /\ result' = [how |-> "unknown", about |-> <<call, f>>]
        /\ UNCHANGED <<entity, focus, rows, builder>>
    BY <1>3 DEF CallByName
  <2>2. E' = E /\ FocusInv' /\ RowsInv'
    BY <2>1, Same, RowsSame DEF EntInv
  <2>3. ChainsInv'
    BY <2>1, <2>2 DEF EntInv, ChainsInv
  <2>4. <<call, f>> \notin E.calls
    BY <1>1, <1>3 DEF Fits, NamesOK
  <2>5. ~(call = "ClearEdge" /\ IsLink(f))
    BY <1>1, <1>3 DEF Fits, NamesOK, IsLink
  <2>6. IsLink(f)' <=> IsLink(f)
    BY <2>2 DEF IsLink
  <2>7. NamesReachTheirCalls'
    BY <2>1, <2>2, <2>4, <2>5, <2>6 DEF NamesReachTheirCalls, IsLink
  <2> QED
    BY <2>1, <2>2, <2>3, <2>7 DEF EntInv, ResultInv
<1> QED
  BY <1>2, <1>3

\* What a create that is saved has done.
LEMMA SaveCreateKeeps ==
    ASSUME EntInv, NEW b \in Builders, SaveCreate(b)
    PROVE  /\ EntInv'
           /\ \A x \in Builders \ {b} : builder'[x] = builder[x]
           /\ result'.how = "saved" =>
                 \E r \in Rows :
                    /\ rows[r] = Absent
                    /\ rows' = [rows EXCEPT ![r] = Inserted(Defaulted(builder[b].mutation))]
                    /\ RowOK(E, focus, Inserted(Defaulted(builder[b].mutation)))
                    /\ MutationOK(E, focus, Defaulted(builder[b].mutation))
           /\ result'.how = "invalid" => ~Check("create", Defaulted(builder[b].mutation))
<1> DEFINE m == Defaulted(builder[b].mutation)
<1>1. builder[b] # Idle
  BY IdleOp DEF SaveCreate
<1>2. MutationOK(E, focus, m)
  BY <1>1, WorkingIs, DefaultedOK DEF EntInv
<1>3. Check("create", m) => RowOK(E, focus, Inserted(m))
  BY <1>2, InsertedOK DEF EntInv
<1>4. IF Check("create", m)
      THEN \E r \in Rows : rows[r] = Absent /\ Write(b, r, Inserted(m))
      ELSE UNCHANGED rows /\ End(b, "invalid")
  BY DEF SaveCreate
<1> HIDE DEF m
<1>5. \A how : End(b, how) => \A x \in Builders \ {b} : builder'[x] = builder[x]
  BY DEF End, EntInv, ChainsInv
<1>6. CASE Check("create", m)
  <2>1. PICK r \in Rows : rows[r] = Absent /\ Write(b, r, Inserted(m))
    BY <1>4, <1>6
  <2>2. rows' = [rows EXCEPT ![r] = Inserted(m)] /\ End(b, "saved") /\ EntInv'
    BY <1>3, <1>6, <2>1, WriteIs
  <2> QED
    BY <1>2, <1>3, <1>5, <1>6, <2>1, <2>2 DEF m, End, Ends
<1>7. CASE ~Check("create", m)
  <2>1. End(b, "invalid") /\ EntInv'
    BY <1>4, <1>7, SavesNothing
  <2> QED
    BY <1>5, <1>7, <2>1 DEF m, End, Ends
<1> QED
  BY <1>6, <1>7

LEMMA SaveKeeps ==
    ASSUME EntInv, NEW b \in Builders, NEW op \in {"update", "updateOne"},
           NEW missing \in {"unmatched", "not_found"}, Save(b, op, missing)
    PROVE  /\ EntInv'
           /\ \A x \in Builders \ {b} : builder'[x] = builder[x]
           /\ builder[b].op = op
           /\ result'.how = "saved" =>
                 LET r   == builder[b].id
                     row == [f \in focus |-> Updated(rows[r][f], op, builder[b].mutation, f)]
                 IN /\ r \in Rows /\ rows[r] # Absent /\ RowOK(E, focus, row)
                    /\ rows' = [rows EXCEPT ![r] = row]
           /\ result'.how = "invalid" => ~Check(op, builder[b].mutation)
<1> DEFINE m == builder[b].mutation
           r == builder[b].id
           row == [f \in focus |-> Updated(rows[r][f], op, m, f)]
<1>1. builder[b].op = op /\ builder[b] # Idle
  BY IdleOp DEF Save
<1>2. MutationOK(E, focus, m) /\ r \in Rows
  BY <1>1, WorkingIs
<1>3. IF ~Check(op, m) THEN UNCHANGED rows /\ End(b, "invalid")
      ELSE IF rows[r] = Absent THEN UNCHANGED rows /\ End(b, missing)
      ELSE Write(b, r, row)
  BY DEF Save
<1>4. ASSUME Check(op, m), rows[r] # Absent PROVE RowOK(E, focus, row)
  <2>1. RowOK(E, focus, rows[r])
    BY <1>2, <1>4 DEF EntInv, RowsInv
  <2>2. \A f \in focus : ColumnOK(E, f, row[f]) /\ row[f] \in Values \cup {NULL}
    BY <1>2, <1>4, <2>1, UpdatedOK DEF EntInv, RowOK
  <2> QED
    BY <2>2 DEF RowOK
<1> HIDE DEF row, m, r
<1>5. \A how : End(b, how) => \A x \in Builders \ {b} : builder'[x] = builder[x]
  BY DEF End, EntInv, ChainsInv
<1>6. CASE Check(op, m) /\ rows[r] # Absent
  <2>1. rows' = [rows EXCEPT ![r] = row] /\ End(b, "saved") /\ EntInv'
    BY <1>2, <1>3, <1>4, <1>6, WriteIs
  <2> QED
    BY <1>1, <1>2, <1>4, <1>5, <1>6, <2>1 DEF row, m, r, End, Ends
<1>7. CASE ~(Check(op, m) /\ rows[r] # Absent)
  <2>1. PICK how \in {"invalid", missing} : /\ UNCHANGED rows /\ End(b, how)
                                            /\ how = "invalid" => ~Check(op, m)
    BY <1>3, <1>7
  <2>2. EntInv'
    BY <2>1, SavesNothing
  <2> QED
    BY <1>1, <1>5, <2>1, <2>2 DEF m, End, Ends
<1> QED
  BY <1>6, <1>7

LEMMA DeleteOneKeeps ==
    ASSUME EntInv, NEW r \in Rows, DeleteOne(r)
    PROVE  EntInv' /\ UNCHANGED builder
<1>1. PICK how \in {"not_found", "deleted"} : result' = Ends(how)
  BY DEF DeleteOne
<1>2. ResultInv'
  BY <1>1, ResultEnds
<1>3. UNCHANGED <<entity, focus, builder>> /\ rows' = [rows EXCEPT ![r] = Absent]
  BY DEF DeleteOne
<1>4. FocusInv' /\ RowsInv' /\ E' = E
  BY <1>3, Same, RowsKeep DEF EntInv
<1>5. ChainsInv'
  BY <1>3, <1>4 DEF EntInv, ChainsInv
<1> QED
  BY <1>2, <1>3, <1>4, <1>5 DEF EntInv

LEMMA Stutters ==
    ASSUME EntInv, UNCHANGED vars
    PROVE  EntInv' /\ UNCHANGED builder
<1>1. UNCHANGED <<entity, focus, rows, builder, result>>
  BY DEF vars
<1>2. E' = E /\ FocusInv' /\ RowsInv'
  BY <1>1, Same, RowsSame DEF EntInv
<1>3. ChainsInv'
  BY <1>1, <1>2 DEF EntInv, ChainsInv
<1>4. ResultInv'
  BY <1>1, <1>2 DEF EntInv, ResultInv, NamesReachTheirCalls, IsLink
<1> QED
  BY <1>1, <1>2, <1>3, <1>4 DEF EntInv

LEMMA EntInit == Init => EntInv
<1> SUFFICES ASSUME Init PROVE EntInv
  OBVIOUS
<1>1. entity \in DOMAIN Entities /\ PartnerOK(E)
  BY EntitiesFit DEF Init, E, Fits
<1>2. Partner \in E.columns
  BY <1>1 DEF Partner, PartnerOK
<1>3. FocusInv
  BY <1>1, <1>2 DEF FocusInv, Init
<1>4. RowsInv
  BY DEF Init, RowsInv
<1>5. ChainsInv
  BY IdleIs DEF Init, ChainsInv
<1>6. ResultInv
  BY DEF Init, ResultInv, NamesReachTheirCalls, Quiet
<1> QED
  BY <1>3, <1>4, <1>5, <1>6 DEF EntInv

LEMMA EntNext == EntInv /\ [Next]_vars => EntInv'
<1> SUFFICES ASSUME EntInv, [Next]_vars PROVE EntInv'
  OBVIOUS
<1>1. ASSUME NEW b \in Builders, NEW op \in Ops, NEW r \in Rows, Begin(b, op, r)
      PROVE  EntInv'
  BY <1>1, BeginKeeps
<1>2. ASSUME NEW b \in Builders, NEW call \in {"Set", "Add", "Append", "Clear", "ClearEdge"},
             NEW f \in focus, NEW v \in Arguments(call, f), Call(b, call, f, v)
      PROVE  EntInv'
  BY <1>2, CallKeeps
<1>3. ASSUME NEW b \in Builders, NEW call \in {"Set", "Add", "Clear", "ClearEdge", "Reset"},
             NEW f \in focus, NEW v \in Arguments(call, f), CallByName(b, call, f, v)
      PROVE  EntInv'
  BY <1>3, CallByNameKeeps DEF NamedCalls
<1>4. ASSUME NEW b \in Builders, SaveCreate(b) \/ SaveUpdate(b) \/ SaveUpdateOne(b)
      PROVE  EntInv'
  BY <1>4, SaveCreateKeeps, SaveKeeps DEF SaveUpdate, SaveUpdateOne
<1>5. ASSUME NEW r \in Rows, DeleteOne(r)
      PROVE  EntInv'
  BY <1>5, DeleteOneKeeps
<1> QED
  BY <1>1, <1>2, <1>3, <1>4, <1>5, Stutters DEF Next

LEMMA EntAlways == Spec => []EntInv
BY EntInit, EntNext, PTL DEF Spec

(***************************************************************************)
(* The check() of every builder of every entity keeps out of the database  *)
(* what the schema forbids.                                                *)
(***************************************************************************)
THEOREM CheckEnforcesTheSchemaAlways == Spec => []CheckEnforcesTheSchema
<1>1. EntInv => CheckEnforcesTheSchema
  BY DEF EntInv, ResultInv, RowsInv, RowOK, ColumnOK, CheckEnforcesTheSchema
<1> QED
  BY <1>1, EntAlways, PTL

(***************************************************************************)
(* SetField, AddField, ClearField, ResetField and ClearEdge of every       *)
(* mutation know each column the typed methods know.                       *)
(***************************************************************************)
THEOREM NamesReachTheirCallsAlways == Spec => []NamesReachTheirCalls
<1>1. EntInv => NamesReachTheirCalls
  BY DEF EntInv, ResultInv
<1> QED
  BY <1>1, EntAlways, PTL

-----------------------------------------------------------------------------
(***************************************************************************)
(* What Save returns.                                                      *)
(***************************************************************************)
LEMMA ReadBack ==
    ASSUME FocusInv, NEW m, MutationOK(E, focus, m)
    PROVE  Loaded(Inserted(m)) = Returned("create", m, Inserted(m))
<1>1. Fits(E) /\ focus \subseteq E.columns /\ \A f \in focus : CallsOK(E, f, m)
  BY FocusIs DEF MutationOK
<1>2. ASSUME NEW f \in focus
      PROVE  (IF f \in E.loads /\ Inserted(m)[f] # NULL THEN Inserted(m)[f] ELSE Zero)
                = IF f \in E.returns /\ IsSet(m, f) THEN m.value[f] ELSE Zero
  <2>1. f \in E.loads /\ f \in E.returns /\ <<"Set", f>> \in E.spec.create
    BY <1>1 DEF Fits, WritesOK
  <2>2. Inserted(m)[f] = IF IsSet(m, f) THEN m.value[f] ELSE NULL
    BY <2>1 DEF Inserted
  <2>3. IsSet(m, f) => m.value[f] # NULL
    BY <1>1, NullAssumption, ListsAre DEF CallsOK, IsSet, ValuesOf
  <2> QED
    BY <2>1, <2>2, <2>3
<1> QED
  BY <1>2 DEF Loaded, Returned

\* A row is there.
LEMMA RowIsThere ==
    ASSUME FocusInv, NEW row, RowOK(E, focus, row)
    PROVE  row # Absent
BY AbsentAssumption DEF FocusInv, RowOK, E

\* A chain ends by its own Save.
LEMMA WhoEnds ==
    ASSUME EntInv, [Next]_vars, NEW b \in Builders, builder'[b] # builder[b],
           result'.how \in {"saved", "invalid"}
    PROVE  SaveCreate(b) \/ SaveUpdate(b) \/ SaveUpdateOne(b)
<1>1. CASE UNCHANGED builder
  BY <1>1
<1>2. ASSUME NEW x \in Builders, SaveCreate(x) \/ SaveUpdate(x) \/ SaveUpdateOne(x)
      PROVE  x = b
  BY <1>2, SaveCreateKeeps, SaveKeeps DEF SaveUpdate, SaveUpdateOne
<1>3. ASSUME NEW x \in Builders, NEW call \in {"Set", "Add", "Append", "Clear", "ClearEdge"},
             NEW f \in focus, NEW v \in Arguments(call, f), Call(x, call, f, v)
      PROVE  FALSE
  BY <1>3, CallKeeps DEF Quiet
<1>4. ASSUME NEW x \in Builders, NEW call \in {"Set", "Add", "Clear", "ClearEdge", "Reset"},
             NEW f \in focus, NEW v \in Arguments(call, f), CallByName(x, call, f, v)
      PROVE  FALSE
  BY <1>4, CallByNameKeeps DEF NamedCalls
<1>5. ASSUME NEW x \in Builders, NEW op \in Ops, NEW r \in Rows, Begin(x, op, r)
      PROVE  FALSE
  BY <1>5, BeginKeeps DEF Quiet
<1> QED
  BY <1>1, <1>2, <1>3, <1>4, <1>5, DeleteOneKeeps DEF Next, vars

(***************************************************************************)
(* What Create and UpdateOne return is what the next query of the row      *)
(* answers.                                                                *)
(***************************************************************************)
THEOREM ReturnedIsStoredAlways == Spec => ReturnedIsStored
<1> DEFINE Mutated(b) == IF builder[b].op = "create" THEN Defaulted(builder[b].mutation)
                         ELSE builder[b].mutation
           Kept == \A b \in Builders : SavedBy(b) /\ builder[b].op # "update" =>
                      \E r \in Rows :
                         /\ builder[b].op = "create" => rows[r] = Absent
                         /\ rows'[r] # Absent
                         /\ Loaded(rows'[r]) = Returned(builder[b].op, Mutated(b), rows'[r])
<1>1. ASSUME EntInv, [Next]_vars PROVE Kept
  <2> SUFFICES ASSUME NEW b \in Builders, SavedBy(b), builder[b].op # "update"
               PROVE  \E r \in Rows :
                         /\ builder[b].op = "create" => rows[r] = Absent
                         /\ rows'[r] # Absent
                         /\ Loaded(rows'[r]) = Returned(builder[b].op, Mutated(b), rows'[r])
    OBVIOUS
  <2>1. builder'[b] # builder[b] /\ result'.how = "saved"
    BY DEF SavedBy
  <2>2. FocusInv /\ \A r \in Rows : \A row : [rows EXCEPT ![r] = row][r] = row
    BY <1>1 DEF EntInv, RowsInv
  <2>3. CASE SaveCreate(b)
    <3>1. PICK r \in Rows :
             /\ rows[r] = Absent
             /\ rows' = [rows EXCEPT ![r] = Inserted(Defaulted(builder[b].mutation))]
             /\ RowOK(E, focus, Inserted(Defaulted(builder[b].mutation)))
             /\ MutationOK(E, focus, Defaulted(builder[b].mutation))
      BY <1>1, <2>1, <2>3, SaveCreateKeeps
    <3>2. rows'[r] = Inserted(Defaulted(builder[b].mutation)) /\ builder[b].op = "create"
      BY <2>2, <2>3, <3>1 DEF SaveCreate
    <3>3. rows'[r] # Absent
      BY <2>2, <3>1, <3>2, RowIsThere
    <3>4. Loaded(rows'[r]) = Returned("create", Defaulted(builder[b].mutation), rows'[r])
      BY <2>2, <3>1, <3>2, ReadBack
    <3> QED
      BY <3>1, <3>2, <3>3, <3>4
  <2>4. CASE SaveUpdateOne(b)
    <3>1. Save(b, "updateOne", "not_found")
      BY <2>4 DEF SaveUpdateOne
    <3>2. PICK r \in Rows : \E row : RowOK(E, focus, row) /\ rows' = [rows EXCEPT ![r] = row]
      BY <1>1, <2>1, <3>1, SaveKeeps
    <3>3. rows'[r] # Absent
      BY <2>2, <3>2, RowIsThere
    <3>4. builder[b].op = "updateOne"
      BY <3>1 DEF Save
    <3> QED
      BY <3>3, <3>4 DEF Returned
  <2>5. ~SaveUpdate(b)
    BY DEF SaveUpdate, Save
  <2> QED
    BY <1>1, <2>1, <2>3, <2>4, <2>5, WhoEnds
<1>2. EntInv /\ [Next]_vars => Kept
  BY <1>1
<1> HIDE DEF Kept
<1>3. Spec => [][Kept]_vars
  BY <1>2, EntInit, EntNext, PTL DEF Spec
<1> QED
  BY <1>3 DEF ReturnedIsStored, Kept

-----------------------------------------------------------------------------
(***************************************************************************)
(* What a chain's calls mean, call by call.                                *)
(***************************************************************************)
\* What f's value is after call n, when it was v before it.
Heard(first, calls, f, v, n) ==
    IF calls[n].field = f /\ calls[n].call # "ClearEdge" THEN Applied(first, v, calls[n]) ELSE v

IsStory(g, first, calls, f, len) ==
    g = [n \in 0 .. len |-> IF n = 0 THEN first ELSE Heard(first, calls, f, g[n - 1], n)]

LEMMA StoryExists ==
    ASSUME NEW first, NEW calls, NEW f, NEW len \in Nat
    PROVE  \E g : IsStory(g, first, calls, f, len)
<1> DEFINE Reached == {m \in Nat : \E g : IsStory(g, first, calls, f, m)}
<1>1. 0 \in Reached
  <2> DEFINE g == [n \in 0 .. 0 |-> first]
  <2>1. IsStory(g, first, calls, f, 0)
    BY DEF IsStory
  <2> QED
    BY <2>1
<1>2. ASSUME NEW m \in 0 .. len, m \in Reached PROVE m + 1 \in Reached
  <2>1. PICK g : IsStory(g, first, calls, f, m)
    BY <1>2
  <2> DEFINE h == [n \in 0 .. m + 1 |-> IF n = 0 THEN first ELSE Heard(first, calls, f, g[n - 1], n)]
  <2>2. g = [n \in 0 .. m |-> IF n = 0 THEN first ELSE Heard(first, calls, f, g[n - 1], n)]
    BY <2>1 DEF IsStory
  <2>3. \A n \in 0 .. m : h[n] = g[n]
    <3> TAKE n \in 0 .. m
    <3>1. n \in 0 .. m + 1
      OBVIOUS
    <3> QED
      BY <2>2, <3>1
  <2>4. \A n \in 0 .. m + 1 : n # 0 => n - 1 \in 0 .. m /\ h[n - 1] = g[n - 1]
    BY <2>3
  <2>5. h = [n \in 0 .. m + 1 |-> IF n = 0 THEN first ELSE Heard(first, calls, f, h[n - 1], n)]
    BY <2>4
  <2> HIDE DEF h
  <2>6. IsStory(h, first, calls, f, m + 1)
    BY <2>5 DEF IsStory
  <2> QED
    BY <2>6
<1> HIDE DEF Reached
<1>3. len \in Reached
  BY <1>1, <1>2, CountUp
<1> QED
  BY <1>3 DEF Reached

LEMMA SaidIs ==
    ASSUME NEW first, NEW calls, NEW f, Len(calls) \in Nat
    PROVE  \E g : IsStory(g, first, calls, f, Len(calls)) /\ Said(first, calls, f) = g[Len(calls)]
<1> DEFINE Body(g) == [n \in 0 .. Len(calls) |->
                          IF n = 0 THEN first
                          ELSE IF calls[n].field = f /\ calls[n].call # "ClearEdge"
                               THEN Applied(first, g[n - 1], calls[n]) ELSE g[n - 1]]
           after == CHOOSE g : g = Body(g)
<1>1. PICK g : IsStory(g, first, calls, f, Len(calls))
  BY StoryExists
<1>2. \A h : IsStory(h, first, calls, f, Len(calls)) <=> h = Body(h)
  BY DEF IsStory, Heard
<1>3. Said(first, calls, f) = after[Len(calls)]
  BY DEF Said
<1> HIDE DEF Body
<1>4. after = Body(after)
  BY <1>1, <1>2
<1> HIDE DEF after
<1> QED
  BY <1>2, <1>3, <1>4

\* Two stories that begin with the same calls go on alike.
LEMMA StoriesAgree ==
    ASSUME NEW first, NEW calls, NEW more, NEW f, NEW len \in Nat, NEW len2 \in Nat, len <= len2,
           NEW g, NEW h, IsStory(g, first, calls, f, len), IsStory(h, first, more, f, len2),
           \A n \in 1 .. len : calls[n] = more[n]
    PROVE  g[len] = h[len]
<1> DEFINE Agreed == {n \in Nat : n <= len => g[n] = h[n]}
<1>1. \A n \in 0 .. len : n # 0 => /\ g[n] = Heard(first, calls, f, g[n - 1], n)
                                  /\ h[n] = Heard(first, more, f, h[n - 1], n)
  <2> TAKE n \in 0 .. len
  <2> HAVE n # 0
  <2>1. n \in 0 .. len2
    OBVIOUS
  <2> QED
    BY <2>1 DEF IsStory
<1>2. g[0] = first /\ h[0] = first
  <2>1. 0 \in 0 .. len /\ 0 \in 0 .. len2
    OBVIOUS
  <2> QED
    BY <2>1 DEF IsStory
<1>3. 0 \in Agreed
  BY <1>2
<1>4. ASSUME NEW n \in 0 .. len, n \in Agreed PROVE n + 1 \in Agreed
  <2> SUFFICES ASSUME n + 1 <= len PROVE g[n + 1] = h[n + 1]
    OBVIOUS
  <2>1. n + 1 \in 0 .. len /\ n + 1 # 0 /\ (n + 1) - 1 = n /\ g[n] = h[n] /\ calls[n + 1] = more[n + 1]
    BY <1>4
  <2>2. g[n + 1] = Heard(first, calls, f, g[n], n + 1) /\ h[n + 1] = Heard(first, more, f, h[n], n + 1)
    BY <1>1, <2>1
  <2> QED
    BY <2>1, <2>2 DEF Heard
<1> HIDE DEF Agreed
<1>5. len \in Agreed
  BY <1>3, <1>4, CountUp
<1> QED
  BY <1>5 DEF Agreed

LEMMA SaidNothing ==
    ASSUME NEW first, NEW f
    PROVE  Said(first, <<>>, f) = first
<1>1. Len(<<>>) = 0
  OBVIOUS
<1>2. PICK g : IsStory(g, first, <<>>, f, 0) /\ Said(first, <<>>, f) = g[0]
  BY <1>1, SaidIs
<1> QED
  BY <1>2 DEF IsStory

\* One call more.
LEMMA SaidMore ==
    ASSUME NEW S, NEW calls \in Seq(S), NEW c \in S, NEW first, NEW f
    PROVE  Said(first, Append(calls, c), f) =
              IF c.field = f /\ c.call # "ClearEdge" THEN Applied(first, Said(first, calls, f), c)
              ELSE Said(first, calls, f)
<1> DEFINE more == Append(calls, c)
           len == Len(calls)
<1>1. /\ len \in Nat /\ Len(more) = len + 1 /\ len + 1 \in Nat /\ more[len + 1] = c
      /\ \A n \in 1 .. len : calls[n] = more[n]
  OBVIOUS
<1> HIDE DEF more, len
<1>2. PICK g : IsStory(g, first, calls, f, len) /\ Said(first, calls, f) = g[len]
  BY <1>1, SaidIs DEF len
<1>3. PICK h : IsStory(h, first, more, f, len + 1) /\ Said(first, more, f) = h[len + 1]
  <2>1. \E h : IsStory(h, first, more, f, Len(more)) /\ Said(first, more, f) = h[Len(more)]
    BY <1>1, SaidIs
  <2> QED
    BY <1>1, <2>1
<1>4. g[len] = h[len]
  BY <1>1, <1>2, <1>3, StoriesAgree
<1>5. h[len + 1] = Heard(first, more, f, h[len], len + 1)
  <2>1. len + 1 \in 0 .. len + 1 /\ len + 1 # 0 /\ (len + 1) - 1 = len
    BY <1>1
  <2> QED
    BY <1>3, <2>1 DEF IsStory
<1> QED
  BY <1>1, <1>2, <1>3, <1>4, <1>5 DEF Heard, more

-----------------------------------------------------------------------------
(***************************************************************************)
(* The mutation says what the calls mean.                                  *)
(***************************************************************************)
\* A column that was old, with what a mutation holds for it.
Kept(old, value, added, appended) ==
    LET set  == IF value # Unset THEN value ELSE old
        more == IF added # 0 THEN Plus(set, added) ELSE set
    IN IF appended # <<>> THEN Longer(more, appended) ELSE more

Left(old, m, f) ==
    Kept(IF f \in m.cleared \cup m.unlinked THEN NULL ELSE old,
         m.value[f], m.added[f], m.appended[f])

\* A list of calls and the mutation it has left.
Faithful(x, F, calls, m) ==
    /\ calls \in Seq([call : CallNames, field : F, arg : Values])
    /\ \A f \in F :
          /\ f \in m.unlinked <=> Unlinks(calls, f)
          /\ f \in m.cleared \cup m.unlinked => f \in x.optional
          /\ \A old \in ValuesOf(x, f) \cup {NULL} :
                Said(IF f \in m.unlinked THEN NULL ELSE old, calls, f) = Left(old, m, f)

\* A create neither adds nor appends.
FirstValues(F, m) == \A f \in F : m.added[f] = 0 /\ m.appended[f] = <<>>

FaithfulInv ==
    \A b \in Builders : builder[b] # Idle =>
       /\ Faithful(E, focus, builder[b].calls, builder[b].mutation)
       /\ builder[b].op = "create" => FirstValues(focus, builder[b].mutation)

LEMMA KeptAdds ==
    ASSUME NEW old \in Nat \cup {NULL}, NEW value \in Nat \cup {Unset},
           NEW added \in Nat, NEW d \in Nat \ {0}
    PROVE  Kept(old, value, added + d, <<>>) = Plus(Kept(old, value, added, <<>>), d)
<1> DEFINE set == IF value # Unset THEN value ELSE old
<1>1. set \in Nat \cup {NULL} /\ NULL \notin Nat
  BY NullAssumption, ListsAre
<1>2. \A a : Kept(old, value, a, <<>>) = IF a # 0 THEN Plus(set, a) ELSE set
  BY DEF Kept
<1> HIDE DEF set
<1>3. added + d # 0
  OBVIOUS
<1>4. added # 0 => Plus(set, added) \in Nat
  BY <1>1 DEF Plus
<1>5. Plus(set, added + d) = Plus(IF added # 0 THEN Plus(set, added) ELSE set, d)
  BY <1>1, <1>4 DEF Plus
<1> QED
  BY <1>2, <1>3, <1>5

LEMMA ListsJoin ==
    /\ \A s, t, u \in NumberLists : (s \o t) \o u = s \o (t \o u)
    /\ \A s, t \in NumberLists : t # <<>> => s \o t # <<>>
    /\ \A t \in NumberLists : <<>> \o t = t
<1>1. ASSUME NEW s \in NumberLists, NEW t \in NumberLists, NEW u \in NumberLists
      PROVE  (s \o t) \o u = s \o (t \o u)
  BY ConcatAssociative DEF NumberLists
<1>2. ASSUME NEW s \in NumberLists, NEW t \in NumberLists, t # <<>> PROVE s \o t # <<>>
  BY <1>2, ConcatProperties, EmptySeq DEF NumberLists
<1>3. ASSUME NEW t \in NumberLists PROVE <<>> \o t = t
  BY ConcatEmptySeq DEF NumberLists
<1> QED
  BY <1>1, <1>2, <1>3

LEMMA KeptAppends ==
    ASSUME NEW old \in NumberLists \cup {NULL}, NEW value \in NumberLists \cup {Unset},
           NEW appended \in NumberLists, NEW l \in NumberLists, l # <<>>
    PROVE  Kept(old, value, 0, appended \o l) = Longer(Kept(old, value, 0, appended), l)
<1> DEFINE set == IF value # Unset THEN value ELSE old
<1>1. set \in NumberLists \cup {NULL} /\ NULL \notin NumberLists
  BY NullAssumption, ListsAre
<1>2. \A a : Kept(old, value, 0, a) = IF a # <<>> THEN Longer(set, a) ELSE set
  BY DEF Kept
<1> HIDE DEF set
<1> DEFINE s == IF set = NULL THEN <<>> ELSE set
<1>3. s \in NumberLists /\ \A a : Longer(set, a) = s \o a
  BY <1>1, ListsAre DEF Longer
<1>4. appended \o l # <<>> /\ (s \o appended) \o l = s \o (appended \o l)
  BY <1>3, ListsJoin
<1> HIDE DEF s
<1>5. CASE appended = <<>>
  <2>1. appended \o l = l
    BY <1>5, ListsJoin
  <2> QED
    BY <1>2, <1>5, <2>1
<1>6. CASE appended # <<>>
  <2>1. s \o appended \in NumberLists
    BY <1>3, ListsAre
  <2>2. Longer(s \o appended, l) = (s \o appended) \o l
    BY <1>1, <2>1 DEF Longer
  <2> QED
    BY <1>2, <1>3, <1>4, <1>6, <2>2
<1> QED
  BY <1>5, <1>6

\* A call leaves the other columns alone.
LEMMA AfterOthers ==
    ASSUME NEW m \in AMutation(focus), NEW call \in CallNames, NEW f \in focus, NEW v,
           NEW g \in focus \ {f}
    PROVE  LET n == After(m, call, f, v) IN
           /\ n.value[g] = m.value[g] /\ n.added[g] = m.added[g] /\ n.appended[g] = m.appended[g]
           /\ g \in n.cleared <=> g \in m.cleared
           /\ g \in n.unlinked <=> g \in m.unlinked
<1>1. call = "Set" \/ call = "Add" \/ call = "Append" \/ call = "Clear" \/ call = "ClearEdge"
        \/ call = "Reset"
  BY DEF CallNames
<1> QED
  BY <1>1 DEF After, Set, Add, Append_, Clear, ClearEdge, Reset, AMutation

\* What it does to its own.
LEMMA AfterOwn ==
    ASSUME NEW m \in AMutation(focus), NEW call \in CallNames, NEW f \in focus, NEW v
    PROVE  LET n == After(m, call, f, v) IN
           /\ call = "Set" => n.value[f] = v
           /\ call \in {"Clear", "Reset"} => n.value[f] = Unset
           /\ call \in {"Set", "Clear", "Reset"} => n.added[f] = 0 /\ n.appended[f] = <<>>
           /\ call \in {"Add", "Append", "ClearEdge"} => n.value = m.value
           /\ call = "Add" => n.added[f] = m.added[f] + v
           /\ call = "Append" => n.appended[f] = m.appended[f] \o v
           /\ call \in {"Append", "ClearEdge"} => n.added = m.added
           /\ call \in {"Add", "ClearEdge"} => n.appended = m.appended
           /\ call \in {"Set", "Add", "Append"} => n.cleared = m.cleared
           /\ call \in {"Clear", "ClearEdge"} => n.cleared = m.cleared \cup {f}
           /\ call = "Reset" => n.cleared = m.cleared \ {f}
           /\ call # "ClearEdge" => n.unlinked = m.unlinked
           /\ call = "ClearEdge" => n.unlinked = m.unlinked \cup {f}
<1> DEFINE n == After(m, call, f, v)
<1>1. call = "Set" =>
      /\ n.value[f] = v /\ n.added[f] = 0 /\ n.appended[f] = <<>>
      /\ n.cleared = m.cleared /\ n.unlinked = m.unlinked
  BY DEF After, Set, AMutation
<1>2. call = "Add" =>
      /\ n.value = m.value /\ n.added[f] = m.added[f] + v /\ n.appended = m.appended
      /\ n.cleared = m.cleared /\ n.unlinked = m.unlinked
  BY DEF After, Add, AMutation
<1>3. call = "Append" =>
      /\ n.value = m.value /\ n.added = m.added /\ n.appended[f] = m.appended[f] \o v
      /\ n.cleared = m.cleared /\ n.unlinked = m.unlinked
  BY DEF After, Append_, AMutation
<1>4. call = "Clear" =>
      /\ n.value[f] = Unset /\ n.added[f] = 0 /\ n.appended[f] = <<>>
      /\ n.cleared = m.cleared \cup {f} /\ n.unlinked = m.unlinked
  BY DEF After, Clear, AMutation
<1>5. call = "ClearEdge" =>
      /\ n.value = m.value /\ n.added = m.added /\ n.appended = m.appended
      /\ n.cleared = m.cleared \cup {f} /\ n.unlinked = m.unlinked \cup {f}
  BY DEF After, ClearEdge, AMutation
<1>6. call = "Reset" =>
      /\ n.value[f] = Unset /\ n.added[f] = 0 /\ n.appended[f] = <<>>
      /\ n.cleared = m.cleared \ {f} /\ n.unlinked = m.unlinked
  BY DEF After, Reset, AMutation
<1>7. call = "Set" \/ call = "Add" \/ call = "Append" \/ call = "Clear" \/ call = "ClearEdge"
        \/ call = "Reset"
  BY DEF CallNames
<1> QED
  BY <1>1, <1>2, <1>3, <1>4, <1>5, <1>6, <1>7

\* A call is heard the same way by the chain and by the mutation.
LEMMA FaithfulCall ==
    ASSUME FocusInv, NEW calls, NEW m, MutationOK(E, focus, m), Faithful(E, focus, calls, m),
           NEW call \in CallNames, NEW f \in focus, NEW v \in Arguments(call, f),
           call = "Add" => f \in E.numbers, call = "Append" => f \in E.lists,
           call \in {"Clear", "ClearEdge"} => f \in E.optional
    PROVE  Faithful(E, focus, Append(calls, [call |-> call, field |-> f, arg |-> v]),
                    After(m, call, f, v))
<1> DEFINE c == [call |-> call, field |-> f, arg |-> v]
           S == [call : CallNames, field : focus, arg : Values]
           more == Append(calls, c)
           n == After(m, call, f, v)
<1>1. v \in Values
  BY ListsAre DEF Arguments
<1>2. c \in S /\ c.call = call /\ c.field = f /\ c.arg = v
  BY <1>1
<1> HIDE DEF c
<1>3. calls \in Seq(S) /\ m \in AMutation(focus) /\ \A g \in focus : CallsOK(E, g, m)
  BY DEF Faithful, MutationOK
<1>4. more \in Seq(S) /\ DOMAIN calls = 1 .. Len(calls) /\ DOMAIN more = 1 .. Len(calls) + 1
      /\ Len(calls) \in Nat /\ more[Len(calls) + 1] = c
      /\ \A i \in 1 .. Len(calls) : more[i] = calls[i]
  BY <1>2, <1>3, AppendProperties
<1> HIDE DEF S
<1>5. \A g : \A first : Said(first, more, g) =
         IF c.field = g /\ c.call # "ClearEdge" THEN Applied(first, Said(first, calls, g), c)
         ELSE Said(first, calls, g)
  BY <1>2, <1>3, SaidMore
<1>6. \A g : Unlinks(more, g) <=> Unlinks(calls, g) \/ (c.call = "ClearEdge" /\ c.field = g)
  BY <1>4 DEF Unlinks
<1> HIDE DEF more, n
<1>7. \A g \in focus :
         /\ g \in m.unlinked <=> Unlinks(calls, g)
         /\ g \in m.cleared \cup m.unlinked => g \in E.optional
         /\ \A old \in ValuesOf(E, g) \cup {NULL} :
               Said(IF g \in m.unlinked THEN NULL ELSE old, calls, g) = Left(old, m, g)
  BY DEF Faithful
<1>8. ASSUME NEW g \in focus \ {f}
      PROVE  /\ g \in n.unlinked <=> Unlinks(more, g)
             /\ g \in n.cleared \cup n.unlinked => g \in E.optional
             /\ \A old \in ValuesOf(E, g) \cup {NULL} :
                   Said(IF g \in n.unlinked THEN NULL ELSE old, more, g) = Left(old, n, g)
  <2>1. /\ n.value[g] = m.value[g] /\ n.added[g] = m.added[g] /\ n.appended[g] = m.appended[g]
        /\ g \in n.cleared <=> g \in m.cleared
        /\ g \in n.unlinked <=> g \in m.unlinked
    BY <1>3, AfterOthers DEF n
  <2>2. \A old : Left(old, n, g) = Left(old, m, g)
    BY <2>1 DEF Left
  <2>3. \A first : Said(first, more, g) = Said(first, calls, g)
    BY <1>2, <1>5
  <2> QED
    BY <1>2, <1>6, <1>7, <2>1, <2>2, <2>3
<1>9. /\ f \in n.unlinked <=> Unlinks(more, f)
      /\ f \in n.cleared \cup n.unlinked => f \in E.optional
      /\ \A old \in ValuesOf(E, f) \cup {NULL} :
            Said(IF f \in n.unlinked THEN NULL ELSE old, more, f) = Left(old, n, f)
  <2> DEFINE First(k, old) == IF f \in k.unlinked THEN NULL ELSE old
  <2>1. /\ m.value[f] \in ValuesOf(E, f) \cup {Unset} /\ m.added[f] \in Nat
        /\ m.appended[f] \in NumberLists
        /\ m.added[f] # 0 => f \in E.numbers
        /\ m.appended[f] # <<>> => f \in E.lists
    BY <1>3 DEF CallsOK, AMutation
  <2>2. f \in E.numbers => f \notin E.lists
    BY FocusIs DEF Fits, LimitsOK
  <2>3. NULL \notin ValuesOf(E, f) /\ Unset \notin ValuesOf(E, f)
    BY NullAssumption, ListsAre DEF ValuesOf
  <2>4. \A old \in ValuesOf(E, f) \cup {NULL} : Said(First(m, old), calls, f) = Left(old, m, f)
    BY <1>7
  <2>5. CASE call = "Set"
    <3>1. /\ n.value[f] = v /\ n.added[f] = 0 /\ n.appended[f] = <<>>
          /\ n.cleared = m.cleared /\ n.unlinked = m.unlinked
      BY <1>3, <2>5, AfterOwn DEF n
    <3>2. v # Unset
      BY <1>1, NullAssumption
    <3>3. \A old : Left(old, n, f) = v
      BY <3>1, <3>2 DEF Left, Kept
    <3>4. \A first : Said(first, more, f) = v
      BY <1>2, <1>5, <2>5 DEF Applied
    <3> QED
      BY <1>2, <1>6, <1>7, <2>5, <3>1, <3>3, <3>4
  <2>6. CASE call = "Add"
    <3>1. /\ n.value = m.value /\ n.added[f] = m.added[f] + v /\ n.appended = m.appended
          /\ n.cleared = m.cleared /\ n.unlinked = m.unlinked
      BY <1>3, <2>6, AfterOwn DEF n
    <3>2. v = 1 /\ m.appended[f] = <<>> /\ ValuesOf(E, f) = Nat
      BY <2>1, <2>2, <2>6 DEF Arguments, Good, ValuesOf
    <3>3. ASSUME NEW old \in Nat \cup {NULL} PROVE Left(old, n, f) = Plus(Left(old, m, f), v)
      <4> DEFINE base == IF f \in m.cleared \cup m.unlinked THEN NULL ELSE old
      <4>1. PICK w \in Nat \cup {Unset}, a \in Nat, d \in Nat \ {0} :
               w = m.value[f] /\ a = m.added[f] /\ d = v
        BY <2>1, <3>2
      <4>2. Left(old, m, f) = Kept(base, w, a, <<>>)
        BY <3>2, <4>1 DEF Left
      <4>3. Left(old, n, f) = Kept(base, w, a + d, <<>>)
        BY <3>1, <3>2, <4>1 DEF Left
      <4>4. base \in Nat \cup {NULL}
        OBVIOUS
      <4> HIDE DEF base
      <4>5. Kept(base, w, a + d, <<>>) = Plus(Kept(base, w, a, <<>>), d)
        BY <4>4, KeptAdds
      <4> QED
        BY <4>1, <4>2, <4>3, <4>5
    <3>4. \A first : Said(first, more, f) = Plus(Said(first, calls, f), v)
      BY <1>2, <1>5, <2>6 DEF Applied
    <3>5. \A old \in ValuesOf(E, f) \cup {NULL} : Left(old, n, f) = Plus(Left(old, m, f), v)
      BY <3>2, <3>3
    <3> QED
      BY <1>2, <1>6, <1>7, <2>4, <2>6, <3>1, <3>4, <3>5
  <2>7. CASE call = "Append"
    <3>1. /\ n.value = m.value /\ n.added = m.added /\ n.appended[f] = m.appended[f] \o v
          /\ n.cleared = m.cleared /\ n.unlinked = m.unlinked
      BY <1>3, <2>7 DEF n, After, Append_, AMutation
    <3>2. v = <<Bad>>
      BY <2>7 DEF Arguments
    <3>3. v \in NumberLists /\ v # <<>>
      BY <3>2, ListsAre
    <3>4. m.added[f] = 0 /\ ValuesOf(E, f) = NumberLists
      BY <2>1, <2>2, <2>7 DEF ValuesOf
    <3>5. ASSUME NEW old \in NumberLists \cup {NULL}
          PROVE  Left(old, n, f) = Longer(Left(old, m, f), v)
      <4> DEFINE base == IF f \in m.cleared \cup m.unlinked THEN NULL ELSE old
      <4>1. PICK w \in NumberLists \cup {Unset}, a \in NumberLists, l \in NumberLists :
               w = m.value[f] /\ a = m.appended[f] /\ l = v /\ l # <<>>
        BY <2>1, <3>3, <3>4
      <4>2. Left(old, m, f) = Kept(base, w, 0, a)
        BY <3>4, <4>1 DEF Left
      <4>3. Left(old, n, f) = Kept(base, w, 0, a \o l)
        BY <3>1, <3>4, <4>1 DEF Left
      <4>4. base \in NumberLists \cup {NULL}
        OBVIOUS
      <4> HIDE DEF base
      <4>5. Kept(base, w, 0, a \o l) = Longer(Kept(base, w, 0, a), l)
        BY <4>1, <4>4, KeptAppends
      <4> QED
        BY <4>1, <4>2, <4>3, <4>5
    <3>6. \A first : Said(first, more, f) = Longer(Said(first, calls, f), v)
      BY <1>2, <1>5, <2>7 DEF Applied
    <3>7. \A old \in ValuesOf(E, f) \cup {NULL} : Left(old, n, f) = Longer(Left(old, m, f), v)
      BY <3>4, <3>5
    <3> QED
      BY <1>2, <1>6, <1>7, <2>4, <2>7, <3>1, <3>6, <3>7
  <2>8. CASE call = "Clear"
    <3>1. /\ n.value[f] = Unset /\ n.added[f] = 0 /\ n.appended[f] = <<>>
          /\ n.cleared = m.cleared \cup {f} /\ n.unlinked = m.unlinked
      BY <1>3, <2>8, AfterOwn DEF n
    <3>2. \A old : Left(old, n, f) = NULL
      BY <3>1 DEF Left, Kept
    <3>3. \A first : Said(first, more, f) = NULL
      BY <1>2, <1>5, <2>8 DEF Applied
    <3> QED
      BY <1>2, <1>6, <1>7, <2>8, <3>1, <3>2, <3>3
  <2>9. CASE call = "ClearEdge"
    <3>1. /\ n.value = m.value /\ n.added = m.added /\ n.appended = m.appended
          /\ n.cleared = m.cleared \cup {f} /\ n.unlinked = m.unlinked \cup {f}
      BY <1>3, <2>9, AfterOwn DEF n
    <3>2. \A first : Said(first, more, f) = Said(first, calls, f)
      BY <1>2, <1>5, <2>9
    <3>3. \A old : Left(old, n, f) = Left(NULL, m, f)
      BY <3>1 DEF Left, Kept
    <3>4. Said(NULL, calls, f) = Left(NULL, m, f)
      BY <2>4
    <3> QED
      BY <1>2, <1>6, <1>7, <2>9, <3>1, <3>2, <3>3, <3>4
  <2>10. CASE call = "Reset"
    <3>1. /\ n.value[f] = Unset /\ n.added[f] = 0 /\ n.appended[f] = <<>>
          /\ n.cleared = m.cleared \ {f} /\ n.unlinked = m.unlinked
      BY <1>3, <2>10, AfterOwn DEF n
    <3>2. \A old : Left(old, n, f) = First(n, old)
      BY <3>1 DEF Left, Kept
    <3>3. \A first : Said(first, more, f) = first
      BY <1>2, <1>5, <2>10 DEF Applied
    <3> QED
      BY <1>2, <1>6, <1>7, <2>10, <3>1, <3>2, <3>3
  <2> QED
    BY <2>5, <2>6, <2>7, <2>8, <2>9, <2>10 DEF CallNames
<1> QED
  BY <1>4, <1>8, <1>9 DEF Faithful, S, more, n, c

LEMMA FaithfulFirst ==
    Faithful(E, focus, <<>>, NewMutation) /\ FirstValues(focus, NewMutation)
<1> DEFINE S == [call : CallNames, field : focus, arg : Values]
<1>1. <<>> \in Seq(S)
  BY EmptySeq
<1>2. /\ NewMutation.cleared = {} /\ NewMutation.unlinked = {}
      /\ \A f \in focus : /\ NewMutation.value[f] = Unset /\ NewMutation.added[f] = 0
                          /\ NewMutation.appended[f] = <<>>
  BY DEF NewMutation
<1>3. \A f : ~Unlinks(<<>>, f)
  BY DEF Unlinks
<1>4. \A f \in focus : \A old : Left(old, NewMutation, f) = old
  BY <1>2 DEF Left, Kept
<1> HIDE DEF S
<1>5. Faithful(E, focus, <<>>, NewMutation)
  BY <1>1, <1>2, <1>3, <1>4, SaidNothing DEF Faithful, S
<1> QED
  BY <1>2, <1>5 DEF FirstValues

\* One chain goes on, is ended or begun.
LEMMA FaithfulKeeps ==
    ASSUME EntInv, FaithfulInv, NEW b \in Builders, NEW q, UNCHANGED <<entity, focus>>,
           builder' = [builder EXCEPT ![b] = q],
           q # Idle => /\ Faithful(E, focus, q.calls, q.mutation)
                       /\ q.op = "create" => FirstValues(focus, q.mutation)
    PROVE  FaithfulInv'
<1>1. E' = E /\ focus' = focus
  BY Same DEF EntInv
<1>2. builder'[b] = q /\ \A x \in Builders \ {b} : builder'[x] = builder[x]
  BY DEF EntInv, ChainsInv
<1> QED
  BY <1>1, <1>2 DEF FaithfulInv

LEMMA RecordFaithful ==
    ASSUME EntInv, FaithfulInv, NEW b \in Builders, builder[b] # Idle,
           NEW call \in CallNames, NEW f \in focus, NEW v \in Arguments(call, f),
           call = "Add" => f \in E.numbers, call = "Append" => f \in E.lists,
           call \in {"Clear", "ClearEdge"} => f \in E.optional,
           builder[b].op = "create" => call \notin {"Add", "Append"},
           Record(b, call, f, v)
    PROVE  FaithfulInv'
<1> DEFINE m == builder[b].mutation
           n == After(m, call, f, v)
           c == Append(builder[b].calls, [call |-> call, field |-> f, arg |-> v])
           q == Chain(builder[b].op, builder[b].id, n, c)
<1>1. MutationOK(E, focus, m)
  BY WorkingIs
<1>2. Faithful(E, focus, c, n)
  BY <1>1, FaithfulCall DEF EntInv, FaithfulInv
<1>3. builder[b].op = "create" => FirstValues(focus, n)
  <2> SUFFICES ASSUME builder[b].op = "create" PROVE FirstValues(focus, n)
    OBVIOUS
  <2>1. FirstValues(focus, m) /\ m \in AMutation(focus)
    BY <1>1 DEF FaithfulInv, MutationOK
  <2> HIDE DEF m
  <2>2. n.added[f] = 0 /\ n.appended[f] = <<>>
    <3>1. call = "Set" \/ call = "Clear" \/ call = "ClearEdge" \/ call = "Reset"
      BY DEF CallNames
    <3>2. m.added[f] = 0 /\ m.appended[f] = <<>>
      BY <2>1 DEF FirstValues
    <3> QED
      BY <2>1, <3>1, <3>2, AfterOwn
  <2>3. \A g \in focus \ {f} : n.added[g] = m.added[g] /\ n.appended[g] = m.appended[g]
    BY <2>1, AfterOthers
  <2> HIDE DEF n
  <2> QED
    BY <2>1, <2>2, <2>3 DEF FirstValues
<1>4. builder' = [builder EXCEPT ![b] = q] /\ UNCHANGED <<entity, focus>>
  BY RecordIs
<1> HIDE DEF m, n, c
<1>5. q.calls = c /\ q.mutation = n /\ q.op = builder[b].op
  BY DEF Chain
<1> HIDE DEF q
<1> QED
  BY <1>2, <1>3, <1>4, <1>5, FaithfulKeeps

LEMMA FaithfulInit == Init => FaithfulInv
BY DEF Init, FaithfulInv

LEMMA FaithfulNext == EntInv /\ FaithfulInv /\ [Next]_vars => FaithfulInv'
<1> SUFFICES ASSUME EntInv, FaithfulInv, [Next]_vars PROVE FaithfulInv'
  OBVIOUS
<1>1. ASSUME NEW b \in Builders, NEW op \in Ops, NEW r \in Rows, Begin(b, op, r)
      PROVE  FaithfulInv'
  <2> DEFINE q == Chain(op, r, NewMutation, <<>>)
  <2>1. builder' = [builder EXCEPT ![b] = q] /\ UNCHANGED <<entity, focus>>
    BY <1>1 DEF Begin, Chain
  <2>2. q.calls = <<>> /\ q.mutation = NewMutation
    BY DEF Chain
  <2> HIDE DEF q
  <2> QED
    BY <2>1, <2>2, FaithfulFirst, FaithfulKeeps
<1>2. ASSUME NEW b \in Builders, NEW call \in {"Set", "Add", "Append", "Clear", "ClearEdge"},
             NEW f \in focus, NEW v \in Arguments(call, f), Call(b, call, f, v)
      PROVE  FaithfulInv'
  <2>1. builder[b] # Idle /\ <<call, f>> \in E.setters[builder[b].op] /\ Record(b, call, f, v)
    BY <1>2 DEF Call
  <2>2. builder[b].op \in Ops /\ Fits(E)
    BY <2>1, WorkingIs, FocusIs DEF EntInv
  <2>3. (call = "Add" => f \in E.numbers) /\ (call = "Append" => f \in E.lists)
    BY <2>1, <2>2 DEF Fits, ArgumentsOK
  <2>4. /\ call \in {"Clear", "ClearEdge"} => f \in E.optional
        /\ builder[b].op = "create" => call \notin {"Add", "Append"}
    BY <2>1, <2>2 DEF Fits, MeaningOK
  <2> QED
    BY <2>1, <2>3, <2>4, RecordFaithful DEF CallNames
<1>3. ASSUME NEW b \in Builders, NEW call \in {"Set", "Add", "Clear", "ClearEdge", "Reset"},
             NEW f \in focus, NEW v \in Arguments(call, f), CallByName(b, call, f, v)
      PROVE  FaithfulInv'
  <2>1. builder[b] # Idle
    BY <1>3 DEF CallByName
  <2>2. builder[b].op \in Ops /\ Fits(E)
    BY <2>1, WorkingIs, FocusIs DEF EntInv
  <2>3. CASE <<call, f>> \in E.byName
    <3>1. Record(b, call, f, v) /\ (builder[b].op = "create" => call # "Add")
      BY <1>3, <2>3 DEF CallByName
    <3>2. call = "Add" => f \in E.numbers
      BY <2>2, <2>3 DEF Fits, ArgumentsOK
    <3>3. call \in {"Clear", "ClearEdge"} => f \in E.optional
      BY <2>2, <2>3 DEF Fits, MeaningOK
    <3> QED
      BY <2>1, <3>1, <3>2, <3>3, RecordFaithful DEF CallNames
  <2>4. CASE <<call, f>> \notin E.byName
    <3>1. UNCHANGED <<entity, focus, builder>>
      BY <1>3, <2>4 DEF CallByName
    <3> QED
      BY <3>1 DEF FaithfulInv, E
  <2> QED
    BY <2>3, <2>4
<1>4. ASSUME NEW b \in Builders, SaveCreate(b) \/ SaveUpdate(b) \/ SaveUpdateOne(b)
      PROVE  FaithfulInv'
  <2>1. \E how : End(b, how)
    BY <1>4 DEF SaveCreate, SaveUpdate, SaveUpdateOne, Save, Write
  <2>2. builder' = [builder EXCEPT ![b] = Idle] /\ UNCHANGED <<entity, focus>>
    BY <2>1 DEF End
  <2> QED
    BY <2>2, FaithfulKeeps
<1>5. CASE UNCHANGED <<entity, focus, builder>>
  BY <1>5 DEF FaithfulInv, E
<1> QED
  BY <1>1, <1>2, <1>3, <1>4, <1>5 DEF Next, DeleteOne, vars

\* What an update writes is what its calls mean.
LEMMA UpdateMeans ==
    ASSUME FocusInv, NEW calls, NEW m, MutationOK(E, focus, m), Faithful(E, focus, calls, m),
           NEW op \in {"update", "updateOne"}, NEW f \in focus, NEW old, ColumnOK(E, f, old)
    PROVE  Updated(old, op, m, f) = IF f \in E.immutable THEN old ELSE Meant(old, calls, f)
<1>1. Fits(E) /\ f \in E.columns /\ CallsOK(E, f, m) /\ m \in AMutation(focus)
  BY FocusIs DEF MutationOK
<1>2. CASE f \in E.immutable
  <2>1. \A call \in {"Set", "Add", "Append", "Clear"} : <<call, f>> \notin E.spec[op]
    BY <1>1, <1>2 DEF Fits, MeaningOK
  <2> QED
    BY <1>2, <2>1 DEF Updated
<1>3. CASE f \notin E.immutable
  <2>1. /\ <<"Set", f>> \in E.spec[op]
        /\ m.added[f] # 0 => <<"Add", f>> \in E.spec[op]
        /\ m.appended[f] # <<>> => <<"Append", f>> \in E.spec[op]
        /\ f \in m.cleared \cup m.unlinked => <<"Clear", f>> \in E.spec[op]
    BY <1>1, <1>3 DEF Fits, MeaningOK, CallsOK, Faithful
  <2>2. Updated(old, op, m, f) = Left(old, m, f)
    BY <2>1 DEF Updated, Left, Kept, IsSet
  <2>3. Left(old, m, f) = Meant(old, calls, f)
    BY DEF ColumnOK, Faithful, Meant
  <2> QED
    BY <1>3, <2>2, <2>3
<1> QED
  BY <1>2, <1>3

\* What a create is told, before its defaults.
LEMMA CreateTold ==
    ASSUME NEW calls, NEW m, MutationOK(E, focus, m), Faithful(E, focus, calls, m),
           FirstValues(focus, m), NEW f \in focus
    PROVE  /\ Meant(NULL, calls, f) = IF m.value[f] # Unset THEN m.value[f] ELSE NULL
           /\ m.value[f] # NULL
<1>1. m.value[f] \in ValuesOf(E, f) \cup {Unset}
  BY DEF MutationOK, CallsOK
<1>2. Meant(NULL, calls, f) = Left(NULL, m, f)
  BY DEF Faithful, Meant
<1>3. Left(NULL, m, f) = IF m.value[f] # Unset THEN m.value[f] ELSE NULL
  BY DEF Left, Kept, FirstValues
<1> QED
  BY <1>1, <1>2, <1>3, NullAssumption, ListsAre DEF ValuesOf

\* What a create inserts is what its calls mean, after its defaults.
LEMMA InsertMeans ==
    ASSUME EntInv, FaithfulInv, NEW b \in Builders, builder[b].op = "create", builder[b] # Idle,
           NEW r
    PROVE  Inserted(Defaulted(builder[b].mutation)) = MeantRow(b, r)
<1> DEFINE m == builder[b].mutation
           calls == builder[b].calls
<1>1. /\ MutationOK(E, focus, m) /\ Faithful(E, focus, calls, m) /\ FirstValues(focus, m)
      /\ Fits(E) /\ focus \subseteq E.columns
  BY WorkingIs, FocusIs DEF EntInv, FaithfulInv
<1>2. Defaulted(m).value = [f \in focus |->
         IF m.value[f] = Unset /\ f \in E.defaults THEN Good ELSE m.value[f]]
  BY <1>1 DEF Defaulted, MutationOK, AMutation
<1>3. MeantRow(b, r) = [f \in focus |->
         IF Meant(NULL, calls, f) = NULL /\ f \in E.default THEN Good ELSE Meant(NULL, calls, f)]
  BY DEF MeantRow
<1> HIDE DEF m, calls
<1>4. ASSUME NEW f \in focus
      PROVE  (IF IsSet(Defaulted(m), f) /\ <<"Set", f>> \in E.spec.create
              THEN Defaulted(m).value[f] ELSE NULL)
                = IF Meant(NULL, calls, f) = NULL /\ f \in E.default THEN Good
                  ELSE Meant(NULL, calls, f)
  <2>1. <<"Set", f>> \in E.spec.create /\ (f \in E.default <=> f \in E.defaults)
    BY <1>1 DEF Fits, WritesOK, DefaultsOK
  <2>2. Good # Unset
    BY NullAssumption, ListsAre
  <2> QED
    BY <1>1, <1>2, <2>1, <2>2, CreateTold DEF IsSet
<1>5. Inserted(Defaulted(m)) = [f \in focus |->
         IF IsSet(Defaulted(m), f) /\ <<"Set", f>> \in E.spec.create
         THEN Defaulted(m).value[f] ELSE NULL]
  BY DEF Inserted
<1> QED
  BY <1>3, <1>4, <1>5 DEF m

\* An update that is saved leaves the row its calls mean.
LEMMA SaveMeans ==
    ASSUME EntInv, FaithfulInv, NEW b \in Builders, NEW op \in {"update", "updateOne"},
           NEW missing \in {"unmatched", "not_found"}, Save(b, op, missing),
           result'.how = "saved"
    PROVE  LET r == builder[b].id IN
           /\ builder[b].op # "create" /\ r \in Rows /\ rows[r] # Absent
           /\ rows' = [rows EXCEPT ![r] = MeantRow(b, r)]
<1> DEFINE r == builder[b].id
           m == builder[b].mutation
           calls == builder[b].calls
           row == [f \in focus |-> Updated(rows[r][f], op, m, f)]
<1>1. builder[b].op = op /\ builder[b] # Idle
  BY IdleOp DEF Save
<1>2. r \in Rows /\ rows[r] # Absent /\ rows' = [rows EXCEPT ![r] = row]
  BY SaveKeeps
<1>3. MutationOK(E, focus, m) /\ Faithful(E, focus, calls, m)
  BY <1>1, WorkingIs DEF FaithfulInv
<1>4. \A f \in focus : ColumnOK(E, f, rows[r][f])
  BY <1>2 DEF EntInv, RowsInv, RowOK
<1>5. MeantRow(b, r) = [f \in focus |->
         IF f \in E.immutable THEN rows[r][f] ELSE Meant(rows[r][f], calls, f)]
  BY <1>1 DEF MeantRow
<1> HIDE DEF m, calls, r
<1>6. \A f \in focus : Updated(rows[r][f], op, m, f) =
                          IF f \in E.immutable THEN rows[r][f] ELSE Meant(rows[r][f], calls, f)
  BY <1>3, <1>4, UpdateMeans DEF EntInv
<1>7. row = MeantRow(b, r)
  BY <1>5, <1>6
<1> HIDE DEF row
<1> QED
  BY <1>1, <1>2, <1>7 DEF r

(***************************************************************************)
(* A chain that is saved has the effect of its calls, in their order, on   *)
(* the row as it is when Save runs, whatever calls it is made of.          *)
(***************************************************************************)
THEOREM SavesWhatWasCalledAlways == Spec => SavesWhatWasCalled
<1> DEFINE Meaning == \A b \in Builders : SavedBy(b) =>
              \E r \in Rows :
                 /\ builder[b].op = "create" => rows[r] = Absent
                 /\ builder[b].op # "create" => r = builder[b].id /\ rows[r] # Absent
                 /\ rows' = [rows EXCEPT ![r] = MeantRow(b, r)]
<1>1. ASSUME EntInv, FaithfulInv, [Next]_vars PROVE Meaning
  <2> SUFFICES ASSUME NEW b \in Builders, SavedBy(b)
               PROVE  \E r \in Rows :
                         /\ builder[b].op = "create" => rows[r] = Absent
                         /\ builder[b].op # "create" => r = builder[b].id /\ rows[r] # Absent
                         /\ rows' = [rows EXCEPT ![r] = MeantRow(b, r)]
    OBVIOUS
  <2>1. builder[b] # Idle /\ builder'[b] # builder[b] /\ result'.how = "saved"
    BY DEF SavedBy
  <2>2. CASE SaveCreate(b)
    <3>1. builder[b].op = "create"
      BY <2>2 DEF SaveCreate
    <3>2. PICK r \in Rows : /\ rows[r] = Absent
                            /\ rows' = [rows EXCEPT ![r] = Inserted(Defaulted(builder[b].mutation))]
      BY <1>1, <2>1, <2>2, SaveCreateKeeps
    <3>3. Inserted(Defaulted(builder[b].mutation)) = MeantRow(b, r)
      BY <1>1, <2>1, <3>1, InsertMeans
    <3> QED
      BY <3>1, <3>2, <3>3
  <2>3. CASE SaveUpdate(b) \/ SaveUpdateOne(b)
    BY <1>1, <2>1, <2>3, SaveMeans DEF SaveUpdate, SaveUpdateOne
  <2> QED
    BY <1>1, <2>1, <2>2, <2>3, WhoEnds
<1>2. EntInv /\ FaithfulInv /\ [Next]_vars => Meaning
  BY <1>1
<1> HIDE DEF Meaning
<1>3. Spec => [][Meaning]_vars
  BY <1>2, EntInit, EntNext, FaithfulInit, FaithfulNext, PTL DEF Spec
<1> QED
  BY <1>3 DEF SavesWhatWasCalled, Meaning

\* A value check() finds bad is one the calls mean.
LEMMA BadIsMeant ==
    ASSUME EntInv, FaithfulInv, NEW b \in Builders, builder[b] # Idle,
           NEW f \in focus \cap E.limited, builder[b].mutation.value[f] = Bad
    PROVE  Meant(NULL, builder[b].calls, f) = Bad
<1> DEFINE m == builder[b].mutation
           calls == builder[b].calls
<1>1. MutationOK(E, focus, m) /\ Faithful(E, focus, calls, m) /\ Fits(E)
  BY WorkingIs, FocusIs DEF EntInv, FaithfulInv
<1> HIDE DEF calls
<1>2. m.value[f] = Bad
  OBVIOUS
<1> HIDE DEF m
<1>3. m.added[f] = 0 /\ m.appended[f] = <<>>
  BY <1>1 DEF MutationOK, CallsOK, Fits, LimitsOK
<1>4. Bad # Unset
  BY NullAssumption, ListsAre
<1>5. Left(NULL, m, f) = Bad
  BY <1>2, <1>3, <1>4 DEF Left, Kept
<1>6. Meant(NULL, calls, f) = Left(NULL, m, f)
  BY <1>1 DEF Faithful, Meant
<1> QED
  BY <1>5, <1>6 DEF calls

\* A mutation that check() refuses stands for a row that the schema forbids.
LEMMA RefusalMeans ==
    ASSUME EntInv, FaithfulInv, NEW b \in Builders, builder[b] # Idle,
           builder[b].op = "create" => ~Check("create", Defaulted(builder[b].mutation)),
           builder[b].op # "create" => ~Check(builder[b].op, builder[b].mutation)
    PROVE  \/ \E f \in focus \cap E.limited : Meant(NULL, builder[b].calls, f) = Bad
           \/ /\ builder[b].op = "create"
              /\ \E f \in focus \ (E.optional \cup E.default) :
                    Meant(NULL, builder[b].calls, f) = NULL
<1> DEFINE m == builder[b].mutation
           op == builder[b].op
<1>1. /\ MutationOK(E, focus, m) /\ Fits(E) /\ op \in Ops
      /\ Faithful(E, focus, builder[b].calls, m)
      /\ op = "create" => FirstValues(focus, m)
  BY WorkingIs, FocusIs DEF EntInv, FaithfulInv
<1>2. Defaulted(m).value = [f \in focus |->
         IF m.value[f] = Unset /\ f \in E.defaults THEN Good ELSE m.value[f]]
  BY <1>1 DEF Defaulted, MutationOK, AMutation
<1>3. Good # Bad /\ Good # Unset
  BY NullAssumption, ListsAre
<1>4. ASSUME NEW f \in focus \cap E.validates[op], m.value[f] = Bad
      PROVE  \E g \in focus \cap E.limited : Meant(NULL, builder[b].calls, g) = Bad
  <2>1. f \in focus \cap E.limited
    BY <1>1 DEF Fits, MeaningOK
  <2> QED
    BY <1>4, <2>1, BadIsMeant
<1>5. CASE op = "create"
  <2>1. ~Check("create", Defaulted(m))
    BY <1>5
  <2> HIDE DEF m
  <2>2. CASE \E f \in focus \cap E.validates["create"] : Defaulted(m).value[f] = Bad
    BY <1>2, <1>3, <1>4, <1>5, <2>2
  <2>3. CASE \E f \in focus \cap E.requires : Defaulted(m).value[f] = Unset
    <3>1. PICK f \in focus \cap E.requires : Defaulted(m).value[f] = Unset
      BY <2>3
    <3>2. m.value[f] = Unset /\ f \notin E.defaults
      BY <1>2, <1>3, <3>1
    <3>3. f \in focus \ (E.optional \cup E.default)
      BY <1>1, <3>1, <3>2 DEF Fits, DefaultsOK
    <3>4. Meant(NULL, builder[b].calls, f) = NULL
      BY <1>1, <1>5, <3>2, CreateTold
    <3> QED
      BY <1>5, <3>3, <3>4
  <2> QED
    BY <2>1, <2>2, <2>3 DEF Check, IsSet
<1>6. CASE op # "create"
  <2>1. ~Check(op, m)
    BY <1>6
  <2> HIDE DEF m, op
  <2> QED
    BY <1>4, <1>6, <2>1 DEF Check
<1> QED
  BY <1>5, <1>6

(***************************************************************************)
(* check() has a reason the schema gives for every chain it refuses.       *)
(***************************************************************************)
THEOREM RefusedForCauseAlways == Spec => RefusedForCause
<1> DEFINE Caused == \A b \in Builders :
              builder[b] # Idle /\ builder'[b] = Idle /\ result'.how = "invalid" =>
                 \/ \E f \in focus \cap E.limited :
                       Meant(NULL, builder[b].calls, f) = Bad
                 \/ /\ builder[b].op = "create"
                    /\ \E f \in focus \ (E.optional \cup E.default) :
                          Meant(NULL, builder[b].calls, f) = NULL
<1>1. ASSUME EntInv, FaithfulInv, [Next]_vars PROVE Caused
  <2> SUFFICES ASSUME NEW b \in Builders, builder[b] # Idle, builder'[b] = Idle,
                      result'.how = "invalid"
               PROVE  \/ \E f \in focus \cap E.limited :
                            Meant(NULL, builder[b].calls, f) = Bad
                      \/ /\ builder[b].op = "create"
                         /\ \E f \in focus \ (E.optional \cup E.default) :
                               Meant(NULL, builder[b].calls, f) = NULL
    OBVIOUS
  <2>1. SaveCreate(b) \/ SaveUpdate(b) \/ SaveUpdateOne(b)
    BY <1>1, WhoEnds
  <2>2. /\ builder[b].op = "create" => ~Check("create", Defaulted(builder[b].mutation))
        /\ builder[b].op # "create" => ~Check(builder[b].op, builder[b].mutation)
    <3>1. CASE SaveCreate(b)
      <4>1. builder[b].op = "create"
        BY <3>1 DEF SaveCreate
      <4> QED
        BY <1>1, <3>1, <4>1, SaveCreateKeeps
    <3>2. CASE SaveUpdate(b) \/ SaveUpdateOne(b)
      <4>1. PICK op \in {"update", "updateOne"}, missing \in {"unmatched", "not_found"} :
               Save(b, op, missing)
        BY <3>2 DEF SaveUpdate, SaveUpdateOne
      <4>2. builder[b].op = op /\ ~Check(op, builder[b].mutation)
        BY <1>1, <4>1, SaveKeeps
      <4> QED
        BY <4>2
    <3> QED
      BY <2>1, <3>1, <3>2
  <2> QED
    BY <1>1, <2>2, RefusalMeans
<1>2. EntInv /\ FaithfulInv /\ [Next]_vars => Caused
  BY <1>1
<1> HIDE DEF Caused
<1>3. Spec => [][Caused]_vars
  BY <1>2, EntInit, EntNext, FaithfulInit, FaithfulNext, PTL DEF Spec
<1> QED
  BY <1>3 DEF RefusedForCause, Caused
==============================================================================
