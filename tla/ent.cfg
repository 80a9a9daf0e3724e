CONSTANTS
    Rows = {r1}
    Builders = {b1, b2}
    MaxCalls = 3
    MaxSize = 3
    NULL = NULL
    Unset = Unset
    Absent = Absent
    Zero = Zero
SPECIFICATION Spec
SYMMETRY ChainSymmetry
INVARIANTS
    CheckEnforcesTheSchema
    NamesReachTheirCalls
PROPERTIES
    SavesWhatWasCalled
    RefusedForCause
    
