SPECIFICATION Spec
CONSTANTS
    Targets = {t1, t2}
    NoTarget = NoTarget
    Names = {"a"}
    Requests = {r1, r2}
    MaxSteps = 3
    MaxUploads = 2
    MaxFaults = 1
    Word = 4
    DefaultPageSize = 2
INVARIANTS
    TypeOK
    StepHasItsFile
    FileHasItsStep
    PagesPartition
PROPERTIES
    LostStepsStay
    WalkSkipsOnlyDeleted
SYMMETRY Symmetry
CHECK_DEADLOCK FALSE
