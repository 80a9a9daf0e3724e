SPECIFICATION Spec
CONSTANTS
    Files = {f, g}
    Requests = {r1, r2}
    Workers = {w1}
    MaxAwards = 1
    MaxScore = 1
    MaxChanges = 2
    MaxFaults = 1
INVARIANTS
    TypeOK
    AchievedWhenReached
    ListedFilesExist
    FilesAreListed
PROPERTIES
    RealizedStays
SYMMETRY Symmetry
CHECK_DEADLOCK FALSE
