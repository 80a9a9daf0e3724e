SPECIFICATION Spec
CONSTANTS
    s1 = s1
    TargetTasks = {t1}
    StepTasks = {s1}
    CommentTasks = {}
    StepOf <- AboutS1
    Losable = {}
    Workers = {w1, w2}
    NoTask = NoTask
    MaxAttempts = 1
    MaxFaults = 0
INVARIANTS
    OneRowPerDimension
CHECK_DEADLOCK FALSE
