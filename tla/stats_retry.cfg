SPECIFICATION Spec
CONSTANTS
    s1 = s1
    TargetTasks = {t1}
    StepTasks = {s1}
    CommentTasks = {}
    StepOf <- AboutS1
    Losable = {}
    Workers = {w1}
    NoTask = NoTask
    MaxAttempts = 2
    MaxFaults = 1
INVARIANTS
    StepAddsOne
CHECK_DEADLOCK FALSE
