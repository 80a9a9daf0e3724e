SPECIFICATION Spec
CONSTANTS
    s1 = s1
    TargetTasks = {t1}
    StepTasks = {s1}
    CommentTasks = {c1}
    StepOf <- AboutS1
    Losable = {s1}
    Workers = {w1, w2}
    NoTask = NoTask
    MaxAttempts = 2
    MaxFaults = 1
INVARIANTS
    TypeOK
    CountedUnlessClobbered
    StepFeedbackOnce
PROPERTIES
    QueueSafe
SYMMETRY WorkerSymmetry
CHECK_DEADLOCK FALSE
