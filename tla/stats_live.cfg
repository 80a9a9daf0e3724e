SPECIFICATION FairSpec
CONSTANTS
    s1 = s1
    TargetTasks = {t1, t2, t3}
    StepTasks = {}
    CommentTasks = {}
    StepOf <- AboutS1
    Losable = {}
    Workers = {w1, w2}
    NoTask = NoTask
    MaxAttempts = 2
    MaxFaults = 1
PROPERTIES
    QueueFair
    DuplicateStopsStatistics
CHECK_DEADLOCK FALSE
