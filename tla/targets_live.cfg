SPECIFICATION FairSpec
CONSTANTS
    Users = {u1}
    NoUser = NoUser
    Requests = {r1, r2}
    Ops = {"create", "delete", "step", "step_hard", "done"}
    MaxTargets = 2
    MaxFaults = 0
INVARIANTS
    StepMovesTarget
    ProgressReachesParent
PROPERTIES
    RegressOnlyStale
    HandlersEnd
