SPECIFICATION Spec
CONSTANTS
    Users = {u1, u2}
    NoUser = NoUser
    Requests = {r1, r2}
    Ops = {"create", "delete", "done"}
    MaxTargets = 3
    MaxFaults = 1
SYMMETRY Symmetry
INVARIANTS
    TypeOK
    ForestOK
    DoneReachesParent
    ListReachesAll
    LookupsAgree
PROPERTIES
    OnlyOwnersChange
    ActsLikeForest
