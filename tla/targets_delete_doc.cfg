SPECIFICATION Spec
CONSTANTS
    Users = {u1}
    NoUser = NoUser
    Requests = {r1}
    Ops = {"create", "delete"}
    MaxTargets = 3
    MaxFaults = 0
PROPERTIES
    DeleteCascades
