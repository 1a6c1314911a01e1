SPECIFICATION Safety
CONSTANTS
    a = a
    b = b
    v1 = v1
    v2 = v2
    Names = {a, b}
    None = None
    Cfgs = {v1, v2}
    Rejected = {}
    Unbuildable = {}
    Metrics = TRUE
    Watching = TRUE
    Configs <- ThreeConfigs
    MaxReloads = 2
    MaxInst = 5
CHECK_DEADLOCK FALSE
INVARIANTS
    TypeOK
    FailuresStayLocal
    ReachableUnlessRaced
PROPERTIES
    UnchangedUntouched
