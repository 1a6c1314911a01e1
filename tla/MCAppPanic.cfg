SPECIFICATION Safety
CONSTANTS
    a = a
    b = b
    v1 = v1
    v2 = v2
    Names = {a, b}
    None = None
    Cfgs = {v1, v2}
    Rejected = {}
    Unbuildable = {}
    Metrics = TRUE
    Watching = TRUE
    Configs <- TwoConfigs
    MaxReloads = 1
    MaxInst = 4
CHECK_DEADLOCK FALSE
INVARIANTS
    NoDoubleClose
