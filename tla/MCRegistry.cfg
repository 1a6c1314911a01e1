SPECIFICATION Spec
CONSTANTS
    Names = {a, b}
    None = None
    Cfgs = {v1, bad, unparsed}
    Rejected = {unparsed}
    Unbuildable = {bad, unparsed}
    Metrics = TRUE
    MaxInst = 3
CHECK_DEADLOCK FALSE
INVARIANTS
    TypeOK
    NoOrphan
    NoNodeLeak
    MapsAgree
    ServingNodeUp
    OneLiveNode
    NoDoubleClose
    GaugeCounts
PROPERTIES
    KeepsItsPromise
    CallsReturn
    AllNodesGivenUp
