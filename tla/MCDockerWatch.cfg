SPECIFICATION Spec
CONSTANTS
    Containers = {c1}
    Garbled = Garbled
    Setups <- WithBad
    Labels <- BadLabels
    Ports <- BadPorts
    Self <- QuietSelf
    None = None
    Timers = {t1}
    Polling = TRUE
    Events = TRUE
    Lag = FALSE
    MaxChanges = 2
    MaxFaults = 1
    Stoppable = TRUE
CHECK_DEADLOCK FALSE
INVARIANTS
    TypeOK
    InStep
PROPERTIES
    StopDelivered
    WatchEnds
