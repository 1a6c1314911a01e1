SPECIFICATION Spec
CONSTANTS
    Containers = {c1, c2}
    Garbled = Garbled
    Setups <- ManySetups
    Labels <- ManyLabels
    Ports <- ManyPorts
    Self <- ManySelf
    None = None
    Timers = {t1}
    Polling = TRUE
    Events = FALSE
    Lag = TRUE
    MaxChanges = 2
    MaxFaults = 2
    Stoppable = FALSE
CHECK_DEADLOCK FALSE
INVARIANTS
    LabelsHonoured
PROPERTIES
    ConvergesUnlessLapsed
