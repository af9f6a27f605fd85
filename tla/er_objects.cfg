SPECIFICATION HSpec
CONSTANTS
    None = None
    Egress = {e1}
    Namespace = {e1}
    NS <- OwnNamespace
    Specs <- Sparse
    Reports <- Reporting
    MaxUid = 2
    Foreground = FALSE
    Lag = {"egress", "deployment"}
    Faults = {"status", "crash"}
INVARIANT ObjectsConverged
INVARIANT StatusConverged
CHECK_DEADLOCK FALSE
