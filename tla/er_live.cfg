SPECIFICATION FairSpec
CONSTANTS
    None = None
    Egress = {e1}
    Namespace = {e1}
    NS <- OwnNamespace
    Specs <- Revised
    Reports <- Reporting
    MaxUid = 2
    Foreground = TRUE
    Lag = {"service"}
    Faults = {"call", "status"}
INVARIANT TypeOK
PROPERTY EventuallyConverged
CHECK_DEADLOCK FALSE
