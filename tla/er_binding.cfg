SPECIFICATION Spec
CONSTANTS
    None = None
    Egress = {e1, e2}
    Namespace = {e1, e2}
    NS <- OwnNamespace
    Specs <- Fixed
    Reports <- Silent
    MaxUid = 2
    Foreground = FALSE
    Lag = {"egress", "crb"}
    Faults = {"crash"}
INVARIANT BindingConverged
CHECK_DEADLOCK FALSE
SYMMETRY EgressSymmetry
