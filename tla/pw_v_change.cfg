SPECIFICATION Spec
CONSTANTS
    a1 = a1
    a2 = a2
    c1 = c1
    None = None
    Pods = {p1, p2}
    Addr = {a1, a2}
    V6 = {}
    LinkName = {a1, a2}
    FouName <- OwnName
    Local = {"v4", "v6"}
    IPLists <- SingleStack
    Faults = {}
    AddressChange = TRUE
INVARIANT Converged
CHECK_DEADLOCK FALSE
SYMMETRY PodSymmetry
