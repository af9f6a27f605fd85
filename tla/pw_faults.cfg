SPECIFICATION Spec
CONSTANTS
    a1 = a1
    a2 = a2
    c1 = c1
    None = None
    Pods = {p1, p2}
    Addr = {a1, c1}
    V6 = {c1}
    LinkName = {a1, c1}
    FouName <- OwnName
    Local = {"v4", "v6"}
    IPLists <- DualStack
    Faults = {"addPeer", "setup", "addClient", "delPeer", "crash", "replace"}
    AddressChange = FALSE
INVARIANT TypeOK
INVARIANT TunnelsMatch
INVARIANT Promised
INVARIANT Kept
PROPERTY Implements
CHECK_DEADLOCK FALSE
SYMMETRY PodSymmetry
