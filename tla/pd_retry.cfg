SPECIFICATION Spec
CONSTANTS
    None = None
    e1 = e1
    e2 = e2
    s1 = s1
    c1 = c1
    d4 = d4
    d6 = d6
    r4 = r4
    Addr = {s1, c1}
    V6 = {c1}
    Local = {"v4", "v6"}
    LinkName = {s1, c1}
    FouName <- OwnName
    Prefix = {d4, d6, r4}
    V6Prefix = {d6}
    Private = {r4}
    Egress = {e1, e2}
    Annotations <- NoOrOneOrTwo
    Destinations <- TwoLists
    Faults = {"call", "kill", "timeout"}
    RetryInPlace = TRUE
INVARIANTS
    TypeOK
    AddConfigured
