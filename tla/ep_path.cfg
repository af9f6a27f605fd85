SPECIFICATION PathFairSpec
CONSTANTS
    None = None
    NoFile = NoFile
    s1 = s1
    d4 = d4
    r4 = r4
    i4 = i4
    ClientPod = client
    Addr = {s1}
    V6 = {}
    Local = {"v4"}
    LinkName = {s1}
    FouName <- OwnName
    Prefix = {d4, r4}
    V6Prefix = {}
    Private = {r4}
    Egress <- Egresses
    Annotations <- Lists
    Destinations <- OneList
    Faults = {"call", "timeout"}
    RetryInPlace = FALSE
    Version = {v1}
    ClientIPs <- OneIP
    Serveable = {i4}
    OwnEgress <- Nat1
    Created <- OnlyNat1
    PodAnnotations <- NoOrOneOrList
INVARIANTS RoundTrip PluginWhole
PROPERTIES EventuallyConnected
