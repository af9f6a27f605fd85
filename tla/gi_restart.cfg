SPECIFICATION FairSpec
CONSTANTS
    Local <- DualStack
    MaxDeaths = 4
INVARIANTS
    TypeOK
    ServingReady
PROPERTIES
    InitOnce
    ServesAgain
CHECK_DEADLOCK FALSE
