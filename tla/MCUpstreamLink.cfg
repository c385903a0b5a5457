SPECIFICATION FairSpec
CONSTANTS
    MaxLevel = 4
    Requests <- mcRequests
    MaxReqs = 3
    None = None
INVARIANTS
    TypeOK
    NeverStranded
    RequestsReachTransport
PROPERTIES
    DelayFollowsOutcome
    EventuallyConnected
