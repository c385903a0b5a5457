SPECIFICATION ProxySpec
CONSTANTS
    Nil = Nil
    NoTable = NoTable
    NoTime = NoTime
    NoKey = NoKey
    A = A
    S = S
    S0 = S0
    p = p
    bad = bad
    wide = wide
    T = T
    T2 = T2
    c1 = c1
    Names <- mcNames
    Keys = {T, T2}
    PeerRows = {p, wide}
    Ua <- mcUa
    Malformed = {bad}
    TooWide = {wide}
    OffWire = {}
    Dashless = {S}
    VirtualBase <- mcVirtualBase
    Fan <- mcFan
    Topologies <- mcTopologies
    TopologyPatches = {}
    Dashboards <- mcDashboards
    Routings <- mcRoutings
    RoutingPatches <- mcRoutingPatches
    Voices = {S0}
    V1Configs <- mcV1Configs
    V1Bridges <- mcV1Bridges
    Clients = {}
    Configs <- mcConfigs
    Bridges <- mcBridges
    MaxWire = 0
    MaxReqs = 100
VIEW WithoutRequests
INVARIANTS
    SentMeansCached
PROPERTIES
    SessionsShown
    ExpiredLegsEnd
