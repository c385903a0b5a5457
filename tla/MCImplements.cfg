SPECIFICATION ProxySpec
CONSTANTS
    Nil = Nil
    NoTable = NoTable
    NoTime = NoTime
    NoKey = NoKey
    A = A
    S = S
    S0 = S0
    p = p
    bad = bad
    wide = wide
    T = T
    T2 = T2
    c1 = c1
    Names <- mcNames
    Keys = {T}
    PeerRows = {p, wide}
    Ua <- mcUa
    Malformed = {bad}
    TooWide = {wide}
    OffWire = {}
    Dashless = {S}
    VirtualBase <- mcVirtualBase
    Fan <- mcFan
    Topologies = {}
    TopologyPatches = {}
    Dashboards <- smallDashboards
    Routings <- mcRoutings
    RoutingPatches = {}
    Voices = {}
    V1Configs = {}
    V1Bridges = {}
    Clients = {c1}
    Configs <- smallConfigs
    Bridges <- smallBridges
    MaxWire = 3
    MaxReqs = 1
VIEW WithoutOut
CONSTRAINT QuietUpstream
PROPERTIES
    ImplementsUseCases
