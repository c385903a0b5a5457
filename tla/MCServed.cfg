SPECIFICATION ServedSpec
CONSTANTS
    Nil = Nil
    NoTable = NoTable
    NoTime = NoTime
    NoKey = NoKey
    A = A
    S0 = S0
    p = p
    T = T
    c1 = c1
    Names <- mcNames
    Keys = {T}
    PeerRows = {p}
    Ua <- mcUa
    Malformed = {}
    TooWide = {}
    OffWire = {}
    Dashless = {}
    VirtualBase <- mcVirtualBase
    Fan <- mcFan
    Topologies = {}
    TopologyPatches = {}
    Dashboards <- mcDashboards
    Routings <- mcRoutings
    RoutingPatches = {}
    Voices = {}
    V1Configs = {}
    V1Bridges = {}
    Clients = {c1}
    Configs <- mcConfigs
    Bridges <- mcBridges
    MaxWire = 3
    MaxReqs = 2
    MaxChannel = 2
PROPERTIES
    TablesArrive
    MissOnlyBeforeHello
