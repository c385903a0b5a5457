SPECIFICATION Spec
CONSTANTS
    Nil = Nil
    NoTable = NoTable
    NoTime = NoTime
    NoKey = NoKey
    Names <- mcNames
    Keys = {"9"}
    PeerRows = {"p", "q", "bad"}
    Ua <- mcUa
    Malformed = {"bad"}
    TooWide = {}
    OffWire = {"OBP"}
    Dashless = {"S"}
    VirtualBase <- mcVirtualBase
    Fan <- mcFan
    Topologies <- mcTopologies
    TopologyPatches <- mcTopologyPatches
    Dashboards <- mcDashboards
    Routings <- mcRoutings
    RoutingPatches <- mcRoutingPatches
    Voices = {"S-1"}
    V1Configs = {}
    V1Bridges = {}
CONSTRAINT NothingExpired
INVARIANTS
    TypeOK
    MastersTracked
    KnownArePublished
    NoStalePeers
PROPERTIES
    NoMasterVanishes
    StateIsIdempotent
