SPECIFICATION Spec
CONSTANTS
    c1 = c1
    Clients = {c1}
    Systems <- mcSystems
    Configs <- mcConfigs
    Bridges <- mcBridges
    Events = {}
    MastersOf <- mcMastersOf
    Enriched <- mcEnriched
    Undecodable = {"bad"}
    Unmergeable <- mcUnmergeable
    None = None
    MaxWire = 3
    MaxReqs = 1
CONSTRAINT IdleUpstream
INVARIANTS
    TypeOK
    CachedMasters
    MonitorSafe
    SessionsConverge
    ConfigFirst
    NoBadConfig
PROPERTIES
    ResetsAreNeeded
    ServesConfigs
    ServesBridges
