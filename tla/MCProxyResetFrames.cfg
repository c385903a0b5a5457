SPECIFICATION Spec
CONSTANTS
    c1 = c1
    Clients = {c1}
    Systems <- mcSystems
    Configs = {"oneMaster", "twoMasters"}
    Bridges = {}
    Events = {}
    MastersOf <- mcMastersOf
    Enriched <- mcEnriched
    Undecodable = {}
    Unmergeable = {}
    None = None
    MaxWire = 3
    MaxReqs = 1
INVARIANTS
    NoUnknownMaster
