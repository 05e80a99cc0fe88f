SPECIFICATION Spec
CONSTANTS
    Threads = {t1, t2}
    NoThread = NoThread
    MaxProbes = 1
    MaxMissed = 1
    Hosts <- MCHosts
    Main = t1
    Functions <- MCFunctions
    Sites <- MCSites
    NumSlots = 7
    Data = "Data"
    Torn = "Torn"
    Nothing = "Nothing"
    MaxFunctions = 4
    MaxOwners = 4
    MaxCallSites = 2
    MaxRefusals = 1
    Roles = {"gecko", "chromium"}
    Callers = {"c1", "c2"}
    Settings <- MCSettings
    Addresses = {1, 2}
    MaxIds = 3
    Contents = {"static", "variable", "empty"}
    Variable = {"variable"}
    Plain = {"static"}
    Empty = "empty"
    Positions = {"bold"}
    Vectors = {1, 2, 3}
    MaxCachedTypefaces = 1
    MaxFaces = 1
    NoCaller = NoCaller
    None = None
    Unusable = Unusable
INVARIANTS TypeOK CallsReachTheHost AllOrNothing TypefacesKeepTheirBytes
PROPERTIES LibxulIsFound
CHECK_DEADLOCK FALSE
