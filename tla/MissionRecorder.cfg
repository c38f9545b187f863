SPECIFICATION FairSpec
CONSTANTS
    Missions = {m1}
    Cameras = {c1, c2}
    None = None
    Maintenance = Maintenance
    MaxSegments = 1
    MaxCalls = 1
    MaxRestarts = 1
INVARIANTS
    TypeOK
    OneFinalizer
    FootageKept
PROPERTIES
    KeepsPromise
    ProcessingEnds
    CatalogueSettles
