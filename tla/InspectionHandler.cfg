SPECIFICATION FairSpec
CONSTANTS
    Missions = {m1, m2}
    TasksPerMission = 2
    None = None
    InspectionsMax = 3
    MissionsMax = 2
    MaxAttempts = 2
    MaxRuns = 2
    MaxEvents = 1
INVARIANTS
    TypeOK
    DeliveredToItsMission
    TasksRemainPending
PROPERTY
    ListenerReturns
