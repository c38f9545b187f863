SPECIFICATION Spec
CONSTANTS
    Missions = {m1, m2}
    TasksPerMission = 2
    None = None
    InspectionsMax = 4
    MissionsMax = 2
    MaxAttempts = 1
    MaxRuns = 2
    MaxEvents = 2
INVARIANT
    DeliveredOnce
