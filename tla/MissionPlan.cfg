SPECIFICATION Spec
CONSTANTS
    m1 = m1
    m2 = m2
    m3 = m3
    Missions <- MCMissions
    TasksOf <- MCTasksOf
    PlantObjects <- MCPlantObjects
    PlantRelations <- MCPlantRelations
    None = None
    NumRetries = 2
    MaxMissions = 3
INVARIANTS
    TypeOK
    PlantKept
    StartedPlanIsReady
    EveryTaskIsTried
CHECK_DEADLOCK FALSE
