SPECIFICATION FairSpec
CONSTANTS
    Levels = {97, 98}
    BatteryFull = 98
    AutoDisable = FALSE
    None = None
    MaxChanges = 2
INVARIANTS
    TypeOK
    DockedIsHome
    AnswersAreCurrent
    EngagedIsReported
PROPERTIES
    TelemetryFollows
