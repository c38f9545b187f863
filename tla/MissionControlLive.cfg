SPECIFICATION FairSpec
CONSTANTS
    Planned = {p1}
    Stored = {s1}
    Home = {h1}
    Foreign = {}
    None = None
    AutoDisableProtectiveStop = TRUE
    MonitorOverlapsStart = FALSE
    MaxCommands = 2
    MaxInFlight = 2
INVARIANTS
    StatusIsHonest
    BookkeepingMatches
PROPERTIES
    HomeFlagDropped
    FinishedRunIsReported
