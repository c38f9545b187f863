SPECIFICATION Spec
CONSTANTS
    Planned = {p1}
    Stored = {}
    Home = {h1}
    Foreign = {o1}
    None = None
    AutoDisableProtectiveStop = FALSE
    MonitorOverlapsStart = TRUE
    MaxCommands = 3
    MaxInFlight = 1
INVARIANTS
    TypeOK
    LeaseReturned
    RunSupervised
    HonestUnlessOvertaken
