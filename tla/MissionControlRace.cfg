SPECIFICATION Spec
CONSTANTS
    Planned = {p1}
    Stored = {}
    Home = {}
    Foreign = {o1}
    None = None
    AutoDisableProtectiveStop = FALSE
    MonitorOverlapsStart = FALSE
    MaxCommands = 1
    MaxInFlight = 1
INVARIANT
    StatusIsHonest
