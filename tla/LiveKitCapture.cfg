SPECIFICATION FairSpec
CONSTANTS
    Tracks = {t1, t2}
    FirstFrame = 2
    Stall = 1
INVARIANTS
    TypeOK
    FootageClosed
PROPERTIES
    KeepsContract
    SilenceEnds
    CaptureEnds
CHECK_DEADLOCK FALSE
