SPECIFICATION FairSpec
CONSTANTS
    Threads = {c1, c2, w1, w2}
    Callers = {c1, c2}
    Workers = {w1, w2}
    None = None
    Lifetime = 6
    Margin = 2
    LoginDelay = 1
    SendDelay = 0
    Recovery = 6
INVARIANTS
    TypeOK
    OneWorker
    TokenIsFresh
PROPERTIES
    GivesUpInTime
    StreamsComeBack
