SPECIFICATION MCSpec
CONSTANTS
    Clients = {x1, x2}
    DrainTimeout = 2
    Launched = TRUE
    x1 = x1
    x2 = x2
INVARIANTS
    ServerSound
PROPERTIES
    SignalEnds
    TurnsEnd
    StoresSettle
