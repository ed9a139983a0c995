SPECIFICATION MCSpec
CONSTANTS
    Replicas = {y1, y2}
    Turns = {x1, x2, x3}
    None = none
    Lease = 1
    Ttl = 2
    MaxSkew = 1
    MaxClock = 1
    MaxPasses = 1
    x1 = x1
    x2 = x2
    x3 = x3
    y1 = y1
    y2 = y2
    i1 = i1
SYMMETRY Symmetry
INVARIANTS
    StreamIsTurn
    RoundsSound
    ReplayRestoresRounds
PROPERTIES
    ThreadsSound
    ImplementsThreadLog
