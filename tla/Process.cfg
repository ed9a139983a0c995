SPECIFICATION MCSpec
CONSTANTS
    Callers = {x1, x2, x3}
    Overflow = overflow
    Requests = {r1, r2, r3, r4}
    Interval = 2
    Burst = 2
    MaxKeys = 1
    SweepInterval = 2
    Second = 2
    MaxDelay = 1
    MaxClock = 4
    x1 = x1
    x2 = x2
    Never = never
    NoOne = noOne
SYMMETRY Symmetry
INVARIANTS
    RateSound
PROPERTIES
    RetrySuffices
    RunTold
    LifetimesBounded
