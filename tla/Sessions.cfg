SPECIFICATION MCSpec
CONSTANTS
    Sessions = {s1, s2}
    Turns = {t1, t2, t3}
    MaxSessions = 2
    MaxBytes = 1
    Limit = 3
    Sizes = {1, 2}
    MaxPins = 1
    Waiters = {}
    a1 = a1
    a2 = a2
    c1 = c1
SYMMETRY Symmetry
INVARIANTS
    BudgetSound
    SerialLease
    ClosedCachesNothing
    HistoryContinuity
    DurableMeansStored
    CompactionSound
CHECK_DEADLOCK FALSE
