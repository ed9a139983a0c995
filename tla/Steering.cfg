SPECIFICATION MCSpec
CONSTANTS
    l1 = l1
    l2 = l2
    s1 = s1
    s2 = s2
    Lanes = {l1, l2}
    Steers = {s1, s2}
    MaxCreates = 2
    MaxOutstanding = 2
    MaxRoutes = 2
    MaxControls = 2
    MaxEchoes = 2
    Faults = {"expiry", "abort", "relay", "shutdown"}
    Settings = {"steerable", "over budget", "unsupported"}
SYMMETRY Symmetry
INVARIANTS
    EachSteerOnce
    LanesServed
PROPERTIES
    OutcomesInOrder
CHECK_DEADLOCK FALSE
