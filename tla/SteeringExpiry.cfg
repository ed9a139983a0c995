CONSTANTS
    Lanes = {l1}
    Steers = {s1}
    MaxCreates = 1
    MaxOutstanding = 2
    MaxRoutes = 2
    MaxControls = 1
    MaxEchoes = 1
    Faults = {"expiry"}
    Settings = {"steerable"}
SPECIFICATION FairSpec
PROPERTY Resolves
CHECK_DEADLOCK FALSE
