SPECIFICATION MCSpec
CONSTANTS
    Files = {f1}
    Replicas = {x1, x2}
    Deleters = {x3, x4}
    Tokens = {k1, k2, k3, k4, k5, k6, k7}
    Lease = 2
    MaxAge = 1
    MaxFaults = 1
    x1 = x1
    x2 = x2
    x3 = x3
    x4 = x4
    i1 = i1
    s1 = s1
    s2 = s2
    e1 = e1
    e2 = e2
    f1 = f1
    k1 = k1
    k2 = k2
    k3 = k3
    k4 = k4
    k5 = k5
    k6 = k6
    k7 = k7
SYMMETRY Symmetry
INVARIANTS
    ChainSound
    WalksComplete
    FilesSound
    BlobsSound
PROPERTIES
    ConversationSound
CHECK_DEADLOCK FALSE
