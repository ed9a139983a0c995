SPECIFICATION MCSpec
CONSTANTS
    Calls = {c1, c2}
    Slots = 1
    c1 = c1
    c2 = c2
    c3 = c3
    NoFilter = NoFilter
    NoListing = NoListing
    NoConn = NoConn
    NoCall = NoCall
SYMMETRY Symmetry
INVARIANTS
    GuestsBounded
    ServersShared
    CallsPermitted
