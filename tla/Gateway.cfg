SPECIFICATION Spec
CONSTANTS
    a = a
    b = b
    x = x
SYMMETRY Symmetry
INVARIANTS
    StreamIsResponse
    CallsAnswered
PROPERTIES
    SteeringSafe
    ItemsSound
