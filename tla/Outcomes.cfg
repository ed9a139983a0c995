SPECIFICATION Spec
CONSTANTS
    x1 = x1
    x2 = x2
    Nobody = nobody
    Root = root
PROPERTIES
    RunEnds
    HelpersEnd
    Resolves
