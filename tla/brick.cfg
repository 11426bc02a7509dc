SPECIFICATION Spec
CONSTANTS
    p1 = p1
    p2 = p2
    Proc = {p1, p2}
    i1 = i1
    i2 = i2
    Id = {i1, i2}
    NoId = NoId
    Found = {}
    Commands = {"install", "add"}
    MayDie = FALSE
    MaxFiles = 1
    MaxCommands = 2
PROPERTIES
    VersionNeverFalls
SYMMETRY
    Interchangeable
CHECK_DEADLOCK FALSE
