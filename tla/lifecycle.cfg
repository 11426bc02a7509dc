SPECIFICATION Spec
CONSTANTS
    p1 = p1
    p2 = p2
    Proc = {p1, p2}
    i1 = i1
    i2 = i2
    Id = {i1, i2}
    NoId = NoId
    Found = {4, 7}
    Commands = {"install", "purge", "uninstall", "add", "doctor"}
    MayDie = TRUE
    MaxFiles = 3
    MaxCommands = 3
INVARIANTS
    TypeOK
    OpenedHasTables
    ConfigNamesData
    CommandsKeepTheirWord
PROPERTIES
    MigrationsKeepMemories
SYMMETRY
    Interchangeable
CHECK_DEADLOCK FALSE
