SPECIFICATION Spec
CONSTANTS
    Memories <- MCMemories
    MaxVersion = 2
    MaxTasks = 2
    MaxFails = 1
INVARIANTS
    TypeOK
    BusyIsPending
    TableShowsSnapshot
    EscLeadsHome
PROPERTIES
    BackgroundKeepsBoxes
    SettlesOnStore
CHECK_DEADLOCK FALSE
