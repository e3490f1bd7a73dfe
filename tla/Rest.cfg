SPECIFICATION Spec
CONSTANTS
    a = a
    b = b
    x = x
    NoDoc = NoDoc
    Docs <- Pair
    Refs <- PairRefs
    Excluded = {}
    MaxEdits = 0
    MaxSaves = 0
    MaxDeletes = 0
    MaxCommands = 1
    MaxHovers = 1
    MaxFailures = 0
    MaxEvents = 3
PROPERTY ComesToRest
\* The server is idle, not stuck, when no write is left.
CHECK_DEADLOCK FALSE
