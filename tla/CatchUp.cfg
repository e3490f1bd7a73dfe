SPECIFICATION Spec
CONSTANTS
    a = a
    b = b
    x = x
    NoDoc = NoDoc
    Docs <- Pair
    Refs <- PairRefs
    Excluded = {}
    MaxEdits = 1
    MaxSaves = 1
    MaxDeletes = 0
    MaxCommands = 0
    MaxHovers = 0
    MaxFailures = 1
    MaxEvents = 3
PROPERTY DiagnosticsCatchUp
\* The server is idle, not stuck, when no write is left.
CHECK_DEADLOCK FALSE
