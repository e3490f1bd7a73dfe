SPECIFICATION Spec
CONSTANTS
    Docs = {a, b}
    MaxVersion = 3
    MaxSaves = 2
INVARIANTS
    NothingLeftBehind
PROPERTIES
    ReadyMeansLinked
    ChangesArrive
\* The server is idle, not stuck, when no write is left.
CHECK_DEADLOCK FALSE
