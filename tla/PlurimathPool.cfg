SPECIFICATION Spec
CONSTANTS
    MaxRequests = 3
    MaxWorkers = 2
    NoWorker = NoWorker
INVARIANTS
    TypeOK
    AnsweredOnce
    TimersMatchSlots
    OneLiveWorker
    NoOrphanSlot
PROPERTIES
    EveryRenderAnswered
    ServiceSpec
\* The pool is idle, not stuck, when every request is answered.
CHECK_DEADLOCK FALSE
