SPECIFICATION FairSpec
CONSTANTS
    NumWorkers = 3
    NumTasks = 3
INVARIANTS
    IndInv
    PermitsMatchTasks
    TakenOnceInOrder
    ClosedMeansQuiet
    NoWorkerStarves
PROPERTIES
    EveryTaskRuns
    ShutdownReturns
CHECK_DEADLOCK FALSE
