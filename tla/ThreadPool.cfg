SPECIFICATION Spec
CONSTANTS
    Workers = {w1, w2}
    Producers = {p1, p2}
    Jobs = {j1, j2, j3}
    NoJob = NoJob
INVARIANTS
    TypeOK
    PermitsMatchTasks
    NoWrongWakeup
    CleanWhenStopped
PROPERTIES
    ImplementsTaskService
    StopReturns
    AcceptedTaskRuns
