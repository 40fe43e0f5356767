SPECIFICATION Spec
CONSTANTS
    n1 = n1
    n2 = n2
    Names <- MCNames
    MaxCalls = 3
    Cap = 2
    WorkerCap = 1
    Builds <- AllBuilds
INVARIANTS TypeOK Routing
PROPERTIES MailboxSpec EveryPodServed StopEndsWorkers
CHECK_DEADLOCK FALSE
