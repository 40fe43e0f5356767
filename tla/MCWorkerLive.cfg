SPECIFICATION Spec
CONSTANTS
    DeltaMemory = 64
    BasicGiBValue = 1024
    MilliPerCpu = 100
    maxQuota <- MCMaxQuota
    Table <- MCTable
    Limits <- OneLimit
    MaxUid = 1
    MaxRv = 2
    MaxCalls = 2
    MaxTicks = 2
    Cap = 1
    Builds <- LiveBuilds
PROPERTIES EventsHandled CancelStops
CHECK_DEADLOCK FALSE
