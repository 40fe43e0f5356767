SPECIFICATION Spec
CONSTANTS
    DeltaMemory = 64
    BasicGiBValue = 1024
    MilliPerCpu = 100
    maxQuota <- MCMaxQuota
    Table <- MCTable
    Limits <- OneLimit
    MaxUid = 1
    MaxRv = 3
    MaxCalls = 3
    MaxTicks = 2
    Cap = 1
    Builds <- LiveBuilds
PROPERTIES WritesQuota
CHECK_DEADLOCK FALSE
