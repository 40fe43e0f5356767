SPECIFICATION Spec
CONSTANTS
    DeltaMemory = 64
    BasicGiBValue = 1024
    MilliPerCpu = 100
    maxQuota <- MCMaxQuota
    Table <- MCTable
    Limits <- MCLimits
    MaxUid = 2
    MaxRv = 3
    MaxCalls = 3
    MaxTicks = 1
    Cap = 1
    Builds <- AllBuilds
INVARIANTS TypeOK IInv NoEarlierLimits LimitsApplied
PROPERTIES MailboxSteps NoLostEdit
CHECK_DEADLOCK FALSE
