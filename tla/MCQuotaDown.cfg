SPECIFICATION LoopSpec
CONSTANTS
    DeltaMemory = 64
    BasicGiBValue = 1024
    MilliPerCpu = 100
    MaxRounds = 2
    maxQuota <- MCMaxQuota
    Tables <- CommittedTables
    Quotas <- TestQuotas
PROPERTIES ScaleDownAsksForNoMore
