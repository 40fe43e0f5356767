SPECIFICATION LoopSpec
CONSTANTS
    DeltaMemory = 64
    BasicGiBValue = 1024
    MilliPerCpu = 100
    MaxRounds = 2
    maxQuota <- MCMaxQuota
    Tables <- MCTables
    Quotas <- MCQuotas
INVARIANTS LoopTypeOK BestSoFar RoundTrip OneRungUpOneRungDown
PROPERTIES LoopsAgree StaysOnTable
