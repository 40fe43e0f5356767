SPECIFICATION Spec
CONSTANTS
    Interval = 1
    Lag = 1
    Usec = 2
    PerLowerRate = 3
    Word = 1000
    MaxUse = 1
    MaxTime = 3
    MaxResets = 1
    MaxFails = 1
    TickerMade <- BothTickers
INVARIANTS TypeOK SamplesOrdered RatesExact BusyIdleOnlyIfClose IInv
PROPERTIES CancelStops
CHECK_DEADLOCK FALSE
