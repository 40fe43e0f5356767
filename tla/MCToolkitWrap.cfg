SPECIFICATION Spec
CONSTANTS
    Interval = 1
    Lag = 1
    Usec = 2
    PerLowerRate = 3
    Word = 1000
    MaxUse = 1
    MaxTime = 8
    MaxResets = 1
    MaxFails = 0
    TickerMade <- BothTickers
INVARIANTS ThrottledWithinAggregate
CHECK_DEADLOCK FALSE
