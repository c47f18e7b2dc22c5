CONSTANTS
    SecondsPerDay = 1
    IntValues = 16
    Workers = {w1, w2}
    NoWorker = NoWorker
    Validities = {1}
    Dates = {0, 1}
    MaxClock = 2
    MaxCreates = 3
    MaxCrashes = 1
    Faults = {"write"}
    MaxFaults = 1
SPECIFICATION Spec
INVARIANT FreshIds
INVARIANT AckedKept
INVARIANT ExpiredIsForever
PROPERTY ImplementsLog
PROPERTY Answered
