CONSTANTS
    SecondsPerDay = 2
    IntValues = 16
    Workers = {w1}
    NoWorker = NoWorker
    Validities = {1, 18}
    Dates = {0, 1}
    MaxClock = 4
    MaxCreates = 3
    MaxCrashes = 1
    Faults = {}
    MaxFaults = 1
SPECIFICATION SafeSpec
PROPERTY MalformedHandled
