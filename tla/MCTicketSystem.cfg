CONSTANTS
    SecondsPerDay = 1
    IntValues = 16
    Tvm = Tvm
    Gates = {g1}
    Malformed = Malformed
    NoCall = NoCall
    MaxDeliveries = 2
    MaxShown = 2
    Workers = {w1}
    NoWorker = NoWorker
    Validities = {1, 2}
    Dates = {0}
    MaxClock = 2
    MaxCrashes = 1
    Faults = {}
    MaxFaults = 0
SPECIFICATION Spec
INVARIANT TypeOK
INVARIANT SoldPerDelivery
INVARIANT OrphansPaidFor
INVARIANT VerdictFitsDates
INVARIANT RefusalStands
PROPERTY ImplementsOffice
CHECK_DEADLOCK FALSE
