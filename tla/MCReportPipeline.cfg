CONSTANTS
    g1 = g1
    g2 = g2
    Gates = {g1, g2}
    GateIds <- MCGateIds
    Default = Default
    Empty = Empty
    None = None
    MaxCount <- MCMaxCount
    MaxBreaks = 1
    MaxDeaths = 1
    MaxBoots = 2
SPECIFICATION Spec
INVARIANT TypeOK
INVARIANT StaleOnlyIfLate
PROPERTY ReaderForward
PROPERTY AllReported
PROPERTY KnownAgain
