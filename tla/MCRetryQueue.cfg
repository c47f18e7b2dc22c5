CONSTANTS
    Pushers = {p1, p2}
    MaxSize = 3
    MaxPush = 7
SPECIFICATION ReachableSpec
INVARIANT TypeOK
INVARIANT PopSafe
INVARIANT NewestKept
INVARIANT LossIsPaidFor
PROPERTY NeverBackwards
PROPERTY EventuallyReported
PROPERTY ImplementsFeed
