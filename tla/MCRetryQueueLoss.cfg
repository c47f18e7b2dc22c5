CONSTANTS
    Pushers = {p1}
    MaxSize = 3
    MaxPush = 7
SPECIFICATION SafeSpec
INVARIANT OnlyEvictionLoses
CHECK_DEADLOCK FALSE
