\* Two processes that may die, two rows, a batch of two.
CONSTANTS
    Workers = {w1, w2}
    Items = {i1, i2}
    None = None
    Batch = 2
    Failures = TRUE
SPECIFICATION PolledSpec
INVARIANTS TypeOK NoMissedSignal
PROPERTY PickedUp
