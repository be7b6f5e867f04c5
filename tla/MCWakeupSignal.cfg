\* One process where nothing fails, two rows, no fairness for the poll.
CONSTANTS
    Workers = {w1}
    Items = {i1, i2}
    None = None
    Batch = 2
    Failures = FALSE
SPECIFICATION SignalSpec
PROPERTY SignalSuffices
