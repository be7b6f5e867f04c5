\* Two jobs of one account competing for one outstanding slot and two processes,
\* on a database that runs each statement on its own.
CONSTANTS
    Users = {u1}
    Workers = {w1, w2}
    Jobs = {j1, j2}
    None = None
    MaxAttempts = 1
    MaxOutstanding = 1
    MaxPerDay = 2
    Dialect = "sqlite"
SPECIFICATION Spec
SYMMETRY Interchangeable
INVARIANTS OutstandingBound
PROPERTIES ImplementsPromise
