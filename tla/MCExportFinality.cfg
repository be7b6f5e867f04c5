CONSTANTS
    Users = {u1}
    Workers = {w1, w2}
    Jobs = {j1}
    None = None
    MaxAttempts = 1
    MaxOutstanding = 1
    MaxPerDay = 1
    Dialect = "postgres"
SPECIFICATION Spec
PROPERTIES CompletedIsFinal
