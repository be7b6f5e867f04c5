\* One job passed between two processes, up to two attempts, on PostgreSQL.
CONSTANTS
    Users = {u1}
    Workers = {w1, w2}
    Jobs = {j1}
    None = None
    MaxAttempts = 2
    MaxOutstanding = 1
    MaxPerDay = 1
    Dialect = "postgres"
SPECIFICATION FairSpec
INVARIANTS TypeOK RowChecks CancelledNeverPublishes OwnerFencesAttempt
PROPERTIES SweepSparesRetries ImplementsPromise EverySubmissionSettles
