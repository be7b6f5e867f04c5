\* One event and two processes, up to two attempts, any number of replays.
CONSTANTS
    Events = {e1}
    Channels = {webhook}
    Workers = {w1, w2}
    None = None
    MaxAttempts = 2
    Batch = 2
    Dialect = "sqlite"
SPECIFICATION FairSpec
INVARIANTS TypeOK OwnerFencesAttempt DeadLetterIsEarned
PROPERTIES ImplementsPromise SucceededIsFinal EveryDeliverySettles
