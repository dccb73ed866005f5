SPECIFICATION FairSpec
CONSTANTS
    Callers = {c1, c2, ra}
    Remote = {ra}
    MaxAsync = 2
    NumSync = 2
    HighWater = 2
    MaxOps = 3
    NoOne = NoOne
INVARIANTS
    OvertakenOnlyInFlight
    ExecutedOnce
    LockedByUser
    DeletedUnused
PROPERTIES
    EventuallyExecuted
    EnqueueReturns
