SPECIFICATION FairSpec
CONSTANTS
    t0 = t0
    t1 = t1
    t2 = t2
    Tasks = {t0, t1, t2}
    Size <- MCSize
    loopBreaker = 2
    MaxLosses = 3
    MaxErrors = 3
    NoTask = NoTask
INVARIANTS
    NoTransactionLeft
    RepeatedOnlyByLoss
PROPERTIES
    TaskEnds
    KeepsPromise
