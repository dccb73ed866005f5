SPECIFICATION Spec
CONSTANTS
    t0 = t0
    t1 = t1
    t2 = t2
    Tasks = {t0, t1, t2}
    Size <- MCSize
    loopBreaker = 2
    MaxLosses = 1
    MaxErrors = 0
    NoTask = NoTask
INVARIANT
    AllOrNothing
