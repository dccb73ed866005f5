SPECIFICATION FairSpec
CONSTANTS
    m1 = m1
    m2 = m2
    BaseMaps = {m1, m2}
    Instances = {i1, i2, i3}
    Owner <- MCOwner
    Threads = {t1, t2}
    HighWater = 2
    NoMap = NoMap
INVARIANTS
    PendingCounts
    Exclusive
    NoLostWakeup
    EachMapOnce
    NoDeletedMap
PROPERTIES
    WorldThreadReturns
