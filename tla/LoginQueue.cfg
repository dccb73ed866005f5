SPECIFICATION Spec
CONSTANTS
    Accounts = {a, b, gm}
    Copies = {s1, s2}
    SkipQueue = {gm}
    Limits = {1, 2}
    Tolerance = 1
    MaxElapsed = 1
    MaxChanges = 1
    MaxPending = 1
    NoSession = NoSession
SYMMETRY Symmetry
INVARIANTS
    NoDanglingSession
    SlotsFilledToLimit
PROPERTIES
    NoOvertaking
