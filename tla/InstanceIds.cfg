SPECIFICATION Spec
CONSTANTS
    Chunk = 2
    WordBits = 4
    MaxId = 5
    SavedSets = {{}, {1, 3}, {2, 5}, {4}}
    Threads = {t1, t2}
    NoId = NoId
INVARIANTS
    UniqueInsideVector
    LowestIfAlone
