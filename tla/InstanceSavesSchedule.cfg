SPECIFICATION Spec
CONSTANTS
    Players = {p1, p2}
    NumIds = 2
    MaxEvents = 1
    MaxRows = 1
    MaxGroupRows = 2
    MaxOpen = 1
    None = None
INVARIANT ScheduledWhenEmpty
