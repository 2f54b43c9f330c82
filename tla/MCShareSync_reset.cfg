SPECIFICATION ResetSpec
CONSTANTS
    h = h
    p = p
    Sides = {h, p}
    Host = h
    MaxEdits = 2
    MaxEvents = 3
CHECK_DEADLOCK FALSE
INVARIANT NothingDropped
