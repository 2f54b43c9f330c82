SPECIFICATION FairSpec
CONSTANTS
    h = h
    p = p
    Sides = {h, p}
    Host = h
    MaxEdits = 3
    MaxEvents = 3
CHECK_DEADLOCK FALSE
INVARIANTS  HeldIsTrue
PROPERTY ConvergesUncrossed
