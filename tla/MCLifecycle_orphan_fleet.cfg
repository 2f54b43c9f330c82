SPECIFICATION Spec
CONSTANTS
    Instances = {i1, i2}
    Runs = {r1, r2}
    Destroys = {d1}
    Switches = {}
    NoContainer = NoContainer
    WaitExpires = FALSE
    Serial = FALSE
    MaxDeaths = 0
CHECK_DEADLOCK FALSE
INVARIANT NoOrphan
