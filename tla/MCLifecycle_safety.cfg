SPECIFICATION Spec
CONSTANTS
    Instances = {i1, i2}
    Runs = {r1, r2}
    Destroys = {d1}
    Switches = {s1}
    NoContainer = NoContainer
    WaitExpires = TRUE
    Serial = TRUE
    MaxDeaths = 1
CHECK_DEADLOCK FALSE
SYMMETRY Symmetry
INVARIANTS 
    NoOrphan
    ProvisioningHasRun
    SettledRecordIsTrue
PROPERTIES NoResurrection
    NoDataLoss
