SPECIFICATION FairSpec
CONSTANTS
    Instances = {i1}
    Runs = {r1, r2}
    Destroys = {d1}
    Switches = {s1}
    NoContainer = NoContainer
    WaitExpires = TRUE
    Serial = FALSE
    MaxDeaths = 1
CHECK_DEADLOCK FALSE
PROPERTIES
    
    ProvisioningSettles
