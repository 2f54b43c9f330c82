SPECIFICATION FairSpec
CONSTANTS
    Deliveries = {d1}
    Probes = {}
    Crons = {}
    Triggers = {t1}
    Agents = {a1, a2}
    OnCluster = {a1}
    Refusable = {}
    MaxPerAgent = 1
    QueueMax = 1
    FireBuffer = 1
    Quota = 1
    MaxOthers = 1
    MaxStops = 2
    MaxKills = 1
    NoFiring = NoFiring
CHECK_DEADLOCK FALSE
PROPERTY AcceptedSettles
