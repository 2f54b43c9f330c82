SPECIFICATION Spec
CONSTANTS
    Deliveries = {d1}
    Probes = {p1}
    Crons = {c1}
    Triggers = {t1}
    Agents = {a1}
    OnCluster = {a1}
    Refusable = {a1}
    MaxPerAgent = 2
    QueueMax = 1
    FireBuffer = 1
    Quota = 1
    MaxOthers = 0
    MaxStops = 1
    MaxKills = 1
    NoFiring = NoFiring
CHECK_DEADLOCK FALSE
INVARIANTS SlotsExact SlotsWithinLimit NeverOverbooked RefusedLeavesNothing AcceptedIsKept
 
