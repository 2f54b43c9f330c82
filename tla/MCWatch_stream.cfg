SPECIFICATION FairSpec
CONSTANTS
    Writers = {p1}
    Changers = {c1}
    Watches = {w1}
    Runtime = {w1}
    InboxSize = 2
    Nothing = Nothing
CHECK_DEADLOCK FALSE
INVARIANTS TypeOK NoUpdateLost NoLostWakeup
PROPERTIES ClientsConverge SubscribersLeave WatchesEnd
