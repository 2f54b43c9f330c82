SPECIFICATION FairSpec
CONSTANTS
    Relays = {r1}
    Waiters = {a1}
    LogHistory = 1
    Buffer = 1
    MaxCalls = 1
CHECK_DEADLOCK FALSE
INVARIANTS HistoryIsWhole StartedFirstDoneLast StreamInOrder EndsWithDone ReplayIsWhole
PROPERTY WatchersEnd
