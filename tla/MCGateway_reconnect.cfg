SPECIFICATION FairSpec
CONSTANTS
    MaxConns = 3
    MaxObjects = 3
    MaxSessions = 1
    MaxHandlers = 2
    MaxRestarts = 1
CHECK_DEADLOCK FALSE
INVARIANT AttachmentsServed
  
