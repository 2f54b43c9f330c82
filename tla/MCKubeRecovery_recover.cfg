SPECIFICATION FairSpec
CONSTANTS
    MaxKeys = 1
    MaxEvents = 5
CHECK_DEADLOCK FALSE
  
PROPERTIES  PassSparesTheLiving  RebuildSettles
