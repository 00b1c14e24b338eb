SPECIFICATION FairSpec
CONSTANTS
  NumBoards = 2
  NumServos = 1
  MaxLevel = 1
  MaxFaults = 1
PROPERTIES
  OffRequestHonored
  DeadThreadShutsDown
CHECK_DEADLOCK TRUE
