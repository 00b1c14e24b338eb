SPECIFICATION FailingReadsSpec
CONSTANTS
  LeaderSteps = 1
  FeedbackSteps = 1
  Depth = 1
  MaxRequests = 2
  MaxRestarts = 0
PROPERTY ReportsHardwareState
