SPECIFICATION RecoveringSpec
CONSTANTS
  LeaderSteps = 2
  FeedbackSteps = 1
  Depth = 1
  MaxRequests = 2
  MaxRestarts = 1
INVARIANT TypeOK
PROPERTIES Converges LastRequestWins
