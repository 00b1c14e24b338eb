CONSTANTS
  RingSize = 2
  Servo = {1, 2}
  Foreign = 3
  Status = {0, 1, 2}
  HardwareAlert = 2
  WriteAttempts = 2
  MaxReads = 3
  MaxWrites = 1
  Torque <- MCTorque
  FeedLimit = 1
  FeedTimeout = 1
  FeedDepth = 1
  MaxFrames = 2
  MaxBreaks = 1
  StreamDepth = 2
  MaxSamples = 4
  MaxStreamFaults = 2
  MaxSignals = 3
  MaxEpisodes = 2
  MaxRecorded = 2
  MaxStarts = 3
  MaxCrashes = 1
  Dof = 2
  Home <- MCHome
  GripperSign <- MCGripperSign
  RawFrame <- MCRawFrame
  TorqueFrame <- MCTorqueFrame
  Grain <- MCGrain
  CurrentLimit = 2
  Turn = 4
  LimitMin <- MCLimitMin
  LimitMax = 2
  SlowBelow = 1
  SpringMax = 2
  Open = 0
  Closed <- MCClosed
  Targets <- MCTargets
  Triggers <- MCTriggers
  Speeds <- MCSpeeds
  Gravities <- MCGravities
  MaxBranch = 1
  StateTopic = {s1}
  Camera = {c1, c2}
  Horizon = 2
  Chunk = 2
  MaxSteps = 4
  MaxPresses = 2
  OrderDepth = 2
  MaxOrders = 4
  ServoIds <- MCServoIds
  AllDevices = 254
  MaxRequests = 3
SPECIFICATION MCSpec
INVARIANTS PartsTypeOK SampleIsOneAnswer CountersCoverEvents EventsTellAlerts OnlyGoodFramesApply PublishesOwnEffort TeardownInOrder SavedPairsUp CalibrationsAgree AbsentJointsRest MotorsDoTheWork PullsTheShortWay EnsembleIsForNow RolloutPairsUp AnswersAreRecent
PROPERTIES EpisodesAreKept ForceLetsGo ClientNeverGoesBack NewestReachesClient SignalStopsAll LastOrderArrives
CHECK_DEADLOCK FALSE
