SPECIFICATION Spec
CONSTANTS
  NumBoards = 2
  RingSize = 2
  LedgerSize = 2
  MaxEvents = 3
  MaxSessions = 2
  MaxDrops = 2
  MaxRaises = 1
INVARIANTS TypeOK LoggedOnce SkippedOnlyByEviction DocumentIsCurrent
PROPERTY NewestIsShown
