\* One servo and one attempt a write, under fairness.
SPECIFICATION FairSpec
CONSTANTS
  NumServos = 1
  MaxLevel = 1
  WriteAttempts = 1
PROPERTY
  ShutDownCompletes
CHECK_DEADLOCK TRUE
