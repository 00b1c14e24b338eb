SPECIFICATION Spec
CONSTANTS
  NumServos = 2
  MaxLevel = 1
  WriteAttempts = 2
INVARIANT
  ShutDownDisablesTorque
