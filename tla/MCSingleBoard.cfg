\* Two servos, gains that are off or full, two attempts a write.
SPECIFICATION Spec
CONSTANTS
  NumServos = 2
  MaxLevel = 1
  WriteAttempts = 2
INVARIANTS
  TypeOK
  IdleIsCoherent
PROPERTY
  EnergizesFromZero
  KeepsSession
CHECK_DEADLOCK TRUE
