\* Two boards with two servos each, gains in two steps, two bus failures anywhere.
SPECIFICATION Spec
CONSTANTS
  NumBoards = 2
  NumServos = 2
  MaxLevel = 2
  MaxFaults = 2
INVARIANTS
  TypeOK
  TickStartsCoherent
  BoardsShutDownIndependently
PROPERTIES
  KeepsGate
CHECK_DEADLOCK TRUE
