\* One failing servo among three on a board.
SPECIFICATION Spec
CONSTANTS
  NumBoards = 1
  NumServos = 3
  MaxLevel = 1
  MaxFaults = 1
INVARIANT
  ShutDownDisablesAllTorque
