SPECIFICATION Spec
CONSTANTS
  Requests = {r1, r2}
  MaxExpiries = 0
  MaxFaults = 0
  MaxBlocks = 2
  MaxMoves = 1
INVARIANTS AcceptedIsNotOver
CHECK_DEADLOCK FALSE
