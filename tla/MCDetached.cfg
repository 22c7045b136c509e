SPECIFICATION Spec
CONSTANTS
  Updates = {1, 2}
  Situations <- MCDetached
  Chunks = 1
  MaxAttempts = 2
  MaxTurns = 2
INVARIANT OneLiveTurn
CHECK_DEADLOCK FALSE
