SPECIFICATION FairSpec
CONSTANTS
  None = None
  Updates = {1, 2, 3}
  Kind <- KindControls
  Chunks = 1
  Turns = {t1}
  ClaimLimit = 1
  MaxAttempts = 1
  MaxBoots = 1
PROPERTIES
  AwayTimerKept
  AwaySettles
CHECK_DEADLOCK FALSE
