SPECIFICATION Spec
CONSTANTS
  None = None
  Updates = {1, 2}
  Kind <- KindDelivery
  Chunks = 1
  Turns = {t1}
  ClaimLimit = 2
  MaxAttempts = 1
  MaxBoots = 1
INVARIANT
  ExitsDrained
CHECK_DEADLOCK FALSE
