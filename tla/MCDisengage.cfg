SPECIFICATION FairSpec
CONSTANTS
  None = None
  Updates = {1, 2}
  Kind <- KindDelivery
  Chunks = 2
  Turns = {t1}
  ClaimLimit = 2
  MaxAttempts = 1
  MaxBoots = 1
PROPERTY
  DisengageCompletes
CHECK_DEADLOCK FALSE
