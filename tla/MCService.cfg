SPECIFICATION Spec
CONSTANTS
  None = None
  Updates = {1, 2, 3}
  Kind <- KindService
  Chunks = 2
  Turns = {t1}
  ClaimLimit = 2
  MaxAttempts = 1
  MaxBoots = 2
INVARIANTS
  TypeOK
  DeliveredOnce
  ChunksInOrder
  FarewellFirst
PROPERTY
  ImplementsOutbound
CHECK_DEADLOCK FALSE
