SPECIFICATION FairSpec
CONSTANTS
  Updates = {1, 2, 3}
  Situations <- MCSituations
  Chunks = 2
  MaxAttempts = 2
  MaxTurns = 6
INVARIANTS
  TypeOK
  RecordHeld
  AnswerMatchesRow
  PartsInOrder
  OneLiveTurnUnlessLost
PROPERTIES
  SentOnce
  UpdatesSettle
  AsksSettle
CHECK_DEADLOCK FALSE
