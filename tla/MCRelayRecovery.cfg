SPECIFICATION FairSpec
CONSTANTS
  None = None
  Jobs = {1, 2}
  Connectors = {c1}
  Turns = {t1, t2}
  Control = {}
  WithAttachments = {1}
  Oversized = {2}
  AttachCapable = {c1}
  BatchLimit = 2
  JobLease = 1
  SessionLease = 1
  JobTtl = 1
  QuietMs = 0
  MaxWaitMs = 0
  MaxLocalTurns = 0
  MaxBacklog = 2
  ClockRuns = TRUE
  MayKill = TRUE
  ThreadOf <- MCThreadOf
  ConvOf <- MCConvOf
INVARIANT
  TypeOK
PROPERTIES
  ImplementsStore
  UnacceptedMoves
  RecordingEnds
  AcceptedSettlesOrRelayDies
CHECK_DEADLOCK FALSE
