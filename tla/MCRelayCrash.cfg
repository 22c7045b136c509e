SPECIFICATION Spec
CONSTANTS
  None = None
  Jobs = {1, 2}
  Connectors = {c1, c2}
  Turns = {t1, t2}
  Control = {}
  WithAttachments = {1}
  Oversized = {}
  AttachCapable = {c1, c2}
  BatchLimit = 2
  JobLease = 1
  SessionLease = 1
  JobTtl = 1
  QuietMs = 0
  MaxWaitMs = 0
  MaxLocalTurns = 1
  MaxBacklog = 1
  ClockRuns = FALSE
  MayKill = TRUE
  ThreadOf <- MCThreadOf
  ConvOf <- MCConvOf
SYMMETRY Symmetry
INVARIANTS
  TurnOwnsItsBatch
  AnsweredWhole
  LinesMatchInflight
PROPERTIES
  NoStartAfterAccept
CHECK_DEADLOCK FALSE
