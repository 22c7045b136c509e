SPECIFICATION FairSpec
CONSTANTS
  a1 = a1
  b1 = b1
  c1 = c1
  c2 = c2
  u1 = u1
  u2 = u2
  None = None
  Requests = {a1}
  GuestTurns = {a1}
  Receipts = {1, 2, 3}
  Results = {b1}
  Connectors = {c1, c2}
  Taps = {u1, u2}
  Window = 2
  MaxFailures = 2
  Scenes <- MCScenes
  MaxBacklog = 1
INVARIANTS
  TypeOK
  OneDecision
  FailuresKnown
PROPERTIES
  ImplementsApprovals
  RequestsReturn
  ReceiptsArrive
CHECK_DEADLOCK FALSE
