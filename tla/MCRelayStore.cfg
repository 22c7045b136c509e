SPECIFICATION Spec
CONSTANTS
  c1 = c1
  c2 = c2
  t1 = t1
  t2 = t2
  None = None
  Jobs = {1, 2, 3}
  Connectors = {c1, c2}
  Turns = {t1, t2}
  Control = {2}
  WithAttachments = {1}
  Oversized = {}
  AttachCapable = {c1}
  BatchLimit = 2
  JobLease = 1
  SessionLease = 1
  JobTtl = 2
  QuietMs = 1
  MaxWaitMs = 2
  ThreadOf <- MCThreadOf
  ConvOf <- MCConvOf
INVARIANTS
  TypeOK
  RowInv
  RepliesKeptOnce
PROPERTIES
  ConversationOrder
  ImplementsLifecycle
