SPECIFICATION Spec
CONSTANTS
  d1 = d1
  d2 = d2
  a1 = a1
  c1 = c1
  c2 = c2
  Scenes <- Channels
  Devices = {d1, d2}
  Labels = {"hal", "Hal", "amy"}
  LabelKey <- Spelling
  Adapters = {a1}
  Commands = {1, 2}
  Callers = {c1, c2}
  PendingLifetime = 1
  InviteLifetimes = {1}
  MaxPending = 2
  MaxActiveInvites = 2
  MaxMemberInvites = 1
  MaxMemberCreates = 1
  MaxFactRows = 5
  MaxReceipts = 1
  MaxAdmitted = 1
  MaxClock = 1
  MaxEnrollments = 2
  MaxInvites = 1
SYMMETRY Symmetry
INVARIANTS TablesAgree FactLogSound ReceiptsSound
PROPERTY AdmittedOnce
CHECK_DEADLOCK FALSE
