SPECIFICATION Spec
CONSTANTS
  k1 = k1
  k2 = k2
  w1 = w1
  w2 = w2
  o1 = o1
  o2 = o2
  None = None
  Devices = {k1, k2}
  Workers = {w1, w2}
  Ops = {o1, o2}
  MaxRevision = 2
  MaxCalls = 3
  Scenes <- Stories
SYMMETRY Alike
INVARIANTS StoppedIsQuiet AuthorityKept KeysOutliveRow RefusedIsUnredeemed
PROPERTY TerminalStays
CHECK_DEADLOCK FALSE
