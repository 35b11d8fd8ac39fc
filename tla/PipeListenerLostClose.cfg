CONSTANTS
  Acceptors = {a1}
  PipeClosers = {k1}
  Dialers = {d1}
  Mishaps = {"hangup"}
  None = None
SPECIFICATION PFairSpec
PROPERTIES CloseReturns
