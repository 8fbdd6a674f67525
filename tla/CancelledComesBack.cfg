SPECIFICATION Spec
INVARIANTS EndingsAreReplayed
CHECK_DEADLOCK FALSE
CONSTANTS
  w = w
  t = t
  None = None
  Keys = {w, t}
  Asked <- Ended
  Provable = {"proven", "disproven"}
  MaxIssued = 2
  MaxRevision = 1
