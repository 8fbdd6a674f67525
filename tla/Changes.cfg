SPECIFICATION Spec
VIEW View
INVARIANTS TypeOK AtMostOnce BoundJobsMovedOn HonestConclusions TighteningsSurvive KnownByName
PROPERTIES KeysPromise
CHECK_DEADLOCK FALSE
CONSTANTS
  w = w
  t = t
  None = None
  Keys = {w, t}
  Asked <- Few
  Provable = {"proven", "disproven"}
  MaxIssued = 2
  MaxRevision = 1
