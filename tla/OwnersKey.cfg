SPECIFICATION Spec
PROPERTIES OwnerAloneCools CoolingHolds NotBeforeItsTime
CONSTANTS
  p1 = p1
  p2 = p2
  p3 = p3
  h1 = h1
  h2 = h2
  h3 = h3
  h4 = h4
  Owner = Owner
  None = None
  Persons = {p1, p2}
  Holdings = {h1, h2, h3}
  Dispositions = {}
  Seats <- TwoSeats
  Requesters = {p1, p2}
  Newcomers = {}
  Statuses = {"active"}
  SourceStates = {"fresh"}
  Recoverable = {}
  Timed = TRUE
  Renewal = FALSE
  Later = TRUE
  OwnerKey = TRUE
  Vouching = FALSE
  MaxRefs = 1
