SPECIFICATION FairSpec
INVARIANTS UnclaimedIsOperational
PROPERTIES LossIsNoticed
CONSTANTS
  p1 = p1
  p2 = p2
  p3 = p3
  h1 = h1
  h2 = h2
  h3 = h3
  h4 = h4
  Owner = Owner
  None = None
  Persons = {p1, p2}
  Holdings = {h1, h2}
  Dispositions = {}
  Seats <- NoSeat
  Requesters = {p1}
  Newcomers = {p2}
  Statuses = {"active", "disabled"}
  SourceStates = {"fresh", "stalled"}
  Recoverable = {}
  Timed = FALSE
  Renewal = FALSE
  Later = FALSE
  OwnerKey = TRUE
  Vouching = TRUE
  MaxRefs = 1
