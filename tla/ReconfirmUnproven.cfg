SPECIFICATION Spec
VIEW View
PROPERTIES ReconfirmedByProven
CONSTANTS
  p1 = p1
  p2 = p2
  p3 = p3
  h1 = h1
  h2 = h2
  h3 = h3
  h4 = h4
  Owner = Owner
  None = None
  Persons = {p1, p2, p3}
  Holdings = {h1, h2, h3}
  Dispositions = {}
  Seats <- ThreeSeats
  Requesters = {p1}
  Newcomers = {}
  Statuses = {"active", "disabled", "unproven"}
  SourceStates = {"fresh"}
  Recoverable = {}
  Timed = FALSE
  Renewal = FALSE
  Later = FALSE
  OwnerKey = FALSE
  Vouching = TRUE
  MaxRefs = 1
