SPECIFICATION Spec
INVARIANTS TypeOK HeldIsAccountedFor
PROPERTIES PendingFreezesManagement BackfillIsConfirmed SupersededByRenewal LossesAreJudged
CONSTANTS
  p1 = p1
  p2 = p2
  p3 = p3
  h1 = h1
  h2 = h2
  h3 = h3
  h4 = h4
  Owner = Owner
  None = None
  Persons = {p1, p2}
  Holdings = {h1, h2, h3}
  Dispositions = {d1}
  Seats <- TwoSeats
  Requesters = {p1}
  Newcomers = {}
  Statuses = {"active", "frozen"}
  SourceStates = {"fresh"}
  Recoverable = {p2}
  Timed = FALSE
  Renewal = TRUE
  Later = FALSE
  OwnerKey = TRUE
  Vouching = FALSE
  MaxRefs = 1
VIEW BesideClosures
