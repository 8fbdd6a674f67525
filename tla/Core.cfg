SPECIFICATION Spec
VIEW View
SYMMETRY TradePlaces
INVARIANTS  HeldIsAccountedFor
PROPERTIES LastAdminKept MovesAllowed ConfirmedByAnother
CONSTANTS
  p1 = p1
  p2 = p2
  p3 = p3
  h1 = h1
  h2 = h2
  h3 = h3
  h4 = h4
  Owner = Owner
  None = None
  Persons = {p1, p2, p3}
  Holdings = {h1, h2, h3}
  Dispositions = {d1}
  Seats <- TwoSeats
  Requesters = {p1, p2}
  Newcomers = {}
  Statuses = {"active", "disabled"}
  SourceStates = {"fresh"}
  Recoverable = {}
  Timed = FALSE
  Renewal = FALSE
  Later = FALSE
  OwnerKey = FALSE
  Vouching = FALSE
  MaxRefs = 1
