SPECIFICATION FairSpec
INVARIANTS TypeOK EndedIsSettled RejectedGivesNothing TriedAfresh NoRunLost
PROPERTIES EndSticks TwoPersons ActsOnThePreviewed ConfirmedEnds
CONSTANTS
  p1 = p1
  q1 = q1
  q2 = q2
  r1 = r1
  Owner = Owner
  None = None
  Plans = {p1}
  MaxItems = 2
  ConfirmAbove = 1
  Persons = {q1, q2}
  Initiators = {q1}
  Confirmers = {q2, Owner}
  Provable = {"proven", "disproven"}
  MaxUnused = 1
  Existing = {r1}
  Asks = {"unit", "cancel"}
  Elsewhere = {"active", "ended/cancelled"}
  MaxAttempts = 2
  MaxDigests = 1
CHECK_DEADLOCK FALSE
