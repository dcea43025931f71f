\* One request at a time; nobody leaves for good or comes back unasked.
SPECIFICATION Spec
CONSTANTS
  ann = ann
  bob = bob
  eve = eve
  a = a
  b = b
  e = e
  spare = spare
  Users = {ann, bob, eve}
  Creator = ann
  Emails = {a, b, e}
  First <- MCFirst
  Ids = {i1, i2}
  Clients = {c1}
  Limits <- MCTwoOrThreeSeats
  Readdresses = FALSE
  Departures = FALSE
  Reseats = FALSE
  Replans = FALSE
INVARIANTS
  TypeOK
  OwnerKept
  MembersNotInvited
  OneOpenInvitation
  SeatsWithinPlan
SYMMETRY Rows
CHECK_DEADLOCK FALSE
