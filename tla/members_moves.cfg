\* One request at a time; accounts, addresses and the plan come and go.
SPECIFICATION Spec
CONSTANTS
  ann = ann
  bob = bob
  eve = eve
  a = a
  b = b
  e = e
  spare = spare
  Users = {ann, bob}
  Creator = ann
  Emails = {a, b, spare}
  First <- MCPair
  Ids = {i1}
  Clients = {c1}
  Limits <- MCDowngrade
  Readdresses = TRUE
  Departures = TRUE
  Reseats = TRUE
  Replans = TRUE
INVARIANTS
  UsedOnce
  TeamOfMembers
CHECK_DEADLOCK FALSE
