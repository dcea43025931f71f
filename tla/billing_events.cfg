\* Manual provider with its event channel in use; weakly fair commands.
SPECIFICATION FairSpec
CONSTANTS
  TrialDays = 2
  GraceDays = 1
  Intervals <- MCOneInterval
  Clients = {c1}
  MaxSubs = 1
  Providers = {"manual"}
  Events <- MCAllEvents
  MaxNow = 3
  MaxInvoices = 1
  MaxCrashes = 0
INVARIANTS
  UnpaidAccessEnds
PROPERTIES
  BoundaryHonoured
CHECK_DEADLOCK FALSE
