\* The default deployment: manual provider, no event channel in use.
SPECIFICATION Spec
CONSTANTS
  TrialDays = 2
  GraceDays = 1
  Intervals <- MCTwoIntervals
  Clients = {c1}
  MaxSubs = 2
  Providers = {"manual"}
  Events = {}
  MaxNow = 3
  MaxInvoices = 2
  MaxCrashes = 1
INVARIANTS
  TypeOK
  OneCurrentSubscription
PROPERTIES
  SweepNeverRevives
  SlotSpec
CHECK_DEADLOCK FALSE
