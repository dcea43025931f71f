\* A deployment that moves between the manual provider and Stripe.
SPECIFICATION Spec
CONSTANTS
  TrialDays = 1
  GraceDays = 1
  Intervals <- MCOneDay
  Clients = {c1}
  MaxSubs = 1
  Providers = {"manual", "stripe"}
  Events = {"activated"}
  MaxNow = 2
  MaxInvoices = 1
  MaxCrashes = 0
INVARIANTS
  RenewalsDistinct
CHECK_DEADLOCK FALSE
