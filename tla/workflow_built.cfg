\* A workflow put together on its page.
SPECIFICATION Spec
CONSTANTS
  Contacts = {c1}
  MaxEnrollments = 1
  Triggers = {t1}
  Jobs = {j1}
  MaxPosition = 2
  Provided <- MCNone
  Delayed <- MCNone
  Deletes = FALSE
  Backlog = FALSE
  Deaths <- MCNone
  MaxTries = 3
  MaxDeaths = 0
INVARIANT EveryStepRuns
CHECK_DEADLOCK FALSE
