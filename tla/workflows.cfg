\* The scheduler finds the queue empty; jobs die and are tried again.
SPECIFICATION Spec
CONSTANTS
  Contacts = {c1}
  MaxEnrollments = 2
  Triggers = {t1}
  Jobs = {j1, j2}
  MaxPosition = 2
  Provided <- MCTwoSteps
  Delayed <- MCSecondWaits
  Deletes = TRUE
  Backlog = FALSE
  Deaths <- MCUnfinished
  MaxTries = 3
  MaxDeaths = 1
INVARIANTS
  CompletedWhole
  NotEarly
  StepsOnce
  CountedOnce
  
PROPERTY NeverBack
SYMMETRY Places
CHECK_DEADLOCK FALSE
