\* Two jobs of one enrollment at a time, which may die anywhere and for good.
SPECIFICATION FairSpec
CONSTANTS
  Contacts = {c1}
  MaxEnrollments = 1
  Triggers = {t1}
  Jobs = {j1, j2}
  MaxPosition = 2
  Provided <- MCTwoSteps
  Delayed <- MCSecondWaits
  Deletes = FALSE
  Backlog = TRUE
  Deaths <- MCAnywhere
  MaxTries = 1
  MaxDeaths = 1
INVARIANT StepsInOrder
PROPERTY EnrollmentsFinish
CHECK_DEADLOCK FALSE
