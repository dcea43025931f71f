SPECIFICATION Spec
CONSTANTS
  Nil = Nil
  StepId <- MCStepId
  Canvas <- Root
  PlacesOn <- Places
  StepsOn <- DrawnIn
  BlockFrom <- BlockOf
  PlaceAfter <- AfterSlot
  CarriesOn <- MainExit
  Blocks = {"message", "choice", "condition", "end"}
  MaxSteps = 4
  MaxSplits = 2
  Loops = FALSE
  Orphans = FALSE
  Ragged = TRUE
INVARIANT ValidFlowsPause
