SPECIFICATION Spec
CONSTANTS
  Nil = Nil
  StepId <- MCStepId
  Canvas <- Root
  PlacesOn <- Places
  StepsOn <- DrawnIn
  BlockFrom <- BlockOf
  PlaceAfter <- AfterSlot
  CarriesOn <- MainExit
  Blocks = {"message", "choice", "end"}
  MaxSteps = 4
  MaxSplits = 2
  Loops = FALSE
  Orphans = FALSE
  Ragged = FALSE
INVARIANTS TypeOK DrawnIsReachable Connected DrawingHolds  DeleteUndoesInsert
