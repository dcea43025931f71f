SPECIFICATION Spec
CONSTANTS
  Editors = {e1, e2}
  Empty = Empty
  good = good
  broken = broken
  Flows <- MCFlows
  Valid <- MCValid
  MaxPast = 1
  Keep = 1
  Careless = FALSE
  Interleaved = FALSE
  Hasty = FALSE
  Overtaken = FALSE
  MaxEdits = 2
  MaxSaves = 2
  MaxLost = 1
INVARIANTS TypeOK  
PROPERTIES ReplacedIsKept VerdictSettles
CHECK_DEADLOCK FALSE
