SPECIFICATION Spec
CONSTANTS
  hello = hello
  ask = ask
  detail = detail
  person = person
  bye = bye
  None = None
  LiveStep = LiveStep
  Steps <- MCSteps
  Flow <- MCFlow
  Start = hello
  Closing = {}
  Answers = {"yes", "human"}
  Takeover = FALSE
  Hasty = FALSE
  Lossy = {"begin", "poll", "restore"}
  MaxSends = 2
  MaxAgentLines = 1
  MaxFaults = 1
  MaxOpens = 2
  MaxPolls = 2
INVARIANTS TypeOK DrawnOnce  AnswerFitsQuestion EchoIsRecorded
PROPERTIES SendSettles AgentLineArrives
CHECK_DEADLOCK FALSE
