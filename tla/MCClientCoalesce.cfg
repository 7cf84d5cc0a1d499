CONSTANTS
  ExecPolicy = "Async"
  Demos <- OneOfEach
  Modes = {"RANDOM"}
  ClassHandle = {c1, c2}
  NoValue = NoValue
  Faults = {}
  PipeCapacity = 2
  Iterations = 2
  MaxConns = 1
  MaxRetries = 2
SPECIFICATION FairSpec
PROPERTY AnsweredRequestsLeave
