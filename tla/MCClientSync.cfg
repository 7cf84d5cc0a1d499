CONSTANTS
  ExecPolicy = "Sync"
  Demos <- OneOfEach
  Modes = {"STEP_BY_STEP", "RANDOM", "MANUAL"}
  ClassHandle = {c1, c2}
  NoValue = NoValue
  Faults = {"closes"}
  PipeCapacity = 1
  Iterations = 4
  MaxConns = 2
  MaxRetries = 2
SPECIFICATION FairSpec
INVARIANTS
  TypeOK
  SyncAnswers
PROPERTY StartReturns
