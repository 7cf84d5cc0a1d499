CONSTANTS
  ExecPolicy = "Sync"
  Demos <- AllDemos
  Modes = {"STEP_BY_STEP"}
  ClassHandle = {c1}
  NoValue = NoValue
  Faults = {"closes"}
  PipeCapacity = 1
  Iterations = 11
  MaxConns = 2
  MaxRetries = 2
SPECIFICATION FairSpec
PROPERTY StepByStepRunsAll
