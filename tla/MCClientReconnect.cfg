CONSTANTS
  ExecPolicy = "Sync"
  Demos <- OneOfEach
  Modes = {"RANDOM"}
  ClassHandle = {c1, c2}
  NoValue = NoValue
  Faults = {"closes"}
  PipeCapacity = 1
  Iterations = 2
  MaxConns = 2
  MaxRetries = 2
SPECIFICATION FairSpec
PROPERTY ReconnectsWhenClosed
