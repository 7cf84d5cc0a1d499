CONSTANTS
  ExecPolicy = "Async"
  Demos <- OneOfEach
  Modes = {"RANDOM"}
  ClassHandle = {c1, c2}
  NoValue = NoValue
  Faults = {}
  PipeCapacity = 1
  Iterations = 3
  MaxConns = 1
  MaxRetries = 2
SPECIFICATION Spec
INVARIANT HandlesReadLocked
