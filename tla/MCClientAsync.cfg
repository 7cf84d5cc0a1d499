CONSTANTS
  ExecPolicy = "Async"
  Demos <- OneOfEach
  Modes = {"RANDOM"}
  ClassHandle = {c1, c2}
  NoValue = NoValue
  Faults = {"closes", "rejects"}
  PipeCapacity = 1
  Iterations = 3
  MaxConns = 2
  MaxRetries = 2
SPECIFICATION Spec
SYMMETRY ClassHandleSymmetry
INVARIANTS
  ResponseMatched
  HandlesUnique
  ReadsSuffice
PROPERTY OneAnswerOneRequest
