CONSTANTS
  Request = {answered, quiet, oversize}
  Answered = {answered}
  Oversize = {oversize}
  Response = {response}
  PipeCapacity = 1
  Handle = {h1, h2}
  NoHandle = NoHandle
  MaxClients = 3
SPECIFICATION Spec
SYMMETRY HandleSymmetry
INVARIANTS
  TypeOK
  NoNullPipe
  NoDanglingHandle
  HandleExclusive
  CloseExcludesIO
  NoOrphanedClient
PROPERTY ResponsesSurvive
