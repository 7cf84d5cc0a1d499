CONSTANTS
  Request = {answered, quiet, oversize}
  Answered = {answered}
  Oversize = {oversize}
  Response = {response}
  PipeCapacity = 1
  Handle = {h1, h2}
  NoHandle = NoHandle
  MaxClients = 1
SPECIFICATION Spec
PROPERTY FailedClientIsClosed
