CONSTANTS
  Request = {answered, quiet}
  Answered = {answered}
  Oversize = {}
  Response = {response}
  PipeCapacity = 1
  Handle = {h1, h2}
  NoHandle = NoHandle
  MaxClients = 2
SPECIFICATION FairSpec
PROPERTIES
  ShutdownCompletes
  PipeDrains
