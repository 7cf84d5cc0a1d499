CONSTANTS
  ClassName <- MCClass
  MethodName <- MCMethodName
  Inputs <- MCInputs
  Ids <- MCIds
  Objects <- MCObjects
  Garbage <- MCGarbage
  kBufSize = 30
SPECIFICATION Spec
INVARIANTS
  TypeOK
  RequestUnderstood
  ResponseUnderstood
  CutResponsesInert
