CONSTANTS
  Client <- TwoClients
  Value = {0, 1}
  PipeCapacity = 1
  MaxRequests <- ThreeAndTwo
  MaxRuns = 2
SPECIFICATION FairSpec
INVARIANTS
  TypeOK
  HandlesAgree
  RaceNeedsStaleHandle
PROPERTIES
  SessionSpec
  WaitsEnd
