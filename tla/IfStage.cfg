SPECIFICATION FairSpec
CONSTANTS
  NumPCs = 4
  ResetVector = 0
INVARIANTS
  TypeOK
  PortContract
PROPERTIES
  ImplementsStream
  FetchArrives
