SPECIFICATION FairBusSpec
CONSTANTS
  MaxOps = 3
  AcceptInReset = FALSE
  Memories = {"any", "soc"}
  Addressed = {"TCM", "UART"}
INVARIANTS
  TypeOK
  PortContract
  OwnResponse
  PerformedOnce
  BusyForOwner
  SocKeepsContract
PROPERTIES
  EveryAccessEnds
