SPECIFICATION FairSpec
CONSTANTS
  Kinds <- AllKinds
  MaxAge = 4
INVARIANTS
  TypeOK
  ProgramOrder
  ExactlyOnce
  DrainIsolation
  NoOverruledAccess
PROPERTIES
  InOrderCommit
  DrainEnds
  EveryPacketLeaves
