SPECIFICATION Spec
CONSTANTS
  W = 3
  NumRegs = 2
  InstretMod = 1
  Insns <- DataInsns
  Mtip <- LineLow
  ResetVector = 0
  TrapVector = 1
PROPERTIES
  ImplementsIsa
