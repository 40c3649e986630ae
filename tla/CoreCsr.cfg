SPECIFICATION Spec
CONSTANTS
  W = 2
  NumRegs = 1
  InstretMod = 3
  Insns <- CsrInsns
  Mtip <- LineLow
  ResetVector = 0
  TrapVector = 1
INVARIANTS
  TypeOK
  InputsJustified
PROPERTIES
  ImplementsIsa
