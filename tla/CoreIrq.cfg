SPECIFICATION FairSpec
CONSTANTS
  W = 2
  NumRegs = 1
  InstretMod = 1
  Insns <- IrqInsns
  Mtip <- LineAny
  ResetVector = 0
  TrapVector = 1
PROPERTIES
  ImplementsIsa
  InterruptIsServed
