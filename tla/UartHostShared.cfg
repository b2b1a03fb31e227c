SPECIFICATION Spec
CONSTANTS
  AddrSpace = 16
  InitCmd = FALSE
  Commands <- MCReads
  MaxLines = 2
  SpiActive = TRUE
  Slow = FALSE
INVARIANTS
  ReadDataHeld
