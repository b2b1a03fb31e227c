SPECIFICATION FairSpec
CONSTANTS
  AddrSpace = 16
  InitCmd = TRUE
  Commands <- MCCommands
  MaxLines = 3
  SpiActive = FALSE
  Slow = FALSE
INVARIANTS
  LinesRight
  ReadDataHeld
PROPERTIES
  RegAccessSpec
  AccessStable
  LinesEnd
