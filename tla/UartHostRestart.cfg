SPECIFICATION FairSpec
CONSTANTS
  AddrSpace = 16
  InitCmd = FALSE
  Commands <- MCReads
  MaxLines = 2
  SpiActive = FALSE
  Slow = TRUE
PROPERTIES
  TimeoutTerminates
