SPECIFICATION FairSpec
CONSTANTS
  Depth = 2
  Active = {0, 1}
  MaxBurst = 3
  Data = {zero, one}
  Zero = zero
INVARIANTS
  SlavePortInv
  MemoryCoherent
PROPERTIES
  TransferKeepsGrant
  ArbiterUsed
  TransfersEnd
