SPECIFICATION Spec
CONSTANTS
  CmdDepth = 4
  ChipUsers = {1, 2}
  BankUsers = {1, 2}
  Written = {zero}
  Addrs = {bank0}
  Words = {zero}
  Impatient = {2}
  ResetBank = bank0
  Zero = zero
INVARIANTS
  WriteFeedsThrough
