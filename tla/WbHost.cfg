SPECIFICATION FairSpec
CONSTANTS
  CmdDepth = 3
  ChipUsers = {1, 2}
  BankUsers = {2}
  Written = {one}
  Addrs = {bank0, bank1}
  Words = {zero, one}
  Impatient = {}
  ResetBank = bank0
  Zero = zero
INVARIANTS
  HostInv
  AnswersRight
  WriteFeedsThrough
PROPERTIES
  HostsAnswered
