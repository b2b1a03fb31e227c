SPECIFICATION PortSpec
CONSTANTS
  Active = {0, 2}
  Impatient = {0, 2}
  CountBound = 2
  Registers = {reg_1}
  Data = {zero, one}
  Written = {one}
  Zero = zero
INVARIANTS
  AckedWasDone
