SPECIFICATION FairPortSpec
CONSTANTS
  Active = {0, 1, 2, 3}
  Impatient = {0, 1, 2, 3}
  CountBound = 2
  Registers = {reg_1}
  Data = {zero, one}
  Written = {one}
  Zero = zero
INVARIANTS
  PortInv
  BoundedOvertaking
PROPERTIES
  ChangesAreAcked
  LowMastersServed
