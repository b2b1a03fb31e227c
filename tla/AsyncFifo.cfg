SPECIFICATION FairSpec
CONSTANTS
  DP = 4
  Data = {a, b}
INVARIANTS
  FlagsConservative
PROPERTIES
  FifoSpec
  LaggedSpec
  FlagsCatchUp
