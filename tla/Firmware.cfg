SPECIFICATION FairSpec

\* Programs end.
CHECK_DEADLOCK FALSE

CONSTANTS
  Cores = {0, 1, 2}
  Messages = 2
  Length = 2
  TxDepth = 1
  Workers = {1, 2}
  Elements = {0, 1, 2, 3}
  Mains <- MasterPrograms
  Prints <- PrintCalls
  BufSize = 5
  ConsoleTx = 3
  Benches <- ClockBenches
  VerdictLine = 2
  Halves = 4
  Leds = 4
  LedBits = 2
  LedPeriods <- TwoPeriods
  EchoDepth = 2
  EchoChars = 4
  Asks <- Accesses
  Pins = {2, 3}
  PinChanges = 3
  TickLimits <- TwoLimits
  Typed = 3
  Channels = 6
  Levels = 64
  numRows = 3
  LevelChanges = 6
  MaxCuts = 1
  Scanned <- SomeDevices
  Moves <- SomeMoves
  Size = 3
  Fds = {3, 4, 5}
  Ops = {"reset", "tms", "scan", "stop"}
  MaxBits = 3
  WordBits = 2
  ArrayWords = 1
  MaxSent = 2
  MaxClients = 2

INVARIANTS
  MutualExclusion
  JobsRight
  NoDescriptorLost
  TestsTellTruth
  ConsoleRight
  ReferenceClockRight
  StreamsInOrder
  RegistersRight
  PinsFollow
  WireRight
  CountsHold
  ScansRight

PROPERTIES
  JoinMeansDone
  CommandsInOrder
  WiperSteps
  ProgramsEnd
  AllServed
