SPECIFICATION Spec
CONSTANTS
  Nobody = Nobody
  Threads = {p, q}
  Blocks <- MCBlocks
  Genesis = "g"
  Key <- MCKey
  Spans <- MCSpans
  Bad = {"bad"}
  Loose = {"t3", "t4"}
  Outdated = {"t5"}
  ForkHeight = 3
  StartChain <- MCStartChain
  BlocksCount = 2
  MaxCalls = 3
  MaxCrashes = 1
INVARIANTS OwnBatch CommittedWhole ReaderStable WindowSound
PROPERTIES ConfirmedKept CallsEnd
CHECK_DEADLOCK FALSE
