CONSTANTS
  Blocks <- MCBlocks
  Genesis = "g"
  Connections <- MCConnections
  Chains <- MCChains
  SyncSize = 1
  MaxIds = 3
  FullQueue = 1
  MaxPending = 1
  MaxCloses = 1
SPECIFICATION Spec
INVARIANTS
  NothingLeaked
  StallsOnlyAfterRefusal
PROPERTIES
  Downloads
