\* No checkpoints, and all reorganisations above the fork.
CONSTANTS
  Forks <- EarlyFork
  WindowSize = 4
  Genesis = "g"
  Tree <- ReorgTree
  Tx <- ReorgTx
  Checkpoints <- NoCheckpoints
  CheckpointFiles <- NoFiles
SPECIFICATION Spec
INVARIANTS
  MainValid
  NoTxLost
  HeaviestWins
  RollbackRestores
PROPERTIES
  ChoiceSpec
