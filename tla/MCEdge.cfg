\* Reorganisations across a fork, and checkpoints loaded meanwhile.
CONSTANTS
  Forks <- LateFork
  WindowSize = 2
  Genesis = "g"
  Tree <- EdgeTree
  Tx <- EdgeTx
  Checkpoints <- NoCheckpoints
  CheckpointFiles <- Files
SPECIFICATION Spec
INVARIANTS
  HfFollowsMain
  CheckpointsHold
  NoSwitchInSwitch
PROPERTIES
  CheckpointFinal
