\* Three transactions in a pool with room for two, a clock, and one block at a time on
\* top of the genesis block.
CONSTANTS
  Tx <- ThreeTxs
  BlockTxs <- ThreeBlocks
  MaxWeight = 4
  WeightLimit = 2
  Lifetime = 0
  BlockLifetime = 1
  Epoch = 100
  MaxTime = 1
  MaxHeight = 1
  MaxPruned = 1
  SizeModulus = 65536
SPECIFICATION Spec
INVARIANT
  WeightIsTotal
