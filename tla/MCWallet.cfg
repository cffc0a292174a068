\* Two rival branches, and a wallet that sends one output twice.
CONSTANTS
  Blocks <- MCBlocks
  Genesis = "g"
  Pays <- MCPays
  Spends <- MCSpends
  Own = {"s", "r"}
  Tips <- MCTips
  MaxCount = 4
  Dense = 1
  MaxMoves = 4
  MaxFaults = 1
SPECIFICATION Spec
INVARIANTS
  ChainLinked
  KnowsItsChain
  SpentRight
PROPERTIES
  CatchesUp
