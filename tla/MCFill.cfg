\* All rules for filling; the loop ends, so there is no step then.
CONSTANTS
  Pools <- MixedPools
  Versions = {1, 4, 7}
  Median = 10
  Reserved = 1
  BaseReward = 20
  FloatBits = 4
  Percent = 50
SPECIFICATION Spec
INVARIANTS
  BlockAddsUp
CHECK_DEADLOCK FALSE
