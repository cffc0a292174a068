\* A window of 3 blocks, so that votes are evicted, and room for two forks by vote.
CONSTANTS
  Forks <- VotedForks
  WindowSize = 3
  Majors = {1, 2, 3}
  Minors = {0, 2, 3, 4}
  MaxHeight = 7
SPECIFICATION Spec
INVARIANTS
  WindowIsLastVotes
  CurrentForkIsVoted
  BlocksFollowForks
PROPERTY RestartChangesNothing
