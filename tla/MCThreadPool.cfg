\* Two workers and a client; the client ends, so there is no step then.
CONSTANTS
  Workers = {"w1", "w2"}
  Clients = {"c"}
  Routines = {"a", "b", "d", "n", "r", "x", "y"}
  Leaf = {"x", "y"}
  Children <- Tree
SPECIFICATION Spec
INVARIANTS
  WaitWaits
  NoIdleWork
PROPERTY AllDone
CHECK_DEADLOCK FALSE
