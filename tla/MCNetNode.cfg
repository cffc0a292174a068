\* A white list that is smaller than the number of hosts.
CONSTANTS
  Hosts = {"p", "d", "s", "me"}
  Self = "me"
  Seeds = {"s"}
  CommandLines <- Lines
  Known <- Lists
  Callers = {"p"}
  Ports = {"x", "y"}
  Local <- NoAddresses
  MaxWhite = 2
  MaxGray = 4
  MaxOut = 2
  MaxIn = 1
  Expected = 1
  MaxAnchors = 2
  MaxFails = 1
  Scenarios <- Stories
SPECIFICATION Spec
INVARIANTS
  WhiteReached
  OutBounded
PROPERTIES
  Reconnects
