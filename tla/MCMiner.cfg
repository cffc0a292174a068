CONSTANTS
  Workers <- MCWorkers
  Clients <- MCClients
  Serves <- MCServes
  Callers <- MCCallers
  Address <- MCAddress
  MaxTip <- MCMaxTip
  MaxCookie <- MCMaxCookie
  MaxCalls <- MCMaxCalls
  Background = TRUE
SPECIFICATION Spec
INVARIANTS
  CacheRight
  PausesBalanced
PROPERTIES
  StaleEnds
