SPECIFICATION FairSpec
CONSTANTS
  alice = alice
  bob = bob
  k1 = k1
  k2 = k2
  k3 = k3
  Clients <- MCClients
  Keys <- MCKeys
  Bodies = {"x", "y"}
  Valid = {"x"}
  MaxEntries = 2
  Ttl = 2
  MaxRestarts = 1
INVARIANTS
  TypeOK
  SafeRetry
  ReplayIsBacked
  CacheBounded
PROPERTIES
  AlwaysAnswered
