SPECIFICATION FairSpec
CONSTANTS
  p1 = p1
  p2 = p2
  Pairs <- MCPairs
  DefaultCap = 1
  MaxCap = 2
  Debounce = 1
INVARIANTS
  TypeOK
  AtRestDurable
  AuditAgreesWithRegistry
  EventLogWithinCeiling
PROPERTIES
  ImplementsDurableStore
  SettledStoreIsSaved
