SPECIFICATION Spec
CONSTANTS
  p1 = p1
  p2 = p2
  Pairs <- MCPairs
  Amounts = {2, 3}
  Fees = {0, 1}
  Bounds = {0, 2, 3}
  Slippages = {0, 2}
  BpsScale = 4
  MaxTtl = 2
  MaxVersion = 3
INVARIANTS
  TypeOK
  QuotesAreFresh
  NoDeadEntries
  MinimumIsFillable
  BulkAgreesWithSingle
