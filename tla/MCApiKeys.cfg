SPECIFICATION FairSpec
CONSTANTS
  a = a
  b = b
  c = c
  d = d
  p = p
  q = q
  s = s
  Raws <- MCRaws
  Prefixes <- MCPrefixes
  PrefixOf <- MCPrefixOf
  MaxLife = 1
  Grace = 2
INVARIANTS
  DeletedStaysOut
  NoKeyDiesEarly
PROPERTIES
  RotatedKeysDie
