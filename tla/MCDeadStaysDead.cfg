SPECIFICATION Spec
CONSTANTS
  a = a
  b = b
  c = c
  d = d
  p = p
  q = q
  s = s
  Raws <- MCRaws
  Prefixes <- MCPrefixes
  PrefixOf <- MCPrefixOf
  MaxLife = 1
  Grace = 1
PROPERTIES
  DeadStaysDead
