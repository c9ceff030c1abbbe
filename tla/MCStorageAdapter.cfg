SPECIFICATION Spec
CONSTANTS
  a = a
  b = b
  Keys <- MCKeys
  Values = {"old", "new"}
  MaxEvents = 3
INVARIANTS
  TypeOK
  ToldIsDurable
  ToldIsAnswered
PROPERTIES
  ImplementsDurableStore
