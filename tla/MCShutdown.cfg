SPECIFICATION ShutdownSpec
CONSTANTS
  p1 = p1
  Pairs <- MCPairs
  DefaultCap = 1
  MaxCap = 1
  Debounce = 1
  MaxConns = 2
  MaxSignals = 2
PROPERTIES
  CleanExitSaves
  SignalEndsProcess
  ShutdownImplementsDurableStore
