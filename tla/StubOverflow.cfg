\* The installer writes the callback.
SPECIFICATION Spec
CONSTANTS
  Threads = {"caller"}
  MaxCalls = 1
  Lowest <- MCLowest
INVARIANT WritesInside
CHECK_DEADLOCK FALSE
