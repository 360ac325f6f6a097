\* A thread calls the function at any time during its hooking, and the function itself.
SPECIFICATION Spec
CONSTANTS
  Threads = {"caller"}
  MaxCalls = 2
  Lowest <- MCLowest
INVARIANTS Transparent OriginalUndisturbed Aligned
CHECK_DEADLOCK FALSE
