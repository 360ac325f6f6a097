\* A thread runs the function while it is hooked twice and unhooked.
SPECIFICATION Spec
CONSTANTS
  Threads = {"caller"}
  Hooks = {1, 2}
  Bodies <- MCBodies
  Reach <- MCReach
INVARIANTS Follows Intercepted Diverted Restored
CHECK_DEADLOCK FALSE
