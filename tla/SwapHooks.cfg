\* Three hooks over each other, and a thread that calls.
SPECIFICATION FairSpec
CONSTANTS
  walk = walk
  stop = stop
  tick = tick
  show = show
  Threads = {"caller"}
  Hooks = {1, 2, 3}
  Objects = {1, 2}
  Virtuals <- MCVirtuals
  Imports <- MCImports
  Setups <- MCSetups
INVARIANTS NeverWild RightFunction PassedOnce CallsOnce AllRestored
PROPERTIES AbstractSpec CallsEnd
CHECK_DEADLOCK FALSE
