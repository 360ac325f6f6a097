\* Each side pushes to the other and pops; the client is killed anywhere in a push
\* or a pop and started again.
SPECIFICATION Spec
CONSTANTS
  short = short
  long = long
  serverMain = serverMain
  serverMsg = serverMsg
  clientMsg = clientMsg
  Nobody = Nobody
  Garbage = Garbage
  Messages <- MCMessages
  Size <- MCSize
  HalfSize = 7
  Threads <- Pair
  Side <- MCSide
  Pushers <- Pair
  Poppers <- Pair
  PushModes <- Always
  Mortal = {"Client"}
  DWordRange = 8
INVARIANTS TypeOK LockBalanced SurvivorReads
CONSTRAINT ServerBound
CHECK_DEADLOCK FALSE
