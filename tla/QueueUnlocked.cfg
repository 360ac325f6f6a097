\* A push as the program makes them, with ManualLocking = false.
SPECIFICATION Spec
CONSTANTS
  short = short
  long = long
  serverMain = serverMain
  serverMsg = serverMsg
  clientMsg = clientMsg
  Nobody = Nobody
  Garbage = Garbage
  Messages <- MCMessages
  Size <- MCSize
  HalfSize = 7
  Threads <- Pair
  Side <- MCSide
  Pushers <- Main
  Poppers <- Clients
  PushModes <- Never
  Mortal = {}
  DWordRange = 16
INVARIANT Synchronized
