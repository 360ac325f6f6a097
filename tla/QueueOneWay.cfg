\* Two threads of the server push, the client pops: every push is made under ManualLock.
SPECIFICATION Spec
CONSTANTS
  short = short
  long = long
  serverMain = serverMain
  serverMsg = serverMsg
  clientMsg = clientMsg
  Nobody = Nobody
  Garbage = Garbage
  Messages <- MCMessages
  Size <- MCSize
  HalfSize = 7
  Threads <- Everyone
  Side <- MCSide
  Pushers <- Servers
  Poppers <- Clients
  PushModes <- Always
  Mortal = {}
  DWordRange = 16
INVARIANTS LockedInv Synchronized QuiescentHeader FramesIntact
PROPERTY AbstractSpec
