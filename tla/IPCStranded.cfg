\* The user types two commands.
SPECIFICATION IPCSafety
CONSTANTS
  LoaderMain = LoaderMain
  LoaderMsg = LoaderMsg
  DllInit = DllInit
  DllMsg = DllMsg
  Greeting = Greeting
  ListSubs = ListSubs
  HookAt = HookAt
  HookMultiple = HookMultiple
  SubLine = SubLine
  Summary = Summary
  HookReply = HookReply
  Nobody = Nobody
  Garbage = Garbage
  Sessions <- Listing
  MaxSubs = 1
  Messages <- MCMessages
  Size <- MCSize
  HalfSize = 9
  Threads <- MCThreads
  Side <- MCSide
  Pushers <- None
  Poppers <- None
  PushModes <- None
  Mortal = {}
  DWordRange = 16
INVARIANT NoCommandLeft
CHECK_DEADLOCK FALSE
