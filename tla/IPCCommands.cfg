\* The user lists subroutines or hooks some, and may kill the target at any time.
SPECIFICATION IPCSpec
CONSTANTS
  LoaderMain = LoaderMain
  LoaderMsg = LoaderMsg
  DllInit = DllInit
  DllMsg = DllMsg
  Greeting = Greeting
  ListSubs = ListSubs
  HookAt = HookAt
  HookMultiple = HookMultiple
  SubLine = SubLine
  Summary = Summary
  HookReply = HookReply
  Nobody = Nobody
  Garbage = Garbage
  Sessions <- Users
  MaxSubs = 1
  Messages <- MCMessages
  Size <- MCSize
  HalfSize = 7
  Threads <- MCThreads
  Side <- MCSide
  Pushers <- None
  Poppers <- None
  PushModes <- None
  Mortal = {"Client"}
  DWordRange = 16
INVARIANTS ProgramTypeOK LockBalanced OnlyReplies AnswersSynchronized
PROPERTIES AnswersPrinted MutexReleased
CHECK_DEADLOCK FALSE
