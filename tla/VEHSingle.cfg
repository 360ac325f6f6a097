\* One thread hooks, calls and unhooks, in any order; UnHook of a guarded page that is
\* armed still ends the process.
SPECIFICATION Spec
CONSTANTS
  installer = installer
  caller = caller
  funF = funF
  funG = funG
  funH = funH
  funK = funK
  hookF = hookF
  hookG = hookG
  hookH = hookH
  hookK = hookK
  page1 = page1
  page2 = page2
  handlers = handlers
  None = None
  Threads <- One
  Installer = installer
  Hooks <- HookAll
  Method <- Mixed
  Src <- MCSrc
  Functions <- FunAll
  Page <- MCPage
  HandlerPage = handlers
  Unhooks = TRUE
  Rehooks = TRUE
  Registers <- OneRegister
  MaxCalls = 3
INVARIANTS TypeOK Survives Armed Clean
CHECK_DEADLOCK FALSE
