\* Two threads call two functions with a breakpoint each on one page; each is
\* hooked once, and unhooked whoever is in a call.
SPECIFICATION FairSpec
CONSTANTS
  installer = installer
  caller = caller
  funF = funF
  funG = funG
  funH = funH
  funK = funK
  hookF = hookF
  hookG = hookG
  hookH = hookH
  hookK = hookK
  page1 = page1
  page2 = page2
  handlers = handlers
  None = None
  Threads <- Both
  Installer = installer
  Hooks <- HookFG
  Method <- Breakpoints
  Src <- MCSrc
  Functions <- FunFG
  Page <- MCPage
  HandlerPage = handlers
  Unhooks = TRUE
  Rehooks = FALSE
  Registers <- OneRegister
  MaxCalls = 2
INVARIANT Armed
PROPERTY CallsReturn
CHECK_DEADLOCK FALSE
