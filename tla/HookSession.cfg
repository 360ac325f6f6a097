\* A user opens, injects, lists, hooks and kills; two processes.
SPECIFICATION Spec
CONSTANTS
  Processes = {1, 2}
  JmpSize = 5
  Initially = {1}
  MaxLines = 4
  Dll = "dll"
  Registered <- MCRegistered
  Code <- MCCode
  Name <- MCName
  Path <- MCPath
  Number <- MCNumber
  Files <- MCFiles
  Lines <- MCLines
INVARIANTS ListedHooked ListedOnce ReadAsTyped
PROPERTIES ResultsStable
CHECK_DEADLOCK FALSE
