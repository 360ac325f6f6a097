---------------------------- MODULE HookSession -----------------------------
(***************************************************************************)
(* A user at the console of UniHookLoader: lines are parsed into commands  *)
(* (CmdLine), which open, start, inject and kill processes or go to the    *)
(* DLL in an injected process (Subroutines).  All injected processes take  *)
(* their commands from one mapping, the one pushed last first.             *)
(***************************************************************************)
EXTENDS CmdLine, Subroutines

CONSTANTS
  Lines,       \* the lines a user may type, as split at the blanks
  MaxLines,    \* bound: how many are typed
  Initially,   \* processes that run before the loader
  Name, Path,  \* of the executable of a process
  Dll,         \* the path of UniHook.dll
  Number,      \* what atoi, or StrToAddress, makes of a word that is a number
  Files        \* the lines of a file for HookMultiple: [kind, number]

NoProcess == 0
ASSUME SessionAssumption == NoProcess \notin Processes /\ Initially \subseteq Processes

VARIABLES
  args,        \* m_Args
  found,       \* m_FoundArgs
  todo,        \* the commands ExecuteCommands has before it
  batch,       \* it is in the middle of a batch
  exitTarget, shouldExit,
  typed,       \* how many lines were typed
  target,      \* m_Target: the process the handle is of
  started,     \* processes that run or have run
  library,     \* library[p]: UniHook.dll in p: "none", "loading", "attached"
  channel      \* the messages in the half that goes to the DLL

loader == <<args, found, todo, batch, exitTarget, shouldExit, typed>>
vars   == <<running, dll, loader, target, started, library, channel>>

SessionInit ==
  /\ SubInit
  /\ running = Initially /\ started = Initially
  /\ args = <<>> /\ found = <<>> /\ todo = <<>>
  /\ batch = FALSE /\ exitTarget = FALSE /\ shouldExit = FALSE
  /\ typed = 0
  /\ target = NoProcess
  /\ library = [p \in Processes |-> "none"]
  /\ channel = <<[name |-> "Greeting", param |-> ""]>>
-----------------------------------------------------------------------------
(***************************************************************************)
(* main and ExecuteCommands.                                               *)
(***************************************************************************)
\* Faulty variant: ResetArguments keeps what was found before.
TypeLineKeep ==
  /\ ~batch /\ (shouldExit => typed < 2) /\ typed < MaxLines
  /\ \E line \in Lines :
       /\ args' = line
       /\ found' = found \o Parse(line) /\ todo' = found \o Parse(line)
  /\ batch' = TRUE /\ exitTarget' = FALSE /\ typed' = typed + 1
  /\ UNCHANGED <<running, dll, shouldExit, target, started, library, channel>>

\* getline, split, ResetArguments, Parse, GetFoundArgs.  The first line stands for
\* the arguments of main, after which one is read in any case (do ... while).
TypeLine ==
  /\ ~batch /\ (shouldExit => typed < 2) /\ typed < MaxLines
  /\ \E line \in Lines :
       /\ args' = line
       /\ found' = Parse(line) /\ todo' = Parse(line)
  /\ batch' = TRUE /\ exitTarget' = FALSE /\ typed' = typed + 1
  /\ UNCHANGED <<running, dll, shouldExit, target, started, library, channel>>

Executes(id) == batch /\ todo # <<>> /\ Head(todo).id = id /\ todo' = Tail(todo)
Param     == Head(todo).param
Rest      == <<args, found, batch, typed>>

\* OpenTarget(ProcessName): no handle when the process cannot be opened, the old
\* one when there is no process of that name.
OpenProc ==
  /\ Executes("OpenProc")
  /\ LET named == {p \in running : Name[p] = Param} IN
       \/ \E p \in named : target' \in {p, NoProcess}
       \/ named = {} /\ UNCHANGED target
  /\ UNCHANGED <<Rest, running, dll, exitTarget, shouldExit, started, library, channel>>

\* OpenTargetPath: a new process, which may be impossible to start or to open.
OpenProcPath ==
  /\ Executes("OpenProcPath")
  /\ \/ \E p \in Processes \ started :
          /\ Path[p] = Param
          /\ started' = started \cup {p} /\ running' = running \cup {p}
          /\ target' \in {p, NoProcess}
     \/ UNCHANGED <<started, running, target>>
  /\ UNCHANGED <<Rest, dll, exitTarget, shouldExit, library, channel>>

\* Inject: the thread that calls LoadLibrary in the target starts, or it does not: there
\* is no target, it has ended, or the memory, the path or the thread in it is refused.  A
\* library that is there already is not loaded again.
Inject ==
  /\ Executes("Inject")
  /\ \/ /\ target \in running /\ Param = Dll /\ library[target] = "none"
        /\ library' = [library EXCEPT ![target] = "loading"]
     \/ UNCHANGED library
  /\ UNCHANGED <<Rest, running, dll, exitTarget, shouldExit, target, started, channel>>

ProcExit ==
  /\ Executes("ProcExit")
  /\ exitTarget' = TRUE
  /\ UNCHANGED <<Rest, running, dll, shouldExit, target, started, library, channel>>

Help ==
  /\ Executes("Help")
  /\ UNCHANGED <<Rest, running, dll, exitTarget, shouldExit, target, started, library, channel>>

ExitLoader ==
  /\ Executes("Exit")
  /\ shouldExit' = TRUE
  /\ UNCHANGED <<Rest, running, dll, exitTarget, target, started, library, channel>>

Sent == {"ListSubs", "HookAtIndex", "HookAtAddr", "HookMultiple"}
SendCommand(name) ==
  /\ Executes(name)
  /\ channel' = Append(channel, [name |-> name, param |-> Param])
  /\ UNCHANGED <<Rest, running, dll, exitTarget, shouldExit, target, started, library>>

\* The end of the batch, where KillTarget is.
EndBatch ==
  /\ batch /\ todo = <<>>
  /\ batch' = FALSE
  /\ running' = IF exitTarget THEN running \ {target} ELSE running
  /\ UNCHANGED <<args, found, todo, exitTarget, shouldExit, typed, dll, target, started,
                 library, channel>>
-----------------------------------------------------------------------------
(***************************************************************************)
(* The DLL: DllMain and InitThread, then a command per message.            *)
(***************************************************************************)
Attach(p) ==
  /\ p \in running /\ library[p] = "loading"
  /\ library' = [library EXCEPT ![p] = "attached"]
  /\ UNCHANGED <<loader, running, dll, target, started, channel>>

\* atoi and StrToAddress make 0 of a word that is no number.
ToNumber(word) == IF word \in DOMAIN Number THEN Number[word] ELSE 0

\* What a message asks for: nothing when it is no command, or its file is not there.
Tasks(msg) ==
  CASE msg.name = "ListSubs"     -> <<[kind |-> "list", number |-> 0]>>
    [] msg.name = "HookAtIndex"  -> <<[kind |-> "index", number |-> ToNumber(msg.param)]>>
    [] msg.name = "HookAtAddr"   -> <<[kind |-> "address", number |-> ToNumber(msg.param)]>>
    [] msg.name = "HookMultiple" -> IF msg.param \in DOMAIN Files THEN Files[msg.param]
                                    ELSE <<>>
    [] OTHER -> <<>>

ParseAndExecuteCommands(p) ==
  /\ p \in running /\ library[p] = "attached" /\ job[p] = <<>>
  /\ channel # <<>>
  /\ channel' = Front(channel)
  /\ job' = [job EXCEPT ![p] = Tasks(Last(channel))]
  /\ UNCHANGED <<loader, running, m_Results, Results, hooked, scan, shown, target,
                 started, library>>

DllStep(p) == Serve(p) /\ UNCHANGED <<loader, target, started, library, channel>>
-----------------------------------------------------------------------------
Next ==
  \/ TypeLine \/ OpenProc \/ OpenProcPath \/ Inject \/ ProcExit
  \/ Help \/ ExitLoader \/ EndBatch
  \/ \E name \in Sent : SendCommand(name)
  \/ \E p \in Processes : Attach(p) \/ ParseAndExecuteCommands(p) \/ DllStep(p)

Spec == SessionInit /\ [][Next]_vars

\* Each line is read as its user means it, as long as no parameter looks like an
\* option that is registered later.
ReadAsTyped == Unambiguous(args) => found = Reading(args)

ResultsStable == [][ResultsStay]_vars
=============================================================================
