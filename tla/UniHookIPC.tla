----------------------------- MODULE UniHookIPC -----------------------------
(***************************************************************************)
(* The program around the queue: UniHookLoader.exe is the server and       *)
(* UniHook.dll, injected into the target, the client.                      *)
(*                                                                         *)
(*   LoaderMain  main: greets, sets its callback, then carries out the     *)
(*               user's commands: inject, send a command, kill the target. *)
(*   LoaderMsg   the queue's MsgThread in the loader: prints replies.      *)
(*   DllInit     InitThread: constructs the queue and sets the callback.   *)
(*   DllMsg      the queue's MsgThread in the target: obeys commands.      *)
(*                                                                         *)
(* control[t] is where t is in its own code, between operations of the     *)
(* queue; a thread whose pc is not "idle" is inside one.                   *)
(***************************************************************************)
EXTENDS SharedMemQueue, SequencesExt

CONSTANTS
  LoaderMain, LoaderMsg, DllInit, DllMsg,
  Greeting, ListSubs, HookAt, HookMultiple,   \* what the loader sends
  SubLine, Summary, HookReply,                \* what the DLL answers
  Sessions,      \* bound: the sequences of commands a user may type
  MaxSubs        \* bound: how many subroutines a scan of the target finds

ASSUME ProgramAssumption ==
  /\ Threads = {LoaderMain, LoaderMsg, DllInit, DllMsg}
  /\ \A t \in Threads :
       Side[t] = IF t \in {LoaderMain, LoaderMsg} THEN "Server" ELSE "Client"
  /\ Messages = {Greeting, ListSubs, HookAt, HookMultiple,
                 SubLine, Summary, HookReply}
  /\ Sessions \subseteq Seq({ListSubs, HookAt, HookMultiple}) /\ Sessions # {}
  /\ MaxSubs \in Nat

\* The four threads are four, and no other message is read as HookAt.
ASSUME DistinctAssumption ==
  /\ LoaderMain # LoaderMsg /\ DllInit # DllMsg
  /\ {LoaderMain, LoaderMsg} \cap {DllInit, DllMsg} = {}
  /\ HookAt \notin {Greeting, ListSubs, HookMultiple, SubLine, Summary, HookReply}

Commands == {ListSubs, HookAt, HookMultiple}
Replies  == {SubLine, Summary, HookReply}

VARIABLES
  control,    \* control[t]: where thread t is in the program
  callback,   \* callback[side]: what m_ReceivedCallback holds
  left,       \* the lines PrintFoundSubs has still to send
  sent        \* the commands the user has typed

program == <<control, callback, left, sent>>
ipcVars == <<vars, program>>

Moves(t, from, to) ==
  /\ control[t] = from
  /\ control' = [control EXCEPT ![t] = to]

\* An operation of the queue that t is inside of goes on, up to the last step of
\* a pop and of a wait, where t goes on in its own code.
CarryOn(t) ==
  /\ pc[t] \notin {"unlock", "waited"}
  /\ Continue(t)
  /\ UNCHANGED program
-----------------------------------------------------------------------------
(***************************************************************************)
(* MsgThread: WaitForMessage for ever.                                     *)
(***************************************************************************)
AwaitMessage(t) ==
  /\ control[t] = "wait"
  /\ Wait(t)
  /\ UNCHANGED program

ResetEvent(t) ==
  /\ Moves(t, "wait", "woken")
  /\ Reset(t)
  /\ UNCHANGED <<callback, left, sent>>

\* if (m_ReceivedCallback) m_ReceivedCallback(); the member is not initialised
\* by the constructor, and a wild pointer ends the process.
CallBack(t, body) ==
  /\ pc[t] = "idle"
  /\ control[t] = "woken"
  /\ UNCHANGED <<callback, left, sent>>
  /\ \/ /\ callback[Side[t]] \in {"null", "set"}
        /\ Moves(t, "woken", IF callback[Side[t]] = "set" THEN body ELSE "wait")
        /\ UNCHANGED vars
     \/ /\ callback[Side[t]] = "wild"
        /\ Dies(Side[t])
        /\ UNCHANGED <<header, mem, signal, result, stack, control>>
-----------------------------------------------------------------------------
(***************************************************************************)
(* The loader.                                                             *)
(***************************************************************************)
Greet ==
  /\ Moves(LoaderMain, "start", "greeted")
  /\ PushCall(LoaderMain, Greeting, FALSE)
  /\ UNCHANGED <<callback, left, sent>>

LoaderSetCallback ==
  /\ pc[LoaderMain] = "idle"
  /\ Moves(LoaderMain, "greeted", "ready")
  /\ callback' = [callback EXCEPT !["Server"] = "set"]
  /\ UNCHANGED <<vars, left, sent>>

\* ExecuteCommands: the commands for the DLL, pushed whether it is there or not;
\* the result of the push is ignored.
SendCommand ==
  /\ control[LoaderMain] = "ready"
  /\ \E m \in Commands : /\ PushCall(LoaderMain, m, FALSE)
                        /\ sent' = Append(sent, m)
  /\ \E s \in Sessions : IsPrefix(sent', s)
  /\ UNCHANGED <<control, callback, left>>

\* Inject returns when LoadLibrary has: InitThread is yet to run.
Inject ==
  /\ pc[LoaderMain] = "idle" /\ control[LoaderMain] = "ready"
  /\ Moves(DllInit, "absent", "construct")
  /\ UNCHANGED <<vars, callback, left, sent>>

\* KillTarget ends the target wherever its threads are.
KillTarget ==
  /\ "Client" \in Mortal
  /\ pc[LoaderMain] = "idle" /\ control[LoaderMain] = "ready"
  /\ control[DllInit] # "absent" /\ Kill("Client")
  /\ UNCHANGED program

\* PrintDllMessages: pop until nothing is left.
PrintNext ==
  /\ control[LoaderMsg] = "drain"
  /\ PopCall(LoaderMsg)
  /\ UNCHANGED program

\* Faulty variant: one message per signal.
PrintedOne ==
  /\ Unlock(LoaderMsg)
  /\ Moves(LoaderMsg, "drain", "wait")
  /\ UNCHANGED <<callback, left, sent>>

Printed ==
  /\ Unlock(LoaderMsg)
  /\ Moves(LoaderMsg, "drain",
           IF result[LoaderMsg].op = "pop" THEN "drain" ELSE "wait")
  /\ UNCHANGED <<callback, left, sent>>
-----------------------------------------------------------------------------
(***************************************************************************)
(* The DLL.                                                                *)
(***************************************************************************)
\* The constructor starts MsgThread before anybody can set the callback; the
\* object is on the heap, and so is what the callback holds until then.
Construct ==
  /\ pc[DllInit] = "idle" /\ control[DllInit] = "construct"
  /\ control' = [control EXCEPT ![DllInit] = "constructed", ![DllMsg] = "wait"]
  /\ \E c \in {"null", "wild"} : callback' = [callback EXCEPT !["Client"] = c]
  /\ UNCHANGED <<vars, left, sent>>

DllSetCallback ==
  /\ pc[DllInit] = "idle"
  /\ Moves(DllInit, "constructed", "done")
  /\ callback' = [callback EXCEPT !["Client"] = "set"]
  /\ UNCHANGED <<vars, left, sent>>

\* ParseAndExecuteCommands pops one message ...
PopCommand ==
  /\ control[DllMsg] = "serve"
  /\ PopCall(DllMsg)
  /\ UNCHANGED program

\* ... and acts on what it got; what is no command is dropped, and HookMultiple
\* does not answer.
Task(r) ==
  IF r.op = "pop" /\ r.msg = ListSubs THEN "list"
  ELSE IF r.op = "pop" /\ r.msg = HookAt THEN "hook"
  ELSE "wait"

Dispatch ==
  /\ Unlock(DllMsg)
  /\ Moves(DllMsg, "serve", Task(result[DllMsg]))
  /\ UNCHANGED <<callback, left, sent>>

\* FindSubRoutines, then PrintFoundSubs: one lock around all the lines.
LockBatch ==
  /\ Moves(DllMsg, "list", "batch")
  /\ ManualLock(DllMsg)
  /\ left' \in 0 .. MaxSubs
  /\ UNCHANGED <<callback, sent>>

\* Faulty variant: one line too many.
SendLineMore ==
  /\ control[DllMsg] = "batch"
  /\ PushCall(DllMsg, SubLine, TRUE)
  /\ left' = left - 1
  /\ UNCHANGED <<control, callback, sent>>

SendLine ==
  /\ control[DllMsg] = "batch" /\ left > 0
  /\ PushCall(DllMsg, SubLine, TRUE)
  /\ left' = left - 1
  /\ UNCHANGED <<control, callback, sent>>

SendSummary ==
  /\ left = 0
  /\ Moves(DllMsg, "batch", "listed")
  /\ PushCall(DllMsg, Summary, TRUE)
  /\ UNCHANGED <<callback, left, sent>>

\* Faulty variant: no PLH::finally.
UnlockBatchForgotten ==
  /\ pc[DllMsg] = "idle"
  /\ Moves(DllMsg, "listed", "wait")
  /\ UNCHANGED <<vars, callback, left, sent>>

\* The destructor of PLH::finally.
UnlockBatch ==
  /\ Moves(DllMsg, "listed", "wait")
  /\ ManualUnlock(DllMsg)
  /\ UNCHANGED <<callback, left, sent>>

AnswerHook ==
  /\ Moves(DllMsg, "hook", "wait")
  /\ PushCall(DllMsg, HookReply, FALSE)
  /\ UNCHANGED <<callback, left, sent>>
-----------------------------------------------------------------------------
IPCInit ==
  /\ Init
  /\ control = [t \in Threads |-> IF t = LoaderMain THEN "start"
                                  ELSE IF t = LoaderMsg THEN "wait"
                                  ELSE "absent"]
  /\ callback = [side \in Sides |-> "null"]   \* MemServer has static storage
  /\ left = 0
  /\ sent = <<>>

MainStep      == CarryOn(LoaderMain) \/ Greet \/ LoaderSetCallback
UserStep      == SendCommand \/ Inject \/ KillTarget
MsgStep(t, b) == CarryOn(t) \/ AwaitMessage(t) \/ ResetEvent(t) \/ CallBack(t, b)
PrintStep     == MsgStep(LoaderMsg, "drain") \/ PrintNext \/ Printed
InitStep      == Construct \/ DllSetCallback
ServeStep     == \/ MsgStep(DllMsg, "serve") \/ PopCommand \/ Dispatch
                 \/ LockBatch \/ SendLine \/ SendSummary \/ UnlockBatch
                 \/ AnswerHook

IPCNext == MainStep \/ UserStep \/ PrintStep \/ InitStep \/ ServeStep

IPCSafety == IPCInit /\ [][IPCNext]_ipcVars

\* Every thread that can run does; the user need not type anything.  No thread
\* holds m_Mutex for ever and the commands are finitely many, so that weak
\* fairness of a thread that waits for m_Mutex is enough.
IPCSpec ==
  /\ IPCSafety
  /\ WF_ipcVars(MainStep)
  /\ WF_ipcVars(PrintStep)
  /\ WF_ipcVars(InitStep)
  /\ WF_ipcVars(ServeStep)
-----------------------------------------------------------------------------
(***************************************************************************)
(* Properties.                                                             *)
(***************************************************************************)
\* The type of the program's variables.
ProgramTypeOK ==
  /\ control \in [Threads -> {"absent", "start", "greeted", "ready",
                              "construct", "constructed", "done",
                              "wait", "woken", "drain", "serve",
                              "list", "batch", "listed", "hook"}]
  /\ callback \in [Sides -> {"null", "wild", "set"}]
  /\ left \in 0 .. MaxSubs
  /\ \E s \in Sessions : IsPrefix(sent, s)

\* The user has hooked nothing, so that every answer is one of ListSubs.
OnlyListed == HookAt \notin Range(sent)

\* When the only answers are those of ListSubs, pushed under the lock, the loader
\* prints answers and nothing else and survives, however the unlocked pushes of
\* its own commands corrupt the other half, and wherever the target is killed.
OnlyReplies == OnlyListed =>
  /\ pc[LoaderMsg] # "dead"
  /\ result[LoaderMsg].op = "pop" => result[LoaderMsg].msg \in Replies

\* While nobody has hooked anything, no two threads are inside the accesses of PushMessage
\* and PopMessage to the half of the answers at once, whatever the loader pushes without
\* the mutex and wherever the target is killed.
AnswersSynchronized == OnlyListed =>
  \A t, u \in Threads :
    Accesses(t, "ClientToServer") /\ Accesses(u, "ClientToServer") => t = u

\* "sends it commands via a shared memory queue/stack system": the DLL does not
\* go back to waiting for the event, unset, while a command lies in its half.
NoCommandLeft ==
  (/\ control[DllMsg] = "wait" /\ pc[DllMsg] = "idle"
   /\ callback["Client"] = "set" /\ ~signal["ServerToClient"]
   /\ pc[LoaderMain] = "idle")
  => \A i \in 1 .. Len(stack["ServerToClient"]) :
       stack["ServerToClient"][i].msg \notin Commands

\* Every answer of ListSubs is printed in the end: no signal is lost between the Wait, the
\* Reset and the last, empty, pop of PrintDllMessages (lines 252-264 and
\* UniHookLoader.cpp:29-36).  A target that is killed after the store of the
\* count and before the signal of its last push leaves an answer behind.
AnswersPrinted ==
  count["ClientToServer"] > 0
    ~> count["ClientToServer"] = 0 \/ pc[DllMsg] = "dead" \/ ~OnlyListed

\* m_Mutex is given back in the end, by a batch that fills its half as well as
\* by a target that is killed in one, and when unlocked answers to hook commands
\* have corrupted the header.
MutexReleased == owner # Nobody ~> owner = Nobody
=============================================================================
