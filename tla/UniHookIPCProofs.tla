-------------------------- MODULE UniHookIPCProofs --------------------------
(***************************************************************************)
(* Theorems about the two programs around the queue, for any number of     *)
(* commands and lines, any size of the mapping and of the messages, and a  *)
(* target that may be killed at any time.                                  *)
(***************************************************************************)
EXTENDS UniHookIPC, SharedMemQueueProofs

Programs == {LoaderMain, LoaderMsg, DllInit, DllMsg}

\* Who is who.
LEMMA WhoIsWho ==
  /\ Threads = Programs
  /\ Side[LoaderMain] = "Server" /\ Side[LoaderMsg] = "Server"
  /\ Side[DllInit] = "Client" /\ Side[DllMsg] = "Client"
  /\ DllMsg \notin {LoaderMain, LoaderMsg, DllInit}
  /\ LoaderMsg \notin {LoaderMain, DllInit, DllMsg}
  /\ DllInit # LoaderMain
<1>1. /\ Threads = Programs
      /\ Side[LoaderMain] = "Server" /\ Side[LoaderMsg] = "Server"
  BY ProgramAssumption DEF Programs
<1>2. DllInit \notin {LoaderMain, LoaderMsg} => Side[DllInit] = "Client"
  BY ProgramAssumption
<1>3. DllMsg \notin {LoaderMain, LoaderMsg} => Side[DllMsg] = "Client"
  BY ProgramAssumption
<1> QED BY <1>1, <1>2, <1>3, DistinctAssumption

LEMMA WhatIsSent ==
  /\ {Greeting, ListSubs, HookAt, HookMultiple, SubLine, Summary, HookReply} = Messages
  /\ HookAt # Garbage
BY ProgramAssumption, QueueAssumption

(***************************************************************************)
(* A step of the programs is an operation of the queue, or none.           *)
(***************************************************************************)
LEMMA ProgramsOperate ==
  ASSUME NEW M, {Greeting, SubLine, Summary, HookReply} \subseteq M,
         [IPCNext]_ipcVars, \A m \in Commands : sent' = Append(sent, m) => m \in M
  PROVE  [OperationOf(M)]_vars
<1> USE WhoIsWho DEF Programs
<1>1. CASE UNCHANGED ipcVars
  BY <1>1 DEF ipcVars
<1>2. ASSUME NEW t \in Threads, Continue(t) PROVE OperationOf(M)
  BY <1>2 DEF OperationOf
<1>3. ASSUME NEW t \in Threads, NEW body, CallBack(t, body) PROVE [OperationOf(M)]_vars
  <2>1. Side[t] \in Sides
    BY QueueAssumption
  <2> QED BY <1>3, <2>1 DEF CallBack, OperationOf, header
<1>4. ASSUME NEW t \in Threads, NEW body, MsgStep(t, body) PROVE [OperationOf(M)]_vars
  <2>1. CASE CarryOn(t)
    BY <2>1, <1>2 DEF CarryOn
  <2>2. CASE AwaitMessage(t)
    BY <2>2 DEF AwaitMessage, OperationOf
  <2>3. CASE ResetEvent(t)
    BY <2>3, <1>2 DEF ResetEvent, Continue
  <2> QED BY <1>4, <2>1, <2>2, <2>3, <1>3 DEF MsgStep
<1>5. CASE MainStep
  BY <1>5, <1>2 DEF MainStep, CarryOn, Greet, LoaderSetCallback, OperationOf
<1>6. CASE UserStep
  <2>1. CASE SendCommand
    BY <2>1 DEF SendCommand, Commands, OperationOf
  <2>2. CASE KillTarget
    BY <2>2 DEF KillTarget, Kill, Sides, header, OperationOf
  <2> QED BY <1>6, <2>1, <2>2 DEF UserStep, Inject
<1>7. CASE PrintStep
  <2>1. CASE PrintNext
    BY <2>1 DEF PrintNext, OperationOf
  <2>2. CASE Printed
    BY <2>2, <1>2 DEF Printed, Continue
  <2> QED BY <1>7, <2>1, <2>2, <1>4 DEF PrintStep
<1>8. CASE InitStep
  BY <1>8 DEF InitStep, Construct, DllSetCallback
<1>9. CASE ServeStep
  <2>1. CASE PopCommand
    BY <2>1 DEF PopCommand, OperationOf
  <2>2. CASE Dispatch
    BY <2>2, <1>2 DEF Dispatch, Continue
  <2>3. CASE LockBatch \/ UnlockBatch
    BY <2>3 DEF LockBatch, UnlockBatch, OperationOf
  <2>4. CASE SendLine \/ SendSummary \/ AnswerHook
    BY <2>4 DEF SendLine, SendSummary, AnswerHook, OperationOf
  <2> QED BY <1>9, <2>1, <2>2, <2>3, <2>4, <1>4 DEF ServeStep
<1> QED BY <1>1, <1>5, <1>6, <1>7, <1>8, <1>9 DEF IPCNext

LEMMA ProgramsOperation == [IPCNext]_ipcVars => [Operation]_vars
BY ProgramsOperate, WhatIsSent DEF Commands, Operation

LEMMA TypesInPrograms == IPCSpec => [](TypeOK /\ LockBalanced /\ PushingMessage)
<1>1. IPCInit => TypeOK /\ LockBalanced /\ PushingMessage
  BY InitTypes DEF IPCInit, Init, PushingMessage, Updating
<1>2. TypeOK /\ LockBalanced /\ PushingMessage /\ [IPCNext]_ipcVars
        => (TypeOK /\ LockBalanced /\ PushingMessage)'
  BY ProgramsOperation, TypesOperation, PushingMessageOperation
<1> QED BY <1>1, <1>2, PTL DEF IPCSpec, IPCSafety

\* The programs lock and unlock in balance: every early return, refused push, batch
\* and kill leaves m_Mutex with the thread whose operations hold it, or free.
THEOREM ProgramsBalanced == IPCSpec => []LockBalanced
BY TypesInPrograms, PTL
(***************************************************************************)
(* Which thread is inside which operations.                                *)
(***************************************************************************)
Pushing == {"push", "pushSignal"} \cup Updating

\* What a thread's own step leaves to the others, and where it takes itself.
LEMMA CarriesOn ==
  ASSUME TypeOK, NEW t \in Threads, Continue(t)
  PROVE  /\ pc[t] \in Pushing => pc'[t] \in Pushing \cup {"idle"}
         /\ pc[t] \in Popping \cup {"unlock"} => pc'[t] \in Popping \cup {"unlock", "idle", "dead"}
         /\ pc[t] = "waited" => pc'[t] = "idle"
         /\ pc[t] \notin {"idle", "dead"}
         /\ pc'[t] \in {"push"} \cup Updating => pc[t] \in {"push"} \cup Updating
         /\ pc'[t] # "dead" => manual' = manual
         /\ \A u \in Threads : u # t =>
              pc'[u] = "dead" \/ (pc'[u] = pc[u] /\ manual'[u] = manual[u])
<1> USE DEF TypeOK, DataOK, Goto, Pushing, Updating, Popping, local
<1>1. CASE PushRefuse(t) \/ PushLocate(t) \/ PushWrite(t) \/ PushEndLoad(t)
  BY <1>1 DEF PushRefuse, PushLocate, PushWrite, PushEndLoad
<1>2. CASE PushEndStore(t) \/ PushCountLoad(t) \/ PushCountStore(t) \/ PushSignal(t)
  BY <1>2 DEF PushEndStore, PushCountLoad, PushCountStore, PushSignal
<1>3. CASE PopRead(t) \/ PopEndLoad(t) \/ PopEndStore(t)
  BY <1>3 DEF PopRead, PopEndLoad, PopEndStore
<1>4. CASE PopCountLoad(t) \/ PopCountStore(t) \/ Unlock(t) \/ Reset(t)
  BY <1>4 DEF PopCountLoad, PopCountStore, Unlock, Reset
<1>5. CASE PopFault(t)
  BY <1>5 DEF PopFault, Dies
<1> QED BY <1>1, <1>2, <1>3, <1>4, <1>5 DEF Continue
Roles ==
  /\ pc[LoaderMain] \in Pushing \cup {"idle", "dead"}
  /\ pc[LoaderMsg] \in Popping \cup {"unlock", "waited", "idle", "dead"}
  /\ pc[DllInit] \in {"idle", "dead"}

\* The loader's main thread only pushes, its message thread only waits and pops, and
\* InitThread calls no operation.
LEMMA RolesStep ==
  ASSUME TypeOK, Roles, [IPCNext]_ipcVars PROVE Roles'
<1> USE WhoIsWho DEF Programs, Roles, TypeOK, DataOK
<1>1. CASE UNCHANGED vars
  BY <1>1 DEF vars
<1>2. ASSUME NEW t \in Threads, Continue(t) PROVE Roles'
  <2>1. pc[DllInit] # "idle" => pc[DllInit] = "dead"
    OBVIOUS
  <2>2. t # DllInit
    BY <1>2, <2>1, CarriesOn
  <2>3. pc'[DllInit] \in {"idle", "dead"}
    BY <1>2, <2>2, CarriesOn
  <2>4. pc'[LoaderMain] \in Pushing \cup {"idle", "dead"}
    BY <1>2, CarriesOn
  <2>5. pc'[LoaderMsg] \in Popping \cup {"unlock", "waited", "idle", "dead"}
    BY <1>2, CarriesOn
  <2> QED BY <2>3, <2>4, <2>5
<1>3. ASSUME NEW side, Dies(side) PROVE Roles'
  BY <1>3 DEF Dies
<1>4. ASSUME NEW t \in Threads, NEW body, MsgStep(t, body), t \in {LoaderMsg, DllMsg}
      PROVE  Roles'
  <2>1. CASE CarryOn(t)
    BY <2>1, <1>2 DEF CarryOn
  <2>2. CASE AwaitMessage(t)
    BY <2>2, <1>4 DEF AwaitMessage, Wait, Goto
  <2>3. CASE ResetEvent(t)
    BY <2>3, <1>2 DEF ResetEvent, Continue
  <2>4. CASE CallBack(t, body)
    BY <2>4, <1>1, <1>3 DEF CallBack
  <2> QED BY <1>4, <2>1, <2>2, <2>3, <2>4 DEF MsgStep
<1>5. CASE MainStep
  <2>1. CASE Greet
    BY <2>1 DEF Greet, PushCall, Goto, Pushing
  <2> QED BY <1>5, <2>1, <1>1, <1>2 DEF MainStep, CarryOn, LoaderSetCallback
<1>6. CASE UserStep
  <2>1. CASE SendCommand
    BY <2>1 DEF SendCommand, PushCall, Goto, Pushing
  <2> QED BY <1>6, <2>1, <1>1, <1>3 DEF UserStep, Inject, KillTarget, Kill
<1>7. CASE PrintStep
  <2>1. CASE PrintNext
    BY <2>1 DEF PrintNext, PopCall, PopEmpty, PopLocate, Goto, Popping
  <2>2. CASE Printed
    BY <2>2, <1>2 DEF Printed, Continue
  <2> QED BY <1>7, <2>1, <2>2, <1>4 DEF PrintStep
<1>8. CASE InitStep
  BY <1>8, <1>1 DEF InitStep, Construct, DllSetCallback
<1>9. CASE ServeStep
  <2>1. CASE PopCommand
    BY <2>1 DEF PopCommand, PopCall, PopEmpty, PopLocate, Goto
  <2>2. CASE Dispatch
    BY <2>2, <1>2 DEF Dispatch, Continue
  <2>3. CASE LockBatch \/ UnlockBatch
    BY <2>3 DEF LockBatch, UnlockBatch, ManualLock, ManualUnlock
  <2>4. CASE SendLine \/ SendSummary \/ AnswerHook
    BY <2>4 DEF SendLine, SendSummary, AnswerHook, PushCall, Goto
  <2> QED BY <1>9, <2>1, <2>2, <2>3, <2>4, <1>4 DEF ServeStep
<1> QED
  <2> HIDE DEF Roles, TypeOK, DataOK
  <2> QED BY <1>1, <1>5, <1>6, <1>7, <1>8, <1>9 DEF IPCNext, ipcVars

(***************************************************************************)
(* Messages that were never pushed.                                        *)
(***************************************************************************)
\* m is nowhere: in no half, in no thread's hands, and no thread was given it.
Absent(m) ==
  /\ \A h \in Halves : \A i \in Offsets : mem[h][i] # DataOf(m)
  /\ \A t \in Threads : msg[t] # m
  /\ \A t \in Threads : result[t].op = "pop" => result[t].msg # m

LEMMA DataDiffers ==
  ASSUME NEW m, NEW n, m # n
  PROVE  DataOf(m) # DataOf(n) /\ DataOf(m) # LengthOf(n) /\ DataOf(m) # Zero
<1>1. DataOf(m) # DataOf(n)
  BY DEF DataOf
<1>2. DOMAIN DataOf(m) = {"data"} /\ DOMAIN LengthOf(n) = {"length"} /\ DOMAIN Zero = {"length"}
  BY DEF DataOf, LengthOf, Zero
<1> QED BY <1>1, <1>2

\* PopMessage does not invent a message, whatever the header says.
LEMMA ReadsNothingNew ==
  ASSUME NEW m \in Messages, Absent(m), NEW h \in Halves, NEW o \in Int
  PROVE  MessageAt(h, o) # m
<1>1. CASE \E n \in Messages : HoldsFrame(mem[h], o, n)
  <2>1. PICK n \in Messages : n = MessageAt(h, o) /\ HoldsFrame(mem[h], o, n)
    BY <1>1 DEF MessageAt
  <2>2. Frame(n) \in Nat /\ Frame(n) >= 2
    BY FrameSize
  <2>3. o - Frame(n) \in Offsets
    BY <2>1, <2>2, LayoutAssumption DEF HoldsFrame, Offsets, HeaderSize
  <2>4. mem[h][o - Frame(n)] = DataOf(n)
    BY <2>1, <2>2 DEF HoldsFrame
  <2> QED BY <2>1, <2>3, <2>4 DEF Absent
<1>2. CASE ~ \E n \in Messages : HoldsFrame(mem[h], o, n)
  BY <1>2, QueueAssumption DEF MessageAt
<1> QED BY <1>1, <1>2

LEMMA ReturnsNothingNew ==
  ASSUME TypeOK, NEW m \in Messages, Absent(m), UNCHANGED mem, NEW t \in Threads, NEW r,
         Returns(t, r), r.op = "pop" => r.msg # m
  PROVE  Absent(m)'
<1>1. \A u \in Threads : result'[u] = (IF u = t THEN r ELSE result[u])
  BY DEF Returns, TypeOK, DataOK
<1>2. \A u \in Threads : msg'[u] = (IF u = t THEN Garbage ELSE msg[u])
  BY DEF Returns, TypeOK, DataOK
<1>3. m # Garbage
  BY QueueAssumption
<1> QED BY <1>1, <1>2, <1>3 DEF Absent

LEMMA AbsentStays ==
  ASSUME TypeOK, NEW m \in Messages, Absent(m), [OperationOf(Messages \ {m})]_vars
  PROVE  Absent(m)'
<1> USE DEF TypeOK, DataOK, local
<1>0. m # Garbage
  BY QueueAssumption
<1>1. CASE UNCHANGED vars
  BY <1>1 DEF vars, Absent
<1>2. ASSUME NEW t \in Threads, NEW n \in Messages \ {m}, NEW b \in BOOLEAN,
             PushCall(t, n, b)
      PROVE  Absent(m)'
  BY <1>2 DEF PushCall, Absent
<1>3. ASSUME NEW t \in Threads, PushWrite(t) PROVE Absent(m)'
  <2>1. msg[t] # m
    BY DEF Absent
  <2>2. \A i \in Offsets : WriteFrame(mem[Out(t)], at[t], msg[t])[i] # DataOf(m)
    BY <2>1, DataDiffers, HalvesOf DEF WriteFrame, Absent
  <2> QED BY <1>3, <2>2 DEF PushWrite, Absent
<1>4. ASSUME NEW t \in Threads,
             PushLocate(t) \/ PushEndLoad(t) \/ PushEndStore(t) \/ PushCountLoad(t)
      PROVE  Absent(m)'
  BY <1>4 DEF PushLocate, PushEndLoad, PushEndStore, PushCountLoad, Absent
<1>5. ASSUME NEW t \in Threads, PushRefuse(t) \/ PushCountStore(t) PROVE Absent(m)'
  BY <1>5, ReturnsNothingNew DEF PushRefuse, PushCountStore
<1>6. ASSUME NEW t \in Threads,
             PushSignal(t) \/ Unlock(t) \/ Reset(t) \/ Wait(t)
      PROVE  Absent(m)'
  BY <1>6 DEF PushSignal, Unlock, Reset, Wait, Absent
<1>7. ASSUME NEW t \in Threads,
             PopLocate(t) \/ PopEndLoad(t) \/ PopEndStore(t) \/ PopCountLoad(t)
      PROVE  Absent(m)'
  BY <1>7 DEF PopLocate, PopEndLoad, PopEndStore, PopCountLoad, Absent
<1>8. ASSUME NEW t \in Threads, PopRead(t) PROVE Absent(m)'
  <2>1. MessageAt(In(t), at[t]) # m
    BY ReadsNothingNew, HalvesOf DEF DWords
  <2> QED BY <1>8, <2>1 DEF PopRead, Absent
<1>9. ASSUME NEW t \in Threads, PopCountStore(t) \/ PopEmpty(t) PROVE Absent(m)'
  <2>1. CASE PopCountStore(t)
    <3>1. msg[t] # m
      BY DEF Absent
    <3> QED BY <2>1, <3>1, ReturnsNothingNew DEF PopCountStore
  <2>2. CASE PopEmpty(t)
    BY <2>2, ReturnsNothingNew DEF PopEmpty
  <2> QED BY <1>9, <2>1, <2>2
<1>10. ASSUME NEW t \in Threads, NEW h \in Halves, Query(t, h) PROVE Absent(m)'
  BY <1>10, ReturnsNothingNew DEF Query
<1>11. ASSUME NEW t \in Threads, ManualLock(t) \/ ManualUnlock(t) PROVE Absent(m)'
  BY <1>11 DEF ManualLock, ManualUnlock, Absent
<1>12. ASSUME NEW side, Dies(side), UNCHANGED <<count, end, mem, signal, result, stack>>
       PROVE  Absent(m)'
  BY <1>0, <1>12 DEF Dies, Absent
<1>13. ASSUME NEW side \in Sides, Start(side) PROVE Absent(m)'
  <2>1. mem' = mem \/ mem' = NewMem
    BY <1>13 DEF Start
  <2>2. msg' = msg /\ result' = result
    BY <1>13 DEF Start
  <2>3. CASE mem' = NewMem
    <3>1. PICK n : n # m
      BY <1>0
    <3> QED BY <2>2, <2>3, <3>1, DataDiffers DEF NewMem, Absent
  <2> QED BY <2>1, <2>2, <2>3 DEF Absent
<1> QED
  <2> HIDE DEF TypeOK, DataOK, local
  <2>1. ASSUME NEW t \in Threads, PopFault(t) PROVE Absent(m)'
    BY <2>1, <1>12 DEF PopFault, header
  <2> QED BY <1>1, <1>2, <1>3, <1>4, <1>5, <1>6, <1>7, <1>8, <1>9, <1>10, <1>11, <1>12,
             <1>13, <2>1 DEF OperationOf, Continue, PopCall
(***************************************************************************)
(* The answers of ListSubs are pushed under the mutex.                     *)
(***************************************************************************)
SentOK == sent \in Seq(Messages)

\* What was typed stays typed.
LEMMA SentStep ==
  ASSUME SentOK, NEW m \in Messages, sent' = Append(sent, m)
  PROVE  SentOK' /\ (OnlyListed' => OnlyListed /\ m # HookAt)
<1>1. /\ Len(sent') = Len(sent) + 1 /\ sent'[Len(sent) + 1] = m
      /\ \A i \in 1 .. Len(sent) : sent'[i] = sent[i]
  BY DEF SentOK
<1>2. DOMAIN sent' = 1 .. Len(sent) + 1 /\ DOMAIN sent = 1 .. Len(sent) /\ Len(sent) \in Nat
  BY DEF SentOK
<1> QED BY <1>1, <1>2 DEF SentOK, OnlyListed, Range
LEMMA SentMoves ==
  ASSUME [IPCNext]_ipcVars
  PROVE  UNCHANGED sent \/ \E m \in Commands : sent' = Append(sent, m)
<1>1. CASE SendCommand
  BY <1>1 DEF SendCommand
<1>2. CASE UNCHANGED ipcVars \/ MainStep \/ InitStep \/ Inject \/ KillTarget
  BY <1>2 DEF ipcVars, program, MainStep, CarryOn, Greet, LoaderSetCallback, InitStep,
              Construct, DllSetCallback, Inject, KillTarget
<1>3. ASSUME NEW t, NEW body, MsgStep(t, body) PROVE UNCHANGED sent
  BY <1>3 DEF MsgStep, CarryOn, AwaitMessage, ResetEvent, CallBack, program
<1>4. CASE PrintStep
  BY <1>4, <1>3 DEF PrintStep, PrintNext, Printed, program
<1>5. CASE ServeStep
  BY <1>5, <1>3 DEF ServeStep, PopCommand, Dispatch, LockBatch, SendLine, SendSummary,
                    UnlockBatch, AnswerHook, program
<1> QED BY <1>1, <1>2, <1>4, <1>5 DEF IPCNext, UserStep

\* What the DLL pushes, it pushes under ManualLock, but for the answer to HookAt.
LockedPush == pc[DllMsg] \in {"push"} \cup Updating => manual[DllMsg]

LEMMA LockedPushStep ==
  ASSUME TypeOK, LockedPush, control[DllMsg] # "hook", [IPCNext]_ipcVars
  PROVE  LockedPush'
<1> USE WhoIsWho DEF Programs, LockedPush, TypeOK, DataOK
<1>1. CASE UNCHANGED vars
  BY <1>1 DEF vars
<1>2. ASSUME NEW t \in Threads, Continue(t) PROVE LockedPush'
  BY <1>2, CarriesOn DEF Updating
<1>3. ASSUME NEW side, Dies(side) PROVE LockedPush'
  BY <1>3 DEF Dies, Updating
<1>4. ASSUME NEW t \in Threads, NEW body, MsgStep(t, body) PROVE LockedPush'
  <2>1. CASE CarryOn(t)
    BY <2>1, <1>2 DEF CarryOn
  <2>2. CASE AwaitMessage(t)
    BY <2>2 DEF AwaitMessage, Wait, Goto, Updating, local
  <2>3. CASE ResetEvent(t)
    BY <2>3, <1>2 DEF ResetEvent, Continue
  <2>4. CASE CallBack(t, body)
    BY <2>4, <1>1, <1>3 DEF CallBack
  <2> QED BY <1>4, <2>1, <2>2, <2>3, <2>4 DEF MsgStep
<1>5. CASE MainStep
  <2>1. CASE Greet
    BY <2>1 DEF Greet, PushCall, Goto
  <2> QED BY <1>5, <2>1, <1>1, <1>2 DEF MainStep, CarryOn, LoaderSetCallback
<1>6. CASE UserStep
  <2>1. CASE SendCommand
    BY <2>1 DEF SendCommand, PushCall, Goto
  <2> QED BY <1>6, <2>1, <1>1, <1>3 DEF UserStep, Inject, KillTarget, Kill
<1>7. CASE PrintStep
  <2>1. CASE PrintNext
    BY <2>1 DEF PrintNext, PopCall, PopEmpty, PopLocate, Goto
  <2>2. CASE Printed
    BY <2>2, <1>2 DEF Printed, Continue
  <2> QED BY <1>7, <2>1, <2>2, <1>4 DEF PrintStep
<1>8. CASE InitStep
  BY <1>8, <1>1 DEF InitStep, Construct, DllSetCallback
<1>9. CASE ServeStep
  <2>1. CASE PopCommand
    BY <2>1 DEF PopCommand, PopCall, PopEmpty, PopLocate, Goto, Updating
  <2>2. CASE Dispatch
    BY <2>2, <1>2 DEF Dispatch, Continue
  <2>3. CASE LockBatch \/ UnlockBatch
    BY <2>3 DEF LockBatch, UnlockBatch, ManualLock, ManualUnlock, Updating
  <2>4. CASE SendLine \/ SendSummary
    BY <2>4 DEF SendLine, SendSummary, PushCall, Goto
  <2>5. CASE AnswerHook
    BY <2>5 DEF AnswerHook, Moves
  <2> QED BY <1>9, <2>1, <2>2, <2>3, <2>4, <2>5, <1>4 DEF ServeStep
<1> QED
  <2> HIDE DEF LockedPush, TypeOK, DataOK
  <2> QED BY <1>1, <1>5, <1>6, <1>7, <1>8, <1>9 DEF IPCNext, ipcVars

LEMMA DomainStep ==
  ASSUME DOMAIN control = Threads, [IPCNext]_ipcVars PROVE DOMAIN control' = Threads
<1>1. ASSUME NEW t \in Threads, NEW body, MsgStep(t, body) PROVE DOMAIN control' = Threads
  BY <1>1 DEF MsgStep, CarryOn, AwaitMessage, ResetEvent, CallBack, program, Moves
<1>2. CASE MainStep \/ UserStep \/ InitStep \/ UNCHANGED ipcVars
  BY <1>2 DEF MainStep, CarryOn, Greet, LoaderSetCallback, UserStep, SendCommand, Inject,
              KillTarget, InitStep, Construct, DllSetCallback, program, ipcVars, Moves
<1>3. CASE PrintNext \/ Printed
  BY <1>3 DEF PrintNext, Printed, program, Moves
<1>4. CASE ServeStep /\ ~MsgStep(DllMsg, "serve")
  BY <1>4 DEF ServeStep, PopCommand, Dispatch, LockBatch, SendLine, SendSummary,
              UnlockBatch, AnswerHook, program, Moves
<1> QED BY <1>1, <1>2, <1>3, <1>4, WhoIsWho DEF IPCNext, PrintStep, ServeStep, Programs

\* Only a message that was HookAt leads to an answer that is pushed without the mutex.
LEMMA HookStep ==
  ASSUME control[DllMsg] # "hook", DOMAIN control = Threads,
         result[DllMsg].op = "pop" => result[DllMsg].msg # HookAt, [IPCNext]_ipcVars
  PROVE  control'[DllMsg] # "hook"
<1> USE WhoIsWho DEF Programs, Moves
<1>1. CASE UNCHANGED control
  BY <1>1
<1>2. ASSUME NEW t \in {LoaderMsg, DllMsg}, NEW body \in {"drain", "serve"}, MsgStep(t, body)
      PROVE  control'[DllMsg] # "hook"
  BY <1>2 DEF MsgStep, CarryOn, AwaitMessage, ResetEvent, CallBack, program
<1>3. CASE MainStep \/ UserStep \/ InitStep
  BY <1>3 DEF MainStep, CarryOn, Greet, LoaderSetCallback, UserStep, SendCommand, Inject,
              KillTarget, InitStep, Construct, DllSetCallback, program
<1>4. CASE PrintNext \/ Printed
  BY <1>4 DEF PrintNext, Printed, program
<1>5. CASE PopCommand \/ LockBatch \/ SendLine \/ SendSummary \/ UnlockBatch \/ AnswerHook
  BY <1>5 DEF PopCommand, LockBatch, SendLine, SendSummary, UnlockBatch, AnswerHook, program
<1>6. CASE Dispatch
  BY <1>6 DEF Dispatch, Task
<1> QED BY <1>1, <1>2, <1>3, <1>4, <1>5, <1>6
        DEF IPCNext, ipcVars, program, PrintStep, ServeStep
\* Until the user has typed HookAt, it is nowhere, and the DLL pushes under ManualLock.
Listed == OnlyListed => Absent(HookAt) /\ control[DllMsg] # "hook" /\ LockedPush

IPCInv ==
  /\ TypeOK /\ LockBalanced /\ PushingMessage
  /\ Roles /\ SentOK /\ DOMAIN control = Threads
  /\ Listed

LEMMA IPCInitially == IPCInit => IPCInv
<1> SUFFICES ASSUME IPCInit PROVE IPCInv
  OBVIOUS
<1>1. TypeOK /\ LockBalanced /\ PushingMessage
  BY InitTypes DEF IPCInit, Init, PushingMessage, Updating
<1>2. Roles
  BY WhoIsWho DEF Roles, IPCInit, Init, Programs
<1>3. SentOK
  BY EmptySeq DEF SentOK, IPCInit
<1>4. Absent(HookAt)
  <2>1. PICK n : n # HookAt
    BY WhatIsSent
  <2> QED BY <2>1, WhatIsSent, DataDiffers DEF IPCInit, Init, NewMem, Absent
<1>5. DOMAIN control = Threads /\ control[DllMsg] # "hook" /\ pc[DllMsg] = "idle"
  BY WhoIsWho DEF IPCInit, Init, Programs
<1> QED BY <1>1, <1>2, <1>3, <1>4, <1>5 DEF IPCInv, Listed, LockedPush, Updating

LEMMA IPCInvStep == IPCInv /\ [IPCNext]_ipcVars => IPCInv'
<1> SUFFICES ASSUME IPCInv, [IPCNext]_ipcVars PROVE IPCInv'
  OBVIOUS
<1> USE DEF IPCInv
<1>1. (TypeOK /\ LockBalanced /\ PushingMessage)'
  BY ProgramsOperation, TypesOperation, PushingMessageOperation
<1>2. Roles'
  BY RolesStep
<1>3. Commands \subseteq Messages
  BY WhatIsSent DEF Commands
<1>4. SentOK' /\ (OnlyListed' => OnlyListed)
  BY <1>3, SentMoves, SentStep DEF SentOK, OnlyListed
<1>5. DOMAIN control' = Threads
  BY DomainStep
<1>6. ASSUME OnlyListed' PROVE (Absent(HookAt) /\ control[DllMsg] # "hook" /\ LockedPush)'
  <2>1. Absent(HookAt) /\ control[DllMsg] # "hook" /\ LockedPush
    BY <1>4, <1>6 DEF Listed
  <2>2. Absent(HookAt)'
    <3>1. \A m \in Commands : sent' = Append(sent, m) => m \in Messages \ {HookAt}
      BY <1>3, <1>6, SentStep
    <3>2. {Greeting, SubLine, Summary, HookReply} \subseteq Messages \ {HookAt}
      BY WhatIsSent, DistinctAssumption
    <3>3. [OperationOf(Messages \ {HookAt})]_vars
      BY <3>1, <3>2, ProgramsOperate
    <3> QED BY <2>1, <3>3, WhatIsSent, AbsentStays
  <2>3. control'[DllMsg] # "hook"
    BY <2>1, WhoIsWho, HookStep DEF Absent, Programs
  <2>4. LockedPush'
    BY <2>1, LockedPushStep
  <2> QED BY <2>2, <2>3, <2>4
<1> QED BY <1>1, <1>2, <1>4, <1>5, <1>6 DEF Listed

LEMMA IPCInvAlways == IPCSpec => []IPCInv
BY IPCInitially, IPCInvStep, PTL DEF IPCSpec, IPCSafety

LEMMA AnswersExclusive == IPCInv => AnswersSynchronized
<1> SUFFICES ASSUME IPCInv, OnlyListed,
                    NEW t \in Threads, NEW u \in Threads,
                    Accesses(t, "ClientToServer"), Accesses(u, "ClientToServer")
             PROVE  t = u
  BY DEF AnswersSynchronized
<1>1. ASSUME NEW v \in Threads, Accesses(v, "ClientToServer")
      PROVE  v \in {LoaderMsg, DllMsg} /\ Holds(v) > 0
  <2>1. CASE v = LoaderMain
    BY <1>1, <2>1, WhoIsWho
       DEF Accesses, Out, In, OutHalf, InHalf, IPCInv, Roles, Pushing, Updating, Popping
  <2>2. CASE v = DllInit
    BY <1>1, <2>2 DEF Accesses, IPCInv, Roles, Updating, Popping
  <2>3. CASE v = LoaderMsg
    <3>1. pc[v] \in Popping
      BY <1>1, <2>3 DEF Accesses, IPCInv, Roles, Updating, Popping
    <3> QED BY <2>3, <3>1 DEF Holds
  <2>4. CASE v = DllMsg
    <3>1. pc[v] \in Updating
      BY <1>1, <2>4, WhoIsWho DEF Accesses, Out, In, OutHalf, InHalf
    <3>2. manual[v]
      BY <2>4, <3>1 DEF IPCInv, Listed, LockedPush
    <3> QED BY <2>4, <3>2 DEF Holds
  <2> QED BY <2>1, <2>2, <2>3, <2>4, WhoIsWho DEF Programs
<1>2. owner = t /\ owner = u
  BY <1>1 DEF IPCInv, LockBalanced
<1> QED BY <1>2

\* While nobody has hooked anything, a push of an answer and a pop by the loader exclude
\* each other, though commands are pushed without m_Mutex all the time.
THEOREM AnswersExclude == IPCSpec => []AnswersSynchronized
BY IPCInvAlways, AnswersExclusive, PTL
(***************************************************************************)
(* The types of the programs' variables.                                   *)
(***************************************************************************)
LEMMA ProgramTypeInit == IPCInit => ProgramTypeOK
<1> SUFFICES ASSUME IPCInit PROVE ProgramTypeOK
  OBVIOUS
<1>1. PICK s \in Sessions : s \in Seq({ListSubs, HookAt, HookMultiple})
  BY ProgramAssumption
<1>2. IsPrefix(sent, s)
  BY <1>1, EmptySeq DEF IPCInit, IsPrefix
<1> QED BY <1>1, <1>2, ProgramAssumption DEF IPCInit, ProgramTypeOK

LEMMA ProgramTypeStep == ProgramTypeOK /\ [IPCNext]_ipcVars => ProgramTypeOK'
<1> SUFFICES ASSUME ProgramTypeOK, [IPCNext]_ipcVars PROVE ProgramTypeOK'
  OBVIOUS
<1> USE DEF ProgramTypeOK, Moves
<1>1. CASE UNCHANGED program
  BY <1>1 DEF program
<1>2. ASSUME NEW t \in Threads, NEW body \in {"drain", "serve"}, MsgStep(t, body)
      PROVE  ProgramTypeOK'
  <2>1. CASE CarryOn(t) \/ AwaitMessage(t)
    BY <1>1, <2>1 DEF CarryOn, AwaitMessage
  <2>2. CASE ResetEvent(t) \/ CallBack(t, body)
    BY <1>2, <2>2 DEF ResetEvent, CallBack
  <2> QED BY <1>2, <2>1, <2>2 DEF MsgStep
<1>3. CASE MainStep \/ Inject \/ KillTarget
  <2>1. "Server" \in Sides
    BY DEF Sides
  <2> QED BY <1>1, <1>3, <2>1 DEF MainStep, CarryOn, Greet, LoaderSetCallback, Inject, KillTarget
<1>4. CASE SendCommand
  BY <1>4 DEF SendCommand
<1>5. CASE PrintNext \/ Printed \/ PopCommand
  BY <1>1, <1>5 DEF PrintNext, Printed, PopCommand
<1>6. CASE InitStep
  BY <1>6 DEF InitStep, Construct, DllSetCallback, Sides
<1>7. CASE Dispatch
  BY <1>7 DEF Dispatch, Task
<1>8. CASE LockBatch \/ SendLine
  <2>1. MaxSubs \in Nat
    BY ProgramAssumption
  <2>2. CASE LockBatch
    BY <2>2 DEF LockBatch
  <2>3. CASE SendLine
    BY <2>1, <2>3 DEF SendLine
  <2> QED BY <1>8, <2>2, <2>3
<1>9. CASE SendSummary \/ UnlockBatch \/ AnswerHook
  BY <1>9 DEF SendSummary, UnlockBatch, AnswerHook
<1> QED
  <2> HIDE DEF ProgramTypeOK
  <2> QED BY <1>1, <1>2, <1>3, <1>4, <1>5, <1>6, <1>7, <1>8, <1>9, WhoIsWho
       DEF IPCNext, UserStep, PrintStep, ServeStep, ipcVars, Programs

\* Every thread of the two programs is at a place of its own code, no batch has more lines
\* to send than the scan found, and what has been sent is what some user types.
THEOREM ProgramTypes == IPCSpec => []ProgramTypeOK
BY ProgramTypeInit, ProgramTypeStep, PTL DEF IPCSpec, IPCSafety
(***************************************************************************)
(* What the loader prints.                                                 *)
(***************************************************************************)
Answers == "ClientToServer"

LEMMA WhereAnswersGo ==
  /\ Answers \in Halves
  /\ \A t \in {LoaderMain, LoaderMsg} : Out(t) # Answers /\ In(t) = Answers
  /\ InHalf("Client") # Answers
BY WhoIsWho DEF Answers, Halves, Out, In, OutHalf, InHalf

\* The loader's callback is null until it is set: m_ReceivedCallback of a global object.
LEMMA ServerCallbackStep ==
  ASSUME ProgramTypeOK, callback["Server"] # "wild", [IPCNext]_ipcVars
  PROVE  callback'["Server"] # "wild"
<1> USE DEF ProgramTypeOK, Sides
<1>1. CASE UNCHANGED callback
  BY <1>1
<1>2. ASSUME NEW t, NEW body, MsgStep(t, body) PROVE UNCHANGED callback
  BY <1>2 DEF MsgStep, CarryOn, AwaitMessage, ResetEvent, CallBack, program
<1>3. CASE LoaderSetCallback \/ DllSetCallback \/ Construct
  BY <1>3 DEF LoaderSetCallback, DllSetCallback, Construct
<1>4. CASE CarryOn(LoaderMain) \/ Greet \/ UserStep \/ PrintNext \/ Printed
  <2>1. UNCHANGED callback
    BY <1>4 DEF CarryOn, Greet, UserStep, SendCommand, Inject, KillTarget, PrintNext,
                Printed, program
  <2> QED BY <1>1, <2>1
<1>5. CASE PopCommand \/ Dispatch \/ LockBatch \/ SendLine \/ SendSummary \/ UnlockBatch
             \/ AnswerHook
  <2>1. UNCHANGED callback
    BY <1>5 DEF PopCommand, Dispatch, LockBatch, SendLine, SendSummary, UnlockBatch,
                AnswerHook, program
  <2> QED BY <1>1, <2>1
<1> QED
  <2> HIDE DEF ProgramTypeOK
  <2> QED BY <1>1, <1>2, <1>3, <1>4, <1>5
          DEF IPCNext, MainStep, InitStep, PrintStep, ServeStep, ipcVars, program

\* Until the user has typed HookAt, every step leaves the half of the answers sound.
LEMMA AnswersStep ==
  ASSUME control[DllMsg] # "hook", callback["Server"] # "wild", [IPCNext]_ipcVars
  PROVE  [HalfStep(Answers, Replies)]_vars
<1> USE WhoIsWho, WhereAnswersGo DEF Programs
<1>1. CASE UNCHANGED vars
  BY <1>1
<1>2. ASSUME NEW t \in Threads, Continue(t) PROVE HalfStep(Answers, Replies)
  BY <1>2 DEF HalfStep
<1>3. ASSUME NEW m, NEW b, PushCall(LoaderMain, m, b) PROVE HalfStep(Answers, Replies)
  BY <1>3 DEF HalfStep
<1>4. ASSUME Dies("Client"), UNCHANGED <<header, mem, signal, result, stack>>
      PROVE  HalfStep(Answers, Replies)
  BY <1>4 DEF HalfStep, header, Sides
<1>5. ASSUME NEW t \in {LoaderMsg, DllMsg}, NEW body, MsgStep(t, body)
      PROVE  [HalfStep(Answers, Replies)]_vars
  <2>1. CASE CarryOn(t)
    BY <2>1, <1>2 DEF CarryOn
  <2>2. CASE AwaitMessage(t)
    BY <2>2 DEF AwaitMessage, HalfStep
  <2>3. CASE ResetEvent(t)
    BY <2>3, <1>2 DEF ResetEvent, Continue
  <2>4. CASE CallBack(t, body)
    BY <2>4, <1>1, <1>4 DEF CallBack
  <2> QED BY <1>5, <2>1, <2>2, <2>3, <2>4 DEF MsgStep
<1>6. CASE MainStep
  BY <1>1, <1>2, <1>3, <1>6 DEF MainStep, CarryOn, Greet, LoaderSetCallback
<1>7. CASE UserStep
  BY <1>1, <1>3, <1>4, <1>7 DEF UserStep, SendCommand, Inject, KillTarget, Kill
<1>8. CASE PrintStep
  <2>1. CASE PrintNext
    BY <2>1 DEF PrintNext, HalfStep
  <2>2. CASE Printed
    BY <2>2, <1>2 DEF Printed, Continue
  <2> QED BY <1>8, <2>1, <2>2, <1>5 DEF PrintStep
<1>9. CASE InitStep
  BY <1>1, <1>9 DEF InitStep, Construct, DllSetCallback
<1>10. CASE ServeStep
  <2>1. CASE PopCommand
    BY <2>1 DEF PopCommand, HalfStep
  <2>2. CASE Dispatch
    BY <2>2, <1>2 DEF Dispatch, Continue
  <2>3. CASE LockBatch \/ UnlockBatch
    BY <2>3 DEF LockBatch, UnlockBatch, HalfStep
  <2>4. CASE SendLine \/ SendSummary
    BY <2>4 DEF SendLine, SendSummary, Replies, HalfStep
  <2>5. ~AnswerHook
    BY DEF AnswerHook, Moves
  <2> QED BY <1>10, <2>1, <2>2, <2>3, <2>4, <2>5, <1>5 DEF ServeStep
<1> QED BY <1>1, <1>6, <1>7, <1>8, <1>9, <1>10 DEF IPCNext, ipcVars

RepliesInv ==
  /\ IPCInv /\ ProgramTypeOK /\ callback["Server"] # "wild"
  /\ OnlyListed => Sound(Answers, Replies)

LEMMA RepliesInit == IPCInit => RepliesInv
<1> SUFFICES ASSUME IPCInit PROVE RepliesInv
  OBVIOUS
<1>1. Init /\ callback["Server"] # "wild"
  BY DEF IPCInit, Sides
<1>2. Sound(Answers, Replies)
  BY <1>1, SoundInit, WhereAnswersGo
<1> QED BY <1>1, <1>2, IPCInitially, ProgramTypeInit DEF RepliesInv

LEMMA RepliesStep == RepliesInv /\ [IPCNext]_ipcVars => RepliesInv'
<1> SUFFICES ASSUME RepliesInv, [IPCNext]_ipcVars PROVE RepliesInv'
  OBVIOUS
<1>1. IPCInv' /\ ProgramTypeOK' /\ callback'["Server"] # "wild"
  BY IPCInvStep, ProgramTypeStep, ServerCallbackStep DEF RepliesInv
<1>2. ASSUME OnlyListed' PROVE Sound(Answers, Replies)'
  <2>1. OnlyListed
    <3>1. Commands \subseteq Messages
      BY WhatIsSent DEF Commands
    <3> QED BY <1>2, <3>1, SentMoves, SentStep DEF RepliesInv, IPCInv, OnlyListed
  <2>2. Sound(Answers, Replies) /\ control[DllMsg] # "hook"
    BY <2>1 DEF RepliesInv, IPCInv, Listed
  <2>3. [HalfStep(Answers, Replies)]_vars
    BY <2>2, AnswersStep DEF RepliesInv
  <2>4. Replies \subseteq Messages /\ TypeOK /\ LockBalanced
    BY WhatIsSent DEF Replies, RepliesInv, IPCInv
  <2> QED BY <2>2, <2>3, <2>4, SoundStep, WhereAnswersGo
<1> QED BY <1>1, <1>2 DEF RepliesInv

\* While nobody has hooked anything, the loader prints answers and nothing else, and does
\* not die of them, though its own commands are pushed without m_Mutex and the target may
\* be killed in the middle of an answer.
THEOREM RepliesOnly == IPCSpec => []OnlyReplies
<1>1. RepliesInv => OnlyReplies
  <2> SUFFICES ASSUME RepliesInv, OnlyListed
               PROVE  /\ pc[LoaderMsg] # "dead"
                      /\ result[LoaderMsg].op = "pop" => result[LoaderMsg].msg \in Replies
    BY DEF OnlyReplies
  <2>1. LoaderMsg \in Threads /\ In(LoaderMsg) = Answers
    BY WhoIsWho, WhereAnswersGo DEF Programs
  <2>2. SoundPop(LoaderMsg, Replies)
    BY <2>1 DEF RepliesInv, Sound, SoundThread
  <2> QED BY <2>2 DEF SoundPop
<1> QED BY <1>1, RepliesInit, RepliesStep, PTL DEF IPCSpec, IPCSafety
============================================================================
