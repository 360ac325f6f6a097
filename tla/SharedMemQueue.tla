--------------------------- MODULE SharedMemQueue ---------------------------
(***************************************************************************)
(* The shared-memory queue of Common/IPC/SharedMemQueue.h, step by step,   *)
(* as used by the threads of a server process and of a client process that *)
(* has opened the server's mapping.                                        *)
(*                                                                         *)
(* A step is one access to shared memory: the read-modify-writes           *)
(*     m_OffsetToEndOfLastMessage += ...     m_MessageCount++              *)
(* are a load and a store each, so that an operation that does not hold    *)
(* m_Mutex interleaves with the others as it does on the processor.        *)
(*                                                                         *)
(* PushMessage(Msg, ManualLocking) with ManualLocking = false declares its *)
(* lock_guard as the whole body of an "if": the guard is destroyed at the  *)
(* end of that statement, and the rest of the push runs without the mutex. *)
(***************************************************************************)
EXTENDS QueueLayout, Sequences

CONSTANTS
  Threads,     \* the threads that use the queue
  Side,        \* Side[t]: the process of thread t
  Pushers,     \* the threads that call PushMessage
  Poppers,     \* the threads that call PopMessage
  PushModes,   \* the values of ManualLocking the pushers pass
  Mortal,      \* the processes that may be killed and started again
  DWordRange,  \* 2^32 in the code: DWORD arithmetic is modulo DWordRange
  Nobody,      \* owner of a free mutex
  Garbage      \* what PopMessage returns when it reads no frame

ASSUME QueueAssumption ==
  /\ Side \in [Threads -> Sides]
  /\ Pushers \subseteq Threads
  /\ Poppers \subseteq Threads
  /\ PushModes \subseteq BOOLEAN /\ Mortal \subseteq Sides
  /\ DWordRange \in Nat /\ HalfSize < DWordRange
  /\ Nobody \notin Threads
  /\ Messages # {} /\ Garbage \notin Messages

VARIABLES
  count,    \* count[h]: m_MessageCount of half h
  end,      \* end[h]: m_OffsetToEndOfLastMessage of half h
  mem,      \* mem[h]: the data area of half h
  owner,    \* m_Mutex: the thread that owns it, or Nobody
  depth,    \*          how often its owner has acquired it
  signal,   \* signal[h]: the event set by a push on half h
  pc,       \* pc[t]: where thread t is inside an operation
  manual,   \* manual[t]: thread t is between ManualLock and ManualUnlock
  msg,      \* msg[t]: the message t is pushing or popping
  at,       \* at[t]: the offset behind t's WriteLocation or ReadLocation
  size,     \* size[t]: the MsgSize t has read
  reg,      \* reg[t]: the header word t has loaded and not yet stored
  result,   \* result[t]: what the last operation of t returned
  stack     \* history: the messages whose push is done and whose pop is not

header == <<count, end>>
mutex  == <<owner, depth>>
local  == <<manual, msg, at, size, reg>>
vars   == <<count, end, mem, owner, depth, signal, pc, manual, msg, at, size,
            reg, result, stack>>

Promise == INSTANCE MessageStack WITH stack <- stack, result <- result

Out(t) == OutHalf(Side[t])
In(t)  == InHalf(Side[t])

\* A DWORD of the data area: part of a message, a length word, or still zero.
DataOf(m)   == [data |-> m]
LengthOf(m) == [length |-> Size[m]]
Zero        == [length |-> 0]
Cells       == [data : Messages] \cup [length : Nat]

Updating == {"pushWrite", "pushEndLoad", "pushEndStore", "pushCountLoad",
             "pushCountStore"}
Popping  == {"popRead", "popEndLoad", "popEndStore", "popCountLoad",
             "popCountStore"}
PcLabels == Updating \cup Popping
              \cup {"idle", "push", "pushSignal", "unlock", "waited", "dead"}

Goto(t, from, to) ==
  /\ pc[t] = from
  /\ pc' = [pc EXCEPT ![t] = to]

\* The value an operation returns to its caller; its locals are gone.
Returns(t, r) ==
  /\ result' = [result EXCEPT ![t] = r]
  /\ msg'  = [msg EXCEPT ![t] = Garbage]
  /\ at'   = [at EXCEPT ![t] = 0]
  /\ size' = [size EXCEPT ![t] = 0]
  /\ reg'  = [reg EXCEPT ![t] = 0]
-----------------------------------------------------------------------------
(***************************************************************************)
(* SharedMemMutex: a Windows mutex, recursive for the thread that owns it. *)
(***************************************************************************)
MutexFree(t) == owner \in {Nobody, t}

Acquire(t) ==
  /\ MutexFree(t)
  /\ owner' = t
  /\ depth' = depth + 1

Release(t) ==
  /\ owner = t
  /\ depth' = depth - 1
  /\ owner' = IF depth = 1 THEN Nobody ELSE t

\* Faulty variant: a mutex whose owner has died stays owned.
DiesOwning(side) ==
  /\ pc'     = [t \in Threads |-> IF Side[t] = side THEN "dead" ELSE pc[t]]
  /\ manual' = [t \in Threads |-> Side[t] # side /\ manual[t]]
  /\ msg'    = [t \in Threads |-> IF Side[t] = side THEN Garbage ELSE msg[t]]
  /\ at'     = [t \in Threads |-> IF Side[t] = side THEN 0 ELSE at[t]]
  /\ size'   = [t \in Threads |-> IF Side[t] = side THEN 0 ELSE size[t]]
  /\ reg'    = [t \in Threads |-> IF Side[t] = side THEN 0 ELSE reg[t]]
  /\ UNCHANGED mutex

\* The threads of a process stop wherever they are.  A mutex one of them owned
\* is abandoned: the next wait for it succeeds with WAIT_ABANDONED, and nobody
\* looks at the result of lock().
Dies(side) ==
  /\ pc'     = [t \in Threads |-> IF Side[t] = side THEN "dead" ELSE pc[t]]
  /\ manual' = [t \in Threads |-> Side[t] # side /\ manual[t]]
  /\ msg'    = [t \in Threads |-> IF Side[t] = side THEN Garbage ELSE msg[t]]
  /\ at'     = [t \in Threads |-> IF Side[t] = side THEN 0 ELSE at[t]]
  /\ size'   = [t \in Threads |-> IF Side[t] = side THEN 0 ELSE size[t]]
  /\ reg'    = [t \in Threads |-> IF Side[t] = side THEN 0 ELSE reg[t]]
  /\ IF owner # Nobody /\ Side[owner] = side
     THEN owner' = Nobody /\ depth' = 0
     ELSE UNCHANGED mutex

\* Faulty variant: ManualLock does not wait for the mutex.
ManualLockBarging(t) ==
  /\ pc[t] = "idle" /\ ~manual[t]
  /\ manual' = [manual EXCEPT ![t] = TRUE]
  /\ UNCHANGED <<header, mem, mutex, signal, pc, msg, at, size, reg, result,
                 stack>>

ManualLock(t) ==
  /\ pc[t] = "idle" /\ ~manual[t]
  /\ Acquire(t)
  /\ manual' = [manual EXCEPT ![t] = TRUE]
  /\ UNCHANGED <<header, mem, signal, pc, msg, at, size, reg, result, stack>>

ManualUnlock(t) ==
  /\ pc[t] = "idle" /\ manual[t]
  /\ Release(t)
  /\ manual' = [manual EXCEPT ![t] = FALSE]
  /\ UNCHANGED <<header, mem, signal, pc, msg, at, size, reg, result, stack>>

\* Faulty variant: the guard does not release the mutex.
UnlockForgotten(t) ==
  /\ Goto(t, "unlock", "idle")
  /\ UNCHANGED <<header, mem, mutex, signal, local, result, stack>>

\* The destructor of the lock_guard of PopMessage and of the queries.
Unlock(t) ==
  /\ Goto(t, "unlock", "idle")
  /\ Release(t)
  /\ UNCHANGED <<header, mem, signal, local, result, stack>>
-----------------------------------------------------------------------------
(***************************************************************************)
(* PushMessage.                                                            *)
(***************************************************************************)
\* The call, up to the end of the "if": a caller that has locked manually
\* goes on; any other waits for the mutex and has released it again.
PushCall(t, m, ManualLocking) ==
  /\ Goto(t, "idle", "push")
  /\ IF ManualLocking THEN manual[t] ELSE MutexFree(t)
  /\ msg' = [msg EXCEPT ![t] = m]
  /\ UNCHANGED <<header, mem, mutex, signal, manual, at, size, reg, result,
                 stack>>

\* The frame would overrun the half.
PushRefuse(t) ==
  /\ Goto(t, "push", "idle")
  /\ ~Fits(end[Out(t)], msg[t])
  /\ Returns(t, [op |-> "push", ok |-> FALSE])
  /\ UNCHANGED <<header, mem, mutex, signal, manual, stack>>

\* WriteLocation is taken from the header, and the frame is written there.
\* The area once m and its length word are written at offset o.
WriteFrame(area, o, m) ==
  [i \in Offsets |-> IF i \in o .. o + Size[m] - 1 THEN DataOf(m)
                     ELSE IF i = o + Size[m] THEN LengthOf(m)
                     ELSE area[i]]

PushLocate(t) ==
  /\ Goto(t, "push", "pushWrite")
  /\ Fits(end[Out(t)], msg[t])
  /\ at' = [at EXCEPT ![t] = end[Out(t)]]
  /\ UNCHANGED <<header, mem, mutex, signal, manual, msg, size, reg, result,
                 stack>>

PushWrite(t) ==
  /\ Goto(t, "pushWrite", "pushEndLoad")
  /\ mem' = [mem EXCEPT ![Out(t)] = WriteFrame(@, at[t], msg[t])]
  /\ UNCHANGED <<header, mutex, signal, local, result, stack>>

PushEndLoad(t) ==
  /\ Goto(t, "pushEndLoad", "pushEndStore")
  /\ reg' = [reg EXCEPT ![t] = end[Out(t)]]
  /\ UNCHANGED <<header, mem, mutex, signal, manual, msg, at, size, result,
                 stack>>

PushEndStore(t) ==
  /\ Goto(t, "pushEndStore", "pushCountLoad")
  /\ end' = [end EXCEPT ![Out(t)] = (reg[t] + Frame(msg[t])) % DWordRange]
  /\ UNCHANGED <<count, mem, mutex, signal, local, result, stack>>

PushCountLoad(t) ==
  /\ Goto(t, "pushCountLoad", "pushCountStore")
  /\ reg' = [reg EXCEPT ![t] = count[Out(t)]]
  /\ UNCHANGED <<header, mem, mutex, signal, manual, msg, at, size, result,
                 stack>>

PushCountStore(t) ==
  /\ Goto(t, "pushCountStore", "pushSignal")
  /\ count' = [count EXCEPT ![Out(t)] = (reg[t] + 1) % DWordRange]
  /\ stack' = [stack EXCEPT ![Out(t)] = Promise!Pushed(@, msg[t])]
  /\ Returns(t, [op |-> "push", ok |-> TRUE])
  /\ UNCHANGED <<end, mem, mutex, signal, manual>>

\* SharedSignal::Signal on the event of this direction.
PushSignal(t) ==
  /\ Goto(t, "pushSignal", "idle")
  /\ signal' = [signal EXCEPT ![Out(t)] = TRUE]
  /\ UNCHANGED <<header, mem, mutex, local, result, stack>>
-----------------------------------------------------------------------------
(***************************************************************************)
(* PopMessage, under a lock_guard from its first access to its last.       *)
(***************************************************************************)
\* Faulty variant: the last message is taken for none.
PopEmptyEarly(t) ==
  /\ Goto(t, "idle", "unlock")
  /\ Acquire(t)
  /\ count[In(t)] <= 1
  /\ Returns(t, [op |-> "empty"])
  /\ UNCHANGED <<header, mem, signal, manual, stack>>

PopEmpty(t) ==
  /\ Goto(t, "idle", "unlock")
  /\ Acquire(t)
  /\ count[In(t)] < 1
  /\ Returns(t, [op |-> "empty"])
  /\ UNCHANGED <<header, mem, signal, manual, stack>>

\* The words below offset e of an area are the frame of m.
HoldsFrame(area, e, m) ==
  /\ e - 1 \in Offsets /\ Frame(m) <= e
  /\ area[e - 1] = LengthOf(m)
  /\ \A i \in e - Frame(m) .. e - 2 : area[i] = DataOf(m)

PopLocate(t) ==
  /\ Goto(t, "idle", "popRead")
  /\ Acquire(t)
  /\ count[In(t)] >= 1
  /\ at' = [at EXCEPT ![t] = end[In(t)]]
  /\ UNCHANGED <<header, mem, signal, manual, msg, size, reg, result, stack>>

\* MsgSize, the DWORD below offset o of half h: below offset 0 lies the message
\* count of the header.  A word of text is no size.
SizesAt(h, o) ==
  IF o = 0 THEN {count[h]}
  ELSE IF o - 1 \in Offsets /\ "length" \in DOMAIN mem[h][o - 1]
       THEN {mem[h][o - 1].length} ELSE {}

\* What is read below offset o: the one message whose frame ends there.
MessageAt(h, o) ==
  IF \E m \in Messages : HoldsFrame(mem[h], o, m)
  THEN CHOOSE m \in Messages : HoldsFrame(mem[h], o, m)
  ELSE Garbage

PopRead(t) ==
  /\ Goto(t, "popRead", "popEndLoad")
  /\ \E n \in SizesAt(In(t), at[t]) : size' = [size EXCEPT ![t] = n]
  /\ msg' = [msg EXCEPT ![t] = MessageAt(In(t), at[t])]
  /\ UNCHANGED <<header, mem, mutex, signal, manual, at, reg, result, stack>>

\* A read outside the view, or of a size made of text: the access violation or
\* the bad_alloc ends the process.
PopFault(t) ==
  /\ pc[t] = "popRead"
  /\ \A n \in SizesAt(In(t), at[t]) : n > at[t]
  /\ Dies(Side[t])
  /\ UNCHANGED <<header, mem, signal, result, stack>>

PopEndLoad(t) ==
  /\ Goto(t, "popEndLoad", "popEndStore")
  /\ reg' = [reg EXCEPT ![t] = end[In(t)]]
  /\ UNCHANGED <<header, mem, mutex, signal, manual, msg, at, size, result,
                 stack>>

\* Faulty variants: the length word stays; the arithmetic is not modulo 2^32.
PopEndStoreTextOnly(t) ==
  /\ Goto(t, "popEndStore", "popCountLoad")
  /\ end' = [end EXCEPT ![In(t)] = (reg[t] - size[t]) % DWordRange]
  /\ UNCHANGED <<count, mem, mutex, signal, local, result, stack>>

PopEndStoreSigned(t) ==
  /\ Goto(t, "popEndStore", "popCountLoad")
  /\ end' = [end EXCEPT ![In(t)] = reg[t] - (size[t] + LengthSize)]
  /\ UNCHANGED <<count, mem, mutex, signal, local, result, stack>>

PopEndStore(t) ==
  /\ Goto(t, "popEndStore", "popCountLoad")
  /\ end' = [end EXCEPT ![In(t)] = (reg[t] - (size[t] + LengthSize)) % DWordRange]
  /\ UNCHANGED <<count, mem, mutex, signal, local, result, stack>>

PopCountLoad(t) ==
  /\ Goto(t, "popCountLoad", "popCountStore")
  /\ reg' = [reg EXCEPT ![t] = count[In(t)]]
  /\ UNCHANGED <<header, mem, mutex, signal, manual, msg, at, size, result,
                 stack>>

\* Faulty variant: the message is not counted out.
PopCountKept(t) ==
  /\ Goto(t, "popCountStore", "unlock")
  /\ stack' = [stack EXCEPT ![In(t)] = Promise!Popped(@)]
  /\ Returns(t, [op |-> "pop", msg |-> msg[t]])
  /\ UNCHANGED <<header, mem, mutex, signal, manual>>

PopCountStore(t) ==
  /\ Goto(t, "popCountStore", "unlock")
  /\ count' = [count EXCEPT ![In(t)] = (reg[t] - 1) % DWordRange]
  /\ stack' = [stack EXCEPT ![In(t)] = Promise!Popped(@)]
  /\ Returns(t, [op |-> "pop", msg |-> msg[t]])
  /\ UNCHANGED <<end, mem, mutex, signal, manual>>
-----------------------------------------------------------------------------
(***************************************************************************)
(* GetInMessageCount, GetOutMessageCount; IsMessageAvailable compares the  *)
(* former with zero.                                                       *)
(***************************************************************************)
Query(t, h) ==
  /\ Goto(t, "idle", "unlock")
  /\ Acquire(t)
  /\ Returns(t, [op |-> "count", n |-> count[h]])
  /\ UNCHANGED <<header, mem, signal, manual, stack>>

(***************************************************************************)
(* WaitForMessage up to the callback: the thread is let through by the     *)
(* event of its incoming half and resets it in a step of its own.          *)
(***************************************************************************)
Wait(t) ==
  /\ Goto(t, "idle", "waited")
  /\ signal[In(t)]
  /\ UNCHANGED <<header, mem, mutex, signal, local, result, stack>>

Reset(t) ==
  /\ Goto(t, "waited", "idle")
  /\ signal' = [signal EXCEPT ![In(t)] = FALSE]
  /\ UNCHANGED <<header, mem, mutex, local, result, stack>>
-----------------------------------------------------------------------------
(***************************************************************************)
(* The life of a process: it is killed (Injector::KillTarget ends the      *)
(* target with its DLL, a user ends the loader), and started again.        *)
(***************************************************************************)
Alive(side) == \E t \in Threads : Side[t] = side /\ pc[t] # "dead"

Kill(side) ==
  /\ Alive(side)
  /\ Dies(side)
  /\ UNCHANGED <<header, mem, signal, result, stack>>

\* The data areas of a new mapping, and new events.
NewMem   == [h \in Halves |-> [i \in Offsets |-> Zero]]
NoSignal == [h \in Halves |-> FALSE]

\* Faulty variant: a client empties the halves as well.
StartEmptying(side) ==
  /\ ~Alive(side)
  /\ side = "Client" => Alive("Server")
  /\ pc' = [t \in Threads |-> IF Side[t] = side THEN "idle" ELSE pc[t]]
  /\ count' = [h \in Halves |-> 0] /\ end' = [h \in Halves |-> 0]
  /\ stack' = [h \in Halves |-> <<>>]
  /\ UNCHANGED <<mem, mutex, signal, local, result>>

\* The constructor.  A client opens the mapping of a server and finds the halves
\* as they are; a server empties both headers, whoever is using them, and
\* without m_Mutex.  The mapping and the events are new when nobody had them open.
Start(side) ==
  /\ ~Alive(side)
  /\ side = "Client" => Alive("Server")
  /\ pc' = [t \in Threads |-> IF Side[t] = side THEN "idle" ELSE pc[t]]
  /\ IF side = "Server"
     THEN /\ count' = [h \in Halves |-> 0] /\ end' = [h \in Halves |-> 0]
          /\ stack' = [h \in Halves |-> <<>>]
          /\ IF Alive("Client") THEN UNCHANGED <<mem, signal>>
             ELSE mem' = NewMem /\ signal' = NoSignal
     ELSE UNCHANGED <<header, mem, signal, stack>>
  /\ UNCHANGED <<mutex, local, result>>
-----------------------------------------------------------------------------
\* The server has created the mapping and emptied both halves, and the client
\* has opened it.
Init ==
  /\ count  = [h \in Halves |-> 0]
  /\ end    = [h \in Halves |-> 0]
  /\ mem    = NewMem
  /\ signal = NoSignal
  /\ owner  = Nobody
  /\ depth  = 0
  /\ pc     = [t \in Threads |-> "idle"]
  /\ manual = [t \in Threads |-> FALSE]
  /\ msg    = [t \in Threads |-> Garbage]
  /\ at     = [t \in Threads |-> 0]
  /\ size   = [t \in Threads |-> 0]
  /\ reg    = [t \in Threads |-> 0]
  /\ result = [t \in Threads |-> [op |-> "none"]]
  /\ stack  = [h \in Halves |-> <<>>]

\* The steps that carry on an operation already called.
Continue(t) ==
  \/ PushRefuse(t) \/ PushLocate(t) \/ PushWrite(t)
  \/ PushEndLoad(t) \/ PushEndStore(t)
  \/ PushCountLoad(t) \/ PushCountStore(t) \/ PushSignal(t)
  \/ PopRead(t) \/ PopFault(t)
  \/ PopEndLoad(t) \/ PopEndStore(t) \/ PopCountLoad(t) \/ PopCountStore(t)
  \/ Unlock(t) \/ Reset(t)

PopCall(t) == PopEmpty(t) \/ PopLocate(t)

Call(t) ==
  \/ ManualLock(t) \/ ManualUnlock(t)
  \/ t \in Pushers /\ \E m \in Messages, b \in PushModes : PushCall(t, m, b)
  \/ t \in Poppers /\ PopCall(t)
  \/ \E h \in Halves : Query(t, h)
  \/ Wait(t)

Next ==
  \/ \E t \in Threads : Continue(t) \/ Call(t)
  \/ \E side \in Mortal : Kill(side) \/ Start(side)

Spec == Init /\ [][Next]_vars
-----------------------------------------------------------------------------
(***************************************************************************)
(* Properties.                                                             *)
(***************************************************************************)
DWords == 0 .. DWordRange - 1

\* The type of every variable.
DataOK ==
  /\ count \in [Halves -> DWords] /\ end \in [Halves -> DWords]
  /\ mem \in [Halves -> [Offsets -> Cells]]
  /\ signal \in [Halves -> BOOLEAN]
  /\ pc \in [Threads -> PcLabels] /\ manual \in [Threads -> BOOLEAN]
  /\ msg \in [Threads -> Messages \cup {Garbage}]
  /\ at \in [Threads -> DWords] /\ size \in [Threads -> Nat]
  /\ reg \in [Threads -> DWords]
  /\ result \in [Threads -> Promise!Results
                             \cup [op : {"pop"}, msg : {Garbage}]]
  /\ stack \in [Halves -> Seq(Promise!Entries)]
TypeOK == DataOK /\ owner \in Threads \cup {Nobody} /\ depth \in Nat

\* How often thread t has acquired m_Mutex and not released it.
Holds(t) == (IF manual[t] THEN 1 ELSE 0)
            + (IF pc[t] \in Popping \cup {"unlock"} THEN 1 ELSE 0)

\* m_Mutex is owned by one thread at most, exactly as often as that thread has
\* locked it: no operation forgets to release it, releases it twice, or
\* releases it under a caller that has locked manually (the recursion of the
\* PopMessage of ListSubs' thread, lines 150-158 and 198).
LockBalanced ==
  /\ depth = (IF owner = Nobody THEN 0 ELSE Holds(owner))
  /\ \A t \in Threads : owner # t => Holds(t) = 0
  /\ owner # Nobody => depth > 0

\* "Shared memory synchronization is done through the Shared Memory Mutex
\* object": while a thread is inside the accesses of PushMessage or PopMessage
\* to the header and the frames of a half, no other thread is inside accesses to
\* the same half.
Accesses(t, h) == \/ pc[t] \in Updating /\ Out(t) = h
                  \/ pc[t] \in Popping /\ In(t) = h
Synchronized ==
  \A h \in Halves, t, u \in Threads :
    Accesses(t, h) /\ Accesses(u, h) => t = u

\* Between operations the header of each half describes the messages whose
\* push has returned TRUE and that no pop has returned: no update of the count
\* or of the end offset is ever lost.
QuiescentHeader ==
  \A h \in Halves :
    (\A t \in Threads : ~Accesses(t, h)) =>
      /\ count[h] = Len(stack[h])
      /\ end[h] = Promise!Fill(stack[h])

\* Every message pushed and not yet popped is intact in memory, under the
\* message pushed after it, and all of them fit in the half, so that a push
\* never writes over one and never beyond its half (lines 168-181).
FramesIntact ==
  \A h \in Halves :
    /\ HeaderSize + Promise!Fill(stack[h]) < HalfSize
    /\ \A i \in 1 .. Len(stack[h]) :
         HoldsFrame(mem[h], stack[h][i].end, stack[h][i].msg)

\* A process that is killed anywhere in a push, even under m_Mutex, takes none
\* of its readers with it: the count may stay behind the end offset, but a pop
\* returns a message that was written completely and never faults.  This rests
\* on the order of lines 177-184: the frame, then the end offset, then the count.
SurvivorReads ==
  \A t \in Threads : Side[t] \notin Mortal =>
    /\ pc[t] # "dead"
    /\ result[t].op = "pop" => result[t].msg \in Messages

\* The queue implements the atomic stacks of MessageStack: a push takes effect
\* when it stores the count, a pop likewise, and each returns what the atomic
\* operation returns.
AbstractSpec == Promise!Spec
=============================================================================
