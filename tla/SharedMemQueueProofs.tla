------------------------ MODULE SharedMemQueueProofs ------------------------
(***************************************************************************)
(* Proofs about SharedMemQueue, for any number of threads, messages and    *)
(* any size of the mapping.                                                *)
(***************************************************************************)
EXTENDS SharedMemQueueInv, TLAPS, SequenceTheorems

(***************************************************************************)
(* Arithmetic and layout.                                                  *)
(***************************************************************************)
\* The value of DWORD arithmetic is a DWORD.
LEMMA ModRange ==
  ASSUME NEW a \in Int PROVE a % DWordRange \in DWords
BY QueueAssumption, LayoutAssumption, SMT DEF DWords, HeaderSize

\* DWORD arithmetic is exact while nothing overflows.
LEMMA ModExact ==
  ASSUME NEW a \in DWords PROVE a % DWordRange = a
BY QueueAssumption, LayoutAssumption, SMT DEF DWords, HeaderSize

\* A thread's outgoing and incoming halves are halves.
LEMMA HalvesOf ==
  ASSUME NEW t \in Threads
  PROVE  Out(t) \in Halves /\ In(t) \in Halves /\ Out(t) # In(t)
BY QueueAssumption DEF Out, In, OutHalf, InHalf, Halves, Sides

\* A frame has at least one data word and the length word.
LEMMA FrameSize ==
  ASSUME NEW m \in Messages
  PROVE  Size[m] \in Nat /\ Size[m] >= 1 /\ Frame(m) \in Nat /\ Frame(m) >= 2
BY LayoutAssumption DEF Frame, LengthSize

(***************************************************************************)
(* Types.                                                                  *)
(***************************************************************************)
\* The frame written by a push keeps the type of the area (lines 177-181).
LEMMA WriteFrameType ==
  ASSUME NEW area \in [Offsets -> Cells], NEW m \in Messages, NEW o \in Nat
  PROVE  WriteFrame(area, o, m) \in [Offsets -> Cells]
<1>1. DataOf(m) \in Cells /\ LengthOf(m) \in Cells
  BY FrameSize DEF DataOf, LengthOf, Cells
<1> QED BY <1>1 DEF WriteFrame

\* A size that PopMessage reads is a number (line 205).
LEMMA SizesAtType ==
  ASSUME TypeOK, NEW h \in Halves, NEW o, NEW n \in SizesAt(h, o)
  PROVE  n \in Nat
<1>1. CASE o = 0
  BY <1>1 DEF SizesAt, TypeOK, DataOK, DWords
<1>2. CASE o # 0
  <2>1. /\ o - 1 \in Offsets /\ "length" \in DOMAIN mem[h][o - 1]
        /\ n = mem[h][o - 1].length
    BY <1>2 DEF SizesAt
  <2>2. mem[h][o - 1] \in Cells
    BY <2>1 DEF TypeOK, DataOK
  <2>3. mem[h][o - 1] \notin [data : Messages]
    BY <2>1
  <2> QED BY <2>1, <2>2, <2>3 DEF Cells
<1> QED BY <1>1, <1>2

\* What PopMessage reads is a message or garbage (lines 209-215).
LEMMA MessageAtType ==
  ASSUME NEW h, NEW o PROVE MessageAt(h, o) \in Messages \cup {Garbage}
BY DEF MessageAt

\* MessageStack lays the halves out as the queue does.
LEMMA PromiseLayout ==
  /\ \A m : Promise!Frame(m) = Frame(m)
  /\ \A o, m : Promise!Fits(o, m) = Fits(o, m)
  /\ \A t : Promise!Out(t) = Out(t) /\ Promise!In(t) = In(t)
BY DEF Promise!Frame, Frame, Promise!LengthSize, LengthSize, Promise!Fits, Fits,
       Promise!HeaderSize, HeaderSize, Promise!Out, Out, Promise!In, In,
       Promise!OutHalf, OutHalf, Promise!InHalf, InHalf

\* The fill level, a push and a pop of a well-typed stack are well typed.
LEMMA StackTypes ==
  ASSUME NEW s \in Seq(Promise!Entries)
  PROVE  /\ Promise!Fill(s) \in Nat
         /\ Promise!Popped(s) \in Seq(Promise!Entries)
         /\ \A m \in Messages : Promise!Pushed(s, m) \in Seq(Promise!Entries)
<1>1. Promise!Fill(s) \in Nat
  <2>1. CASE s = <<>>
    BY <2>1 DEF Promise!Fill
  <2>2. CASE s # <<>>
    <3>1. Len(s) \in 1 .. Len(s)
      BY <2>2, EmptySeq
    <3>2. s[Len(s)] \in Promise!Entries
      BY <3>1, ElementOfSeq
    <3> QED BY <2>2, <3>2 DEF Promise!Fill, Promise!Entries
  <2> QED BY <2>1, <2>2
<1>2. Promise!Popped(s) \in Seq(Promise!Entries)
  <2>1. Len(s) \in Nat /\ \A i \in 1 .. Len(s) - 1 : s[i] \in Promise!Entries
    BY LenProperties, ElementOfSeq
  <2> QED BY <2>1, SubSeqProperties DEF Promise!Popped
<1>3. ASSUME NEW m \in Messages
      PROVE  Promise!Pushed(s, m) \in Seq(Promise!Entries)
  <2>1. [msg |-> m, end |-> Promise!Fill(s) + Promise!Frame(m)] \in Promise!Entries
    BY <1>1, FrameSize, PromiseLayout DEF Promise!Entries
  <2> QED BY <2>1, AppendProperties DEF Promise!Pushed
<1> QED BY <1>1, <1>2, <1>3

(***************************************************************************)
(* The mutex: its count of acquisitions.                                   *)
(***************************************************************************)
LEMMA HoldsNat ==
  ASSUME NEW t PROVE Holds(t) \in Nat
BY DEF Holds

\* The effect of an operation of thread t on what the threads hold.
OnlyMoves(t, d) ==
  /\ Holds(t)' = Holds(t) + d
  /\ \A u \in Threads : u # t => Holds(u)' = Holds(u)

LEMMA AcquireBalanced ==
  ASSUME TypeOK, LockBalanced, NEW t \in Threads, Acquire(t), OnlyMoves(t, 1)
  PROVE  LockBalanced' /\ depth' \in Nat /\ owner' \in Threads
<1>1. depth = Holds(t)
  BY HoldsNat, QueueAssumption DEF Acquire, MutexFree, LockBalanced
<1>2. \A u \in Threads : owner' # u => Holds(u)' = 0
  <2> TAKE u \in Threads
  <2> HAVE owner' # u
  <2>1. u # t /\ owner # u
    BY QueueAssumption DEF Acquire, MutexFree
  <2> QED BY <2>1 DEF LockBalanced, OnlyMoves
<1>3. depth' = Holds(t)' /\ depth' \in Nat /\ depth' > 0 /\ owner' = t
  BY <1>1, HoldsNat DEF Acquire, OnlyMoves, TypeOK, DataOK
<1> QED BY <1>2, <1>3, QueueAssumption DEF LockBalanced

LEMMA ReleaseBalanced ==
  ASSUME TypeOK, LockBalanced, NEW t \in Threads, Release(t), OnlyMoves(t, -1)
  PROVE  LockBalanced' /\ depth' \in Nat /\ owner' \in Threads \cup {Nobody}
<1>1. depth = Holds(t) /\ depth \in Nat /\ depth > 0 /\ owner = t
  BY QueueAssumption DEF Release, LockBalanced, TypeOK, DataOK
<1>2. Holds(t)' = depth - 1 /\ depth' = depth - 1 /\ depth' \in Nat
  BY <1>1 DEF Release, OnlyMoves
<1>3. \A u \in Threads : u # t => Holds(u)' = 0
  BY <1>1 DEF LockBalanced, OnlyMoves
<1>4. CASE depth = 1
  <2>1. owner' = Nobody /\ depth' = 0 /\ Holds(t)' = 0
    BY <1>2, <1>4 DEF Release
  <2> QED BY <2>1, <1>3, <1>2 DEF LockBalanced
<1>5. CASE depth # 1
  <2>1. owner' = t /\ depth' > 0
    BY <1>1, <1>2, <1>5 DEF Release
  <2> QED BY <2>1, <1>1, <1>2, <1>3, QueueAssumption DEF LockBalanced
<1> QED BY <1>4, <1>5

LEMMA NeitherBalanced ==
  ASSUME TypeOK, LockBalanced, NEW t \in Threads, UNCHANGED mutex, OnlyMoves(t, 0)
  PROVE  LockBalanced' /\ depth' \in Nat /\ owner' \in Threads \cup {Nobody}
<1>1. owner' = owner /\ depth' = depth
  BY DEF mutex
<1>2. \A u \in Threads : Holds(u)' = Holds(u)
  BY HoldsNat DEF OnlyMoves
<1> QED BY <1>1, <1>2, QueueAssumption DEF LockBalanced, TypeOK, DataOK

\* Which operations acquire, release or leave m_Mutex alone.
LEMMA HoldsMoves ==
  ASSUME TypeOK, NEW t \in Threads
  PROVE  /\ ManualLock(t) \/ PopEmpty(t) \/ PopLocate(t)
            \/ (\E h \in Halves : Query(t, h)) => Acquire(t) /\ OnlyMoves(t, 1)
         /\ ManualUnlock(t) \/ Unlock(t) => Release(t) /\ OnlyMoves(t, -1)
         /\ (\/ \E m \in Messages, b \in BOOLEAN : PushCall(t, m, b)
             \/ PushRefuse(t) \/ PushLocate(t) \/ PushWrite(t) \/ PushEndLoad(t)
             \/ PushEndStore(t) \/ PushCountLoad(t) \/ PushCountStore(t)
             \/ PushSignal(t) \/ PopRead(t) \/ PopEndLoad(t)
             \/ PopEndStore(t) \/ PopCountLoad(t) \/ PopCountStore(t)
             \/ Wait(t) \/ Reset(t)) => UNCHANGED mutex /\ OnlyMoves(t, 0)
<1> USE DEF OnlyMoves, Holds, TypeOK, DataOK, Goto, Popping
<1>1. ManualLock(t) => Acquire(t) /\ OnlyMoves(t, 1)
  BY DEF ManualLock
<1>2. PopEmpty(t) => Acquire(t) /\ OnlyMoves(t, 1)
  BY DEF PopEmpty
<1>3. PopLocate(t) => Acquire(t) /\ OnlyMoves(t, 1)
  BY DEF PopLocate
<1>4. ASSUME NEW h \in Halves PROVE Query(t, h) => Acquire(t) /\ OnlyMoves(t, 1)
  BY DEF Query
<1>5. ManualUnlock(t) => Release(t) /\ OnlyMoves(t, -1)
  BY DEF ManualUnlock
<1>6. Unlock(t) => Release(t) /\ OnlyMoves(t, -1)
  BY DEF Unlock, local
<1>7. ASSUME NEW m \in Messages, NEW b \in BOOLEAN
      PROVE  PushCall(t, m, b) => UNCHANGED mutex /\ OnlyMoves(t, 0)
  BY DEF PushCall
<1>8. PushRefuse(t) \/ PushLocate(t) \/ PushWrite(t)
        => UNCHANGED mutex /\ OnlyMoves(t, 0)
  BY DEF PushRefuse, PushLocate, PushWrite, local
<1>9. PushEndLoad(t) \/ PushEndStore(t) \/ PushCountLoad(t) \/ PushCountStore(t)
        => UNCHANGED mutex /\ OnlyMoves(t, 0)
  BY DEF PushEndLoad, PushEndStore, PushCountLoad, PushCountStore, local
<1>10. PushSignal(t) \/ PopRead(t) \/ PopEndLoad(t)
         => UNCHANGED mutex /\ OnlyMoves(t, 0)
  BY DEF PushSignal, PopRead, PopEndLoad, local
<1>11. PopEndStore(t) \/ PopCountLoad(t) \/ PopCountStore(t)
         => UNCHANGED mutex /\ OnlyMoves(t, 0)
  BY DEF PopEndStore, PopCountLoad, PopCountStore, local
<1>12. Wait(t) \/ Reset(t) => UNCHANGED mutex /\ OnlyMoves(t, 0)
  BY DEF Wait, Reset, local
<1> QED
  <2> HIDE DEF OnlyMoves
  <2> QED BY <1>1, <1>2, <1>3, <1>4, <1>5, <1>6, <1>7, <1>8, <1>9, <1>10, <1>11,
             <1>12

(***************************************************************************)
(* Type correctness, and the balance of the mutex, for every use.          *)
(***************************************************************************)
LEMMA InitTypes == Init => TypeOK /\ LockBalanced
<1> SUFFICES ASSUME Init PROVE TypeOK /\ LockBalanced
  OBVIOUS
<1>1. 0 \in DWords
  BY QueueAssumption, LayoutAssumption DEF DWords, HeaderSize
<1>2. <<>> \in Seq(Promise!Entries)
  BY EmptySeq
<1>3. Zero \in Cells
  BY DEF Zero, Cells
<1>4. [op |-> "none"] \in Promise!Results
  BY DEF Promise!Results
<1>5. TypeOK
  BY <1>1, <1>2, <1>3, <1>4 DEF Init, NewMem, NoSignal, TypeOK, DataOK, PcLabels
<1>6. LockBalanced
  BY DEF Init, LockBalanced, Holds, Popping
<1> QED BY <1>5, <1>6

LEMMA ReturnsType ==
  ASSUME TypeOK, NEW t \in Threads, NEW r, Returns(t, r),
         r \in Promise!Results \cup [op : {"pop"}, msg : {Garbage}]
  PROVE  /\ result' \in [Threads -> Promise!Results
                                     \cup [op : {"pop"}, msg : {Garbage}]]
         /\ msg' \in [Threads -> Messages \cup {Garbage}]
         /\ at' \in [Threads -> DWords] /\ size' \in [Threads -> Nat]
         /\ reg' \in [Threads -> DWords]
<1>1. 0 \in DWords
  BY QueueAssumption, LayoutAssumption DEF DWords, HeaderSize
<1> QED BY <1>1 DEF Returns, TypeOK, DataOK

\* A push is under way for a message of Messages (PushCall gives it, and
\* nothing before the return takes it away).
PushingMessage ==
  \A t \in Threads : pc[t] \in Updating \cup {"push"} => msg[t] \in Messages

LEMMA PushTypes ==
  ASSUME TypeOK, PushingMessage, NEW t \in Threads
  PROVE  /\ \A m \in Messages, b \in BOOLEAN : PushCall(t, m, b) => DataOK'
         /\ PushRefuse(t) \/ PushLocate(t) \/ PushWrite(t) => DataOK'
         /\ PushEndLoad(t) \/ PushEndStore(t) => DataOK'
         /\ PushCountLoad(t) \/ PushCountStore(t) \/ PushSignal(t) => DataOK'
<1> USE HalvesOf DEF TypeOK, DataOK, Goto, header, local
<1>1. {"push", "pushSignal", "idle"} \cup Updating \subseteq PcLabels
  BY DEF PcLabels
<1>2. ASSUME NEW m \in Messages, NEW b \in BOOLEAN, PushCall(t, m, b)
      PROVE  DataOK'
  BY <1>1, <1>2 DEF PushCall
<1>3. CASE PushRefuse(t)
  <2>1. [op |-> "push", ok |-> FALSE] \in Promise!Results
    BY DEF Promise!Results
  <2>2. Returns(t, [op |-> "push", ok |-> FALSE])
    BY <1>3 DEF PushRefuse
  <2> QED BY <1>1, <1>3, <2>1, <2>2, ReturnsType DEF PushRefuse
<1>4. CASE PushLocate(t)
  BY <1>1, <1>4 DEF PushLocate, Updating
<1>5. CASE PushWrite(t)
  <2>1. msg[t] \in Messages /\ at[t] \in Nat
    BY <1>5 DEF PushWrite, PushingMessage, Updating, DWords
  <2>2. WriteFrame(mem[Out(t)], at[t], msg[t]) \in [Offsets -> Cells]
    BY <2>1, WriteFrameType
  <2> QED BY <1>1, <1>5, <2>2 DEF PushWrite, Updating
<1>6. CASE PushEndLoad(t)
  BY <1>1, <1>6 DEF PushEndLoad, Updating
<1>7. CASE PushEndStore(t)
  <2>1. msg[t] \in Messages /\ reg[t] \in Nat
    BY <1>7 DEF PushEndStore, PushingMessage, Updating, DWords
  <2>2. (reg[t] + Frame(msg[t])) % DWordRange \in DWords
    BY <2>1, FrameSize, ModRange
  <2> QED BY <1>1, <1>7, <2>2 DEF PushEndStore, Updating
<1>8. CASE PushCountLoad(t)
  BY <1>1, <1>8 DEF PushCountLoad, Updating
<1>9. CASE PushCountStore(t)
  <2>1. msg[t] \in Messages /\ reg[t] \in Nat
    BY <1>9 DEF PushCountStore, PushingMessage, Updating, DWords
  <2>2. (reg[t] + 1) % DWordRange \in DWords
    BY <2>1, ModRange
  <2>3. Promise!Pushed(stack[Out(t)], msg[t]) \in Seq(Promise!Entries)
    BY <2>1, StackTypes
  <2>4. [op |-> "push", ok |-> TRUE] \in Promise!Results
    BY DEF Promise!Results
  <2>5. Returns(t, [op |-> "push", ok |-> TRUE])
    BY <1>9 DEF PushCountStore
  <2> QED BY <1>1, <1>9, <2>2, <2>3, <2>4, <2>5, ReturnsType DEF PushCountStore
<1>10. CASE PushSignal(t)
  BY <1>1, <1>10 DEF PushSignal
<1> QED BY <1>2, <1>3, <1>4, <1>5, <1>6, <1>7, <1>8, <1>9, <1>10

LEMMA PopTypes ==
  ASSUME TypeOK, NEW t \in Threads
  PROVE  /\ PopEmpty(t) \/ PopLocate(t) => DataOK'
         /\ PopRead(t) => DataOK'
         /\ PopEndLoad(t) \/ PopEndStore(t) => DataOK'
         /\ PopCountLoad(t) \/ PopCountStore(t) => DataOK'
<1> USE HalvesOf DEF TypeOK, DataOK, Goto, header, local
<1>1. {"unlock"} \cup Popping \subseteq PcLabels
  BY DEF PcLabels
<1>2. CASE PopEmpty(t)
  <2>1. [op |-> "empty"] \in Promise!Results
    BY DEF Promise!Results
  <2>2. Returns(t, [op |-> "empty"])
    BY <1>2 DEF PopEmpty
  <2> QED BY <1>1, <1>2, <2>1, <2>2, ReturnsType DEF PopEmpty
<1>3. CASE PopLocate(t)
  BY <1>1, <1>3 DEF PopLocate, Popping
<1>4. CASE PopRead(t)
  <2>1. PICK n \in SizesAt(In(t), at[t]) : size' = [size EXCEPT ![t] = n]
    BY <1>4 DEF PopRead
  <2>2. n \in Nat
    BY <2>1, SizesAtType
  <2>3. MessageAt(In(t), at[t]) \in Messages \cup {Garbage}
    BY MessageAtType
  <2> QED BY <1>1, <1>4, <2>1, <2>2, <2>3 DEF PopRead, Popping
<1>6. CASE PopEndLoad(t)
  BY <1>1, <1>6 DEF PopEndLoad, Popping
<1>7. CASE PopEndStore(t)
  <2>1. (reg[t] - (size[t] + LengthSize)) % DWordRange \in DWords
    <3>1. reg[t] - (size[t] + LengthSize) \in Int
      BY DEF DWords, LengthSize
    <3> QED BY <3>1, ModRange
  <2> QED BY <1>1, <1>7, <2>1 DEF PopEndStore, Popping
<1>8. CASE PopCountLoad(t)
  BY <1>1, <1>8 DEF PopCountLoad, Popping
<1>9. CASE PopCountStore(t)
  <2>1. (reg[t] - 1) % DWordRange \in DWords
    <3>1. reg[t] - 1 \in Int
      BY DEF DWords
    <3> QED BY <3>1, ModRange
  <2>2. Promise!Popped(stack[In(t)]) \in Seq(Promise!Entries)
    BY StackTypes
  <2>3. [op |-> "pop", msg |-> msg[t]] \in
          Promise!Results \cup [op : {"pop"}, msg : {Garbage}]
    BY DEF Promise!Results
  <2>4. Returns(t, [op |-> "pop", msg |-> msg[t]])
    BY <1>9 DEF PopCountStore
  <2> QED BY <1>1, <1>9, <2>1, <2>2, <2>3, <2>4, ReturnsType DEF PopCountStore
<1> QED BY <1>2, <1>3, <1>4, <1>6, <1>7, <1>8, <1>9

LEMMA OtherTypes ==
  ASSUME TypeOK, NEW t \in Threads
  PROVE  /\ ManualLock(t) \/ ManualUnlock(t) \/ Unlock(t) => DataOK'
         /\ (\E h \in Halves : Query(t, h)) => DataOK'
         /\ Wait(t) \/ Reset(t) => DataOK'
<1> USE HalvesOf DEF TypeOK, DataOK, Goto, header, local
<1>1. {"idle", "unlock", "waited"} \subseteq PcLabels
  BY DEF PcLabels
<1>2. CASE ManualLock(t) \/ ManualUnlock(t) \/ Unlock(t)
  BY <1>1, <1>2 DEF ManualLock, ManualUnlock, Unlock
<1>3. ASSUME NEW h \in Halves, Query(t, h) PROVE DataOK'
  <2>1. [op |-> "count", n |-> count[h]] \in Promise!Results
    BY DEF Promise!Results, DWords
  <2>2. Returns(t, [op |-> "count", n |-> count[h]])
    BY <1>3 DEF Query
  <2> QED BY <1>1, <1>3, <2>1, <2>2, ReturnsType DEF Query
<1>4. CASE Wait(t)
  BY <1>1, <1>4 DEF Wait
<1>5. CASE Reset(t)
  BY <1>1, <1>5 DEF Reset
<1> QED BY <1>2, <1>3, <1>4, <1>5

\* What a process that dies leaves behind, wherever its threads were.
LEMMA DiesTypes ==
  ASSUME TypeOK, LockBalanced, NEW side \in Sides, Dies(side),
         UNCHANGED <<count, end, mem, signal, result, stack>>
  PROVE  TypeOK' /\ LockBalanced'
<1>1. 0 \in DWords /\ "dead" \in PcLabels
  BY QueueAssumption, LayoutAssumption DEF DWords, HeaderSize, PcLabels
<1>2. DataOK'
  BY <1>1 DEF Dies, TypeOK, DataOK
<1>3. ASSUME NEW t \in Threads
      PROVE  Holds(t)' = (IF Side[t] = side THEN 0 ELSE Holds(t))
  <2>1. CASE Side[t] = side
    <3>1. pc'[t] = "dead" /\ ~manual'[t]
      BY <2>1 DEF Dies
    <3> QED BY <2>1, <3>1 DEF Holds, Popping
  <2>2. CASE Side[t] # side
    <3>1. pc'[t] = pc[t]
      BY <2>2 DEF Dies
    <3>2. manual'[t] = manual[t]
      BY <2>2 DEF Dies, TypeOK, DataOK
    <3> QED BY <2>2, <3>1, <3>2 DEF Holds
  <2> QED BY <2>1, <2>2
<1>4. CASE owner # Nobody /\ Side[owner] = side
  <2>1. owner' = Nobody /\ depth' = 0
    BY <1>4 DEF Dies
  <2>2. \A t \in Threads : Holds(t)' = 0
    BY <1>3, <1>4 DEF LockBalanced
  <2> QED BY <1>2, <2>1, <2>2 DEF TypeOK, LockBalanced
<1>5. CASE ~(owner # Nobody /\ Side[owner] = side)
  <2>1. owner' = owner /\ depth' = depth
    BY <1>5 DEF Dies, mutex
  <2>2. owner # Nobody => Holds(owner)' = Holds(owner)
    <3>1. CASE owner # Nobody
      <4>1. owner \in Threads /\ Side[owner] # side
        BY <3>1, <1>5 DEF TypeOK
      <4>2. PICK t \in Threads : t = owner
        BY <4>1
      <4>3. Holds(t)' = Holds(t)
        BY <4>1, <4>2, <1>3
      <4> QED BY <4>2, <4>3, <2>1
    <3> QED BY <3>1
  <2>3. \A t \in Threads : owner # t => Holds(t)' = 0
    BY <1>3 DEF LockBalanced
  <2> QED BY <1>2, <2>1, <2>2, <2>3 DEF TypeOK, LockBalanced
<1> QED BY <1>4, <1>5

\* Neither does the constructor of a process that is started again.
LEMMA StartTypes ==
  ASSUME TypeOK, LockBalanced, NEW side \in Sides, Start(side)
  PROVE  TypeOK' /\ LockBalanced'
<1>1. 0 \in DWords /\ "idle" \in PcLabels
  BY QueueAssumption, LayoutAssumption DEF DWords, HeaderSize, PcLabels
<1>2. <<>> \in Seq(Promise!Entries) /\ Zero \in Cells
  BY EmptySeq DEF Zero, Cells
<1>3. /\ count' \in [Halves -> DWords] /\ end' \in [Halves -> DWords]
      /\ stack' \in [Halves -> Seq(Promise!Entries)]
  BY <1>1, <1>2 DEF Start, header, TypeOK, DataOK
<1>4. mem' \in [Halves -> [Offsets -> Cells]] /\ signal' \in [Halves -> BOOLEAN]
  <2>1. CASE side = "Server" /\ ~Alive("Client")
    BY <2>1, <1>2 DEF Start, NewMem, NoSignal, Halves
  <2>2. CASE ~(side = "Server" /\ ~Alive("Client"))
    BY <2>2 DEF Start, TypeOK, DataOK
  <2> QED BY <2>1, <2>2
<1>5. DataOK'
  BY <1>1, <1>3, <1>4 DEF Start, local, TypeOK, DataOK
<1>6. \A t \in Threads : Holds(t)' = Holds(t)
  BY DEF Start, Alive, local, Holds, TypeOK, DataOK, Popping
<1>7. owner' = owner /\ depth' = depth
  BY DEF Start, mutex
<1> QED BY <1>5, <1>6, <1>7 DEF TypeOK, LockBalanced

\* The operations, whoever calls them to push messages of M, and the ends and
\* beginnings of processes.
OperationOf(M) ==
  \/ \E t \in Threads :
       \/ Continue(t) \/ ManualLock(t) \/ ManualUnlock(t) \/ PopCall(t) \/ Wait(t)
       \/ \E m \in M, b \in BOOLEAN : PushCall(t, m, b)
       \/ \E h \in Halves : Query(t, h)
  \/ \E side \in Sides : Dies(side) /\ UNCHANGED <<count, end, mem, signal, result, stack>>
  \/ \E side \in Sides : Start(side)

Operation == OperationOf(Messages)

LEMMA NextOperates == Next => Operation
<1>1. PushModes \subseteq BOOLEAN /\ Mortal \subseteq Sides
  BY QueueAssumption
<1>2. ASSUME NEW t \in Threads, Call(t) PROVE Operation
  BY <1>1, <1>2 DEF Call, Operation, OperationOf
<1>3. ASSUME NEW side \in Mortal, Kill(side) \/ Start(side) PROVE Operation
  BY <1>1, <1>3 DEF Kill, header, Operation, OperationOf
<1>4. ASSUME NEW t \in Threads, Continue(t) PROVE Operation
  BY <1>4 DEF Operation, OperationOf
<1> QED BY <1>2, <1>3, <1>4 DEF Next

\* A thread in the middle of a push has a message to push.
LEMMA PushingMessageOperation ==
  ASSUME TypeOK, PushingMessage, [Operation]_vars PROVE PushingMessage'
<1> USE DEF PushingMessage, TypeOK, DataOK, Goto, Updating, local
<1>1. CASE UNCHANGED vars
  BY <1>1 DEF vars
<1>2. ASSUME NEW t \in Threads, NEW m \in Messages, NEW b \in BOOLEAN,
             PushCall(t, m, b)
      PROVE  PushingMessage'
  BY <1>2 DEF PushCall
<1>3. ASSUME NEW t \in Threads,
             PushRefuse(t) \/ PushLocate(t) \/ PushWrite(t) \/ PushEndLoad(t)
      PROVE  PushingMessage'
  BY <1>3 DEF PushRefuse, PushLocate, PushWrite, PushEndLoad, Returns
<1>4. ASSUME NEW t \in Threads,
             PushEndStore(t) \/ PushCountLoad(t) \/ PushCountStore(t) \/ PushSignal(t)
      PROVE  PushingMessage'
  BY <1>4 DEF PushEndStore, PushCountLoad, PushCountStore, PushSignal, Returns
<1>5. ASSUME NEW t \in Threads,
             PopEmpty(t) \/ PopLocate(t) \/ PopRead(t) \/ PopEndLoad(t)
      PROVE  PushingMessage'
  BY <1>5 DEF PopEmpty, PopLocate, PopRead, PopEndLoad, Returns
<1>6. ASSUME NEW t \in Threads,
             PopEndStore(t) \/ PopCountLoad(t) \/ PopCountStore(t)
      PROVE  PushingMessage'
  BY <1>6 DEF PopEndStore, PopCountLoad, PopCountStore, Returns
<1>7. ASSUME NEW t \in Threads,
             ManualLock(t) \/ ManualUnlock(t) \/ Unlock(t) \/ Wait(t) \/ Reset(t)
      PROVE  PushingMessage'
  BY <1>7 DEF ManualLock, ManualUnlock, Unlock, Wait, Reset
<1>8. ASSUME NEW t \in Threads, NEW h \in Halves, Query(t, h) PROVE PushingMessage'
  BY <1>8 DEF Query, Returns
<1>9. ASSUME NEW side, Dies(side) PROVE PushingMessage'
  BY <1>9 DEF Dies
<1>10. ASSUME NEW side, Start(side) PROVE PushingMessage'
  BY <1>10 DEF Start
<1> QED
  <2> HIDE DEF PushingMessage, TypeOK, DataOK
  <2> QED BY <1>1, <1>2, <1>3, <1>4, <1>5, <1>6, <1>7, <1>8,
             <1>9, <1>10 DEF Operation, OperationOf, Continue, PopCall, PopFault

LEMMA TypesOperation ==
  ASSUME TypeOK, LockBalanced, PushingMessage, [Operation]_vars
  PROVE  TypeOK' /\ LockBalanced'
<1>1. CASE UNCHANGED vars
  BY <1>1 DEF vars, TypeOK, DataOK, LockBalanced, Holds
<1>2. ASSUME NEW t \in Threads,
             ManualLock(t) \/ PopEmpty(t) \/ PopLocate(t)
               \/ (\E h \in Halves : Query(t, h))
      PROVE  TypeOK' /\ LockBalanced'
  BY <1>2, HoldsMoves, AcquireBalanced, PopTypes, OtherTypes DEF TypeOK
<1>3. ASSUME NEW t \in Threads, ManualUnlock(t) \/ Unlock(t)
      PROVE  TypeOK' /\ LockBalanced'
  BY <1>3, HoldsMoves, ReleaseBalanced, OtherTypes DEF TypeOK
<1>4. ASSUME NEW t \in Threads,
             UNCHANGED mutex /\ OnlyMoves(t, 0), DataOK'
      PROVE  TypeOK' /\ LockBalanced'
  BY <1>4, NeitherBalanced DEF TypeOK
<1>5. ASSUME NEW t \in Threads, NEW m \in Messages, NEW b \in BOOLEAN,
             PushCall(t, m, b)
      PROVE  TypeOK' /\ LockBalanced'
  <2>1. UNCHANGED mutex /\ OnlyMoves(t, 0)
    BY <1>5, HoldsMoves
  <2>2. DataOK'
    BY <1>5, PushTypes
  <2> QED BY <2>1, <2>2, <1>4
<1>6. ASSUME NEW t \in Threads,
             \/ PushRefuse(t) \/ PushLocate(t) \/ PushWrite(t) \/ PushEndLoad(t)
             \/ PushEndStore(t) \/ PushCountLoad(t) \/ PushCountStore(t)
             \/ PushSignal(t)
      PROVE  TypeOK' /\ LockBalanced'
  <2>1. UNCHANGED mutex /\ OnlyMoves(t, 0)
    BY <1>6, HoldsMoves
  <2>2. DataOK'
    BY <1>6, PushTypes
  <2> QED BY <2>1, <2>2, <1>4
<1>7. ASSUME NEW t \in Threads,
             \/ PopRead(t) \/ PopEndLoad(t) \/ PopEndStore(t)
             \/ PopCountLoad(t) \/ PopCountStore(t)
      PROVE  TypeOK' /\ LockBalanced'
  <2>1. UNCHANGED mutex /\ OnlyMoves(t, 0)
    BY <1>7, HoldsMoves
  <2>2. DataOK'
    BY <1>7, PopTypes
  <2> QED BY <2>1, <2>2, <1>4
<1>8. ASSUME NEW t \in Threads, Wait(t) \/ Reset(t)
      PROVE  TypeOK' /\ LockBalanced'
  <2>1. UNCHANGED mutex /\ OnlyMoves(t, 0)
    BY <1>8, HoldsMoves
  <2>2. DataOK'
    BY <1>8, OtherTypes
  <2> QED BY <2>1, <2>2, <1>4
<1>9. ASSUME NEW t \in Threads, PopFault(t) PROVE TypeOK' /\ LockBalanced'
  BY <1>9, DiesTypes, QueueAssumption DEF PopFault, header
<1>10. ASSUME NEW side \in Sides, Dies(side),
              UNCHANGED <<count, end, mem, signal, result, stack>>
       PROVE  TypeOK' /\ LockBalanced'
  BY <1>10, DiesTypes
<1>11. ASSUME NEW side \in Sides, Start(side) PROVE TypeOK' /\ LockBalanced'
  BY <1>11, StartTypes
<1> QED
  BY <1>1, <1>2, <1>3, <1>5, <1>6, <1>7, <1>8, <1>9, <1>10, <1>11
     DEF Operation, OperationOf, Continue, PopCall

LEMMA TypesStep ==
  ASSUME TypeOK, LockBalanced, PushingMessage, [Next]_vars
  PROVE  TypeOK' /\ LockBalanced'
BY NextOperates, TypesOperation

LEMMA TypesAlways == Spec => [](TypeOK /\ LockBalanced /\ PushingMessage)
<1>1. Init => TypeOK /\ LockBalanced /\ PushingMessage
  BY InitTypes DEF Init, PushingMessage, Updating
<1>2. TypeOK /\ LockBalanced /\ PushingMessage /\ [Next]_vars
        => (TypeOK /\ LockBalanced /\ PushingMessage)'
  BY TypesStep, NextOperates, PushingMessageOperation
<1> QED BY <1>1, <1>2, PTL DEF Spec

\* Every variable keeps its type, whichever way the callers of PushMessage lock.
THEOREM TypeCorrect == Spec => []TypeOK
BY TypesAlways, PTL

\* m_Mutex is never leaked, never released twice and never released under a
\* caller that has locked manually, whichever way the callers of PushMessage
\* lock: every operation of lines 150-250 gives back what it has taken.
THEOREM LocksBalanced == Spec => []LockBalanced
BY TypesAlways, PTL

-----------------------------------------------------------------------------
(***************************************************************************)
(* The queue is correct when every push is made under ManualLock:          *)
(* LockedInv is inductive, it implies the safety properties, and under it  *)
(* every step is a step of MessageStack.                                   *)
(* The last part is about a process that may be killed in the middle of a  *)
(* push or pop: what the other one reads is still what was pushed.         *)
(***************************************************************************)

(***************************************************************************)
(* Frames in memory.                                                       *)
(***************************************************************************)
\* A frame that fits is there once it is written (lines 177-181).
LEMMA FrameWritten ==
  ASSUME NEW area, NEW m \in Messages, NEW o \in Nat, Fits(o, m)
  PROVE  HoldsFrame(WriteFrame(area, o, m), o + Frame(m), m)
<1> DEFINE e == o + Frame(m)
<1>1. e = o + Size[m] + 1 /\ Size[m] \in Nat /\ Size[m] >= 1
  BY FrameSize DEF Frame, LengthSize
<1>2. \A i \in o .. e - 1 : i \in Offsets
  BY <1>1, LayoutAssumption DEF Offsets, Fits, HeaderSize, Frame, LengthSize
<1>3. WriteFrame(area, o, m)[e - 1] = LengthOf(m)
  BY <1>1, <1>2 DEF WriteFrame
<1>4. \A i \in e - Frame(m) .. e - 2 : WriteFrame(area, o, m)[i] = DataOf(m)
  <2> TAKE i \in e - Frame(m) .. e - 2
  <2>1. i \in o .. o + Size[m] - 1 /\ i \in o .. e - 1
    BY <1>1 DEF Frame, LengthSize
  <2> QED BY <2>1, <1>2 DEF WriteFrame
<1>5. e - 1 \in Offsets /\ Frame(m) <= e
  BY <1>1, <1>2, FrameSize
<1> QED BY <1>3, <1>4, <1>5 DEF HoldsFrame

\* A push does not touch the frames that end at or below the place it writes to.
LEMMA FrameKept ==
  ASSUME NEW area, NEW m \in Messages, NEW o \in Nat,
         NEW k \in Messages, NEW e \in Nat, e <= o, HoldsFrame(area, e, k)
  PROVE  HoldsFrame(WriteFrame(area, o, m), e, k)
<1>1. e - 1 \in Offsets /\ Frame(k) <= e /\ Frame(k) >= 2 /\ Frame(k) \in Nat
  BY FrameSize DEF HoldsFrame
<1>2. \A i \in 0 .. e - 1 : i \in Offsets
  BY <1>1, LayoutAssumption DEF Offsets, HeaderSize
<1>3. \A i \in 0 .. e - 1 : WriteFrame(area, o, m)[i] = area[i]
  BY <1>2, FrameSize DEF WriteFrame
<1> QED BY <1>1, <1>3 DEF HoldsFrame

\* The frame that ends at an offset is the frame of one message only.
LEMMA FrameUnique ==
  ASSUME NEW area, NEW e \in Nat, NEW m \in Messages, NEW k \in Messages,
         HoldsFrame(area, e, m), HoldsFrame(area, e, k)
  PROVE  m = k
<1>1. area[e - 2] = DataOf(m) /\ area[e - 2] = DataOf(k)
  BY FrameSize DEF HoldsFrame
<1> QED BY <1>1 DEF DataOf

LEMMA MessageFound ==
  ASSUME NEW h \in Halves, NEW e \in Nat, NEW m \in Messages,
         HoldsFrame(mem[h], e, m)
  PROVE  MessageAt(h, e) = m
BY FrameUnique DEF MessageAt

(***************************************************************************)
(* The abstract stack.                                                     *)
(***************************************************************************)
LEMMA PushedFacts ==
  ASSUME NEW s \in Seq(Promise!Entries), NEW m \in Messages
  PROVE  LET e == [msg |-> m, end |-> Promise!Fill(s) + Frame(m)]
             p == Promise!Pushed(s, m)
         IN  /\ Len(p) = Len(s) + 1 /\ p # <<>>
             /\ \A i \in 1 .. Len(s) : p[i] = s[i]
             /\ p[Len(s) + 1] = e
             /\ Promise!Fill(p) = e.end
<1> DEFINE e == [msg |-> m, end |-> Promise!Fill(s) + Frame(m)]
<1>1. e \in Promise!Entries
  <2>1. Promise!Fill(s) \in Nat /\ Frame(m) \in Nat
    BY StackTypes, FrameSize
  <2> QED BY <2>1 DEF Promise!Entries
<1>2. Promise!Pushed(s, m) = Append(s, e)
  BY PromiseLayout DEF Promise!Pushed
<1> HIDE DEF e
<1>3. /\ Len(Append(s, e)) = Len(s) + 1 /\ Append(s, e) # <<>>
      /\ \A i \in 1 .. Len(s) : Append(s, e)[i] = s[i]
      /\ Append(s, e)[Len(s) + 1] = e
  BY <1>1, AppendProperties
<1>4. Promise!Fill(Append(s, e)) = e.end
  BY <1>3 DEF Promise!Fill
<1> QED BY <1>2, <1>3, <1>4 DEF e

LEMMA PoppedFacts ==
  ASSUME NEW s \in Seq(Promise!Entries), s # <<>>
  PROVE  LET p == Promise!Popped(s)
         IN  /\ Len(s) \in Nat /\ Len(s) >= 1
             /\ Len(p) = Len(s) - 1
             /\ \A i \in 1 .. Len(s) - 1 : p[i] = s[i]
             /\ Promise!Fill(p) = (IF Len(s) = 1 THEN 0 ELSE s[Len(s) - 1].end)
<1>1. Len(s) \in Nat /\ Len(s) >= 1
  BY EmptySeq
<1>2. \A i \in 1 .. Len(s) - 1 : s[i] \in Promise!Entries
  BY <1>1, ElementOfSeq
<1>3. /\ Len(Promise!Popped(s)) = Len(s) - 1
      /\ \A i \in 1 .. Len(s) - 1 : Promise!Popped(s)[i] = s[i]
  <2> DEFINE n == Len(s) - 1
  <2>1. n \in Int /\ n >= 0 /\ \A i \in 1 .. n : s[i] \in Promise!Entries
    BY <1>1, <1>2
  <2> HIDE DEF n
  <2>2. /\ Len(SubSeq(s, 1, n)) = (IF 1 <= n THEN n - 1 + 1 ELSE 0)
        /\ \A i \in 1 .. n - 1 + 1 : SubSeq(s, 1, n)[i] = s[1 + i - 1]
    BY <2>1, SubSeqProperties
  <2>3. Len(SubSeq(s, 1, n)) = n /\ \A i \in 1 .. n : SubSeq(s, 1, n)[i] = s[i]
    BY <2>1, <2>2
  <2> QED BY <2>3 DEF n, Promise!Popped
<1>4. CASE Len(s) = 1
  <2>1. Promise!Popped(s) = <<>>
    BY <1>4, SubSeqEmpty DEF Promise!Popped
  <2> QED BY <2>1, <1>1, <1>3, <1>4 DEF Promise!Fill
<1>5. CASE Len(s) # 1
  <2>1. Promise!Popped(s) # <<>>
    BY <1>1, <1>3, <1>5, EmptySeq
  <2>2. Promise!Fill(Promise!Popped(s)) = Promise!Popped(s)[Len(s) - 1].end
    BY <2>1, <1>3 DEF Promise!Fill
  <2> DEFINE n == Len(s)
  <2>3. n \in Nat /\ n >= 1 /\ n # 1
    BY <1>1, <1>5
  <2> HIDE DEF n
  <2>4. n - 1 \in 1 .. n - 1
    BY <2>3
  <2> QED BY <2>2, <2>4, <1>1, <1>3, <1>5 DEF n
<1> QED BY <1>1, <1>3, <1>4, <1>5

LEMMA EntryFacts ==
  ASSUME NEW s \in Seq(Promise!Entries)
  PROVE  /\ Len(s) \in Nat
         /\ \A i \in 1 .. Len(s) : s[i].msg \in Messages /\ s[i].end \in Nat
         /\ s # <<>> => /\ Len(s) >= 1 /\ Len(s) \in 1 .. Len(s)
                        /\ Promise!Fill(s) = s[Len(s)].end
         /\ s = <<>> => Len(s) = 0 /\ Promise!Fill(s) = 0
<1>1. \A i \in 1 .. Len(s) : s[i] \in Promise!Entries
  BY ElementOfSeq
<1>2. Len(s) \in Nat /\ (s # <<>> => Len(s) >= 1)
  BY LenProperties, EmptySeq
<1>3. s = <<>> => Len(s) = 0
  BY EmptySeq
<1> QED BY <1>1, <1>2, <1>3 DEF Promise!Fill, Promise!Entries

(***************************************************************************)
(* Stacked: how a push and a pop change the frames of a half.              *)
(***************************************************************************)
\* Writing the next frame leaves the frames below it alone.
LEMMA StackedWrite ==
  ASSUME NEW s \in Seq(Promise!Entries), NEW area, Stacked(s, area),
         NEW m \in Messages
  PROVE  Stacked(s, WriteFrame(area, Promise!Fill(s), m))
<1>1. ASSUME NEW i \in 1 .. Len(s)
      PROVE  HoldsFrame(WriteFrame(area, Promise!Fill(s), m), s[i].end, s[i].msg)
  <2>1. s[i].msg \in Messages /\ s[i].end \in Nat /\ Promise!Fill(s) \in Nat
    BY EntryFacts, StackTypes
  <2>2. s[i].end <= Promise!Fill(s) /\ HoldsFrame(area, s[i].end, s[i].msg)
    BY DEF Stacked
  <2> QED BY <2>1, <2>2, FrameKept
<1> QED BY <1>1 DEF Stacked

\* A frame written where the others end makes a stack of one message more.
LEMMA StackedPush ==
  ASSUME NEW s \in Seq(Promise!Entries), NEW area, Stacked(s, area),
         NEW m \in Messages, Fits(Promise!Fill(s), m),
         HoldsFrame(area, Promise!Fill(s) + Frame(m), m)
  PROVE  Stacked(Promise!Pushed(s, m), area)
<1> DEFINE p == Promise!Pushed(s, m)
           n == Len(s)
           f == Promise!Fill(s)
<1>1. /\ Len(p) = n + 1 /\ \A i \in 1 .. n : p[i] = s[i]
      /\ p[n + 1].msg = m /\ p[n + 1].end = f + Frame(m)
      /\ Promise!Fill(p) = f + Frame(m)
  <2>1. /\ Len(p) = n + 1 /\ \A i \in 1 .. n : p[i] = s[i]
        /\ p[n + 1] = [msg |-> m, end |-> f + Frame(m)]
        /\ Promise!Fill(p) = [msg |-> m, end |-> f + Frame(m)].end
    BY PushedFacts
  <2> QED BY <2>1
<1>2. /\ n \in Nat /\ f \in Nat
      /\ n > 0 => f = s[n].end /\ n \in 1 .. n
      /\ n = 0 => f = 0
      /\ \A i \in 1 .. n : s[i].msg \in Messages /\ s[i].end \in Nat
  BY EntryFacts, StackTypes
<1>3. Frame(m) \in Nat /\ Frame(m) >= 2
  BY FrameSize
<1>4. f >= n
  <2>1. CASE n = 0
    BY <2>1, <1>2
  <2>2. CASE n # 0
    <3>1. s[n].end >= n
      BY <2>2, <1>2 DEF Stacked
    <3> QED BY <3>1, <2>2, <1>2
  <2> QED BY <2>1, <2>2
<1>5. HeaderSize + Promise!Fill(p) < HalfSize
  BY <1>1, <1>2, <1>3 DEF Fits, HeaderSize
<1>6. ASSUME NEW i \in 1 .. Len(p)
      PROVE  /\ p[i].end >= i
             /\ p[i].end <= Promise!Fill(p)
             /\ Begin(p, i) = (IF i = 1 THEN 0 ELSE p[i - 1].end)
             /\ HoldsFrame(area, p[i].end, p[i].msg)
  <2> HIDE DEF p, n, f
  <2>1. CASE i = n + 1
    <3>1. p[i].end = f + Frame(m) /\ p[i].msg = m /\ Begin(p, i) = f
      BY <2>1, <1>1, <1>2, <1>3 DEF Begin
    <3>2. f = (IF i = 1 THEN 0 ELSE p[i - 1].end)
      <4>1. CASE n = 0
        BY <4>1, <2>1, <1>2
      <4>2. CASE n > 0
        <5>1. i # 1 /\ i - 1 = n /\ p[n] = s[n]
          BY <4>2, <2>1, <1>1, <1>2
        <5> QED BY <5>1, <4>2, <1>2
      <4> QED BY <4>1, <4>2, <1>2
    <3> QED BY <3>1, <3>2, <2>1, <1>1, <1>2, <1>3, <1>4 DEF f
  <2>2. CASE i # n + 1
    <3>1. i \in 1 .. n /\ p[i] = s[i] /\ (i # 1 => p[i - 1] = s[i - 1])
      BY <2>2, <1>1, <1>2
    <3>2. /\ s[i].end >= i /\ s[i].end <= f
          /\ Begin(s, i) = (IF i = 1 THEN 0 ELSE s[i - 1].end)
          /\ HoldsFrame(area, s[i].end, s[i].msg)
      BY <3>1 DEF Stacked, n, f
    <3>3. Begin(p, i) = Begin(s, i)
      BY <3>1 DEF Begin
    <3>4. p[i].end <= f + Frame(m)
      BY <3>1, <3>2, <1>2, <1>3
    <3> QED BY <3>1, <3>2, <3>3, <3>4, <1>1
  <2> QED BY <2>1, <2>2
<1>7. ASSUME NEW i \in 1 .. Len(p), NEW j \in 1 .. Len(p), i < j
      PROVE  p[i].end <= Begin(p, j)
  <2> HIDE DEF p, n, f
  <2>1. i \in 1 .. n /\ p[i] = s[i]
    BY <1>1, <1>2, <1>7
  <2>2. CASE j = n + 1
    <3>1. Begin(p, j) = f
      BY <2>2, <1>1, <1>2, <1>3 DEF Begin
    <3> QED BY <3>1, <2>1 DEF Stacked, n, f
  <2>3. CASE j # n + 1
    <3>1. j \in 1 .. n /\ p[j] = s[j]
      BY <2>3, <1>1, <1>2
    <3>2. s[i].end <= Begin(s, j)
      BY <2>1, <3>1, <1>7 DEF Stacked, n
    <3> QED BY <3>1, <3>2, <2>1 DEF Begin
  <2> QED BY <2>2, <2>3
<1> QED BY <1>5, <1>6, <1>7 DEF Stacked

\* Without its last frame the half holds the other messages.
LEMMA StackedPop ==
  ASSUME NEW s \in Seq(Promise!Entries), NEW area, Stacked(s, area), s # <<>>
  PROVE  /\ Stacked(Promise!Popped(s), area)
         /\ Promise!Fill(Promise!Popped(s)) = Promise!Fill(s) - Frame(s[Len(s)].msg)
<1> DEFINE p == Promise!Popped(s)
           n == Len(s)
<1>1. /\ n \in Nat /\ n >= 1 /\ Len(p) = n - 1 /\ \A i \in 1 .. n - 1 : p[i] = s[i]
      /\ Promise!Fill(p) = (IF n = 1 THEN 0 ELSE s[n - 1].end)
  BY PoppedFacts
<1>2. /\ Promise!Fill(s) = s[n].end /\ n \in 1 .. n
      /\ \A i \in 1 .. n : s[i].msg \in Messages /\ s[i].end \in Nat
  BY EntryFacts
<1>3. Promise!Fill(p) = s[n].end - Frame(s[n].msg)
  BY <1>1, <1>2 DEF Stacked, Begin
<1>4. Frame(s[n].msg) \in Nat /\ Frame(s[n].msg) >= 2
  BY <1>2, FrameSize
<1>5. HeaderSize + Promise!Fill(p) < HalfSize
  BY <1>2, <1>3, <1>4, LayoutAssumption DEF Stacked, HeaderSize
<1> HIDE DEF n, p
<1>6. ASSUME NEW i \in 1 .. Len(p)
      PROVE  /\ p[i].end >= i
             /\ p[i].end <= Promise!Fill(p)
             /\ Begin(p, i) = (IF i = 1 THEN 0 ELSE p[i - 1].end)
             /\ HoldsFrame(area, p[i].end, p[i].msg)
  <2>1. i \in 1 .. n /\ i < n /\ p[i] = s[i] /\ (i # 1 => p[i - 1] = s[i - 1])
    BY <1>1
  <2>2. s[i].end <= Begin(s, n)
    BY <2>1, <1>2 DEF Stacked, n
  <2>3. p[i].end <= Promise!Fill(p)
    BY <2>1, <2>2, <1>3 DEF Begin
  <2>4. /\ s[i].end >= i /\ HoldsFrame(area, s[i].end, s[i].msg)
        /\ Begin(s, i) = (IF i = 1 THEN 0 ELSE s[i - 1].end)
    BY <2>1 DEF Stacked, n
  <2> QED BY <2>1, <2>3, <2>4 DEF Begin
<1>7. ASSUME NEW i \in 1 .. Len(p), NEW j \in 1 .. Len(p), i < j
      PROVE  p[i].end <= Begin(p, j)
  <2>1. i \in 1 .. n /\ p[i] = s[i] /\ j \in 1 .. n /\ p[j] = s[j]
    BY <1>1
  <2>2. s[i].end <= Begin(s, j)
    BY <2>1, <1>7 DEF Stacked, n
  <2> QED BY <2>1, <2>2 DEF Begin
<1>8. Stacked(p, area)
  BY <1>5, <1>6, <1>7 DEF Stacked
<1> QED BY <1>2, <1>3, <1>8 DEF p, n

\* The count and the end offset of a half are far from the limit of a DWORD.
LEMMA StackedSmall ==
  ASSUME NEW s \in Seq(Promise!Entries), NEW area, Stacked(s, area)
  PROVE  Len(s) \in DWords /\ Promise!Fill(s) \in DWords /\ Len(s) < HalfSize
<1>1. Len(s) \in Nat /\ Promise!Fill(s) \in Nat /\ Promise!Fill(s) < HalfSize
  BY StackTypes, EntryFacts, LayoutAssumption DEF Stacked, HeaderSize
<1>2. Len(s) <= Promise!Fill(s)
  <2>1. CASE s = <<>>
    <3>1. Len(s) = 0
      BY <2>1, EmptySeq
    <3> QED BY <3>1, <1>1
  <2>2. CASE s # <<>>
    <3>1. Len(s) \in 1 .. Len(s) /\ Promise!Fill(s) = s[Len(s)].end
      BY <2>2, EntryFacts
    <3>2. s[Len(s)].end >= Len(s)
      BY <3>1 DEF Stacked
    <3> QED BY <3>1, <3>2
  <2> QED BY <2>1, <2>2
<1> QED BY <1>1, <1>2, LayoutAssumption, QueueAssumption DEF DWords

(***************************************************************************)
(* Mutual exclusion.                                                       *)
(***************************************************************************)
InGuard(t) == pc[t] \in Popping \cup {"unlock"}

\* Two threads that hold m_Mutex are the same thread.
LEMMA Exclusive ==
  ASSUME LockBalanced, NEW t \in Threads, NEW u \in Threads,
         manual[t] \/ InGuard(t), manual[u] \/ InGuard(u)
  PROVE  t = u
BY DEF LockBalanced, Holds, InGuard

\* No thread is inside the guard of an operation, or has locked manually, when
\* another one can acquire m_Mutex.
LEMMA NobodyElse ==
  ASSUME LockBalanced, NEW t \in Threads, MutexFree(t), NEW u \in Threads, u # t
  PROVE  ~manual[u] /\ ~InGuard(u)
BY QueueAssumption DEF LockBalanced, Holds, InGuard, MutexFree

\* Unless a thread that holds m_Mutex is between the two stores of an
\* operation, the end offset of a half is where its frames end.
LEMMA EndIsFill ==
  ASSUME LockedInv, NEW t \in Threads, manual[t] \/ InGuard(t), NEW h \in Halves,
         ~(PushedEnd(t) /\ Out(t) = h), ~(PoppedEnd(t) /\ In(t) = h)
  PROVE  end[h] = Fill(h)
<1>1. ASSUME NEW u \in Threads, PushedEnd(u) \/ PoppedEnd(u) PROVE u = t
  <2>1. manual[u] \/ InGuard(u)
    BY <1>1 DEF LockedInv, PushInv, PushedEnd, PoppedEnd, Updating, InGuard, Popping
  <2> QED BY <2>1, Exclusive DEF LockedInv
<1> QED BY <1>1 DEF LockedInv, HalfInv

ThreadsOK == \A t \in Threads : PushInv(t) /\ PopInv(t)
HalvesOK  == \A h \in Halves : HalfInv(h)

\* The state of thread u that is its own.
Same(u) == /\ pc'[u] = pc[u] /\ manual'[u] = manual[u] /\ msg'[u] = msg[u]
           /\ at'[u] = at[u] /\ size'[u] = size[u] /\ reg'[u] = reg[u]

\* A thread keeps its part of the invariant in a step of another thread that
\* leaves the mapping alone ...
LEMMA OthersKept ==
  ASSUME NEW u \in Threads, PushInv(u), PopInv(u), Same(u),
         UNCHANGED <<count, end, mem, stack>>
  PROVE  PushInv(u)' /\ PopInv(u)'
BY DEF PushInv, PopInv, Same, PushedEnd, PoppedEnd, Fill, Top

\* ... and in every step of a thread that holds m_Mutex.
LEMMA OthersOut ==
  ASSUME LockedInv, NEW t \in Threads, manual[t] \/ InGuard(t),
         NEW u \in Threads, u # t, Same(u)
  PROVE  PushInv(u)' /\ PopInv(u)'
<1>1. ~manual[u] /\ ~InGuard(u)
  BY Exclusive DEF LockedInv
<1>2. pc[u] \notin Updating \cup {"push", "pushSignal"}
  BY <1>1 DEF LockedInv, PushInv
<1>3. pc[u] \notin Popping
  BY <1>1 DEF InGuard
<1>4. pc[u] # "dead"
  BY DEF LockedInv, PopInv
<1> QED BY <1>2, <1>3, <1>4
           DEF PushInv, PopInv, Same, PushedEnd, PoppedEnd, Updating, Popping

\* The halves keep their part in a step that leaves the mapping alone and takes
\* no thread out of the middle of an update.
LEMMA HalvesKept ==
  ASSUME HalvesOK, UNCHANGED <<count, end, mem, stack>>,
         \A t \in Threads : /\ PushedEnd(t) => PushedEnd(t)'
                            /\ PoppedEnd(t) => PoppedEnd(t)'
  PROVE  HalvesOK'
<1>1. ASSUME NEW h \in Halves PROVE HalfInv(h)'
  <2>1. Stacked(stack[h], mem[h]) /\ count[h] = Len(stack[h])
    BY DEF HalvesOK, HalfInv
  <2>2. Stacked(stack'[h], mem'[h]) /\ count'[h] = Len(stack'[h])
    BY <2>1
  <2>3. \/ end'[h] = Fill(h)'
        \/ \E t \in Threads : \/ PushedEnd(t)' /\ Out(t) = h
                              \/ PoppedEnd(t)' /\ In(t) = h
    BY DEF HalvesOK, HalfInv, Fill
  <2> QED BY <2>2, <2>3 DEF HalfInv, Stacked, Out, In
<1> QED BY <1>1 DEF HalvesOK

(***************************************************************************)
(* The steps that leave the mapping alone.                                 *)
(***************************************************************************)
\* Such a step of thread t keeps the invariant when it keeps t's own part and
\* does not take t out of the middle of an update.
LEMMA PrivateStep ==
  ASSUME LockedInv, NEW t \in Threads, UNCHANGED <<count, end, mem, stack>>,
         \A u \in Threads : u # t => Same(u),
         PushedEnd(t) => PushedEnd(t)', PoppedEnd(t) => PoppedEnd(t)',
         PushInv(t)', PopInv(t)'
  PROVE  ThreadsOK' /\ HalvesOK'
<1>1. ThreadsOK'
  <2>1. ASSUME NEW u \in Threads PROVE PushInv(u)' /\ PopInv(u)'
    <3>1. CASE u = t
      BY <3>1
    <3>2. CASE u # t
      BY <3>2, OthersKept DEF LockedInv
    <3> QED BY <3>1, <3>2
  <2> QED BY <2>1 DEF ThreadsOK
<1>2. \A u \in Threads : (PushedEnd(u) => PushedEnd(u)') /\ (PoppedEnd(u) => PoppedEnd(u)')
  BY DEF Same, PushedEnd, PoppedEnd
<1>3. HalvesOK
  BY DEF LockedInv, HalvesOK
<1> QED BY <1>1, <1>2, <1>3, HalvesKept

LEMMA LockSteps ==
  ASSUME LockedInv, NEW t \in Threads,
         ManualLock(t) \/ ManualUnlock(t) \/ Unlock(t) \/ Wait(t) \/ Reset(t)
           \/ PushSignal(t) \/ PushRefuse(t) \/ PopEmpty(t)
           \/ (\E h \in Halves : Query(t, h))
  PROVE  ThreadsOK' /\ HalvesOK'
<1>1. /\ UNCHANGED <<count, end, mem, stack>>
      /\ \A u \in Threads : u # t => Same(u)
      /\ pc[t] \in {"idle", "push", "pushSignal", "unlock", "waited"}
      /\ pc'[t] \in {"idle", "unlock", "waited"}
  BY DEF ManualLock, ManualUnlock, Unlock, Wait, Reset, PushSignal, PushRefuse,
         PopEmpty, Query, Goto, Returns, header, local, Same, LockedInv, TypeOK, DataOK
<1>2. PushInv(t)' /\ PopInv(t)'
  BY <1>1 DEF PushInv, PopInv, PushedEnd, PoppedEnd, Updating, Popping
<1>3. ~PushedEnd(t) /\ ~PoppedEnd(t)
  BY <1>1 DEF PushedEnd, PoppedEnd
<1> QED BY <1>1, <1>2, <1>3, PrivateStep

LEMMA PushCallStep ==
  ASSUME LockedInv, PushModes \subseteq {TRUE}, NEW t \in Threads,
         NEW m \in Messages, NEW b \in PushModes, PushCall(t, m, b)
  PROVE  ThreadsOK' /\ HalvesOK'
<1>1. /\ UNCHANGED <<count, end, mem, stack>>
      /\ \A u \in Threads : u # t => Same(u)
      /\ pc[t] = "idle" /\ pc'[t] = "push" /\ manual'[t] /\ msg'[t] \in Messages
  BY DEF PushCall, Goto, header, Same, LockedInv, TypeOK, DataOK
<1>2. PushInv(t)' /\ PopInv(t)'
  BY <1>1 DEF PushInv, PopInv, PushedEnd, PoppedEnd, Updating, Popping
<1>3. ~PushedEnd(t) /\ ~PoppedEnd(t)
  BY <1>1 DEF PushedEnd, PoppedEnd
<1> QED BY <1>1, <1>2, <1>3, PrivateStep

LEMMA PushLocateStep ==
  ASSUME LockedInv, NEW t \in Threads, PushLocate(t)
  PROVE  ThreadsOK' /\ HalvesOK'
<1>1. /\ UNCHANGED <<count, end, mem, stack>>
      /\ \A u \in Threads : u # t => Same(u)
      /\ pc[t] = "push" /\ pc'[t] = "pushWrite" /\ at'[t] = end[Out(t)]
      /\ msg'[t] = msg[t] /\ manual'[t] = manual[t]
      /\ Fits(end[Out(t)], msg[t])
  BY DEF PushLocate, Goto, header, Same, LockedInv, TypeOK, DataOK
<1>2. manual[t] /\ msg[t] \in Messages
  BY <1>1 DEF LockedInv, PushInv
<1>3. end[Out(t)] = Fill(Out(t))
  BY <1>1, <1>2, EndIsFill, HalvesOf DEF PushedEnd, PoppedEnd
<1>4. Fill(Out(t))' = Fill(Out(t))
  BY <1>1 DEF Fill, Out
<1>5. PushInv(t)' /\ PopInv(t)'
  BY <1>1, <1>2, <1>3, <1>4
     DEF PushInv, PopInv, PushedEnd, PoppedEnd, Updating, Popping, Out
<1>6. ~PushedEnd(t) /\ ~PoppedEnd(t)
  BY <1>1 DEF PushedEnd, PoppedEnd
<1> QED BY <1>1, <1>5, <1>6, PrivateStep

LEMMA PushLoadSteps ==
  ASSUME LockedInv, NEW t \in Threads, PushEndLoad(t) \/ PushCountLoad(t)
  PROVE  ThreadsOK' /\ HalvesOK'
<1>1. /\ UNCHANGED <<count, end, mem, stack>>
      /\ \A u \in Threads : u # t => Same(u)
      /\ \/ pc[t] = "pushEndLoad" /\ pc'[t] = "pushEndStore" /\ reg'[t] = end[Out(t)]
         \/ pc[t] = "pushCountLoad" /\ pc'[t] = "pushCountStore" /\ reg'[t] = count[Out(t)]
      /\ msg'[t] = msg[t] /\ manual'[t] = manual[t] /\ at'[t] = at[t]
  BY DEF PushEndLoad, PushCountLoad, Goto, header, Same, LockedInv, TypeOK, DataOK
<1>2. PushInv(t)' /\ PopInv(t)'
  BY <1>1 DEF LockedInv, PushInv, PopInv, PushedEnd, PoppedEnd, Updating, Popping,
              Fill, Out
<1>3. (PushedEnd(t) => PushedEnd(t)') /\ (PoppedEnd(t) => PoppedEnd(t)')
  BY <1>1 DEF PushedEnd, PoppedEnd
<1> QED BY <1>1, <1>2, <1>3, PrivateStep

LEMMA PopLocateStep ==
  ASSUME LockedInv, LockBalanced', NEW t \in Threads, PopLocate(t)
  PROVE  ThreadsOK' /\ HalvesOK'
<1>1. /\ UNCHANGED <<count, end, mem, stack>>
      /\ \A u \in Threads : u # t => Same(u)
      /\ pc[t] = "idle" /\ pc'[t] = "popRead" /\ at'[t] = end[In(t)]
      /\ MutexFree(t) /\ count[In(t)] >= 1
  BY DEF PopLocate, Acquire, Goto, header, Same, LockedInv, TypeOK, DataOK
<1>2. \A u \in Threads : ~PushedEnd(u) /\ ~PoppedEnd(u)
  <2>1. ASSUME NEW u \in Threads, u # t PROVE ~manual[u] /\ ~InGuard(u)
    BY <2>1, <1>1, NobodyElse DEF LockedInv
  <2>2. ASSUME NEW u \in Threads PROVE ~PushedEnd(u) /\ ~PoppedEnd(u)
    BY <2>1, <1>1 DEF PushedEnd, PoppedEnd, LockedInv, PushInv, Updating,
                      InGuard, Popping
  <2> QED BY <2>2
<1>3. HalfInv(In(t))
  BY HalvesOf DEF LockedInv
<1>4. end[In(t)] = Fill(In(t))
  BY <1>2, <1>3 DEF HalfInv
<1>5. stack[In(t)] # <<>>
  BY <1>1, <1>3, EmptySeq DEF HalfInv
<1>6. PushInv(t)' /\ PopInv(t)'
  BY <1>1, <1>4, <1>5 DEF PushInv, PopInv, PushedEnd, PoppedEnd, Updating, Popping,
                          Fill, In
<1> QED BY <1>1, <1>2, <1>6, PrivateStep

\* A pop finds the message on top of its half and reads its size.
LEMMA PopReadFacts ==
  ASSUME LockedInv, NEW t \in Threads, pc[t] = "popRead"
  PROVE  /\ Top(In(t)) \in Messages
         /\ MessageAt(In(t), at[t]) = Top(In(t))
         /\ SizesAt(In(t), at[t]) = {Size[Top(In(t))]}
         /\ Size[Top(In(t))] <= at[t]
<1> DEFINE s == stack[In(t)]
           m == Top(In(t))
<1>1. s \in Seq(Promise!Entries) /\ s # <<>> /\ at[t] = Promise!Fill(s)
  BY HalvesOf DEF LockedInv, TypeOK, DataOK, PopInv, Popping, Fill
<1>2. /\ Len(s) \in 1 .. Len(s) /\ Promise!Fill(s) = s[Len(s)].end
      /\ m \in Messages /\ s[Len(s)].end \in Nat
  BY <1>1, EntryFacts DEF Top
<1>3. HoldsFrame(mem[In(t)], at[t], m)
  <2>1. Stacked(s, mem[In(t)])
    BY HalvesOf DEF LockedInv, HalfInv
  <2> QED BY <2>1, <1>1, <1>2 DEF Stacked, Top
<1>4. MessageAt(In(t), at[t]) = m
  BY <1>1, <1>2, <1>3, MessageFound, HalvesOf
<1>5. at[t] # 0 /\ at[t] - 1 \in Offsets /\ mem[In(t)][at[t] - 1] = LengthOf(m)
      /\ Frame(m) <= at[t]
  BY <1>2, <1>3, FrameSize DEF HoldsFrame
<1>6. SizesAt(In(t), at[t]) = {Size[m]}
  BY <1>5 DEF SizesAt, LengthOf
<1>7. Size[m] <= at[t]
  BY <1>1, <1>2, <1>5, FrameSize DEF Frame, LengthSize
<1> QED BY <1>2, <1>4, <1>6, <1>7

LEMMA PopReadStep ==
  ASSUME LockedInv, NEW t \in Threads, PopRead(t)
  PROVE  ThreadsOK' /\ HalvesOK'
<1>1. /\ UNCHANGED <<count, end, mem, stack>>
      /\ \A u \in Threads : u # t => Same(u)
      /\ pc[t] = "popRead" /\ pc'[t] = "popEndLoad"
      /\ msg'[t] = MessageAt(In(t), at[t]) /\ size'[t] \in SizesAt(In(t), at[t])
  BY DEF PopRead, Goto, header, Same, LockedInv, TypeOK, DataOK
<1>2. msg'[t] = Top(In(t)) /\ size'[t] = Size[Top(In(t))]
  BY <1>1, PopReadFacts
<1>3. stack[In(t)] # <<>>
  BY <1>1 DEF LockedInv, PopInv, Popping
<1>4. PushInv(t)' /\ PopInv(t)'
  BY <1>1, <1>2, <1>3 DEF PushInv, PopInv, PushedEnd, PoppedEnd, Updating, Popping,
                          Top, In
<1>5. ~PushedEnd(t) /\ ~PoppedEnd(t)
  BY <1>1 DEF PushedEnd, PoppedEnd
<1> QED BY <1>1, <1>4, <1>5, PrivateStep

LEMMA NoFault ==
  ASSUME LockedInv, NEW t \in Threads PROVE ~PopFault(t)
<1> SUFFICES ASSUME PopFault(t) PROVE FALSE
  OBVIOUS
<1>1. pc[t] = "popRead" /\ \A n \in SizesAt(In(t), at[t]) : n > at[t]
  BY DEF PopFault
<1>2. /\ Size[Top(In(t))] > at[t] /\ Size[Top(In(t))] <= at[t]
      /\ Top(In(t)) \in Messages /\ at[t] \in DWords
  BY <1>1, PopReadFacts DEF LockedInv, TypeOK, DataOK
<1> QED BY <1>2, FrameSize DEF DWords

LEMMA PopLoadSteps ==
  ASSUME LockedInv, NEW t \in Threads, PopEndLoad(t) \/ PopCountLoad(t)
  PROVE  ThreadsOK' /\ HalvesOK'
<1>1. /\ UNCHANGED <<count, end, mem, stack>>
      /\ \A u \in Threads : u # t => Same(u)
      /\ \/ pc[t] = "popEndLoad" /\ pc'[t] = "popEndStore" /\ reg'[t] = end[In(t)]
         \/ pc[t] = "popCountLoad" /\ pc'[t] = "popCountStore" /\ reg'[t] = count[In(t)]
      /\ msg'[t] = msg[t] /\ size'[t] = size[t]
  BY DEF PopEndLoad, PopCountLoad, Goto, header, Same, LockedInv, TypeOK, DataOK
<1>2. PushInv(t)' /\ PopInv(t)'
  BY <1>1 DEF LockedInv, PushInv, PopInv, PushedEnd, PoppedEnd, Updating, Popping,
              Fill, Top, In
<1>3. (PushedEnd(t) => PushedEnd(t)') /\ (PoppedEnd(t) => PoppedEnd(t)')
  BY <1>1 DEF PushedEnd, PoppedEnd
<1> QED BY <1>1, <1>2, <1>3, PrivateStep

(***************************************************************************)
(* The steps that change the mapping, by a thread that holds m_Mutex.      *)
(***************************************************************************)
\* Such a step of thread t on half k keeps the invariant when it keeps t's part
\* and that of half k.
LEMMA SharedStep ==
  ASSUME LockedInv, NEW t \in Threads, manual[t] \/ InGuard(t), NEW k \in Halves,
         \A u \in Threads : u # t => Same(u),
         \A h \in Halves \ {k} : /\ count'[h] = count[h] /\ end'[h] = end[h]
                                 /\ mem'[h] = mem[h] /\ stack'[h] = stack[h],
         PushedEnd(t) => Out(t) = k, PoppedEnd(t) => In(t) = k,
         PushInv(t)', PopInv(t)', HalfInv(k)'
  PROVE  ThreadsOK' /\ HalvesOK'
<1>1. ThreadsOK'
  <2>1. ASSUME NEW u \in Threads PROVE PushInv(u)' /\ PopInv(u)'
    <3>1. CASE u = t
      BY <3>1
    <3>2. CASE u # t
      BY <3>2, OthersOut
    <3> QED BY <3>1, <3>2
  <2> QED BY <2>1 DEF ThreadsOK
<1>2. HalvesOK'
  <2>1. ASSUME NEW h \in Halves, h # k PROVE HalfInv(h)'
    <3>1. end[h] = Fill(h)
      BY <2>1, EndIsFill
    <3>2. Stacked(stack[h], mem[h]) /\ count[h] = Len(stack[h])
      BY DEF LockedInv, HalfInv
    <3>3. /\ stack'[h] = stack[h] /\ mem'[h] = mem[h] /\ count'[h] = count[h]
          /\ end'[h] = end[h]
      BY <2>1
    <3> QED BY <3>1, <3>2, <3>3 DEF HalfInv, Fill, Stacked
  <2> QED BY <2>1 DEF HalvesOK
<1> QED BY <1>1, <1>2

LEMMA PushWriteStep ==
  ASSUME LockedInv, NEW t \in Threads, PushWrite(t)
  PROVE  ThreadsOK' /\ HalvesOK'
<1> DEFINE k == Out(t)
           s == stack[k]
<1>1. /\ UNCHANGED <<count, end, stack>>
      /\ \A u \in Threads : u # t => Same(u)
      /\ pc[t] = "pushWrite" /\ pc'[t] = "pushEndLoad"
      /\ msg'[t] = msg[t] /\ manual'[t] = manual[t]
      /\ mem'[k] = WriteFrame(mem[k], at[t], msg[t])
      /\ \A h \in Halves \ {k} : mem'[h] = mem[h]
  BY HalvesOf DEF PushWrite, Goto, header, local, Same, LockedInv, TypeOK, DataOK
<1>2. /\ manual[t] /\ msg[t] \in Messages /\ at[t] = Promise!Fill(s)
      /\ Fits(Promise!Fill(s), msg[t])
  BY <1>1 DEF LockedInv, PushInv, Updating, Fill
<1>3. s \in Seq(Promise!Entries) /\ Promise!Fill(s) \in Nat /\ k \in Halves
  BY HalvesOf, StackTypes DEF LockedInv, TypeOK, DataOK
<1>4. Stacked(s, mem[k]) /\ count[k] = Len(s) /\ end[k] = Promise!Fill(s)
  BY <1>1, <1>2, <1>3, EndIsFill DEF LockedInv, HalfInv, Fill, PushedEnd, PoppedEnd
<1>5. Stacked(s, mem'[k])
  BY <1>1, <1>2, <1>3, <1>4, StackedWrite
<1>6. HoldsFrame(mem'[k], Promise!Fill(s) + Frame(msg[t]), msg[t])
  BY <1>1, <1>2, <1>3, FrameWritten
<1>7. HalfInv(k)'
  BY <1>1, <1>4, <1>5 DEF HalfInv, Fill, Stacked
<1>8. PushInv(t)' /\ PopInv(t)'
  BY <1>1, <1>2, <1>6 DEF PushInv, PopInv, PushedEnd, PoppedEnd, Updating, Popping,
                          Fill, Out
<1> QED BY <1>1, <1>2, <1>3, <1>7, <1>8, SharedStep DEF PushedEnd, PoppedEnd

\* What a half looks like when a thread is about to store its end offset or
\* its count at the end of a push.
LEMMA PushFacts ==
  ASSUME LockedInv, NEW t \in Threads, pc[t] \in Updating \ {"pushWrite"}
  PROVE  LET s == stack[Out(t)]
             p == Promise!Pushed(s, msg[t])
         IN  /\ manual[t] /\ msg[t] \in Messages /\ s \in Seq(Promise!Entries)
             /\ Stacked(s, mem[Out(t)]) /\ count[Out(t)] = Len(s)
             /\ Stacked(p, mem[Out(t)])
             /\ Len(p) = Len(s) + 1 /\ Len(p) \in DWords
             /\ Promise!Fill(p) = Promise!Fill(s) + Frame(msg[t])
             /\ Promise!Fill(p) \in DWords
<1> DEFINE s == stack[Out(t)]
           p == Promise!Pushed(s, msg[t])
<1>1. /\ manual[t] /\ msg[t] \in Messages /\ Fits(Promise!Fill(s), msg[t])
      /\ HoldsFrame(mem[Out(t)], Promise!Fill(s) + Frame(msg[t]), msg[t])
  BY DEF LockedInv, PushInv, Fill
<1>2. s \in Seq(Promise!Entries)
  BY HalvesOf DEF LockedInv, TypeOK, DataOK
<1>3. Stacked(s, mem[Out(t)]) /\ count[Out(t)] = Len(s)
  BY HalvesOf DEF LockedInv, HalfInv
<1>4. Stacked(p, mem[Out(t)])
  BY <1>1, <1>2, <1>3, StackedPush
<1>5. Len(p) = Len(s) + 1
  BY <1>1, <1>2, PushedFacts
<1>6. Promise!Fill(p) = Promise!Fill(s) + Frame(msg[t])
  <2>1. Promise!Fill(p) = [msg |-> msg[t],
                           end |-> Promise!Fill(s) + Frame(msg[t])].end
    BY <1>1, <1>2, PushedFacts
  <2> QED BY <2>1
<1>7. p \in Seq(Promise!Entries)
  BY <1>1, <1>2, StackTypes
<1>8. Len(p) \in DWords /\ Promise!Fill(p) \in DWords
  BY <1>4, <1>7, StackedSmall
<1> QED BY <1>1, <1>2, <1>3, <1>4, <1>5, <1>6, <1>8

LEMMA PushEndStoreStep ==
  ASSUME LockedInv, NEW t \in Threads, PushEndStore(t)
  PROVE  ThreadsOK' /\ HalvesOK'
<1> DEFINE k == Out(t)
           s == stack[k]
           p == Promise!Pushed(s, msg[t])
<1>1. /\ UNCHANGED <<count, mem, stack>>
      /\ \A u \in Threads : u # t => Same(u)
      /\ pc[t] = "pushEndStore" /\ pc'[t] = "pushCountLoad"
      /\ msg'[t] = msg[t] /\ manual'[t] = manual[t]
      /\ end'[k] = (reg[t] + Frame(msg[t])) % DWordRange
      /\ \A h \in Halves \ {k} : end'[h] = end[h]
  BY HalvesOf DEF PushEndStore, Goto, local, Same, LockedInv, TypeOK, DataOK
<1>2. /\ manual[t] /\ k \in Halves
      /\ Stacked(s, mem[k]) /\ count[k] = Len(s)
      /\ Promise!Fill(p) = Promise!Fill(s) + Frame(msg[t])
      /\ Promise!Fill(p) \in DWords
  BY <1>1, PushFacts, HalvesOf DEF Updating
<1>3. reg[t] = Promise!Fill(s)
  <2>1. end[k] = Fill(k)
    BY <1>1, <1>2, EndIsFill DEF PushedEnd, PoppedEnd
  <2> QED BY <1>1, <2>1 DEF LockedInv, PushInv, Fill
<1>4. end'[k] = Promise!Fill(s) + Frame(msg[t])
  BY <1>1, <1>2, <1>3, ModExact
<1>5. PushInv(t)' /\ PopInv(t)'
  <2>1. /\ Fits(Promise!Fill(s), msg[t]) /\ msg[t] \in Messages
        /\ HoldsFrame(mem[k], Promise!Fill(s) + Frame(msg[t]), msg[t])
    BY <1>1 DEF LockedInv, PushInv, Updating, Fill
  <2> QED BY <1>1, <1>2, <1>4, <2>1
             DEF PushInv, PopInv, PushedEnd, PoppedEnd, Updating, Popping, Fill, Out
<1>6. HalfInv(k)'
  BY <1>1, <1>2 DEF HalfInv, PushedEnd, Stacked, Out
<1> QED BY <1>1, <1>2, <1>5, <1>6, SharedStep DEF PushedEnd, PoppedEnd

LEMMA PushCountStoreStep ==
  ASSUME LockedInv, NEW t \in Threads, PushCountStore(t)
  PROVE  ThreadsOK' /\ HalvesOK'
<1> DEFINE k == Out(t)
           s == stack[k]
           p == Promise!Pushed(s, msg[t])
<1>1. /\ UNCHANGED <<end, mem>>
      /\ \A u \in Threads : u # t => Same(u)
      /\ pc[t] = "pushCountStore" /\ pc'[t] = "pushSignal" /\ manual'[t] = manual[t]
      /\ count'[k] = (reg[t] + 1) % DWordRange /\ stack'[k] = p
      /\ \A h \in Halves \ {k} : count'[h] = count[h] /\ stack'[h] = stack[h]
  BY HalvesOf
     DEF PushCountStore, Returns, Goto, Same, LockedInv, TypeOK, DataOK
<1>2. /\ manual[t] /\ k \in Halves /\ Stacked(p, mem[k])
      /\ count[k] = Len(s) /\ Len(p) = Len(s) + 1 /\ Len(p) \in DWords
      /\ Promise!Fill(p) = Promise!Fill(s) + Frame(msg[t])
  BY <1>1, PushFacts, HalvesOf DEF Updating
<1>3. reg[t] = Len(s) /\ end[k] = Promise!Fill(p)
  BY <1>1, <1>2 DEF LockedInv, PushInv, PushedEnd, Fill
<1>4. count'[k] = Len(p)
  BY <1>1, <1>2, <1>3, ModExact
<1>5. HalfInv(k)'
  BY <1>1, <1>2, <1>3, <1>4 DEF HalfInv, Fill, Stacked
<1>6. PushInv(t)' /\ PopInv(t)'
  BY <1>1, <1>2 DEF PushInv, PopInv, PushedEnd, PoppedEnd, Updating, Popping
<1> QED BY <1>1, <1>2, <1>5, <1>6, SharedStep DEF PushedEnd, PoppedEnd

\* The same at the end of a pop.
LEMMA PopFacts ==
  ASSUME LockedInv, NEW t \in Threads, pc[t] \in Popping \ {"popRead"}
  PROVE  LET s == stack[In(t)]
             p == Promise!Popped(s)
         IN  /\ InGuard(t) /\ s \in Seq(Promise!Entries) /\ s # <<>>
             /\ msg[t] = s[Len(s)].msg /\ msg[t] \in Messages
             /\ size[t] + LengthSize = Frame(msg[t])
             /\ Stacked(s, mem[In(t)]) /\ count[In(t)] = Len(s)
             /\ Stacked(p, mem[In(t)])
             /\ Len(p) = Len(s) - 1 /\ Len(p) \in DWords
             /\ Promise!Fill(p) = Promise!Fill(s) - Frame(msg[t])
             /\ Promise!Fill(p) \in DWords
<1> DEFINE s == stack[In(t)]
           p == Promise!Popped(s)
<1>1. /\ InGuard(t) /\ s # <<>> /\ msg[t] = s[Len(s)].msg
      /\ size[t] + LengthSize = Frame(msg[t])
  BY DEF LockedInv, PopInv, InGuard, Top, Frame
<1>2. s \in Seq(Promise!Entries)
  BY HalvesOf DEF LockedInv, TypeOK, DataOK
<1>3. Stacked(s, mem[In(t)]) /\ count[In(t)] = Len(s)
  BY HalvesOf DEF LockedInv, HalfInv
<1>4. Stacked(p, mem[In(t)]) /\ Promise!Fill(p) = Promise!Fill(s) - Frame(msg[t])
  BY <1>1, <1>2, <1>3, StackedPop
<1>5. Len(p) = Len(s) - 1
  BY <1>1, <1>2, PoppedFacts
<1>6. p \in Seq(Promise!Entries)
  BY <1>2, StackTypes
<1>7. Len(p) \in DWords /\ Promise!Fill(p) \in DWords
  BY <1>4, <1>6, StackedSmall
<1>8. msg[t] \in Messages
  BY <1>1, <1>2, EntryFacts
<1> QED BY <1>1, <1>2, <1>3, <1>4, <1>5, <1>7, <1>8

LEMMA PopEndStoreStep ==
  ASSUME LockedInv, NEW t \in Threads, PopEndStore(t)
  PROVE  ThreadsOK' /\ HalvesOK'
<1> DEFINE k == In(t)
           s == stack[k]
           p == Promise!Popped(s)
<1>1. /\ UNCHANGED <<count, mem, stack>>
      /\ \A u \in Threads : u # t => Same(u)
      /\ pc[t] = "popEndStore" /\ pc'[t] = "popCountLoad"
      /\ msg'[t] = msg[t] /\ size'[t] = size[t]
      /\ end'[k] = (reg[t] - (size[t] + LengthSize)) % DWordRange
      /\ \A h \in Halves \ {k} : end'[h] = end[h]
  BY HalvesOf DEF PopEndStore, Goto, local, Same, LockedInv, TypeOK, DataOK
<1>2. /\ InGuard(t) /\ k \in Halves /\ s # <<>> /\ Stacked(s, mem[k])
      /\ count[k] = Len(s) /\ size[t] + LengthSize = Frame(msg[t])
      /\ Promise!Fill(p) = Promise!Fill(s) - Frame(msg[t])
      /\ Promise!Fill(p) \in DWords
  BY <1>1, PopFacts, HalvesOf DEF Popping
<1>3. reg[t] = Promise!Fill(s)
  <2>1. end[k] = Fill(k)
    BY <1>1, <1>2, EndIsFill DEF PushedEnd, PoppedEnd
  <2> QED BY <1>1, <2>1 DEF LockedInv, PopInv, Fill
<1>4. end'[k] = Promise!Fill(s) - Frame(msg[t])
  BY <1>1, <1>2, <1>3, ModExact
<1>5. PushInv(t)' /\ PopInv(t)'
  <2>1. msg[t] = Top(k) /\ size[t] = Size[msg[t]]
    BY <1>1 DEF LockedInv, PopInv, Popping
  <2> QED BY <1>1, <1>2, <1>4, <2>1
             DEF PushInv, PopInv, PushedEnd, PoppedEnd, Updating, Popping, Fill, Top, In
<1>6. HalfInv(k)'
  BY <1>1, <1>2 DEF HalfInv, PoppedEnd, Stacked, In
<1> QED BY <1>1, <1>2, <1>5, <1>6, SharedStep DEF PushedEnd, PoppedEnd

LEMMA PopCountStoreStep ==
  ASSUME LockedInv, NEW t \in Threads, PopCountStore(t)
  PROVE  ThreadsOK' /\ HalvesOK'
<1> DEFINE k == In(t)
           s == stack[k]
           p == Promise!Popped(s)
<1>1. /\ UNCHANGED <<end, mem>>
      /\ \A u \in Threads : u # t => Same(u)
      /\ pc[t] = "popCountStore" /\ pc'[t] = "unlock"
      /\ count'[k] = (reg[t] - 1) % DWordRange /\ stack'[k] = p
      /\ \A h \in Halves \ {k} : count'[h] = count[h] /\ stack'[h] = stack[h]
  BY HalvesOf
     DEF PopCountStore, Returns, Goto, Same, LockedInv, TypeOK, DataOK
<1>2. /\ InGuard(t) /\ k \in Halves /\ Stacked(p, mem[k])
      /\ count[k] = Len(s) /\ Len(p) = Len(s) - 1 /\ Len(p) \in DWords
      /\ Promise!Fill(p) = Promise!Fill(s) - Frame(msg[t])
  BY <1>1, PopFacts, HalvesOf DEF Popping
<1>3. reg[t] = Len(s) /\ end[k] = Promise!Fill(p)
  BY <1>1, <1>2 DEF LockedInv, PopInv, PoppedEnd, Fill
<1>4. count'[k] = Len(p)
  BY <1>1, <1>2, <1>3, ModExact
<1>5. HalfInv(k)'
  BY <1>1, <1>2, <1>3, <1>4 DEF HalfInv, Fill, Stacked
<1>6. PushInv(t)' /\ PopInv(t)'
  BY <1>1, <1>2 DEF PushInv, PopInv, PushedEnd, PoppedEnd, Updating, Popping
<1> QED BY <1>1, <1>2, <1>5, <1>6, SharedStep DEF PushedEnd, PoppedEnd

(***************************************************************************)
(* The invariant, and what it gives.                                       *)
(***************************************************************************)
LEMMA LockedInit == Init => LockedInv
<1> SUFFICES ASSUME Init PROVE LockedInv
  OBVIOUS
<1>1. TypeOK /\ LockBalanced
  BY InitTypes
<1>2. ASSUME NEW h \in Halves PROVE HalfInv(h)
  <2>1. stack[h] = <<>> /\ count[h] = 0 /\ end[h] = 0
    BY <1>2 DEF Init
  <2>2. Len(stack[h]) = 0 /\ Promise!Fill(stack[h]) = 0
    BY <2>1, EmptySeq DEF Promise!Fill
  <2>3. HeaderSize + 0 < HalfSize
    BY LayoutAssumption, QueueAssumption DEF HeaderSize
  <2> QED BY <2>1, <2>2, <2>3 DEF HalfInv, Stacked, Fill
<1>3. ASSUME NEW t \in Threads PROVE PushInv(t) /\ PopInv(t)
  BY DEF Init, PushInv, PopInv, PushedEnd, PoppedEnd, Updating, Popping
<1> QED BY <1>1, <1>2, <1>3 DEF LockedInv

LEMMA LockedStep ==
  ASSUME PushModes \subseteq {TRUE}, Mortal = {}, LockedInv, [Next]_vars PROVE LockedInv'
<1>1. TypeOK' /\ LockBalanced'
  <2>1. TypeOK /\ LockBalanced /\ PushingMessage
    BY DEF LockedInv, PushingMessage, PushInv
  <2> QED BY <2>1, TypesStep
<1>2. ThreadsOK' /\ HalvesOK'
  <2>1. CASE UNCHANGED vars
    <3>1. \A t \in Threads : Same(t)
      BY <2>1 DEF vars, Same
    <3>2. UNCHANGED <<count, end, mem, stack>>
      BY <2>1 DEF vars
    <3>3. ThreadsOK'
      BY <3>1, <3>2, OthersKept DEF LockedInv, ThreadsOK
    <3>4. HalvesOK'
      BY <3>1, <3>2, HalvesKept DEF LockedInv, HalvesOK, Same, PushedEnd, PoppedEnd
    <3> QED BY <3>3, <3>4
  <2>2. ASSUME NEW t \in Threads, Continue(t) PROVE ThreadsOK' /\ HalvesOK'
    BY <2>2, LockSteps, PushLocateStep, PushWriteStep, PushLoadSteps,
       PushEndStoreStep, PushCountStoreStep, PopReadStep, NoFault, PopLoadSteps,
       PopEndStoreStep, PopCountStoreStep DEF Continue
  <2>3. ASSUME NEW t \in Threads,
               ManualLock(t) \/ ManualUnlock(t) \/ Wait(t) \/ PopEmpty(t)
                 \/ (\E h \in Halves : Query(t, h))
        PROVE  ThreadsOK' /\ HalvesOK'
    BY <2>3, LockSteps
  <2>4. ASSUME NEW t \in Threads, NEW m \in Messages, NEW b \in PushModes,
               PushCall(t, m, b)
        PROVE  ThreadsOK' /\ HalvesOK'
    BY <2>4, PushCallStep
  <2>5. ASSUME NEW t \in Threads, PopLocate(t) PROVE ThreadsOK' /\ HalvesOK'
    BY <2>5, <1>1, PopLocateStep
  <2> QED BY <2>1, <2>2, <2>3, <2>4, <2>5 DEF Next, Call, PopCall
<1> QED BY <1>1, <1>2 DEF LockedInv, ThreadsOK, HalvesOK

\* When every push is made under ManualLock and nobody is killed, the inductive
\* invariant holds: every half's frames and header are those of its messages, but for
\* the one update in progress, whose place and length the thread that holds m_Mutex has.
THEOREM LockedAlways ==
  ASSUME PushModes \subseteq {TRUE}, Mortal = {} PROVE Spec => []LockedInv
<1>1. Init => LockedInv
  BY LockedInit
<1>2. LockedInv /\ [Next]_vars => LockedInv'
  BY LockedStep
<1> QED BY <1>1, <1>2, PTL DEF Spec

\* When every push is made under ManualLock, the accesses of PushMessage and
\* PopMessage to the header and the frames (lines 168-184 and 199-218) exclude
\* each other.
THEOREM LockedSynchronized ==
  ASSUME PushModes \subseteq {TRUE}, Mortal = {} PROVE Spec => []Synchronized
<1>1. LockedInv => Synchronized
  <2> SUFFICES ASSUME LockedInv, NEW h \in Halves, NEW t \in Threads, NEW u \in Threads,
                      Accesses(t, h), Accesses(u, h)
               PROVE  t = u
    BY DEF Synchronized
  <2>1. (manual[t] \/ InGuard(t)) /\ (manual[u] \/ InGuard(u))
    BY DEF Accesses, LockedInv, PushInv, InGuard
  <2> QED BY <2>1, Exclusive DEF LockedInv
<1> QED BY <1>1, LockedAlways, PTL

\* When every push is made under ManualLock, no update of a header is lost:
\* count and end offset always describe the messages in the half.
THEOREM LockedHeader ==
  ASSUME PushModes \subseteq {TRUE}, Mortal = {} PROVE Spec => []QuiescentHeader
<1>1. LockedInv => QuiescentHeader
  <2> SUFFICES ASSUME LockedInv, NEW h \in Halves, \A t \in Threads : ~Accesses(t, h)
               PROVE  count[h] = Len(stack[h]) /\ end[h] = Promise!Fill(stack[h])
    BY DEF QuiescentHeader
  <2>1. \A t \in Threads : ~(PushedEnd(t) /\ Out(t) = h) /\ ~(PoppedEnd(t) /\ In(t) = h)
    BY DEF Accesses, PushedEnd, PoppedEnd, Updating, Popping
  <2> QED BY <2>1 DEF LockedInv, HalfInv, Fill
<1> QED BY <1>1, LockedAlways, PTL

\* When every push is made under ManualLock, no message is overwritten before it
\* is popped, and none is written beyond its half.
THEOREM LockedFrames ==
  ASSUME PushModes \subseteq {TRUE}, Mortal = {} PROVE Spec => []FramesIntact
<1>1. LockedInv => FramesIntact
  BY DEF LockedInv, HalfInv, Stacked, FramesIntact
<1> QED BY <1>1, LockedAlways, PTL

(***************************************************************************)
(* Refinement.                                                             *)
(***************************************************************************)
LEMMA RefineInit == Init => Promise!Init
BY DEF Init, Promise!Init, Halves, Promise!Halves

LEMMA RefinePush ==
  ASSUME LockedInv, NEW t \in Threads, PushCountStore(t)
  PROVE  Promise!Push(t, msg[t])
<1>1. pc[t] = "pushCountStore"
  BY DEF PushCountStore, Goto
<1>2. Fits(Promise!Fill(stack[Out(t)]), msg[t])
  BY <1>1 DEF LockedInv, PushInv, Updating, Fill
<1> QED BY <1>2, PromiseLayout DEF PushCountStore, Returns, Promise!Push, Promise!Returns

LEMMA RefineRefuse ==
  ASSUME LockedInv, NEW t \in Threads, PushRefuse(t)
  PROVE  Promise!Refuse(t, msg[t])
<1>1. pc[t] = "push" /\ ~Fits(end[Out(t)], msg[t])
  BY DEF PushRefuse, Goto
<1>2. manual[t]
  BY <1>1 DEF LockedInv, PushInv
<1>3. end[Out(t)] = Promise!Fill(stack[Out(t)])
  BY <1>1, <1>2, EndIsFill, HalvesOf DEF PushedEnd, PoppedEnd, Fill
<1> QED BY <1>1, <1>3, PromiseLayout
           DEF PushRefuse, Returns, Promise!Refuse, Promise!Returns

LEMMA RefinePop ==
  ASSUME LockedInv, NEW t \in Threads, PopCountStore(t)
  PROVE  Promise!Pop(t)
<1>1. pc[t] = "popCountStore"
  BY DEF PopCountStore, Goto
<1>2. stack[In(t)] # <<>> /\ msg[t] = stack[In(t)][Len(stack[In(t)])].msg
  BY <1>1 DEF LockedInv, PopInv, Popping, Top
<1> QED BY <1>2, PromiseLayout DEF PopCountStore, Returns, Promise!Pop, Promise!Returns

LEMMA RefineEmpty ==
  ASSUME LockedInv, NEW t \in Threads, PopEmpty(t)
  PROVE  Promise!PopNothing(t)
<1>1. count[In(t)] = Len(stack[In(t)]) /\ stack[In(t)] \in Seq(Promise!Entries)
  BY HalvesOf DEF LockedInv, HalfInv, TypeOK, DataOK
<1>2. stack[In(t)] = <<>>
  BY <1>1, EmptySeq DEF PopEmpty
<1> QED BY <1>2, PromiseLayout
           DEF PopEmpty, Returns, Promise!PopNothing, Promise!Returns

LEMMA RefineCount ==
  ASSUME LockedInv, NEW t \in Threads, NEW h \in Halves, Query(t, h)
  PROVE  Promise!Count(t, h)
<1>1. count[h] = Len(stack[h])
  BY DEF LockedInv, HalfInv
<1> QED BY <1>1 DEF Query, Returns, Promise!Count, Promise!Returns

LEMMA RefineStep ==
  ASSUME Mortal = {}, LockedInv, [Next]_vars
  PROVE  [Promise!Next]_(Promise!svars)
<1>1. CASE UNCHANGED <<stack, result>>
  BY <1>1 DEF Promise!svars
<1>2. ASSUME NEW t \in Threads, PushCountStore(t) PROVE Promise!Next
  <2>1. msg[t] \in Messages
    BY <1>2 DEF PushCountStore, Goto, LockedInv, PushInv, Updating
  <2> QED BY <1>2, <2>1, RefinePush DEF Promise!Next
<1>3. ASSUME NEW t \in Threads, PushRefuse(t) PROVE Promise!Next
  <2>1. msg[t] \in Messages
    BY <1>3 DEF PushRefuse, Goto, LockedInv, PushInv
  <2> QED BY <1>3, <2>1, RefineRefuse DEF Promise!Next
<1>4. ASSUME NEW t \in Threads, PopCountStore(t) PROVE Promise!Next
  BY <1>4, RefinePop DEF Promise!Next
<1>5. ASSUME NEW t \in Threads, PopEmpty(t) PROVE Promise!Next
  BY <1>5, RefineEmpty DEF Promise!Next
<1>6. ASSUME NEW t \in Threads, NEW h \in Halves, Query(t, h) PROVE Promise!Next
  BY <1>6, RefineCount DEF Promise!Next, Promise!Halves, Halves
<1>7. ASSUME NEW t \in Threads,
             \/ PushLocate(t) \/ PushWrite(t) \/ PushEndLoad(t) \/ PushEndStore(t)
             \/ PushCountLoad(t) \/ PushSignal(t) \/ PopLocate(t) \/ PopRead(t)
             \/ PopFault(t) \/ PopEndLoad(t) \/ PopEndStore(t) \/ PopCountLoad(t)
      PROVE  UNCHANGED <<stack, result>>
  BY <1>7 DEF PushLocate, PushWrite, PushEndLoad, PushEndStore, PushCountLoad,
              PushSignal, PopLocate, PopRead, PopFault, PopEndLoad, PopEndStore,
              PopCountLoad
<1>8. ASSUME NEW t \in Threads,
             ManualLock(t) \/ ManualUnlock(t) \/ Unlock(t) \/ Wait(t) \/ Reset(t)
      PROVE  UNCHANGED <<stack, result>>
  BY <1>8 DEF ManualLock, ManualUnlock, Unlock, Wait, Reset
<1>9. ASSUME NEW t \in Threads, NEW m \in Messages, NEW b \in PushModes,
             PushCall(t, m, b)
      PROVE  UNCHANGED <<stack, result>>
  BY <1>9 DEF PushCall
<1>10. CASE UNCHANGED vars
  BY <1>10, <1>1 DEF vars
<1> QED BY <1>1, <1>2, <1>3, <1>4, <1>5, <1>6, <1>7, <1>8, <1>9, <1>10
           DEF Next, Continue, Call, PopCall

\* When every push is made under ManualLock, the queue is the pair of atomic
\* bounded stacks its callers take it for, whatever the threads and their
\* interleaving.
THEOREM LockedRefinement ==
  ASSUME PushModes \subseteq {TRUE}, Mortal = {} PROVE Spec => AbstractSpec
<1>1. Init => Promise!Init
  BY RefineInit
<1>2. LockedInv /\ [Next]_vars => [Promise!Next]_(Promise!svars)
  BY RefineStep
<1> QED BY <1>1, <1>2, LockedAlways, PTL DEF Spec, Promise!Spec, AbstractSpec

(***************************************************************************)
(* A half whose readers survive, whatever happens to its writers.          *)
(***************************************************************************)
SameAll(u) == Same(u) /\ result'[u] = result[u]

\* No other thread is inside a push or a pop of half h when t holds m_Mutex.
LEMMA AloneInHalf ==
  ASSUME LockBalanced, NEW h \in Halves, NEW M, Sound(h, M),
         NEW t \in Threads, manual[t] \/ InGuard(t), NEW u \in Threads, u # t
  PROVE  /\ Out(u) = h => pc[u] \notin Updating \cup {"push"} /\ ~PushedEnd(u)
         /\ pc[u] \notin Popping /\ ~PoppedEnd(u)
<1>1. ~manual[u] /\ ~InGuard(u)
  BY Exclusive
<1>2. Out(u) = h => pc[u] \notin Updating \cup {"push"}
  BY <1>1 DEF Sound, SoundThread, SoundPush
<1>3. pc[u] \notin Popping
  BY <1>1 DEF InGuard
<1> QED BY <1>2, <1>3 DEF PushedEnd, PoppedEnd, Updating, Popping

\* What a step that leaves half h alone keeps of another thread's part.
LEMMA OthersSound ==
  ASSUME NEW h \in Halves, NEW M, NEW u \in Threads, SoundThread(u, h, M), SameAll(u),
         count'[h] = count[h], end'[h] = end[h], mem'[h] = mem[h]
  PROVE  SoundThread(u, h, M)'
<1>1. ASSUME Out(u) = h PROVE SoundPush(u, M)'
  <2>1. Out(u)' = h /\ SoundPush(u, M)
    BY <1>1 DEF Out, SoundThread
  <2>2. /\ end'[Out(u)] = end[Out(u)] /\ count'[Out(u)] = count[Out(u)]
        /\ mem'[Out(u)] = mem[Out(u)] /\ Out(u)' = Out(u)
    BY <1>1 DEF Out
  <2> QED BY <2>1, <2>2 DEF SoundPush, SameAll, Same
<1>2. ASSUME In(u) = h PROVE SoundPop(u, M)'
  <2>1. SoundPop(u, M)
    BY <1>2 DEF SoundThread
  <2>2. /\ end'[In(u)] = end[In(u)] /\ count'[In(u)] = count[In(u)]
        /\ mem'[In(u)] = mem[In(u)] /\ In(u)' = In(u)
    BY <1>2 DEF In
  <2> QED BY <2>1, <2>2 DEF SoundPop, SameAll, Same
<1>3. Out(u)' = Out(u) /\ In(u)' = In(u)
  BY DEF Out, In
<1> QED BY <1>1, <1>2, <1>3 DEF SoundThread

\* A step of thread t that leaves half h alone keeps its soundness when it keeps t's part
\* and does not take t into or out of the two stores.
LEMMA PrivateSound ==
  ASSUME TypeOK, NEW h \in Halves, NEW M, Sound(h, M), NEW t \in Threads,
         count'[h] = count[h], end'[h] = end[h], mem'[h] = mem[h],
         \A u \in Threads : u # t => SameAll(u),
         PushedEnd(t)' /\ Out(t) = h => PushedEnd(t),
         PoppedEnd(t) /\ In(t) = h => PoppedEnd(t)',
         SoundThread(t, h, M)'
  PROVE  Sound(h, M)'
<1>1. ASSUME NEW u \in Threads PROVE SoundThread(u, h, M)'
  BY OthersSound DEF Sound
<1>2. SoundHalf(h, M)'
  <2>1. PICK s \in Seq(Promise!Entries) :
          /\ Stacked(s, mem[h]) /\ end[h] = Promise!Fill(s)
          /\ \A i \in 1 .. Len(s) : s[i].msg \in M
          /\ count[h] <= Len(s) + (IF \E u \in Threads : PoppedEnd(u) /\ In(u) = h
                                   THEN 1 ELSE 0)
          /\ (\E u \in Threads : PushedEnd(u) /\ Out(u) = h) => count[h] < Len(s)
    BY DEF Sound, SoundHalf
  <2>2. /\ (\E u \in Threads : PoppedEnd(u) /\ In(u) = h)
             => \E u \in Threads : PoppedEnd(u)' /\ In(u) = h
        /\ (\E u \in Threads : PushedEnd(u)' /\ Out(u) = h)
             => \E u \in Threads : PushedEnd(u) /\ Out(u) = h
    BY DEF SameAll, Same, PushedEnd, PoppedEnd
  <2>3. Stacked(s, mem'[h]) /\ end'[h] = Promise!Fill(s)
    BY <2>1
  <2>4. count'[h] <= Len(s) + (IF \E u \in Threads : PoppedEnd(u)' /\ In(u) = h
                               THEN 1 ELSE 0)
    <3>1. Len(s) \in Nat /\ count[h] \in Nat /\ count'[h] = count[h]
      BY LenProperties DEF TypeOK, DataOK, DWords
    <3> QED BY <2>1, <2>2, <3>1
  <2>5. (\E u \in Threads : PushedEnd(u)' /\ Out(u) = h) => count'[h] < Len(s)
    BY <2>1, <2>2
  <2> QED BY <2>1, <2>3, <2>4, <2>5 DEF SoundHalf, Stacked, Out, In
<1> QED BY <1>1, <1>2 DEF Sound
\* A step of thread t, which holds m_Mutex, on half h itself: s are the frames after it.
LEMMA SharedSound ==
  ASSUME LockBalanced, NEW h \in Halves, NEW M, Sound(h, M),
         NEW t \in Threads, manual[t] \/ InGuard(t),
         \A u \in Threads : u # t => SameAll(u),
         NEW s \in Seq(Promise!Entries), Stacked(s, mem'[h]), end'[h] = Promise!Fill(s),
         \A i \in 1 .. Len(s) : s[i].msg \in M,
         count'[h] <= Len(s) + (IF PoppedEnd(t)' /\ In(t) = h THEN 1 ELSE 0),
         PushedEnd(t)' /\ Out(t) = h => count'[h] < Len(s),
         SoundThread(t, h, M)'
  PROVE  Sound(h, M)'
<1>1. ASSUME NEW u \in Threads, u # t
      PROVE  /\ Out(u) = h => pc'[u] \notin Updating \cup {"push"} /\ ~PushedEnd(u)'
             /\ pc'[u] \notin Popping /\ ~PoppedEnd(u)'
  BY <1>1, AloneInHalf DEF SameAll, Same, PushedEnd, PoppedEnd
<1>2. ASSUME NEW u \in Threads, u # t PROVE SoundThread(u, h, M)'
  <2>1. Out(u)' = Out(u) /\ In(u)' = In(u)
    BY DEF Out, In
  <2>2. Out(u) = h => SoundPush(u, M)'
    BY <1>1, <1>2 DEF SoundPush, Updating
  <2>3. In(u) = h => SoundPop(u, M)'
    <3>1. In(u) = h => SoundPop(u, M)
      BY DEF Sound, SoundThread
    <3> QED BY <1>1, <1>2, <3>1 DEF SoundPop, Popping, SameAll, Same
  <2> QED BY <2>1, <2>2, <2>3 DEF SoundThread
<1>3. SoundHalf(h, M)'
  <2>1. (\E u \in Threads : PoppedEnd(u)' /\ In(u) = h) <=> PoppedEnd(t)' /\ In(t) = h
    BY <1>1
  <2>2. (\E u \in Threads : PushedEnd(u)' /\ Out(u) = h) => PushedEnd(t)' /\ Out(t) = h
    BY <1>1
  <2>3. count'[h] <= Len(s) + (IF \E u \in Threads : PoppedEnd(u)' /\ In(u) = h
                               THEN 1 ELSE 0)
    BY <2>1
  <2> QED BY <2>2, <2>3 DEF SoundHalf, Stacked, Out, In
<1> QED BY <1>2, <1>3 DEF Sound

\* The frames of a sound half, when no other thread is between its two stores.
LEMMA SoundStack ==
  ASSUME LockBalanced, NEW h \in Halves, NEW M, Sound(h, M), TypeOK,
         NEW t \in Threads, manual[t] \/ InGuard(t)
  PROVE  \E s \in Seq(Promise!Entries) :
           /\ Stacked(s, mem[h]) /\ end[h] = Promise!Fill(s)
           /\ \A i \in 1 .. Len(s) : s[i].msg \in M
           /\ Len(s) \in Nat /\ count[h] \in Nat
           /\ ~(PoppedEnd(t) /\ In(t) = h) => count[h] <= Len(s)
           /\ count[h] <= Len(s) + 1
           /\ PushedEnd(t) /\ Out(t) = h => count[h] < Len(s)
<1>1. \A u \in Threads : u # t =>
        (Out(u) = h => ~PushedEnd(u)) /\ ~PoppedEnd(u)
  BY AloneInHalf
<1>2. PICK s \in Seq(Promise!Entries) :
        /\ Stacked(s, mem[h]) /\ end[h] = Promise!Fill(s)
        /\ \A i \in 1 .. Len(s) : s[i].msg \in M
        /\ count[h] <= Len(s) + (IF \E u \in Threads : PoppedEnd(u) /\ In(u) = h
                                 THEN 1 ELSE 0)
        /\ (\E u \in Threads : PushedEnd(u) /\ Out(u) = h) => count[h] < Len(s)
  BY DEF Sound, SoundHalf
<1>3. Len(s) \in Nat /\ count[h] \in Nat
  BY LenProperties DEF TypeOK, DataOK, DWords
<1>4. ~(PoppedEnd(t) /\ In(t) = h) => ~ \E u \in Threads : PoppedEnd(u) /\ In(u) = h
  BY <1>1
<1> QED BY <1>2, <1>3, <1>4
\* Locks, signals, queries, and calls that change nothing.
LEMMA SoundLockSteps ==
  ASSUME TypeOK, NEW h \in Halves, NEW M, Sound(h, M), NEW t \in Threads,
         ManualLock(t) \/ ManualUnlock(t) \/ Unlock(t) \/ Wait(t) \/ Reset(t)
           \/ PushSignal(t) \/ PushRefuse(t) \/ PopEmpty(t)
           \/ (\E k \in Halves : Query(t, k))
  PROVE  Sound(h, M)'
<1>1. /\ UNCHANGED <<count, end, mem>>
      /\ \A u \in Threads : u # t => SameAll(u)
      /\ pc[t] \in {"idle", "push", "pushSignal", "unlock", "waited"}
      /\ pc'[t] \in {"idle", "unlock", "waited"}
      /\ result'[t] = result[t] \/ result'[t].op # "pop"
  BY DEF ManualLock, ManualUnlock, Unlock, Wait, Reset, PushSignal, PushRefuse,
         PopEmpty, Query, Goto, Returns, header, local, SameAll, Same, TypeOK, DataOK
<1>2. ~PushedEnd(t)' /\ ~PoppedEnd(t)
  BY <1>1 DEF PushedEnd, PoppedEnd
<1>3. SoundThread(t, h, M)'
  <2>1. In(t) = h => SoundPop(t, M)
    BY DEF Sound, SoundThread
  <2>2. Out(t)' = Out(t) /\ In(t)' = In(t)
    BY DEF Out, In
  <2> QED BY <1>1, <2>1, <2>2 DEF SoundThread, SoundPush, SoundPop, Updating, Popping
<1> QED BY <1>1, <1>2, <1>3, PrivateSound

\* A call of PushMessage under ManualLock, with a message of M if h is where it goes.
LEMMA SoundPushCall ==
  ASSUME TypeOK, NEW h \in Halves, NEW M, Sound(h, M), NEW t \in Threads, NEW m, NEW b,
         PushCall(t, m, b), Out(t) = h => m \in M /\ b
  PROVE  Sound(h, M)'
<1>1. /\ UNCHANGED <<count, end, mem>>
      /\ \A u \in Threads : u # t => SameAll(u)
      /\ pc[t] = "idle" /\ pc'[t] = "push" /\ result'[t] = result[t] /\ msg'[t] = m
      /\ b => manual'[t]
  BY DEF PushCall, Goto, header, SameAll, Same, TypeOK, DataOK
<1>2. ~PushedEnd(t)' /\ ~PoppedEnd(t)
  BY <1>1 DEF PushedEnd, PoppedEnd
<1>3. SoundThread(t, h, M)'
  <2>1. In(t) = h => SoundPop(t, M)
    BY DEF Sound, SoundThread
  <2>2. Out(t)' = Out(t) /\ In(t)' = In(t)
    BY DEF Out, In
  <2> QED BY <1>1, <2>1, <2>2 DEF SoundThread, SoundPush, SoundPop, Updating, Popping
<1> QED BY <1>1, <1>2, <1>3, PrivateSound

\* The steps of a push that read the header.
LEMMA SoundPushLoads ==
  ASSUME TypeOK, NEW h \in Halves, NEW M, Sound(h, M), NEW t \in Threads,
         PushLocate(t) \/ PushEndLoad(t) \/ PushCountLoad(t)
  PROVE  Sound(h, M)'
<1>1. /\ UNCHANGED <<count, end, mem>>
      /\ \A u \in Threads : u # t => SameAll(u)
      /\ msg'[t] = msg[t] /\ manual'[t] = manual[t] /\ result'[t] = result[t]
      /\ \/ /\ pc[t] = "push" /\ pc'[t] = "pushWrite" /\ at'[t] = end[Out(t)]
            /\ Fits(end[Out(t)], msg[t])
         \/ /\ pc[t] = "pushEndLoad" /\ pc'[t] = "pushEndStore" /\ reg'[t] = end[Out(t)]
         \/ /\ pc[t] = "pushCountLoad" /\ pc'[t] = "pushCountStore"
            /\ reg'[t] = count[Out(t)]
  BY DEF PushLocate, PushEndLoad, PushCountLoad, Goto, header, SameAll, Same, TypeOK, DataOK
<1>2. ~PoppedEnd(t) /\ (PushedEnd(t)' => PushedEnd(t))
  BY <1>1 DEF PushedEnd, PoppedEnd
<1>3. SoundThread(t, h, M)'
  <2>1. Out(t)' = Out(t) /\ In(t)' = In(t)
    BY DEF Out, In
  <2>2. Out(t) = h => SoundPush(t, M)'
    <3>1. Out(t) = h => SoundPush(t, M)
      BY DEF Sound, SoundThread
    <3> QED BY <1>1, <2>1, <3>1 DEF SoundPush, Updating
  <2>3. In(t) = h => SoundPop(t, M)'
    <3>1. In(t) = h => SoundPop(t, M)
      BY DEF Sound, SoundThread
    <3> QED BY <1>1, <2>1, <3>1 DEF SoundPop, Popping
  <2> QED BY <2>1, <2>2, <2>3 DEF SoundThread
<1> QED BY <1>1, <1>2, <1>3, PrivateSound

\* Reading the header or the frame on top in a pop from another half.
LEMMA SoundPopElsewhere ==
  ASSUME TypeOK, NEW h \in Halves, NEW M, Sound(h, M), NEW t \in Threads, In(t) # h,
         PopLocate(t) \/ PopRead(t) \/ PopEndLoad(t) \/ PopEndStore(t) \/ PopCountLoad(t)
           \/ PopCountStore(t)
  PROVE  Sound(h, M)'
<1>1. /\ count'[h] = count[h] /\ end'[h] = end[h] /\ mem'[h] = mem[h]
      /\ \A u \in Threads : u # t => SameAll(u)
      /\ pc'[t] \in Popping \cup {"unlock"}
  BY HalvesOf DEF PopLocate, PopRead, PopEndLoad, PopEndStore, PopCountLoad, PopCountStore,
     Goto, Returns, header, local, SameAll, Same, TypeOK, DataOK, Popping
<1>2. ~PushedEnd(t)'
  BY <1>1 DEF PushedEnd, Popping
<1>3. SoundThread(t, h, M)'
  <2>1. Out(t)' = Out(t) /\ In(t)' = In(t)
    BY DEF Out, In
  <2> QED BY <1>1, <2>1 DEF SoundThread, SoundPush, Updating, Popping
<1> QED BY <1>1, <1>2, <1>3, PrivateSound

LEMMA SoundPushElsewhere ==
  ASSUME TypeOK, NEW h \in Halves, NEW M, Sound(h, M), NEW t \in Threads, Out(t) # h,
         PushWrite(t) \/ PushEndStore(t) \/ PushCountStore(t)
  PROVE  Sound(h, M)'
<1>1. /\ count'[h] = count[h] /\ end'[h] = end[h] /\ mem'[h] = mem[h]
      /\ \A u \in Threads : u # t => SameAll(u)
      /\ pc[t] \in Updating /\ pc'[t] \in Updating \cup {"pushSignal"}
      /\ result'[t] = result[t] \/ result'[t].op # "pop"
  BY HalvesOf DEF PushWrite, PushEndStore, PushCountStore,
     Goto, Returns, header, local, SameAll, Same, TypeOK, DataOK, Updating
<1>2. ~PoppedEnd(t)
  BY <1>1 DEF PoppedEnd, Updating
<1>3. SoundThread(t, h, M)'
  <2>1. Out(t)' = Out(t) /\ In(t)' = In(t)
    BY DEF Out, In
  <2>2. In(t) = h => SoundPop(t, M)
    BY DEF Sound, SoundThread
  <2> QED BY <1>1, <2>1, <2>2 DEF SoundThread, SoundPop, Updating, Popping
<1> QED BY <1>1, <1>2, <1>3, PrivateSound
\* The frame that a push writes above those of half h, and the two stores after it.
LEMMA SoundPushWrite ==
  ASSUME TypeOK, LockBalanced, NEW h \in Halves, NEW M \in SUBSET Messages, Sound(h, M),
         NEW t \in Threads, Out(t) = h, PushWrite(t)
  PROVE  Sound(h, M)'
<1>1. /\ UNCHANGED <<count, end>>
      /\ \A u \in Threads : u # t => SameAll(u)
      /\ pc[t] = "pushWrite" /\ pc'[t] = "pushEndLoad" /\ msg'[t] = msg[t]
      /\ manual'[t] = manual[t]
      /\ mem'[h] = WriteFrame(mem[h], at[t], msg[t])
  BY DEF PushWrite, Goto, header, local, SameAll, Same, TypeOK, DataOK
<1>2. /\ manual[t] /\ msg[t] \in M /\ at[t] = end[h] /\ Fits(end[h], msg[t])
      /\ ~PushedEnd(t)' /\ ~PoppedEnd(t) /\ In(t) # h
  BY <1>1, HalvesOf
     DEF Sound, SoundThread, SoundPush, Updating, PushedEnd, PoppedEnd
<1>3. PICK s \in Seq(Promise!Entries) :
        /\ Stacked(s, mem[h]) /\ end[h] = Promise!Fill(s)
        /\ \A i \in 1 .. Len(s) : s[i].msg \in M
        /\ Len(s) \in Nat /\ count[h] <= Len(s)
  BY <1>2, SoundStack
<1>4. Stacked(s, mem'[h])
  BY <1>1, <1>2, <1>3, StackedWrite
<1>5. HoldsFrame(mem'[h], end'[h] + Frame(msg[t]), msg[t])
  <2>1. Promise!Fill(s) \in Nat
    BY StackTypes
  <2> QED BY <1>1, <1>2, <1>3, <2>1, FrameWritten
<1>6. SoundThread(t, h, M)'
  <2>1. Out(t)' = h /\ In(t)' # h
    BY <1>2 DEF Out, In
  <2> QED BY <1>1, <1>2, <1>5, <2>1 DEF SoundThread, SoundPush, Updating
<1>7. end'[h] = Promise!Fill(s) /\ count'[h] <= Len(s) + (IF PoppedEnd(t)' /\ In(t) = h
                                                          THEN 1 ELSE 0)
  BY <1>1, <1>2, <1>3
<1> QED BY <1>1, <1>2, <1>3, <1>4, <1>6, <1>7, SharedSound

LEMMA SoundPushEndStore ==
  ASSUME TypeOK, LockBalanced, NEW h \in Halves, NEW M \in SUBSET Messages, Sound(h, M),
         NEW t \in Threads, Out(t) = h, PushEndStore(t)
  PROVE  Sound(h, M)'
<1>1. /\ UNCHANGED <<count, mem>>
      /\ \A u \in Threads : u # t => SameAll(u)
      /\ pc[t] = "pushEndStore" /\ pc'[t] = "pushCountLoad" /\ msg'[t] = msg[t]
      /\ manual'[t] = manual[t]
      /\ end'[h] = (reg[t] + Frame(msg[t])) % DWordRange
  BY DEF PushEndStore, Goto, local, SameAll, Same, TypeOK, DataOK
<1>2. /\ manual[t] /\ msg[t] \in M /\ reg[t] = end[h] /\ Fits(end[h], msg[t])
      /\ HoldsFrame(mem[h], end[h] + Frame(msg[t]), msg[t])
      /\ ~PoppedEnd(t) /\ In(t) # h
  BY <1>1, HalvesOf
     DEF Sound, SoundThread, SoundPush, Updating, PushedEnd, PoppedEnd
<1>3. PICK s \in Seq(Promise!Entries) :
        /\ Stacked(s, mem[h]) /\ end[h] = Promise!Fill(s)
        /\ \A i \in 1 .. Len(s) : s[i].msg \in M
        /\ Len(s) \in Nat /\ count[h] \in Nat /\ count[h] <= Len(s)
  BY <1>2, SoundStack
<1> DEFINE p == Promise!Pushed(s, msg[t])
<1>4. msg[t] \in Messages
  BY <1>2
<1>5. Stacked(p, mem[h]) /\ p \in Seq(Promise!Entries)
  BY <1>2, <1>3, <1>4, StackedPush, StackTypes
<1>6. /\ Len(p) = Len(s) + 1 /\ \A i \in 1 .. Len(s) : p[i] = s[i]
      /\ p[Len(s) + 1].msg = msg[t]
      /\ Promise!Fill(p) = Promise!Fill(s) + Frame(msg[t])
  <2>1. /\ Len(p) = Len(s) + 1 /\ \A i \in 1 .. Len(s) : p[i] = s[i]
        /\ p[Len(s) + 1] = [msg |-> msg[t], end |-> Promise!Fill(s) + Frame(msg[t])]
        /\ Promise!Fill(p) = [msg |-> msg[t], end |-> Promise!Fill(s) + Frame(msg[t])].end
    BY <1>4, PushedFacts
  <2> QED BY <2>1
<1>7. end'[h] = Promise!Fill(p)
  <2>1. Promise!Fill(p) \in DWords
    BY <1>5, StackedSmall
  <2> QED BY <1>1, <1>2, <1>3, <1>6, <2>1, ModExact
<1> HIDE DEF p
<1>8. \A i \in 1 .. Len(p) : p[i].msg \in M
  <2> TAKE i \in 1 .. Len(p)
  <2>1. i \in 1 .. Len(s) \/ i = Len(s) + 1
    BY <1>3, <1>6
  <2> QED BY <1>2, <1>3, <1>6, <2>1
<1>9. count'[h] < Len(p) /\ Len(p) \in Nat /\ count'[h] \in Nat
  BY <1>1, <1>3, <1>6
<1>10. SoundThread(t, h, M)'
  <2>1. Out(t)' = h /\ In(t)' # h
    BY <1>2 DEF Out, In
  <2> QED BY <1>1, <1>2, <2>1 DEF SoundThread, SoundPush, Updating
<1>11. ~PoppedEnd(t)'
  BY <1>1 DEF PoppedEnd
<1>12. count'[h] <= Len(p) + (IF PoppedEnd(t)' /\ In(t) = h THEN 1 ELSE 0)
  BY <1>9, <1>11
<1>13. Stacked(p, mem'[h])
  BY <1>1, <1>5
<1> QED BY <1>1, <1>2, <1>5, <1>7, <1>8, <1>9, <1>10, <1>12, <1>13, SharedSound

LEMMA SoundPushCountStore ==
  ASSUME TypeOK, LockBalanced, NEW h \in Halves, NEW M \in SUBSET Messages, Sound(h, M),
         NEW t \in Threads, Out(t) = h, PushCountStore(t)
  PROVE  Sound(h, M)'
<1>1. /\ UNCHANGED <<end, mem>>
      /\ \A u \in Threads : u # t => SameAll(u)
      /\ pc[t] = "pushCountStore" /\ pc'[t] = "pushSignal" /\ manual'[t] = manual[t]
      /\ count'[h] = (reg[t] + 1) % DWordRange
  BY DEF PushCountStore, Returns, Goto, SameAll, Same, TypeOK, DataOK
<1>2. /\ manual[t] /\ reg[t] = count[h] /\ In(t) # h
      /\ PushedEnd(t) /\ ~PushedEnd(t)' /\ ~PoppedEnd(t) /\ ~PoppedEnd(t)'
  BY <1>1, HalvesOf
     DEF Sound, SoundThread, SoundPush, Updating, PushedEnd, PoppedEnd
<1>3. PICK s \in Seq(Promise!Entries) :
        /\ Stacked(s, mem[h]) /\ end[h] = Promise!Fill(s)
        /\ \A i \in 1 .. Len(s) : s[i].msg \in M
        /\ Len(s) \in Nat /\ count[h] \in Nat /\ count[h] < Len(s)
  BY <1>2, SoundStack
<1>4. count'[h] = count[h] + 1
  <2>1. Len(s) \in DWords
    BY <1>3, StackedSmall
  <2>2. count[h] + 1 \in DWords
    BY <1>3, <2>1, QueueAssumption DEF DWords
  <2> QED BY <1>1, <1>2, <2>2, ModExact
<1>5. SoundThread(t, h, M)'
  <2>1. Out(t)' = h /\ In(t)' # h
    BY <1>2 DEF Out, In
  <2> QED BY <1>1, <2>1 DEF SoundThread, SoundPush, Updating
<1>6. count'[h] <= Len(s) + (IF PoppedEnd(t)' /\ In(t) = h THEN 1 ELSE 0)
  BY <1>2, <1>3, <1>4
<1>7. Stacked(s, mem'[h]) /\ end'[h] = Promise!Fill(s)
  BY <1>1, <1>3
<1> QED BY <1>1, <1>2, <1>3, <1>5, <1>6, <1>7, SharedSound
\* A pop from half h by a reader, which holds m_Mutex from its first access to its last.
LEMMA SoundPopLocate ==
  ASSUME TypeOK, NEW h \in Halves, NEW M, Sound(h, M), NEW t \in Threads, In(t) = h,
         PopLocate(t)
  PROVE  Sound(h, M)'
<1>1. /\ UNCHANGED <<count, end, mem>>
      /\ \A u \in Threads : u # t => SameAll(u)
      /\ pc[t] = "idle" /\ pc'[t] = "popRead" /\ at'[t] = end[h] /\ count[h] >= 1
      /\ result'[t] = result[t]
  BY DEF PopLocate, Goto, header, SameAll, Same, TypeOK, DataOK
<1>2. ~PushedEnd(t)' /\ ~PoppedEnd(t)
  BY <1>1 DEF PushedEnd, PoppedEnd
<1>3. SoundThread(t, h, M)'
  <2>1. Out(t)' # h /\ In(t)' = h
    BY HalvesOf DEF Out, In
  <2>2. SoundPop(t, M)
    BY DEF Sound, SoundThread
  <2> QED BY <1>1, <2>1, <2>2 DEF SoundThread, SoundPop, Popping
<1> QED BY <1>1, <1>2, <1>3, PrivateSound

\* Below the end offset of a sound half that promises a message lies a whole frame.
LEMMA SoundTop ==
  ASSUME TypeOK, LockBalanced, NEW h \in Halves, NEW M \in SUBSET Messages, Sound(h, M),
         NEW t \in Threads, In(t) = h, pc[t] = "popRead"
  PROVE  \E m \in M : /\ HoldsFrame(mem[h], at[t], m) /\ at[t] = end[h]
                      /\ MessageAt(h, at[t]) = m
                      /\ SizesAt(h, at[t]) = {Size[m]} /\ Size[m] <= at[t]
<1>1. InGuard(t) /\ count[h] >= 1 /\ at[t] = end[h] /\ ~PoppedEnd(t)
  BY DEF Sound, SoundThread, SoundPop, Popping, InGuard, PoppedEnd
<1>2. PICK s \in Seq(Promise!Entries) :
        /\ Stacked(s, mem[h]) /\ end[h] = Promise!Fill(s)
        /\ \A i \in 1 .. Len(s) : s[i].msg \in M
        /\ Len(s) \in Nat /\ count[h] \in Nat /\ count[h] <= Len(s)
  BY <1>1, SoundStack
<1>3. /\ s # <<>> /\ Len(s) \in 1 .. Len(s) /\ Promise!Fill(s) = s[Len(s)].end
      /\ s[Len(s)].end \in Nat
  <2>1. Len(s) >= 1
    BY <1>1, <1>2
  <2> QED BY <2>1, EntryFacts, EmptySeq
<1> DEFINE m == s[Len(s)].msg
           o == at[t]
<1>4. m \in M /\ m \in Messages /\ o \in Nat /\ HoldsFrame(mem[h], o, m)
  BY <1>1, <1>2, <1>3 DEF Stacked
<1> HIDE DEF m, o
<1>5. MessageAt(h, o) = m
  BY <1>4, MessageFound
<1>6. o # 0 /\ o - 1 \in Offsets /\ mem[h][o - 1] = LengthOf(m) /\ Frame(m) <= o
  BY <1>4, FrameSize DEF HoldsFrame
<1>7. SizesAt(h, o) = {Size[m]}
  BY <1>6 DEF SizesAt, LengthOf
<1>8. Size[m] <= o
  BY <1>4, <1>6, FrameSize DEF Frame, LengthSize
<1> QED BY <1>1, <1>4, <1>5, <1>7, <1>8 DEF o

LEMMA SoundPopRead ==
  ASSUME TypeOK, LockBalanced, NEW h \in Halves, NEW M \in SUBSET Messages, Sound(h, M),
         NEW t \in Threads, In(t) = h, PopRead(t)
  PROVE  Sound(h, M)'
<1>1. /\ UNCHANGED <<count, end, mem>>
      /\ \A u \in Threads : u # t => SameAll(u)
      /\ pc[t] = "popRead" /\ pc'[t] = "popEndLoad" /\ result'[t] = result[t]
      /\ msg'[t] = MessageAt(h, at[t]) /\ size'[t] \in SizesAt(h, at[t])
  BY DEF PopRead, Goto, header, SameAll, Same, TypeOK, DataOK
<1>2. PICK m \in M : /\ HoldsFrame(mem[h], at[t], m) /\ at[t] = end[h]
                     /\ MessageAt(h, at[t]) = m /\ SizesAt(h, at[t]) = {Size[m]}
  BY <1>1, SoundTop
<1>3. ~PushedEnd(t)' /\ ~PoppedEnd(t)
  BY <1>1 DEF PushedEnd, PoppedEnd
<1>4. SoundThread(t, h, M)'
  <2>1. Out(t)' # h /\ In(t)' = h
    BY HalvesOf DEF Out, In
  <2>2. SoundPop(t, M)
    BY DEF Sound, SoundThread
  <2>3. count[h] >= 1
    BY <1>1, <2>2 DEF SoundPop, Popping
  <2>4. /\ msg'[t] \in M /\ size'[t] = Size[msg'[t]]
        /\ HoldsFrame(mem'[h], end'[h], msg'[t])
    BY <1>1, <1>2
  <2>5. result'[t].op = "pop" => result'[t].msg \in M
    BY <1>1, <2>2 DEF SoundPop
  <2> QED BY <1>1, <2>1, <2>3, <2>4, <2>5 DEF SoundThread, SoundPop, Popping
<1> QED BY <1>1, <1>3, <1>4, PrivateSound

LEMMA SoundPopLoads ==
  ASSUME TypeOK, NEW h \in Halves, NEW M, Sound(h, M), NEW t \in Threads, In(t) = h,
         PopEndLoad(t) \/ PopCountLoad(t)
  PROVE  Sound(h, M)'
<1>1. /\ UNCHANGED <<count, end, mem>>
      /\ \A u \in Threads : u # t => SameAll(u)
      /\ \/ pc[t] = "popEndLoad" /\ pc'[t] = "popEndStore" /\ reg'[t] = end[h]
         \/ pc[t] = "popCountLoad" /\ pc'[t] = "popCountStore" /\ reg'[t] = count[h]
      /\ msg'[t] = msg[t] /\ size'[t] = size[t] /\ result'[t] = result[t]
  BY DEF PopEndLoad, PopCountLoad, Goto, header, SameAll, Same, TypeOK, DataOK
<1>2. ~PushedEnd(t)' /\ (PoppedEnd(t) => PoppedEnd(t)')
  BY <1>1 DEF PushedEnd, PoppedEnd
<1>3. SoundThread(t, h, M)'
  <2>1. Out(t)' # h /\ In(t)' = h
    BY HalvesOf DEF Out, In
  <2>2. SoundPop(t, M)
    BY DEF Sound, SoundThread
  <2> QED BY <1>1, <2>1, <2>2 DEF SoundThread, SoundPop, Popping
<1> QED BY <1>1, <1>2, <1>3, PrivateSound
LEMMA SoundPopEndStore ==
  ASSUME TypeOK, LockBalanced, NEW h \in Halves, NEW M \in SUBSET Messages, Sound(h, M),
         NEW t \in Threads, In(t) = h, PopEndStore(t)
  PROVE  Sound(h, M)'
<1>1. /\ UNCHANGED <<count, mem>>
      /\ \A u \in Threads : u # t => SameAll(u)
      /\ pc[t] = "popEndStore" /\ pc'[t] = "popCountLoad" /\ msg'[t] = msg[t]
      /\ size'[t] = size[t] /\ result'[t] = result[t]
      /\ end'[h] = (reg[t] - (size[t] + LengthSize)) % DWordRange
  BY DEF PopEndStore, Goto, local, SameAll, Same, TypeOK, DataOK
<1>2. /\ InGuard(t) /\ msg[t] \in M /\ size[t] = Size[msg[t]] /\ reg[t] = end[h]
      /\ HoldsFrame(mem[h], end[h], msg[t]) /\ count[h] >= 1
      /\ ~PoppedEnd(t) /\ Out(t) # h
      /\ result[t].op = "pop" => result[t].msg \in M
  BY <1>1, HalvesOf
     DEF Sound, SoundThread, SoundPop, Popping, PoppedEnd, InGuard
<1>3. PICK s \in Seq(Promise!Entries) :
        /\ Stacked(s, mem[h]) /\ end[h] = Promise!Fill(s)
        /\ \A i \in 1 .. Len(s) : s[i].msg \in M
        /\ Len(s) \in Nat /\ count[h] \in Nat /\ count[h] <= Len(s)
  BY <1>2, SoundStack
<1> DEFINE p == Promise!Popped(s)
           m == s[Len(s)].msg
<1>4. /\ s # <<>> /\ Len(s) \in 1 .. Len(s) /\ Promise!Fill(s) = s[Len(s)].end
      /\ s[Len(s)].end \in Nat /\ m \in Messages
  <2>1. Len(s) >= 1
    BY <1>2, <1>3
  <2> QED BY <2>1, EntryFacts, EmptySeq
<1>5. m = msg[t]
  <2>1. HoldsFrame(mem[h], end[h], m)
    BY <1>3, <1>4 DEF Stacked
  <2>2. msg[t] \in Messages /\ end[h] \in Nat
    BY <1>2, <1>3, <1>4
  <2> HIDE DEF m
  <2> QED BY <1>2, <1>4, <2>1, <2>2, FrameUnique
<1>6. /\ Stacked(p, mem[h]) /\ Promise!Fill(p) = Promise!Fill(s) - Frame(m)
      /\ p \in Seq(Promise!Entries)
  BY <1>3, <1>4, StackedPop, StackTypes
<1>7. Len(p) = Len(s) - 1 /\ \A i \in 1 .. Len(s) - 1 : p[i] = s[i]
  BY <1>4, PoppedFacts
<1>8. Promise!Fill(p) \in DWords
  BY <1>6, StackedSmall
<1> HIDE DEF p, m
<1>9. end'[h] = Promise!Fill(p)
  <2>1. size[t] + LengthSize = Frame(m)
    BY <1>2, <1>5 DEF Frame
  <2> QED BY <1>1, <1>2, <1>3, <1>6, <1>8, <2>1, ModExact
<1>10. \A i \in 1 .. Len(p) : p[i].msg \in M
  <2> TAKE i \in 1 .. Len(p)
  <2>1. i \in 1 .. Len(s) /\ p[i] = s[i]
    BY <1>3, <1>7
  <2> QED BY <1>3, <2>1
<1>11. count'[h] <= Len(p) + (IF PoppedEnd(t)' /\ In(t) = h THEN 1 ELSE 0)
  <2>1. PoppedEnd(t)'
    BY <1>1 DEF PoppedEnd
  <2> QED BY <1>1, <1>3, <1>7, <2>1
<1>12. SoundThread(t, h, M)'
  <2>1. Out(t)' # h /\ In(t)' = h
    BY <1>2 DEF Out, In
  <2> QED BY <1>1, <1>2, <2>1 DEF SoundThread, SoundPop, Popping
<1>13. Stacked(p, mem'[h])
  BY <1>1, <1>6
<1> QED BY <1>1, <1>2, <1>6, <1>9, <1>10, <1>11, <1>12, <1>13, SharedSound

LEMMA SoundPopCountStore ==
  ASSUME TypeOK, LockBalanced, NEW h \in Halves, NEW M \in SUBSET Messages, Sound(h, M),
         NEW t \in Threads, In(t) = h, PopCountStore(t)
  PROVE  Sound(h, M)'
<1>1. /\ UNCHANGED <<end, mem>>
      /\ \A u \in Threads : u # t => SameAll(u)
      /\ pc[t] = "popCountStore" /\ pc'[t] = "unlock"
      /\ result'[t] = [op |-> "pop", msg |-> msg[t]]
      /\ count'[h] = (reg[t] - 1) % DWordRange
  BY DEF PopCountStore, Returns, Goto, SameAll, Same, TypeOK, DataOK
<1>2. /\ InGuard(t) /\ msg[t] \in M /\ reg[t] = count[h] /\ count[h] >= 1
      /\ ~PoppedEnd(t)' /\ ~PushedEnd(t)' /\ Out(t) # h
  BY <1>1, HalvesOf
     DEF Sound, SoundThread, SoundPop, Popping, PoppedEnd, PushedEnd, InGuard
<1>3. PICK s \in Seq(Promise!Entries) :
        /\ Stacked(s, mem[h]) /\ end[h] = Promise!Fill(s)
        /\ \A i \in 1 .. Len(s) : s[i].msg \in M
        /\ Len(s) \in Nat /\ count[h] \in Nat /\ count[h] <= Len(s) + 1
  BY <1>2, SoundStack
<1>4. count'[h] = count[h] - 1
  <2>1. count[h] - 1 \in DWords
    <3>1. count[h] \in DWords
      BY DEF TypeOK, DataOK
    <3> QED BY <1>2, <1>3, <3>1, QueueAssumption DEF DWords
  <2> QED BY <1>1, <1>2, <2>1, ModExact
<1>5. SoundThread(t, h, M)'
  <2>1. Out(t)' # h /\ In(t)' = h
    BY <1>2 DEF Out, In
  <2> QED BY <1>1, <1>2, <2>1 DEF SoundThread, SoundPop, Popping
<1>6. count'[h] <= Len(s) + (IF PoppedEnd(t)' /\ In(t) = h THEN 1 ELSE 0)
  BY <1>2, <1>3, <1>4
<1>7. Stacked(s, mem'[h]) /\ end'[h] = Promise!Fill(s)
  BY <1>1, <1>3
<1> QED BY <1>1, <1>2, <1>3, <1>5, <1>6, <1>7, SharedSound

\* The reader of a sound half does not fault.
LEMMA SoundNoFault ==
  ASSUME TypeOK, LockBalanced, NEW h \in Halves, NEW M \in SUBSET Messages, Sound(h, M),
         NEW t \in Threads, In(t) = h
  PROVE  ~PopFault(t)
<1> SUFFICES ASSUME PopFault(t) PROVE FALSE
  OBVIOUS
<1>1. pc[t] = "popRead" /\ \A n \in SizesAt(h, at[t]) : n > at[t]
  BY DEF PopFault
<1>2. PICK m \in M : SizesAt(h, at[t]) = {Size[m]} /\ Size[m] <= at[t]
  BY <1>1, SoundTop
<1>3. Size[m] > at[t] /\ at[t] \in Nat /\ Size[m] \in Nat
  BY <1>1, <1>2, FrameSize DEF TypeOK, DataOK, DWords
<1> QED BY <1>2, <1>3

\* The end of a process that does not read half h, and its beginning, if it is the client.
LEMMA SoundDies ==
  ASSUME TypeOK, NEW h \in Halves, NEW M, Sound(h, M),
         NEW side, InHalf(side) # h, Dies(side), UNCHANGED <<count, end, mem, result>>
  PROVE  Sound(h, M)'
<1>1. \A u \in Threads : IF Side[u] = side THEN pc'[u] = "dead"
                                           ELSE SameAll(u)
  BY DEF Dies, SameAll, Same, TypeOK, DataOK
<1>2. \A u \in Threads : In(u) = h => SameAll(u)
  BY <1>1 DEF In
<1>3. ASSUME NEW u \in Threads PROVE SoundThread(u, h, M)'
  <2>1. CASE SameAll(u)
    BY <2>1, OthersSound DEF Sound
  <2>2. CASE ~SameAll(u)
    <3>1. pc'[u] = "dead" /\ In(u)' # h
      BY <1>1, <1>2, <2>2 DEF In
    <3> QED BY <3>1 DEF SoundThread, SoundPush, Updating
  <2> QED BY <2>1, <2>2
<1>4. SoundHalf(h, M)'
  <2>1. PICK s \in Seq(Promise!Entries) :
          /\ Stacked(s, mem[h]) /\ end[h] = Promise!Fill(s)
          /\ \A i \in 1 .. Len(s) : s[i].msg \in M
          /\ count[h] <= Len(s) + (IF \E u \in Threads : PoppedEnd(u) /\ In(u) = h
                                   THEN 1 ELSE 0)
          /\ (\E u \in Threads : PushedEnd(u) /\ Out(u) = h) => count[h] < Len(s)
    BY DEF Sound, SoundHalf
  <2>2. ASSUME NEW u \in Threads
        PROVE  /\ In(u) = h => (PoppedEnd(u)' <=> PoppedEnd(u))
               /\ PushedEnd(u)' => PushedEnd(u)
    BY <1>1, <1>2 DEF SameAll, Same, PushedEnd, PoppedEnd
  <2>3. /\ (\E u \in Threads : PoppedEnd(u) /\ In(u) = h)
             <=> \E u \in Threads : PoppedEnd(u)' /\ In(u) = h
        /\ (\E u \in Threads : PushedEnd(u)' /\ Out(u) = h)
             => \E u \in Threads : PushedEnd(u) /\ Out(u) = h
    BY <2>2
  <2>4. Stacked(s, mem'[h]) /\ end'[h] = Promise!Fill(s)
    BY <2>1
  <2>5. count'[h] <= Len(s) + (IF \E u \in Threads : PoppedEnd(u)' /\ In(u) = h
                               THEN 1 ELSE 0)
    BY <2>1, <2>3
  <2>6. (\E u \in Threads : PushedEnd(u)' /\ Out(u) = h) => count'[h] < Len(s)
    BY <2>1, <2>3
  <2> QED BY <2>1, <2>4, <2>5, <2>6 DEF SoundHalf, Stacked, Out, In
<1> QED BY <1>3, <1>4 DEF Sound

LEMMA SoundStart ==
  ASSUME TypeOK, NEW h \in Halves, NEW M, Sound(h, M),
         NEW side, side # "Server", InHalf(side) # h, Start(side)
  PROVE  Sound(h, M)'
<1>1. /\ UNCHANGED <<count, end, mem, result>>
      /\ \A u \in Threads : /\ manual'[u] = manual[u] /\ msg'[u] = msg[u] /\ at'[u] = at[u]
                            /\ size'[u] = size[u] /\ reg'[u] = reg[u]
                            /\ pc'[u] = pc[u] \/ (Side[u] = side /\ pc[u] = "dead"
                                                  /\ pc'[u] = "idle")
  BY DEF Start, Alive, header, local, TypeOK, DataOK
<1>2. ASSUME NEW u \in Threads PROVE SoundThread(u, h, M)'
  <2>1. CASE pc'[u] = pc[u]
    BY <1>1, <2>1, OthersSound DEF Sound, SameAll, Same
  <2>2. CASE pc'[u] # pc[u]
    <3>1. pc'[u] = "idle" /\ In(u)' # h
      BY <1>1, <2>2 DEF In
    <3> QED BY <3>1 DEF SoundThread, SoundPush, Updating
  <2> QED BY <2>1, <2>2
<1>3. SoundHalf(h, M)'
  <2>1. \A u \in Threads : (PushedEnd(u)' <=> PushedEnd(u)) /\ (PoppedEnd(u)' <=> PoppedEnd(u))
    BY <1>1 DEF PushedEnd, PoppedEnd
  <2>2. /\ (\E u \in Threads : PoppedEnd(u)' /\ In(u) = h)
             <=> \E u \in Threads : PoppedEnd(u) /\ In(u) = h
        /\ (\E u \in Threads : PushedEnd(u)' /\ Out(u) = h)
             <=> \E u \in Threads : PushedEnd(u) /\ Out(u) = h
    BY <2>1
  <2>3. PICK s \in Seq(Promise!Entries) :
          /\ Stacked(s, mem[h]) /\ end[h] = Promise!Fill(s)
          /\ \A i \in 1 .. Len(s) : s[i].msg \in M
          /\ count[h] <= Len(s) + (IF \E u \in Threads : PoppedEnd(u) /\ In(u) = h
                                   THEN 1 ELSE 0)
          /\ (\E u \in Threads : PushedEnd(u) /\ Out(u) = h) => count[h] < Len(s)
    BY DEF Sound, SoundHalf
  <2>4. Stacked(s, mem'[h]) /\ end'[h] = Promise!Fill(s)
    BY <1>1, <2>3
  <2>5. count'[h] <= Len(s) + (IF \E u \in Threads : PoppedEnd(u)' /\ In(u) = h
                               THEN 1 ELSE 0)
    BY <1>1, <2>2, <2>3
  <2>6. (\E u \in Threads : PushedEnd(u)' /\ Out(u) = h) => count'[h] < Len(s)
    BY <1>1, <2>2, <2>3
  <2> QED BY <2>3, <2>4, <2>5, <2>6 DEF SoundHalf, Stacked, Out, In
<1> QED BY <1>2, <1>3 DEF Sound
\* The steps under which half h stays sound: any operation, but what is pushed there is a
\* message of M pushed under ManualLock, and its readers' process is not ended from outside.
HalfStep(h, M) ==
  \/ \E t \in Threads :
       \/ Continue(t) \/ ManualLock(t) \/ ManualUnlock(t) \/ PopCall(t) \/ Wait(t)
       \/ \E m, b : PushCall(t, m, b) /\ (Out(t) = h => m \in M /\ b)
       \/ \E k \in Halves : Query(t, k)
  \/ \E side \in Sides : /\ InHalf(side) # h
                         /\ \/ /\ Dies(side)
                               /\ UNCHANGED <<count, end, mem, signal, result, stack>>
                            \/ side # "Server" /\ Start(side)

LEMMA SoundStep ==
  ASSUME TypeOK, LockBalanced, NEW h \in Halves, NEW M \in SUBSET Messages, Sound(h, M),
         [HalfStep(h, M)]_vars
  PROVE  Sound(h, M)'
<1>1. CASE UNCHANGED vars
  <2>1. \A u \in Threads : SameAll(u)
    BY <1>1 DEF vars, SameAll, Same
  <2>2. UNCHANGED <<count, end, mem>>
    BY <1>1 DEF vars
  <2>3. ASSUME NEW u \in Threads PROVE SoundThread(u, h, M)'
    BY <2>1, <2>2, OthersSound DEF Sound
  <2>4. SoundHalf(h, M)'
    <3>1. UNCHANGED pc
      BY <1>1 DEF vars
    <3>2. SoundHalf(h, M)
      BY DEF Sound
    <3> QED BY <2>2, <3>1, <3>2
            DEF SoundHalf, Stacked, PushedEnd, PoppedEnd, Out, In
  <2> QED BY <2>3, <2>4 DEF Sound
<1>2. ASSUME NEW t \in Threads, PopFault(t) PROVE Sound(h, M)'
  <2>1. In(t) # h
    BY <1>2, SoundNoFault
  <2>2. Dies(Side[t]) /\ UNCHANGED <<count, end, mem, result>> /\ InHalf(Side[t]) # h
    BY <1>2, <2>1 DEF PopFault, header, In
  <2> QED BY <2>2, SoundDies
<1>3. ASSUME NEW t \in Threads,
             PushWrite(t) \/ PushEndStore(t) \/ PushCountStore(t)
      PROVE  Sound(h, M)'
  BY <1>3, SoundPushElsewhere, SoundPushWrite, SoundPushEndStore, SoundPushCountStore
<1>4. ASSUME NEW t \in Threads,
             PopLocate(t) \/ PopRead(t) \/ PopEndLoad(t) \/ PopEndStore(t)
               \/ PopCountLoad(t) \/ PopCountStore(t)
      PROVE  Sound(h, M)'
  BY <1>4, SoundPopElsewhere, SoundPopLocate, SoundPopRead, SoundPopLoads,
     SoundPopEndStore, SoundPopCountStore
<1>5. ASSUME NEW t \in Threads,
             ManualLock(t) \/ ManualUnlock(t) \/ Unlock(t) \/ Wait(t) \/ Reset(t)
               \/ PushSignal(t) \/ PushRefuse(t) \/ PopEmpty(t)
               \/ (\E k \in Halves : Query(t, k))
      PROVE  Sound(h, M)'
  BY <1>5, SoundLockSteps
<1>6. ASSUME NEW t \in Threads,
             PushLocate(t) \/ PushEndLoad(t) \/ PushCountLoad(t)
      PROVE  Sound(h, M)'
  BY <1>6, SoundPushLoads
<1>7. ASSUME NEW t \in Threads, NEW m, NEW b, PushCall(t, m, b), Out(t) = h => m \in M /\ b
      PROVE  Sound(h, M)'
  BY <1>7, SoundPushCall
<1>8. ASSUME NEW side \in Sides, InHalf(side) # h,
             \/ Dies(side) /\ UNCHANGED <<count, end, mem, signal, result, stack>>
             \/ side # "Server" /\ Start(side)
      PROVE  Sound(h, M)'
  BY <1>8, SoundDies, SoundStart
<1>9. ASSUME NEW t \in Threads, Continue(t) PROVE Sound(h, M)'
  BY <1>9, <1>2, <1>3, <1>4, <1>5, <1>6 DEF Continue
<1>10. ASSUME NEW t \in Threads, PopCall(t) PROVE Sound(h, M)'
  BY <1>10, <1>4, <1>5 DEF PopCall
<1> QED BY <1>1, <1>5, <1>7, <1>8, <1>9, <1>10 DEF HalfStep

LEMMA SoundInit ==
  ASSUME Init, NEW h \in Halves, NEW M PROVE Sound(h, M)
<1>1. /\ mem[h] = NewMem[h] /\ count[h] = 0 /\ end[h] = 0
      /\ \A t \in Threads : pc[t] = "idle" /\ result[t].op = "none"
  BY DEF Init
<1>2. <<>> \in Seq(Promise!Entries) /\ Len(<<>>) = 0 /\ Promise!Fill(<<>>) = 0
  BY EmptySeq DEF Promise!Fill
<1>3. Stacked(<<>>, mem[h])
  BY <1>2, LayoutAssumption DEF Stacked, HeaderSize
<1>4. SoundHalf(h, M)
  <2>1. \A t \in Threads : ~PushedEnd(t) /\ ~PoppedEnd(t)
    BY <1>1 DEF PushedEnd, PoppedEnd
  <2>2. \A i \in 1 .. Len(<<>>) : <<>>[i].msg \in M
    BY <1>2
  <2> DEFINE s == <<>>
  <2>3. /\ s \in Seq(Promise!Entries) /\ Stacked(s, mem[h]) /\ end[h] = Promise!Fill(s)
        /\ \A i \in 1 .. Len(s) : s[i].msg \in M
        /\ Len(s) = 0
    BY <1>1, <1>2, <1>3, <2>2
  <2> HIDE DEF s
  <2>4. /\ ~ \E t \in Threads : PushedEnd(t) /\ Out(t) = h
        /\ ~ \E t \in Threads : PoppedEnd(t) /\ In(t) = h
    BY <2>1
  <2>5. count[h] <= Len(s) + (IF \E t \in Threads : PoppedEnd(t) /\ In(t) = h
                             THEN 1 ELSE 0)
    BY <1>1, <2>3, <2>4
  <2> QED BY <2>3, <2>4, <2>5 DEF SoundHalf
<1>5. ASSUME NEW t \in Threads PROVE SoundThread(t, h, M)
  BY <1>1 DEF SoundThread, SoundPush, SoundPop, Updating, Popping
<1> QED BY <1>4, <1>5 DEF Sound

LEMMA SurvivorStep ==
  ASSUME PushModes \subseteq {TRUE}, Mortal \subseteq {"Client"}, SurvivorInv,
         PushingMessage, [Next]_vars
  PROVE  SurvivorInv'
<1>1. TypeOK' /\ LockBalanced'
  BY TypesStep DEF SurvivorInv
<1>2. ASSUME NEW h \in Surviving PROVE Sound(h, Messages)'
  <2>1. h \in Halves /\ \A side \in Mortal : InHalf(side) # h
    BY DEF Surviving
  <2>2. \A side \in Mortal : side \in Sides /\ side # "Server"
    BY QueueAssumption
  <2>3. [HalfStep(h, Messages)]_vars
    <3>1. ASSUME NEW t \in Threads, Call(t) PROVE HalfStep(h, Messages)
      BY <3>1 DEF Call, HalfStep
    <3>2. ASSUME NEW side \in Mortal, Kill(side) \/ Start(side) PROVE HalfStep(h, Messages)
      BY <2>1, <2>2, <3>2 DEF Kill, header, HalfStep
    <3>3. ASSUME NEW t \in Threads, Continue(t) PROVE HalfStep(h, Messages)
      BY <3>3 DEF HalfStep
    <3> QED BY <3>1, <3>2, <3>3 DEF Next
  <2> QED BY <2>1, <2>3, SoundStep DEF SurvivorInv
<1> QED BY <1>1, <1>2 DEF SurvivorInv, Surviving

\* The client may be killed anywhere, in a push or a pop and even under m_Mutex: what it
\* leaves behind are whole frames and a count that does not promise more of them.
THEOREM SurvivorsSound ==
  ASSUME PushModes \subseteq {TRUE}, Mortal \subseteq {"Client"}
  PROVE  Spec => []SurvivorInv
<1>1. Init => SurvivorInv
  BY InitTypes, SoundInit DEF SurvivorInv, Surviving
<1>2. SurvivorInv /\ PushingMessage /\ [Next]_vars => SurvivorInv'
  BY SurvivorStep
<1>3. Spec => []PushingMessage
  BY TypesAlways, PTL
<1> QED BY <1>1, <1>2, <1>3, PTL DEF Spec

\* A process that is killed anywhere takes none of the readers at the other end with it:
\* they pop whole messages and never fault (the order of lines 177-184).
THEOREM SurvivorsRead ==
  ASSUME PushModes \subseteq {TRUE}, Mortal \subseteq {"Client"}
  PROVE  Spec => []SurvivorReads
<1>1. SurvivorInv => SurvivorReads
  <2> SUFFICES ASSUME SurvivorInv, NEW t \in Threads, Side[t] \notin Mortal
               PROVE  /\ pc[t] # "dead"
                      /\ result[t].op = "pop" => result[t].msg \in Messages
    BY DEF SurvivorReads
  <2>1. \A side \in Mortal : InHalf(side) # In(t)
    BY QueueAssumption DEF In, InHalf, Sides
  <2>2. In(t) \in Surviving
    BY <2>1, HalvesOf DEF Surviving
  <2> QED BY <2>2 DEF SurvivorInv, Sound, SoundThread, SoundPop
<1> QED BY <1>1, SurvivorsSound, PTL
=============================================================================
