---------------------------- MODULE VEHHookProofs ---------------------------
(***************************************************************************)
(* Proofs about VEHHook: that its breakpoints are armed and its types      *)
(* kept, for any number of threads and hooks, set and removed any number   *)
(* of times; and that a process of one thread survives its hooks, of any   *)
(* kinds, and is left as it was when they are removed.                     *)
(***************************************************************************)
EXTENDS VEHHook, SequenceTheorems, TLAPS

Writing == {"protect", "write", "restore"}
Locked  == {"hook", "unhook", "handler"}       \* who writes under m_TargetMutex

Words    == Bytes \cup Registers \cup {None}     \* what a byte of a context holds
Contexts == [hook : Hooks, byte : Words]

Shape ==
  /\ mutex \in Threads \cup {None}
  /\ targets \in Seq(Contexts)
  /\ code \in [Functions -> Words]
  /\ storage \in [Hooks -> Words]
  /\ hooked \subseteq Hooks
  /\ pc \in [Threads -> Labels]
  /\ doing \in [Threads -> Jobs]
  /\ within \in [Threads -> Seq(Hooks)]

\* Thread t holds m_TargetMutex while it must.
Holds(t) == pc[t] = "search" \/ (pc[t] \in Writing /\ doing[t].for \in Locked) => mutex = t

\* What thread t is in the middle of.
Doing(t) ==
  /\ pc[t] \in Writing => doing[t].hook \in Hooks /\ doing[t].for \in Locked \cup {"rearm"}
  /\ pc[t] \in Writing /\ doing[t].for = "rearm" =>
       within[t] # <<>> /\ Last(within[t]) = doing[t].hook
  /\ pc[t] \in {"protect", "write"} /\ doing[t].for = "handler" =>
       \E i \in 1 .. Len(targets) : targets[i].hook = doing[t].hook
  /\ pc[t] \in {"callback", "return"} => within[t] # <<>>
  /\ pc[t] = "restore" /\ doing[t].for = "hook" => code[Src[doing[t].hook]] = Int3

MutexHeld == \A t \in Threads : Holds(t)
DoingOK   == \A t \in Threads : Doing(t)

\* Thread t will put the breakpoint of h back, or take h away: it has taken the
\* breakpoint out, or is in a callback of h whose protection object has not written yet.
Owes(t, h) ==
  \/ pc[t] = "restore" /\ doing[t].hook = h /\ doing[t].for \in {"handler", "unhook"}
  \/ \E i \in 1 .. Len(within[t]) :
       /\ within[t][i] = h
       /\ ~(pc[t] = "restore" /\ doing[t].for = "rearm" /\ i = Len(within[t]))

Owed ==
  \A h \in hooked : Method[h] = "INT3_BP" /\ code[Src[h]] # Int3 => \E t \in Threads : Owes(t, h)

ArmInv == Shape /\ MutexHeld /\ DoingOK /\ Owed
-----------------------------------------------------------------------------
(***************************************************************************)
(* Sequences.                                                              *)
(***************************************************************************)
LEMMA Appended ==
  ASSUME NEW s \in Seq(Hooks), NEW h \in Hooks
  PROVE  /\ Append(s, h) \in Seq(Hooks) /\ Append(s, h) # <<>>
         /\ Len(s) \in Nat /\ Len(Append(s, h)) = Len(s) + 1
         /\ Append(s, h)[Len(s) + 1] = h
         /\ \A i \in 1 .. Len(s) : Append(s, h)[i] = s[i]
OBVIOUS

LEMMA Fronted ==
  ASSUME NEW s \in Seq(Hooks), s # <<>>
  PROVE  /\ Len(s) \in Nat \ {0} /\ Last(s) = s[Len(s)] /\ Last(s) \in Hooks
         /\ Front(s) \in Seq(Hooks) /\ Len(Front(s)) = Len(s) - 1
         /\ \A i \in 1 .. Len(s) - 1 : Front(s)[i] = s[i]
         /\ Len(s) # 1 => Front(s) # <<>>
<1>1. Len(s) \in Nat \ {0}
  OBVIOUS
<1>2. /\ Front(s) \in Seq(Hooks) /\ Len(Front(s)) = Len(s) - 1
      /\ \A i \in 1 .. Len(s) - 1 : Front(s)[i] = s[i]
  <2>1. \A i \in 1 .. Len(s) - 1 : s[i] \in Hooks
    OBVIOUS
  <2>2. /\ SubSeq(s, 1, Len(s) - 1) \in Seq(Hooks)
        /\ Len(SubSeq(s, 1, Len(s) - 1)) =
             IF 1 <= Len(s) - 1 THEN (Len(s) - 1) - 1 + 1 ELSE 0
        /\ \A i \in 1 .. (Len(s) - 1) - 1 + 1 : SubSeq(s, 1, Len(s) - 1)[i] = s[1 + i - 1]
    BY <1>1, <2>1, SubSeqProperties
  <2>3. \A n \in Nat \ {0} : (IF 1 <= n - 1 THEN (n - 1) - 1 + 1 ELSE 0) = n - 1
    <3>1. ASSUME NEW n \in Nat \ {0} PROVE (IF 1 <= n - 1 THEN (n - 1) - 1 + 1 ELSE 0) = n - 1
      <4>1. CASE n = 1
        BY <4>1
      <4>2. CASE n > 1
        <5>1. 1 <= n - 1 /\ (n - 1) - 1 + 1 = n - 1
          BY <4>2
        <5> QED BY <5>1
      <4> QED BY <4>1, <4>2
    <3> QED BY <3>1
  <2>4. ASSUME NEW i \in 1 .. Len(s) - 1
        PROVE  SubSeq(s, 1, Len(s) - 1)[i] = s[i]
    <3>1. i \in 1 .. (Len(s) - 1) - 1 + 1 /\ 1 + i - 1 = i
      BY <1>1
    <3> QED BY <2>2, <3>1
  <2> QED BY <1>1, <2>2, <2>3, <2>4 DEF Front
<1>3. Len(s) # 1 => Front(s) # <<>>
  BY <1>1, <1>2
<1>4. s[Len(s)] \in Hooks
  BY <1>1
<1> QED BY <1>1, <1>2, <1>3, <1>4 DEF Last


\* Erasing the context of a hook leaves a sequence of contexts.
LEMMA Erased ==
  ASSUME NEW s \in Seq(Contexts), NEW h
  PROVE  Without(s, h) \in Seq(Contexts)
<1>1. CASE \E i \in 1 .. Len(s) : s[i].hook = h
  <2> DEFINE k == CHOOSE i \in 1 .. Len(s) : s[i].hook = h
  <2>1. k \in 1 .. Len(s) /\ Len(s) \in Nat
    BY <1>1
  <2>2. \A j \in 1 .. Len(s) : s[j] \in Contexts
    OBVIOUS
  <2> HIDE DEF k
  <2>3. SubSeq(s, 1, k - 1) \in Seq(Contexts)
    BY <2>1, <2>2, SubSeqProperties
  <2>4. SubSeq(s, k + 1, Len(s)) \in Seq(Contexts)
    BY <2>1, <2>2, SubSeqProperties
  <2>5. Without(s, h) = SubSeq(s, 1, k - 1) \o SubSeq(s, k + 1, Len(s))
    BY <1>1 DEF Without, k
  <2> QED BY <2>3, <2>4, <2>5
<1>2. CASE ~ \E i \in 1 .. Len(s) : s[i].hook = h
  BY <1>2 DEF Without
<1> QED BY <1>1, <1>2

\* A hook has one context.
Unique(s) == \A i, j \in 1 .. Len(s) : s[i].hook = s[j].hook => i = j

\* What is left are the contexts of the other hooks, each once.
LEMMA ErasedOne ==
  ASSUME NEW s \in Seq(Contexts), NEW h, Unique(s)
  PROVE  LET w == Without(s, h) IN
         /\ w \in Seq(Contexts) /\ Unique(w)
         /\ \A i \in 1 .. Len(w) : w[i].hook # h /\ \E j \in 1 .. Len(s) : w[i] = s[j]
         /\ \A j \in 1 .. Len(s) : s[j].hook # h => \E i \in 1 .. Len(w) : w[i] = s[j]
<1> DEFINE w == Without(s, h)
<1>1. w \in Seq(Contexts)
  BY Erased
<1>2. CASE \E i \in 1 .. Len(s) : s[i].hook = h
  <2> DEFINE k == CHOOSE i \in 1 .. Len(s) : s[i].hook = h
             a == SubSeq(s, 1, k - 1)
             b == SubSeq(s, k + 1, Len(s))
  <2>1. k \in 1 .. Len(s) /\ Len(s) \in Nat /\ s[k].hook = h
    BY <1>2
  <2>2. \A j \in 1 .. Len(s) : s[j] \in Contexts
    OBVIOUS
  <2>3. w = a \o b
    BY <1>2 DEF Without
  <2> HIDE DEF k
  <2>4. /\ a \in Seq(Contexts) /\ Len(a) = k - 1
        /\ \A i \in 1 .. k - 1 : a[i] = s[i]
    <3>1. /\ a \in Seq(Contexts) /\ Len(a) = IF 1 <= k - 1 THEN (k - 1) - 1 + 1 ELSE 0
          /\ \A i \in 1 .. (k - 1) - 1 + 1 : a[i] = s[1 + i - 1]
      BY <2>1, <2>2, SubSeqProperties
    <3> HIDE DEF a
    <3>2. Len(a) = k - 1
      BY <2>1, <3>1
    <3>3. ASSUME NEW i \in 1 .. k - 1 PROVE a[i] = s[i]
      <4>1. i \in 1 .. (k - 1) - 1 + 1 /\ 1 + i - 1 = i
        BY <2>1
      <4> QED BY <3>1, <4>1
    <3> QED BY <3>1, <3>2, <3>3
  <2>5. /\ b \in Seq(Contexts) /\ Len(b) = Len(s) - k
        /\ \A i \in 1 .. Len(s) - k : b[i] = s[k + i]
    <3>1. /\ b \in Seq(Contexts)
          /\ Len(b) = IF k + 1 <= Len(s) THEN Len(s) - (k + 1) + 1 ELSE 0
          /\ \A i \in 1 .. Len(s) - (k + 1) + 1 : b[i] = s[k + 1 + i - 1]
      BY <2>1, <2>2, SubSeqProperties
    <3> HIDE DEF b
    <3>2. Len(b) = Len(s) - k
      BY <2>1, <3>1
    <3>3. ASSUME NEW i \in 1 .. Len(s) - k PROVE b[i] = s[k + i]
      <4>1. i \in 1 .. Len(s) - (k + 1) + 1 /\ k + 1 + i - 1 = k + i
        BY <2>1
      <4> QED BY <3>1, <4>1
    <3> QED BY <3>1, <3>2, <3>3
  <2> HIDE DEF a, b, w
  <2>6. /\ Len(w) = Len(s) - 1
        /\ \A i \in 1 .. Len(w) : w[i] = IF i < k THEN s[i] ELSE s[i + 1]
    <3>1. Len(w) = Len(s) - 1
      BY <2>1, <2>3, <2>4, <2>5
    <3>2. ASSUME NEW i \in 1 .. Len(w), i < k PROVE w[i] = s[i]
      <4>1. i \in 1 .. k - 1
        BY <2>1, <3>1, <3>2
      <4>2. a[i] = s[i]
        BY <2>4, <4>1
      <4>3. w[i] = a[i]
        BY <2>1, <2>3, <2>4, <2>5, <4>1
      <4> QED BY <4>2, <4>3
    <3>3. ASSUME NEW i \in 1 .. Len(w), ~ (i < k) PROVE w[i] = s[i + 1]
      <4>1. i - (k - 1) \in 1 .. Len(s) - k /\ k + (i - (k - 1)) = i + 1
        BY <2>1, <3>1, <3>3
      <4>2. b[i - (k - 1)] = s[i + 1]
        BY <2>5, <4>1
      <4>3. w[i] = b[i - (k - 1)]
        BY <2>1, <2>3, <2>4, <2>5, <3>1, <3>3
      <4> QED BY <4>2, <4>3
    <3> QED BY <3>1, <3>2, <3>3
  <2>7. \A i \in 1 .. Len(s) : i # k => s[i].hook # h
    BY <2>1 DEF Unique
  <2>8. Unique(w)
    <3>1. SUFFICES ASSUME NEW i \in 1 .. Len(w), NEW j \in 1 .. Len(w), w[i].hook = w[j].hook
                   PROVE  i = j
      BY DEF Unique
    <3>2. /\ i \in 1 .. Len(s) /\ i + 1 \in 1 .. Len(s)
          /\ j \in 1 .. Len(s) /\ j + 1 \in 1 .. Len(s)
      BY <2>1, <2>6
    <3>3. /\ w[i] = IF i < k THEN s[i] ELSE s[i + 1]
          /\ w[j] = IF j < k THEN s[j] ELSE s[j + 1]
      BY <2>6
    <3>4. (IF i < k THEN i ELSE i + 1) = (IF j < k THEN j ELSE j + 1)
      BY <3>1, <3>2, <3>3 DEF Unique
    <3> QED BY <2>1, <3>2, <3>4
  <2>9. ASSUME NEW i \in 1 .. Len(w)
        PROVE  w[i].hook # h /\ \E j \in 1 .. Len(s) : w[i] = s[j]
    <3>1. i \in 1 .. Len(s) /\ i + 1 \in 1 .. Len(s)
      BY <2>1, <2>6
    <3>2. CASE i < k
      BY <2>1, <2>6, <2>7, <3>1, <3>2
    <3>3. CASE ~ (i < k)
      <4>1. w[i] = s[i + 1] /\ i + 1 # k
        BY <2>1, <2>6, <3>1, <3>3
      <4> QED BY <2>7, <3>1, <4>1
    <3> QED BY <3>2, <3>3
  <2>10. ASSUME NEW j \in 1 .. Len(s), s[j].hook # h
         PROVE  \E i \in 1 .. Len(w) : w[i] = s[j]
    <3>1. CASE j < k
      <4>1. j \in 1 .. Len(w) /\ w[j] = s[j]
        BY <2>1, <2>6, <3>1
      <4> QED BY <4>1
    <3>2. CASE ~ (j < k)
      <4>1. j - 1 \in 1 .. Len(w) /\ ~ (j - 1 < k) /\ (j - 1) + 1 = j
        BY <2>1, <2>6, <2>10, <3>2
      <4>2. w[j - 1] = s[j]
        BY <2>6, <4>1
      <4> QED BY <4>1, <4>2
    <3> QED BY <3>1, <3>2
  <2> QED BY <1>1, <2>8, <2>9, <2>10 DEF w
<1>3. CASE ~ \E i \in 1 .. Len(s) : s[i].hook = h
  BY <1>3 DEF Without
<1> QED BY <1>2, <1>3
-----------------------------------------------------------------------------
(***************************************************************************)
(* The shape of the state, and that a step is one thread's.                *)
(***************************************************************************)
OnlyThread(t) ==
  \A u \in Threads : u # t => pc'[u] = pc[u] /\ doing'[u] = doing[u] /\ within'[u] = within[u]

\* A byte that is written is one that was saved or a breakpoint.
LEMMA NewByteWord ==
  ASSUME Shape, DoingOK, NEW t \in Threads, pc[t] = "write"
  PROVE  doing[t].hook \in Hooks /\ doing[t].for \in Locked \cup {"rearm"} /\ NewByte(t) \in Words
<1>1. doing[t].hook \in Hooks /\ doing[t].for \in Locked \cup {"rearm"}
  BY DEF DoingOK, Doing, Writing
<1>2. CASE doing[t].for \in {"hook", "rearm"}
  BY <1>1, <1>2 DEF NewByte, Words, Bytes
<1>3. CASE doing[t].for = "unhook"
  BY <1>1, <1>3 DEF NewByte, Shape
<1>4. CASE doing[t].for = "handler"
  <2>1. PICK i \in 1 .. Len(targets) : targets[i].hook = doing[t].hook
    BY <1>4 DEF DoingOK, Doing
  <2>2. \A j \in 1 .. Len(targets) : targets[j] \in Contexts
    BY DEF Shape
  <2> DEFINE c == CHOOSE c \in {targets[j] : j \in 1 .. Len(targets)} : c.hook = doing[t].hook
  <2>3. c \in {targets[j] : j \in 1 .. Len(targets)}
    BY <2>1
  <2>4. c \in Contexts
    BY <2>2, <2>3
  <2> HIDE DEF c
  <2>5. c.byte \in Words
    BY <2>4 DEF Contexts
  <2>6. NewByte(t) = c.byte
    BY <1>4 DEF NewByte, c
  <2> QED BY <1>1, <2>5, <2>6
<1> QED BY <1>1, <1>2, <1>3, <1>4 DEF Locked

\* The steps of the processor, the memory manager and the handler.
LEMMA ProceedShape ==
  ASSUME Shape, DoingOK, NEW t \in Threads, Proceed(t) \/ HandlerRelock(t)
  PROVE  Shape' /\ OnlyThread(t)
<1> USE DEF Shape, OnlyThread, Goto, machine, shared, Labels
<1>1. CASE Fetch(t)
  BY <1>1 DEF Fetch, HitRegister, HitGuard, HitBreakpoint, RunOriginal, Raise
<1>2. CASE Protect(t) \/ WriteFault(t)
  BY <1>2 DEF Protect, WriteFault
<1>3. CASE WriteByte(t)
  <2>1. NewByte(t) \in Words /\ doing[t].hook \in Hooks
    BY <1>3, NewByteWord DEF WriteByte
  <2>2. Src[doing[t].hook] \in Functions
    BY <2>1, VEHAssumption
  <2>3. storage' \in [Hooks -> Words]
    BY <1>3, <2>1, <2>2 DEF WriteByte, Target
  <2>4. code' \in [Functions -> Words]
    BY <1>3, <2>1 DEF WriteByte
  <2> QED BY <1>3, <2>3, <2>4 DEF WriteByte
<1>4. CASE RestoreHook(t)
  <2>1. doing[t].hook \in Hooks
    BY <1>4 DEF RestoreHook, Restored, DoingOK, Doing, Writing
  <2>2. [hook |-> doing[t].hook, byte |-> storage[doing[t].hook]] \in Contexts
    BY <2>1 DEF Contexts
  <2>3. targets' \in Seq(Contexts)
    BY <1>4, <2>2 DEF RestoreHook, Installed
  <2>4. doing' \in [Threads -> Jobs]
    BY <1>4 DEF RestoreHook, Restored, Jobs
  <2>5. hooked' \subseteq Hooks
    BY <1>4, <2>1 DEF RestoreHook, Installed
  <2> QED BY <1>4, <2>3, <2>4, <2>5 DEF RestoreHook, Restored, Installed, Free
<1>5. CASE RestoreUnHook(t)
  <2>1. targets' \in Seq(Contexts)
    BY <1>5, Erased DEF RestoreUnHook, Removed
  <2>2. doing' \in [Threads -> Jobs]
    BY <1>5 DEF RestoreUnHook, Restored, Jobs
  <2> QED BY <1>5, <2>1, <2>2 DEF RestoreUnHook, Restored, Removed, Free
<1>6. CASE RestoreHandler(t)
  <2>1. doing[t].hook \in Hooks
    BY <1>6 DEF RestoreHandler, Restored, DoingOK, Doing, Writing
  <2>2. Append(within[t], doing[t].hook) \in Seq(Hooks)
    BY <2>1, Appended
  <2>3. doing' \in [Threads -> Jobs]
    BY <1>6 DEF RestoreHandler, Restored, Jobs
  <2> QED BY <1>6, <2>2, <2>3 DEF RestoreHandler, Restored, EnterCallback, Free
<1>7. CASE RestoreRearm(t)
  <2>1. within[t] # <<>>
    BY <1>7 DEF RestoreRearm, Restored, DoingOK, Doing, Writing
  <2>2. Front(within[t]) \in Seq(Hooks)
    BY <2>1, Fronted
  <2>3. doing' \in [Threads -> Jobs]
    BY <1>7 DEF RestoreRearm, Restored, Jobs
  <2> QED BY <1>7, <2>2, <2>3 DEF RestoreRearm, Restored, LeaveCallback
<1>8. CASE HandlerLock(t) \/ HandlerRelock(t) \/ Unhandled(t)
  BY <1>8 DEF HandlerLock, HandlerRelock, Unhandled, Lock, Free
<1>9. CASE HandleBreakpoint(t)
  <2>1. PICK i \in 1 .. Len(targets) : Begin(t, targets[i].hook, "handler")
    BY <1>9 DEF HandleBreakpoint
  <2>2. targets[i] \in Contexts
    OBVIOUS
  <2>3. [hook |-> targets[i].hook, for |-> "handler"] \in Jobs
    BY <2>2 DEF Contexts, Jobs
  <2> QED BY <1>9, <2>1, <2>3 DEF HandleBreakpoint, Begin
<1>10. CASE HandleStep(t)
  <2>1. PICK i \in 1 .. Len(targets) : EnterCallback(t, targets[i].hook)
    BY <1>10 DEF HandleStep
  <2>2. targets[i] \in Contexts
    OBVIOUS
  <2>3. targets[i].hook \in Hooks
    BY <2>2 DEF Contexts
  <2>4. Append(within[t], targets[i].hook) \in Seq(Hooks)
    BY <2>3, Appended
  <2> QED BY <1>10, <2>1, <2>4 DEF HandleStep, EnterCallback, Free
<1>11. CASE HandleGuard(t)
  <2>1. PICK i \in 1 .. Len(targets) :
          \/ Goto(t, "search", "callback") /\ EnterCallback(t, targets[i].hook)
          \/ Goto(t, "search", "fetch") /\ UNCHANGED within
    BY <1>11 DEF HandleGuard
  <2>2. targets[i] \in Contexts
    OBVIOUS
  <2>3. targets[i].hook \in Hooks
    BY <2>2 DEF Contexts
  <2>4. Append(within[t], targets[i].hook) \in Seq(Hooks)
    BY <2>3, Appended
  <2> QED BY <1>11, <2>1, <2>4 DEF HandleGuard, EnterCallback, Free
<1>12. CASE CallOriginal(t)
  BY <1>12 DEF CallOriginal
<1>13. CASE RearmBreakpoint(t)
  <2>1. Last(within[t]) \in Hooks
    BY <1>13, Fronted DEF RearmBreakpoint, DoingOK, Doing
  <2>2. [hook |-> Last(within[t]), for |-> "rearm"] \in Jobs
    BY <2>1 DEF Jobs
  <2> QED BY <1>13, <2>2 DEF RearmBreakpoint, Begin
<1>14. CASE RearmGuard(t) \/ RearmNothing(t)
  <2>1. Front(within[t]) \in Seq(Hooks)
    BY <1>14, Fronted DEF RearmGuard, RearmNothing, DoingOK, Doing
  <2> QED BY <1>14, <2>1 DEF RearmGuard, RearmNothing, LeaveCallback
<1> QED
  BY <1>1, <1>2, <1>3, <1>4, <1>5, <1>6, <1>7, <1>8, <1>9, <1>10, <1>11, <1>12, <1>13, <1>14
     DEF Proceed, Restore, Handle, Rearm

\* A call of a function, of Hook or of UnHook.
LEMMA ChooseShape ==
  ASSUME Shape, NEW t \in Threads, Choose(t)
  PROVE  Shape' /\ OnlyThread(t)
<1> USE DEF Shape, OnlyThread, Goto, machine, shared, Labels, Lock, Free
<1>1. ASSUME NEW f \in Functions, CallFunction(t, f) PROVE Shape' /\ OnlyThread(t)
  BY <1>1 DEF CallFunction
<1>2. ASSUME NEW h \in Hooks, HookBreakpoint(t, h) \/ UnHookBreakpoint(t, h)
      PROVE  Shape' /\ OnlyThread(t)
  <2>1. [hook |-> h, for |-> "hook"] \in Jobs /\ [hook |-> h, for |-> "unhook"] \in Jobs
    BY DEF Jobs
  <2> QED BY <1>2, <2>1 DEF HookBreakpoint, UnHookBreakpoint, Begin
<1>3. ASSUME NEW h \in Hooks, HookRegister(t, h) PROVE Shape' /\ OnlyThread(t)
  <2>1. PICK r \in Registers : storage' = [storage EXCEPT ![h] = r] /\ Installed(h, r)
    BY <1>3 DEF HookRegister
  <2>2. r \in Words /\ [hook |-> h, byte |-> r] \in Contexts
    BY DEF Words, Contexts
  <2>3. targets' \in Seq(Contexts)
    BY <2>1, <2>2 DEF Installed
  <2>4. storage' \in [Hooks -> Words]
    BY <2>1, <2>2
  <2>5. mutex' = None /\ UNCHANGED <<code, doing, within>> /\ hooked' \subseteq Hooks
    BY <1>3, <2>1 DEF HookRegister, Installed
  <2>6. pc' \in [Threads -> Labels] /\ \A u \in Threads : pc'[u] = pc[u]
    BY <1>3 DEF HookRegister
  <2> QED BY <2>3, <2>4, <2>5, <2>6
<1>4. ASSUME NEW h \in Hooks, HookGuard(t, h) PROVE Shape' /\ OnlyThread(t)
  <2>1. [hook |-> h, byte |-> storage[h]] \in Contexts
    BY DEF Contexts
  <2>2. targets' \in Seq(Contexts)
    BY <1>4, <2>1 DEF HookGuard, Installed
  <2>3. mutex' = None /\ UNCHANGED <<code, storage, doing, within>> /\ hooked' \subseteq Hooks
    BY <1>4 DEF HookGuard, Installed
  <2>4. pc' \in [Threads -> Labels] /\ \A u \in Threads : pc'[u] = pc[u]
    BY <1>4 DEF HookGuard
  <2> QED BY <2>2, <2>3, <2>4
<1>5. ASSUME NEW h \in Hooks, UnHookRegister(t, h) \/ UnHookRead(t, h)
      PROVE  Shape' /\ OnlyThread(t)
  <2>1. targets' \in Seq(Contexts)
    BY <1>5, Erased DEF UnHookRegister, UnHookRead, Removed
  <2> QED BY <1>5, <2>1 DEF UnHookRegister, UnHookRead, Removed
<1>6. ASSUME NEW h \in Hooks, UnHookGuard(t, h) PROVE Shape' /\ OnlyThread(t)
  BY <1>6 DEF UnHookGuard
<1> QED BY <1>1, <1>2, <1>3, <1>4, <1>5, <1>6 DEF Choose
-----------------------------------------------------------------------------
(***************************************************************************)
(* m_TargetMutex.                                                          *)
(***************************************************************************)
\* Under another thread's mutex a step of t leaves m_HookTargets alone and writes no
\* byte but a breakpoint.
Respects(t) ==
  mutex \notin {None, t} =>
    mutex' = mutex /\ targets' = targets /\ \A f \in Functions : code'[f] \in {code[f], Int3}

\* The steps of t that take the mutex find it free, those that release it have it.
LEMMA ProceedLocks ==
  ASSUME Shape, Shape', NEW t \in Threads, Holds(t), Doing(t),
         Proceed(t) \/ HandlerRelock(t)
  PROVE  Respects(t) /\ Holds(t)'
<1> USE VEHAssumption DEF Shape, Goto, machine, shared, Respects, Holds, Writing, Locked
<1>1. CASE Fetch(t)
  BY <1>1 DEF Fetch, HitRegister, HitGuard, HitBreakpoint, RunOriginal, Raise
<1>2. CASE Protect(t) \/ WriteFault(t)
  BY <1>2 DEF Protect, WriteFault
<1>3. CASE WriteByte(t)
  <2>1. mutex # t => doing[t].for = "rearm"
    BY <1>3 DEF WriteByte, Doing
  <2>2. mutex # t => NewByte(t) = Int3
    BY <2>1 DEF NewByte
  <2> QED BY <1>3, <2>2 DEF WriteByte
<1>4. CASE RestoreHook(t)
  BY <1>4 DEF RestoreHook, Restored, Installed, Free
<1>5. CASE RestoreUnHook(t)
  BY <1>5 DEF RestoreUnHook, Restored, Removed, Free
<1>6. CASE RestoreHandler(t)
  BY <1>6 DEF RestoreHandler, Restored, Free
<1>7. CASE RestoreRearm(t)
  BY <1>7 DEF RestoreRearm, Restored, LeaveCallback
<1>8. CASE HandlerLock(t) \/ HandlerRelock(t) \/ Unhandled(t)
  BY <1>8 DEF HandlerLock, HandlerRelock, Unhandled, Lock, Free
<1>9. CASE HandleBreakpoint(t)
  BY <1>9 DEF HandleBreakpoint
<1>10. CASE HandleStep(t)
  BY <1>10 DEF HandleStep, Free
<1>11. CASE HandleGuard(t)
  BY <1>11 DEF HandleGuard, Free
<1>12. CASE CallOriginal(t)
  BY <1>12 DEF CallOriginal
<1>13. CASE RearmBreakpoint(t)
  BY <1>13 DEF RearmBreakpoint, Begin
<1>14. CASE RearmGuard(t) \/ RearmNothing(t)
  BY <1>14 DEF RearmGuard, RearmNothing, LeaveCallback
<1> QED
  BY <1>1, <1>2, <1>3, <1>4, <1>5, <1>6, <1>7, <1>8, <1>9, <1>10, <1>11, <1>12, <1>13, <1>14
     DEF Proceed, Restore, Handle, Rearm

LEMMA ChooseLocks ==
  ASSUME Shape, Shape', NEW t \in Threads, Holds(t), Choose(t)
  PROVE  Respects(t) /\ Holds(t)'
<1> USE VEHAssumption
    DEF Shape, Goto, machine, shared, Respects, Holds, Writing, Locked, Lock, Free
<1>1. ASSUME NEW f \in Functions, CallFunction(t, f) PROVE Respects(t) /\ Holds(t)'
  BY <1>1 DEF CallFunction
<1>2. ASSUME NEW h \in Hooks, HookBreakpoint(t, h) \/ UnHookBreakpoint(t, h)
      PROVE  Respects(t) /\ Holds(t)'
  BY <1>2 DEF HookBreakpoint, UnHookBreakpoint
<1>3. ASSUME NEW h \in Hooks, HookRegister(t, h) \/ HookGuard(t, h)
      PROVE  Respects(t) /\ Holds(t)'
  BY <1>3 DEF HookRegister, HookGuard
<1>4. ASSUME NEW h \in Hooks, UnHookRegister(t, h) \/ UnHookRead(t, h)
      PROVE  Respects(t) /\ Holds(t)'
  BY <1>4 DEF UnHookRegister, UnHookRead
<1>5. ASSUME NEW h \in Hooks, UnHookGuard(t, h) PROVE Respects(t) /\ Holds(t)'
  BY <1>5 DEF UnHookGuard
<1> QED BY <1>1, <1>2, <1>3, <1>4, <1>5 DEF Choose

\* What t is in the middle of stays as it must be.
LEMMA ProceedDoing ==
  ASSUME Shape, Shape', NEW t \in Threads, Holds(t), Doing(t),
         Proceed(t) \/ HandlerRelock(t)
  PROVE  Doing(t)'
<1> USE VEHAssumption DEF Shape, Goto, machine, shared, Doing, Writing, Locked
<1>1. CASE Fetch(t)
  BY <1>1 DEF Fetch, HitRegister, HitGuard, HitBreakpoint, RunOriginal, Raise
<1>2. CASE Protect(t) \/ WriteFault(t)
  BY <1>2 DEF Protect, WriteFault
<1>3. CASE WriteByte(t)
  <2>1. doing[t].for = "hook" => code'[Src[doing[t].hook]] = Int3
    BY <1>3 DEF WriteByte, NewByte, Target
  <2> QED BY <1>3, <2>1 DEF WriteByte
<1>4. CASE RestoreHook(t)
  BY <1>4 DEF RestoreHook, Restored
<1>5. CASE RestoreUnHook(t)
  BY <1>5 DEF RestoreUnHook, Restored
<1>6. CASE RestoreHandler(t)
  <2>1. doing[t].hook \in Hooks
    BY <1>6 DEF RestoreHandler, Restored
  <2>2. Append(within[t], doing[t].hook) # <<>>
    BY <2>1, Appended
  <2>3. within'[t] # <<>>
    BY <1>6, <2>2 DEF RestoreHandler, EnterCallback
  <2> QED BY <1>6, <2>3 DEF RestoreHandler, Restored
<1>7. CASE RestoreRearm(t)
  <2>1. Len(within[t]) # 1 => within'[t] # <<>>
    BY <1>7, Fronted DEF RestoreRearm, Restored, LeaveCallback
  <2> QED BY <1>7, <2>1 DEF RestoreRearm, Restored, LeaveCallback
<1>8. CASE HandlerLock(t) \/ HandlerRelock(t) \/ Unhandled(t)
  BY <1>8 DEF HandlerLock, HandlerRelock, Unhandled
<1>9. CASE HandleBreakpoint(t)
  <2>1. PICK i \in 1 .. Len(targets) : Begin(t, targets[i].hook, "handler")
    BY <1>9 DEF HandleBreakpoint
  <2>2. targets[i] \in Contexts
    OBVIOUS
  <2>3. targets[i].hook \in Hooks
    BY <2>2 DEF Contexts
  <2>4. doing'[t] = [hook |-> targets[i].hook, for |-> "handler"] /\ pc'[t] = "protect"
    BY <1>9, <2>1 DEF HandleBreakpoint, Begin
  <2>5. targets' = targets
    BY <1>9 DEF HandleBreakpoint
  <2> QED BY <2>3, <2>4, <2>5
<1>10. CASE HandleStep(t)
  <2>1. PICK i \in 1 .. Len(targets) : EnterCallback(t, targets[i].hook)
    BY <1>10 DEF HandleStep
  <2>2. targets[i] \in Contexts
    OBVIOUS
  <2>3. targets[i].hook \in Hooks
    BY <2>2 DEF Contexts
  <2>4. within'[t] # <<>>
    BY <2>1, <2>3, Appended DEF EnterCallback
  <2> QED BY <1>10, <2>4 DEF HandleStep
<1>11. CASE HandleGuard(t)
  <2>1. PICK i \in 1 .. Len(targets) :
          \/ Goto(t, "search", "callback") /\ EnterCallback(t, targets[i].hook)
          \/ Goto(t, "search", "fetch") /\ UNCHANGED within
    BY <1>11 DEF HandleGuard
  <2>2. targets[i] \in Contexts
    OBVIOUS
  <2>3. targets[i].hook \in Hooks
    BY <2>2 DEF Contexts
  <2>4. Append(within[t], targets[i].hook) # <<>>
    BY <2>3, Appended
  <2> QED BY <1>11, <2>1, <2>4 DEF HandleGuard, EnterCallback
<1>12. CASE CallOriginal(t)
  BY <1>12 DEF CallOriginal
<1>13. CASE RearmBreakpoint(t)
  <2>1. within[t] # <<>> /\ Last(within[t]) \in Hooks
    BY <1>13, Fronted DEF RearmBreakpoint
  <2> QED BY <1>13, <2>1 DEF RearmBreakpoint, Begin
<1>14. CASE RearmGuard(t) \/ RearmNothing(t)
  <2>1. Len(within[t]) # 1 => within'[t] # <<>>
    BY <1>14, Fronted DEF RearmGuard, RearmNothing, LeaveCallback
  <2> QED BY <1>14, <2>1 DEF RearmGuard, RearmNothing, LeaveCallback
<1> QED
  BY <1>1, <1>2, <1>3, <1>4, <1>5, <1>6, <1>7, <1>8, <1>9, <1>10, <1>11, <1>12, <1>13, <1>14
     DEF Proceed, Restore, Handle, Rearm

LEMMA ChooseDoing ==
  ASSUME Shape, Shape', NEW t \in Threads, Doing(t), Choose(t)
  PROVE  Doing(t)'
<1> USE VEHAssumption DEF Shape, Goto, machine, shared, Doing, Writing, Locked
<1>1. ASSUME NEW f \in Functions, CallFunction(t, f) PROVE Doing(t)'
  BY <1>1 DEF CallFunction
<1>2. ASSUME NEW h \in Hooks, HookBreakpoint(t, h) \/ UnHookBreakpoint(t, h)
      PROVE  Doing(t)'
  BY <1>2 DEF HookBreakpoint, UnHookBreakpoint, Begin
<1>3. ASSUME NEW h \in Hooks, HookRegister(t, h) \/ HookGuard(t, h)
      PROVE  Doing(t)'
  BY <1>3 DEF HookRegister, HookGuard
<1>4. ASSUME NEW h \in Hooks, UnHookRegister(t, h) \/ UnHookRead(t, h) \/ UnHookGuard(t, h)
      PROVE  Doing(t)'
  BY <1>4 DEF UnHookRegister, UnHookRead, UnHookGuard
<1> QED BY <1>1, <1>2, <1>3, <1>4 DEF Choose
-----------------------------------------------------------------------------
(***************************************************************************)
(* Every breakpoint that is out is owed by a thread.                       *)
(***************************************************************************)
\* After a step of t, a breakpoint that is out is owed by t, or was out before and owed
\* by another thread.
Pays(t) ==
  \A h \in hooked' :
    Method[h] = "INT3_BP" /\ code'[Src[h]] # Int3 =>
      Owes(t, h)' \/ (h \in hooked /\ code[Src[h]] # Int3 /\ ~Owes(t, h))

\* A callback that is entered owes, and those around it go on owing.
LEMMA EnterPays ==
  ASSUME Shape, Shape', NEW t \in Threads, NEW g \in Hooks, EnterCallback(t, g),
         pc[t] # "restore" \/ doing[t] = [hook |-> g, for |-> "handler"],
         pc'[t] = "callback", UNCHANGED <<code, hooked>>
  PROVE  Pays(t)
<1>1. ASSUME NEW h \in Hooks, Owes(t, h) PROVE Owes(t, h)'
  <2>1. within'[t] = Append(within[t], g) /\ within[t] \in Seq(Hooks)
    BY DEF EnterCallback, Shape
  <2>2. CASE pc[t] = "restore" /\ doing[t].hook = h
    <3>1. h = g /\ within'[t][Len(within[t]) + 1] = h /\ Len(within[t]) + 1 \in 1 .. Len(within'[t])
      BY <2>1, <2>2, Appended
    <3> QED BY <3>1 DEF Owes
  <2>3. ASSUME NEW i \in 1 .. Len(within[t]), within[t][i] = h PROVE Owes(t, h)'
    <3>1. i \in 1 .. Len(within'[t]) /\ within'[t][i] = h
      BY <2>1, <2>3, Appended
    <3> QED BY <3>1 DEF Owes
  <2> QED BY <1>1, <2>2, <2>3 DEF Owes
<1> QED BY <1>1 DEF Pays, Shape

\* A callback is left by a protection object that has put its breakpoint back or has
\* none to put back.
LEMMA LeavePays ==
  ASSUME Shape, Shape', NEW t \in Threads, within[t] # <<>>, LeaveCallback(t),
         \/ pc[t] = "restore" /\ doing[t].for = "rearm"
         \/ pc[t] = "return" /\ Method[Last(within[t])] # "INT3_BP",
         UNCHANGED <<code, hooked>>
  PROVE  Pays(t)
<1>1. ASSUME NEW h \in Hooks, Method[h] = "INT3_BP", Owes(t, h) PROVE Owes(t, h)'
  <2>1. within'[t] = Front(within[t]) /\ within[t] \in Seq(Hooks) /\ pc'[t] # "restore"
    BY DEF LeaveCallback, Shape
  <2>2. PICK i \in 1 .. Len(within[t]) :
          within[t][i] = h /\ ~(pc[t] = "restore" /\ doing[t].for = "rearm" /\ i = Len(within[t]))
    BY <1>1 DEF Owes
  <2>3. i # Len(within[t])
    BY <1>1, <2>1, <2>2, Fronted
  <2>4. i \in 1 .. Len(within'[t]) /\ within'[t][i] = h
    BY <2>1, <2>2, <2>3, Fronted
  <2> QED BY <2>1, <2>4 DEF Owes
<1> QED BY <1>1 DEF Pays, Shape

\* Whoever is not about to restore a page, nor in a callback that begins or ends, pays by
\* going on.
LEMMA StayPays ==
  ASSUME NEW t \in Threads, pc[t] # "restore", pc'[t] # "restore",
         within'[t] = within[t], code' = code,
         \A h \in hooked' \ hooked : Method[h] # "INT3_BP"
  PROVE  Pays(t)
BY DEF Pays, Owes

LEMMA WritePays ==
  ASSUME Shape, Shape', NEW t \in Threads, Doing(t), WriteByte(t)
  PROVE  Pays(t)
<1> USE VEHAssumption
<1>1. /\ pc[t] = "write" /\ pc'[t] = "restore" /\ doing' = doing /\ within' = within
      /\ hooked' = hooked
  BY DEF WriteByte, Goto, Shape
<1>2. doing[t].hook \in Hooks /\ doing[t].for \in Locked \cup {"rearm"}
  BY <1>1 DEF Doing, Writing
<1>3. code' = [code EXCEPT ![Src[doing[t].hook]] = NewByte(t)]
  BY DEF WriteByte, Target
<1> SUFFICES ASSUME NEW h \in hooked', Method[h] = "INT3_BP", code'[Src[h]] # Int3
             PROVE  Owes(t, h)' \/ (h \in hooked /\ code[Src[h]] # Int3 /\ ~Owes(t, h))
  BY DEF Pays
<1>4. CASE doing[t].hook = h /\ doing[t].for \in {"unhook", "handler"}
  BY <1>1, <1>4 DEF Owes
<1>5. CASE doing[t].hook = h /\ doing[t].for \in {"hook", "rearm"}
  <2>1. NewByte(t) = Int3
    BY <1>5 DEF NewByte
  <2>2. code'[Src[h]] = Int3
    BY <1>2, <1>3, <1>5, <2>1 DEF Shape
  <2> QED BY <2>2
<1>6. CASE doing[t].hook # h
  <2>1. h \in Hooks /\ Src[h] # Src[doing[t].hook]
    BY <1>1, <1>2, <1>6 DEF Shape
  <2>2. code[Src[h]] # Int3
    BY <1>2, <1>3, <2>1 DEF Shape
  <2>3. ASSUME Owes(t, h) PROVE Owes(t, h)'
    <3>1. PICK i \in 1 .. Len(within[t]) : within[t][i] = h
      BY <1>1, <2>3 DEF Owes
    <3>2. ~(doing[t].for = "rearm" /\ i = Len(within[t]))
      BY <1>1, <1>6, <3>1 DEF Doing, Writing, Last
    <3> QED BY <1>1, <3>1, <3>2 DEF Owes
  <2> QED BY <1>1, <2>2, <2>3
<1> QED BY <1>2, <1>4, <1>5, <1>6 DEF Locked
LEMMA ProceedPays ==
  ASSUME Shape, Shape', NEW t \in Threads, Doing(t),
         Proceed(t) \/ HandlerRelock(t)
  PROVE  Pays(t)
<1> USE DEF Shape, Goto, machine, shared
<1>1. CASE Fetch(t)
  BY <1>1, StayPays DEF Fetch, HitRegister, HitGuard, HitBreakpoint, RunOriginal, Raise
<1>2. CASE Protect(t) \/ WriteFault(t)
  BY <1>2, StayPays DEF Protect, WriteFault
<1>3. CASE WriteByte(t)
  BY <1>3, WritePays
<1>4. CASE RestoreHook(t)
  <2>1. /\ pc[t] = "restore" /\ doing[t].for = "hook" /\ pc'[t] = "user"
        /\ code' = code /\ within' = within /\ hooked' = hooked \cup {doing[t].hook}
    BY <1>4 DEF RestoreHook, Restored, Installed
  <2>2. code[Src[doing[t].hook]] = Int3
    BY <2>1 DEF Doing
  <2> QED BY <2>1, <2>2 DEF Pays, Owes
<1>5. CASE RestoreUnHook(t)
  <2>1. /\ pc[t] = "restore" /\ doing[t].for = "unhook" /\ pc'[t] = "user"
        /\ code' = code /\ within' = within /\ hooked' = hooked \ {doing[t].hook}
    BY <1>5 DEF RestoreUnHook, Restored, Removed
  <2> QED BY <2>1 DEF Pays, Owes
<1>6. CASE RestoreHandler(t)
  <2>1. doing[t].hook \in Hooks /\ EnterCallback(t, doing[t].hook)
    BY <1>6 DEF RestoreHandler, Restored, Doing, Writing
  <2>2. doing[t] = [hook |-> doing[t].hook, for |-> "handler"]
    BY <1>6 DEF RestoreHandler, Restored, Jobs
  <2>3. pc'[t] = "callback" /\ UNCHANGED <<code, hooked>>
    BY <1>6 DEF RestoreHandler, Restored
  <2> HIDE DEF Shape
  <2> QED BY <2>1, <2>2, <2>3, EnterPays
<1>7. CASE RestoreRearm(t)
  <2>1. within[t] # <<>>
    BY <1>7 DEF RestoreRearm, Restored, Doing, Writing
  <2>2. /\ LeaveCallback(t) /\ pc[t] = "restore" /\ doing[t].for = "rearm"
        /\ UNCHANGED <<code, hooked>>
    BY <1>7 DEF RestoreRearm, Restored
  <2> HIDE DEF Shape
  <2> QED BY <2>1, <2>2, LeavePays
<1>8. CASE HandlerLock(t) \/ HandlerRelock(t) \/ Unhandled(t)
  BY <1>8, StayPays DEF HandlerLock, HandlerRelock, Unhandled
<1>9. CASE HandleBreakpoint(t)
  BY <1>9, StayPays DEF HandleBreakpoint
<1>10. CASE HandleStep(t)
  <2>1. PICK i \in 1 .. Len(targets) : EnterCallback(t, targets[i].hook)
    BY <1>10 DEF HandleStep
  <2>2. targets[i] \in Contexts
    OBVIOUS
  <2>3. targets[i].hook \in Hooks
    BY <2>2 DEF Contexts
  <2>4. pc[t] = "search" /\ pc'[t] = "callback" /\ UNCHANGED <<code, hooked>>
    BY <1>10 DEF HandleStep
  <2> HIDE DEF Shape
  <2> QED BY <2>1, <2>3, <2>4, EnterPays
<1>11. CASE HandleGuard(t)
  <2>1. PICK i \in 1 .. Len(targets) :
          \/ Goto(t, "search", "callback") /\ EnterCallback(t, targets[i].hook)
          \/ Goto(t, "search", "fetch") /\ UNCHANGED within
    BY <1>11 DEF HandleGuard
  <2>2. targets[i] \in Contexts
    OBVIOUS
  <2>3. targets[i].hook \in Hooks
    BY <2>2 DEF Contexts
  <2>4. UNCHANGED <<code, hooked>>
    BY <1>11 DEF HandleGuard
  <2>5. CASE pc[t] = "search" /\ pc'[t] = "fetch" /\ UNCHANGED within
    BY <2>4, <2>5, StayPays
  <2>6. CASE pc[t] = "search" /\ pc'[t] = "callback" /\ EnterCallback(t, targets[i].hook)
    <3> HIDE DEF Shape
    <3> QED BY <2>3, <2>4, <2>6, EnterPays
  <2> QED BY <2>1, <2>5, <2>6
<1>12. CASE CallOriginal(t)
  BY <1>12, StayPays DEF CallOriginal
<1>13. CASE RearmBreakpoint(t)
  BY <1>13, StayPays DEF RearmBreakpoint
<1>14. CASE RearmGuard(t) \/ RearmNothing(t)
  <2>1. /\ LeaveCallback(t) /\ pc[t] = "return" /\ Method[Last(within[t])] # "INT3_BP"
        /\ UNCHANGED <<code, hooked>>
    BY <1>14 DEF RearmGuard, RearmNothing
  <2>2. within[t] # <<>>
    BY <2>1 DEF Doing
  <2> HIDE DEF Shape
  <2> QED BY <2>1, <2>2, LeavePays
<1> QED
  BY <1>1, <1>2, <1>3, <1>4, <1>5, <1>6, <1>7, <1>8, <1>9, <1>10, <1>11, <1>12, <1>13, <1>14
     DEF Proceed, Restore, Handle, Rearm

LEMMA ChoosePays ==
  ASSUME Shape, Shape', NEW t \in Threads, Choose(t)
  PROVE  Pays(t)
<1> USE DEF Shape, Goto, machine, shared
<1>1. ASSUME NEW f \in Functions, CallFunction(t, f) PROVE Pays(t)
  BY <1>1, StayPays DEF CallFunction
<1>2. ASSUME NEW h \in Hooks, HookBreakpoint(t, h) \/ UnHookBreakpoint(t, h) PROVE Pays(t)
  BY <1>2, StayPays DEF HookBreakpoint, UnHookBreakpoint
<1>3. ASSUME NEW h \in Hooks, HookRegister(t, h) \/ HookGuard(t, h) PROVE Pays(t)
  <2>1. /\ Method[h] # "INT3_BP" /\ pc[t] = "user" /\ pc'[t] = "user"
        /\ code' = code /\ within' = within /\ hooked' = hooked \cup {h}
    BY <1>3 DEF HookRegister, HookGuard, MayHook, Installed
  <2> QED BY <2>1, StayPays
<1>4. ASSUME NEW h \in Hooks, UnHookRegister(t, h) \/ UnHookRead(t, h) \/ UnHookGuard(t, h)
      PROVE  Pays(t)
  <2>1. /\ pc[t] = "user" /\ pc'[t] \in {"user", "trap"}
        /\ code' = code /\ within' = within /\ hooked' \subseteq hooked
    BY <1>4 DEF UnHookRegister, UnHookRead, UnHookGuard, Removed
  <2> QED BY <2>1, StayPays
<1> QED BY <1>1, <1>2, <1>3, <1>4 DEF Choose

-----------------------------------------------------------------------------
(***************************************************************************)
(* The invariant is inductive.                                             *)
(***************************************************************************)
LEMMA InitArmInv == Init => ArmInv
<1> SUFFICES ASSUME Init PROVE ArmInv
  OBVIOUS
<1> USE VEHAssumption DEF Init
<1>1. Shape
  BY DEF Shape, Contexts, Words, Bytes, Labels, Jobs
<1>2. MutexHeld /\ DoingOK
  BY DEF MutexHeld, Holds, DoingOK, Doing, Writing
<1>3. Owed
  BY DEF Owed
<1> QED BY <1>1, <1>2, <1>3 DEF ArmInv

LEMMA StepArmInv == ArmInv /\ [Next]_vars => ArmInv'
<1> SUFFICES ASSUME ArmInv, [Next]_vars PROVE ArmInv'
  OBVIOUS
<1>1. CASE UNCHANGED vars
  BY <1>1 DEF vars, ArmInv, Shape, MutexHeld, Holds, DoingOK, Doing, Owed, Owes
<1>2. ASSUME NEW t \in Threads, Proceed(t) \/ HandlerRelock(t) \/ Choose(t) PROVE ArmInv'
  <2>1. Shape /\ Holds(t) /\ Doing(t)
    BY DEF ArmInv, MutexHeld, DoingOK
  <2>2. Shape' /\ OnlyThread(t)
    BY <1>2, ProceedShape, ChooseShape DEF ArmInv
  <2>3. Respects(t) /\ Holds(t)' /\ Doing(t)' /\ Pays(t)
    BY <1>2, <2>1, <2>2, ProceedLocks, ChooseLocks, ProceedDoing, ChooseDoing,
       ProceedPays, ChoosePays
  <2>4. ASSUME NEW u \in Threads, u # t PROVE Holds(u)' /\ Doing(u)' /\ \A h : Owes(u, h)' = Owes(u, h)
    <3>1. pc'[u] = pc[u] /\ doing'[u] = doing[u] /\ within'[u] = within[u]
      BY <2>2, <2>4 DEF OnlyThread
    <3>2. Holds(u) /\ Doing(u)
      BY DEF ArmInv, MutexHeld, DoingOK
    <3>3. mutex = u => mutex' = u /\ targets' = targets /\ \A f \in Functions : code'[f] \in {code[f], Int3}
      BY <2>3, <2>4, VEHAssumption DEF Respects
    <3>4. Holds(u)'
      BY <3>1, <3>2, <3>3 DEF Holds
    <3>5. pc[u] \in Writing => doing[u].hook \in Hooks /\ Src[doing[u].hook] \in Functions
      BY <3>2, VEHAssumption DEF Doing
    <3>6. Doing(u)'
      BY <3>1, <3>2, <3>3, <3>5 DEF Doing, Holds, Writing, Locked
    <3>7. \A h : Owes(u, h)' = Owes(u, h)
      BY <3>1 DEF Owes
    <3> QED BY <3>4, <3>6, <3>7
  <2>5. MutexHeld' /\ DoingOK'
    BY <2>3, <2>4 DEF MutexHeld, DoingOK
  <2>6. ASSUME NEW h \in hooked', Method[h] = "INT3_BP", code'[Src[h]] # Int3
        PROVE  \E u \in Threads : Owes(u, h)'
    <3>1. CASE Owes(t, h)'
      BY <3>1
    <3>2. CASE h \in hooked /\ code[Src[h]] # Int3 /\ ~Owes(t, h)
      <4>1. PICK u \in Threads : Owes(u, h)
        BY <2>6, <3>2 DEF ArmInv, Owed
      <4>2. u # t
        BY <3>2, <4>1
      <4> QED BY <2>4, <4>1, <4>2
    <3> QED BY <2>3, <2>6, <3>1, <3>2 DEF Pays
  <2> QED BY <2>2, <2>5, <2>6 DEF ArmInv, Owed
<1> QED BY <1>1, <1>2 DEF Next

\* However many threads hit a breakpoint, arm it again, install and remove it: it is there
\* whenever nobody is in its callback or its handler, so that no call slips past a hook.
THEOREM BreakpointsArmed == Spec => []Armed
<1>1. ArmInv => Armed
  <2> SUFFICES ASSUME ArmInv, NEW h \in hooked, Method[h] = "INT3_BP",
                      \A t \in Threads : ~Busy(t, h)
               PROVE  code[Src[h]] = Int3
    BY DEF Armed
  <2>1. \A t \in Threads : ~Owes(t, h)
    BY DEF Owes, Busy
  <2> QED BY <2>1 DEF ArmInv, Owed
<1> QED BY InitArmInv, StepArmInv, <1>1, PTL DEF Spec-----------------------------------------------------------------------------
(***************************************************************************)
(* The types.  What is written over a breakpoint must be a byte that was   *)
(* saved when it was set, and no index of a debug register or nothing.     *)
(***************************************************************************)
Saved ==
  /\ code \in [Functions -> Bytes]
  /\ \A h \in Hooks : Method[h] = "INT3_BP" /\ h \in hooked => storage[h] \in Bytes
  /\ \A i \in 1 .. Len(targets) :
       /\ targets[i].hook \in hooked
       /\ Method[targets[i].hook] = "INT3_BP" => targets[i].byte \in Bytes
  /\ Unique(targets)

\* Whose byte thread t writes.
Task(t) ==
  pc[t] \in Writing =>
    /\ Method[doing[t].hook] = "INT3_BP"
    /\ doing[t].for \in {"hook", "unhook"} => t = Installer
    /\ doing[t].for = "hook" => doing[t].hook \notin hooked
    /\ doing[t].for = "unhook" => storage[doing[t].hook] \in Bytes
    /\ pc[t] = "restore" /\ doing[t].for = "hook" => storage[doing[t].hook] \in Bytes

\* The variables that are written from constants only.
Machine ==
  /\ prot \in [Pages -> Protections]
  /\ debug \in [Threads -> [Registers -> Functions \cup {None}]]
  /\ at \in [Threads -> Functions \cup {None}]
  /\ why \in [Threads -> {"none", "BREAKPOINT", "SINGLE_STEP", "GUARD_PAGE"}]
  /\ old \in [Threads -> Protections]
  /\ calls \in [Threads -> 0 .. MaxCalls]
  /\ crashed \in BOOLEAN

TypeInv == ArmInv /\ Saved /\ Machine /\ \A t \in Threads : Task(t)

\* Every function has its page.
LEMMA PageOf == \A f \in Functions : Page[f] \in Pages
BY DEF Pages

LEMMA ProceedMachine ==
  ASSUME Shape, DoingOK, Machine, NEW t \in Threads, Proceed(t) \/ HandlerRelock(t)
  PROVE  Machine'
<1> USE VEHAssumption, PageOf DEF Machine, Goto, machine, shared, Protections
<1>1. CASE Fetch(t)
  <2>1. CASE HitRegister(t) \/ HitBreakpoint(t)
    BY <2>1 DEF HitRegister, HitBreakpoint, Raise
  <2>2. CASE HitGuard(t)
    BY <2>2 DEF HitGuard, Raise
  <2>3. CASE RunOriginal(t)
    BY <2>3 DEF RunOriginal
  <2> QED BY <1>1, <2>1, <2>2, <2>3 DEF Fetch
<1>2. CASE Protect(t)
  <2>1. doing[t].hook \in Hooks
    BY <1>2 DEF Protect, DoingOK, Doing, Writing
  <2>2. Page[Src[doing[t].hook]] \in Pages
    BY <2>1
  <2> QED BY <1>2, <2>2 DEF Protect, Target
<1>3. CASE WriteByte(t)
  BY <1>3 DEF WriteByte
<1>4. CASE WriteFault(t)
  BY <1>4 DEF WriteFault, Crash
<1>5. CASE Restore(t)
  BY <1>5 DEF Restore, RestoreHook, RestoreUnHook, RestoreHandler, RestoreRearm, Restored
<1>6. CASE HandlerLock(t) \/ HandlerRelock(t) \/ HandleBreakpoint(t) \/ HandleGuard(t)
  BY <1>6 DEF Crash, HandlerLock, HandlerRelock, HandleBreakpoint, HandleGuard
<1>7. CASE HandleStep(t)
  <2>1. PICK i \in 1 .. Len(targets) : debug' = [debug EXCEPT ![t][targets[i].byte] = None]
    BY <1>7 DEF HandleStep
  <2>2. debug' \in [Threads -> [Registers -> Functions \cup {None}]]
    BY <2>1
  <2> QED BY <1>7, <2>2 DEF HandleStep
<1>8. CASE Unhandled(t)
  BY <1>8 DEF Unhandled, Crash
<1>9. CASE CallOriginal(t)
  <2>1. within[t] # <<>> /\ within[t] \in Seq(Hooks)
    BY <1>9 DEF CallOriginal, DoingOK, Doing, Shape
  <2>2. Src[Last(within[t])] \in Functions
    BY <2>1, Fronted
  <2> QED BY <1>9, <2>2 DEF CallOriginal
<1>10. CASE Rearm(t)
  BY <1>10 DEF Rearm, RearmBreakpoint, RearmGuard, RearmNothing
<1> QED
  BY <1>1, <1>2, <1>3, <1>4, <1>5, <1>6, <1>7, <1>8, <1>9, <1>10 DEF Proceed, Handle

LEMMA ChooseMachine ==
  ASSUME Shape, Machine, NEW t \in Threads, Choose(t)
  PROVE  Machine'
<1> USE VEHAssumption, PageOf DEF Machine, Goto, machine, shared, Protections
<1>1. ASSUME NEW f \in Functions, CallFunction(t, f) PROVE Machine'
  <2>1. calls[t] + 1 \in 0 .. MaxCalls
    BY <1>1 DEF CallFunction
  <2>2. calls' \in [Threads -> 0 .. MaxCalls]
    BY <1>1, <2>1 DEF CallFunction
  <2> QED BY <1>1, <2>2 DEF CallFunction
<1>2. ASSUME NEW h \in Hooks, HookBreakpoint(t, h) \/ UnHookBreakpoint(t, h) \/ UnHookRead(t, h)
      PROVE  Machine'
  BY <1>2 DEF HookBreakpoint, UnHookBreakpoint, UnHookRead
<1>3. ASSUME NEW h \in Hooks, HookRegister(t, h) PROVE Machine'
  <2>1. PICK r \in Registers : debug' = [debug EXCEPT ![t][r] = Src[h]]
    BY <1>3 DEF HookRegister
  <2>2. debug' \in [Threads -> [Registers -> Functions \cup {None}]]
    BY <2>1
  <2> QED BY <1>3, <2>2 DEF HookRegister
<1>4. ASSUME NEW h \in Hooks, UnHookRegister(t, h) PROVE Machine'
  <2>1. debug' = [debug EXCEPT ![t][storage[h]] = None]
    BY <1>4 DEF UnHookRegister
  <2>2. debug' \in [Threads -> [Registers -> Functions \cup {None}]]
    BY <2>1
  <2> QED BY <1>4, <2>2 DEF UnHookRegister
<1>5. ASSUME NEW h \in Hooks, HookGuard(t, h) \/ UnHookGuard(t, h) PROVE Machine'
  <2>1. CASE HookGuard(t, h)
    BY <2>1 DEF HookGuard
  <2>2. CASE UnHookGuard(t, h)
    BY <2>2 DEF UnHookGuard
  <2> QED BY <1>5, <2>1, <2>2
<1> QED BY <1>1, <1>2, <1>3, <1>4, <1>5 DEF Choose
LEMMA InstalledSaved ==
  ASSUME Shape, Saved, NEW h \in Hooks, h \notin hooked, NEW byte \in Words, Installed(h, byte),
         code' = code, Method[h] = "INT3_BP" => byte \in Bytes /\ storage'[h] \in Bytes,
         \A g \in Hooks : g # h => storage'[g] = storage[g]
  PROVE  Saved'
<1> DEFINE c == [hook |-> h, byte |-> byte]
<1>1. /\ targets' = Append(targets, c) /\ hooked' = hooked \cup {h}
      /\ targets \in Seq(Contexts) /\ c \in Contexts
  BY DEF Installed, Shape, Contexts
<1>2. /\ Len(targets) \in Nat /\ Len(targets') = Len(targets) + 1
      /\ \A i \in 1 .. Len(targets) : targets'[i] = targets[i]
      /\ targets'[Len(targets) + 1] = c
  BY <1>1
<1>3. \A i \in 1 .. Len(targets') : i \in 1 .. Len(targets) \/ i = Len(targets) + 1
  BY <1>2
<1>4. c.hook = h /\ c.byte = byte
  OBVIOUS
<1> HIDE DEF c
<1>5. \A g \in Hooks : Method[g] = "INT3_BP" /\ g \in hooked' => storage'[g] \in Bytes
  BY <1>1 DEF Saved
<1>6. ASSUME NEW i \in 1 .. Len(targets')
      PROVE  /\ targets'[i].hook \in hooked'
             /\ Method[targets'[i].hook] = "INT3_BP" => targets'[i].byte \in Bytes
  BY <1>1, <1>2, <1>3, <1>4 DEF Saved
<1>7. ASSUME NEW i \in 1 .. Len(targets'), NEW j \in 1 .. Len(targets'),
             targets'[i].hook = targets'[j].hook
      PROVE  i = j
  <2>1. \A k \in 1 .. Len(targets) : targets[k].hook # h
    BY DEF Saved
  <2>2. CASE i \in 1 .. Len(targets) /\ j \in 1 .. Len(targets)
    BY <1>2, <1>7, <2>2 DEF Saved, Unique
  <2>3. CASE i = Len(targets) + 1 \/ j = Len(targets) + 1
    BY <1>2, <1>3, <1>4, <1>7, <2>1, <2>3
  <2> QED BY <1>3, <2>2, <2>3
<1> QED BY <1>5, <1>6, <1>7 DEF Saved, Unique

LEMMA RemovedSaved ==
  ASSUME Shape, Saved, NEW h, Removed(h), code' = code, storage' = storage
  PROVE  Saved'
<1>1. targets' = Without(targets, h) /\ hooked' = hooked \ {h} /\ targets \in Seq(Contexts)
  BY DEF Removed, Shape
<1>2. /\ Unique(targets')
      /\ \A i \in 1 .. Len(targets') :
           targets'[i].hook # h /\ \E j \in 1 .. Len(targets) : targets'[i] = targets[j]
  BY <1>1, ErasedOne DEF Saved
<1>3. \A g \in Hooks : Method[g] = "INT3_BP" /\ g \in hooked' => storage'[g] \in Bytes
  BY <1>1 DEF Saved
<1>4. ASSUME NEW i \in 1 .. Len(targets')
      PROVE  /\ targets'[i].hook \in hooked'
             /\ Method[targets'[i].hook] = "INT3_BP" => targets'[i].byte \in Bytes
  BY <1>1, <1>2 DEF Saved
<1> QED BY <1>2, <1>3, <1>4 DEF Saved, Unique

\* Only the installer changes what is hooked and what was saved.
SavedStep(t) ==
  /\ Saved' /\ Task(t)'
  /\ t # Installer => UNCHANGED <<targets, storage, hooked>>

\* The byte that is written is a breakpoint or one that was saved.
LEMMA NewByteSaved ==
  ASSUME Shape, Saved, NEW t \in Threads, Doing(t), Task(t), pc[t] = "write"
  PROVE  NewByte(t) \in Bytes
<1>1. doing[t].hook \in Hooks /\ doing[t].for \in Locked \cup {"rearm"}
  BY DEF Doing, Writing
<1>2. CASE doing[t].for \in {"hook", "rearm"}
  BY <1>2 DEF NewByte, Bytes
<1>3. CASE doing[t].for = "unhook"
  BY <1>3 DEF NewByte, Task, Writing
<1>4. CASE doing[t].for = "handler"
  <2>1. PICK i \in 1 .. Len(targets) : targets[i].hook = doing[t].hook
    BY <1>4 DEF Doing
  <2> DEFINE c == CHOOSE c \in {targets[j] : j \in 1 .. Len(targets)} : c.hook = doing[t].hook
  <2>2. c \in {targets[j] : j \in 1 .. Len(targets)} /\ c.hook = doing[t].hook
    BY <2>1
  <2>3. NewByte(t) = c.byte
    BY <1>4 DEF NewByte
  <2> HIDE DEF c
  <2>4. PICK j \in 1 .. Len(targets) : c = targets[j]
    BY <2>2
  <2>5. Method[doing[t].hook] = "INT3_BP"
    BY DEF Task, Writing
  <2> QED BY <2>2, <2>3, <2>4, <2>5 DEF Saved
<1> QED BY <1>1, <1>2, <1>3, <1>4 DEF Locked
LEMMA ProceedSaved ==
  ASSUME Shape, Shape', Saved, Machine, NEW t \in Threads, Doing(t), Task(t),
         Proceed(t) \/ HandlerRelock(t)
  PROVE  SavedStep(t)
<1> USE VEHAssumption DEF Shape, Goto, machine, shared, SavedStep
<1>1. CASE Fetch(t)
  BY <1>1 DEF Fetch, HitRegister, HitGuard, HitBreakpoint, RunOriginal, Raise, Saved, Task, Writing
<1>2. CASE Protect(t) \/ WriteFault(t)
  BY <1>2 DEF Protect, WriteFault, Saved, Task, Writing
<1>3. CASE WriteByte(t)
  <2>1. NewByte(t) \in Bytes
    BY <1>3, NewByteSaved DEF WriteByte
  <2>2. doing[t].hook \in Hooks /\ Src[doing[t].hook] \in Functions
    BY <1>3 DEF WriteByte, Doing, Writing
  <2>3. code' \in [Functions -> Bytes] /\ code[Src[doing[t].hook]] \in Bytes
    BY <1>3, <2>1, <2>2 DEF WriteByte, Saved
  <2>4. \A h \in Hooks : storage'[h] = storage[h] \/ storage'[h] \in Bytes
    BY <1>3, <2>3 DEF WriteByte, Target
  <2>5. doing[t].for = "hook" => storage'[doing[t].hook] \in Bytes /\ t = Installer
    BY <1>3, <2>2, <2>3 DEF WriteByte, Target, Task, Writing
  <2>6. UNCHANGED <<doing, targets, hooked>> /\ pc[t] = "write" /\ pc'[t] = "restore"
    BY <1>3 DEF WriteByte
  <2>7. doing[t].for # "hook" => storage' = storage
    BY <1>3 DEF WriteByte
  <2>8. Saved'
    BY <2>3, <2>4, <2>6 DEF Saved, Unique
  <2>9. Task(t)'
    BY <2>2, <2>4, <2>5, <2>6 DEF Task, Writing
  <2> QED BY <2>5, <2>6, <2>7, <2>8, <2>9
<1>4. CASE RestoreHook(t)
  <2>1. /\ doing[t].hook \in Hooks /\ doing[t].hook \notin hooked /\ t = Installer
        /\ storage[doing[t].hook] \in Bytes
    BY <1>4 DEF RestoreHook, Restored, Doing, Task, Writing
  <2>2. /\ Installed(doing[t].hook, storage[doing[t].hook]) /\ UNCHANGED <<code, storage>>
        /\ pc'[t] = "user"
    BY <1>4 DEF RestoreHook, Restored
  <2>3. Saved'
    BY <2>1, <2>2, InstalledSaved DEF Words
  <2> QED BY <2>1, <2>2, <2>3 DEF Task, Writing
<1>5. CASE RestoreUnHook(t)
  <2>1. /\ Removed(doing[t].hook) /\ UNCHANGED <<code, storage>> /\ t = Installer
        /\ pc'[t] = "user"
    BY <1>5 DEF RestoreUnHook, Restored, Task, Writing
  <2> QED BY <2>1, RemovedSaved DEF Task, Writing
<1>6. CASE RestoreHandler(t)
  BY <1>6 DEF RestoreHandler, Restored, Saved, Task, Writing
<1>7. CASE RestoreRearm(t)
  BY <1>7 DEF RestoreRearm, Restored, LeaveCallback, Saved, Task, Writing
<1>8. CASE HandlerLock(t) \/ HandlerRelock(t) \/ Unhandled(t)
  BY <1>8 DEF HandlerLock, HandlerRelock, Unhandled, Saved, Task, Writing
<1>9. CASE HandleBreakpoint(t)
  <2>1. PICK i \in 1 .. Len(targets) :
          Found(t, i) /\ Begin(t, targets[i].hook, "handler")
    BY <1>9 DEF HandleBreakpoint
  <2>2. targets[i] \in Contexts
    OBVIOUS
  <2>3. targets[i].hook \in Hooks
    BY <2>2 DEF Contexts
  <2>4. Raises(targets[i].hook) = "BREAKPOINT"
    BY <1>9, <2>1 DEF HandleBreakpoint, Found, Answers
  <2>5. Method[targets[i].hook] = "INT3_BP"
    BY <2>3, <2>4 DEF Raises, Methods
  <2>6. doing'[t] = [hook |-> targets[i].hook, for |-> "handler"] /\ pc'[t] = "protect"
    BY <1>9, <2>1 DEF HandleBreakpoint, Begin
  <2>7. UNCHANGED <<code, targets, storage, hooked>>
    BY <1>9 DEF HandleBreakpoint
  <2>8. Saved'
    BY <2>7 DEF Saved, Unique
  <2>9. Task(t)'
    BY <2>5, <2>6 DEF Task
  <2> QED BY <2>7, <2>8, <2>9
<1>10. CASE HandleStep(t)
  BY <1>10 DEF HandleStep, Saved, Task, Writing
<1>11. CASE HandleGuard(t)
  BY <1>11 DEF HandleGuard, Saved, Task, Writing
<1>12. CASE CallOriginal(t)
  BY <1>12 DEF CallOriginal, Saved, Task, Writing
<1>13. CASE RearmBreakpoint(t)
  BY <1>13 DEF RearmBreakpoint, Begin, Saved, Task, Writing
<1>14. CASE RearmGuard(t) \/ RearmNothing(t)
  BY <1>14 DEF RearmGuard, RearmNothing, LeaveCallback, Saved, Task, Writing
<1> QED
  BY <1>1, <1>2, <1>3, <1>4, <1>5, <1>6, <1>7, <1>8, <1>9, <1>10, <1>11, <1>12, <1>13, <1>14
     DEF Proceed, Restore, Handle, Rearm

LEMMA ChooseSaved ==
  ASSUME Shape, Shape', Saved, NEW t \in Threads, Choose(t)
  PROVE  SavedStep(t)
<1> USE VEHAssumption DEF Shape, Goto, machine, shared, SavedStep
<1>1. ASSUME NEW f \in Functions, CallFunction(t, f) PROVE SavedStep(t)
  BY <1>1 DEF CallFunction, Saved, Task, Writing
<1>2. ASSUME NEW h \in Hooks, HookBreakpoint(t, h) PROVE SavedStep(t)
  BY <1>2 DEF HookBreakpoint, MayHook, Begin, Saved, Task, Writing
<1>3. ASSUME NEW h \in Hooks, UnHookBreakpoint(t, h) PROVE SavedStep(t)
  BY <1>3 DEF UnHookBreakpoint, MayUnHook, Begin, Saved, Task, Writing
<1>4. ASSUME NEW h \in Hooks, HookRegister(t, h) PROVE SavedStep(t)
  <2>1. PICK r \in Registers : storage' = [storage EXCEPT ![h] = r] /\ Installed(h, r)
    BY <1>4 DEF HookRegister
  <2>2. /\ h \notin hooked /\ Method[h] = "HARDWARE_BP" /\ t = Installer /\ code' = code
        /\ pc'[t] = "user"
    BY <1>4 DEF HookRegister, MayHook
  <2>3. r \in Words /\ \A g \in Hooks : g # h => storage'[g] = storage[g]
    BY <2>1 DEF Words
  <2>4. Saved'
    BY <2>1, <2>2, <2>3, InstalledSaved
  <2> QED BY <2>2, <2>4 DEF Task, Writing
<1>5. ASSUME NEW h \in Hooks, HookGuard(t, h) PROVE SavedStep(t)
  <2>1. /\ h \notin hooked /\ Method[h] = "GUARD_PAGE" /\ t = Installer
        /\ UNCHANGED <<code, storage>> /\ Installed(h, storage[h]) /\ pc'[t] = "user"
    BY <1>5 DEF HookGuard, MayHook
  <2>2. Saved'
    BY <2>1, InstalledSaved
  <2> QED BY <2>1, <2>2 DEF Task, Writing
<1>6. ASSUME NEW h \in Hooks, UnHookRegister(t, h) \/ UnHookRead(t, h) PROVE SavedStep(t)
  <2>1. /\ Removed(h) /\ t = Installer /\ UNCHANGED <<code, storage>> /\ pc'[t] = "user"
    BY <1>6 DEF UnHookRegister, UnHookRead, MayUnHook
  <2> QED BY <2>1, RemovedSaved DEF Task, Writing
<1>7. ASSUME NEW h \in Hooks, UnHookGuard(t, h) PROVE SavedStep(t)
  BY <1>7 DEF UnHookGuard, Saved, Task, Writing
<1> QED BY <1>1, <1>2, <1>3, <1>4, <1>5, <1>6, <1>7 DEF Choose

LEMMA InitTypeInv == Init => TypeInv
<1> SUFFICES ASSUME Init PROVE TypeInv
  OBVIOUS
<1>1. ArmInv
  BY InitArmInv
<1>2. Saved /\ \A t \in Threads : Task(t)
  BY DEF Init, Saved, Unique, Task, Writing, Bytes
<1>3. Machine
  <2>1. /\ prot \in [Pages -> Protections] /\ at \in [Threads -> Functions \cup {None}]
        /\ old \in [Threads -> Protections] /\ crashed \in BOOLEAN
        /\ why \in [Threads -> {"none", "BREAKPOINT", "SINGLE_STEP", "GUARD_PAGE"}]
    BY DEF Init, Protections
  <2>2. debug \in [Threads -> [Registers -> Functions \cup {None}]]
    BY DEF Init
  <2>3. calls \in [Threads -> 0 .. MaxCalls]
    <3>1. 0 \in 0 .. MaxCalls
      BY VEHAssumption
    <3> QED BY <3>1 DEF Init
  <2> QED BY <2>1, <2>2, <2>3 DEF Machine
<1> QED BY <1>1, <1>2, <1>3 DEF TypeInv

LEMMA StepTypeInv == TypeInv /\ [Next]_vars => TypeInv'
<1> SUFFICES ASSUME TypeInv, [Next]_vars PROVE TypeInv'
  OBVIOUS
<1>1. ArmInv /\ ArmInv' /\ Shape /\ Shape'
  BY StepArmInv DEF TypeInv, ArmInv
<1>2. CASE UNCHANGED vars
  BY <1>1, <1>2 DEF vars, TypeInv, Saved, Unique, Machine, Task
<1>3. ASSUME NEW t \in Threads, Proceed(t) \/ HandlerRelock(t) \/ Choose(t) PROVE TypeInv'
  <2>1. Saved /\ Machine /\ DoingOK /\ Doing(t) /\ Task(t)
    BY <1>1 DEF TypeInv, ArmInv, DoingOK
  <2>2. Machine'
    BY <1>1, <1>3, <2>1, ProceedMachine, ChooseMachine
  <2>3. SavedStep(t)
    BY <1>1, <1>3, <2>1, ProceedSaved, ChooseSaved
  <2>4. OnlyThread(t)
    BY <1>1, <1>3, <2>1, ProceedShape, ChooseShape
  <2>5. ASSUME NEW u \in Threads, u # t PROVE Task(u)'
    <3>1. Task(u) /\ pc'[u] = pc[u] /\ doing'[u] = doing[u]
      BY <2>4, <2>5 DEF TypeInv, OnlyThread
    <3>2. u = Installer => UNCHANGED <<storage, hooked>>
      BY <2>3, <2>5 DEF SavedStep
    <3> QED BY <3>1, <3>2 DEF Task, Writing
  <2> QED BY <1>1, <2>2, <2>3, <2>5 DEF TypeInv, SavedStep
<1> QED BY <1>2, <1>3 DEF Next

\* The types of all that a process keeps, for any number of threads and hooks; of them it
\* takes an argument that no function is ever given a byte that Hook has not found there,
\* and that m_HookTargets has one context of a hook, whatever was set again or removed.
THEOREM HooksTyped == Spec => []TypeOK
<1>1. TypeInv => TypeOK
  BY DEF TypeInv, ArmInv, Shape, Saved, Unique, Machine, TypeOK, Contexts, Words, Targets
<1> QED BY InitTypeInv, StepTypeInv, <1>1, PTL DEF Spec-----------------------------------------------------------------------------
(***************************************************************************)
(* One thread that hooks, calls and unhooks.                               *)
(***************************************************************************)
OnGuard(p) == \E h \in hooked : Method[h] = "GUARD_PAGE" /\ Page[Src[h]] = p

GuardPages == {Page[Src[h]] : h \in {h \in Hooks : Method[h] = "GUARD_PAGE"}}

\* m_HookTargets and the contexts agree, and what was under a breakpoint was no breakpoint.
Kept ==
  /\ \A h \in hooked : \E i \in 1 .. Len(targets) : targets[i].hook = h
  /\ \A i \in 1 .. Len(targets) : targets[i].byte = storage[targets[i].hook]
  /\ \A h \in hooked : Method[h] = "INT3_BP" => storage[h] = Original

\* Whatever can raise an exception is there on account of a hook that answers for it.
Traced ==
  /\ \A f \in Functions : code[f] # Original =>
       \/ \E h \in hooked : Method[h] = "INT3_BP" /\ Src[h] = f
       \/ /\ pc[Installer] = "restore" /\ doing[Installer].for = "hook"
          /\ Src[doing[Installer].hook] = f
  /\ \A r \in Registers : debug[Installer][r] # None =>
       \E h \in hooked :
         Method[h] = "HARDWARE_BP" /\ Src[h] = debug[Installer][r] /\ storage[h] = r
  /\ \A p \in Pages : prot[p] = "guard" => OnGuard(p)
  /\ \A p \in Pages \ GuardPages :
       prot[p] = "rx" \/ (pc[Installer] \in {"write", "restore"} /\ p = Page[Target(Installer)])

\* The write of a byte that is under way.
Update ==
  LET job == doing[Installer] IN
  /\ pc[Installer] \in Writing /\ job.for \in Locked => within[Installer] = <<>>
  /\ pc[Installer] \in Writing /\ job.for # "hook" => job.hook \in hooked
  /\ pc[Installer] \in {"protect", "write"} /\ job.for = "hook" => code[Src[job.hook]] = Original
  /\ pc[Installer] = "restore" /\ job.for = "hook" => storage[job.hook] = Original
  /\ pc[Installer] = "restore" /\ job.for \in {"unhook", "handler"} => code[Src[job.hook]] = Original
  /\ pc[Installer] \in {"write", "restore"} =>
       /\ prot[Page[Target(Installer)]] = "rwx"
       /\ old[Installer] = "guard" => OnGuard(Page[Target(Installer)])
       /\ Page[Target(Installer)] \notin GuardPages => old[Installer] = "rx"

\* The callback, if any: its own hook is disarmed until it returns.
InCallback ==
  within[Installer] # <<>> =>
    LET h == within[Installer][1] IN
    /\ Len(within[Installer]) = 1 /\ h \in hooked /\ pc[Installer] # "user"
    /\ pc[Installer] # "restore" => code[Src[h]] = Original
    /\ \A r \in Registers : debug[Installer][r] # Src[h]
    /\ pc[Installer] \in {"callback", "fetch"} /\ Method[h] = "GUARD_PAGE" =>
         prot[Page[Src[h]]] # "guard"
    /\ pc[Installer] \in {"fetch", "trap", "search"} => at[Installer] = Src[h]
    /\ pc[Installer] \in {"trap", "search"} =>
         why[Installer] = "GUARD_PAGE" /\ Method[h] # "GUARD_PAGE"

\* The exception, if any: some target answers.  UnHook of a guarded page raises one under
\* m_TargetMutex, and the handler does not get as far as its search.
InTrap ==
  /\ pc[Installer] = "fetch" => at[Installer] \in Functions
  /\ pc[Installer] = "search" \/ (pc[Installer] = "trap" /\ mutex = None) =>
       /\ at[Installer] \in Functions
       /\ \E i \in 1 .. Len(targets) : Answers(targets[i], Installer)
       /\ why[Installer] = "GUARD_PAGE" => prot[Page[at[Installer]]] # "guard"

Alive == ~crashed /\ pc[Installer] # "faulted"

Lone     == Alive /\ Kept /\ Traced /\ Update /\ InCallback /\ InTrap

\* The handler has locked m_TargetMutex under UnHook of an armed guarded page.
Ended    == crashed /\ pc[Installer] = "relocked"

AloneInv == TypeInv /\ (Lone \/ Ended)

\* What the types give the proofs below.
LEMMA LoneTypes ==
  ASSUME TypeInv
  PROVE  /\ code \in [Functions -> Bytes] /\ prot \in [Pages -> Protections]
         /\ debug \in [Threads -> [Registers -> Functions \cup {None}]]
         /\ targets \in Seq(Contexts) /\ storage \in [Hooks -> Words] /\ hooked \subseteq Hooks
         /\ pc \in [Threads -> Labels] /\ at \in [Threads -> Functions \cup {None}]
         /\ why \in [Threads -> {"none", "BREAKPOINT", "SINGLE_STEP", "GUARD_PAGE"}]
         /\ doing \in [Threads -> Jobs] /\ old \in [Threads -> Protections]
         /\ within \in [Threads -> Seq(Hooks)]
         /\ \A h \in Hooks : Src[h] \in Functions /\ Page[Src[h]] \in Pages /\ Method[h] \in Methods
         /\ \A g, h \in Hooks : Src[g] = Src[h] => g = h
         /\ \A i \in 1 .. Len(targets) : targets[i].hook \in hooked
         /\ Installer \in Threads /\ None \notin Functions /\ None # Installer
         /\ \A f \in Functions : Page[f] \in Pages
         /\ Doing(Installer) /\ Task(Installer)
BY VEHAssumption, PageOf DEF TypeInv, ArmInv, Shape, Saved, Machine, DoingOK

\* A function whose hook is no breakpoint, or that has none, starts with its own byte; and
\* a register traps nothing but the function of a hook of its kind.
LEMMA OneHook ==
  ASSUME TypeInv, Traced, pc[Installer] # "restore" \/ doing[Installer].for # "hook", NEW h \in Hooks
  PROVE  /\ Method[h] # "INT3_BP" \/ h \notin hooked => code[Src[h]] = Original
         /\ Method[h] # "HARDWARE_BP" \/ h \notin hooked =>
              \A r \in Registers : debug[Installer][r] # Src[h]
         /\ \A r \in Registers : debug[Installer][r] = Src[h] => storage[h] = r
<1>1. /\ \A g \in Hooks : Src[g] \in Functions
      /\ \A g, k \in Hooks : Src[g] = Src[k] => g = k
      /\ hooked \subseteq Hooks /\ None \notin Functions
  BY LoneTypes
<1> QED BY <1>1 DEF Traced

\* A thread in a callback is in that of one hook.
LEMMA OneCallback ==
  ASSUME TypeInv, InCallback, within[Installer] # <<>>
  PROVE  /\ Last(within[Installer]) = within[Installer][1]
         /\ within[Installer][1] \in hooked /\ within[Installer][1] \in Hooks
         /\ Len(within[Installer]) = 1 /\ Front(within[Installer]) = <<>>
<1>1. within[Installer] \in Seq(Hooks) /\ hooked \subseteq Hooks
  BY LoneTypes
<1>2. Len(within[Installer]) = 1 /\ within[Installer][1] \in hooked
  BY DEF InCallback
<1>3. Front(within[Installer]) \in Seq(Hooks) /\ Len(Front(within[Installer])) = 0
  BY <1>1, <1>2, Fronted
<1> QED BY <1>1, <1>2, <1>3 DEF Last
\* The step of a thread that writes nothing and enters or leaves no callback: what remains
\* to be shown is about the exception.
Still ==
  LET t == Installer
      w == within[Installer] IN
  /\ UNCHANGED <<code, debug, targets, storage, hooked, doing, old, within, crashed>>
  /\ pc[t] \notin {"write", "restore", "user"}
  /\ pc'[t] \in {"fetch", "trap", "search", "callback", "return"}
  /\ \A p \in Pages : prot'[p] = prot[p] \/ (prot[p] = "guard" /\ prot'[p] = "rwx")
  /\ pc'[t] \in {"callback", "fetch"} => prot' = prot
  /\ w # <<>> =>
       /\ pc'[t] \in {"callback", "fetch"} /\ Method[w[1]] = "GUARD_PAGE" =>
            prot[Page[Src[w[1]]]] # "guard"
       /\ pc'[t] \in {"fetch", "trap", "search"} => at'[t] = Src[w[1]]
       /\ pc'[t] \in {"trap", "search"} => why'[t] = "GUARD_PAGE" /\ Method[w[1]] # "GUARD_PAGE"
  /\ InTrap'

LEMMA LoneStill ==
  ASSUME TypeInv, Lone, Still
  PROVE  Lone'
<1> USE DEF Still
<1>1. Alive' /\ Kept'
  BY DEF Lone, Alive, Kept
<1>2. Traced'
  <2>1. \A f \in Functions : code'[f] # Original =>
          \E h \in hooked' : Method[h] = "INT3_BP" /\ Src[h] = f
    BY DEF Lone, Traced
  <2>2. \A r \in Registers : debug'[Installer][r] # None =>
          \E h \in hooked' :
            Method[h] = "HARDWARE_BP" /\ Src[h] = debug'[Installer][r] /\ storage'[h] = r
    BY DEF Lone, Traced
  <2>3. \A p \in Pages : prot'[p] = "guard" => OnGuard(p)'
    BY DEF Lone, Traced, OnGuard
  <2>4. ASSUME NEW p \in Pages \ GuardPages PROVE prot'[p] = "rx"
    <3>1. prot[p] = "rx"
      BY DEF Lone, Traced
    <3> QED BY <3>1
  <2> QED BY <2>1, <2>2, <2>3, <2>4 DEF Traced
<1>3. Update'
  BY DEF Update, Writing
<1>4. InCallback'
  BY DEF Lone, InCallback
<1> QED BY <1>1, <1>2, <1>3, <1>4 DEF Lone

LEMMA LoneFetch ==
  ASSUME TypeInv, Lone, Fetch(Installer)
  PROVE  Lone'
<1> USE DEF Goto, machine, shared
<1> DEFINE t == Installer
           w == within[t]
           h == w[1]
<1>0. TypeInv /\ Traced /\ InCallback /\ InTrap /\ Kept
  BY DEF Lone
<1>1. pc[t] = "fetch" /\ at[t] \in Functions /\ t \in Threads
  BY LoneTypes DEF Fetch, HitRegister, HitGuard, HitBreakpoint, RunOriginal, Raise, Lone, InTrap
<1>2. w # <<>> => /\ at[t] = Src[h] /\ code[Src[h]] = Original /\ ~OnRegister(t)
                  /\ Method[h] = "GUARD_PAGE" => prot[Page[at[t]]] # "guard"
  BY <1>0, <1>1 DEF InCallback, OnRegister
<1>3. pc \in [Threads -> Labels] /\ why \in [Threads -> {"none", "BREAKPOINT", "SINGLE_STEP", "GUARD_PAGE"}]
  BY LoneTypes
<1>4. prot \in [Pages -> Protections] /\ Page[at[t]] \in Pages
  BY <1>1, LoneTypes
<1>5. CASE HitRegister(t)
  <2>1. /\ pc'[t] = "trap" /\ why'[t] = "SINGLE_STEP" /\ w = <<>> /\ prot' = prot /\ OnRegister(t)
        /\ UNCHANGED <<code, debug, targets, storage, hooked, at, doing, old, within, crashed>>
    BY <1>1, <1>2, <1>3, <1>5 DEF HitRegister, Raise
  <2>2. PICK g \in hooked : Method[g] = "HARDWARE_BP" /\ Src[g] = at[t]
    <3>1. PICK r \in Registers : debug[t][r] = at[t]
      BY <2>1 DEF OnRegister
    <3>2. at[t] # None
      BY <1>1, VEHAssumption
    <3> QED BY <1>0, <3>1, <3>2 DEF Traced
  <2>3. PICK i \in 1 .. Len(targets) : targets[i].hook = g
    BY <1>0 DEF Kept
  <2>4. Answers(targets[i], t)'
    BY <2>1, <2>2, <2>3 DEF Answers, Raises
  <2>5. InTrap'
    BY <1>1, <2>1, <2>4 DEF InTrap
  <2>6. Still
    BY <1>1, <2>1, <2>5 DEF Still
  <2> QED BY <2>6, LoneStill
<1>6. CASE HitGuard(t)
  <2>1. /\ pc'[t] = "trap" /\ why'[t] = "GUARD_PAGE" /\ prot[Page[at[t]]] = "guard"
        /\ prot' = [prot EXCEPT ![Page[at[t]]] = "rwx"]
        /\ UNCHANGED <<code, debug, targets, storage, hooked, at, doing, old, within, crashed>>
    BY <1>1, <1>3, <1>6 DEF HitGuard, Raise
  <2>2. PICK g \in hooked : Method[g] = "GUARD_PAGE" /\ Page[Src[g]] = Page[at[t]]
    BY <1>0, <1>4, <2>1 DEF OnGuard, Traced
  <2>3. PICK i \in 1 .. Len(targets) : targets[i].hook = g
    BY <1>0 DEF Kept
  <2>4. Answers(targets[i], t)'
    BY <2>1, <2>2, <2>3 DEF Answers, Raises
  <2>5. InTrap'
    BY <1>1, <1>4, <2>1, <2>4 DEF InTrap
  <2>6. w # <<>> => at[t] = Src[h] /\ Method[h] # "GUARD_PAGE"
    BY <1>2, <2>1
  <2>7. \A p \in Pages : prot'[p] = prot[p] \/ (prot[p] = "guard" /\ prot'[p] = "rwx")
    BY <1>4, <2>1
  <2>8. Still
    BY <1>1, <2>1, <2>5, <2>6, <2>7 DEF Still
  <2> QED BY <2>8, LoneStill
<1>7. CASE HitBreakpoint(t)
  <2>1. /\ pc'[t] = "trap" /\ why'[t] = "BREAKPOINT" /\ w = <<>> /\ prot' = prot
        /\ code[at[t]] # Original /\ prot[Page[at[t]]] # "guard"
        /\ UNCHANGED <<code, debug, targets, storage, hooked, at, doing, old, within, crashed>>
    BY <1>1, <1>2, <1>3, <1>7 DEF HitBreakpoint, Raise, Int3, Original
  <2>2. PICK g \in hooked : Method[g] = "INT3_BP" /\ Src[g] = at[t]
    BY <1>0, <1>1, <2>1 DEF Traced
  <2>3. PICK i \in 1 .. Len(targets) : targets[i].hook = g
    BY <1>0 DEF Kept
  <2>4. Answers(targets[i], t)'
    BY <2>1, <2>2, <2>3 DEF Answers, Raises
  <2>5. InTrap'
    BY <1>1, <2>1, <2>4 DEF InTrap
  <2>6. Still
    BY <1>1, <2>1, <2>5 DEF Still
  <2> QED BY <2>6, LoneStill
<1>8. CASE RunOriginal(t)
  <2>1. /\ pc' = [pc EXCEPT ![t] = IF w = <<>> THEN "user" ELSE "return"]
        /\ UNCHANGED <<code, prot, debug, targets, storage, hooked, at, why, doing, old, within, crashed>>
    BY <1>8 DEF RunOriginal
  <2>2. CASE w # <<>>
    <3>1. pc'[t] = "return"
      BY <1>1, <1>3, <2>1, <2>2
    <3>2. InTrap'
      BY <3>1 DEF InTrap
    <3>3. Still
      BY <1>1, <2>1, <3>1, <3>2 DEF Still
    <3> QED BY <3>3, LoneStill
  <2>3. CASE w = <<>>
    <3>1. pc'[t] = "user"
      BY <1>1, <1>3, <2>1, <2>3
    <3>2. Alive' /\ Kept' /\ Update' /\ InCallback' /\ InTrap'
      BY <2>1, <2>3, <3>1 DEF Lone, Alive, Kept, Update, Writing, InCallback, InTrap
    <3>3. Traced'
      BY <1>0, <1>1, <2>1 DEF Traced, OnGuard
    <3> QED BY <3>2, <3>3 DEF Lone
  <2> QED BY <2>2, <2>3
<1> QED BY <1>5, <1>6, <1>7, <1>8 DEF Fetch
\* The thread that writes a byte of its hook to the code.
LEMMA LoneWriting ==
  ASSUME TypeInv, Lone, pc[Installer] \in Writing
  PROVE  LET h == doing[Installer].hook
             for == doing[Installer].for IN
         /\ h \in Hooks /\ Method[h] = "INT3_BP" /\ Src[h] \in Functions /\ Page[Src[h]] \in Pages
         /\ for \in {"hook", "unhook", "handler", "rearm"}
         /\ for = "hook" => h \notin hooked
         /\ for # "hook" => h \in hooked
         /\ for # "rearm" => within[Installer] = <<>>
         /\ for = "rearm" => within[Installer] # <<>> /\ within[Installer][1] = h
<1>1. Task(Installer) /\ Doing(Installer)
  BY LoneTypes
<1>2. doing[Installer].hook \in Hooks /\ doing[Installer].for \in {"hook", "unhook", "handler", "rearm"}
  BY <1>1 DEF Doing, Locked
<1>3. doing[Installer].for = "rearm" =>
        within[Installer] # <<>> /\ within[Installer][1] = doing[Installer].hook
  BY <1>1, OneCallback DEF Doing, Lone
<1> QED BY <1>1, <1>2, <1>3, LoneTypes DEF Task, Lone, Update, Locked

LEMMA LoneProtect ==
  ASSUME TypeInv, Lone, Protect(Installer)
  PROVE  Lone'
<1> DEFINE t == Installer
           h == doing[t].hook
           q == Page[Src[h]]
<1>1. /\ pc[t] = "protect" /\ pc'[t] = "write" /\ t \in Threads
      /\ old'[t] = prot[q] /\ prot' = [prot EXCEPT ![q] = "rwx"]
      /\ UNCHANGED <<code, debug, targets, storage, hooked, doing, within, crashed>>
  BY LoneTypes DEF Protect, Goto, Target, shared
<1>2. /\ h \in Hooks /\ q \in Pages /\ prot \in [Pages -> Protections]
      /\ doing[t].for # "hook" => h \in hooked
  BY <1>1, LoneWriting, LoneTypes DEF Writing
<1>3. Target(t)' = Src[h] /\ Target(t) = Src[h] /\ prot'[q] = "rwx"
  BY <1>1, <1>2 DEF Target
<1>4. \A p \in Pages : p # q => prot'[p] = prot[p]
  BY <1>1, <1>2
<1>5. Traced'
  <2>1. \A f \in Functions : code'[f] # Original =>
          \E g \in hooked' : Method[g] = "INT3_BP" /\ Src[g] = f
    BY <1>1 DEF Lone, Traced
  <2>2. \A r \in Registers : debug'[t][r] # None =>
          \E g \in hooked' : Method[g] = "HARDWARE_BP" /\ Src[g] = debug'[t][r] /\ storage'[g] = r
    BY <1>1 DEF Lone, Traced
  <2>3. \A p \in Pages : prot'[p] = "guard" => OnGuard(p)'
    BY <1>1, <1>3, <1>4 DEF Lone, Traced, OnGuard
  <2>4. \A p \in Pages \ GuardPages :
          prot'[p] = "rx" \/ (pc'[t] \in {"write", "restore"} /\ p = Page[Target(t)'])
    BY <1>1, <1>3, <1>4 DEF Lone, Traced
  <2> QED BY <2>1, <2>2, <2>3, <2>4 DEF Traced
<1>6. Update'
  <2>1. old'[t] = "guard" => \E g \in hooked : Method[g] = "GUARD_PAGE" /\ Page[Src[g]] = q
    <3>1. \A p \in Pages : prot[p] = "guard" => \E g \in hooked : Method[g] = "GUARD_PAGE" /\ Page[Src[g]] = p
      BY DEF Lone, Traced, OnGuard
    <3> QED BY <1>1, <1>2, <3>1
  <2>2. q \notin GuardPages => old'[t] = "rx"
    BY <1>1, <1>2 DEF Lone, Traced
  <2> HIDE DEF q, h
  <2>3. /\ pc[t] = "protect" /\ pc'[t] = "write"
        /\ UNCHANGED <<code, storage, hooked, doing, within>>
    BY <1>1
  <2>4. Target(t)' = Src[h] /\ q = Page[Src[h]] /\ prot'[q] = "rwx"
    BY <1>3 DEF h, q
  <2> QED BY <2>1, <2>2, <2>3, <2>4 DEF Lone, Update, Writing, OnGuard, h
<1>7. Alive' /\ Kept' /\ InCallback' /\ InTrap'
  BY <1>1 DEF Lone, Alive, Kept, InCallback, InTrap
<1> QED BY <1>5, <1>6, <1>7 DEF Lone

\* The byte that is written is a breakpoint, or the byte of the program.
LEMMA LoneByte ==
  ASSUME TypeInv, Lone, pc[Installer] = "write"
  PROVE  NewByte(Installer) = IF doing[Installer].for \in {"hook", "rearm"} THEN Int3 ELSE Original
<1> DEFINE t == Installer
           h == doing[t].hook
<1>1. h \in Hooks /\ Method[h] = "INT3_BP" /\ doing[t].for \in {"hook", "unhook", "handler", "rearm"}
  BY LoneWriting DEF Writing
<1>2. CASE doing[t].for \in {"hook", "rearm"}
  BY <1>2 DEF NewByte
<1>3. doing[t].for # "hook" => storage[h] = Original
  <2>1. doing[t].for # "hook" => h \in hooked
    BY LoneWriting DEF Writing
  <2> QED BY <1>1, <2>1 DEF Lone, Kept
<1>4. CASE doing[t].for = "unhook"
  BY <1>3, <1>4 DEF NewByte
<1>5. CASE doing[t].for = "handler"
  <2>1. PICK i \in 1 .. Len(targets) : targets[i].hook = h
    BY <1>5, LoneTypes DEF Doing
  <2> DEFINE c == CHOOSE c \in {targets[j] : j \in 1 .. Len(targets)} : c.hook = h
  <2>2. c \in {targets[j] : j \in 1 .. Len(targets)} /\ c.hook = h
    BY <2>1
  <2>3. NewByte(t) = c.byte
    BY <1>5 DEF NewByte
  <2> HIDE DEF c
  <2>4. c.byte = storage[h]
    BY <2>2 DEF Lone, Kept
  <2> QED BY <1>3, <1>5, <2>3, <2>4
<1> QED BY <1>1, <1>2, <1>4, <1>5

LEMMA LoneWrite ==
  ASSUME TypeInv, Lone, WriteByte(Installer)
  PROVE  Lone'
<1> DEFINE t == Installer
           h == doing[t].hook
           for == doing[t].for
           b == IF for \in {"hook", "rearm"} THEN Int3 ELSE Original
<1>1. /\ pc[t] = "write" /\ pc'[t] = "restore" /\ t \in Threads
      /\ UNCHANGED <<prot, debug, targets, hooked, doing, old, within, crashed>>
  BY LoneTypes DEF WriteByte, Goto
<1>2. /\ h \in Hooks /\ Method[h] = "INT3_BP" /\ Src[h] \in Functions
      /\ for \in {"hook", "unhook", "handler", "rearm"}
      /\ for = "hook" => h \notin hooked
      /\ for # "hook" => h \in hooked
      /\ for = "rearm" => within[t] # <<>> /\ within[t][1] = h
      /\ for # "rearm" => within[t] = <<>>
  BY <1>1, LoneWriting DEF Writing
<1>3. code' = [code EXCEPT ![Src[h]] = b] /\ code \in [Functions -> Bytes]
  BY <1>1, LoneByte, LoneTypes DEF WriteByte, Target
<1>4. code'[Src[h]] = b /\ \A f \in Functions : f # Src[h] => code'[f] = code[f]
  BY <1>2, <1>3
<1>5. /\ for = "hook" => storage'[h] = Original
      /\ \A g \in Hooks : g # h \/ for # "hook" => storage'[g] = storage[g]
  <2>1. storage \in [Hooks -> Words]
    BY LoneTypes
  <2>2. for = "hook" => code[Src[h]] = Original
    BY <1>1 DEF Lone, Update
  <2> QED BY <1>2, <2>1, <2>2 DEF WriteByte, Target
<1>6. \A g \in hooked : g \in Hooks /\ storage'[g] = storage[g]
  <2>1. hooked \subseteq Hooks
    BY LoneTypes
  <2> QED BY <1>2, <1>5, <2>1
<1>7. \A i \in 1 .. Len(targets) : targets[i].hook \in hooked
  BY LoneTypes
<1>8. Target(t) = Src[h] /\ Target(t)' = Src[h]
  BY <1>1 DEF Target
<1> HIDE DEF b, h, for
<1>9. Kept'
  BY <1>1, <1>6, <1>7 DEF Lone, Kept
<1>10. Traced'
  <2>1. ASSUME NEW f \in Functions, code'[f] # Original
        PROVE  \/ \E g \in hooked' : Method[g] = "INT3_BP" /\ Src[g] = f
               \/ doing'[t].for = "hook" /\ Src[doing'[t].hook] = f
    <3>1. CASE f = Src[h]
      <4>1. for \in {"hook", "rearm"}
        BY <1>4, <2>1, <3>1 DEF b
      <4>2. CASE for = "hook"
        BY <1>1, <3>1, <4>2 DEF for, h
      <4>3. CASE for = "rearm"
        BY <1>1, <1>2, <3>1, <4>3
      <4> QED BY <4>1, <4>2, <4>3
    <3>2. CASE f # Src[h]
      BY <1>1, <1>4, <2>1, <3>2 DEF Lone, Traced
    <3> QED BY <3>1, <3>2
  <2>2. \A r \in Registers : debug'[t][r] # None =>
          \E g \in hooked' : Method[g] = "HARDWARE_BP" /\ Src[g] = debug'[t][r] /\ storage'[g] = r
    BY <1>1, <1>6 DEF Lone, Traced
  <2>3. \A p \in Pages : prot'[p] = "guard" => OnGuard(p)'
    BY <1>1 DEF Lone, Traced, OnGuard
  <2>4. \A p \in Pages \ GuardPages :
          prot'[p] = "rx" \/ (pc'[t] \in {"write", "restore"} /\ p = Page[Target(t)'])
    BY <1>1, <1>8 DEF Lone, Traced
  <2> QED BY <1>1, <2>1, <2>2, <2>3, <2>4 DEF Traced
<1>11. Update'
  <2>1. for = "hook" => storage'[h] = Original
    BY <1>5
  <2>2. for \in {"unhook", "handler"} => code'[Src[h]] = Original
    BY <1>4 DEF b
  <2>3. /\ prot[Page[Src[h]]] = "rwx"
        /\ old[t] = "guard" => \E g \in hooked : Method[g] = "GUARD_PAGE" /\ Page[Src[g]] = Page[Src[h]]
        /\ Page[Src[h]] \notin GuardPages => old[t] = "rx"
    BY <1>1, <1>8 DEF Lone, Update, OnGuard
  <2>4. h = doing'[t].hook /\ for = doing'[t].for
    BY <1>1 DEF h, for
  <2> QED BY <1>1, <1>2, <1>8, <2>1, <2>2, <2>3, <2>4 DEF Update, Writing, Locked, OnGuard
<1>12. InCallback'
  BY <1>1 DEF Lone, InCallback
<1>13. Alive' /\ InTrap'
  BY <1>1 DEF Lone, Alive, InTrap
<1> QED BY <1>9, <1>10, <1>11, <1>12, <1>13 DEF Lone
\* The page gets the protection back that it had: no guard that no hook wants.
LEMMA RestoredPages ==
  ASSUME TypeInv, Lone, NEW for, Restored(Installer, for),
         \A g \in hooked : Method[g] = "GUARD_PAGE" => g \in hooked'
  PROVE  /\ \A p \in Pages : prot'[p] = "guard" => OnGuard(p)'
         /\ \A p \in Pages \ GuardPages : prot'[p] = "rx"
<1> DEFINE t == Installer
           q == Page[Target(t)]
<1>1. pc[t] = "restore" /\ prot' = [prot EXCEPT ![q] = old[t]]
  BY DEF Restored
<1>2. q \in Pages /\ prot \in [Pages -> Protections]
  BY <1>1, LoneWriting, LoneTypes DEF Writing, Target
<1>3. /\ \A p \in Pages : prot[p] = "guard" =>
           \E g \in hooked : Method[g] = "GUARD_PAGE" /\ Page[Src[g]] = p
      /\ old[t] = "guard" => \E g \in hooked : Method[g] = "GUARD_PAGE" /\ Page[Src[g]] = q
      /\ \A p \in Pages \ GuardPages : p # q => prot[p] = "rx"
      /\ q \notin GuardPages => old[t] = "rx"
  BY <1>1 DEF Lone, Traced, Update, OnGuard
<1> HIDE DEF q
<1>4. prot'[q] = old[t] /\ \A p \in Pages : p # q => prot'[p] = prot[p]
  BY <1>1, <1>2
<1>5. ASSUME NEW p \in Pages, prot'[p] = "guard" PROVE OnGuard(p)'
  BY <1>3, <1>4, <1>5 DEF OnGuard
<1> QED BY <1>3, <1>4, <1>5

\* A hook that is installed has one context more, with what it saved.
LEMMA KeptInstalled ==
  ASSUME TypeInv, Kept, NEW h \in Hooks, h \notin hooked, NEW byte \in Words, Installed(h, byte),
         storage'[h] = byte, \A g \in Hooks : g # h => storage'[g] = storage[g],
         Method[h] = "INT3_BP" => byte = Original
  PROVE  Kept'
<1> DEFINE c == [hook |-> h, byte |-> byte]
<1>1. /\ targets' = Append(targets, c) /\ targets \in Seq(Contexts) /\ hooked' = hooked \cup {h}
      /\ c \in Contexts /\ hooked \subseteq Hooks
      /\ \A i \in 1 .. Len(targets) : targets[i].hook \in hooked
  BY LoneTypes DEF Installed, Contexts
<1>2. /\ Len(targets) \in Nat /\ Len(targets') = Len(targets) + 1
      /\ targets'[Len(targets) + 1] = c
      /\ \A i \in 1 .. Len(targets) : targets'[i] = targets[i]
  BY <1>1
<1>3. c.hook = h /\ c.byte = byte
  OBVIOUS
<1> HIDE DEF c
<1>4. ASSUME NEW g \in hooked' PROVE \E i \in 1 .. Len(targets') : targets'[i].hook = g
  <2>1. CASE g = h
    <3>1. Len(targets) + 1 \in 1 .. Len(targets') /\ targets'[Len(targets) + 1].hook = g
      BY <1>2, <1>3, <2>1
    <3> QED BY <3>1
  <2>2. CASE g # h
    <3>1. PICK i \in 1 .. Len(targets) : targets[i].hook = g
      BY <1>1, <2>2 DEF Kept
    <3>2. i \in 1 .. Len(targets') /\ targets'[i].hook = g
      BY <1>2, <3>1
    <3> QED BY <3>2
  <2> QED BY <2>1, <2>2
<1>5. ASSUME NEW i \in 1 .. Len(targets') PROVE targets'[i].byte = storage'[targets'[i].hook]
  <2>1. CASE i \in 1 .. Len(targets)
    <3>1. targets[i].hook \in Hooks /\ targets[i].hook # h /\ targets'[i] = targets[i]
      BY <1>1, <1>2, <2>1
    <3> QED BY <2>1, <3>1 DEF Kept
  <2>2. CASE i = Len(targets) + 1
    BY <1>2, <1>3, <2>2
  <2> QED BY <1>2, <2>1, <2>2
<1>6. \A g \in hooked' : Method[g] = "INT3_BP" => storage'[g] = Original
  BY <1>1 DEF Kept
<1> QED BY <1>4, <1>5, <1>6 DEF Kept

LEMMA KeptRemoved ==
  ASSUME TypeInv, Kept, NEW h, Removed(h), storage' = storage
  PROVE  Kept'
<1>1. targets' = Without(targets, h) /\ hooked' = hooked \ {h} /\ targets \in Seq(Contexts)
  BY LoneTypes DEF Removed
<1>2. Unique(targets)
  BY DEF TypeInv, Saved
<1>3. /\ \A i \in 1 .. Len(targets') : \E j \in 1 .. Len(targets) : targets'[i] = targets[j]
      /\ \A j \in 1 .. Len(targets) : targets[j].hook # h =>
           \E i \in 1 .. Len(targets') : targets'[i] = targets[j]
  BY <1>1, <1>2, ErasedOne
<1>4. ASSUME NEW g \in hooked' PROVE \E i \in 1 .. Len(targets') : targets'[i].hook = g
  <2>1. PICK j \in 1 .. Len(targets) : targets[j].hook = g
    BY <1>1 DEF Kept
  <2> QED BY <1>1, <1>3, <2>1
<1>5. ASSUME NEW i \in 1 .. Len(targets') PROVE targets'[i].byte = storage'[targets'[i].hook]
  BY <1>3 DEF Kept
<1> QED BY <1>1, <1>4, <1>5 DEF Kept

LEMMA LoneRestore ==
  ASSUME TypeInv, Lone, Restore(Installer)
  PROVE  Lone'
<1> DEFINE t == Installer
           h == doing[t].hook
           for == doing[t].for
<1>1. /\ pc[t] = "restore" /\ t \in Threads
      /\ UNCHANGED <<code, debug, storage, at, why, old, crashed>>
  BY LoneTypes DEF Restore, RestoreHook, RestoreUnHook, RestoreHandler, RestoreRearm, Restored
<1>2. /\ h \in Hooks /\ Method[h] = "INT3_BP" /\ Src[h] \in Functions
      /\ for = "hook" => h \notin hooked
      /\ for # "hook" => h \in hooked
      /\ for = "rearm" => within[t] # <<>> /\ within[t][1] = h
      /\ for # "rearm" => within[t] = <<>>
  BY <1>1, LoneWriting DEF Writing
<1>3. /\ hooked \subseteq Hooks /\ targets \in Seq(Contexts) /\ pc \in [Threads -> Labels]
      /\ within \in [Threads -> Seq(Hooks)]
      /\ \A g, k \in Hooks : Src[g] = Src[k] => g = k
      /\ \A i \in 1 .. Len(targets) : targets[i].hook \in hooked
  BY LoneTypes
<1>4. \A f \in Functions : code[f] # Original =>
        \/ \E g \in hooked : Method[g] = "INT3_BP" /\ Src[g] = f
        \/ for = "hook" /\ Src[h] = f
  BY DEF Lone, Traced
<1>5. \A r \in Registers : debug[t][r] # None =>
        \E g \in hooked : Method[g] = "HARDWARE_BP" /\ Src[g] = debug[t][r] /\ storage[g] = r
  BY DEF Lone, Traced
<1>6. CASE RestoreHook(t)
  <2>1. /\ for = "hook" /\ pc'[t] = "user" /\ hooked' = hooked \cup {h} /\ within' = within
        /\ targets' = Append(targets, [hook |-> h, byte |-> storage[h]])
    BY <1>1, <1>3, <1>6 DEF RestoreHook, Restored, Installed
  <2>2. /\ \A p \in Pages : prot'[p] = "guard" => OnGuard(p)'
        /\ \A p \in Pages \ GuardPages : prot'[p] = "rx"
    BY <1>6, <2>1, RestoredPages DEF RestoreHook
  <2>3. Traced'
    BY <1>1, <1>2, <1>4, <1>5, <2>1, <2>2 DEF Traced
  <2>4. storage[h] = Original
    BY <1>1, <2>1 DEF Lone, Update
  <2>5. Kept'
    <3>1. Installed(h, storage[h]) /\ storage[h] \in Words
      BY <1>2, <1>6, LoneTypes DEF RestoreHook
    <3> QED BY <1>1, <1>2, <2>1, <2>4, <3>1, KeptInstalled DEF Lone
  <2>6. Alive' /\ Update' /\ InCallback' /\ InTrap'
    BY <1>1, <1>2, <2>1 DEF Lone, Alive, Update, Writing, InCallback, InTrap
  <2> QED BY <2>3, <2>5, <2>6 DEF Lone
<1>7. CASE RestoreUnHook(t)
  <2>1. /\ for = "unhook" /\ pc'[t] = "user" /\ hooked' = hooked \ {h} /\ within' = within
        /\ targets' = Without(targets, h)
    BY <1>1, <1>3, <1>7 DEF RestoreUnHook, Restored, Removed
  <2>2. /\ \A p \in Pages : prot'[p] = "guard" => OnGuard(p)'
        /\ \A p \in Pages \ GuardPages : prot'[p] = "rx"
    BY <1>2, <1>7, <2>1, RestoredPages DEF RestoreUnHook
  <2>3. code[Src[h]] = Original
    BY <1>1, <2>1 DEF Lone, Update
  <2>4. Traced'
    BY <1>1, <1>2, <1>4, <1>5, <2>1, <2>2, <2>3 DEF Traced
  <2>5. Kept'
    BY <1>1, <1>7, KeptRemoved DEF RestoreUnHook, Lone
  <2>6. Alive' /\ Update' /\ InCallback' /\ InTrap'
    BY <1>1, <1>2, <2>1 DEF Lone, Alive, Update, Writing, InCallback, InTrap
  <2> QED BY <2>4, <2>5, <2>6 DEF Lone
<1>8. CASE RestoreHandler(t)
  <2>1. /\ for = "handler" /\ pc'[t] = "callback" /\ hooked' = hooked /\ targets' = targets
        /\ within'[t] = Append(<<>>, h)
    BY <1>1, <1>2, <1>3, <1>8 DEF RestoreHandler, Restored, EnterCallback
  <2>2. /\ \A p \in Pages : prot'[p] = "guard" => OnGuard(p)'
        /\ \A p \in Pages \ GuardPages : prot'[p] = "rx"
    BY <1>8, <2>1, RestoredPages DEF RestoreHandler
  <2>3. code[Src[h]] = Original
    BY <1>1, <2>1 DEF Lone, Update
  <2>4. Traced'
    BY <1>1, <1>4, <1>5, <2>1, <2>2 DEF Traced
  <2>5. within'[t] # <<>> /\ Len(within'[t]) = 1 /\ within'[t][1] = h
    BY <2>1
  <2>6. \A r \in Registers : debug[t][r] # Src[h]
    BY <1>2, <2>1, OneHook DEF Lone
  <2>7. InCallback'
    BY <1>1, <1>2, <2>1, <2>3, <2>5, <2>6 DEF InCallback
  <2>8. Alive' /\ Kept' /\ Update' /\ InTrap'
    BY <1>1, <2>1 DEF Lone, Alive, Kept, Update, Writing, InTrap
  <2> QED BY <2>4, <2>7, <2>8 DEF Lone
<1>9. CASE RestoreRearm(t)
  <2>1. for = "rearm" /\ LeaveCallback(t) /\ hooked' = hooked /\ targets' = targets
    BY <1>9 DEF RestoreRearm, Restored
  <2>2. /\ \A p \in Pages : prot'[p] = "guard" => OnGuard(p)'
        /\ \A p \in Pages \ GuardPages : prot'[p] = "rx"
    BY <1>9, <2>1, RestoredPages DEF RestoreRearm
  <2>3. pc'[t] = "user" /\ within'[t] = <<>>
    BY <1>1, <1>2, <1>3, <2>1, OneCallback DEF LeaveCallback, Lone
  <2>4. Traced'
    BY <1>1, <1>4, <1>5, <2>1, <2>2, <2>3 DEF Traced
  <2>5. Alive' /\ Kept' /\ Update' /\ InCallback' /\ InTrap'
    BY <1>1, <2>1, <2>3 DEF Lone, Alive, Kept, Update, Writing, InCallback, InTrap
  <2> QED BY <2>4, <2>5 DEF Lone
<1> QED BY <1>6, <1>7, <1>8, <1>9 DEF Restore
LEMMA LoneHandle ==
  ASSUME TypeInv, Lone, Handle(Installer)
  PROVE  Lone'
<1> DEFINE t == Installer
           w == within[t]
<1>0. /\ pc \in [Threads -> Labels] /\ t \in Threads /\ hooked \subseteq Hooks
      /\ targets \in Seq(Contexts) /\ within \in [Threads -> Seq(Hooks)] /\ t # None
      /\ at \in [Threads -> Functions \cup {None}]
      /\ debug \in [Threads -> [Registers -> Functions \cup {None}]]
      /\ doing \in [Threads -> Jobs]
      /\ \A i \in 1 .. Len(targets) : targets[i].hook \in hooked
      /\ \A g \in Hooks : Src[g] \in Functions /\ Method[g] \in Methods
      /\ \A g, k \in Hooks : Src[g] = Src[k] => g = k
  BY LoneTypes
<1>1. CASE HandlerLock(t)
  <2>1. /\ pc[t] = "trap" /\ pc'[t] = "search" /\ mutex = None
        /\ UNCHANGED <<code, prot, debug, targets, storage, hooked, at, why, doing, old, within, crashed>>
    BY <1>0, <1>1 DEF HandlerLock, Goto, Lock, machine
  <2>2. InTrap'
    BY <2>1 DEF Lone, InTrap, Answers
  <2>3. Still
    BY <2>1, <2>2 DEF Still, Lone, InCallback
  <2> QED BY <2>3, LoneStill
<1>2. CASE HandleBreakpoint(t)
  <2>1. PICK i \in 1 .. Len(targets) : Found(t, i) /\ Begin(t, targets[i].hook, "handler")
    BY <1>2 DEF HandleBreakpoint
  <2>2. /\ pc[t] = "search" /\ why[t] = "BREAKPOINT" /\ pc'[t] = "protect"
        /\ UNCHANGED <<code, prot, debug, targets, storage, hooked, old, within, crashed>>
    BY <1>0, <1>2 DEF HandleBreakpoint, Goto, machine, shared
  <2>3. doing'[t] = [hook |-> targets[i].hook, for |-> "handler"]
    BY <1>0, <2>1 DEF Begin
  <2>4. w = <<>>
    BY <2>2 DEF Lone, InCallback
  <2>5. Traced'
    BY <2>2 DEF Lone, Traced, OnGuard
  <2>6. Alive' /\ Kept' /\ Update' /\ InCallback' /\ InTrap'
    BY <1>0, <2>2, <2>3, <2>4 DEF Lone, Alive, Kept, Update, Writing, InCallback, InTrap
  <2> QED BY <2>5, <2>6 DEF Lone
<1>3. CASE HandleStep(t)
  <2>1. PICK i \in 1 .. Len(targets) :
          /\ Found(t, i) /\ EnterCallback(t, targets[i].hook)
          /\ debug' = [debug EXCEPT ![t][targets[i].byte] = None]
    BY <1>3 DEF HandleStep
  <2> DEFINE g == targets[i].hook
  <2>2. /\ pc[t] = "search" /\ why[t] = "SINGLE_STEP" /\ pc'[t] = "callback"
        /\ UNCHANGED <<code, prot, targets, storage, hooked, doing, old, crashed>>
    BY <1>0, <1>3 DEF HandleStep, Goto
  <2>3. w = <<>>
    BY <2>2 DEF Lone, InCallback
  <2>4. within'[t] = Append(<<>>, g)
    BY <1>0, <2>1, <2>3 DEF EnterCallback
  <2>5. g \in hooked /\ g \in Hooks /\ Method[g] = "HARDWARE_BP"
    <3>1. Raises(g) = "SINGLE_STEP"
      BY <2>1, <2>2 DEF Found, Answers
    <3> QED BY <1>0, <3>1 DEF Raises, Methods
  <2>6. storage[g] = targets[i].byte
    BY DEF Lone, Kept
  <2>7. \A r \in Registers : debug'[t][r] = None \/ (debug'[t][r] = debug[t][r] /\ r # storage[g])
    BY <1>0, <2>1, <2>6
  <2>8. \A r \in Registers : debug'[t][r] # Src[g]
    <3>1. \A r \in Registers : debug[t][r] = Src[g] => storage[g] = r
      BY <2>2, <2>5, OneHook DEF Lone
    <3>2. Src[g] # None
      BY <1>0, <2>5, VEHAssumption
    <3> QED BY <2>7, <3>1, <3>2
  <2>9. code[Src[g]] = Original
    BY <2>2, <2>5, OneHook DEF Lone
  <2> HIDE DEF g
  <2>10. InCallback'
    <3>1. within'[t] # <<>> /\ Len(within'[t]) = 1 /\ within'[t][1] = g
      BY <2>4
    <3> QED BY <2>2, <2>5, <2>8, <2>9, <3>1 DEF InCallback
  <2>11. Traced'
    BY <2>2, <2>7 DEF Lone, Traced, OnGuard
  <2>12. Alive' /\ Kept' /\ Update' /\ InTrap'
    BY <2>2 DEF Lone, Alive, Kept, Update, Writing, InTrap
  <2> QED BY <2>10, <2>11, <2>12 DEF Lone
<1>4. CASE HandleGuard(t)
  <2>1. PICK i \in 1 .. Len(targets) :
          /\ Found(t, i)
          /\ IF at[t] = Src[targets[i].hook]
             THEN Goto(t, "search", "callback") /\ EnterCallback(t, targets[i].hook)
             ELSE Goto(t, "search", "fetch") /\ UNCHANGED within
    BY <1>4 DEF HandleGuard
  <2> DEFINE g == targets[i].hook
  <2>2. /\ pc[t] = "search" /\ why[t] = "GUARD_PAGE"
        /\ UNCHANGED <<code, prot, debug, targets, storage, hooked, at, why, doing, old, crashed>>
    BY <1>4 DEF HandleGuard, machine
  <2>3. g \in hooked /\ g \in Hooks /\ Method[g] = "GUARD_PAGE"
    <3>1. Raises(g) = "GUARD_PAGE"
      BY <2>1, <2>2 DEF Found, Answers
    <3> QED BY <1>0, <3>1 DEF Raises, Methods
  <2>4. /\ code[Src[g]] = Original
        /\ \A r \in Registers : debug[t][r] # Src[g]
    BY <2>2, <2>3, OneHook DEF Lone
  <2>5. w # <<>> => at[t] = Src[w[1]] /\ Method[w[1]] # "GUARD_PAGE" /\ w[1] \in Hooks
    BY <1>0, <2>2 DEF Lone, InCallback
  <2>6. at[t] \in Functions /\ prot[Page[at[t]]] # "guard"
    BY <2>2 DEF Lone, InTrap
  <2> HIDE DEF g
  <2>7. CASE at[t] = Src[g]
    <3>1. pc'[t] = "callback" /\ within' = [within EXCEPT ![t] = Append(@, g)]
      BY <1>0, <2>1, <2>7 DEF Goto, EnterCallback, g
    <3>2. w = <<>>
      BY <1>0, <2>3, <2>5, <2>7
    <3>3. within'[t] # <<>> /\ Len(within'[t]) = 1 /\ within'[t][1] = g
      BY <1>0, <3>1, <3>2
    <3>4. InCallback'
      BY <2>2, <2>3, <2>4, <2>6, <2>7, <3>1, <3>3 DEF InCallback
    <3>5. Traced'
      BY <2>2 DEF Lone, Traced, OnGuard
    <3>6. Alive' /\ Kept' /\ Update' /\ InTrap'
      BY <2>2, <3>1 DEF Lone, Alive, Kept, Update, Writing, InTrap
    <3> QED BY <3>4, <3>5, <3>6 DEF Lone
  <2>8. CASE at[t] # Src[g]
    <3>1. pc'[t] = "fetch" /\ within' = within
      BY <1>0, <2>1, <2>8 DEF Goto, g
    <3>2. InTrap'
      BY <2>2, <2>6, <3>1 DEF InTrap
    <3>3. Still
      BY <2>2, <2>5, <3>1, <3>2 DEF Still
    <3> QED BY <3>3, LoneStill
  <2> QED BY <2>7, <2>8
<1>5. CASE Unhandled(t)
  <2>1. pc[t] = "search" /\ \A i \in 1 .. Len(targets) : ~Answers(targets[i], t)
    BY <1>5 DEF Unhandled, Goto
  <2> QED BY <2>1 DEF Lone, InTrap
<1> QED BY <1>1, <1>2, <1>3, <1>4, <1>5 DEF Handle

LEMMA LoneCallback ==
  ASSUME TypeInv, Lone, CallOriginal(Installer) \/ Rearm(Installer)
  PROVE  Lone'
<1> DEFINE t == Installer
           h == within[t][1]
<1>1. pc[t] \in {"callback", "return"} /\ t \in Threads /\ pc \in [Threads -> Labels]
  BY LoneTypes DEF CallOriginal, Rearm, RearmBreakpoint, RearmGuard, RearmNothing, Goto
<1>2. /\ within[t] # <<>> /\ Last(within[t]) = h /\ h \in hooked /\ h \in Hooks
      /\ Len(within[t]) = 1 /\ Front(within[t]) = <<>>
  <2>1. within[t] # <<>>
    BY <1>1, LoneTypes DEF Doing
  <2> QED BY <2>1, OneCallback DEF Lone
<1>3. /\ Src[h] \in Functions /\ Page[Src[h]] \in Pages /\ prot \in [Pages -> Protections]
      /\ at \in [Threads -> Functions \cup {None}] /\ within \in [Threads -> Seq(Hooks)]
      /\ doing \in [Threads -> Jobs]
  BY <1>2, LoneTypes
<1>4. CASE CallOriginal(t)
  <2>1. /\ pc[t] = "callback" /\ pc'[t] = "fetch" /\ at'[t] = Src[h]
        /\ UNCHANGED <<code, prot, debug, targets, storage, hooked, why, doing, old, within, crashed>>
    BY <1>1, <1>2, <1>3, <1>4 DEF CallOriginal, Goto, machine, shared
  <2>2. InTrap'
    BY <1>3, <2>1 DEF InTrap
  <2>3. Still
    BY <1>2, <2>1, <2>2 DEF Still, Lone, InCallback
  <2> QED BY <2>3, LoneStill
<1>5. CASE RearmBreakpoint(t)
  <2>1. /\ pc[t] = "return" /\ pc'[t] = "protect" /\ doing'[t] = [hook |-> h, for |-> "rearm"]
        /\ UNCHANGED <<code, prot, debug, targets, storage, hooked, old, within, crashed>>
    BY <1>1, <1>2, <1>3, <1>5 DEF RearmBreakpoint, Goto, Begin, machine, shared
  <2>2. Traced'
    BY <2>1 DEF Lone, Traced, OnGuard
  <2>3. Update'
    BY <1>2, <2>1 DEF Update, Writing, Locked
  <2>4. InCallback'
    BY <2>1 DEF Lone, InCallback
  <2>5. Alive' /\ Kept' /\ InTrap'
    BY <2>1 DEF Lone, Alive, Kept, InTrap
  <2> QED BY <2>2, <2>3, <2>4, <2>5 DEF Lone
<1>6. CASE RearmGuard(t) \/ RearmNothing(t)
  <2>1. /\ pc[t] = "return" /\ LeaveCallback(t)
        /\ UNCHANGED <<code, debug, targets, storage, hooked, doing, old, crashed>>
    BY <1>6 DEF RearmGuard, RearmNothing, shared, machine
  <2>2. pc'[t] = "user" /\ within'[t] = <<>>
    BY <1>1, <1>2, <1>3, <2>1 DEF LeaveCallback
  <2>3. prot' = prot \/ (Method[h] = "GUARD_PAGE" /\ prot' = [prot EXCEPT ![Page[Src[h]]] = "guard"])
    BY <1>2, <1>6 DEF RearmGuard, RearmNothing, machine
  <2>4. \A p \in Pages : prot'[p] = prot[p] \/ (Method[h] = "GUARD_PAGE" /\ p = Page[Src[h]])
    BY <1>3, <2>3
  <2>5. Traced'
    <3>1. \A f \in Functions : code'[f] # Original =>
            \E g \in hooked' : Method[g] = "INT3_BP" /\ Src[g] = f
      BY <2>1 DEF Lone, Traced
    <3>2. \A r \in Registers : debug'[t][r] # None =>
            \E g \in hooked' : Method[g] = "HARDWARE_BP" /\ Src[g] = debug'[t][r] /\ storage'[g] = r
      BY <2>1 DEF Lone, Traced
    <3>3. \A p \in Pages : prot'[p] = "guard" => OnGuard(p)'
      BY <1>2, <2>1, <2>4 DEF Lone, Traced, OnGuard
    <3>4. ASSUME NEW p \in Pages \ GuardPages PROVE prot'[p] = "rx"
      <4>1. prot[p] = "rx"
        BY <2>1 DEF Lone, Traced
      <4>2. ~(Method[h] = "GUARD_PAGE" /\ p = Page[Src[h]])
        BY <1>2 DEF GuardPages
      <4> QED BY <2>4, <4>1, <4>2
    <3> QED BY <3>1, <3>2, <3>3, <3>4 DEF Traced
  <2>6. Alive' /\ Kept' /\ Update' /\ InCallback' /\ InTrap'
    BY <2>1, <2>2 DEF Lone, Alive, Kept, Update, Writing, InCallback, InTrap
  <2> QED BY <2>5, <2>6 DEF Lone
<1> QED BY <1>4, <1>5, <1>6 DEF Rearm
\* Hook and UnHook, from the code of the user.
LEMMA LoneChoose ==
  ASSUME TypeInv, Lone, Choose(Installer)
  PROVE  Lone'
<1> DEFINE t == Installer
<1>0. /\ pc \in [Threads -> Labels] /\ t \in Threads /\ hooked \subseteq Hooks /\ t # None
      /\ at \in [Threads -> Functions \cup {None}] /\ storage \in [Hooks -> Words]
      /\ doing \in [Threads -> Jobs] /\ prot \in [Pages -> Protections]
      /\ debug \in [Threads -> [Registers -> Functions \cup {None}]]
      /\ \A g \in Hooks : Src[g] \in Functions /\ Page[Src[g]] \in Pages
      /\ \A g, k \in Hooks : Src[g] = Src[k] => g = k
  BY LoneTypes
<1>1. pc[t] = "user"
  BY DEF Choose, CallFunction, HookBreakpoint, HookRegister, HookGuard, UnHookBreakpoint,
         UnHookRegister, UnHookRead, UnHookGuard, Goto
<1>2. within[t] = <<>> /\ Alive /\ Kept /\ Traced
  BY <1>1 DEF Lone, InCallback
<1>3. ASSUME NEW f \in Functions, CallFunction(t, f) PROVE Lone'
  <2>1. /\ pc'[t] = "fetch" /\ at'[t] = f
        /\ UNCHANGED <<code, prot, debug, targets, storage, hooked, doing, old, within, crashed>>
    BY <1>0, <1>3 DEF CallFunction, Goto, machine, shared
  <2>2. Traced'
    BY <1>1, <1>2, <2>1 DEF Traced, OnGuard
  <2>3. Alive' /\ Kept' /\ Update' /\ InCallback' /\ InTrap'
    BY <1>2, <2>1 DEF Alive, Kept, Update, Writing, InCallback, InTrap
  <2> QED BY <2>2, <2>3 DEF Lone
<1>4. ASSUME NEW h \in Hooks, HookBreakpoint(t, h) \/ UnHookBreakpoint(t, h) PROVE Lone'
  <2>1. /\ pc'[t] = "protect" /\ doing'[t].hook = h
        /\ \/ doing'[t].for = "hook" /\ h \notin hooked
           \/ doing'[t].for = "unhook" /\ h \in hooked
        /\ UNCHANGED <<code, prot, debug, targets, storage, hooked, old, within, crashed>>
    BY <1>0, <1>4 DEF HookBreakpoint, UnHookBreakpoint, MayHook, MayUnHook, Begin, Goto, machine
  <2>2. h \notin hooked => code[Src[h]] = Original
    BY <1>1, <1>2, OneHook
  <2>3. Traced'
    BY <1>1, <1>2, <2>1 DEF Traced, OnGuard
  <2>4. Update'
    BY <1>2, <2>1, <2>2 DEF Update, Writing
  <2>5. Alive' /\ Kept' /\ InCallback' /\ InTrap'
    BY <1>2, <2>1 DEF Alive, Kept, InCallback, InTrap
  <2> QED BY <2>3, <2>4, <2>5 DEF Lone
<1>5. ASSUME NEW h \in Hooks, HookRegister(t, h) PROVE Lone'
  <2>1. PICK r \in Registers : /\ debug' = [debug EXCEPT ![t][r] = Src[h]]
                               /\ storage' = [storage EXCEPT ![h] = r]
                               /\ Installed(h, r)
    BY <1>5 DEF HookRegister
  <2>2. /\ pc'[t] = "user" /\ h \notin hooked /\ Method[h] = "HARDWARE_BP"
        /\ hooked' = hooked \cup {h}
        /\ UNCHANGED <<code, prot, doing, old, within, crashed>>
    BY <1>0, <1>5, <2>1 DEF HookRegister, MayHook, Goto, Installed
  <2>3. storage'[h] = r /\ r \in Words /\ \A g \in Hooks : g # h => storage'[g] = storage[g]
    BY <1>0, <2>1 DEF Words
  <2>4. debug'[t][r] = Src[h] /\ \A q \in Registers : q # r => debug'[t][q] = debug[t][q]
    BY <1>0, <2>1
  <2>5. Kept'
    BY <1>2, <2>1, <2>2, <2>3, KeptInstalled
  <2>6. Traced'
    <3>1. \A f \in Functions : code'[f] # Original =>
            \E g \in hooked' : Method[g] = "INT3_BP" /\ Src[g] = f
      BY <1>1, <1>2, <2>2 DEF Traced
    <3>2. ASSUME NEW q \in Registers, debug'[t][q] # None
          PROVE  \E g \in hooked' :
                   Method[g] = "HARDWARE_BP" /\ Src[g] = debug'[t][q] /\ storage'[g] = q
      <4>1. CASE q = r
        BY <2>2, <2>3, <2>4, <4>1
      <4>2. CASE q # r
        <5>1. PICK g \in hooked : Method[g] = "HARDWARE_BP" /\ Src[g] = debug[t][q] /\ storage[g] = q
          BY <1>2, <2>4, <3>2, <4>2 DEF Traced
        <5>2. g \in hooked' /\ storage'[g] = q
          BY <1>0, <2>2, <2>3, <5>1
        <5> QED BY <2>4, <4>2, <5>1, <5>2
      <4> QED BY <4>1, <4>2
    <3>3. \A p \in Pages : prot'[p] = "guard" => OnGuard(p)'
      BY <1>2, <2>2 DEF Traced, OnGuard
    <3>4. \A p \in Pages \ GuardPages : prot'[p] = "rx"
      BY <1>1, <1>2, <2>2 DEF Traced
    <3> QED BY <3>1, <3>2, <3>3, <3>4 DEF Traced
  <2>7. Alive' /\ Update' /\ InCallback' /\ InTrap'
    BY <1>2, <2>2 DEF Alive, Update, Writing, InCallback, InTrap
  <2> QED BY <2>5, <2>6, <2>7 DEF Lone
<1>6. ASSUME NEW h \in Hooks, HookGuard(t, h) PROVE Lone'
  <2>1. /\ pc'[t] = "user" /\ h \notin hooked /\ Method[h] = "GUARD_PAGE"
        /\ hooked' = hooked \cup {h} /\ Installed(h, storage[h])
        /\ prot' = [prot EXCEPT ![Page[Src[h]]] = "guard"]
        /\ UNCHANGED <<code, debug, storage, doing, old, within, crashed>>
    BY <1>0, <1>6 DEF HookGuard, MayHook, Goto, Installed
  <2>2. Kept'
    <3>1. storage[h] \in Words /\ storage'[h] = storage[h]
      BY <1>0, <2>1
    <3> QED BY <1>2, <2>1, <3>1, KeptInstalled
  <2>3. \A p \in Pages : prot'[p] = prot[p] \/ p = Page[Src[h]]
    BY <1>0, <2>1
  <2>4. Traced'
    <3>1. \A f \in Functions : code'[f] # Original =>
            \E g \in hooked' : Method[g] = "INT3_BP" /\ Src[g] = f
      BY <1>1, <1>2, <2>1 DEF Traced
    <3>2. \A r \in Registers : debug'[t][r] # None =>
            \E g \in hooked' : Method[g] = "HARDWARE_BP" /\ Src[g] = debug'[t][r] /\ storage'[g] = r
      BY <1>2, <2>1 DEF Traced
    <3>3. \A p \in Pages : prot'[p] = "guard" => OnGuard(p)'
      BY <1>2, <2>1, <2>3 DEF Traced, OnGuard
    <3>4. ASSUME NEW p \in Pages \ GuardPages PROVE prot'[p] = "rx"
      <4>1. prot[p] = "rx" /\ p # Page[Src[h]]
        BY <1>1, <1>2, <2>1 DEF Traced, GuardPages
      <4> QED BY <2>3, <4>1
    <3> QED BY <3>1, <3>2, <3>3, <3>4 DEF Traced
  <2>5. Alive' /\ Update' /\ InCallback' /\ InTrap'
    BY <1>2, <2>1 DEF Alive, Update, Writing, InCallback, InTrap
  <2> QED BY <2>2, <2>4, <2>5 DEF Lone
<1>7. ASSUME NEW h \in Hooks, UnHookRegister(t, h) PROVE Lone'
  <2>1. /\ pc'[t] = "user" /\ h \in hooked /\ Method[h] = "HARDWARE_BP"
        /\ hooked' = hooked \ {h} /\ Removed(h)
        /\ debug' = [debug EXCEPT ![t][storage[h]] = None]
        /\ UNCHANGED <<code, prot, storage, doing, old, within, crashed>>
    BY <1>0, <1>7 DEF UnHookRegister, MayUnHook, Goto, Removed
  <2>2. Kept'
    BY <1>2, <2>1, KeptRemoved
  <2>3. \A q \in Registers : debug'[t][q] = None \/ (debug'[t][q] = debug[t][q] /\ q # storage[h])
    BY <1>0, <2>1
  <2>4. Traced'
    <3>1. \A f \in Functions : code'[f] # Original =>
            \E g \in hooked' : Method[g] = "INT3_BP" /\ Src[g] = f
      BY <1>1, <1>2, <2>1 DEF Traced
    <3>2. \A r \in Registers : debug'[t][r] # None =>
            \E g \in hooked' : Method[g] = "HARDWARE_BP" /\ Src[g] = debug'[t][r] /\ storage'[g] = r
      BY <1>2, <2>1, <2>3 DEF Traced
    <3>3. \A p \in Pages : prot'[p] = "guard" => OnGuard(p)'
      BY <1>2, <2>1 DEF Traced, OnGuard
    <3>4. \A p \in Pages \ GuardPages : prot'[p] = "rx"
      BY <1>1, <1>2, <2>1 DEF Traced
    <3> QED BY <3>1, <3>2, <3>3, <3>4 DEF Traced
  <2>5. Alive' /\ Update' /\ InCallback' /\ InTrap'
    BY <1>2, <2>1 DEF Alive, Update, Writing, InCallback, InTrap
  <2> QED BY <2>2, <2>4, <2>5 DEF Lone
<1>8. ASSUME NEW h \in Hooks, UnHookRead(t, h) PROVE Lone'
  <2>1. /\ pc'[t] = "user" /\ h \in hooked /\ Method[h] = "GUARD_PAGE"
        /\ prot[Page[Src[h]]] # "guard"
        /\ hooked' = hooked \ {h} /\ Removed(h)
        /\ UNCHANGED <<code, prot, debug, storage, doing, old, within, crashed>>
    BY <1>0, <1>8 DEF UnHookRead, MayUnHook, Goto, Removed, machine
  <2>2. Kept'
    BY <1>2, <2>1, KeptRemoved
  <2>3. Traced'
    <3>1. \A f \in Functions : code'[f] # Original =>
            \E g \in hooked' : Method[g] = "INT3_BP" /\ Src[g] = f
      BY <1>1, <1>2, <2>1 DEF Traced
    <3>2. \A r \in Registers : debug'[t][r] # None =>
            \E g \in hooked' : Method[g] = "HARDWARE_BP" /\ Src[g] = debug'[t][r] /\ storage'[g] = r
      BY <1>2, <2>1 DEF Traced
    <3>3. \A p \in Pages : prot'[p] = "guard" => OnGuard(p)'
      BY <1>2, <2>1 DEF Traced, OnGuard
    <3>4. \A p \in Pages \ GuardPages : prot'[p] = "rx"
      BY <1>1, <1>2, <2>1 DEF Traced
    <3> QED BY <3>1, <3>2, <3>3, <3>4 DEF Traced
  <2>4. Alive' /\ Update' /\ InCallback' /\ InTrap'
    BY <1>2, <2>1 DEF Alive, Update, Writing, InCallback, InTrap
  <2> QED BY <2>2, <2>3, <2>4 DEF Lone
<1>9. ASSUME NEW h \in Hooks, UnHookGuard(t, h) PROVE Lone'
  <2>1. /\ pc'[t] = "trap" /\ mutex' = t /\ h \in hooked /\ Method[h] = "GUARD_PAGE"
        /\ prot' = [prot EXCEPT ![Page[Src[h]]] = "rwx"]
        /\ UNCHANGED <<code, debug, targets, storage, hooked, doing, old, within, crashed>>
    BY <1>0, <1>9 DEF UnHookGuard, MayUnHook, Goto, Lock
  <2>2. \A p \in Pages : prot'[p] = prot[p] \/ (prot'[p] = "rwx" /\ p = Page[Src[h]])
    BY <1>0, <2>1
  <2>3. Traced'
    <3>1. \A f \in Functions : code'[f] # Original =>
            \E g \in hooked' : Method[g] = "INT3_BP" /\ Src[g] = f
      BY <1>1, <1>2, <2>1 DEF Traced
    <3>2. \A r \in Registers : debug'[t][r] # None =>
            \E g \in hooked' : Method[g] = "HARDWARE_BP" /\ Src[g] = debug'[t][r] /\ storage'[g] = r
      BY <1>2, <2>1 DEF Traced
    <3>3. \A p \in Pages : prot'[p] = "guard" => OnGuard(p)'
      BY <1>2, <2>1, <2>2 DEF Traced, OnGuard
    <3>4. ASSUME NEW p \in Pages \ GuardPages PROVE prot'[p] = "rx"
      <4>1. prot[p] = "rx" /\ p # Page[Src[h]]
        BY <1>1, <1>2, <2>1 DEF Traced, GuardPages
      <4> QED BY <2>2, <4>1
    <3> QED BY <3>1, <3>2, <3>3, <3>4 DEF Traced
  <2>4. InTrap'
    BY <1>0, <2>1 DEF InTrap
  <2>5. Alive' /\ Kept' /\ Update' /\ InCallback'
    BY <1>2, <2>1 DEF Alive, Kept, Update, Writing, InCallback
  <2> QED BY <2>3, <2>4, <2>5 DEF Lone
<1> QED BY <1>3, <1>4, <1>5, <1>6, <1>7, <1>8, <1>9 DEF Choose

LEMMA InitLone == Init => Lone
<1> SUFFICES ASSUME Init PROVE Lone
  OBVIOUS
<1>1. Installer \in Threads
  BY VEHAssumption
<1>2. Alive /\ Kept /\ Update /\ InCallback /\ InTrap
  BY <1>1 DEF Init, Alive, Kept, Update, Writing, InCallback, InTrap
<1>3. Traced
  BY <1>1 DEF Init, Traced
<1> QED BY <1>2, <1>3 DEF Lone

LEMMA EndedStays ==
  ASSUME Threads = {Installer}, Ended, [Next]_vars
  PROVE  Ended'
<1>1. ASSUME NEW t \in Threads, Proceed(t) \/ HandlerRelock(t) PROVE FALSE
  BY <1>1 DEF Ended, Goto, Proceed, Fetch, HitRegister, HitGuard, HitBreakpoint, RunOriginal,
     Raise, Protect, WriteByte, WriteFault, Restore, RestoreHook, RestoreUnHook, RestoreHandler,
     RestoreRearm, Restored, Handle, HandlerLock, HandlerRelock, HandleBreakpoint, HandleStep,
     HandleGuard, Unhandled, CallOriginal, Rearm, RearmBreakpoint, RearmGuard, RearmNothing
<1>2. ASSUME NEW t \in Threads, Choose(t) PROVE FALSE
  BY <1>2 DEF Ended, Goto, Choose, CallFunction, HookBreakpoint, HookRegister, HookGuard,
     UnHookBreakpoint, UnHookRegister, UnHookRead, UnHookGuard
<1>3. CASE UNCHANGED vars
  BY <1>3 DEF vars, Ended
<1> QED BY <1>1, <1>2, <1>3 DEF Next

LEMMA StepLone ==
  ASSUME Threads = {Installer}, TypeInv, Lone, [Next]_vars
  PROVE  Lone' \/ Ended'
<1>1. CASE UNCHANGED vars
  <2>1. Alive' /\ Kept' /\ Update' /\ InCallback' /\ InTrap'
    BY <1>1 DEF vars, Lone, Alive, Kept, Update, OnGuard, Target, InCallback, InTrap, Answers
  <2>2. Traced'
    BY <1>1 DEF vars, Lone, Traced, OnGuard, Target
  <2> QED BY <2>1, <2>2 DEF Lone
<1>2. CASE Proceed(Installer)
  <2>1. ~WriteFault(Installer)
    BY DEF WriteFault, Goto, Lone, Update
  <2> QED BY <1>2, <2>1, LoneFetch, LoneProtect, LoneWrite, LoneRestore, LoneHandle,
             LoneCallback DEF Proceed
<1>3. CASE HandlerRelock(Installer)
  <2>1. pc \in [Threads -> Labels] /\ Installer \in Threads
    BY LoneTypes
  <2> QED BY <1>3, <2>1 DEF HandlerRelock, Goto, Crash, Ended
<1>4. CASE Choose(Installer)
  BY <1>4, LoneChoose
<1> QED BY <1>1, <1>2, <1>3, <1>4 DEF Next

LEMMA StepAloneInv ==
  ASSUME Threads = {Installer} PROVE AloneInv /\ [Next]_vars => AloneInv'
BY StepTypeInv, StepLone, EndedStays DEF AloneInv

LEMMA AloneAlways ==
  ASSUME Threads = {Installer} PROVE Spec => []AloneInv
<1>1. Init => AloneInv
  BY InitTypeInv, InitLone DEF AloneInv
<1>2. AloneInv /\ [Next]_vars => AloneInv'
  BY StepAloneInv
<1> QED BY <1>1, <1>2, PTL DEF Spec

\* In a process of one thread, with any hooks of the three kinds, on any pages, set, hit and
\* removed in any order: every exception a call of a function raises finds the hook it is for,
\* a callback calls its original unhooked, and no byte is written to a page that is not
\* writable.  The one way to end the process is UnHook of a GUARD_PAGE hook whose page is
\* still armed: its read raises the exception under m_TargetMutex.
THEOREM LoneSurvives ==
  ASSUME Threads = {Installer} PROVE Spec => []Survives
<1>1. AloneInv => Survives
  BY VEHAssumption DEF AloneInv, Lone, Ended, Alive, Survives
<1> QED BY <1>1, AloneAlways, PTL

\* There UnHook leaves nothing behind: neither a breakpoint nor a register, a context or a
\* page that is writable, but the pages a GUARD_PAGE hook has unprotected.
THEOREM LoneClean ==
  ASSUME Threads = {Installer} PROVE Spec => []Clean
<1>1. AloneInv => Clean
  <2> SUFFICES ASSUME AloneInv, hooked = {}, \A t \in Threads : pc[t] = "user"
               PROVE  /\ \A f \in Functions : code[f] = Original
                      /\ \A p \in Pages \ GuardPages : prot[p] = "rx"
                      /\ \A t \in Threads, r \in Registers : debug[t][r] = None
                      /\ targets = <<>>
    BY DEF Clean, GuardPages
  <2>1. pc[Installer] = "user" /\ Traced
    BY DEF AloneInv, Lone, Ended
  <2>2. targets \in Seq(Contexts) /\ \A i \in 1 .. Len(targets) : targets[i].hook \in hooked
    BY LoneTypes DEF AloneInv
  <2>3. targets = <<>>
    BY <2>2
  <2> QED BY <2>1, <2>3 DEF Traced
<1> QED BY <1>1, AloneAlways, PTL
=============================================================================
