------------------------- MODULE SharedMemQueueInv --------------------------
(***************************************************************************)
(* Why SharedMemQueue is correct when every push is made under ManualLock: *)
(* the inductive invariant LockedInv, whose parts say what each half and   *)
(* each thread look like in the middle of an operation.                    *)
(***************************************************************************)
EXTENDS SharedMemQueue

Fill(h) == Promise!Fill(stack[h])
Top(h)  == stack[h][Len(stack[h])].msg

\* Offset where the frame of entry i of stack s begins.
Begin(s, i) == s[i].end - Frame(s[i].msg)

\* The frames of stack s lie in an area one behind the other, without overlap.
Stacked(s, area) ==
  /\ HeaderSize + Promise!Fill(s) < HalfSize
  /\ \A i \in 1 .. Len(s) :
       /\ s[i].end >= i
       /\ s[i].end <= Promise!Fill(s)
       /\ Begin(s, i) = (IF i = 1 THEN 0 ELSE s[i - 1].end)
       /\ HoldsFrame(area, s[i].end, s[i].msg)
  /\ \A i, j \in 1 .. Len(s) : i < j => s[i].end <= Begin(s, j)

\* Threads between the store of the end offset and the store of the count.
PushedEnd(t) == pc[t] \in {"pushCountLoad", "pushCountStore"}
PoppedEnd(t) == pc[t] \in {"popCountLoad", "popCountStore"}

HalfInv(h) ==
  /\ Stacked(stack[h], mem[h])
  /\ count[h] = Len(stack[h])
  /\ \/ end[h] = Fill(h)
     \/ \E t \in Threads : \/ PushedEnd(t) /\ Out(t) = h
                           \/ PoppedEnd(t) /\ In(t) = h

PushInv(t) ==
  /\ pc[t] \in Updating \cup {"push", "pushSignal"} => manual[t]
  /\ pc[t] \in Updating \cup {"push"} => msg[t] \in Messages
  /\ pc[t] \in Updating => Fits(Fill(Out(t)), msg[t])
  /\ pc[t] = "pushWrite" => at[t] = Fill(Out(t))
  /\ pc[t] \in Updating \ {"pushWrite"} =>
       HoldsFrame(mem[Out(t)], Fill(Out(t)) + Frame(msg[t]), msg[t])
  /\ pc[t] = "pushEndStore" => reg[t] = end[Out(t)]
  /\ PushedEnd(t) => end[Out(t)] = Fill(Out(t)) + Frame(msg[t])
  /\ pc[t] = "pushCountStore" => reg[t] = count[Out(t)]

PopInv(t) ==
  /\ pc[t] \in Popping => stack[In(t)] # <<>>
  /\ pc[t] = "popRead" => at[t] = Fill(In(t))
  /\ pc[t] \in Popping \ {"popRead"} =>
       msg[t] = Top(In(t)) /\ size[t] = Size[msg[t]]
  /\ pc[t] = "popEndStore" => reg[t] = end[In(t)]
  /\ PoppedEnd(t) => end[In(t)] = Fill(In(t)) - Frame(msg[t])
  /\ pc[t] = "popCountStore" => reg[t] = count[In(t)]
  /\ pc[t] # "dead"

\* The header, the frames in memory and the history agree up to what the
\* thread that owns m_Mutex is in the middle of: this is the reason why no
\* update is lost when the callers lock (lines 160-220).
LockedInv ==
  /\ TypeOK
  /\ LockBalanced
  /\ \A h \in Halves : HalfInv(h)
  /\ \A t \in Threads : PushInv(t) /\ PopInv(t)
(***************************************************************************)
(* When the process at the writing end of a half may be killed anywhere,   *)
(* the count may stay behind the frames.  M is what is pushed there.       *)
(***************************************************************************)
\* The frames are those of some stack of messages of M, the end offset is where
\* they end, and the count promises no more than them: it is stored after them in
\* a push, and only a reader that is between its two stores has it one too high.
SoundHalf(h, M) ==
  \E s \in Seq(Promise!Entries) :
    /\ Stacked(s, mem[h]) /\ end[h] = Promise!Fill(s)
    /\ \A i \in 1 .. Len(s) : s[i].msg \in M
    /\ count[h] <= Len(s) + (IF \E t \in Threads : PoppedEnd(t) /\ In(t) = h
                             THEN 1 ELSE 0)
    /\ (\E t \in Threads : PushedEnd(t) /\ Out(t) = h) => count[h] < Len(s)

SoundPush(t, M) ==
  /\ pc[t] \in Updating \cup {"push"} => manual[t] /\ msg[t] \in M
  /\ pc[t] \in {"pushWrite", "pushEndLoad", "pushEndStore"} => Fits(end[Out(t)], msg[t])
  /\ pc[t] = "pushWrite" => at[t] = end[Out(t)]
  /\ pc[t] \in {"pushEndLoad", "pushEndStore"} =>
       HoldsFrame(mem[Out(t)], end[Out(t)] + Frame(msg[t]), msg[t])
  /\ pc[t] = "pushEndStore" => reg[t] = end[Out(t)]
  /\ pc[t] = "pushCountStore" => reg[t] = count[Out(t)]

SoundPop(t, M) ==
  /\ pc[t] \in Popping => count[In(t)] >= 1
  /\ pc[t] = "popRead" => at[t] = end[In(t)]
  /\ pc[t] \in Popping \ {"popRead"} => msg[t] \in M /\ size[t] = Size[msg[t]]
  /\ pc[t] \in {"popEndLoad", "popEndStore"} =>
       HoldsFrame(mem[In(t)], end[In(t)], msg[t])
  /\ pc[t] = "popEndStore" => reg[t] = end[In(t)]
  /\ pc[t] = "popCountStore" => reg[t] = count[In(t)]
  /\ pc[t] # "dead"
  /\ result[t].op = "pop" => result[t].msg \in M

SoundThread(t, h, M) ==
  /\ Out(t) = h => SoundPush(t, M)
  /\ In(t) = h => SoundPop(t, M)

\* The inductive reason why the readers of half h survive and get messages of M.
Sound(h, M) ==
  /\ SoundHalf(h, M)
  /\ \A t \in Threads : SoundThread(t, h, M)

\* The halves whose readers are not killed.
Surviving == {h \in Halves : \A side \in Mortal : InHalf(side) # h}

SurvivorInv ==
  /\ TypeOK /\ LockBalanced
  /\ \A h \in Surviving : Sound(h, Messages)
=============================================================================
