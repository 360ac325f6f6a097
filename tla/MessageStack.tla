---------------------------- MODULE MessageStack ----------------------------
(***************************************************************************)
(* What a SharedMemQueue promises its callers: two bounded stacks of       *)
(* messages, one per direction, whose operations take effect at once.  A   *)
(* push on a full half is refused and changes nothing; a pop returns the   *)
(* message pushed last; a query returns the number of messages.            *)
(*                                                                         *)
(* An entry of a stack keeps the fill level after it, so that the capacity *)
(* is stated without adding up sizes.                                      *)
(***************************************************************************)
EXTENDS QueueLayout, Sequences

CONSTANTS
  Threads,    \* the threads that use the queue
  Side        \* Side[t]: the process of thread t

VARIABLES
  stack,      \* stack[h]: the messages of half h, oldest first
  result      \* result[t]: what the last operation of t returned

svars == <<stack, result>>

Entries == [msg : Messages, end : Nat]
Results == [op : {"none"}] \cup [op : {"push"}, ok : BOOLEAN]
             \cup [op : {"empty"}] \cup [op : {"pop"}, msg : Messages]
             \cup [op : {"count"}, n : Nat]

\* The number of DWORDs the entries of a stack take.
Fill(s) == IF s = <<>> THEN 0 ELSE s[Len(s)].end

Pushed(s, m) == Append(s, [msg |-> m, end |-> Fill(s) + Frame(m)])
Popped(s)    == SubSeq(s, 1, Len(s) - 1)

Out(t) == OutHalf(Side[t])
In(t)  == InHalf(Side[t])

Returns(t, r) == result' = [result EXCEPT ![t] = r]
-----------------------------------------------------------------------------
Init ==
  /\ stack  = [h \in Halves |-> <<>>]
  /\ result = [t \in Threads |-> [op |-> "none"]]

Push(t, m) ==
  /\ Fits(Fill(stack[Out(t)]), m)
  /\ stack' = [stack EXCEPT ![Out(t)] = Pushed(@, m)]
  /\ Returns(t, [op |-> "push", ok |-> TRUE])

Refuse(t, m) ==
  /\ ~Fits(Fill(stack[Out(t)]), m)
  /\ Returns(t, [op |-> "push", ok |-> FALSE])
  /\ UNCHANGED stack

Pop(t) ==
  /\ stack[In(t)] # <<>>
  /\ stack' = [stack EXCEPT ![In(t)] = Popped(@)]
  /\ Returns(t, [op |-> "pop", msg |-> stack[In(t)][Len(stack[In(t)])].msg])

PopNothing(t) ==
  /\ stack[In(t)] = <<>>
  /\ Returns(t, [op |-> "empty"])
  /\ UNCHANGED stack

Count(t, h) ==
  /\ Returns(t, [op |-> "count", n |-> Len(stack[h])])
  /\ UNCHANGED stack

Next ==
  \E t \in Threads :
    \/ \E m \in Messages : Push(t, m) \/ Refuse(t, m)
    \/ Pop(t)
    \/ PopNothing(t)
    \/ \E h \in Halves : Count(t, h)

Spec == Init /\ [][Next]_svars
=============================================================================
