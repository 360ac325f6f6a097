-------------------------- MODULE MCSharedMemQueue --------------------------
(***************************************************************************)
(* Small instances of SharedMemQueue: two messages, one of them twice as   *)
(* long as the other, and a half whose data area holds two frames of the   *)
(* short one or one of the long one.                                       *)
(***************************************************************************)
EXTENDS SharedMemQueueInv

CONSTANTS short, long, serverMain, serverMsg, clientMsg

MCMessages == {short, long}
MCSize     == [m \in Messages |-> IF m = short THEN 1 ELSE 2]

Everyone == {serverMain, serverMsg, clientMsg}
Servers  == {serverMain, serverMsg}
Clients  == {clientMsg}
Main     == {serverMain}
Pair     == {serverMain, clientMsg}
MCSide   == [t \in Threads |-> IF t \in Clients THEN "Client" ELSE "Server"]

Always == {TRUE}
Never  == {FALSE}

\* Bound: the messages of the server that wait for the client.
MaxWaiting == 1
ServerBound == Len(stack["ServerToClient"]) <= MaxWaiting
=============================================================================
