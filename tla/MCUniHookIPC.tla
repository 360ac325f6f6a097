---------------------------- MODULE MCUniHookIPC ----------------------------
(***************************************************************************)
(* Small instances of UniHookIPC: messages of one DWORD, and halves that   *)
(* hold HalfSize \div 2 - 1 of them.                                       *)
(***************************************************************************)
EXTENDS UniHookIPC

MCThreads  == {LoaderMain, LoaderMsg, DllInit, DllMsg}
MCSide     == [t \in Threads |-> IF t \in {LoaderMain, LoaderMsg}
                                 THEN "Server" ELSE "Client"]
MCMessages == {Greeting, ListSubs, HookAt, HookMultiple,
               SubLine, Summary, HookReply}
MCSize     == [m \in Messages |-> 1]
None       == {}

\* A user who lists and one who hooks.
Listing == {<<ListSubs, ListSubs>>}
Users   == {<<ListSubs, ListSubs>>, <<HookAt, HookAt>>, <<HookMultiple>>}
=============================================================================
