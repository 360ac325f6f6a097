------------------------------ MODULE MCVEHHook ------------------------------
(***************************************************************************)
(* Small instances of VEHHook: three functions, two of them on one page,   *)
(* and one on the page of the handler.                                     *)
(***************************************************************************)
EXTENDS VEHHook

CONSTANTS installer, caller, funF, funG, funH, funK,
          hookF, hookG, hookH, hookK, page1, page2, handlers

One    == {installer}
Both   == {installer, caller}
MCPage == [x \in Functions |-> IF x \in {funF, funG} THEN page1
                               ELSE IF x = funH THEN page2 ELSE handlers]
MCSrc  == [x \in Hooks |-> IF x = hookF THEN funF ELSE IF x = hookG THEN funG
                           ELSE IF x = hookH THEN funH ELSE funK]

\* A guarded page with a breakpoint on it, and two functions for one register.
Mixed       == [x \in Hooks |-> IF x = hookF THEN "GUARD_PAGE"
                                ELSE IF x = hookG THEN "INT3_BP"
                                ELSE "HARDWARE_BP"]
Breakpoints == [x \in Hooks |-> "INT3_BP"]
OneRegister == {0}

HookAll == {hookF, hookG, hookH, hookK}
HookFG  == {hookF, hookG}
HookF   == {hookF}
FunAll  == {funF, funG, funH, funK}
FunFG   == {funF, funG}
FunF    == {funF}
=============================================================================
