------------------------------- MODULE VEHHook -------------------------------
(***************************************************************************)
(* PolyHook's VEHHook: a function is hooked by making its first            *)
(* instruction raise an exception, whose handler moves the thread to a     *)
(* callback.  The callback holds the object of GetProtectionObject, calls  *)
(* the original function (which is the hooked address itself), and when    *)
(* the object is destroyed it arms the hook again.                         *)
(*                                                                         *)
(* m_TargetMutex, a std::mutex, is held by Hook, UnHook and the handler,   *)
(* and not by the protection object.                                       *)
(***************************************************************************)
EXTENDS Integers, Sequences

CONSTANTS
  Threads,      \* the threads of the target
  Installer,    \* the thread that calls Hook and UnHook
  Hooks,        \* VEHHook objects
  Method,       \* Method[h]: the VEHMethod given to SetupHook
  Src,          \* Src[h]: the function h hooks
  Functions,    \* the functions the threads call
  Page,         \* Page[f]: the page of the first instruction of f
  HandlerPage,  \* the page of VEHHandler and of Hook
  Unhooks,      \* whether the installer ever calls UnHook
  Rehooks,      \* bound: whether it sets a breakpoint again that it removed
  Registers,    \* debug registers 0 .. 3
  MaxCalls,     \* bound: calls each thread makes
  None

Methods == {"INT3_BP", "HARDWARE_BP", "GUARD_PAGE"}

ASSUME VEHAssumption ==
  /\ Installer \in Threads
  /\ Method \in [Hooks -> Methods]
  /\ Src \in [Hooks -> Functions]
  /\ \A g, h \in Hooks : Src[g] = Src[h] => g = h
  /\ DOMAIN Page = Functions
  /\ Unhooks \in BOOLEAN /\ Rehooks \in BOOLEAN
  /\ Registers \subseteq Nat
  /\ MaxCalls \in Nat
  /\ None \notin Threads \cup Hooks \cup Functions

Pages       == {Page[f] : f \in Functions} \cup {HandlerPage}
Original    == 85                      \* any first byte but Int3
Int3        == 204
Bytes       == {Original, Int3}
Protections == {"rx", "rwx", "guard"}   \* "guard" is RWX | PAGE_GUARD
Targets     == [hook : Hooks, byte : Bytes \cup Registers \cup {None}]

VARIABLES
  code,      \* code[f]: the first byte of function f
  prot,      \* prot[p]: the protection of page p
  debug,     \* debug[t][r]: the function that register r of thread t traps
  mutex,     \* m_TargetMutex: the thread that holds it, or None
  targets,   \* m_HookTargets
  storage,   \* storage[h]: m_ThisCtx.m_StorageByte of hook h, None before Hook
  hooked,    \* the hooks that Hook has installed and UnHook not removed
  pc,        \* pc[t]: what thread t is doing
  at,        \* at[t]: the function t is calling
  why,       \* why[t]: the exception t is handling
  doing,     \* doing[t]: whose byte a MemoryProtect of t is for, and why
  old,       \* old[t]: m_OldProtection of that MemoryProtect
  within,    \* within[t]: the hooks whose callbacks t is in, outermost first
  calls,     \* calls[t]: how many calls t has made
  crashed    \* an exception nobody handled, or the handler, has ended the process

machine == <<code, prot, debug>>
shared  == <<mutex, targets, storage, hooked>>
vars    == <<code, prot, debug, mutex, targets, storage, hooked, pc, at, why,
             doing, old, within, calls, crashed>>

Jobs == [hook : Hooks \cup {None}, for : {"hook", "unhook", "handler", "rearm", "none"}]

Goto(t, from, to) ==
  /\ ~crashed
  /\ pc[t] = from
  /\ pc' = [pc EXCEPT ![t] = to]

Lock(t) == mutex = None /\ mutex' = t
Free    == mutex' = None

Crash == crashed' = TRUE

Last(s)  == s[Len(s)]
Front(s) == SubSeq(s, 1, Len(s) - 1)

\* The contexts but that of h, which m_HookTargets holds at most once.
Without(s, h) ==
  IF \E i \in 1 .. Len(s) : s[i].hook = h
  THEN LET k == CHOOSE i \in 1 .. Len(s) : s[i].hook = h
       IN  SubSeq(s, 1, k - 1) \o SubSeq(s, k + 1, Len(s))
  ELSE s
-----------------------------------------------------------------------------
(***************************************************************************)
(* A thread calls a function: the processor and the memory manager.        *)
(***************************************************************************)
CallFunction(t, f) ==
  /\ calls[t] < MaxCalls
  /\ Goto(t, "user", "fetch")
  /\ at' = [at EXCEPT ![t] = f]
  /\ calls' = [calls EXCEPT ![t] = @ + 1]
  /\ UNCHANGED <<machine, shared, why, doing, old, within, crashed>>

Raise(t, exception) ==
  /\ Goto(t, "fetch", "trap")
  /\ why' = [why EXCEPT ![t] = exception]
  /\ UNCHANGED <<code, debug, shared, at, doing, old, within, calls, crashed>>

OnRegister(t) == \E r \in Registers : debug[t][r] = at[t]

HitRegister(t) ==
  /\ OnRegister(t)
  /\ Raise(t, "SINGLE_STEP")
  /\ UNCHANGED prot

\* The system takes PAGE_GUARD off the page it raises the exception for.
HitGuard(t) ==
  /\ pc[t] = "fetch" /\ ~OnRegister(t) /\ prot[Page[at[t]]] = "guard"
  /\ Raise(t, "GUARD_PAGE")
  /\ prot' = [prot EXCEPT ![Page[at[t]]] = "rwx"]

HitBreakpoint(t) ==
  /\ pc[t] = "fetch" /\ ~OnRegister(t) /\ prot[Page[at[t]]] # "guard" /\ code[at[t]] = Int3
  /\ Raise(t, "BREAKPOINT")
  /\ UNCHANGED prot

\* The function runs and returns to its caller, a callback or the user's code.
RunOriginal(t) ==
  /\ pc[t] = "fetch" /\ ~OnRegister(t) /\ prot[Page[at[t]]] # "guard" /\ code[at[t]] = Original
  /\ Goto(t, "fetch", IF within[t] = <<>> THEN "user" ELSE "return")
  /\ UNCHANGED <<machine, shared, at, why, doing, old, within, calls, crashed>>
-----------------------------------------------------------------------------
(***************************************************************************)
(* MemoryProtect: make the page writable, write, put back what was there.  *)
(***************************************************************************)
Begin(t, h, for) == doing' = [doing EXCEPT ![t] = [hook |-> h, for |-> for]]
Target(t)        == Src[doing[t].hook]

Protect(t) ==
  /\ Goto(t, "protect", "write")
  /\ old' = [old EXCEPT ![t] = prot[Page[Target(t)]]]
  /\ prot' = [prot EXCEPT ![Page[Target(t)]] = "rwx"]
  /\ UNCHANGED <<code, debug, shared, at, why, doing, within, calls, crashed>>

\* Faulty variant: the protection object writes the byte it finds in the context.
NewByteDisarming(t) ==
  IF doing[t].for = "hook" THEN Int3 ELSE storage[doing[t].hook]

\* The byte that is written, for each of the four writers.
NewByte(t) ==
  LET h == doing[t].hook IN
  IF doing[t].for \in {"hook", "rearm"} THEN Int3
  ELSE IF doing[t].for = "unhook" THEN storage[h]
  ELSE (CHOOSE c \in {targets[i] : i \in 1 .. Len(targets)} : c.hook = h).byte

WriteByte(t) ==
  /\ Goto(t, "write", "restore")
  /\ prot[Page[Target(t)]] = "rwx"
  /\ code' = [code EXCEPT ![Target(t)] = NewByte(t)]
  /\ storage' = IF doing[t].for = "hook"
                THEN [storage EXCEPT ![doing[t].hook] = code[Target(t)]]
                ELSE storage
  /\ UNCHANGED <<prot, debug, mutex, targets, hooked, at, why, doing, old,
                 within, calls, crashed>>

\* Another thread has taken the permission away: the access violation finds no
\* hook, or a mutex its own thread holds.
WriteFault(t) ==
  /\ Goto(t, "write", "faulted")
  /\ prot[Page[Target(t)]] # "rwx"
  /\ Crash
  /\ UNCHANGED <<machine, shared, at, why, doing, old, within, calls>>

\* The end of whoever declared the MemoryProtect.
EnterCallback(t, h) ==
  /\ within' = [within EXCEPT ![t] = Append(@, h)]

LeaveCallback(t) ==
  /\ within' = [within EXCEPT ![t] = Front(@)]
  /\ pc' = [pc EXCEPT ![t] = IF Len(within[t]) = 1 THEN "user" ELSE "return"]

Restored(t, for) ==
  /\ pc[t] = "restore" /\ doing[t].for = for /\ ~crashed
  /\ prot' = [prot EXCEPT ![Page[Target(t)]] = old[t]]
  /\ doing' = [doing EXCEPT ![t] = [hook |-> None, for |-> "none"]]
  /\ UNCHANGED <<code, debug, storage, at, why, old, calls, crashed>>

Installed(h, byte) ==
  /\ targets' = Append(targets, [hook |-> h, byte |-> byte])
  /\ hooked' = hooked \cup {h}
  /\ Free

Removed(h) ==
  /\ targets' = Without(targets, h)
  /\ hooked' = hooked \ {h}
  /\ Free

RestoreHook(t) ==
  /\ Restored(t, "hook")
  /\ Installed(doing[t].hook, storage[doing[t].hook])
  /\ pc' = [pc EXCEPT ![t] = "user"]
  /\ UNCHANGED within

RestoreUnHook(t) ==
  /\ Restored(t, "unhook")
  /\ Removed(doing[t].hook)
  /\ pc' = [pc EXCEPT ![t] = "user"]
  /\ UNCHANGED within

\* Faulty variant: the handler does not release the mutex.
RestoreHandlerHolding(t) ==
  /\ Restored(t, "handler")
  /\ EnterCallback(t, doing[t].hook)
  /\ pc' = [pc EXCEPT ![t] = "callback"]
  /\ UNCHANGED <<mutex, targets, hooked>>

RestoreHandler(t) ==
  /\ Restored(t, "handler")
  /\ EnterCallback(t, doing[t].hook)
  /\ Free
  /\ pc' = [pc EXCEPT ![t] = "callback"]
  /\ UNCHANGED <<targets, hooked>>

RestoreRearm(t) ==
  /\ Restored(t, "rearm")
  /\ LeaveCallback(t)
  /\ UNCHANGED <<mutex, targets, hooked>>
-----------------------------------------------------------------------------
(***************************************************************************)
(* Hook.                                                                   *)
(***************************************************************************)
MayHook(t, h) ==
  /\ t = Installer /\ h \notin hooked /\ within[t] = <<>>
  /\ Rehooks \/ storage[h] = None

HookBreakpoint(t, h) ==
  /\ MayHook(t, h) /\ Method[h] = "INT3_BP"
  /\ Goto(t, "user", "protect")
  /\ Lock(t)
  /\ Begin(t, h, "hook")
  /\ UNCHANGED <<machine, targets, storage, hooked, at, why, old, within, calls,
                 crashed>>

\* Faulty variant: the index that is kept is the one after the register's.
HookRegisterPast(t, h) ==
  /\ MayHook(t, h) /\ Method[h] = "HARDWARE_BP"
  /\ Goto(t, "user", "user")
  /\ mutex = None
  /\ \E r \in Registers :
       /\ debug[t][r] = None
       /\ \A q \in Registers : q < r => debug[t][q] # None
       /\ debug' = [debug EXCEPT ![t][r] = Src[h]]
       /\ storage' = [storage EXCEPT ![h] = r + 1]
       /\ Installed(h, r)
  /\ UNCHANGED <<code, prot, at, why, doing, old, within, calls, crashed>>

\* The first free debug register of the current thread, and only of that one;
\* without a free one Hook returns false.
HookRegister(t, h) ==
  /\ MayHook(t, h) /\ Method[h] = "HARDWARE_BP"
  /\ Goto(t, "user", "user")
  /\ mutex = None
  /\ \E r \in Registers :
       /\ debug[t][r] = None
       /\ \A q \in Registers : q < r => debug[t][q] # None
       /\ debug' = [debug EXCEPT ![t][r] = Src[h]]
       /\ storage' = [storage EXCEPT ![h] = r]
       /\ Installed(h, r)
  /\ UNCHANGED <<code, prot, at, why, doing, old, within, calls, crashed>>

\* A page that holds the handler or Hook itself is refused.
HookGuard(t, h) ==
  /\ MayHook(t, h) /\ Method[h] = "GUARD_PAGE"
  /\ Page[Src[h]] # HandlerPage
  /\ Goto(t, "user", "user")
  /\ mutex = None
  /\ Installed(h, storage[h])
  /\ prot' = [prot EXCEPT ![Page[Src[h]]] = "guard"]
  /\ UNCHANGED <<code, debug, storage, at, why, doing, old, within, calls,
                 crashed>>
-----------------------------------------------------------------------------
(***************************************************************************)
(* UnHook, called outside the callbacks.                                   *)
(***************************************************************************)
MayUnHook(t, h) == Unhooks /\ t = Installer /\ h \in hooked /\ within[t] = <<>>

UnHookBreakpoint(t, h) ==
  /\ MayUnHook(t, h) /\ Method[h] = "INT3_BP"
  /\ Goto(t, "user", "protect")
  /\ Lock(t)
  /\ Begin(t, h, "unhook")
  /\ UNCHANGED <<machine, targets, storage, hooked, at, why, old, within, calls,
                 crashed>>

\* Faulty variant: the register goes on trapping.
UnHookRegisterKeeping(t, h) ==
  /\ MayUnHook(t, h) /\ Method[h] = "HARDWARE_BP"
  /\ Goto(t, "user", "user")
  /\ mutex = None
  /\ Removed(h)
  /\ UNCHANGED <<machine, storage, at, why, doing, old, within, calls, crashed>>

UnHookRegister(t, h) ==
  /\ MayUnHook(t, h) /\ Method[h] = "HARDWARE_BP"
  /\ Goto(t, "user", "user")
  /\ mutex = None
  /\ debug' = [debug EXCEPT ![t][storage[h]] = None]
  /\ Removed(h)
  /\ UNCHANGED <<code, prot, storage, at, why, doing, old, within, calls, crashed>>

\* UnHook reads a byte of the page, under the mutex, to make the guard go off.  A
\* page that has lost its guard before is simply read.
UnHookRead(t, h) ==
  /\ MayUnHook(t, h) /\ Method[h] = "GUARD_PAGE"
  /\ prot[Page[Src[h]]] # "guard"
  /\ Goto(t, "user", "user")
  /\ mutex = None
  /\ Removed(h)
  /\ UNCHANGED <<machine, storage, at, why, doing, old, within, calls, crashed>>

\* A page that is still armed raises the exception in UnHook, an instruction on
\* no page of Functions, while the thread holds the mutex.
UnHookGuard(t, h) ==
  /\ MayUnHook(t, h) /\ Method[h] = "GUARD_PAGE"
  /\ prot[Page[Src[h]]] = "guard"
  /\ Goto(t, "user", "trap")
  /\ Lock(t)
  /\ why' = [why EXCEPT ![t] = "GUARD_PAGE"]
  /\ at' = [at EXCEPT ![t] = None]
  /\ prot' = [prot EXCEPT ![Page[Src[h]]] = "rwx"]
  /\ UNCHANGED <<code, debug, targets, storage, hooked, doing, old, within, calls,
                 crashed>>
-----------------------------------------------------------------------------
(***************************************************************************)
(* VEHHandler, in the thread that raised the exception.                    *)
(***************************************************************************)
HandlerLock(t) ==
  /\ Goto(t, "trap", "search")
  /\ Lock(t)
  /\ UNCHANGED <<machine, targets, storage, hooked, at, why, doing, old, within,
                 calls, crashed>>

\* The thread comes from UnHook and holds the mutex already.  To lock a std::mutex
\* again is undefined: the lock fails, with an exception that ends the process
\* (MSVC), or waits for ever, which is the step not taken.
HandlerRelock(t) ==
  /\ Goto(t, "trap", "relocked")
  /\ mutex = t
  /\ Crash
  /\ UNCHANGED <<machine, shared, at, why, doing, old, within, calls>>

Raises(h) == CASE Method[h] = "INT3_BP"     -> "BREAKPOINT"
               [] Method[h] = "HARDWARE_BP" -> "SINGLE_STEP"
               [] Method[h] = "GUARD_PAGE"  -> "GUARD_PAGE"

\* Faulty variant: a guarded page answers for the hooked function only.
AnswersAtSource(c, t) ==
  /\ Raises(c.hook) = why[t]
  /\ at[t] = Src[c.hook]

\* The target the loop stops at: our breakpoint, or any hook on our page.
Answers(c, t) ==
  /\ Raises(c.hook) = why[t]
  /\ IF why[t] = "GUARD_PAGE" THEN Page[at[t]] = Page[Src[c.hook]]
     ELSE at[t] = Src[c.hook]
Found(t, i) == /\ i \in 1 .. Len(targets) /\ Answers(targets[i], t)
               /\ \A j \in 1 .. i - 1 : ~Answers(targets[j], t)

HandleBreakpoint(t) ==
  /\ why[t] = "BREAKPOINT"
  /\ Goto(t, "search", "protect")
  /\ \E i \in 1 .. Len(targets) :
       Found(t, i) /\ Begin(t, targets[i].hook, "handler")
  /\ UNCHANGED <<machine, shared, at, why, old, within, calls, crashed>>

HandleStep(t) ==
  /\ why[t] = "SINGLE_STEP"
  /\ Goto(t, "search", "callback")
  /\ \E i \in 1 .. Len(targets) :
       /\ Found(t, i)
       /\ debug' = [debug EXCEPT ![t][targets[i].byte] = None]
       /\ EnterCallback(t, targets[i].hook)
  /\ Free
  /\ UNCHANGED <<code, prot, targets, storage, hooked, at, why, doing, old, calls,
                 crashed>>

\* An access to the page that is not to the hooked function goes on, and the
\* guard is off for whoever comes next.
HandleGuard(t) ==
  /\ why[t] = "GUARD_PAGE"
  /\ pc[t] = "search"
  /\ \E i \in 1 .. Len(targets) :
       /\ Found(t, i)
       /\ IF at[t] = Src[targets[i].hook]
          THEN Goto(t, "search", "callback") /\ EnterCallback(t, targets[i].hook)
          ELSE Goto(t, "search", "fetch") /\ UNCHANGED within
  /\ Free
  /\ UNCHANGED <<machine, targets, storage, hooked, at, why, doing, old, calls,
                 crashed>>

\* EXCEPTION_CONTINUE_SEARCH for an exception that is nobody else's.
Unhandled(t) ==
  /\ Goto(t, "search", "faulted")
  /\ \A i \in 1 .. Len(targets) : ~Answers(targets[i], t)
  /\ Free /\ Crash
  /\ UNCHANGED <<machine, targets, storage, hooked, at, why, doing, old, within,
                 calls>>
-----------------------------------------------------------------------------
(***************************************************************************)
(* A callback, as in the demonstration: GetProtectionObject, then a call   *)
(* of GetOriginal, then the destructor of the object.                      *)
(***************************************************************************)
CallOriginal(t) ==
  /\ Goto(t, "callback", "fetch")
  /\ at' = [at EXCEPT ![t] = Src[Last(within[t])]]
  /\ UNCHANGED <<machine, shared, why, doing, old, within, calls, crashed>>

\* Faulty variant: the object restores guards only.
RearmForgotten(t) ==
  /\ ~crashed /\ pc[t] = "return"
  /\ Method[Last(within[t])] = "INT3_BP"
  /\ LeaveCallback(t)
  /\ UNCHANGED <<machine, shared, at, why, doing, old, calls, crashed>>

RearmBreakpoint(t) ==
  /\ Goto(t, "return", "protect")
  /\ Method[Last(within[t])] = "INT3_BP"
  /\ Begin(t, Last(within[t]), "rearm")
  /\ UNCHANGED <<machine, shared, at, why, old, within, calls, crashed>>

RearmGuard(t) ==
  /\ ~crashed /\ pc[t] = "return"
  /\ Method[Last(within[t])] = "GUARD_PAGE"
  /\ prot' = [prot EXCEPT ![Page[Src[Last(within[t])]]] = "guard"]
  /\ LeaveCallback(t)
  /\ UNCHANGED <<code, debug, shared, at, why, doing, old, calls, crashed>>

RearmNothing(t) ==
  /\ ~crashed /\ pc[t] = "return"
  /\ Method[Last(within[t])] = "HARDWARE_BP"
  /\ LeaveCallback(t)
  /\ UNCHANGED <<machine, shared, at, why, doing, old, calls, crashed>>
-----------------------------------------------------------------------------
Init ==
  /\ code    = [f \in Functions |-> Original]
  /\ prot    = [p \in Pages |-> "rx"]
  /\ debug   = [t \in Threads |-> [r \in Registers |-> None]]
  /\ mutex   = None
  /\ targets = <<>>
  /\ storage = [h \in Hooks |-> None]
  /\ hooked  = {}
  /\ pc      = [t \in Threads |-> "user"]
  /\ at      = [t \in Threads |-> None]
  /\ why     = [t \in Threads |-> "none"]
  /\ doing   = [t \in Threads |-> [hook |-> None, for |-> "none"]]
  /\ old     = [t \in Threads |-> "rx"]
  /\ within  = [t \in Threads |-> <<>>]
  /\ calls   = [t \in Threads |-> 0]
  /\ crashed = FALSE

Fetch(t)   == HitRegister(t) \/ HitGuard(t) \/ HitBreakpoint(t) \/ RunOriginal(t)
Restore(t) == \/ RestoreHook(t) \/ RestoreUnHook(t)
              \/ RestoreHandler(t) \/ RestoreRearm(t)
Handle(t)  == \/ HandlerLock(t) \/ HandleBreakpoint(t) \/ HandleStep(t)
              \/ HandleGuard(t) \/ Unhandled(t)
Rearm(t)   == RearmBreakpoint(t) \/ RearmGuard(t) \/ RearmNothing(t)

\* What t is in the middle of goes on.
Proceed(t) == \/ Fetch(t) \/ Protect(t) \/ WriteByte(t) \/ WriteFault(t)
              \/ Restore(t) \/ Handle(t) \/ CallOriginal(t) \/ Rearm(t)

Choose(t) ==
  \/ \E f \in Functions : CallFunction(t, f)
  \/ \E h \in Hooks : \/ HookBreakpoint(t, h) \/ HookRegister(t, h) \/ HookGuard(t, h)
                      \/ UnHookBreakpoint(t, h) \/ UnHookRegister(t, h)
                      \/ UnHookRead(t, h) \/ UnHookGuard(t, h)

Next == \E t \in Threads : Proceed(t) \/ HandlerRelock(t) \/ Choose(t)

Spec == Init /\ [][Next]_vars

\* A thread in the middle of something goes on, but for one that locks the mutex
\* it holds.  The calls are finitely many, so
\* that weak fairness is enough for one that waits for m_TargetMutex.
FairSpec == Spec /\ \A t \in Threads : WF_vars(Proceed(t))
-----------------------------------------------------------------------------
(***************************************************************************)
(* Properties.                                                             *)
(***************************************************************************)
Labels == {"user", "fetch", "trap", "search", "protect", "write", "restore",
           "callback", "return", "faulted", "relocked"}

\* The type of every variable; a hook has one context.
TypeOK ==
  /\ code \in [Functions -> Bytes] /\ prot \in [Pages -> Protections]
  /\ debug \in [Threads -> [Registers -> Functions \cup {None}]]
  /\ mutex \in Threads \cup {None}
  /\ targets \in Seq(Targets)
  /\ \A i, j \in 1 .. Len(targets) : targets[i].hook = targets[j].hook => i = j
  /\ storage \in [Hooks -> Bytes \cup Registers \cup {None}]
  /\ hooked \subseteq Hooks
  /\ pc \in [Threads -> Labels] /\ at \in [Threads -> Functions \cup {None}]
  /\ why \in [Threads -> {"none", "BREAKPOINT", "SINGLE_STEP", "GUARD_PAGE"}]
  /\ doing \in [Threads -> Jobs] /\ old \in [Threads -> Protections]
  /\ within \in [Threads -> Seq(Hooks)]
  /\ calls \in [Threads -> 0 .. MaxCalls]
  /\ crashed \in BOOLEAN

\* Thread t has hit hook h and not yet armed it again, or is (un)installing it.
Busy(t, h) == doing[t].hook = h \/ \E i \in 1 .. Len(within[t]) : within[t][i] = h

\* "Return an object to restore INT3_BP after callback is done": however the
\* threads that hit a breakpoint and arm it again overlap, it is there when
\* none of them is busy with it.
Armed ==
  \A h \in hooked :
    Method[h] = "INT3_BP" /\ (\A t \in Threads : ~Busy(t, h))
      => code[Src[h]] = Int3

\* The process of a single thread ends only where UnHook reads a page whose guard
\* is still armed: every exception that the program's own calls raise finds the
\* hook it is for, and no write to the code faults.
Survives == crashed => \E t \in Threads : pc[t] = "relocked"

\* Once every hook is removed and its callbacks are done, the program is as it
\* was: its code, the debug registers, the protection of its pages but those
\* that a GUARD_PAGE hook has made writable for good.
Clean ==
  hooked = {} /\ (\A t \in Threads : pc[t] = "user") =>
    /\ \A f \in Functions : code[f] = Original
    /\ \A p \in Pages \ {Page[Src[h]] : h \in {h \in Hooks : Method[h] = "GUARD_PAGE"}} :
         prot[p] = "rx"
    /\ \A t \in Threads, r \in Registers : debug[t][r] = None
    /\ targets = <<>>

\* Every call returns: threads that arm a breakpoint under a callback that is
\* about to call the original make it nest, but not for ever, and nobody keeps
\* m_TargetMutex.
CallsReturn ==
  \A t \in Threads : pc[t] # "user" ~> pc[t] = "user" \/ crashed
=============================================================================
