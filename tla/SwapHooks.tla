----------------------------- MODULE SwapHooks ------------------------------
(***************************************************************************)
(* PolyHook's hooks that swap pointers: VFuncSwap (an entry of a vtable),  *)
(* VTableSwap (the vtable of an object by a copy), VFuncDetour (the code   *)
(* an entry points to) and IATHook (an entry of the import table).  One    *)
(* thread sets and removes them, write by write, while others call.        *)
(*                                                                         *)
(* A place is what a pointer may point to: the entry of a function or of a *)
(* callback, which a detour may have patched, the rest of it (its body), a *)
(* trampoline, or memory that holds no code any more (Wild).               *)
(***************************************************************************)
EXTENDS Integers, Sequences, FiniteSets, SequencesExt

CONSTANTS
  Threads,   \* threads that call
  Hooks,     \* hook objects: numbers, set in their order
  Objects,   \* objects of one class
  Virtuals,  \* its virtual functions, a sequence
  Imports,   \* entries of the import tables: [module, descriptor, library, function]
  Setups     \* what a hook may be set up for: the arguments of SetupHook, functions of
             \* Hooks, and the index of HookAdditional

ASSUME SwapAssumption == Hooks \subseteq Nat \ {0} /\ IsFiniteSet(Hooks)

\* A descriptor of a module imports a function once.
ASSUME ImportAssumption ==
  \A r, s \in Imports :
    r.module = s.module /\ r.descriptor = s.descriptor /\ r.function = s.function => r = s

Indices == DOMAIN Virtuals
Callback(h) == [hook |-> h, extra |-> FALSE]     \* m_hkDest
Extra(h)    == [hook |-> h, extra |-> TRUE]      \* what HookAdditional installs
Callbacks   == {Callback(h) : h \in Hooks} \cup {Extra(h) : h \in Hooks}
Functions   == ToSet(Virtuals) \cup {s.function : s \in Imports}
Code        == Functions \cup Callbacks

\* A callback is no function that is hooked itself.  A hook of a virtual function is of
\* one the class has.
ASSUME CodeAssumption == Virtuals \in Seq(Functions) /\ Functions \cap Callbacks = {}
ASSUME SetupAssumption ==
  \A u \in Setups : \A h \in Hooks :
    u[h].type # "IAT" => u[h].object \in Objects /\ u[h].index \in Indices

Entry(c)      == [at |-> "entry", code |-> c]
Body(c)       == [at |-> "body", code |-> c]
Trampoline(h) == [at |-> "trampoline", code |-> Callback(h)]
Wild          == [at |-> "wild", code |-> 0]
Null          == [at |-> "null", code |-> 0]
Out           == [at |-> "out", code |-> 0]        \* not in a call
Loaded(t)     == [at |-> "table", code |-> t]      \* has read the vtable pointer
Done(f)       == [at |-> "done", code |-> f]       \* has run a function

\* Where calls are made.
VirtualSites == [object : Objects, index : Indices]

\* An entry of a vtable is none of an import table.
ASSUME SiteAssumption == VirtualSites \cap Imports = {}
Sites        == VirtualSites \cup Imports
Function(s)  == IF s \in Imports THEN s.function ELSE Virtuals[s.index]

VARIABLES
  setup,       \* setup[h]: what h is used for
  vptr,        \* vptr[o]: the vtable of an object: 0, the one of the class, or the
               \* m_NewVtable of a hook
  table,       \* table[t]: the words of a vtable
  iat,         \* iat[s]: an entry of an import table
  patch,       \* patch[c]: where the entry of c leads: its body, or a callback
  trampoline,  \* trampoline[h]: where the trampoline of h leads
  status,      \* status[h]: "new", "on", "off", or "failed"
  member,      \* member[h]: the members of h and the original HookAdditional returned
  busy         \* what the thread that hooks is in the middle of

memory == <<vptr, table, iat, patch, trampoline>>
hooks  == <<setup, status, member, busy>>

VARIABLES
  ip, site,    \* ip[t]: the place t is at; site[t]: where its call was made
  passed,      \* history: the callbacks its call has passed
  always,      \* history: those in the way of the call from its beginning until now
  during,      \* history: those in the way of calls of that function at some time
  chain,       \* history: chain[s]: what a call from s is to pass
  exposed      \* history: what it was about to use has been freed, or was not there yet

calls == <<ip, site, passed, always, during, exposed>>
vars  == <<memory, hooks, calls, chain>>

Idle == [hook |-> 0, doing |-> "nothing"]
Empty == [i \in Indices |-> Wild]                  \* memory of no meaning
NoSite == [object |-> 0, index |-> 0]

Init ==
  /\ setup \in Setups
  /\ vptr = [o \in Objects |-> 0]
  /\ table = [t \in {0} \cup Hooks |->
                IF t = 0 THEN [i \in Indices |-> Entry(Virtuals[i])] ELSE Empty]
  /\ iat = [s \in Imports |-> Entry(s.function)]
  /\ patch = [c \in Code |-> Body(c)]
  /\ trampoline = [h \in Hooks |-> Wild]
  /\ status = [h \in Hooks |-> "new"]
  /\ member = [h \in Hooks |-> [vtable |-> 0, src |-> Wild, orig |-> Wild, more |-> Wild]]
  /\ busy = Idle
  /\ ip      = [t \in Threads |-> Out]
  /\ site    = [t \in Threads |-> NoSite]
  /\ passed  = [t \in Threads |-> <<>>]
  /\ always  = [t \in Threads |-> {}]
  /\ during  = [t \in Threads |-> {}]
  /\ exposed = [t \in Threads |-> FALSE]
  /\ chain = [s \in Sites |-> <<Function(s)>>]
-----------------------------------------------------------------------------
\* What a thread at a place does next in memory m: a callback calls the original of
\* its hook (GetOriginal, or what HookAdditional returned).
Links == [patch |-> patch, trampoline |-> trampoline, member |-> member]
Leads(p, m) ==
  CASE p.at = "entry" -> m.patch[p.code]
    [] p.at = "trampoline" -> m.trampoline[p.code.hook]
    [] p.at = "body" /\ p.code \in Callbacks ->
         IF p.code.extra THEN m.member[p.code.hook].more ELSE m.member[p.code.hook].orig
    [] p.at = "body" /\ p.code \notin Callbacks -> Done(p.code)
    [] OTHER -> p

\* The callbacks on the way from a place, and what it ends in.
MaxWay == 4 * Cardinality(Hooks) + 3
Way(p, m) ==
  LET pos[n \in 0 .. MaxWay] ==
        IF n = 0 THEN [at |-> p, seen |-> <<>>]
        ELSE LET w == pos[n - 1]
             IN [at |-> Leads(w.at, m),
                 seen |-> IF w.at.at = "body" THEN Append(w.seen, w.at.code) ELSE w.seen]
      end == pos[MaxWay]
  IN IF end.at.at = "done" THEN end.seen ELSE Append(end.seen, Wild)

\* The pointers calls go through.
Pointers ==
  [s \in Sites |-> IF s \in Imports THEN iat[s] ELSE table[vptr[s.object]][s.index]]

\* The callbacks in the way of any call of a function: objects share a vtable.
Reaching(f) == UNION {ToSet(chain[s]) : s \in {r \in Sites : Function(r) = f}}

\* Every step of the hooking thread: what is in the way of the calls in progress.
Watch ==
  /\ UNCHANGED <<setup, ip, site, passed>>
  /\ chain' = [s \in Sites |-> Way(Pointers'[s], Links')]
  /\ always' = [t \in Threads |-> IF ip[t] = Out THEN {}
                                  ELSE always[t] \cap ToSet(chain'[site[t]])]
  /\ during' = [t \in Threads |-> IF ip[t] = Out THEN {}
                                  ELSE during[t] \cup Reaching(Function(site[t]))']

\* Threads at one of these places are exposed from now on.
Expose(P) == exposed' = [t \in Threads |-> exposed[t] \/ ip[t] \in P]

\* SetupHook and Hook of h begin: the hooks are set in order, each is used once.
Begin(h, type) ==
  /\ busy = Idle /\ status[h] = "new" /\ setup[h].type = type
  /\ \A g \in Hooks : g < h => status[g] # "new"

\* UnHook of h: the hooks are removed in the reverse of that order.
Newest(h, type) ==
  /\ busy = Idle /\ status[h] = "on" /\ setup[h].type = type
  /\ \A g \in Hooks : g > h => status[g] # "on"

\* The hooking thread goes on with h at what, or has finished with h.
Continue(h, what) == busy' = [hook |-> h, doing |-> what]
Finish(h, s) == busy' = Idle /\ status' = [status EXCEPT ![h] = s]
At(h, what)  == busy = [hook |-> h, doing |-> what]
-----------------------------------------------------------------------------
(***************************************************************************)
(* VFuncSwap                                                               *)
(***************************************************************************)
\* SetupHook(*object, Index, Dest), and m_OrigVFunc = m_hkVtable[m_hkIndex]
SaveVFunc(h) ==
  LET t == vptr[setup[h].object] IN
  /\ Begin(h, "VFuncSwap")
  /\ member' = [member EXCEPT ![h].vtable = t, ![h].orig = table[t][setup[h].index]]
  /\ Continue(h, "entry")
  /\ UNCHANGED <<memory, status, exposed>> /\ Watch

\* Faulty variant: the original is saved after the write.
WriteVFuncFirst(h) ==
  /\ At(h, "entry")
  /\ table' = [table EXCEPT ![member[h].vtable][setup[h].index] = Entry(Callback(h))]
  /\ member' = [member EXCEPT ![h].orig = Entry(Callback(h))]
  /\ Finish(h, "on")
  /\ UNCHANGED <<vptr, iat, patch, trampoline, exposed>> /\ Watch

\* m_hkVtable[m_hkIndex] = m_hkDest
WriteVFunc(h) ==
  /\ At(h, "entry")
  /\ table' = [table EXCEPT ![member[h].vtable][setup[h].index] = Entry(Callback(h))]
  /\ Finish(h, "on")
  /\ UNCHANGED <<vptr, iat, patch, trampoline, member, exposed>> /\ Watch

UnHookVFunc(h) ==
  /\ Newest(h, "VFuncSwap")
  /\ table' = [table EXCEPT ![member[h].vtable][setup[h].index] = member[h].orig]
  /\ Finish(h, "off")
  /\ UNCHANGED <<vptr, iat, patch, trampoline, member, exposed>> /\ Watch
-----------------------------------------------------------------------------
(***************************************************************************)
(* VFuncDetour: a Detour of the function an entry points to.               *)
(***************************************************************************)
\* Detour::SetupHook and Hook; what they do to the code is in module Detour.
HookDetour(h) ==
  LET p == table[vptr[setup[h].object]][setup[h].index] IN
  /\ Begin(h, "VFuncDetour")
  /\ p.at = "entry"
  /\ trampoline' = [trampoline EXCEPT ![h] = patch[p.code]]
  /\ patch' = [patch EXCEPT ![p.code] = Entry(Callback(h))]
  /\ member' = [member EXCEPT ![h].orig = Trampoline(h), ![h].src = p]
  /\ Finish(h, "on")
  /\ UNCHANGED <<vptr, table, iat, exposed>> /\ Watch

\* Faulty variant: the code of the function, whatever was there before the hook.
RestoreCodeBody(h) ==
  /\ Newest(h, "VFuncDetour")
  /\ patch' = [patch EXCEPT ![member[h].src.code] = Body(member[h].src.code)]
  /\ Continue(h, "trampoline")
  /\ UNCHANGED <<vptr, table, iat, trampoline, status, member, exposed>> /\ Watch

\* Detour::UnHook: the bytes that were there ...
RestoreCode(h) ==
  /\ Newest(h, "VFuncDetour")
  /\ patch' = [patch EXCEPT ![member[h].src.code] = trampoline[h]]
  /\ Continue(h, "trampoline")
  /\ UNCHANGED <<vptr, table, iat, trampoline, status, member, exposed>> /\ Watch

\* ... and FreeTrampoline.
FreeTrampoline(h) ==
  /\ At(h, "trampoline")
  /\ trampoline' = [trampoline EXCEPT ![h] = Wild]
  /\ Expose({Trampoline(h), Entry(Callback(h)), Body(Callback(h))})
  /\ Finish(h, "off")
  /\ UNCHANGED <<vptr, table, iat, patch, member>> /\ Watch
-----------------------------------------------------------------------------
(***************************************************************************)
(* VTableSwap                                                              *)
(***************************************************************************)
IsValidPtr(p) == p # Null

\* Faulty variant: the last function is not counted.
GetVFuncCountLess(words) ==
  Cardinality({n \in DOMAIN words : \A k \in 1 .. n : IsValidPtr(words[k])}) - 1

\* The words before the first that is no pointer to anything.
GetVFuncCount(words) ==
  Cardinality({n \in DOMAIN words : \A k \in 1 .. n : IsValidPtr(words[k])})

\* Hook up to the memcpy.
CopyTable(h) ==
  LET t == vptr[setup[h].object]
      m_VFuncCount == GetVFuncCount(Append(table[t], Null))
  IN /\ Begin(h, "VTableSwap")
     /\ member' = [member EXCEPT ![h].vtable = t, ![h].orig = table[t][setup[h].index]]
     /\ table' = [table EXCEPT ![h] =
                    [i \in Indices |-> IF i <= m_VFuncCount THEN table[t][i] ELSE Wild]]
     /\ Continue(h, "class")
     /\ UNCHANGED <<vptr, iat, patch, trampoline, status, exposed>> /\ Watch

\* *m_phkClass = m_NewVtable
SwapTable(h) ==
  /\ At(h, "class")
  /\ vptr' = [vptr EXCEPT ![setup[h].object] = h]
  /\ Continue(h, "new entry")
  /\ UNCHANGED <<table, iat, patch, trampoline, status, member, exposed>> /\ Watch

\* Faulty variant: the entry of the vtable that was copied is written.
DivertEntryOriginal(h) ==
  /\ At(h, "new entry")
  /\ table' = [table EXCEPT ![member[h].vtable][setup[h].index] = Entry(Callback(h))]
  /\ Finish(h, "on")
  /\ UNCHANGED <<vptr, iat, patch, trampoline, member, exposed>> /\ Watch

\* m_NewVtable[m_hkIndex] = m_hkDest
DivertEntry(h) ==
  /\ At(h, "new entry")
  /\ table' = [table EXCEPT ![h][setup[h].index] = Entry(Callback(h))]
  /\ Finish(h, "on")
  /\ UNCHANGED <<vptr, iat, patch, trampoline, member, exposed>> /\ Watch

\* Faulty variant: the original of the hook itself is returned.
DivertMoreHooked(h) ==
  LET i == setup[h].more IN
  /\ Newest(h, "VTableSwap")
  /\ i \in Indices /\ table[h][i] # Entry(Extra(h))
  /\ table' = [table EXCEPT ![h][i] = Entry(Extra(h))]
  /\ member' = [member EXCEPT ![h].more = table[member[h].vtable][setup[h].index]]
  /\ Continue(h, "return")
  /\ UNCHANGED <<vptr, iat, patch, trampoline, status, exposed>> /\ Watch

\* HookAdditional of the newest hook: the entry is diverted first ...
DivertMore(h) ==
  LET i == setup[h].more IN
  /\ Newest(h, "VTableSwap")
  /\ i \in Indices /\ table[h][i] # Entry(Extra(h))
  /\ table' = [table EXCEPT ![h][i] = Entry(Extra(h))]
  /\ member' = [member EXCEPT ![h].more = table[member[h].vtable][i]]
  /\ Continue(h, "return")
  /\ UNCHANGED <<vptr, iat, patch, trampoline, status, exposed>> /\ Watch

\* ... and the caller has its original when HookAdditional returns.
ReturnMore(h) ==
  /\ At(h, "return")
  /\ Finish(h, "on")
  /\ UNCHANGED <<memory, member, exposed>> /\ Watch

NotYet(p) == \E h \in Hooks : At(h, "return") /\ p = Body(Extra(h))

\* UnHook: *m_phkClass = m_OrigVtable ...
RestoreClass(h) ==
  /\ Newest(h, "VTableSwap")
  /\ vptr' = [vptr EXCEPT ![setup[h].object] = member[h].vtable]
  /\ Continue(h, "free")
  /\ UNCHANGED <<table, iat, patch, trampoline, status, member, exposed>> /\ Watch

\* ... and FreeNewVtable.
FreeNewVtable(h) ==
  /\ At(h, "free")
  /\ table' = [table EXCEPT ![h] = Empty]
  /\ Expose({Loaded(h)})
  /\ Finish(h, "off")
  /\ UNCHANGED <<vptr, iat, patch, trampoline, member>> /\ Watch
-----------------------------------------------------------------------------
(***************************************************************************)
(* IATHook                                                                 *)
(***************************************************************************)
\* The entry of that name behind the first descriptor of the module, if some
\* descriptor of the module has the library's name.
FindIATFunc(h, module) ==
  {s \in Imports : /\ s.module = module /\ s.descriptor = 1
                   /\ s.function = setup[h].function
                   /\ \E d \in Imports : d.module = module /\ d.library = setup[h].library}

FindImport(h) ==
  /\ Begin(h, "IAT")
  /\ FindIATFunc(h, setup[h].module) = {}
  /\ Finish(h, "failed")
  /\ UNCHANGED <<memory, member, exposed>> /\ Watch

\* m_pIATFuncOrig = Thunk->u1.Function
SaveImport(h) ==
  /\ Begin(h, "IAT")
  /\ \E s \in FindIATFunc(h, setup[h].module) :
       member' = [member EXCEPT ![h].orig = iat[s]]
  /\ Continue(h, "import")
  /\ UNCHANGED <<memory, status, exposed>> /\ Watch

\* Thunk->u1.Function = m_hkDest
WriteImport(h) ==
  /\ At(h, "import")
  /\ \E s \in FindIATFunc(h, setup[h].module) :
       iat' = [iat EXCEPT ![s] = Entry(Callback(h))]
  /\ Finish(h, "on")
  /\ UNCHANGED <<vptr, table, patch, trampoline, member, exposed>> /\ Watch

\* UnHook looks in the executable, whatever module Hook looked in; only hooks of
\* the executable are removed here.
UnHookImport(h) ==
  /\ Newest(h, "IAT") /\ setup[h].module = "exe"
  /\ \E s \in FindIATFunc(h, "exe") : iat' = [iat EXCEPT ![s] = member[h].orig]
  /\ Finish(h, "off")
  /\ UNCHANGED <<vptr, table, patch, trampoline, member, exposed>> /\ Watch
-----------------------------------------------------------------------------
(***************************************************************************)
(* The threads that call.  A call through an object reads its vtable       *)
(* pointer, then the entry.                                                *)
(***************************************************************************)
Call(t) ==
  /\ ip[t] = Out
  /\ \E s \in Sites :
       /\ site' = [site EXCEPT ![t] = s]
       /\ ip' = [ip EXCEPT ![t] = IF s \in Imports THEN iat[s] ELSE Loaded(vptr[s.object])]
       /\ always' = [always EXCEPT ![t] = ToSet(chain[s])]
       /\ during' = [during EXCEPT ![t] = Reaching(Function(s))]
  /\ UNCHANGED <<memory, hooks, chain, passed, exposed>>

LoadEntry(t) ==
  /\ ip[t].at = "table"
  /\ ip' = [ip EXCEPT ![t] = table[ip[t].code][site[t].index]]
  /\ UNCHANGED <<memory, hooks, chain, site, passed, always, during, exposed>>

\* Bound: passed ends with the first callback that is passed twice.
Run(t) ==
  /\ ip[t].at \in {"entry", "body", "trampoline"}
  /\ ip' = [ip EXCEPT ![t] = IF NotYet(@) THEN Wild ELSE Leads(@, Links)]
  /\ passed' = [passed EXCEPT ![t] = IF ip[t].at = "body" /\ IsInjective(@)
                                     THEN Append(@, ip[t].code) ELSE @]
  /\ exposed' = [exposed EXCEPT ![t] = @ \/ NotYet(ip[t])]
  /\ UNCHANGED <<memory, hooks, chain, site, always, during>>

Return(t) ==
  /\ ip[t].at = "done"
  /\ ip' = [ip EXCEPT ![t] = Out]
  /\ site' = [site EXCEPT ![t] = NoSite]
  /\ passed' = [passed EXCEPT ![t] = <<>>]
  /\ always' = [always EXCEPT ![t] = {}]
  /\ during' = [during EXCEPT ![t] = {}]
  /\ exposed' = [exposed EXCEPT ![t] = FALSE]
  /\ UNCHANGED <<memory, hooks, chain>>
-----------------------------------------------------------------------------
HookStep(h) ==
  \/ SaveVFunc(h) \/ WriteVFunc(h) \/ UnHookVFunc(h)
  \/ HookDetour(h) \/ RestoreCode(h) \/ FreeTrampoline(h)
  \/ CopyTable(h) \/ SwapTable(h) \/ DivertEntry(h)
  \/ DivertMore(h) \/ ReturnMore(h) \/ RestoreClass(h) \/ FreeNewVtable(h)
  \/ FindImport(h) \/ SaveImport(h) \/ WriteImport(h) \/ UnHookImport(h)

CallStep(t) == Call(t) \/ LoadEntry(t) \/ Run(t) \/ Return(t)

Next == (\E h \in Hooks : HookStep(h)) \/ (\E t \in Threads : CallStep(t))

Spec == Init /\ [][Next]_vars

\* A thread that is in a call goes on; nobody has to call, hook or unhook.
FairSpec == Spec /\ \A t \in Threads : WF_vars(LoadEntry(t) \/ Run(t) \/ Return(t))
-----------------------------------------------------------------------------
(***************************************************************************)
(* Properties                                                              *)
(***************************************************************************)
\* A thread never follows a pointer that was freed or never written, unless it had
\* the vtable, or was in the callback of the detour, when that was freed, or came
\* through HookAdditional before that returned: the order of the writes in Hook and
\* UnHook.
NeverWild == \A t \in Threads : ip[t] = Wild => exposed[t]

\* A call that ends has run the function it was meant for, however hooks come and go.
RightFunction ==
  \A t \in Threads : ip[t].at = "done" /\ ~exposed[t] => ip[t].code = Function(site[t])

\* Nor has any call passed a callback twice: what is saved and put back never leads from
\* a hook to a newer one that has led to it.
PassedOnce == \A t \in Threads : ~exposed[t] => IsInjective(passed[t])

\* A call that ends has passed each callback that was in its way all the time, and none
\* that was not in the way of that function meanwhile.
CallsOnce ==
  \A t \in Threads : ip[t].at = "done" /\ ~exposed[t] =>
    /\ always[t] \ {Wild} \subseteq ToSet(passed[t])
    /\ ToSet(passed[t]) \subseteq during[t]

\* With every hook removed, all pointers and all code are as they were.
AllRestored ==
  busy = Idle /\ (\A h \in Hooks : status[h] \in {"new", "off", "failed"}) =>
    /\ \A o \in Objects : vptr[o] = 0
    /\ \A i \in Indices : table[0][i] = Entry(Virtuals[i])
    /\ \A s \in Imports : iat[s] = Entry(s.function)
    /\ \A c \in Code : patch[c] = Body(c)

\* Hook and UnHook change the chains of callbacks as HookChains says.
Home(x) ==
  LET u == setup[x.hook] IN
  IF u.type = "IAT"
  THEN CHOOSE s \in Imports : /\ s.module = u.module /\ s.library = u.library
                              /\ s.function = u.function
  ELSE [object |-> u.object, index |-> IF x.extra THEN u.more ELSE u.index]

\* What the names of a setup say of where a hook ends up: FindIATFunc looks for the
\* function and not for the library it is of, and HookAdditional takes no notice of the
\* entry Hook has diverted already.
Unambiguous ==
  /\ \A r, s \in Imports :
       r.module = s.module /\ r.library = s.library /\ r.function = s.function => r = s
  /\ \A u \in Setups, h \in Hooks :
       /\ u[h].type = "VTableSwap" => u[h].more # u[h].index
       /\ u[h].type = "IAT" =>
            \A s \in Imports :
              s.module = u[h].module /\ s.descriptor = 1 /\ s.function = u[h].function =>
                s.library = u[h].library

Chains == INSTANCE HookChains WITH
  home  <- [x \in {y \in Callbacks : y.extra => setup[y.hook].type = "VTableSwap"
                                             /\ setup[y.hook].more \in Indices}
              |-> Home(x)]

AbstractSpec == Chains!Spec

\* Every call comes to an end, in the function or in a place that is no code:
\* no callback is its own original.
CallsEnd == \A t \in Threads : ip[t] # Out ~> ip[t].at \in {"out", "wild"}
=============================================================================
