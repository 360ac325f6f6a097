------------------------------- MODULE Detour -------------------------------
(***************************************************************************)
(* PolyHook's X86Detour and X64Detour: the first instructions of a         *)
(* function are copied to a trampoline and relocated, a jump back to the   *)
(* rest of the function is written behind them, and a jump to the callback *)
(* is written over them.  The callback runs the original function by       *)
(* calling the trampoline (GetOriginal).                                   *)
(*                                                                         *)
(* Code is a partial function from addresses to the instructions that      *)
(* start there.  An instruction of the hooked function carries its address *)
(* in the unhooked function, its "home", wherever it is copied to; a       *)
(* thread is followed by the place it would have reached without hooks.    *)
(***************************************************************************)
EXTENDS Integers, Sequences, FiniteSets, SequencesExt, FiniteSetsExt, Functions

CONSTANTS
  Threads,   \* threads of the target
  Hooks,     \* Detour objects set up for the function, numbered from 1
  Reach,     \* how far a 32 bit displacement reaches: 2^31 bytes
  Bodies     \* Bodies[arch]: the functions hooked, each a function from addresses to
             \* [op, size, to], "to" being the address a relative one refers to

Archs == {"x86", "x64"}

\* m_hkSrc is address 0; far from it, and from each other, the trampolines, and on
\* the other side the callbacks.
Far           == 10000
Trampoline(h) == Far * h
Callback(h)   == -10 - h
Out           == -1             \* a thread is not in the function
Lost          == -2             \* a thread has executed what is no instruction
NoHome        == -1
Disassembled  == 256            \* bytes CalculateLength gives to cs_disasm

Span(a, n) == a .. a + n - 1

\* The instructions of a function, from its first byte on, one after the other.
Body(b) ==
  /\ 0 \in DOMAIN b /\ DOMAIN b \subseteq Span(0, Far)
  /\ \A a \in DOMAIN b :
       /\ b[a].size \in 1 .. 15
       /\ a = 0 \/ \E p \in DOMAIN b : a = p + b[p].size
       /\ \A p \in DOMAIN b : p < a => p + b[p].size <= a

\* It is a whole function: its jumps stay in it, and what is neither a jump nor a return
\* is followed by an instruction.
Closed(b) ==
  \A a \in DOMAIN b :
    /\ b[a].op \in {"plain", "call", "access", "jmp", "cond", "ret"} /\ b[a].to \in Int
    /\ b[a].op \in {"jmp", "cond"} => b[a].to \in DOMAIN b
    /\ b[a].op \notin {"jmp", "ret"} => a + b[a].size \in DOMAIN b

ASSUME DetourAssumption ==
  /\ Hooks \subseteq Nat \ {0}
  /\ Reach \in Nat /\ Far <= Reach
  /\ \A a \in Archs : \A b \in Bodies[a] : Body(b) /\ Closed(b)

JmpSize(arch)  == IF arch = "x64" THEN 16 ELSE 5      \* GetJMPSize
Needed(arch)   == JmpSize(arch)                       \* CalculateLength's argument
Conditional(i) == i.op = "cond"
Relative(i)    == i.op \in {"jmp", "call", "access", "cond", "ind"}

\* A displacement is a signed number of 8 bits or of 32.  On x86 an address has 32
\* bits too, and the sum with a truncated displacement is the right one.
Signed(n, half) == ((n + half) % (2 * half)) - half
Wrap(n, width, arch) ==
  IF width = 8 THEN Signed(n, 128) ELSE IF arch = "x64" THEN Signed(n, Reach) ELSE n

\* The code of a function that is not hooked.
Unhooked(body) ==
  [a \in DOMAIN body |->
     LET i == body[a]
     IN [op |-> i.op, size |-> i.size, home |-> a,
         width |-> IF i.size = 2 THEN 8 ELSE 32,
         disp |-> IF Relative(i) THEN i.to - (a + i.size) ELSE 0]]

\* Instructions that Detour writes itself.
Own(op, size, disp) == [op |-> op, size |-> size, home |-> NoHome, width |-> 32,
                        disp |-> disp]

\* WriteJMP: relative on x86, a push of the address and a ret on x64.
WriteJMP(arch, from, to) ==
  IF arch = "x86" THEN Own("jmp", 5, to - (from + 5)) ELSE Own("abs", 16, to)

Nop == Own("nop", 1, 0)

\* The instructions that lie wholly in a span of bytes, and those that begin elsewhere.
Inside(c, S)   == Restrict(c, {a \in DOMAIN c \cap S : a + c[a].size - 1 \in S})
Outside(c, S)  == Restrict(c, DOMAIN c \ S)

\* The code c, and d where c has none (@@, of which the proof system knows nothing).
Beside(c, d) ==
  [a \in DOMAIN c \cup DOMAIN d |-> IF a \in DOMAIN c THEN c[a] ELSE d[a]]
One(a, i) == [x \in {a} |-> i]
-----------------------------------------------------------------------------
(***************************************************************************)
(* The pieces of Hook.                                                     *)
(***************************************************************************)
\* The least number of whole instructions with at least "needed" bytes, or 0.
CalculateLength(c, needed) ==
  LET ends == {a + c[a].size : a \in DOMAIN c \cap Span(0, Disassembled)}
      enough == {e \in ends : needed <= e /\ e <= Disassembled}
  IN IF enough = {} THEN 0 ELSE Min(enough)

\* A jump, a call or an access relative to the instruction pointer still refers
\* to what it referred to, as far as its displacement is wide enough.
Relocate(i, D, arch) == [i EXCEPT !.disp = Wrap(@ - D, i.width, arch)]

\* Conditional jumps lead to entries of a jump table, which begins where the
\* copied code ends; the entries jump to the original destinations.
Conditionals(c, L) == {a \in DOMAIN c \cap Span(0, L) : Conditional(c[a])}
Entry(c, L, a, arch) ==
  L + JmpSize(arch) * Cardinality({b \in Conditionals(c, L) : b < a})

RelocateConditionalJMP(c, L, a, arch) ==
  [c[a] EXCEPT !.disp = Wrap(Entry(c, L, a, arch) - (a + c[a].size), c[a].width, arch)]

JumpTable(c, L, T, arch) ==
  [e \in {T + Entry(c, L, a, arch) : a \in Conditionals(c, L)} |->
     LET a == CHOOSE b \in Conditionals(c, L) : T + Entry(c, L, b, arch) = e
     IN WriteJMP(arch, e, a + c[a].disp + c[a].size)]

\* Faulty variant: only jumps and calls are relocated.
RelocateASMJumps(c, L, T, arch) ==
  [a \in {b + T : b \in DOMAIN c \cap Span(0, L)} |->
     IF c[a - T].op \in {"jmp", "call"} THEN Relocate(c[a - T], T, arch) ELSE c[a - T]]

\* The first L bytes of c, moved to T: instructions of the types that have no
\* relative operand stay as they are.
RelocateASM(c, L, T, arch) ==
  [a \in {b + T : b \in DOMAIN c \cap Span(0, L)} |->
     LET i == c[a - T] IN
     IF Conditional(i) THEN RelocateConditionalJMP(c, L, a - T, arch)
     ELSE IF Relative(i) THEN Relocate(i, T, arch)
     ELSE i]

\* m_hkLength once RelocateASM has added the jump table to it.
Grown(c, L, arch) == L + JmpSize(arch) * Cardinality(Conditionals(c, L))

\* The trampoline: code, jump table, and the jump back, which leaves from and
\* leads to m_hkLength.
BuildTrampoline(c, L, T, arch) ==
  LET n == Grown(c, L, arch) IN
  Beside(RelocateASM(c, L, T, arch),
         Beside(JumpTable(c, L, T, arch), One(T + n, WriteJMP(arch, T + n, n))))

\* The jump to the callback, and nops up to the end of the last instruction that
\* is overwritten.
Patch(arch, L, h) ==
  Beside(One(0, WriteJMP(arch, 0, Callback(h))), [a \in JmpSize(arch) .. L - 1 |-> Nop])

\* The 6 byte jump of a short x64 function goes through a pointer that lies
\* behind the jump back in the trampoline, within 32 bits of it or not.
Slot(n, h)       == Trampoline(h) + n + 16
ShortPatch(n, h) == One(0, Own("ind", 6, Wrap(Slot(n, h) - 6, 32, "x64")))
Pointer(n, h)    == One(Slot(n, h), Own("ptr", 8, Callback(h)))
-----------------------------------------------------------------------------
VARIABLES
  arch,      \* the build
  body,      \* the function
  code,      \* memory: the function and the trampolines
  hook,      \* hook[h]: m_hkLength before RelocateASM, m_OriginalLength and
             \* m_OriginalCode of h; history: UnHook has left its jump behind
  live,      \* the hooks in place, oldest first
  patching,  \* what is being written over the function: a hook, the original
             \* code of one, or nothing
  ip,        \* ip[t]: the instruction pointer of t
  home,      \* history: where t would be without hooks
  due,       \* history: the callbacks t has still to pass
  caught     \* history: the code t was in has been overwritten or freed

memory  == <<code, hook, live, patching>>
threads == <<ip, home, due, caught>>
vars    == <<arch, body, memory, threads>>

Nothing == [hook |-> 0, writing |-> "nothing"]

Init ==
  /\ arch \in Archs
  /\ body \in Bodies[arch]
  /\ code = Unhooked(body)
  /\ hook = [h \in Hooks |-> [length |-> 0, original |-> 0, saved |-> <<>>,
                               stuck |-> FALSE]]
  /\ live = <<>>
  /\ patching = Nothing
  /\ ip     = [t \in Threads |-> Out]
  /\ home   = [t \in Threads |-> Out]
  /\ due    = [t \in Threads |-> <<>>]
  /\ caught = [t \in Threads |-> FALSE]

\* Threads whose next instruction lies in one of these bytes.
Catch(S) == caught' = [t \in Threads |-> caught[t] \/ ip[t] \in S]

\* Faulty variant: the bytes of the unhooked function, whatever is there now.
SourceBytesUnhooked(n) == Inside(Unhooked(body), Span(0, n))

\* What Hook copies from m_hkSrc.
SourceBytes(n) == Inside(code, Span(0, n))

\* Hook up to the first byte that it writes over the function.  What follows is
\* not one write: until HookEnd the bytes are neither the old nor the new code.
HookBegin(h) ==
  LET L == CalculateLength(code, Needed(arch))
      S == IF arch = "x64" /\ L = 0 THEN CalculateLength(code, 6) ELSE 0
      n == Grown(code, L + S, arch)
      T == Trampoline(h)
      over == Span(0, IF S > 0 THEN 6 ELSE L)
  IN /\ patching = Nothing /\ h \notin ToSet(live)
     /\ L + S > 0
     /\ hook' = [hook EXCEPT ![h] =
          [length |-> L + S, original |-> L, saved |-> SourceBytes(L + S),
           stuck |-> @.stuck]]
     /\ code' = Beside(Beside(Outside(code, over),
                              BuildTrampoline(SourceBytes(L + S), L + S, T, arch)),
                       IF S > 0 THEN Pointer(n, h) ELSE <<>>)
     /\ patching' = [hook |-> h, writing |-> IF S > 0 THEN "short" ELSE "hook"]
     /\ Catch(over \ {0})
     /\ UNCHANGED <<arch, body, live, ip, home, due>>

HookEnd ==
  LET h == patching.hook IN
  /\ patching.writing \in {"hook", "short"}
  /\ code' = Beside(code,
       IF patching.writing = "hook" THEN Patch(arch, hook[h].length, h)
       ELSE ShortPatch(Grown(hook[h].saved, hook[h].length, arch), h))
  /\ live' = Append(live, h)
  /\ patching' = Nothing
  /\ UNCHANGED <<arch, body, hook, threads>>

\* UnHook of the newest hook: the bytes of m_OriginalCode ...
UnHookBegin(h) ==
  /\ patching = Nothing /\ live # <<>> /\ h = Last(live)
  /\ code' = Outside(code, Span(0, hook[h].original))
  /\ patching' = [hook |-> h, writing |-> "original"]
  /\ hook' = [hook EXCEPT ![h].stuck = @ \/ hook[h].original = 0]
  /\ Catch(Span(1, hook[h].original - 1))
  /\ UNCHANGED <<arch, body, live, ip, home, due>>

\* Faulty variant: nothing but the jump is taken back.
UnHookEndJump ==
  LET h == patching.hook IN
  /\ patching.writing = "original"
  /\ code' = Beside(Outside(code, Span(Trampoline(h), Far)),
                    Inside(hook[h].saved, Span(0, JmpSize(arch))))
  /\ live' = Front(live)
  /\ patching' = Nothing
  /\ Catch(Span(Trampoline(h), Far) \cup {Callback(h)})
  /\ UNCHANGED <<arch, body, hook, ip, home, due>>

\* ... and FreeTrampoline.
UnHookEnd ==
  LET h == patching.hook IN
  /\ patching.writing = "original"
  /\ code' = Beside(Outside(code, Span(Trampoline(h), Far)),
                    Inside(hook[h].saved, Span(0, hook[h].original)))
  /\ live' = Front(live)
  /\ patching' = Nothing
  /\ Catch(Span(Trampoline(h), Far) \cup {Callback(h)})
  /\ UNCHANGED <<arch, body, hook, ip, home, due>>
-----------------------------------------------------------------------------
(***************************************************************************)
(* The threads of the target.                                              *)
(***************************************************************************)
Call(t) ==
  /\ ip[t] = Out
  /\ ip'   = [ip EXCEPT ![t] = 0]
  /\ home' = [home EXCEPT ![t] = 0]
  /\ UNCHANGED <<arch, body, memory, due, caught>>

\* Where the instruction i at address a leads, a conditional jump taken or not.
Leads(i, a, taken) ==
  CASE i.op = "ret" -> Out
    [] i.op = "jmp" \/ (i.op = "cond" /\ taken) -> a + i.size + i.disp
    [] i.op = "abs" -> i.disp
    [] i.op = "ind" -> LET slot == a + i.size + i.disp
                       IN IF slot \in DOMAIN code THEN code[slot].disp ELSE Lost
    [] OTHER -> a + i.size

Run(t) ==
  LET a == ip[t] IN
  /\ a \in DOMAIN code
  /\ \E taken \in BOOLEAN :
       /\ ip' = [ip EXCEPT ![t] = Leads(code[a], a, taken)]
       /\ home' = [home EXCEPT ![t] =
            IF code[a].home = NoHome THEN @
            ELSE Leads(Unhooked(body)[code[a].home], code[a].home, taken)]
  /\ due' = [due EXCEPT ![t] = IF a = 0 THEN Reverse(live) ELSE @]
  /\ UNCHANGED <<arch, body, memory, caught>>

\* A callback calls the original function.
RunCallback(t, h) ==
  /\ ip[t] = Callback(h)
  /\ ip' = [ip EXCEPT ![t] = Trampoline(h)]
  /\ due' = [due EXCEPT ![t] = IF @ # <<>> THEN Tail(@) ELSE @]
  /\ UNCHANGED <<arch, body, memory, home, caught>>

\* No instruction starts here: the bytes are torn, freed or in the middle of one.
Stray(t) ==
  /\ ip[t] \notin DOMAIN code \cup {Out, Lost} \cup {Callback(h) : h \in Hooks}
  /\ ip' = [ip EXCEPT ![t] = Lost]
  /\ caught' = [caught EXCEPT ![t] = @ \/ (ip[t] = 0 /\ patching # Nothing)]
  /\ UNCHANGED <<arch, body, memory, home, due>>
-----------------------------------------------------------------------------
\* The user of PolyHook, who takes the hooks of one function away in the reverse
\* of the order they were set in.
SetHook   == \E h \in Hooks : HookBegin(h)
UnsetHook == \E h \in Hooks : UnHookBegin(h)

Next ==
  \/ SetHook \/ UnsetHook
  \/ HookEnd \/ UnHookEnd
  \/ \E t \in Threads : \/ Call(t) \/ Run(t) \/ Stray(t)
                        \/ \E h \in Hooks : RunCallback(t, h)

Spec == Init /\ [][Next]_vars
-----------------------------------------------------------------------------
(***************************************************************************)
(* Properties.  Hook copies the beginning of a function.  The function is  *)
(* hookable when no conditional or short jump is in it, and when no jump   *)
(* leads back into it but to the first instruction.                        *)
(***************************************************************************)
Beginning(a, b) ==
  LET c == Unhooked(b)
      L == CalculateLength(c, Needed(a))
  IN IF a = "x64" /\ L = 0 THEN CalculateLength(c, 6) ELSE L
Hookable(a, b) ==
  LET c == Unhooked(b)
      n == Beginning(a, b)
  IN /\ n > 0
     /\ \A x \in DOMAIN c :
          /\ x < n => ~Conditional(c[x]) /\ ~(Relative(c[x]) /\ c[x].width = 8)
          /\ c[x].op \in {"jmp", "cond"} => x + c[x].size + c[x].disp \notin 1 .. n - 1

\* On x64 it is in reach of the trampolines when 32 bits are enough for the displacements
\* that are relocated to them, and for the 6 byte jump through one of them.  Nothing in
\* Hook sees to it: it looks for a free region below the function and posts the warning
\* "Relocation can be out of range".
InReach(a, b) ==
  a = "x64" => \A h \in Hooks :
    /\ \A x \in DOMAIN b : LET i == Unhooked(b)[x] IN
         x < Beginning(a, b) /\ Relative(i) /\ ~Conditional(i) /\ i.width # 8
           => i.disp - Trampoline(h) \in -Reach .. Reach - 1
    /\ CalculateLength(Unhooked(b), Needed(a)) = 0 => Trampoline(h) + Far <= Reach

\* No UnHook has left its jump behind, as it does with a function too short for
\* the 16 byte jump, whose m_OriginalLength is 0.
NoneStuck == \A h \in Hooks : ~hook[h].stuck

\* However hooks are put over each other and taken away again while threads run,
\* a thread that was not inside the bytes that were overwritten or freed
\* executes the instructions of the function it would have executed without
\* hooks, with the same operands, and returns when it would have returned; of functions
\* that are hookable and in reach.
Follows ==
  Hookable(arch, body) /\ InReach(arch, body) /\ NoneStuck => \A t \in Threads : ~caught[t] =>
    /\ ip[t] # Lost
    /\ ip[t] = Out <=> home[t] = Out
    /\ ip[t] \in DOMAIN code /\ code[ip[t]].home # NoHome =>
         LET i == code[ip[t]]
             o == Unhooked(body)[home[t]]
         IN /\ i.home = home[t]
            /\ i.op \in {"call", "access"} => ip[t] + i.disp = home[t] + o.disp

\* A call passes the callback of every hook in place once, the last hook first,
\* and only then the first instruction of the function.
Intercepted ==
  InReach(arch, body) /\ NoneStuck => \A t \in Threads : ~caught[t] =>
    /\ \A h \in Hooks : ip[t] = Callback(h) => due[t] # <<>> /\ Head(due[t]) = h
    /\ ip[t] \in DOMAIN code \ {0} /\ code[ip[t]].home = 0 => due[t] = <<>>

\* The function is not entered but through the newest hook: its first instruction leads to
\* the callback of that one, also when newer ones have been taken away again.
Diverted ==
  InReach(arch, body) /\ NoneStuck /\ live # <<>> /\ patching = Nothing =>
    0 \in DOMAIN code /\ Leads(code[0], 0, FALSE) = Callback(Last(live))

\* "Copy original from trampoline back to src": with the last hook gone, the
\* function is as it was, to the last byte, and no trampoline is left.
Restored ==
  NoneStuck /\ live = <<>> /\ patching = Nothing
    => code = Unhooked(body)
=============================================================================
