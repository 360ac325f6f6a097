---------------------------- MODULE CallbackStub ----------------------------
(***************************************************************************)
(* The callback that HookFunctionAtRuntime assembles for a hooked function *)
(* (HookHandler64.h and HookHandler86.h):                                  *)
(*                                                                         *)
(*   Caller -> Store Regs -> PrologInterupt -> Restore Regs -> Original    *)
(*          -> Store Regs -> PostlogInterupt -> Restore Regs -> Caller     *)
(*                                                                         *)
(* The installer redirects the function to the callback and then writes    *)
(* the callback, one Write... call after the other, while the threads of   *)
(* the target call the function, the original function calls itself        *)
(* recursively, and the callback runs instruction by instruction.          *)
(*                                                                         *)
(* The unit of the stack is the machine word; the unit of code the byte.   *)
(***************************************************************************)
EXTENDS Integers, Sequences, SequencesExt

CONSTANTS
  Threads,   \* threads of the target that call the function
  MaxCalls,  \* bound: how often a thread calls it, inner calls included
  Lowest     \* bound: the lowest word of a thread's stack

\* The stack has room for the calls: a call and its callback take up 14 words at most.
ASSUME StubAssumption ==
  MaxCalls \in Nat /\ Lowest \in Int /\ Lowest <= -14 * MaxCalls

Archs == {"x86", "x64"}

\* What a word may hold: a position in code, a place on the stack, what register
\* r held when call d was made, what call d returned, a constant, or leftovers.
Code(where, n) == <<"code", where, n>>
Place(s)       == <<"sp", s>>
Held(r, d)     == <<"held", r, d>>
Returned(d)    == <<"returned", d>>
Const(c)       == <<"const", c>>
Junk           == <<"junk">>

\* The general registers (on x86 the flags too) a call may change, and one that it
\* may not.  The XMM registers, which the callback does not save, are a variable of
\* their own.
Volatile(arch) == IF arch = "x64"
                  THEN {"ax", "cx", "dx", "r8", "r9", "r10", "r11"}
                  ELSE {"ax", "cx", "dx", "flags"}
Registers(arch) == Volatile(arch) \cup (IF arch = "x64" THEN {"bx"}
                                        ELSE {"bx", "bp", "si", "di"})

\* Words above the return address that the callee may use as it likes (x64), and
\* words the callee takes off the stack: the argument of a __stdcall (x86).
Home(arch)    == IF arch = "x64" THEN 4 ELSE 0
Cleanup(arch) == IF arch = "x64" THEN 0 ELSE 1
-----------------------------------------------------------------------------
(***************************************************************************)
(* The instructions the writers emit.  A piece of code is its length in    *)
(* bytes and the instructions in it, by their offset; p ++ q is p with q   *)
(* written behind it.                                                      *)
(***************************************************************************)
Instr(op, arg, bytes) == [op |-> op, arg |-> arg, bytes |-> bytes]
Emit(op, arg, bytes)  == [bytes |-> bytes, code |-> [o \in {0} |-> Instr(op, arg, bytes)]]

Behind(p, q) ==
  [bytes |-> p.bytes + q.bytes,
   code  |-> [o \in DOMAIN p.code \cup {p.bytes + x : x \in DOMAIN q.code} |->
                IF o \in DOMAIN p.code THEN p.code[o] ELSE q.code[o - p.bytes]]]
p ++ q == Behind(p, q)

Blank == [bytes |-> 0, code |-> <<>>]

Long(r)    == IF r \in {"r8", "r9", "r10", "r11"} THEN 2 ELSE 1
Push(r)    == Emit("push", r, Long(r))
Pop(r)     == Emit("pop", r, Long(r))
Load(r, v) == Emit("load", <<r, v>>, 10)
Shift(n)   == Emit("shift", n, 4)
Ret        == Emit("ret", "sp", 1)

\* HookHandler64.h
WritePUSHA_WPARAM(value) ==
  Push("bx") ++ Push("sp") ++ Push("ax") ++ Push("cx") ++ Push("dx")
    ++ Push("r8") ++ Push("r9") ++ Push("r10") ++ Push("r11")
    ++ Load("cx", value) ++ Shift(-4)

\* Faulty variant: rax and rcx are taken off the stack in the wrong order.
WritePOPASwapped ==
  Shift(4) ++ Pop("r11") ++ Pop("r10") ++ Pop("r9") ++ Pop("r8")
    ++ Pop("dx") ++ Pop("ax") ++ Pop("cx") ++ Pop("sp") ++ Pop("bx")

WritePOPA ==
  Shift(4) ++ Pop("r11") ++ Pop("r10") ++ Pop("r9") ++ Pop("r8")
    ++ Pop("dx") ++ Pop("cx") ++ Pop("ax") ++ Pop("sp") ++ Pop("bx")

WriteAbsoluteCall(f) == Load("ax", f) ++ Emit("callax", "ax", 2)

\* Faulty variant: rax is not put back.
WriteAbsoluteJMPPlain(f) == Push("ax") ++ Load("ax", f) ++ Push("ax") ++ Ret

WriteAbsoluteJMP(f) ==
  Push("ax") ++ Load("ax", f) ++ Emit("xchg", "ax", 4) ++ Ret

WriteRetAddress(f) == Shift(-1) ++ Emit("store", f, 15)

\* Faulty variant: the shadow space alone, which leaves the stack unaligned.
WriteSubShadowSpace4 == Shift(-4)

WriteSubShadowSpace == Shift(-5)
WriteAddShadowSpace == Shift(5)
WriteRET            == Ret

\* HookHandler86.h: pusha and pushf; popf and popa.
Saved86 == <<"ax", "cx", "dx", "bx", "sp", "bp", "si", "di", "flags">>

WritePUSHA_WPARAM86(value) ==
  Emit("pusha", Saved86, 2) ++ Emit("pushvalue", value, 5)
WritePOPA86          == Emit("popa", Reverse(Saved86), 2)
WriteRelativeCALL(f) == Emit("callto", f, 5)
-----------------------------------------------------------------------------
(***************************************************************************)
(* HookFunctionAtRuntime: the pieces in the order they are written.        *)
(***************************************************************************)
Prolog   == Code("Prolog", 0)
Postlog  == Code("Postlog", 0)
Original == Code("Original", 0)    \* what Hook->GetOriginal() returns

\* Where the original is to return to, when WriteOffset is n: behind the jump to it.
RetAddress(n) ==
  Code("stub", n + WriteRetAddress(Original).bytes + WriteAbsoluteJMP(Original).bytes)

\* n is WriteOffset.
Pieces64(n) ==
  <<WritePUSHA_WPARAM(Const("function")), WriteAbsoluteCall(Prolog), WritePOPA,
    WriteSubShadowSpace, WriteRetAddress(RetAddress(n)), WriteAbsoluteJMP(Original),
    WriteAddShadowSpace,
    WritePUSHA_WPARAM(Const("hook")), WriteAbsoluteCall(Postlog), WritePOPA,
    WriteRET>>

Pieces86 ==
  <<WritePUSHA_WPARAM86(Const("function")), WriteRelativeCALL(Prolog), WritePOPA86,
    WriteRelativeCALL(Original),
    WritePUSHA_WPARAM86(Const("hook")), WriteRelativeCALL(Postlog), WritePOPA86,
    WriteRET>>

Pieces(arch, n)  == IF arch = "x64" THEN Pieces64(n) ELSE Pieces86
BufferSize(arch) == IF arch = "x64" THEN 146 ELSE 29
-----------------------------------------------------------------------------
VARIABLES
  arch,       \* the build: x86 or x64
  simd,       \* the intercepts were compiled to use XMM registers
  step,       \* how many steps of HookFunctionAtRuntime are done
  installed,  \* the function has been redirected to the callback
  buffer,     \* the callback: what is written of it, and how far (WriteOffset)
  ip,         \* ip[t]: the instruction pointer of t
  sp,         \* sp[t]: its stack pointer
  reg,        \* reg[t]: its general registers
  xmm,        \* xmm[t]: its XMM registers, as one
  word,       \* word[t]: its stack
  frames,     \* history: the calls of the function t is in, outermost first
  calls       \* calls[t]: how often t has called the function

install == <<arch, simd, step, installed, buffer>>
cpu     == <<ip, sp, reg, xmm, word>>
vars    == <<arch, simd, step, installed, buffer, ip, sp, reg, xmm, word, frames, calls>>

User  == Code("user", 0)       \* the code of a caller, before a call
Back  == Code("back", 0)       \*                       after it
Again == Code("again", 0)      \* the original after an inner call
Lost  == Code("lost", 0)       \* what never was a callback has been executed

Highest == 8
Stack   == Lowest .. Highest

Init ==
  /\ arch \in Archs /\ simd \in BOOLEAN
  /\ step = 0 /\ installed = FALSE /\ buffer = Blank
  /\ ip     = [t \in Threads |-> User]
  /\ sp     = [t \in Threads |-> 1]
  /\ reg    = [t \in Threads |-> [r \in Registers(arch) |-> Junk]]
  /\ xmm    = [t \in Threads |-> Junk]
  /\ word   = [t \in Threads |-> [s \in Stack |-> Junk]]
  /\ frames = [t \in Threads |-> <<>>]
  /\ calls  = [t \in Threads |-> 0]

(***************************************************************************)
(* The installer.                                                          *)
(***************************************************************************)
\* Hook->Hook(), whose result nobody looks at, comes before the first write.
InstallHook ==
  /\ step = 0 /\ step' = 1
  /\ installed' \in BOOLEAN
  /\ UNCHANGED <<arch, simd, buffer, cpu, frames, calls>>

WriteNext ==
  /\ step \in DOMAIN Pieces(arch, buffer.bytes)
  /\ step' = step + 1
  /\ buffer' = buffer ++ Pieces(arch, buffer.bytes)[step]
  /\ UNCHANGED <<arch, simd, installed, cpu, frames, calls>>

(***************************************************************************)
(* The callback, one instruction at a time.                                *)
(***************************************************************************)
Here(t) == buffer.code[ip[t][3]]

\* The instruction at ip[t] has been written.
Written(t) == ip[t][3] \in DOMAIN buffer.code

Runs(t, op) == ip[t][2] = "stub" /\ Written(t) /\ Here(t).op = op

Next1(t)    == Code("stub", ip[t][3] + Here(t).bytes)
Goto(t, c)  == ip' = [ip EXCEPT ![t] = c]
Advance(t)  == Goto(t, Next1(t))
Moves(t, n) == sp' = [sp EXCEPT ![t] = @ + n]
Top(t)      == word[t][sp[t]]
Read(t, r)  == IF r = "sp" THEN Place(sp[t]) ELSE reg[t][r]
Pushed(t, v) == word' = [word EXCEPT ![t][sp[t] - 1] = v]

ExecPush(t) ==
  /\ \/ Runs(t, "push") /\ Pushed(t, Read(t, Here(t).arg))
     \/ Runs(t, "pushvalue") /\ Pushed(t, Here(t).arg)
  /\ Moves(t, -1) /\ Advance(t)
  /\ UNCHANGED <<install, reg, xmm, frames, calls>>

ExecPop(t) ==
  /\ Runs(t, "pop")
  /\ IF Here(t).arg = "sp"
     THEN sp' = [sp EXCEPT ![t] = Top(t)[2]] /\ UNCHANGED reg
     ELSE Moves(t, 1) /\ reg' = [reg EXCEPT ![t][Here(t).arg] = Top(t)]
  /\ Advance(t)
  /\ UNCHANGED <<install, word, xmm, frames, calls>>

ExecPusha(t) ==
  /\ Runs(t, "pusha")
  /\ LET rs == Here(t).arg IN
     /\ word' = [word EXCEPT ![t] =
          [s \in Stack |-> IF s \in sp[t] - Len(rs) .. sp[t] - 1
                           THEN Read(t, rs[sp[t] - s]) ELSE @[s]]]
     /\ Moves(t, -Len(rs))
  /\ Advance(t)
  /\ UNCHANGED <<install, reg, xmm, frames, calls>>

\* popa reads over the stack pointer.
ExecPopa(t) ==
  /\ Runs(t, "popa")
  /\ LET rs == Here(t).arg IN
     /\ reg' = [reg EXCEPT ![t] =
          [r \in Registers(arch) |->
             word[t][sp[t] - 1 + (CHOOSE i \in 1 .. Len(rs) : rs[i] = r)]]]
     /\ Moves(t, Len(rs))
  /\ Advance(t)
  /\ UNCHANGED <<install, word, xmm, frames, calls>>

ExecMove(t) ==
  /\ \/ /\ Runs(t, "load")
        /\ reg' = [reg EXCEPT ![t][Here(t).arg[1]] = Here(t).arg[2]]
        /\ UNCHANGED word
     \/ /\ Runs(t, "store")
        /\ word' = [word EXCEPT ![t][sp[t]] = Here(t).arg]
        /\ UNCHANGED reg
     \/ /\ Runs(t, "xchg")
        /\ reg' = [reg EXCEPT ![t][Here(t).arg] = Top(t)]
        /\ word' = [word EXCEPT ![t][sp[t]] = reg[t][Here(t).arg]]
  /\ Advance(t)
  /\ UNCHANGED <<install, sp, xmm, frames, calls>>

ExecShift(t) ==
  /\ Runs(t, "shift")
  /\ Moves(t, Here(t).arg) /\ Advance(t)
  /\ UNCHANGED <<install, reg, word, xmm, frames, calls>>

ExecCall(t) ==
  /\ \/ Runs(t, "callax") /\ Goto(t, reg[t].ax)
     \/ Runs(t, "callto") /\ Goto(t, Here(t).arg)
  /\ Pushed(t, Next1(t)) /\ Moves(t, -1)
  /\ UNCHANGED <<install, reg, xmm, frames, calls>>

ExecRet(t) ==
  /\ Runs(t, "ret")
  /\ Goto(t, Top(t)) /\ Moves(t, 1)
  /\ UNCHANGED <<install, reg, word, xmm, frames, calls>>

\* The processor executes what new BYTE[] returned.
ExecUnwritten(t) ==
  /\ ip[t][2] = "stub" /\ ~Written(t)
  /\ Goto(t, Lost)
  /\ UNCHANGED <<install, sp, reg, word, xmm, frames, calls>>
-----------------------------------------------------------------------------
(***************************************************************************)
(* The functions around the callback.  Any of them changes the volatile    *)
(* registers, the stack below its return address, and its home space; an   *)
(* intercept changes the XMM registers only if it was compiled to use them *)
(* (the limitations in src/README.md:22 ask that it is not).               *)
(***************************************************************************)
Clobbered(t, extra) ==
  [word EXCEPT ![t] = [s \in Stack |-> IF s <= sp[t] + Home(arch) + extra
                                       THEN Junk ELSE @[s]]]
Scratched(t) == [r \in Registers(arch) |->
                   IF r \in Volatile(arch) THEN Junk ELSE reg[t][r]]

Sees(t, f) == frames' = [frames EXCEPT ![t][Len(frames[t])].seen = Append(@, f)]

RunIntercept(t) ==
  /\ ip[t] \in {Prolog, Postlog}
  /\ Goto(t, Top(t)) /\ Moves(t, 1 + Cleanup(arch))
  /\ reg' = [reg EXCEPT ![t] = Scratched(t)]
  /\ xmm' = IF simd THEN [xmm EXCEPT ![t] = Junk] ELSE xmm
  /\ word' = Clobbered(t, Cleanup(arch))
  /\ Sees(t, ip[t])
  /\ UNCHANGED <<install, calls>>

\* The call of the function with fresh values in the registers: the jump at its
\* first bytes, once it is there, leads to the callback.
Enters(t, fresh, s) ==
  LET n == calls[t] + 1
      r0 == [r \in Registers(arch) |-> IF r \in fresh THEN Held(r, n) ELSE reg[t][r]]
  IN /\ calls[t] < MaxCalls
     /\ calls' = [calls EXCEPT ![t] = n]
     /\ reg' = [reg EXCEPT ![t] = r0]
     /\ xmm' = [xmm EXCEPT ![t] = Held("xmm", n)]
     /\ sp' = [sp EXCEPT ![t] = s]
     /\ frames' = [frames EXCEPT ![t] =
          Append(@, [n |-> n, sp |-> s, reg |-> r0, xmm |-> Held("xmm", n),
                     hooked |-> installed, seen |-> <<>>])]
     /\ Goto(t, IF installed THEN Code("stub", 0) ELSE Original)
     /\ UNCHANGED install

CallFunction(t) ==
  /\ ip[t] = User
  /\ Enters(t, Registers(arch), 0)
  /\ word' = [word EXCEPT ![t][0] = Back]

\* The original calls the function again, with bx and the arguments changed; its
\* frame keeps bx above the home space of the inner call.
Recurse(t) ==
  /\ ip[t] \in {Original, Again}
  /\ Enters(t, Volatile(arch) \cup {"bx"}, sp[t] - 6)
  /\ word' = [word EXCEPT ![t][sp[t] - 1] = reg[t].bx, ![t][sp[t] - 6] = Back]

ReturnFrom(t) ==
  /\ ip[t] = Back
  /\ frames' = [frames EXCEPT ![t] = Front(@)]
  /\ IF Len(frames[t]) = 1
     THEN /\ Goto(t, User)
          /\ reg' = [reg EXCEPT ![t] = [r \in Registers(arch) |-> Junk]]
          /\ word' = [word EXCEPT ![t] = [s \in Stack |-> Junk]]
          /\ UNCHANGED sp
     ELSE /\ Goto(t, Again)
          /\ reg' = [reg EXCEPT ![t].bx = word[t][sp[t] + 4]]
          /\ Moves(t, 5)
          /\ UNCHANGED word
  /\ UNCHANGED <<install, xmm, calls>>

\* What the original returns is in ax or in an XMM register.
RunOriginal(t) ==
  /\ ip[t] \in {Original, Again}
  /\ Goto(t, Top(t)) /\ Moves(t, 1)
  /\ reg' = [reg EXCEPT ![t] = [Scratched(t) EXCEPT !.ax = Returned(Last(frames[t]).n)]]
  /\ xmm' = [xmm EXCEPT ![t] = Returned(Last(frames[t]).n)]
  /\ word' = Clobbered(t, 0)
  /\ Sees(t, Original)
  /\ UNCHANGED <<install, calls>>
-----------------------------------------------------------------------------
Execute(t) == \/ ExecPush(t) \/ ExecPop(t) \/ ExecPusha(t) \/ ExecPopa(t)
              \/ ExecMove(t) \/ ExecShift(t) \/ ExecCall(t) \/ ExecRet(t)
              \/ ExecUnwritten(t)

Around(t)  == \/ CallFunction(t) \/ Recurse(t) \/ ReturnFrom(t)
              \/ RunOriginal(t) \/ RunIntercept(t)

Next == \/ InstallHook \/ WriteNext
        \/ \E t \in Threads : Execute(t) \/ Around(t)

Spec == Init /\ [][Next]_vars
-----------------------------------------------------------------------------
(***************************************************************************)
(* Properties.                                                             *)
(***************************************************************************)
\* "Return to Caller": a caller finds the value the original returned, the other
\* registers it may rely on and its stack pointer as if it had called the
\* original itself; and what has run on the way are the first intercept, the
\* original and the second intercept, once each and in this order.  A value in
\* an XMM register is there if the intercepts leave those alone.
Transparent ==
  \A t \in Threads : ip[t] = Back =>
    LET c == Last(frames[t]) IN
    /\ sp[t] = c.sp + 1
    /\ reg[t].ax = Returned(c.n)
    /\ ~simd => xmm[t] = Returned(c.n)
    /\ \A r \in Registers(arch) \ Volatile(arch) : reg[t][r] = c.reg[r]
    /\ c.seen = IF c.hooked THEN <<Prolog, Original, Postlog>> ELSE <<Original>>

\* "Restore Regs -> Original Hooked Func": the original starts with every general
\* register as the caller left it, the volatile ones and (x86) the flags too, and
\* the first intercept behind it.  "My variation of pusha and popa doesn't restore"
\* XMM registers: those are as the caller left them if the intercepts use none.
OriginalUndisturbed ==
  \A t \in Threads : ip[t] = Original =>
    LET c == Last(frames[t]) IN
    /\ reg[t] = c.reg
    /\ ~simd => xmm[t] = c.xmm
    /\ c.seen = IF c.hooked THEN <<Prolog>> ELSE <<>>

\* "Possible stack alignment issues may exist when the original function is
\* executed": on x64 every function is entered with the alignment the caller
\* gave the hooked function, and each intercept with its own parameter.
Parameter(t) == IF arch = "x64" THEN reg[t].cx ELSE word[t][sp[t] + 1]
Aligned ==
  \A t \in Threads :
    /\ arch = "x64" /\ ip[t] \in {Prolog, Original, Postlog} => sp[t] % 2 = 0
    /\ ip[t] = Prolog  => Parameter(t) = Const("function")
    /\ ip[t] = Postlog => Parameter(t) = Const("hook")

\* "This callback is filled with assembly at runtime": the assembly stays inside
\* the memory that was allocated for the callback.
WritesInside == buffer.bytes <= BufferSize(arch)
=============================================================================
