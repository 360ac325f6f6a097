------------------------------ MODULE MCDetour ------------------------------
(***************************************************************************)
(* Small instances of Detour: every hookable function made of a few        *)
(* instructions.                                                           *)
(***************************************************************************)
EXTENDS Detour

MCReach == 25000   \* beyond both trampolines
Data    == 9000    \* what calls and accesses refer to
FarData == -8000   \* within reach of the function and the first trampoline only
Plain(n)  == [op |-> "plain", size |-> n, to |-> 0]
Call5     == [op |-> "call", size |-> 5, to |-> Data]
Access7   == [op |-> "access", size |-> 7, to |-> Data]
Distant7  == [op |-> "access", size |-> 7, to |-> FarData]
Jmp5(a)   == [op |-> "jmp", size |-> 5, to |-> a]
Jcc2(a)   == [op |-> "cond", size |-> 2, to |-> a]
Return    == [op |-> "ret", size |-> 1, to |-> 0]

\* Whole functions: a beginning, a loop back to the entry or to the end of the
\* beginning, and a return; then functions that begin with a conditional jump, and
\* x64 functions too short for the long jump, or out of the second trampoline's reach.
Sum(is)  == FoldLeft(LAMBDA n, i : n + i.size, 0, is)
Tails(n) == {<<Return>>, <<Jcc2(0), Return>>, <<Jcc2(n), Return>>,
             <<Jmp5(n + 6), Return, Plain(1), Return>>}
Whole(heads) == UNION {{b \o e : e \in Tails(Sum(b))} : b \in heads}
Functions86  == Whole(UNION {[1 .. n -> {Plain(1), Plain(3), Call5}] : n \in 1 .. 3})
Functions64  == Whole([1 .. 3 -> {Plain(3), Plain(7), Call5, Access7}])

Branching86  == {<<Jcc2(8), Plain(3), Plain(3), Return>>,
                 <<Plain(1), Jcc2(0), Plain(3), Return>>}
Branching64  == {<<Jcc2(18), Plain(7), Access7, Plain(2), Return>>}
Distant64    == {<<Plain(7), Distant7, Plain(3), Return>>}
Short64      == {<<Plain(7), Return>>, <<Plain(3), Access7, Return>>}

\* The instructions, each at the address where those before it end.
At(is, k) == Sum(SubSeq(is, 1, k - 1))
Laid(is) ==
  [a \in {At(is, k) : k \in DOMAIN is} |-> is[CHOOSE k \in DOMAIN is : At(is, k) = a]]

MCBodies == [a \in Archs |->
  IF a = "x86" THEN {b \in {Laid(is) : is \in Functions86} : Hookable("x86", b)}
                      \cup {Laid(is) : is \in Branching86}
  ELSE {b \in {Laid(is) : is \in Functions64} : Hookable("x64", b)}
         \cup {Laid(is) : is \in Branching64 \cup Short64 \cup Distant64}]
=============================================================================
