---------------------------- MODULE DetourProofs ----------------------------
(***************************************************************************)
(* Proofs about Detour: whatever the function, and however many hooks are  *)
(* put over each other and taken away again, the bytes they replaced come  *)
(* back, the newest of them is the one the function's entry leads to, and  *)
(* a call passes the callbacks of all and executes what it would without.  *)
(***************************************************************************)
EXTENDS Detour, SequenceTheorems, FiniteSetTheorems, WellFoundedInduction, TLAPS

\* The function's own bytes, and the code of the function, without trampolines.
Near   == Span(0, Far)
Lengths == 0 .. Disassembled
Low(c) == Restrict(c, DOMAIN c \cap Near)

\* Code in which instructions follow one another without overlapping.
Separate(c) ==
  /\ c = [a \in DOMAIN c |-> c[a]]
  /\ DOMAIN c \subseteq Near
  /\ \A a \in DOMAIN c :
       c[a].size \in 1 .. 16 /\ \A p \in DOMAIN c : p < a => p + c[p].size <= a

\* No instruction of c lies across the address n.
Cut(c, n) == \A a \in DOMAIN c : a < n => a + c[a].size <= n

\* The hook that is being written.
Begun   == patching.writing \in {"hook", "short"}
Pending == IF Begun THEN {patching.hook} ELSE {}
Present == ToSet(live) \cup Pending

HookOK(h) ==
  /\ hook[h] = [length |-> hook[h].length, original |-> hook[h].original,
                saved |-> hook[h].saved, stuck |-> hook[h].stuck]
  /\ hook[h].stuck \in BOOLEAN

Shape ==
  /\ arch \in Archs /\ body \in Bodies[arch]
  /\ DOMAIN hook = Hooks /\ \A h \in Hooks : HookOK(h)
  /\ live \in Seq(Hooks)
  /\ \A i, j \in 1 .. Len(live) : live[i] = live[j] => i = j
  /\ \/ patching = Nothing
     \/ patching.writing = "original" /\ live # <<>> /\ patching.hook = Last(live)
     \/ Begun /\ patching.hook \in Hooks \ ToSet(live)

\* Trampolines are those of hooks in place; a short hook finds its pointer there.
Placed == \A a \in DOMAIN code \ Near : \E h \in Present : a \in Span(Trampoline(h), Far)
SlotOf(h)  == Slot(Grown(hook[h].saved, hook[h].length, arch), h)
Pointed(h) ==
  hook[h].original = 0 =>
    /\ SlotOf(h) \in Span(Trampoline(h), Far) \cap DOMAIN code
    /\ code[SlotOf(h)].disp = Callback(h)

\* c is the function's code with h in place over the code d: it begins with the jump of
\* h, and taking h away gives d.
Entrance(h) ==
  IF hook[h].original > 0 THEN WriteJMP(arch, 0, Callback(h))
  ELSE Own("ind", 6, Wrap(SlotOf(h) - 6, 32, "x64"))
Undone(c, h) ==
  Beside(Outside(c, Span(0, hook[h].original)), Inside(hook[h].saved, Span(0, hook[h].original)))
Over(c, d, h) ==
  /\ 0 \in DOMAIN c /\ c[0] = Entrance(h)
  /\ hook[h].original > 0 => d = Undone(c, h)

\* s[i] is the function's code with the first i of the hooks in place.
Layers(s) ==
  /\ s = [i \in 0 .. Len(live) |-> s[i]]
  /\ s[0] = Unhooked(body)
  /\ \A i \in 0 .. Len(live) : Separate(s[i])
  /\ \A i \in 1 .. Len(live) : \A h \in Hooks : h = live[i] => Over(s[i], s[i - 1], h)

\* The code there is: the last layer, or what is left of it while it is overwritten.
Overlay(c, h) ==
  /\ hook[h].length <= Disassembled
  /\ hook[h].saved = Inside(c, Span(0, hook[h].length))
  /\ patching.writing = "hook" =>
       /\ hook[h].original = hook[h].length /\ JmpSize(arch) <= hook[h].length
       /\ Cut(c, hook[h].length)
       /\ Low(code) = Outside(c, Span(0, hook[h].length))
  /\ patching.writing = "short" =>
       /\ hook[h].original = 0
       /\ Low(code) = Outside(c, Span(0, 6))
Now(c) ==
  /\ patching = Nothing => Low(code) = c
  /\ \A h \in Hooks : h = patching.hook =>
       /\ Begun => Overlay(c, h)
       /\ patching.writing = "original" =>
            /\ hook[h].original > 0
            /\ Low(code) = Outside(c, Span(0, hook[h].original))

Kept ==
  /\ code = [a \in DOMAIN code |-> code[a]]
  /\ DOMAIN code \subseteq Int
  /\ \A h \in Hooks : hook[h].length \in Nat /\ hook[h].original \in Lengths
  /\ Placed
  /\ \A h \in Present : Pointed(h)
  /\ \E s, c : Layers(s) /\ c = s[Len(live)] /\ Now(c)

HookInv == Shape /\ (NoneStuck => Kept)
-----------------------------------------------------------------------------
(***************************************************************************)
(* The pieces of Hook.                                                     *)
(***************************************************************************)
LEMMA Sizes ==
  /\ Far = 10000 /\ Disassembled = 256
  /\ \A a \in Archs : JmpSize(a) \in {5, 16} /\ Needed(a) = JmpSize(a)
BY DEF Far, Disassembled, JmpSize, Needed, Archs

LEMMA NearNat == Near \subseteq Nat
BY DEF Near, Span, Far

\* A trampoline lies neither in the function nor in another trampoline.
LEMMA Distant ==
  ASSUME NEW h \in Hooks, NEW a \in Span(Trampoline(h), Far)
  PROVE  /\ a \in Int /\ a \notin Near
         /\ \A g \in Hooks : a \in Span(Trampoline(g), Far) => g = h
<1>1. \A g \in Hooks : g \in Nat /\ g > 0
  BY DetourAssumption
<1>2. h \in Nat /\ h > 0 /\ a \in Int /\ 10000 * h <= a /\ a < 10000 * h + 10000
  <2>1. h \in Nat /\ h > 0 /\ a \in 10000 * h .. 10000 * h + 10000 - 1
    BY <1>1 DEF Span, Trampoline, Far
  <2>2. 10000 * h \in Int /\ 10000 * h + 10000 - 1 \in Int
    BY <2>1
  <2> QED BY <2>1, <2>2
<1>3. a \notin Near
  <2>1. 10000 <= 10000 * h
    BY <1>2
  <2>2. 10000 <= a /\ a \in Int
    BY <2>1, <1>2
  <2>3. ASSUME a \in Near
        PROVE  a < 10000
    <3>1. a \in 0 .. 9999
      BY <2>3 DEF Near, Span, Far
    <3> QED BY <3>1
  <2> QED BY <2>2, <2>3
<1>4. ASSUME NEW g \in Hooks, a \in Span(Trampoline(g), Far)
      PROVE  g = h
  <2>1. g \in Nat /\ 10000 * g <= a /\ a < 10000 * g + 10000
    BY <1>1, <1>4 DEF Span, Trampoline, Far
  <2> QED BY <1>2, <2>1
<1> QED BY <1>2, <1>3, <1>4

\* A set of numbers has a least element.
LEMMA Smaller ==
  ASSUME NEW m \in Nat, NEW n \in Nat, m < n
  PROVE  <<m, n>> \in OpToRel(<, Nat)
BY DEF OpToRel

LEMMA LeastOne ==
  ASSUME NEW S, S \subseteq Nat, S # {}
  PROVE  \E n \in S : \A m \in S : n <= m
<1>1. PICK n \in S : \A m \in S : ~ (<<m, n>> \in OpToRel(<, Nat))
  BY NatLessThanWellFounded, WFMin
<1>2. \A m \in S : ~ (m < n)
  BY <1>1, Smaller
<1> QED BY <1>2

\* The bytes that CalculateLength finds are whole instructions.
LEMMA LengthFits ==
  ASSUME NEW c, Separate(Low(c)), NEW needed \in 1 .. 16, NEW L, L = CalculateLength(c, needed)
  PROVE  /\ L \in Lengths
         /\ L # 0 => needed <= L /\ Cut(Low(c), L)
<1> DEFINE starts == DOMAIN c \cap Span(0, Disassembled)
           ends   == {a + c[a].size : a \in starts}
           enough == {e \in ends : needed <= e /\ e <= Disassembled}
<1>1. \A a \in starts : a \in DOMAIN Low(c) /\ Low(c)[a] = c[a] /\ a \in 0 .. 255 /\ c[a].size \in 1 .. 16
  <2>1. \A a \in starts : a \in 0 .. 255 /\ a \in DOMAIN c \cap Near
    BY DEF Near, Span, Far, Disassembled
  <2>2. \A a \in DOMAIN c \cap Near : a \in DOMAIN Low(c) /\ Low(c)[a] = c[a]
    BY DEF Low, Restrict
  <2> QED BY <2>1, <2>2 DEF Separate
<1>2. L = IF enough = {} THEN 0 ELSE Min(enough)
  BY DEF CalculateLength
<1>3. CASE enough = {}
  BY <1>2, <1>3 DEF Lengths, Disassembled
<1>4. CASE enough # {}
  <2>1. enough \subseteq Nat
    BY <1>1 DEF Disassembled
  <2>3. \E e \in enough : \A x \in enough : e <= x
    <3> HIDE DEF enough
    <3> QED BY <2>1, <1>4, LeastOne
  <2>4. L \in enough
    <3> HIDE DEF enough
    <3> QED BY <2>3, <1>2, <1>4 DEF Min
  <2>5. PICK a \in starts : L = a + c[a].size
    BY <2>4
  <2>6. needed <= L /\ L <= 256 /\ L \in Nat
    BY <2>4, <2>1 DEF Disassembled
  <2>7. ASSUME NEW x \in DOMAIN Low(c), x < L
        PROVE  x + Low(c)[x].size <= L
    <3>1. x \in Int /\ a \in Int /\ Low(c)[x].size \in 1 .. 16 /\ Low(c)[a].size \in 1 .. 16
      BY <1>1 DEF Separate, Near, Span
    <3>2. L = a + Low(c)[a].size
      BY <1>1, <2>5
    <3>3. /\ x < a => x + Low(c)[x].size <= a
          /\ a < x => a + Low(c)[a].size <= x
      BY <1>1 DEF Separate
    <3> QED BY <3>1, <3>2, <3>3, <2>7
  <2> QED BY <2>6, <2>7 DEF Cut, Lengths, Disassembled
<1> QED BY <1>3, <1>4

\* Where no instruction is cut, the code that is left and the code that is copied make
\* up the whole.
LEMMA Mended ==
  ASSUME NEW c, c = [a \in DOMAIN c |-> c[a]], DOMAIN c \subseteq Int, NEW n \in Nat, Cut(c, n),
         \A a \in DOMAIN c : c[a].size \in 1 .. 16
  PROVE  /\ Inside(c, Span(0, n)) = Restrict(c, DOMAIN c \cap Span(0, n))
         /\ Inside(Inside(c, Span(0, n)), Span(0, n)) = Inside(c, Span(0, n))
         /\ Beside(Outside(c, Span(0, n)), Inside(c, Span(0, n))) = c
<1> DEFINE S == Span(0, n)
<1>1. \A a \in DOMAIN c \cap S : a + c[a].size - 1 \in S
  BY DEF Cut, Span
<1>2. {a \in DOMAIN c \cap S : a + c[a].size - 1 \in S} = DOMAIN c \cap S
  BY <1>1
<1>3. Inside(c, S) = Restrict(c, DOMAIN c \cap S)
  BY <1>2 DEF Inside
<1>4. DOMAIN Inside(c, S) = DOMAIN c \cap S /\ \A a \in DOMAIN c \cap S : Inside(c, S)[a] = c[a]
  BY <1>3 DEF Restrict
<1>5. {a \in DOMAIN Inside(c, S) \cap S : a + Inside(c, S)[a].size - 1 \in S} = DOMAIN c \cap S
  BY <1>4, <1>1
<1>6. Inside(Inside(c, S), S) = Restrict(Inside(c, S), DOMAIN c \cap S)
  <2> DEFINE d == Inside(c, S)
  <2>1. Inside(d, S) = Restrict(d, {a \in DOMAIN d \cap S : a + d[a].size - 1 \in S})
    BY DEF Inside
  <2> QED BY <2>1, <1>5
<1>7. Inside(Inside(c, S), S) = Inside(c, S)
  BY <1>6, <1>3, <1>4 DEF Restrict
<1>8. Beside(Outside(c, S), Inside(c, S)) = c
  <2>1. DOMAIN Outside(c, S) = DOMAIN c \ S /\ \A a \in DOMAIN c \ S : Outside(c, S)[a] = c[a]
    BY DEF Outside, Restrict
  <2> HIDE DEF S
  <2> QED BY <2>1, <1>4 DEF Beside
<1> QED BY <1>3, <1>7, <1>8
\* The jump table and the trampoline are bounded, as the bytes disassembled are.
LEMMA TableBounded ==
  ASSUME NEW c, NEW L \in Lengths, NEW A \in Archs
  PROVE  /\ Grown(c, L, A) \in L .. L + 4096
         /\ \A a : Entry(c, L, a, A) \in L .. Grown(c, L, A)
<1> DEFINE C == Conditionals(c, L)
<1>1. L \in Nat /\ L <= 256 /\ L - 1 \in Int
  BY DEF Lengths, Disassembled
<1>2. IsFiniteSet(0 .. L - 1) /\ Cardinality(0 .. L - 1) = L
  <2>1. Cardinality(0 .. L - 1) = IF 0 > L - 1 THEN 0 ELSE (L - 1) - 0 + 1
    BY <1>1, FS_Interval
  <2> QED BY <1>1, <2>1, FS_Interval
<1>3. C \subseteq 0 .. L - 1
  BY <1>1 DEF Conditionals, Span
<1>4. IsFiniteSet(C) /\ Cardinality(C) \in Nat /\ Cardinality(C) <= L
  <2> HIDE DEF C
  <2>1. IsFiniteSet(C) /\ Cardinality(C) <= L
    BY <1>2, <1>3, FS_Subset
  <2> QED BY <2>1, FS_CardinalityType
<1>5. JmpSize(A) \in {5, 16}
  BY Sizes
<1>6. Grown(c, L, A) \in L .. L + 4096
  <2> HIDE DEF C
  <2>1. Grown(c, L, A) = L + JmpSize(A) * Cardinality(C)
    BY DEF Grown, C
  <2> QED BY <2>1, <1>1, <1>4, <1>5
<1>7. ASSUME NEW a
      PROVE  Entry(c, L, a, A) \in L .. Grown(c, L, A)
  <2> DEFINE D == {b \in C : b < a}
  <2>1. Cardinality(D) \in Nat /\ Cardinality(D) <= Cardinality(C)
    <3>1. D \subseteq C
      OBVIOUS
    <3> HIDE DEF C, D
    <3>2. IsFiniteSet(D) /\ Cardinality(D) <= Cardinality(C)
      BY <1>4, <3>1, FS_Subset
    <3> QED BY <3>2, FS_CardinalityType
  <2>2. Entry(c, L, a, A) = L + JmpSize(A) * Cardinality(D)
    BY DEF Entry
  <2>3. Grown(c, L, A) = L + JmpSize(A) * Cardinality(C)
    BY DEF Grown
  <2> HIDE DEF C, D
  <2> QED BY <2>1, <2>2, <2>3, <1>1, <1>4, <1>5
<1> QED BY <1>6, <1>7

\* A trampoline's code begins at the trampoline and ends before the pointer of a short hook.
LEMMA InTrampoline ==
  ASSUME NEW c, DOMAIN c \subseteq Int, NEW L \in Lengths, NEW A \in Archs, NEW T \in Nat
  PROVE  DOMAIN BuildTrampoline(c, L, T, A) \subseteq T .. T + Grown(c, L, A)
<1> DEFINE n == Grown(c, L, A)
<1>0. L \in Nat
  BY DEF Lengths, Disassembled
<1>1. n \in L .. L + 4096 /\ \A a : Entry(c, L, a, A) \in L .. n
  BY TableBounded
<1>2. DOMAIN RelocateASM(c, L, T, A) \subseteq T .. T + n
  <2>1. DOMAIN RelocateASM(c, L, T, A) = {b + T : b \in DOMAIN c \cap Span(0, L)}
    BY DEF RelocateASM
  <2>2. \A b \in DOMAIN c \cap Span(0, L) : b \in 0 .. L - 1
    BY <1>0 DEF Span
  <2>3. \A b \in DOMAIN c \cap Span(0, L) : b + T \in T .. T + n
    BY <2>2, <1>1, <1>0
  <2> QED BY <2>1, <2>3
<1>3. DOMAIN JumpTable(c, L, T, A) \subseteq T .. T + n
  <2>1. DOMAIN JumpTable(c, L, T, A) = {T + Entry(c, L, a, A) : a \in Conditionals(c, L)}
    BY DEF JumpTable
  <2>2. \A a : T + Entry(c, L, a, A) \in T .. T + n
    <3>1. ASSUME NEW e \in L .. n
          PROVE  T + e \in T .. T + n
      <4>1. n \in Int /\ e \in Int /\ 0 <= e /\ e <= n
        BY <1>0, <1>1
      <4> HIDE DEF n
      <4> QED BY <4>1
    <3> QED BY <3>1, <1>1
  <2> QED BY <2>1, <2>2
<1>4. T + n \in T .. T + n
  <2>1. n \in Nat
    BY <1>0, <1>1
  <2> HIDE DEF n
  <2> QED BY <2>1
<1>5. DOMAIN BuildTrampoline(c, L, T, A) =
        DOMAIN RelocateASM(c, L, T, A) \cup (DOMAIN JumpTable(c, L, T, A) \cup {T + n})
  BY DEF BuildTrampoline, Beside, One
<1> QED BY <1>2, <1>3, <1>4, <1>5
-----------------------------------------------------------------------------
(***************************************************************************)
(* The function's code is that of the hooks in place, layer on layer.      *)
(***************************************************************************)
\* What a hook has to do with code depends on nothing but its record.
LEMMA SameHook ==
  ASSUME NEW h, hook'[h] = hook[h], arch' = arch
  PROVE  /\ SlotOf(h)' = SlotOf(h)
         /\ Entrance(h)' = Entrance(h)
         /\ \A c : Undone(c, h)' = Undone(c, h)
         /\ \A c, d : Over(c, d, h)' = Over(c, d, h)
<1>1. SlotOf(h)' = SlotOf(h)
  BY DEF SlotOf
<1>2. Entrance(h)' = Entrance(h)
  BY <1>1 DEF Entrance
<1>3. ASSUME NEW c
      PROVE  Undone(c, h)' = Undone(c, h)
  BY DEF Undone
<1>4. ASSUME NEW c, NEW d
      PROVE  Over(c, d, h)' = Over(c, d, h)
  BY <1>2, <1>3 DEF Over
<1> QED BY <1>1, <1>2, <1>3, <1>4

\* The first bytes are the function's own.
LEMMA NearBytes ==
  ASSUME NEW c, NEW n \in Lengths
  PROVE  /\ Inside(c, Span(0, n)) = Inside(Low(c), Span(0, n))
         /\ Low(Outside(c, Span(0, n))) = Outside(Low(c), Span(0, n))
         /\ Span(0, n) \subseteq Near
<1> DEFINE S == Span(0, n)
<1>1. S \subseteq Near
  BY DEF Span, Near, Far, Lengths, Disassembled
<1>2. DOMAIN Low(c) = DOMAIN c \cap Near /\ \A a \in DOMAIN c \cap Near : Low(c)[a] = c[a]
  BY DEF Low, Restrict
<1> HIDE DEF S
<1>3. {a \in DOMAIN Low(c) \cap S : a + Low(c)[a].size - 1 \in S} =
        {a \in DOMAIN c \cap S : a + c[a].size - 1 \in S}
  BY <1>1, <1>2
<1>4. Inside(c, S) = Inside(Low(c), S)
  <2> DEFINE M == {a \in DOMAIN c \cap S : a + c[a].size - 1 \in S}
  <2>1. Inside(c, S) = [a \in M |-> c[a]] /\ Inside(Low(c), S) = [a \in M |-> Low(c)[a]]
    BY <1>3 DEF Inside, Restrict
  <2>2. \A a \in M : Low(c)[a] = c[a]
    BY <1>1, <1>2
  <2> QED BY <2>1, <2>2
<1>5. Low(Outside(c, S)) = Outside(Low(c), S)
  <2>1. DOMAIN Outside(c, S) = DOMAIN c \ S /\ \A a \in DOMAIN c \ S : Outside(c, S)[a] = c[a]
    BY DEF Outside, Restrict
  <2>2. Low(Outside(c, S)) = [a \in (DOMAIN c \ S) \cap Near |-> c[a]]
    BY <2>1 DEF Low, Restrict
  <2>3. Outside(Low(c), S) = [a \in (DOMAIN c \cap Near) \ S |-> c[a]]
    BY <1>2 DEF Outside, Restrict
  <2> QED BY <2>2, <2>3
<1> QED BY <1>1, <1>4, <1>5 DEF S

\* Code that is put elsewhere leaves the function's own alone.
LEMMA LowBeside ==
  ASSUME NEW c, NEW d, DOMAIN d \cap Near = {}
  PROVE  Low(Beside(c, d)) = Low(c)
<1>1. DOMAIN Beside(c, d) \cap Near = DOMAIN c \cap Near
  BY DEF Beside
<1>2. \A a \in DOMAIN c \cap Near : Beside(c, d)[a] = c[a]
  BY DEF Beside
<1> QED BY <1>1, <1>2 DEF Low, Restrict

\* Dropping what is not the function's own, or what is, from the whole.
LEMMA LowOutside ==
  ASSUME NEW c, NEW S, S \cap Near = {}
  PROVE  Low(Outside(c, S)) = Low(c)
<1>1. DOMAIN Outside(c, S) = DOMAIN c \ S /\ \A a \in DOMAIN c \ S : Outside(c, S)[a] = c[a]
  BY DEF Outside, Restrict
<1>2. (DOMAIN c \ S) \cap Near = DOMAIN c \cap Near
  OBVIOUS
<1> QED BY <1>1, <1>2 DEF Low, Restrict

\* The hooks in place without the newest.
LEMMA FrontLive ==
  ASSUME live \in Seq(Hooks), live # <<>>
  PROVE  /\ Len(live) \in Nat \ {0} /\ Last(live) = live[Len(live)] /\ Last(live) \in Hooks
         /\ Front(live) \in Seq(Hooks) /\ Len(Front(live)) = Len(live) - 1
         /\ \A i \in 1 .. Len(live) - 1 : Front(live)[i] = live[i]
<1>1. Len(live) \in Nat \ {0} /\ Last(live) = live[Len(live)] /\ Last(live) \in Hooks
  BY DEF Last
<1>2. Front(live) = SubSeq(live, 1, Len(live) - 1)
  BY DEF Front
<1>3. /\ Front(live) \in Seq(Hooks) /\ Len(Front(live)) = Len(live) - 1
      /\ \A i \in 1 .. Len(live) - 1 : Front(live)[i] = live[i]
  <2> DEFINE n == Len(live) - 1
  <2>1. 1 \in Int /\ n \in Nat /\ \A i \in 1 .. n : live[i] \in Hooks
    BY <1>1
  <2> HIDE DEF n
  <2>2. /\ SubSeq(live, 1, n) \in Seq(Hooks)
        /\ Len(SubSeq(live, 1, n)) = IF 1 <= n THEN n - 1 + 1 ELSE 0
        /\ \A i \in 1 .. n - 1 + 1 : SubSeq(live, 1, n)[i] = live[1 + i - 1]
    BY <2>1, SubSeqProperties
  <2>3. Len(SubSeq(live, 1, n)) = n /\ \A i \in 1 .. n : SubSeq(live, 1, n)[i] = live[i]
    BY <2>1, <2>2
  <2> QED BY <1>1, <1>2, <2>2, <2>3 DEF n
<1> QED BY <1>1, <1>3
LEMMA LiveSet ==
  ASSUME live \in Seq(Hooks)
  PROVE  /\ Len(live) \in Nat
         /\ ToSet(live) = {live[i] : i \in 1 .. Len(live)}
         /\ ToSet(live) \subseteq Hooks
         /\ live = <<>> => ToSet(live) = {}
         /\ live = <<>> <=> Len(live) = 0
<1>1. Len(live) \in Nat /\ DOMAIN live = 1 .. Len(live) /\ \A i \in 1 .. Len(live) : live[i] \in Hooks
  OBVIOUS
<1>2. ToSet(live) = {live[i] : i \in 1 .. Len(live)}
  BY <1>1 DEF ToSet
<1>3. live = <<>> <=> Len(live) = 0
  BY EmptySeq, <1>1
<1> QED BY <1>1, <1>2, <1>3

\* What Hook finds out about the function before it writes anything.
LEMMA LengthFound ==
  ASSUME Separate(Low(code)), arch \in Archs,
         NEW L, L = CalculateLength(code, Needed(arch)),
         NEW S, S = IF arch = "x64" /\ L = 0 THEN CalculateLength(code, 6) ELSE 0,
         L + S > 0
  PROVE  /\ L \in Lengths /\ S \in Lengths /\ L + S \in Lengths
         /\ Cut(Low(code), L + S)
         /\ L > 0 => S = 0 /\ JmpSize(arch) <= L
         /\ S > 0 => L = 0 /\ 6 <= S /\ arch = "x64"
<1>1. Needed(arch) \in 1 .. 16 /\ Needed(arch) = JmpSize(arch) /\ 6 \in 1 .. 16
  BY Sizes
<1>2. L \in Lengths /\ (L # 0 => JmpSize(arch) <= L /\ Cut(Low(code), L))
  BY <1>1, LengthFits
<1>3. S # 0 => L = 0 /\ arch = "x64" /\ S = CalculateLength(code, 6)
  OBVIOUS
<1>4. S \in Lengths /\ (S # 0 => 6 <= S /\ Cut(Low(code), S))
  <2>1. CASE S = 0
    BY <2>1 DEF Lengths, Disassembled
  <2>2. CASE S # 0
    BY <2>2, <1>1, <1>3, LengthFits
  <2> QED BY <2>1, <2>2
<1>5. \A k \in Lengths : k \in Nat /\ k <= 256
  BY DEF Lengths, Disassembled
<1>6. CASE L # 0
  <2>1. S = 0 /\ L + S = L
    BY <1>3, <1>5, <1>2, <1>6
  <2> QED BY <2>1, <1>2, <1>4, <1>6
<1>7. CASE L = 0
  <2>1. S # 0 /\ L + S = S
    BY <1>4, <1>5, <1>7
  <2> QED BY <2>1, <1>2, <1>3, <1>4, <1>5, <1>7
<1> QED BY <1>6, <1>7

\* The jump table depends on the copied instructions only.
LEMMA GrownCopied ==
  ASSUME Separate(Low(code)), NEW n \in Lengths, Cut(Low(code), n), NEW A
  PROVE  /\ Inside(code, Span(0, n)) = Restrict(Low(code), DOMAIN Low(code) \cap Span(0, n))
         /\ Grown(Inside(code, Span(0, n)), n, A) = Grown(code, n, A)
<1> DEFINE d == Inside(code, Span(0, n))
<1>1. n \in Nat
  BY DEF Lengths, Disassembled
<1>2. DOMAIN Low(code) \subseteq Int
  BY NearNat DEF Separate
<1>3. d = Restrict(Low(code), DOMAIN Low(code) \cap Span(0, n))
  <2>1. Inside(Low(code), Span(0, n)) = Restrict(Low(code), DOMAIN Low(code) \cap Span(0, n))
    BY <1>1, <1>2, Mended DEF Separate
  <2> QED BY <2>1, NearBytes
<1>4. DOMAIN d = DOMAIN code \cap Span(0, n) /\ \A a \in DOMAIN d : d[a] = code[a]
  <2>1. Span(0, n) \subseteq Near
    BY NearBytes
  <2> QED BY <1>3, <2>1 DEF Restrict, Low
<1>5. Conditionals(d, n) = Conditionals(code, n)
  BY <1>4 DEF Conditionals
<1> QED BY <1>3, <1>5 DEF Grown
-----------------------------------------------------------------------------
(***************************************************************************)
(* Init, and the threads.                                                  *)
(***************************************************************************)
LEMMA InitHooks == Init => HookInv
<1> SUFFICES ASSUME Init
             PROVE  HookInv
  OBVIOUS
<1>1. /\ arch \in Archs /\ body \in Bodies[arch] /\ code = Unhooked(body)
      /\ live = <<>> /\ patching = Nothing
      /\ hook = [h \in Hooks |-> [length |-> 0, original |-> 0, saved |-> <<>>, stuck |-> FALSE]]
  BY DEF Init
<1>2. ~ Begun /\ Present = {}
  BY <1>1, LiveSet, EmptySeq DEF Begun, Nothing, Present, Pending
<1>3. Shape
  <2>1. \A h \in Hooks : HookOK(h)
    BY <1>1 DEF HookOK
  <2>2. live \in Seq(Hooks) /\ \A i, j \in 1 .. Len(live) : live[i] = live[j] => i = j
    BY <1>1
  <2>3. DOMAIN hook = Hooks
    BY <1>1
  <2> QED BY <1>1, <2>1, <2>2, <2>3 DEF Shape
<1>4. Body(body) /\ DOMAIN code = DOMAIN body
  BY <1>1, DetourAssumption DEF Unhooked
<1>5. DOMAIN code \subseteq Near /\ DOMAIN code \subseteq Int
  BY <1>4, NearNat DEF Body, Near
<1>6. code = [a \in DOMAIN code |-> code[a]] /\ \A a \in DOMAIN code : code[a].size = body[a].size
  BY <1>1 DEF Unhooked
<1>7. Separate(code)
  <2>1. \A a \in DOMAIN code : code[a].size \in 1 .. 16
    BY <1>4, <1>6 DEF Body
  <2>2. \A a, p \in DOMAIN code : p < a => p + code[p].size <= a
    BY <1>4, <1>6 DEF Body
  <2> QED BY <1>5, <1>6, <2>1, <2>2 DEF Separate
<1>8. Low(code) = code
  BY <1>5, <1>6 DEF Low, Restrict
<1>9. \E s, c : Layers(s) /\ c = s[Len(live)] /\ Now(c)
  <2> DEFINE s == [i \in 0 .. 0 |-> code]
  <2>1. Len(live) = 0 /\ s[0] = code /\ s = [i \in 0 .. 0 |-> s[i]]
    BY <1>1
  <2>2. \A i \in 0 .. 0 : Separate(s[i])
    BY <1>7
  <2>3. Layers(s)
    <3> HIDE DEF s
    <3> QED BY <2>1, <2>2, <1>1 DEF Layers
  <2>4. Now(code)
    BY <1>1, <1>2, <1>8 DEF Now, Nothing
  <2>5. Layers(s) /\ code = s[Len(live)] /\ Now(code)
    BY <2>1, <2>3, <2>4
  <2> HIDE DEF s
  <2> QED BY <2>5
<1>10. \A h \in Hooks : hook[h].length \in Nat /\ hook[h].original \in Lengths
  BY <1>1 DEF Lengths, Disassembled
<1>11. Kept
  BY <1>2, <1>5, <1>6, <1>9, <1>10 DEF Kept, Placed
<1> QED BY <1>3, <1>11 DEF HookInv

\* The threads change neither code nor hooks.
LEMMA HooksUntouched ==
  ASSUME HookInv, UNCHANGED <<arch, body, memory>>
  PROVE  HookInv'
<1>1. /\ arch' = arch /\ body' = body /\ code' = code /\ hook' = hook /\ live' = live
      /\ patching' = patching
  BY DEF memory
<1>2. Shape'
  BY <1>1 DEF HookInv, Shape, HookOK, Begun
<1>3. NoneStuck' => NoneStuck
  BY <1>1 DEF NoneStuck
<1>4. ASSUME NoneStuck
      PROVE  Kept'
  <2>1. Kept
    BY <1>4 DEF HookInv
  <2>2. Present' = Present
    BY <1>1 DEF Present, Pending, Begun
  <2>3. /\ code' = [a \in DOMAIN code' |-> code'[a]] /\ DOMAIN code' \subseteq Int
        /\ \A h \in Hooks : hook'[h].length \in Nat /\ hook'[h].original \in Lengths
    BY <1>1, <2>1 DEF Kept
  <2>4. Placed'
    BY <1>1, <2>1, <2>2 DEF Kept, Placed
  <2>5. \A h \in Present' : Pointed(h)'
    BY <1>1, <2>1, <2>2, SameHook DEF Kept, Pointed
  <2>6. PICK s, c : Layers(s) /\ c = s[Len(live)] /\ Now(c)
    BY <2>1 DEF Kept
  <2>7. Layers(s)'
    BY <1>1, <2>6, SameHook DEF Layers
  <2>8. Now(c)'
    BY <1>1, <2>6 DEF Now, Overlay, Begun
  <2>9. \E r, d : Layers(r)' /\ d = r[Len(live')] /\ Now(d)'
    BY <1>1, <2>6, <2>7, <2>8
  <2> QED BY <2>3, <2>4, <2>5, <2>9 DEF Kept
<1> QED BY <1>2, <1>3, <1>4 DEF HookInv
-----------------------------------------------------------------------------
(***************************************************************************)
(* Hook.                                                                   *)
(***************************************************************************)
\* What HookBegin does, with names for what it computes.
Copied(h, L, S) ==
  LET over == Span(0, IF S > 0 THEN 6 ELSE L)
  IN /\ patching = Nothing /\ h \notin ToSet(live)
     /\ L = CalculateLength(code, Needed(arch))
     /\ S = (IF arch = "x64" /\ L = 0 THEN CalculateLength(code, 6) ELSE 0)
     /\ L + S > 0
     /\ hook' = [hook EXCEPT ![h] =
          [length |-> L + S, original |-> L, saved |-> SourceBytes(L + S), stuck |-> @.stuck]]
     /\ code' = Beside(Beside(Outside(code, over),
                              BuildTrampoline(SourceBytes(L + S), L + S, Trampoline(h), arch)),
                       IF S > 0 THEN Pointer(Grown(code, L + S, arch), h) ELSE <<>>)
     /\ patching' = [hook |-> h, writing |-> IF S > 0 THEN "short" ELSE "hook"]
     /\ UNCHANGED <<arch, body, live>>

LEMMA HookBeginCopies ==
  ASSUME NEW h \in Hooks, HookBegin(h)
  PROVE  \E L, S : Copied(h, L, S)
BY DEF HookBegin, Copied

\* The record of h, and nobody else's, is written.
LEMMA HookBeginShape ==
  ASSUME Shape, NEW h \in Hooks, NEW L, NEW S, Copied(h, L, S)
  PROVE  /\ Shape'
         /\ NoneStuck' => NoneStuck
         /\ \A g \in Hooks \ {h} : hook'[g] = hook[g]
         /\ hook'[h].length = L + S /\ hook'[h].original = L
         /\ hook'[h].saved = SourceBytes(L + S)
         /\ Begun' /\ ~ Begun /\ patching'.hook = h
         /\ Present = ToSet(live) /\ Present' = ToSet(live) \cup {h}
<1> DEFINE r == [length |-> L + S, original |-> L, saved |-> SourceBytes(L + S),
                 stuck |-> hook[h].stuck]
<1>1. hook' = [hook EXCEPT ![h] = r] /\ DOMAIN hook = Hooks /\ \A g \in Hooks : HookOK(g)
  BY DEF Copied, Shape
<1>2. hook'[h] = r /\ DOMAIN hook' = Hooks /\ \A g \in Hooks \ {h} : hook'[g] = hook[g]
  <2> HIDE DEF r
  <2> QED BY <1>1
<1>3. r.length = L + S /\ r.original = L /\ r.saved = SourceBytes(L + S) /\ r.stuck = hook[h].stuck
  OBVIOUS
<1>4. \A g \in Hooks : HookOK(g)'
  <2>1. HookOK(h)'
    BY <1>1, <1>2, <1>3 DEF HookOK
  <2>2. ASSUME NEW g \in Hooks \ {h}
        PROVE  HookOK(g)'
    BY <1>1, <1>2 DEF HookOK
  <2> QED BY <2>1, <2>2
<1>5. patching = Nothing /\ h \notin ToSet(live) /\ arch' = arch /\ body' = body /\ live' = live
  BY DEF Copied
<1>6. patching' = [hook |-> h, writing |-> IF S > 0 THEN "short" ELSE "hook"]
  BY DEF Copied
<1>7. Begun' /\ ~ Begun /\ patching'.hook = h
  BY <1>5, <1>6 DEF Begun, Nothing
<1>8. Shape'
  BY <1>2, <1>4, <1>5, <1>7 DEF Shape
<1>9. NoneStuck' => NoneStuck
  <2>1. \A g \in Hooks : hook'[g].stuck = hook[g].stuck
    BY <1>2, <1>3
  <2> QED BY <2>1 DEF NoneStuck
<1>10. Present = ToSet(live) /\ Present' = ToSet(live) \cup {h}
  BY <1>5, <1>7 DEF Present, Pending
<1> HIDE DEF r
<1> QED BY <1>2, <1>3, <1>7, <1>8, <1>9, <1>10
\* The trampoline and the pointer of h lie where h may put them, apart from all there is.
LEMMA HookBeginCode ==
  ASSUME Shape, Kept, NEW h \in Hooks, NEW L, NEW S, Copied(h, L, S), Separate(Low(code)),
         Present = ToSet(live)
  PROVE  /\ code' = [a \in DOMAIN code' |-> code'[a]] /\ DOMAIN code' \subseteq Int
         /\ Low(code') = Outside(Low(code), Span(0, IF S > 0 THEN 6 ELSE L))
         /\ \A a \in DOMAIN code' \ Near : a \in DOMAIN code \/ a \in Span(Trampoline(h), Far)
         /\ \A a \in DOMAIN code \ Near : a \in DOMAIN code' /\ code'[a] = code[a]
         /\ S > 0 => LET a == Slot(Grown(SourceBytes(L + S), L + S, arch), h)
                     IN /\ a \in Span(Trampoline(h), Far) \cap DOMAIN code'
                        /\ code'[a].disp = Callback(h)
         /\ LET b == BuildTrampoline(SourceBytes(L + S), L + S, Trampoline(h), arch)
            IN /\ \A a \in DOMAIN b : a \in DOMAIN code' /\ code'[a] = b[a]
               /\ \A a \in DOMAIN code' \cap Span(Trampoline(h), Far) :
                    \/ a \in DOMAIN b
                    \/ /\ a = Slot(Grown(SourceBytes(L + S), L + S, arch), h)
                       /\ code'[a] = Own("ptr", 8, Callback(h))
<1> DEFINE k    == IF S > 0 THEN 6 ELSE L
           T    == Trampoline(h)
           d    == SourceBytes(L + S)
           n    == Grown(d, L + S, arch)
           left == Outside(code, Span(0, k))
           tramp == BuildTrampoline(d, L + S, T, arch)
           ptr  == IF S > 0 THEN Pointer(n, h) ELSE <<>>
           slot == Slot(n, h)
<1>1. /\ L \in Lengths /\ S \in Lengths /\ L + S \in Lengths /\ Cut(Low(code), L + S)
      /\ L > 0 => S = 0
      /\ S > 0 => L = 0 /\ arch = "x64"
  <2>1. /\ arch \in Archs /\ L = CalculateLength(code, Needed(arch)) /\ L + S > 0
        /\ S = IF arch = "x64" /\ L = 0 THEN CalculateLength(code, 6) ELSE 0
    BY DEF Shape, Copied
  <2> QED BY <2>1, LengthFound
<1>2. k \in Lengths
  BY <1>1 DEF Lengths, Disassembled
<1>3. arch \in Archs /\ T \in Nat /\ T = 10000 * h /\ h \in Nat /\ h > 0
  BY DetourAssumption DEF Shape, Trampoline, Far
<1>4. n = Grown(code, L + S, arch)
  BY <1>1, GrownCopied DEF SourceBytes
<1>5. code' = Beside(Beside(left, tramp), ptr)
  BY <1>4 DEF Copied
<1>6. DOMAIN d \subseteq Int
  <2>1. DOMAIN d \subseteq DOMAIN code
    BY DEF SourceBytes, Inside, Restrict
  <2> QED BY <2>1 DEF Kept
<1>7. n \in 0 .. 4352
  <2> DEFINE m == L + S
  <2>1. m \in 0 .. 256
    BY <1>1 DEF Lengths, Disassembled
  <2>2. n \in m .. m + 4096
    BY <1>1, <1>3, TableBounded
  <2> HIDE DEF m, n
  <2> QED BY <2>1, <2>2
<1>8. DOMAIN tramp \subseteq T .. T + n
  BY <1>1, <1>3, <1>6, InTrampoline
<1>9. slot = T + n + 16 /\ slot \in Int /\ slot \notin T .. T + n /\ slot \in Span(T, Far)
  <2>1. slot = T + n + 16
    BY DEF Slot
  <2> HIDE DEF T, n, slot
  <2> QED BY <1>3, <1>7, <2>1 DEF Span, Far
<1>10. DOMAIN tramp \subseteq Span(T, Far)
  <2>1. T .. T + n \subseteq Span(T, Far)
    <3> HIDE DEF T, n
    <3> QED BY <1>3, <1>7 DEF Span, Far
  <2> QED BY <1>8, <2>1
<1>11. DOMAIN ptr = (IF S > 0 THEN {slot} ELSE {})
  BY DEF Pointer, One
<1>12. DOMAIN left = DOMAIN code \ Span(0, k) /\ \A a \in DOMAIN left : left[a] = code[a]
  BY DEF Outside, Restrict
<1>13. /\ S > 0 => slot \in DOMAIN ptr /\ ptr[slot].disp = Callback(h)
       /\ \A a \in DOMAIN ptr : a = slot /\ ptr[a] = Own("ptr", 8, Callback(h))
  BY DEF Pointer, One, Own
<1> HIDE DEF T, d, n, left, tramp, ptr, slot, k
<1>14. \A a \in Span(T, Far) : a \in Int /\ a \notin Near /\ a \notin DOMAIN code
  <2>1. \A a \in Span(T, Far) : a \in Int /\ a \notin Near
    BY Distant DEF T
  <2>2. ASSUME NEW a \in Span(T, Far), a \in DOMAIN code
        PROVE  FALSE
    <3>1. PICK g \in Present : a \in Span(Trampoline(g), Far)
      BY <2>1, <2>2 DEF Kept, Placed
    <3>2. g \in Hooks /\ g # h
      BY LiveSet DEF Shape, Copied
    <3> QED BY <3>1, <3>2, Distant DEF T
  <2> QED BY <2>1, <2>2
<1>15. DOMAIN code' = DOMAIN left \cup DOMAIN tramp \cup DOMAIN ptr
  BY <1>5 DEF Beside
<1>16. /\ \A a \in DOMAIN left : code'[a] = left[a]
       /\ \A a \in DOMAIN ptr \ (DOMAIN left \cup DOMAIN tramp) : code'[a] = ptr[a]
       /\ code' = [a \in DOMAIN code' |-> code'[a]]
  BY <1>5 DEF Beside
<1>17. DOMAIN tramp \cup DOMAIN ptr \subseteq Span(T, Far)
  BY <1>9, <1>10, <1>11
<1>18. Low(code') = Outside(Low(code), Span(0, k))
  <2>1. DOMAIN tramp \cap Near = {} /\ DOMAIN ptr \cap Near = {}
    BY <1>14, <1>17
  <2>2. Low(code') = Low(Beside(left, tramp))
    BY <1>5, <2>1, LowBeside
  <2>3. Low(Beside(left, tramp)) = Low(left)
    BY <2>1, LowBeside
  <2> QED BY <1>2, <2>2, <2>3, NearBytes DEF left
<1>19. Span(0, k) \subseteq Near
  BY <1>2, NearBytes
<1>20. DOMAIN code' \subseteq Int
  BY <1>12, <1>14, <1>15, <1>17 DEF Kept
<1>21. \A a \in DOMAIN code' \ Near : a \in DOMAIN code \/ a \in Span(T, Far)
  BY <1>12, <1>15, <1>17
<1>22. \A a \in DOMAIN code \ Near : a \in DOMAIN code' /\ code'[a] = code[a]
  BY <1>12, <1>15, <1>16, <1>19
<1>23. S > 0 => slot \in Span(T, Far) \cap DOMAIN code' /\ code'[slot].disp = Callback(h)
  <2> SUFFICES ASSUME S > 0
               PROVE  slot \in Span(T, Far) \cap DOMAIN code' /\ code'[slot].disp = Callback(h)
    OBVIOUS
  <2>1. slot \in DOMAIN ptr /\ slot \notin DOMAIN left /\ slot \notin DOMAIN tramp
    BY <1>8, <1>9, <1>12, <1>13, <1>14
  <2>2. code'[slot] = ptr[slot]
    BY <1>16, <2>1
  <2> QED BY <1>9, <1>13, <1>15, <2>1, <2>2
<1>24. \A a \in DOMAIN tramp : a \in DOMAIN code' /\ code'[a] = tramp[a]
  <2>1. \A a \in DOMAIN tramp : a \notin DOMAIN left
    BY <1>10, <1>12, <1>14
  <2> QED BY <1>5, <1>15, <2>1 DEF Beside
<1>25. \A a \in DOMAIN code' \cap Span(T, Far) :
         a \in DOMAIN tramp \/ (a = slot /\ code'[a] = Own("ptr", 8, Callback(h)))
  <2>1. \A a \in Span(T, Far) : a \notin DOMAIN left
    BY <1>12, <1>14
  <2> QED BY <1>13, <1>15, <1>16, <2>1
<1> QED BY <1>16, <1>18, <1>20, <1>21, <1>22, <1>23, <1>24, <1>25 DEF T, d, n, slot, k, tramp
LEMMA HookBeginKeeps ==
  ASSUME HookInv, NEW h \in Hooks, HookBegin(h)
  PROVE  HookInv'
<1>1. PICK L, S : Copied(h, L, S)
  BY HookBeginCopies
<1>2. Shape /\ arch \in Archs
  BY DEF HookInv, Shape
<1>3. /\ Shape' /\ (NoneStuck' => NoneStuck)
      /\ \A g \in Hooks \ {h} : hook'[g] = hook[g]
      /\ hook'[h].length = L + S /\ hook'[h].original = L /\ hook'[h].saved = SourceBytes(L + S)
      /\ Begun' /\ ~ Begun /\ patching'.hook = h
      /\ Present = ToSet(live) /\ Present' = ToSet(live) \cup {h}
  BY <1>1, <1>2, HookBeginShape
<1>4. ASSUME NoneStuck
      PROVE  Kept'
  <2>1. Kept
    BY <1>4 DEF HookInv
  <2>2. PICK s, c : Layers(s) /\ c = s[Len(live)] /\ Now(c)
    BY <2>1 DEF Kept
  <2>3. /\ patching = Nothing /\ h \notin ToSet(live) /\ arch' = arch /\ body' = body /\ live' = live
        /\ patching'.writing = IF S > 0 THEN "short" ELSE "hook"
    BY <1>1 DEF Copied
  <2>4. Len(live) \in Nat /\ ToSet(live) = {live[i] : i \in 1 .. Len(live)} /\ ToSet(live) \subseteq Hooks
    BY <1>2, LiveSet DEF Shape
  <2>5. c = Low(code) /\ Separate(c)
    BY <2>2, <2>3, <2>4 DEF Now, Layers
  <2>6. /\ L \in Lengths /\ S \in Lengths /\ L + S \in Lengths /\ Cut(c, L + S)
        /\ L > 0 => S = 0 /\ JmpSize(arch) <= L
        /\ S > 0 => L = 0 /\ 6 <= S /\ arch = "x64"
    <3>1. /\ L = CalculateLength(code, Needed(arch)) /\ L + S > 0
          /\ S = IF arch = "x64" /\ L = 0 THEN CalculateLength(code, 6) ELSE 0
      BY <1>1 DEF Copied
    <3> QED BY <1>2, <2>5, <3>1, LengthFound
  <2>7. /\ L \in Nat /\ S \in Nat /\ L + S > 0 /\ L + S <= Disassembled
        /\ S > 0 => L = 0
        /\ ~ (S > 0) => L = L + S /\ L > 0
    <3>1. L + S > 0
      BY <1>1 DEF Copied
    <3> QED BY <2>6, <3>1 DEF Lengths, Disassembled
  <2>8. /\ code' = [a \in DOMAIN code' |-> code'[a]] /\ DOMAIN code' \subseteq Int
        /\ Low(code') = Outside(c, Span(0, IF S > 0 THEN 6 ELSE L))
        /\ \A a \in DOMAIN code' \ Near : a \in DOMAIN code \/ a \in Span(Trampoline(h), Far)
        /\ \A a \in DOMAIN code \ Near : a \in DOMAIN code' /\ code'[a] = code[a]
        /\ S > 0 => LET a == Slot(Grown(SourceBytes(L + S), L + S, arch), h)
                    IN /\ a \in Span(Trampoline(h), Far) \cap DOMAIN code'
                       /\ code'[a].disp = Callback(h)
    BY <1>1, <1>2, <1>3, <2>1, <2>5, HookBeginCode
  <2>9. \A g \in Hooks : hook'[g].length \in Nat /\ hook'[g].original \in Lengths
    BY <1>3, <2>1, <2>6, <2>7 DEF Kept
  <2>10. Placed'
    <3>1. ASSUME NEW a \in DOMAIN code' \ Near
          PROVE  \E g \in Present' : a \in Span(Trampoline(g), Far)
      <4>1. CASE a \in DOMAIN code
        BY <1>3, <2>1, <3>1, <4>1 DEF Kept, Placed
      <4>2. CASE a \in Span(Trampoline(h), Far)
        BY <1>3, <4>2
      <4> QED BY <2>8, <4>1, <4>2
    <3> QED BY <3>1 DEF Placed
  <2>11. \A g \in ToSet(live) : g \in Hooks \ {h} /\ hook'[g] = hook[g]
    BY <1>3, <2>3, <2>4
  <2>12. ASSUME NEW g \in Present'
         PROVE  Pointed(g)'
    <3>1. CASE g \in ToSet(live)
      <4>1. Pointed(g) /\ SlotOf(g)' = SlotOf(g) /\ hook'[g] = hook[g] /\ g \in Hooks
        BY <1>3, <2>1, <2>3, <2>11, <3>1, SameHook DEF Kept
      <4>2. ASSUME hook[g].original = 0
            PROVE  /\ SlotOf(g) \in Span(Trampoline(g), Far) \cap DOMAIN code'
                   /\ code'[SlotOf(g)].disp = Callback(g)
        <5>1. /\ SlotOf(g) \in Span(Trampoline(g), Far) \cap DOMAIN code
              /\ code[SlotOf(g)].disp = Callback(g)
          BY <4>1, <4>2 DEF Pointed
        <5>2. SlotOf(g) \notin Near
          BY <4>1, <5>1, Distant
        <5> QED BY <2>8, <5>1, <5>2
      <4> QED BY <4>1, <4>2 DEF Pointed
    <3>2. CASE g = h
      <4>1. SlotOf(h)' = Slot(Grown(SourceBytes(L + S), L + S, arch), h)
        BY <1>3, <2>3 DEF SlotOf
      <4>2. hook'[h].original = 0 => S > 0
        BY <1>3, <2>7
      <4> QED BY <2>8, <3>2, <4>1, <4>2 DEF Pointed
    <3> QED BY <1>3, <3>1, <3>2
  <2>13. Layers(s)'
    <3>1. \A i \in 1 .. Len(live) : \A g \in Hooks : g = live[i] => Over(s[i], s[i - 1], g)'
      <4>1. ASSUME NEW i \in 1 .. Len(live), NEW g \in Hooks, g = live[i]
            PROVE  Over(s[i], s[i - 1], g)'
        <5>1. hook'[g] = hook[g]
          BY <2>4, <2>11, <4>1
        <5>2. Over(s[i], s[i - 1], g)
          BY <2>2, <4>1 DEF Layers
        <5> QED BY <2>3, <5>1, <5>2, SameHook
      <4> QED BY <4>1
    <3> QED BY <2>2, <2>3, <3>1 DEF Layers
  <2>14. Now(c)'
    <3>1. SourceBytes(L + S) = Inside(c, Span(0, L + S))
      BY <2>5, <2>6, NearBytes DEF SourceBytes
    <3>2. Overlay(c, h)'
      BY <1>3, <2>3, <2>6, <2>7, <2>8, <3>1 DEF Overlay
    <3> QED BY <1>3, <2>3, <3>2 DEF Now, Begun, Nothing
  <2>15. \E r, d : Layers(r)' /\ d = r[Len(live')] /\ Now(d)'
    BY <2>2, <2>3, <2>13, <2>14
  <2> QED BY <2>8, <2>9, <2>10, <2>12, <2>15 DEF Kept
<1> QED BY <1>3, <1>4 DEF HookInv
\* What is written over the first k bytes: instructions that fill no more than those.
Fits(p, k) ==
  /\ 0 \in DOMAIN p /\ DOMAIN p \subseteq Span(0, k)
  /\ \A a \in DOMAIN p :
       /\ p[a].size \in 1 .. 16 /\ a + p[a].size <= k
       /\ \A b \in DOMAIN p : b < a => b + p[b].size <= a

LEMMA PatchFits ==
  ASSUME NEW A \in Archs, NEW h, NEW k \in Lengths, JmpSize(A) <= k
  PROVE  Fits(Patch(A, k, h), k) /\ Patch(A, k, h)[0] = WriteJMP(A, 0, Callback(h))
<1> DEFINE p == Patch(A, k, h)
           J == JmpSize(A)
<1>1. k \in Nat /\ J \in {5, 16} /\ J <= k
  BY Sizes DEF Lengths, Disassembled
<1>2. WriteJMP(A, 0, Callback(h)).size = J
  BY DEF WriteJMP, Own, JmpSize, Archs
<1>3. DOMAIN p = {0} \cup J .. k - 1
  BY DEF Patch, Beside, One
<1>4. p[0] = WriteJMP(A, 0, Callback(h)) /\ \A a \in J .. k - 1 : p[a] = Nop
  <2>1. 0 \notin J .. k - 1
    BY <1>1
  <2> QED BY <2>1 DEF Patch, Beside, One
<1>5. Nop.size = 1
  BY DEF Nop, Own
<1>6. p[0].size = J /\ \A a \in J .. k - 1 : p[a].size = 1
  BY <1>2, <1>4, <1>5
<1> HIDE DEF p, J
<1>7. DOMAIN p \subseteq Span(0, k)
  BY <1>1, <1>3 DEF Span
<1>8. ASSUME NEW a \in DOMAIN p
      PROVE  p[a].size \in 1 .. 16 /\ a + p[a].size <= k
  BY <1>1, <1>3, <1>6
<1>9. ASSUME NEW a \in DOMAIN p, NEW b \in DOMAIN p, b < a
      PROVE  b + p[b].size <= a
  BY <1>1, <1>3, <1>6, <1>9
<1> QED BY <1>3, <1>4, <1>7, <1>8, <1>9 DEF Fits, p

LEMMA ShortPatchFits ==
  ASSUME NEW n, NEW h
  PROVE  Fits(ShortPatch(n, h), 6) /\ ShortPatch(n, h)[0] = Own("ind", 6, Wrap(Slot(n, h) - 6, 32, "x64"))
<1> DEFINE p == ShortPatch(n, h)
<1>1. DOMAIN p = {0} /\ p[0] = Own("ind", 6, Wrap(Slot(n, h) - 6, 32, "x64"))
  BY DEF ShortPatch, One
<1>2. p[0].size = 6
  BY <1>1 DEF Own
<1> HIDE DEF p
<1>3. 0 \in Span(0, 6)
  BY DEF Span
<1> QED BY <1>1, <1>2, <1>3 DEF Fits, p

\* Written over code, it leaves separate instructions, and what lies behind it.
LEMMA Overwritten ==
  ASSUME NEW c, Separate(c), NEW k \in Lengths, NEW p, Fits(p, k)
  PROVE  LET d == Beside(Outside(c, Span(0, k)), p)
         IN /\ Separate(d) /\ 0 \in DOMAIN d /\ d[0] = p[0]
            /\ Outside(d, Span(0, k)) = Outside(c, Span(0, k))
<1> DEFINE S == Span(0, k)
           o == Outside(c, S)
           d == Beside(o, p)
<1>1. k \in Nat /\ S \subseteq Near
  <2>1. k \in 0 .. 256
    BY DEF Lengths, Disassembled
  <2>2. Span(0, k) \subseteq Near
    BY <2>1 DEF Span, Near, Far
  <2> QED BY <2>1, <2>2
<1>2. DOMAIN o = DOMAIN c \ S /\ \A a \in DOMAIN c \ S : o[a] = c[a]
  BY DEF Outside, Restrict
<1>3. DOMAIN d = (DOMAIN c \ S) \cup DOMAIN p /\ d = [a \in DOMAIN d |-> d[a]]
  <2> HIDE DEF o
  <2>1. DOMAIN d = DOMAIN o \cup DOMAIN p /\ d = [a \in DOMAIN d |-> d[a]]
    BY DEF Beside
  <2> QED BY <1>2, <2>1
<1>4. DOMAIN p \subseteq S /\ 0 \in DOMAIN p
  BY DEF Fits
<1>5. /\ \A a \in DOMAIN c \ S : d[a] = c[a]
      /\ \A a \in DOMAIN p : d[a] = p[a]
  <2>1. \A a \in DOMAIN p : a \notin DOMAIN o
    BY <1>2, <1>4
  <2> QED BY <1>2, <2>1 DEF Beside
<1> HIDE DEF d, o
<1>6. \A a \in DOMAIN c \ S : a \in Nat /\ k <= a
  <2>1. DOMAIN c \subseteq Nat
    BY NearNat DEF Separate
  <2> QED BY <1>1, <2>1 DEF Span
<1>7. \A a \in DOMAIN p : a \in Nat /\ a < k /\ p[a].size \in 1 .. 16 /\ a + p[a].size <= k
  <2>1. \A a \in S : a \in Nat /\ a < k
    BY <1>1 DEF Span
  <2> HIDE DEF S
  <2> QED BY <1>4, <2>1 DEF Fits
<1>8. Separate(d)
  <2>1. DOMAIN d \subseteq Near
    BY <1>1, <1>3, <1>4 DEF Separate
  <2>2. ASSUME NEW a \in DOMAIN d
        PROVE  d[a].size \in 1 .. 16
    BY <1>3, <1>5, <1>7 DEF Separate
  <2>3. ASSUME NEW a \in DOMAIN d, NEW b \in DOMAIN d, b < a
        PROVE  b + d[b].size <= a
    <3>1. CASE a \in DOMAIN c \ S /\ b \in DOMAIN c \ S
      BY <1>5, <2>3, <3>1 DEF Separate
    <3>2. CASE a \in DOMAIN c \ S /\ b \in DOMAIN p
      <4>1. k <= a /\ a \in Nat /\ b \in Nat /\ b + d[b].size <= k /\ d[b].size \in 1 .. 16
        BY <1>5, <1>6, <1>7, <3>2
      <4> QED BY <1>1, <4>1
    <3>3. CASE a \in DOMAIN p /\ b \in DOMAIN c \ S
      <4>1. k <= b /\ a < k /\ a \in Nat /\ b \in Nat
        BY <1>6, <1>7, <3>3
      <4> QED BY <1>1, <2>3, <4>1
    <3>4. CASE a \in DOMAIN p /\ b \in DOMAIN p
      BY <1>5, <2>3, <3>4 DEF Fits
    <3> QED BY <1>3, <3>1, <3>2, <3>3, <3>4
  <2> QED BY <1>3, <2>1, <2>2, <2>3 DEF Separate
<1>9. Outside(d, S) = o
  <2>1. DOMAIN d \ S = DOMAIN c \ S
    BY <1>3, <1>4
  <2>2. Outside(d, S) = [a \in DOMAIN c \ S |-> d[a]] /\ o = [a \in DOMAIN c \ S |-> c[a]]
    BY <2>1 DEF Outside, Restrict, o
  <2> QED BY <1>5, <2>2
<1>10. 0 \in DOMAIN d /\ d[0] = p[0]
  BY <1>3, <1>4, <1>5
<1> QED BY <1>8, <1>9, <1>10 DEF d, o
\* The layer that h adds, from the code it leaves behind and its patch.
LEMMA NewLayer ==
  ASSUME Shape, Kept, NEW s, NEW c, Layers(s), c = s[Len(live)], Now(c),
         NEW h \in Hooks, h = patching.hook, Begun
  PROVE  LET p == IF patching.writing = "hook" THEN Patch(arch, hook[h].length, h)
                  ELSE ShortPatch(Grown(hook[h].saved, hook[h].length, arch), h)
             d == Beside(Low(code), p)
         IN Separate(d) /\ Over(d, c, h) /\ DOMAIN p \subseteq Near
<1> DEFINE k == IF patching.writing = "hook" THEN hook[h].length ELSE 6
           p == IF patching.writing = "hook" THEN Patch(arch, hook[h].length, h)
                ELSE ShortPatch(Grown(hook[h].saved, hook[h].length, arch), h)
           d == Beside(Low(code), p)
<1>1. Overlay(c, h) /\ arch \in Archs /\ hook[h].length \in Nat
  BY DEF Now, Shape, Kept
<1>2. Separate(c)
  <2>1. Len(live) \in 0 .. Len(live)
    BY LiveSet DEF Shape
  <2> QED BY <2>1 DEF Layers
<1>3. k \in Lengths
  <2> DEFINE n == hook[h].length
  <2>1. n <= Disassembled /\ n \in Nat
    BY <1>1 DEF Overlay
  <2> HIDE DEF n
  <2>2. n \in Lengths /\ 6 \in Lengths
    BY <2>1 DEF Lengths, Disassembled
  <2> QED BY <2>2 DEF n
<1>4. patching.writing = "hook" \/ patching.writing = "short"
  BY DEF Begun
<1>5. Low(code) = Outside(c, Span(0, k))
  BY <1>1, <1>4 DEF Overlay
<1>6. Fits(p, k) /\ p[0] = Entrance(h)
  <2>1. CASE patching.writing = "hook"
    <3>1. /\ hook[h].original = hook[h].length /\ JmpSize(arch) <= hook[h].length
          /\ hook[h].length \in Lengths
      BY <1>1, <1>3, <2>1 DEF Overlay
    <3>2. hook[h].original > 0
      BY <1>1, <3>1, Sizes
    <3> QED BY <1>1, <2>1, <3>1, <3>2, PatchFits DEF Entrance
  <2>2. CASE patching.writing = "short"
    <3>1. hook[h].original = 0
      BY <1>1, <2>2 DEF Overlay
    <3>2. Entrance(h) = Own("ind", 6, Wrap(Slot(Grown(hook[h].saved, hook[h].length, arch), h) - 6, 32, "x64"))
      BY <3>1 DEF Entrance, SlotOf
    <3> QED BY <2>2, <3>2, ShortPatchFits
  <2> QED BY <1>4, <2>1, <2>2
<1> HIDE DEF p
<1>7. /\ Separate(d) /\ 0 \in DOMAIN d /\ d[0] = p[0]
      /\ Outside(d, Span(0, k)) = Outside(c, Span(0, k))
  BY <1>2, <1>3, <1>5, <1>6, Overwritten
<1>8. ASSUME hook[h].original > 0
      PROVE  c = Undone(d, h)
  <2>1. patching.writing = "hook"
    BY <1>1, <1>4, <1>8 DEF Overlay
  <2>2. /\ k = hook[h].original /\ k = hook[h].length /\ k \in Nat /\ Cut(c, k)
        /\ hook[h].saved = Inside(c, Span(0, k))
    BY <1>1, <2>1 DEF Overlay
  <2>3. /\ c = [a \in DOMAIN c |-> c[a]] /\ DOMAIN c \subseteq Int
        /\ \A a \in DOMAIN c : c[a].size \in 1 .. 16
    BY ONLY <1>2, NearNat DEF Separate
  <2> HIDE DEF d, k
  <2>4. /\ Inside(Inside(c, Span(0, k)), Span(0, k)) = Inside(c, Span(0, k))
        /\ Beside(Outside(c, Span(0, k)), Inside(c, Span(0, k))) = c
    BY <2>2, <2>3, Mended
  <2> QED BY <1>7, <2>2, <2>4 DEF Undone
<1>9. DOMAIN p \subseteq Near
  <2>1. Span(0, k) \subseteq Near
    <3> HIDE DEF k
    <3> QED BY <1>3 DEF Lengths, Disassembled, Span, Near, Far
  <2> QED BY <1>6, <2>1 DEF Fits
<1>10. Over(d, c, h)
  BY <1>6, <1>7, <1>8 DEF Over
<1> QED BY <1>7, <1>9, <1>10 DEF p

\* A hook more.
LEMMA AppendLive ==
  ASSUME live \in Seq(Hooks), NEW h \in Hooks
  PROVE  /\ Append(live, h) \in Seq(Hooks) /\ Len(Append(live, h)) = Len(live) + 1
         /\ Append(live, h)[Len(live) + 1] = h
         /\ \A i \in 1 .. Len(live) : Append(live, h)[i] = live[i]
         /\ ToSet(Append(live, h)) = ToSet(live) \cup {h}
<1>1. /\ Append(live, h) \in Seq(Hooks) /\ Len(Append(live, h)) = Len(live) + 1
      /\ Append(live, h)[Len(live) + 1] = h
      /\ \A i \in 1 .. Len(live) : Append(live, h)[i] = live[i]
  OBVIOUS
<1>2. Len(live) \in Nat /\ DOMAIN live = 1 .. Len(live) /\ DOMAIN Append(live, h) = 1 .. Len(live) + 1
  OBVIOUS
<1>3. ToSet(Append(live, h)) = ToSet(live) \cup {h}
  BY <1>1, <1>2 DEF ToSet
<1> QED BY <1>1, <1>3
\* What is written over the function's own code.
LEMMA LowWith ==
  ASSUME NEW c, NEW p, DOMAIN p \subseteq Near
  PROVE  /\ Low(Beside(c, p)) = Beside(Low(c), p)
         /\ DOMAIN Beside(c, p) \ Near = DOMAIN c \ Near
         /\ \A a \in DOMAIN c \ Near : Beside(c, p)[a] = c[a]
<1> DEFINE b == Beside(c, p)
<1>1. DOMAIN b = DOMAIN c \cup DOMAIN p
  BY DEF Beside
<1>2. \A a \in DOMAIN b : b[a] = IF a \in DOMAIN c THEN c[a] ELSE p[a]
  BY DEF Beside
<1>3. DOMAIN Low(c) = DOMAIN c \cap Near /\ \A a \in DOMAIN Low(c) : Low(c)[a] = c[a]
  BY DEF Low, Restrict
<1>4. DOMAIN Beside(Low(c), p) = DOMAIN b \cap Near
  BY <1>1, <1>3 DEF Beside
<1> HIDE DEF b
<1>5. \A a \in DOMAIN b \cap Near : b[a] = IF a \in DOMAIN Low(c) THEN Low(c)[a] ELSE p[a]
  BY <1>1, <1>2, <1>3
<1>6. Low(b) = [a \in DOMAIN b \cap Near |-> b[a]]
  BY DEF Low, Restrict
<1>7. Beside(Low(c), p) = [a \in DOMAIN b \cap Near |-> IF a \in DOMAIN Low(c) THEN Low(c)[a] ELSE p[a]]
  BY <1>4 DEF Beside
<1>8. Low(b) = Beside(Low(c), p)
  BY <1>5, <1>6, <1>7
<1> QED BY <1>1, <1>2, <1>8 DEF b

LEMMA HookEndKeeps ==
  ASSUME HookInv, HookEnd
  PROVE  HookInv'
<1>0. PICK h : h = patching.hook
  OBVIOUS
<1> DEFINE p == IF patching.writing = "hook" THEN Patch(arch, hook[h].length, h)
                ELSE ShortPatch(Grown(hook[h].saved, hook[h].length, arch), h)
<1>1. Shape /\ arch \in Archs /\ live \in Seq(Hooks)
  BY DEF HookInv, Shape
<1>2. Begun /\ code' = Beside(code, p) /\ live' = Append(live, h) /\ patching' = Nothing
  BY <1>0 DEF HookEnd, Begun
<1>3. arch' = arch /\ body' = body /\ hook' = hook
  BY DEF HookEnd
<1>4. h \in Hooks \ ToSet(live)
  BY <1>0, <1>1, <1>2 DEF Shape, Begun, Nothing
<1> HIDE DEF p
<1>5. /\ live' \in Seq(Hooks) /\ Len(live') = Len(live) + 1 /\ live'[Len(live) + 1] = h
      /\ \A i \in 1 .. Len(live) : live'[i] = live[i]
      /\ ToSet(live') = ToSet(live) \cup {h}
  BY <1>1, <1>2, <1>4, AppendLive
<1>6. Len(live) \in Nat /\ ToSet(live) = {live[i] : i \in 1 .. Len(live)} /\ ToSet(live) \subseteq Hooks
  BY <1>1, LiveSet
<1>7. ~ Begun' /\ Present' = Present /\ Present = ToSet(live) \cup {h}
  <2>1. ~ Begun' /\ Pending' = {} /\ Pending = {h}
    BY <1>0, <1>2 DEF Begun, Pending, Nothing
  <2> QED BY <1>5, <2>1 DEF Present
<1>8. Shape'
  <2>1. \A g \in Hooks : HookOK(g)'
    BY <1>1, <1>3 DEF Shape, HookOK
  <2>2. \A i, j \in 1 .. Len(live') : live'[i] = live'[j] => i = j
    <3>1. \A i \in 1 .. Len(live) : live'[i] # h
      BY <1>4, <1>5, <1>6
    <3>2. \A i, j \in 1 .. Len(live) : live'[i] = live'[j] => i = j
      BY <1>1, <1>5 DEF Shape
    <3>3. \A i \in 1 .. Len(live') : i \in 1 .. Len(live) \/ i = Len(live) + 1
      BY <1>5, <1>6
    <3> QED BY <1>5, <3>1, <3>2, <3>3
  <2>3. DOMAIN hook' = Hooks /\ arch' \in Archs /\ body' \in Bodies[arch']
    BY <1>1, <1>3 DEF Shape
  <2> QED BY <1>2, <1>5, <2>1, <2>2, <2>3 DEF Shape
<1>9. NoneStuck' => NoneStuck
  BY <1>3 DEF NoneStuck
<1>10. ASSUME NoneStuck
       PROVE  Kept'
  <2>1. Kept
    BY <1>10 DEF HookInv
  <2>2. PICK s, c : Layers(s) /\ c = s[Len(live)] /\ Now(c)
    BY <2>1 DEF Kept
  <2>0. PICK d : d = Beside(Low(code), p)
    OBVIOUS
  <2>3. Separate(d) /\ Over(d, c, h) /\ DOMAIN p \subseteq Near
    BY <1>0, <1>1, <1>2, <1>4, <2>0, <2>1, <2>2, NewLayer DEF p
  <2>4. /\ Low(code') = d
        /\ DOMAIN code' \ Near = DOMAIN code \ Near
        /\ \A a \in DOMAIN code \ Near : code'[a] = code[a]
    BY <1>2, <2>0, <2>3, LowWith
  <2>5. code' = [a \in DOMAIN code' |-> code'[a]] /\ DOMAIN code' \subseteq Int
    <3>1. code' = [a \in DOMAIN code' |-> code'[a]] /\ DOMAIN code' = DOMAIN code \cup DOMAIN p
      BY <1>2 DEF Beside
    <3> QED BY <2>1, <2>3, <3>1, NearNat DEF Kept
  <2>6. \A g \in Hooks : hook'[g].length \in Nat /\ hook'[g].original \in Lengths
    BY <1>3, <2>1 DEF Kept
  <2>7. Placed'
    BY <1>7, <2>1, <2>4 DEF Kept, Placed
  <2>8. ASSUME NEW g \in Present'
        PROVE  Pointed(g)'
    <3>1. g \in Hooks /\ Pointed(g) /\ SlotOf(g)' = SlotOf(g)
      BY <1>3, <1>4, <1>5, <1>6, <1>7, <2>1, <2>8, SameHook DEF Kept
    <3>2. ASSUME hook[g].original = 0
          PROVE  SlotOf(g) \in DOMAIN code \ Near /\ SlotOf(g) \in Span(Trampoline(g), Far)
      BY <3>1, <3>2, Distant DEF Pointed
    <3> QED BY <1>3, <2>4, <3>1, <3>2 DEF Pointed
  <2>9. Now(d)'
    BY <1>2, <2>4, <1>7 DEF Now, Nothing
  <2>13. PICK r : r = [i \in 0 .. Len(live) + 1 |-> IF i = Len(live) + 1 THEN d ELSE s[i]]
    OBVIOUS
  <2>10. /\ r = [i \in 0 .. Len(live) + 1 |-> r[i]] /\ r[Len(live) + 1] = d
         /\ \A i \in 0 .. Len(live) : r[i] = s[i]
    BY <1>6, <2>13
  <2>11. Layers(r)'
    <3>1. r[0] = Unhooked(body)
      BY <1>6, <2>2, <2>10 DEF Layers
    <3>2. ASSUME NEW i \in 0 .. Len(live) + 1
          PROVE  Separate(r[i])
      <4>1. i \in 0 .. Len(live) \/ i = Len(live) + 1
        BY <1>6
      <4> QED BY <2>2, <2>3, <2>10, <4>1 DEF Layers
    <3>3. ASSUME NEW i \in 1 .. Len(live) + 1, NEW g \in Hooks, g = live'[i]
          PROVE  Over(r[i], r[i - 1], g)'
      <4>0. i - 1 \in 0 .. Len(live) /\ r[i - 1] = s[i - 1]
        <5>1. i - 1 \in 0 .. Len(live)
          BY <1>6
        <5> QED BY <2>10, <5>1
      <4>1. i \in 1 .. Len(live) \/ i = Len(live) + 1
        BY <1>6
      <4>2. CASE i \in 1 .. Len(live)
        <5>1. g = live[i] /\ Over(s[i], s[i - 1], g)
          BY <1>5, <2>2, <3>3, <4>2 DEF Layers
        <5>2. r[i] = s[i] /\ r[i - 1] = s[i - 1]
          <6>1. i \in 0 .. Len(live)
            BY <1>6, <4>2
          <6> QED BY <2>10, <4>0, <6>1
        <5> QED BY <1>3, <5>1, <5>2, SameHook
      <4>3. CASE i = Len(live) + 1
        <5>1. g = h /\ r[i] = d /\ r[i - 1] = c
          <6>1. i - 1 = Len(live)
            BY <1>6, <4>3
          <6> QED BY <1>5, <2>2, <2>10, <3>3, <4>0, <4>3, <6>1
        <5> QED BY <1>3, <2>3, <5>1, SameHook
      <4> QED BY <4>1, <4>2, <4>3
    <3> QED BY <1>3, <1>5, <2>10, <3>1, <3>2, <3>3 DEF Layers
  <2>12. \E q, e : Layers(q)' /\ e = q[Len(live')] /\ Now(e)'
    BY <1>5, <2>9, <2>10, <2>11
  <2> QED BY <2>5, <2>6, <2>7, <2>8, <2>12 DEF Kept
<1> QED BY <1>8, <1>9, <1>10 DEF HookInv
-----------------------------------------------------------------------------
(***************************************************************************)
(* UnHook.                                                                 *)
(***************************************************************************)
LEMMA UnHookBeginKeeps ==
  ASSUME HookInv, NEW h \in Hooks, UnHookBegin(h)
  PROVE  HookInv'
<1>1. /\ Shape /\ patching = Nothing /\ live # <<>> /\ h = Last(live)
      /\ code' = Outside(code, Span(0, hook[h].original))
      /\ patching' = [hook |-> h, writing |-> "original"]
      /\ arch' = arch /\ body' = body /\ live' = live
  BY DEF HookInv, UnHookBegin
<1>2. /\ hook' = [hook EXCEPT ![h].stuck = hook[h].stuck \/ hook[h].original = 0]
      /\ DOMAIN hook = Hooks /\ \A g \in Hooks : HookOK(g)
  BY <1>1 DEF UnHookBegin, Shape
<1>3. /\ DOMAIN hook' = Hooks /\ \A g \in Hooks \ {h} : hook'[g] = hook[g]
      /\ hook'[h] = [hook[h] EXCEPT !.stuck = hook[h].stuck \/ hook[h].original = 0]
  BY <1>2
<1>4. /\ hook'[h].length = hook[h].length /\ hook'[h].original = hook[h].original
      /\ hook'[h].saved = hook[h].saved
      /\ hook'[h].stuck = (hook[h].stuck \/ hook[h].original = 0)
      /\ hook'[h] = [length |-> hook'[h].length, original |-> hook'[h].original,
                     saved |-> hook'[h].saved, stuck |-> hook'[h].stuck]
  <2> DEFINE r == hook[h]
  <2>1. r = [length |-> r.length, original |-> r.original, saved |-> r.saved, stuck |-> r.stuck]
    BY <1>2 DEF HookOK
  <2> HIDE DEF r
  <2>2. [r EXCEPT !.stuck = r.stuck \/ r.original = 0] =
          [length |-> r.length, original |-> r.original, saved |-> r.saved,
           stuck |-> r.stuck \/ r.original = 0]
    BY <2>1
  <2> QED BY <1>3, <2>2 DEF r
<1>5. ~ Begun /\ ~ Begun' /\ Present' = Present
  BY <1>1 DEF Begun, Present, Pending, Nothing
<1>6. Shape'
  <2>1. HookOK(h)'
    BY <1>2, <1>4 DEF HookOK
  <2>2. \A g \in Hooks : HookOK(g)'
    BY <1>2, <1>3, <2>1 DEF HookOK
  <2> QED BY <1>1, <1>3, <2>2 DEF Shape
<1>7. NoneStuck' => NoneStuck /\ hook[h].original # 0
  BY <1>3, <1>4 DEF NoneStuck
<1>8. ASSUME NoneStuck, hook[h].original # 0
      PROVE  Kept'
  <2>1. Kept
    BY <1>8 DEF HookInv
  <2>2. PICK s, c : Layers(s) /\ c = s[Len(live)] /\ Now(c)
    BY <2>1 DEF Kept
  <2>3. PICK n : n = hook[h].original
    OBVIOUS
  <2>4. n \in Lengths /\ n > 0
    <3>1. n \in Lengths /\ n # 0
      BY <1>8, <2>1, <2>3 DEF Kept
    <3> QED BY <3>1 DEF Lengths, Disassembled
  <2>5. /\ DOMAIN code' = DOMAIN code \ Span(0, n)
        /\ \A a \in DOMAIN code' : code'[a] = code[a]
        /\ code' = [a \in DOMAIN code' |-> code'[a]]
    BY <1>1, <2>3 DEF Outside, Restrict
  <2>6. Low(code') = Outside(c, Span(0, n)) /\ Span(0, n) \subseteq Near
    BY <1>1, <2>2, <2>3, <2>4, NearBytes DEF Now
  <2>7. \A g \in Hooks : /\ hook'[g].length = hook[g].length
                         /\ hook'[g].original = hook[g].original
                         /\ hook'[g].saved = hook[g].saved
    BY <1>3, <1>4
  <2>8. \A g \in Hooks : hook'[g].length \in Nat /\ hook'[g].original \in Lengths
    BY <2>1, <2>7 DEF Kept
  <2>9. \A g \in Hooks : SlotOf(g)' = SlotOf(g)
    BY <1>1, <2>7 DEF SlotOf
  <2>10. Placed'
    BY <1>5, <2>1, <2>5 DEF Kept, Placed
  <2>11. ASSUME NEW g \in Present'
         PROVE  Pointed(g)'
    <3>1. g \in Hooks /\ Pointed(g)
      <4>1. g \in ToSet(live)
        BY <1>5, <2>11 DEF Present, Pending
      <4> QED BY <1>1, <1>5, <2>1, <2>11, <4>1, LiveSet DEF Kept, Shape
    <3>2. ASSUME hook[g].original = 0
          PROVE  /\ SlotOf(g) \in Span(Trampoline(g), Far) \cap DOMAIN code'
                 /\ code'[SlotOf(g)].disp = Callback(g)
      <4>1. /\ SlotOf(g) \in Span(Trampoline(g), Far) \cap DOMAIN code
            /\ code[SlotOf(g)].disp = Callback(g)
        BY <3>1, <3>2 DEF Pointed
      <4>2. SlotOf(g) \notin Near
        BY <3>1, <4>1, Distant
      <4> QED BY <2>5, <2>6, <4>1, <4>2
    <3> QED BY <2>7, <2>9, <3>1, <3>2 DEF Pointed
  <2>12. \A g \in Hooks : \A b, d : Over(b, d, g)' = Over(b, d, g)
    <3>1. ASSUME NEW g \in Hooks, NEW b
          PROVE  Entrance(g)' = Entrance(g) /\ Undone(b, g)' = Undone(b, g)
      BY <1>1, <2>7, <2>9 DEF Entrance, Undone
    <3> QED BY <2>7, <3>1 DEF Over
  <2>13. Layers(s)'
    BY <1>1, <2>2, <2>12 DEF Layers
  <2>14. Now(c)'
    <3>1. hook'[h].original = n /\ hook'[h].original > 0
      BY <2>3, <2>4, <2>7
    <3>2. patching'.hook = h /\ patching' # Nothing
      BY <1>1 DEF Nothing
    <3> QED BY <1>5, <2>6, <3>1, <3>2 DEF Now
  <2>15. \E q, e : Layers(q)' /\ e = q[Len(live')] /\ Now(e)'
    BY <1>1, <2>2, <2>13, <2>14
  <2>16. DOMAIN code' \subseteq Int
    BY <2>1, <2>5 DEF Kept
  <2> QED BY <2>5, <2>8, <2>10, <2>11, <2>15, <2>16 DEF Kept
<1> QED BY <1>6, <1>7, <1>8 DEF HookInv
\* A hook less.
LEMMA FrontSet ==
  ASSUME live \in Seq(Hooks), live # <<>>,
         \A i, j \in 1 .. Len(live) : live[i] = live[j] => i = j
  PROVE  ToSet(Front(live)) = ToSet(live) \ {Last(live)}
<1>1. /\ Len(live) \in Nat \ {0} /\ Last(live) = live[Len(live)]
      /\ Len(Front(live)) = Len(live) - 1 /\ Front(live) \in Seq(Hooks)
      /\ \A i \in 1 .. Len(live) - 1 : Front(live)[i] = live[i]
  BY FrontLive
<1>2. DOMAIN Front(live) = 1 .. Len(live) - 1 /\ DOMAIN live = 1 .. Len(live)
  BY <1>1
<1>3. ToSet(Front(live)) = {live[i] : i \in 1 .. Len(live) - 1}
  BY <1>1, <1>2 DEF ToSet
<1>4. ToSet(live) = {live[i] : i \in 1 .. Len(live)}
  BY <1>2 DEF ToSet
<1>5. \A i \in 1 .. Len(live) : i \in 1 .. Len(live) - 1 \/ i = Len(live)
  BY <1>1
<1>6. \A i \in 1 .. Len(live) - 1 : i \in 1 .. Len(live) /\ i # Len(live) /\ Len(live) \in 1 .. Len(live)
  BY <1>1
<1> QED BY <1>1, <1>3, <1>4, <1>5, <1>6

LEMMA UnHookEndKeeps ==
  ASSUME HookInv, UnHookEnd
  PROVE  HookInv'
<1>0. PICK h : h = patching.hook
  OBVIOUS
<1>1. /\ Shape /\ patching.writing = "original" /\ live' = Front(live) /\ patching' = Nothing
      /\ code' = Beside(Outside(code, Span(Trampoline(h), Far)),
                        Inside(hook[h].saved, Span(0, hook[h].original)))
      /\ arch' = arch /\ body' = body /\ hook' = hook
  BY <1>0 DEF HookInv, UnHookEnd
<1>2. live \in Seq(Hooks) /\ live # <<>> /\ h = Last(live) /\ ~ Begun /\ ~ Begun'
  BY <1>0, <1>1 DEF Shape, Begun, Nothing
<1>3. /\ Len(live) \in Nat \ {0} /\ h = live[Len(live)] /\ h \in Hooks
      /\ live' \in Seq(Hooks) /\ Len(live') = Len(live) - 1
      /\ \A i \in 1 .. Len(live) - 1 : live'[i] = live[i]
  BY <1>1, <1>2, FrontLive
<1>4. ToSet(live') = ToSet(live) \ {h} /\ ToSet(live) \subseteq Hooks
  BY <1>1, <1>2, FrontSet, LiveSet DEF Shape
<1>5. Present = ToSet(live) /\ Present' = ToSet(live) \ {h}
  BY <1>2, <1>4 DEF Present, Pending
<1>6. Shape'
  <2>1. \A g \in Hooks : HookOK(g)'
    BY <1>1 DEF Shape, HookOK
  <2>2. \A i \in 1 .. Len(live') : i \in 1 .. Len(live) - 1 /\ i \in 1 .. Len(live)
    BY <1>3
  <2>3. \A i, j \in 1 .. Len(live') : live'[i] = live'[j] => i = j
    BY <1>1, <1>3, <2>2 DEF Shape
  <2> QED BY <1>1, <1>3, <2>1, <2>3 DEF Shape
<1>7. NoneStuck' => NoneStuck
  BY <1>1 DEF NoneStuck
<1>8. ASSUME NoneStuck
      PROVE  Kept'
  <2>1. Kept
    BY <1>8 DEF HookInv
  <2>2. PICK s, c : Layers(s) /\ c = s[Len(live)] /\ Now(c)
    BY <2>1 DEF Kept
  <2>3. PICK n : n = hook[h].original
    OBVIOUS
  <2>4. n \in Lengths /\ n > 0 /\ Low(code) = Outside(c, Span(0, n))
    BY <1>0, <1>1, <1>3, <2>1, <2>2, <2>3 DEF Kept, Now
  <2> DEFINE x == Outside(code, Span(Trampoline(h), Far))
             q == Inside(hook[h].saved, Span(0, n))
  <2>5. code' = Beside(x, q)
    BY <1>1, <2>3
  <2>6. DOMAIN q \subseteq Near
    <3>1. DOMAIN q \subseteq Span(0, n)
      BY DEF Inside, Restrict
    <3>2. Span(0, n) \subseteq Near
      BY <2>4, NearBytes
    <3> QED BY <3>1, <3>2
  <2>7. Low(x) = Low(code)
    <3>1. Span(Trampoline(h), Far) \cap Near = {}
      BY <1>3, Distant
    <3> QED BY <3>1, LowOutside
  <2>8. /\ DOMAIN x = DOMAIN code \ Span(Trampoline(h), Far)
        /\ \A a \in DOMAIN x : x[a] = code[a]
    BY DEF Outside, Restrict
  <2> HIDE DEF x, q
  <2>9. /\ Low(code') = Beside(Low(code), q)
        /\ DOMAIN code' \ Near = DOMAIN x \ Near
        /\ \A a \in DOMAIN x \ Near : code'[a] = x[a]
    BY <2>5, <2>6, <2>7, LowWith
  <2>10. code' = [a \in DOMAIN code' |-> code'[a]] /\ DOMAIN code' \subseteq Int
    <3>1. code' = [a \in DOMAIN code' |-> code'[a]] /\ DOMAIN code' = DOMAIN x \cup DOMAIN q
      BY <2>5 DEF Beside
    <3> QED BY <2>1, <2>6, <2>8, <3>1, NearNat DEF Kept
  <2>11. Over(c, s[Len(live) - 1], h)
    <3>1. Len(live) \in 1 .. Len(live)
      BY <1>3
    <3> QED BY <1>3, <2>2, <3>1 DEF Layers
  <2>12. Low(code') = s[Len(live) - 1]
    BY <2>3, <2>4, <2>9, <2>11 DEF Over, Undone, q
  <2>13. \A g \in Hooks : hook'[g].length \in Nat /\ hook'[g].original \in Lengths
    BY <1>1, <2>1 DEF Kept
  <2>14. Placed'
    <3>1. ASSUME NEW a \in DOMAIN code' \ Near
          PROVE  \E g \in Present' : a \in Span(Trampoline(g), Far)
      <4>1. a \in DOMAIN code \ Near /\ a \notin Span(Trampoline(h), Far)
        BY <2>8, <2>9, <3>1
      <4>2. PICK g \in Present : a \in Span(Trampoline(g), Far)
        BY <2>1, <4>1 DEF Kept, Placed
      <4>3. g # h
        BY <4>1, <4>2
      <4> QED BY <1>5, <4>2, <4>3
    <3> QED BY <3>1 DEF Placed
  <2>15. ASSUME NEW g \in Present'
         PROVE  Pointed(g)'
    <3>1. g \in Hooks /\ g # h /\ Pointed(g) /\ SlotOf(g)' = SlotOf(g)
      BY <1>1, <1>4, <1>5, <2>1, <2>15, SameHook DEF Kept
    <3>2. ASSUME hook[g].original = 0
          PROVE  /\ SlotOf(g) \in Span(Trampoline(g), Far) \cap DOMAIN code'
                 /\ code'[SlotOf(g)].disp = Callback(g)
      <4>1. /\ SlotOf(g) \in Span(Trampoline(g), Far) \cap DOMAIN code
            /\ code[SlotOf(g)].disp = Callback(g)
        BY <3>1, <3>2 DEF Pointed
      <4>2. SlotOf(g) \notin Near /\ SlotOf(g) \notin Span(Trampoline(h), Far)
        BY <1>3, <3>1, <4>1, Distant
      <4>3. SlotOf(g) \in DOMAIN x \ Near
        BY <2>8, <4>1, <4>2
      <4> QED BY <2>8, <2>9, <4>1, <4>3
    <3> QED BY <1>1, <3>1, <3>2 DEF Pointed
  <2>16. PICK r : r = [i \in 0 .. Len(live) - 1 |-> s[i]]
    OBVIOUS
  <2>17. /\ r = [i \in 0 .. Len(live) - 1 |-> r[i]] /\ r[Len(live) - 1] = s[Len(live) - 1]
         /\ \A i \in 0 .. Len(live) - 1 : r[i] = s[i] /\ i \in 0 .. Len(live)
         /\ \A i \in 1 .. Len(live) - 1 :
              r[i] = s[i] /\ r[i - 1] = s[i - 1] /\ i \in 1 .. Len(live)
         /\ r[0] = s[0]
    <3>1. /\ \A i \in 0 .. Len(live) - 1 : i \in 0 .. Len(live)
          /\ \A i \in 1 .. Len(live) - 1 :
               i \in 0 .. Len(live) - 1 /\ i - 1 \in 0 .. Len(live) - 1 /\ i \in 1 .. Len(live)
          /\ Len(live) - 1 \in 0 .. Len(live) - 1 /\ 0 \in 0 .. Len(live) - 1
      BY <1>3
    <3>2. \A i \in 0 .. Len(live) - 1 : r[i] = s[i]
      BY <2>16
    <3> QED BY <2>16, <3>1, <3>2
  <2>18. Layers(r)'
    <3>1. ASSUME NEW i \in 1 .. Len(live) - 1, NEW g \in Hooks, g = live'[i]
          PROVE  Over(r[i], r[i - 1], g)'
      <4>1. g = live[i] /\ r[i] = s[i] /\ r[i - 1] = s[i - 1] /\ i \in 1 .. Len(live)
        BY <1>3, <2>17, <3>1
      <4>2. Over(s[i], s[i - 1], g)
        BY <2>2, <4>1 DEF Layers
      <4> QED BY <1>1, <4>1, <4>2, SameHook
    <3>2. r[0] = Unhooked(body) /\ \A i \in 0 .. Len(live) - 1 : Separate(r[i])
      BY <2>2, <2>17 DEF Layers
    <3> QED BY <1>1, <1>3, <2>17, <3>1, <3>2 DEF Layers
  <2>19. PICK e : e = s[Len(live) - 1]
    OBVIOUS
  <2>20. Now(e)'
    BY <1>1, <1>2, <2>12, <2>19 DEF Now, Nothing
  <2>21. \E z, d : Layers(z)' /\ d = z[Len(live')] /\ Now(d)'
    BY <1>3, <2>17, <2>18, <2>19, <2>20
  <2> QED BY <2>10, <2>13, <2>14, <2>15, <2>21 DEF Kept
<1> QED BY <1>6, <1>7, <1>8 DEF HookInv

-----------------------------------------------------------------------------
(***************************************************************************)
(* What the layers are good for.                                           *)
(***************************************************************************)
LEMMA HooksKept == HookInv /\ [Next]_vars => HookInv'
<1> SUFFICES ASSUME HookInv, [Next]_vars
             PROVE  HookInv'
  OBVIOUS
<1>1. CASE UNCHANGED vars
  BY <1>1, HooksUntouched DEF vars
<1>2. CASE SetHook
  BY <1>2, HookBeginKeeps DEF SetHook
<1>3. CASE UnsetHook
  BY <1>3, UnHookBeginKeeps DEF UnsetHook
<1>4. CASE HookEnd
  BY <1>4, HookEndKeeps
<1>5. CASE UnHookEnd
  BY <1>5, UnHookEndKeeps
<1>6. ASSUME NEW t \in Threads,
             Call(t) \/ Run(t) \/ Stray(t) \/ \E h \in Hooks : RunCallback(t, h)
      PROVE  HookInv'
  <2>1. UNCHANGED <<arch, body, memory>>
    BY <1>6 DEF Call, Run, Stray, RunCallback
  <2> QED BY <2>1, HooksUntouched
<1> QED BY <1>1, <1>2, <1>3, <1>4, <1>5, <1>6 DEF Next

\* With no hook in place the function is as it was.
LEMMA NoHooks == HookInv => Restored
<1> SUFFICES ASSUME HookInv, NoneStuck, live = <<>>, patching = Nothing
             PROVE  code = Unhooked(body)
  BY DEF Restored
<1>1. Shape /\ Kept
  BY DEF HookInv
<1>2. PICK s, c : Layers(s) /\ c = s[Len(live)] /\ Now(c)
  BY <1>1 DEF Kept
<1>3. Len(live) = 0
  OBVIOUS
<1>4. Low(code) = Unhooked(body)
  BY <1>2, <1>3 DEF Layers, Now
<1>5. Present = {}
  BY <1>1, LiveSet DEF Present, Pending, Begun, Nothing, Shape
<1>6. DOMAIN code \subseteq Near
  BY <1>1, <1>5 DEF Kept, Placed
<1>7. Low(code) = code
  <2>1. DOMAIN code \cap Near = DOMAIN code
    BY <1>6
  <2>2. code = [a \in DOMAIN code |-> code[a]]
    BY <1>1 DEF Kept
  <2> QED BY <2>1, <2>2 DEF Low, Restrict
<1> QED BY <1>4, <1>7
\* UnHook, "Copy original from trampoline back to src" (PolyHook.cpp:93): whatever the
\* function, and however many hooks were put over each other, none of them a short one that
\* was taken away: with the last one gone the function is as it was, and no trampoline is left.
THEOREM FunctionRestored == Spec => []Restored
BY NoHooks, InitHooks, HooksKept, PTL DEF Spec

\* The function's entry: nothing while it is written over, otherwise the newest hook's jump.
LEMMA EntryThere ==
  ASSUME HookInv, NoneStuck
  PROVE  /\ patching # Nothing => 0 \notin DOMAIN code
         /\ patching = Nothing /\ live # <<>> =>
              0 \in DOMAIN code /\ code[0] = Entrance(live[Len(live)])
         /\ patching = Nothing => Separate(Low(code))
<1>1. Shape /\ Kept /\ live \in Seq(Hooks)
  BY DEF HookInv, Shape
<1>2. PICK s, c : Layers(s) /\ c = s[Len(live)] /\ Now(c)
  BY <1>1 DEF Kept
<1>3. Len(live) \in Nat /\ Len(live) \in 0 .. Len(live)
  BY <1>1
<1>4. patching = Nothing => Low(code) = c
  BY <1>2 DEF Now
<1>5. patching = Nothing => Separate(Low(code))
  BY <1>2, <1>3, <1>4 DEF Layers
<1>6. ASSUME patching = Nothing, live # <<>>
      PROVE  0 \in DOMAIN code /\ code[0] = Entrance(live[Len(live)])
  <2>1. PICK h \in Hooks : h = live[Len(live)] /\ Len(live) \in 1 .. Len(live)
    BY <1>1, <1>6, FrontLive
  <2>2. Over(c, s[Len(live) - 1], h)
    BY <1>2, <2>1 DEF Layers
  <2> QED BY <1>4, <1>6, <2>1, <2>2 DEF Over, Low, Restrict
<1>7. ASSUME patching # Nothing
      PROVE  0 \notin DOMAIN code
  <2>1. PICK h \in Hooks : h = patching.hook
    BY <1>1, <1>7, FrontLive DEF Shape
  <2>2. PICK k \in Nat : k > 0 /\ Low(code) = Outside(c, Span(0, k))
    <3>1. CASE patching.writing = "original"
      <4>1. hook[h].original \in Lengths /\ hook[h].original > 0
        BY <1>1, <1>2, <2>1, <3>1 DEF Now, Kept
      <4>2. hook[h].original \in Nat
        BY <4>1 DEF Lengths, Disassembled
      <4> QED BY <1>2, <2>1, <3>1, <4>1, <4>2 DEF Now
    <3>2. CASE patching.writing = "hook"
      <4>1. hook[h].length \in Nat /\ JmpSize(arch) <= hook[h].length
        BY <1>1, <1>2, <2>1, <3>2 DEF Now, Kept, Overlay, Begun
      <4>2. hook[h].length > 0
        BY <1>1, <4>1, Sizes DEF Shape
      <4> QED BY <1>2, <2>1, <3>2, <4>1, <4>2 DEF Now, Overlay, Begun
    <3>3. CASE patching.writing = "short"
      BY <1>2, <2>1, <3>3 DEF Now, Overlay, Begun
    <3> QED BY <1>1, <1>7, <3>1, <3>2, <3>3 DEF Shape, Begun
  <2>3. 0 \in Span(0, k) /\ 0 \in Near
    BY <2>2 DEF Span, Near, Far
  <2> QED BY <2>2, <2>3 DEF Low, Restrict, Outside
<1> QED BY <1>5, <1>6, <1>7

\* The jump a hook is entered by leads to its callback.
LEMMA EntranceLeads ==
  ASSUME Shape, NEW h \in Hooks, Pointed(h), hook[h].original \in Lengths,
         hook[h].original = 0 => Wrap(SlotOf(h) - 6, 32, "x64") = SlotOf(h) - 6
  PROVE  Leads(Entrance(h), 0, FALSE) = Callback(h)
<1>1. Callback(h) \in Int /\ arch \in Archs
  BY DetourAssumption DEF Callback, Shape
<1> DEFINE i == Entrance(h)
<1>2. CASE hook[h].original > 0 /\ arch = "x86"
  <2>1. i.op = "jmp" /\ i.size = 5 /\ i.disp = Callback(h) - (0 + 5)
    BY <1>2 DEF Entrance, WriteJMP, Own
  <2>2. Leads(i, 0, FALSE) = 0 + i.size + i.disp
    <3> HIDE DEF i
    <3> QED BY <2>1 DEF Leads
  <2> HIDE DEF i
  <2>3. 0 + i.size + i.disp = Callback(h)
    BY <1>1, <2>1
  <2> QED BY <2>2, <2>3 DEF i
<1>3. CASE hook[h].original > 0 /\ arch = "x64"
  <2>1. i.op = "abs" /\ i.disp = Callback(h)
    BY <1>3 DEF Entrance, WriteJMP, Own
  <2> HIDE DEF i
  <2>2. Leads(i, 0, FALSE) = i.disp
    BY <2>1 DEF Leads
  <2> QED BY <2>1, <2>2 DEF i
<1>4. CASE hook[h].original = 0
  <2>1. i.op = "ind" /\ i.size = 6 /\ i.disp = SlotOf(h) - 6
    BY <1>4 DEF Entrance, Own
  <2>2. /\ SlotOf(h) \in Span(Trampoline(h), Far) /\ SlotOf(h) \in DOMAIN code
        /\ code[SlotOf(h)].disp = Callback(h)
    BY <1>4 DEF Pointed
  <2> HIDE DEF i
  <2>3. 0 + i.size + i.disp = SlotOf(h)
    BY <2>1, <2>2, Distant
  <2>4. Leads(i, 0, FALSE) = IF 0 + i.size + i.disp \in DOMAIN code
                             THEN code[0 + i.size + i.disp].disp ELSE Lost
    BY <2>1 DEF Leads
  <2> QED BY <2>2, <2>3, <2>4 DEF i
<1>5. hook[h].original > 0 \/ hook[h].original = 0
  <2> DEFINE n == hook[h].original
  <2>1. n \in 0 .. 256
    BY DEF Lengths, Disassembled
  <2> HIDE DEF n
  <2>2. n > 0 \/ n = 0
    BY <2>1
  <2> QED BY <2>2 DEF n
<1> QED BY <1>1, <1>2, <1>3, <1>4, <1>5 DEF Archs

-----------------------------------------------------------------------------
(***************************************************************************)
(* What the hooks have copied.                                             *)
(***************************************************************************)
\* What the first of the hooks copies, and what the jump of a hook takes up.
Short     == arch = "x64" /\ CalculateLength(Unhooked(body), 16) = 0
First     == CalculateLength(Unhooked(body), IF Short THEN 6 ELSE JmpSize(arch))
EntrySize == IF Short THEN 6 ELSE JmpSize(arch)

\* h is the i-th hook in place: the first has copied the beginning of the function, each of the
\* others the jump of the one before it.
Copies(h, i) ==
  /\ hook[h].original = IF Short THEN 0 ELSE hook[h].length
  /\ i = 1 => hook[h].length = First /\ hook[h].saved = Inside(Unhooked(body), Span(0, First))
  /\ i > 1 => hook[h].length = EntrySize /\ hook[h].saved = One(0, Entrance(live[i - 1]))

\* The trampoline is what Hook built of it.
Built(h) ==
  LET b == BuildTrampoline(hook[h].saved, hook[h].length, Trampoline(h), arch)
  IN /\ \A a \in DOMAIN b : a \in DOMAIN code /\ code[a] = b[a]
     /\ \A a \in DOMAIN code \cap Span(Trampoline(h), Far) :
          a \in DOMAIN b \/ (a = SlotOf(h) /\ code[a] = Own("ptr", 8, Callback(h)))

\* What is not overwritten is the function's own.
Rest ==
  /\ \A a \in (DOMAIN code \cap Near) \ {0} :
       \/ a \in DOMAIN body /\ code[a] = Unhooked(body)[a] /\ (Present # {} => First <= a)
       \/ Present # {} /\ ~ Short /\ a < First /\ code[a] = Nop
  /\ \A a \in DOMAIN body : First <= a => a \in DOMAIN code

CopyInv ==
  NoneStuck =>
    /\ \A i \in 1 .. Len(live) : \A h \in Hooks : h = live[i] => Copies(h, i) /\ Built(h)
    /\ \A h \in Hooks : Begun /\ h = patching.hook => Copies(h, Len(live) + 1) /\ Built(h)
    /\ Present # {} => First > 0
    /\ Rest

\* The function that is hooked, as it is without hooks.
LEMMA Original ==
  ASSUME Shape
  PROVE  /\ Body(body) /\ Closed(body) /\ arch \in Archs
         /\ DOMAIN Unhooked(body) = DOMAIN body /\ DOMAIN body \subseteq Near
         /\ DOMAIN body \subseteq Nat
         /\ \A a \in DOMAIN body : Unhooked(body)[a].size = body[a].size
         /\ Separate(Unhooked(body)) /\ Low(Unhooked(body)) = Unhooked(body)
<1> DEFINE u == Unhooked(body)
<1>1. Body(body) /\ Closed(body) /\ arch \in Archs
  BY DetourAssumption DEF Shape
<1>2. /\ DOMAIN u = DOMAIN body /\ u = [a \in DOMAIN u |-> u[a]]
      /\ \A a \in DOMAIN body : u[a].size = body[a].size
  BY DEF Unhooked
<1>3. DOMAIN body \subseteq Near
  BY <1>1 DEF Body, Near
<1> HIDE DEF u
<1>4. Separate(u)
  <2>1. \A a \in DOMAIN u : u[a].size \in 1 .. 16
    BY <1>1, <1>2 DEF Body
  <2>2. \A a, q \in DOMAIN u : q < a => q + u[q].size <= a
    BY <1>1, <1>2 DEF Body
  <2> QED BY <1>2, <1>3, <2>1, <2>2 DEF Separate
<1>5. Low(u) = u
  <2>1. DOMAIN u \cap Near = DOMAIN u
    BY <1>2, <1>3
  <2> QED BY <1>2, <2>1 DEF Low, Restrict
<1> QED BY <1>1, <1>2, <1>3, <1>4, <1>5, NearNat DEF u

\* The beginning that is copied ends with an instruction.
LEMMA FirstFits ==
  ASSUME Shape
  PROVE  /\ EntrySize \in {5, 6, 16} /\ (Short => arch = "x64" /\ EntrySize = 6)
         /\ ~ Short => EntrySize = JmpSize(arch)
         /\ First \in Lengths /\ First \in 0 .. 256
         /\ First > 0 => EntrySize <= First /\ Cut(Unhooked(body), First)
<1>1. /\ EntrySize \in {5, 6, 16} /\ (Short => arch = "x64" /\ EntrySize = 6)
      /\ ~ Short => EntrySize = JmpSize(arch)
  BY Original, Sizes DEF EntrySize, Short
<1>2. First = CalculateLength(Unhooked(body), EntrySize) /\ EntrySize \in 1 .. 16
  BY <1>1 DEF First, EntrySize
<1>3. /\ First \in Lengths
      /\ First # 0 => EntrySize <= First /\ Cut(Unhooked(body), First)
  <2>1. PICK u : u = Unhooked(body)
    OBVIOUS
  <2>2. PICK e \in 1 .. 16 : e = EntrySize
    BY <1>2
  <2>3. Separate(Low(u)) /\ Low(u) = u
    BY <2>1, Original
  <2>4. First = CalculateLength(u, e)
    BY <1>2, <2>1, <2>2
  <2> QED BY <2>1, <2>2, <2>3, <2>4, LengthFits
<1>4. First \in 0 .. 256
  BY <1>3 DEF Lengths, Disassembled
<1> QED BY <1>1, <1>3, <1>4

\* Where the first instruction alone has the bytes that are needed, it is what is copied.
LEMMA LengthOfOne ==
  ASSUME NEW c, Separate(Low(c)), NEW n \in 1 .. 16, 0 \in DOMAIN c, c[0].size = n
  PROVE  CalculateLength(c, n) = n
<1> DEFINE starts == DOMAIN c \cap Span(0, Disassembled)
           ends   == {a + c[a].size : a \in starts}
           enough == {e \in ends : n <= e /\ e <= Disassembled}
<1>1. 0 \in starts /\ n <= Disassembled
  BY DEF Span, Disassembled
<1>2. n \in enough
  <2>1. 0 + c[0].size \in ends
    BY <1>1
  <2>2. 0 + c[0].size = n
    OBVIOUS
  <2> QED BY <1>1, <2>1, <2>2
<1>3. \A e \in enough : e \in Int /\ n <= e
  <2>1. \A a \in starts : a \in Int /\ c[a].size \in Int
    <3>1. \A a \in starts : a \in 0 .. 255 /\ a \in DOMAIN c \cap Near
      BY DEF Near, Span, Far, Disassembled
    <3>2. \A a \in DOMAIN c \cap Near : a \in DOMAIN Low(c) /\ Low(c)[a] = c[a]
      BY DEF Low, Restrict
    <3> QED BY <3>1, <3>2 DEF Separate
  <2>2. \A e \in ends : e \in Int
    BY <2>1
  <2> QED BY <2>2
<1>4. CalculateLength(c, n) = IF enough = {} THEN 0 ELSE Min(enough)
  BY DEF CalculateLength
<1> HIDE DEF enough
<1>5. ASSUME NEW e \in enough, \A x \in enough : e <= x
      PROVE  e = n
  <2>1. e \in Int /\ n <= e /\ e <= n /\ n \in Int
    BY <1>2, <1>3, <1>5
  <2> QED BY <2>1
<1> QED BY <1>2, <1>3, <1>4, <1>5 DEF Min

\* Where no instruction ends far enough, nothing is copied.
LEMMA LengthOfNone ==
  ASSUME NEW c, NEW n \in 1 .. 16, Separate(Low(c))
  PROVE  CalculateLength(c, n) = 0 <=>
           \A a \in DOMAIN c \cap Span(0, Disassembled) :
             ~ (n <= a + c[a].size /\ a + c[a].size <= Disassembled)
<1> DEFINE starts == DOMAIN c \cap Span(0, Disassembled)
           ends   == {a + c[a].size : a \in starts}
           enough == {e \in ends : n <= e /\ e <= Disassembled}
<1>1. CalculateLength(c, n) = IF enough = {} THEN 0 ELSE Min(enough)
  BY DEF CalculateLength
<1>2. enough = {} <=> \A a \in starts : ~ (n <= a + c[a].size /\ a + c[a].size <= Disassembled)
  OBVIOUS
<1>3. ASSUME enough # {}
      PROVE  Min(enough) # 0
  <2>1. enough \subseteq Nat
    <3>1. \A a \in starts : a \in Nat /\ c[a].size \in Nat
      <4>1. \A a \in starts : a \in 0 .. 255 /\ a \in DOMAIN c \cap Near
        BY DEF Near, Span, Far, Disassembled
      <4>2. \A a \in DOMAIN c \cap Near : a \in DOMAIN Low(c) /\ Low(c)[a] = c[a]
        BY DEF Low, Restrict
      <4> QED BY <4>1, <4>2 DEF Separate
    <3>2. \A e \in ends : e \in Nat
      BY <3>1
    <3> QED BY <3>2
  <2>2. \A e \in enough : n <= e
    OBVIOUS
  <2> HIDE DEF enough
  <2>3. \E e \in enough : \A x \in enough : e <= x
    BY <2>1, <1>3, LeastOne
  <2>4. Min(enough) \in enough
    BY <2>3 DEF Min
  <2> QED BY <2>1, <2>2, <2>4
<1> HIDE DEF enough
<1> QED BY <1>1, <1>2, <1>3

\* The jump of a hook is as long as any.
LEMMA EntranceSize ==
  ASSUME Shape, NEW h, hook[h].original = (IF Short THEN 0 ELSE hook[h].length),
         hook[h].length \in Nat \ {0}
  PROVE  Entrance(h).size = EntrySize
<1>1. arch \in Archs
  BY DEF Shape
<1>2. CASE Short
  BY <1>2 DEF Entrance, Own, EntrySize
<1>3. CASE ~ Short
  <2>1. Entrance(h) = WriteJMP(arch, 0, Callback(h))
    BY <1>3 DEF Entrance
  <2>2. WriteJMP(arch, 0, Callback(h)).size = JmpSize(arch)
    BY <1>1 DEF WriteJMP, Own, JmpSize, Archs
  <2> QED BY <1>3, <2>1, <2>2 DEF EntrySize
<1> QED BY <1>2, <1>3

\* What the next hook copies: the beginning of the function, or the jump of the newest hook.
LEMMA NextCopied ==
  ASSUME HookInv, NoneStuck, CopyInv, NEW h, NEW L, NEW S, Copied(h, L, S)
  PROVE  /\ L = (IF Short THEN 0 ELSE L + S) /\ L + S > 0 /\ (S > 0 <=> Short)
         /\ live = <<>> => L + S = First /\ SourceBytes(L + S) = Inside(Unhooked(body), Span(0, First))
         /\ live # <<>> => /\ L + S = EntrySize
                          /\ SourceBytes(L + S) = One(0, Entrance(live[Len(live)]))
<1>1. /\ patching = Nothing /\ L = CalculateLength(code, Needed(arch)) /\ L + S > 0
      /\ S = IF arch = "x64" /\ L = 0 THEN CalculateLength(code, 6) ELSE 0
  BY DEF Copied
<1>2. Shape /\ Kept /\ arch \in Archs /\ live \in Seq(Hooks)
  BY DEF HookInv, Shape
<1>3. Needed(arch) = JmpSize(arch) /\ JmpSize(arch) \in {5, 16} /\ (JmpSize(arch) = 16 <=> arch = "x64")
  BY <1>2, Sizes DEF JmpSize, Archs
<1>4. CASE live = <<>>
  <2>1. code = Unhooked(body)
    BY <1>1, <1>4, NoHooks DEF Restored
  <2>2. /\ Short <=> arch = "x64" /\ L = 0
        /\ First = IF Short THEN S ELSE L
        /\ ~ Short => S = 0
    BY <1>1, <1>3, <2>1 DEF Short, First
  <2>3. First \in 0 .. 256
    BY <1>2, FirstFits
  <2>4. L + S = First /\ L = (IF Short THEN 0 ELSE L + S) /\ (S > 0 <=> Short)
    BY <1>1, <2>2, <2>3
  <2> QED BY <1>1, <1>4, <2>1, <2>4 DEF SourceBytes
<1>5. CASE live # <<>>
  <2>1. PICK g \in Hooks : g = live[Len(live)] /\ Len(live) \in 1 .. Len(live)
    BY <1>2, <1>5, FrontLive
  <2>2. 0 \in DOMAIN code /\ code[0] = Entrance(g) /\ Separate(Low(code))
    BY <1>1, <1>5, <2>1, EntryThere
  <2>3. Copies(g, Len(live)) /\ Rest /\ First > 0
    <3>1. g \in Present
      BY <1>2, <2>1, LiveSet DEF Present
    <3> QED BY <2>1, <3>1 DEF CopyInv
  <2>4. code[0].size = EntrySize /\ EntrySize \in {5, 6, 16}
    <3>1. Len(live) = 1 \/ Len(live) > 1
      <4>1. Len(live) \in Nat \ {0}
        BY <1>2, <1>5, FrontLive
      <4> QED BY <4>1
    <3>2. EntrySize \in {5, 6, 16} /\ First \in 0 .. 256
      BY <1>2, FirstFits
    <3>3. hook[g].length \in Nat \ {0}
      BY <2>3, <3>1, <3>2 DEF Copies
    <3> QED BY <1>2, <2>2, <2>3, <3>2, <3>3, EntranceSize DEF Copies
  <2>5. L + S = EntrySize /\ L = (IF Short THEN 0 ELSE L + S) /\ (S > 0 <=> Short)
    <3>1. CASE ~ Short
      <4>1. EntrySize = Needed(arch) /\ Needed(arch) \in 1 .. 16
        BY <1>3, <3>1 DEF EntrySize
      <4>2. L = EntrySize
        BY <1>1, <2>2, <2>4, <4>1, LengthOfOne
      <4> QED BY <1>1, <2>4, <3>1, <4>2
    <3>2. CASE Short
      <4>1. arch = "x64" /\ EntrySize = 6 /\ Needed(arch) = 16 /\ 6 \in 1 .. 16 /\ 16 \in 1 .. 16
        BY <1>2, <1>3, <3>2, FirstFits
      <4>2. \A a \in DOMAIN Unhooked(body) \cap Span(0, Disassembled) :
              ~ (16 <= a + Unhooked(body)[a].size /\ a + Unhooked(body)[a].size <= Disassembled)
        <5>1. PICK u : u = Unhooked(body)
          OBVIOUS
        <5>2. Separate(Low(u)) /\ CalculateLength(u, 16) = 0
          BY <1>2, <3>2, <5>1, Original DEF Short
        <5> QED BY <4>1, <5>1, <5>2, LengthOfNone
      <4>3. ASSUME NEW a \in DOMAIN code \cap Span(0, Disassembled)
            PROVE  ~ (16 <= a + code[a].size /\ a + code[a].size <= Disassembled)
        <5>1. CASE a = 0
          BY <2>4, <4>1, <5>1
        <5>2. CASE a # 0
          <6>1. a \in (DOMAIN code \cap Near) \ {0}
            BY <5>2 DEF Span, Near, Far, Disassembled
          <6>2. a \in DOMAIN body /\ code[a] = Unhooked(body)[a]
            BY <2>3, <3>2, <6>1 DEF Rest
          <6> QED BY <1>2, <4>2, <6>2, Original
        <5> QED BY <5>1, <5>2
      <4>4. L = 0
        BY <1>1, <2>2, <4>1, <4>3, LengthOfNone
      <4>5. S = 6
        BY <1>1, <2>2, <2>4, <4>1, <4>4, LengthOfOne
      <4> QED BY <3>2, <4>1, <4>4, <4>5
    <3> QED BY <3>1, <3>2
  <2>6. SourceBytes(EntrySize) = One(0, code[0])
    <3>1. PICK k \in {5, 6, 16} : k = EntrySize
      BY <2>4
    <3>2. {a \in DOMAIN code \cap Span(0, k) : a + code[a].size - 1 \in Span(0, k)} = {0}
      <4>1. ASSUME NEW a \in DOMAIN code \cap Span(0, k), a # 0
            PROVE  FALSE
        <5>1. a \in Nat /\ a < k /\ a \in Near
          BY <4>1 DEF Span, Near, Far
        <5>4. 0 \in Near
          BY DEF Span, Near, Far
        <5>2. a \in DOMAIN Low(code) /\ 0 \in DOMAIN Low(code) /\ Low(code)[0] = code[0]
          BY <2>2, <4>1, <5>1, <5>4 DEF Low, Restrict
        <5>3. 0 + code[0].size <= a
          BY <2>2, <4>1, <5>1, <5>2 DEF Separate
        <5> QED BY <2>4, <3>1, <5>1, <5>3
      <4>2. 0 \in DOMAIN code \cap Span(0, k) /\ 0 + code[0].size - 1 \in Span(0, k)
        BY <2>2, <2>4, <3>1 DEF Span
      <4> QED BY <4>1, <4>2
    <3> QED BY <3>1, <3>2 DEF SourceBytes, Inside, Restrict, One
  <2> QED BY <1>1, <1>5, <2>1, <2>2, <2>5, <2>6
<1> QED BY <1>4, <1>5

\* No instruction of the function begins between the jump and the end of what is copied.
LEMMA NoneBetween ==
  ASSUME Shape, NEW a \in DOMAIN body, EntrySize <= a
  PROVE  First <= a
<1> DEFINE u      == Unhooked(body)
           starts == DOMAIN u \cap Span(0, Disassembled)
           ends   == {x + u[x].size : x \in starts}
           enough == {e \in ends : EntrySize <= e /\ e <= Disassembled}
<1>1. /\ First = IF enough = {} THEN 0 ELSE Min(enough)
      /\ EntrySize \in {5, 6, 16} /\ First \in 0 .. 256
  BY FirstFits DEF CalculateLength, First, EntrySize
<1>2. a \in Nat /\ a > 0
  BY <1>1, Original
<1>3. PICK p \in DOMAIN body : a = p + body[p].size
  BY <1>1, <1>2, Original DEF Body
<1>4. p \in Nat /\ body[p].size \in 1 .. 15 /\ u[p].size = body[p].size /\ p \in DOMAIN u
  BY Original DEF Body
<1>5. enough \subseteq Nat
  <2>1. \A x \in DOMAIN u : x \in Nat /\ u[x].size \in Nat
    BY Original DEF Body
  <2> QED BY <2>1
<1>6. CASE a <= Disassembled
  <2>1. p \in Span(0, Disassembled)
    BY <1>3, <1>4, <1>6 DEF Span, Disassembled
  <2>2. a \in enough
    BY <1>3, <1>4, <1>6, <2>1
  <2> HIDE DEF enough
  <2>3. \E e \in enough : \A x \in enough : e <= x
    BY <1>5, <2>2, LeastOne
  <2> QED BY <1>1, <2>2, <2>3 DEF Min
<1>7. CASE ~ (a <= Disassembled)
  BY <1>1, <1>2, <1>7 DEF Disassembled
<1> QED BY <1>6, <1>7

\* How much a hook copies, and where its trampoline ends.
LEMMA CopyBounds ==
  ASSUME Shape, First > 0, NEW h, NEW i \in Nat \ {0}, Copies(h, i)
  PROVE  /\ hook[h].length \in Lengths /\ hook[h].length \in EntrySize .. First
         /\ EntrySize \in {5, 6, 16} /\ First \in 1 .. 256
         /\ DOMAIN hook[h].saved \subseteq Span(0, hook[h].length)
         /\ DOMAIN hook[h].saved \subseteq Nat
<1>1. EntrySize \in {5, 6, 16} /\ First \in 1 .. 256 /\ EntrySize <= First
  BY FirstFits
<1>2. CASE i = 1
  <2>1. hook[h].length = First /\ hook[h].saved = Inside(Unhooked(body), Span(0, First))
    BY <1>2 DEF Copies
  <2>2. DOMAIN hook[h].saved \subseteq Span(0, First) /\ DOMAIN hook[h].saved \subseteq Nat
    BY <2>1, Original DEF Inside, Restrict
  <2> QED BY <1>1, <2>1, <2>2, FirstFits
<1>3. CASE i > 1
  <2>1. hook[h].length = EntrySize /\ DOMAIN hook[h].saved = {0}
    BY <1>3 DEF Copies, One
  <2> QED BY <1>1, <2>1 DEF Span, Lengths, Disassembled
<1> QED BY <1>2, <1>3

LEMMA GrownBounded ==
  ASSUME NEW c, NEW L \in Lengths, NEW A \in Archs
  PROVE  Grown(c, L, A) \in L .. L + 4096
BY TableBounded

\* Where in a trampoline the jump back can lie.
Extents == 1 .. 4352

LEMMA TrampolineSpan ==
  ASSUME Shape, First > 0, NEW h \in Hooks, NEW i \in Nat \ {0}, Copies(h, i),
         NEW n, n = Grown(hook[h].saved, hook[h].length, arch)
  PROVE  /\ n \in Extents
         /\ DOMAIN BuildTrampoline(hook[h].saved, hook[h].length, Trampoline(h), arch)
              \subseteq Trampoline(h) .. Trampoline(h) + n
         /\ Trampoline(h) .. Trampoline(h) + n \subseteq Span(Trampoline(h), Far)
         /\ SlotOf(h) = Trampoline(h) + n + 16 /\ SlotOf(h) \in Int
<1>1. PICK d, k : d = hook[h].saved /\ k = hook[h].length
  OBVIOUS
<1>2. k \in Lengths /\ k \in EntrySize .. First /\ DOMAIN d \subseteq Nat
      /\ EntrySize \in {5, 6, 16} /\ First \in 1 .. 256
  BY <1>1, CopyBounds
<1>3. PICK A \in Archs, T \in Nat : A = arch /\ T = Trampoline(h)
  BY Original, DetourAssumption DEF Trampoline, Far
<1>4. n = Grown(d, k, A) /\ SlotOf(h) = T + n + 16
  BY <1>1, <1>3 DEF SlotOf, Slot
<1>5. Grown(d, k, A) \in k .. k + 4096
  <2>1. k \in Lengths
    BY <1>2
  <2> QED BY <2>1, GrownBounded
<1>6. DOMAIN BuildTrampoline(d, k, T, A) \subseteq T .. T + Grown(d, k, A)
  <2>1. k \in Lengths /\ DOMAIN d \subseteq Int
    BY <1>2
  <2> QED BY <2>1, InTrampoline
<1>7. k \in 1 .. 256 /\ T \in Nat
  BY <1>2
<1>8. n \in 1 .. 4352
  <2>1. n \in k .. k + 4096
    BY <1>4, <1>5
  <2> QED BY ONLY <1>7, <2>1
<1>9. T .. T + n \subseteq Span(T, Far) /\ T + n + 16 \in Int
  BY ONLY <1>7, <1>8 DEF Span, Far
<1>10. /\ hook[h].saved = d /\ hook[h].length = k /\ Trampoline(h) = T /\ arch = A
       /\ Grown(d, k, A) = n
  BY <1>1, <1>3, <1>4
<1>11. DOMAIN BuildTrampoline(hook[h].saved, hook[h].length, Trampoline(h), arch) \subseteq T .. T + n
  BY <1>6, <1>10
<1> QED BY ONLY <1>4, <1>8, <1>9, <1>10, <1>11 DEF Extents

\* A hook is as it was, but that its jump may have been left behind.
Same(h) == /\ hook'[h].length = hook[h].length /\ hook'[h].original = hook[h].original
           /\ hook'[h].saved = hook[h].saved

LEMMA SameEntrance ==
  ASSUME NEW h, Same(h), arch' = arch
  PROVE  Entrance(h)' = Entrance(h) /\ SlotOf(h)' = SlotOf(h)
BY DEF Same, Entrance, SlotOf

LEMMA SameFunction ==
  ASSUME arch' = arch, body' = body
  PROVE  Short' = Short /\ First' = First /\ EntrySize' = EntrySize /\ Unhooked(body)' = Unhooked(body)
BY DEF Short, First, EntrySize, Unhooked

LEMMA SameCopies ==
  ASSUME NEW h, NEW i, Same(h), arch' = arch, body' = body, Copies(h, i),
         i > 1 => live'[i - 1] = live[i - 1] /\ Same(live[i - 1])
  PROVE  Copies(h, i)'
<1>1. Short' = Short /\ First' = First /\ EntrySize' = EntrySize /\ Unhooked(body)' = Unhooked(body)
  BY SameFunction
<1>2. ASSUME i > 1
      PROVE  Entrance(live[i - 1])' = Entrance(live[i - 1])
  <2>1. PICK g : g = live[i - 1]
    OBVIOUS
  <2>2. Entrance(g)' = Entrance(g) /\ live'[i - 1] = g
    BY <1>2, <2>1, SameEntrance
  <2>3. Entrance(live[i - 1])' = Entrance(g)'
    BY <2>2 DEF Entrance, SlotOf
  <2> QED BY <2>1, <2>2, <2>3
<1>3. i = 1 => hook'[h].length = First' /\ hook'[h].saved = Inside(Unhooked(body)', Span(0, First'))
  BY <1>1 DEF Copies, Same
<1>4. i > 1 => hook'[h].length = EntrySize' /\ hook'[h].saved = One(0, Entrance(live[i - 1])')
  BY <1>1, <1>2 DEF Copies, Same
<1>5. hook'[h].original = IF Short' THEN 0 ELSE hook'[h].length
  BY <1>1 DEF Copies, Same
<1> QED BY <1>3, <1>4, <1>5 DEF Copies

\* A trampoline that nobody writes.
LEMMA SameBuilt ==
  ASSUME Shape, First > 0, NEW h \in Hooks, NEW i \in Nat \ {0}, Copies(h, i), Built(h),
         Same(h), arch' = arch,
         \A a \in Span(Trampoline(h), Far) :
           /\ a \in DOMAIN code' <=> a \in DOMAIN code
           /\ a \in DOMAIN code => code'[a] = code[a]
  PROVE  Built(h)'
<1> DEFINE b == BuildTrampoline(hook[h].saved, hook[h].length, Trampoline(h), arch)
<1>1. DOMAIN b \subseteq Span(Trampoline(h), Far)
  <2>1. PICK n : n = Grown(hook[h].saved, hook[h].length, arch)
    OBVIOUS
  <2>2. DOMAIN b \subseteq Trampoline(h) .. Trampoline(h) + n
    BY <2>1, TrampolineSpan
  <2>3. Trampoline(h) .. Trampoline(h) + n \subseteq Span(Trampoline(h), Far)
    BY <2>1, TrampolineSpan
  <2> QED BY <2>2, <2>3
<1>2. b' = b /\ SlotOf(h)' = SlotOf(h)
  BY SameEntrance DEF Same
<1>3. \A a \in DOMAIN b : a \in DOMAIN code' /\ code'[a] = b[a]
  BY <1>1 DEF Built
<1>4. \A a \in DOMAIN code' \cap Span(Trampoline(h), Far) :
        a \in DOMAIN b \/ (a = SlotOf(h) /\ code'[a] = Own("ptr", 8, Callback(h)))
  BY DEF Built
<1> HIDE DEF b
<1>5. /\ \A a \in DOMAIN b' : a \in DOMAIN code' /\ code'[a] = b'[a]
      /\ \A a \in DOMAIN code' \cap Span(Trampoline(h), Far) :
           a \in DOMAIN b' \/ (a = SlotOf(h)' /\ code'[a] = Own("ptr", 8, Callback(h)))
  BY <1>2, <1>3, <1>4
<1> QED BY <1>5 DEF Built, b

\* CopyInv speaks of the hooks one by one.
LEMMA CopiesOf ==
  ASSUME CopyInv, NoneStuck, Shape, NEW i \in 1 .. Len(live)
  PROVE  /\ live[i] \in Hooks /\ Copies(live[i], i) /\ Built(live[i])
         /\ First > 0 /\ Present # {} /\ Rest /\ i \in Nat \ {0}
<1>1. Len(live) \in Nat /\ live[i] \in Hooks /\ ToSet(live) = {live[j] : j \in 1 .. Len(live)}
  BY LiveSet DEF Shape
<1>2. live[i] \in Present /\ i \in Nat \ {0}
  BY <1>1 DEF Present
<1> QED BY <1>1, <1>2 DEF CopyInv

LEMMA InitCopies == Init => CopyInv
<1> SUFFICES ASSUME Init
             PROVE  CopyInv
  OBVIOUS
<1>1. /\ arch \in Archs /\ body \in Bodies[arch] /\ code = Unhooked(body)
      /\ live = <<>> /\ patching = Nothing
  BY DEF Init
<1>2. ~ Begun /\ Present = {} /\ Len(live) = 0
  BY <1>1, LiveSet, EmptySeq DEF Begun, Nothing, Present, Pending
<1>3. DOMAIN code = DOMAIN body
  BY <1>1 DEF Unhooked
<1>4. Rest
  BY <1>1, <1>2, <1>3 DEF Rest
<1> QED BY <1>2, <1>4 DEF CopyInv

LEMMA CopiesUntouched ==
  ASSUME Shape, CopyInv, UNCHANGED <<arch, body, memory>>
  PROVE  CopyInv'
<1>1. /\ arch' = arch /\ body' = body /\ code' = code /\ hook' = hook /\ live' = live
      /\ patching' = patching
  BY DEF memory
<1> SUFFICES ASSUME NoneStuck'
             PROVE  CopyInv'
  BY DEF CopyInv
<1>2. NoneStuck /\ Present' = Present /\ Begun' = Begun
  BY <1>1 DEF NoneStuck, Present, Pending, Begun
<1>3. /\ Short' = Short /\ First' = First /\ EntrySize' = EntrySize
      /\ Unhooked(body)' = Unhooked(body) /\ \A g : Same(g)
  BY <1>1, SameFunction DEF Same
<1>4. ASSUME NEW g \in Hooks, NEW i \in Nat \ {0}, First > 0, Copies(g, i) /\ Built(g)
      PROVE  Copies(g, i)' /\ Built(g)'
  BY <1>1, <1>3, <1>4, SameCopies, SameBuilt
<1>5. \A i \in 1 .. Len(live') : \A h \in Hooks : h = live'[i] => Copies(h, i)' /\ Built(h)'
  BY <1>1, <1>2, <1>4, CopiesOf
<1>6. \A h \in Hooks : Begun' /\ h = patching'.hook => Copies(h, Len(live) + 1)' /\ Built(h)'
  <2> SUFFICES ASSUME NEW h \in Hooks, Begun, h = patching.hook
               PROVE  Copies(h, Len(live) + 1)' /\ Built(h)'
    BY <1>1, <1>2
  <2>1. h \in Present
    BY DEF Present, Pending
  <2>2. PICK m \in Nat \ {0} : m = Len(live) + 1
    BY LiveSet DEF Shape
  <2>3. First > 0 /\ Copies(h, m) /\ Built(h)
    BY <1>2, <2>1, <2>2 DEF CopyInv
  <2>4. Copies(h, m)' /\ Built(h)'
    BY <1>4, <2>3
  <2>5. Len(live') + 1 = m
    BY <1>1, <2>2
  <2> QED BY <2>4, <2>5
<1>7. Rest' /\ (Present' # {} => First' > 0)
  BY <1>1, <1>2, <1>3 DEF Rest, CopyInv
<1> QED BY <1>5, <1>6, <1>7 DEF CopyInv

\* The bytes of a trampoline stay as they are.
FarKept(g) ==
  \A a \in Span(Trampoline(g), Far) :
    /\ a \in DOMAIN code' <=> a \in DOMAIN code
    /\ a \in DOMAIN code => code'[a] = code[a]

\* Who writes the function's bytes and the trampoline of h leaves the other trampolines alone.
LEMMA FarFrame ==
  ASSUME NEW h \in Hooks, NEW g \in Hooks,
         \A a \in DOMAIN code \ Near :
           (a \in DOMAIN code' /\ code'[a] = code[a]) \/ (g # h /\ a \in Span(Trampoline(h), Far)),
         \A a \in DOMAIN code' \ Near : a \in DOMAIN code \/ (g # h /\ a \in Span(Trampoline(h), Far))
  PROVE  FarKept(g)
<1>1. \A a \in Span(Trampoline(g), Far) :
        a \notin Near /\ (a \in Span(Trampoline(h), Far) => g = h)
  BY Distant
<1> QED BY <1>1 DEF FarKept

\* The hooks in place stay as they are while another one is set or taken away.
LEMMA OthersKept ==
  ASSUME Shape, CopyInv, NoneStuck, arch' = arch, body' = body, NEW i \in 1 .. Len(live),
         \A j \in 1 .. i : live'[j] = live[j] /\ Same(live[j]), FarKept(live[i])
  PROVE  Copies(live[i], i)' /\ Built(live[i])' /\ live'[i] = live[i]
<1>1. Len(live) \in Nat
  BY LiveSet DEF Shape
<1>2. i \in 1 .. i /\ (i > 1 => i - 1 \in 1 .. i)
  BY <1>1
<1>3. PICK g \in Hooks : g = live[i]
  BY CopiesOf
<1>4. Copies(g, i) /\ Built(g) /\ First > 0 /\ i \in Nat \ {0}
  BY <1>3, CopiesOf
<1>5. live'[i] = g /\ Same(g) /\ FarKept(g)
  BY <1>2, <1>3
<1>6. i > 1 => live'[i - 1] = live[i - 1] /\ Same(live[i - 1])
  BY <1>2
<1>7. Copies(g, i)'
  BY <1>4, <1>5, <1>6, SameCopies
<1>8. Built(g)'
  BY <1>4, <1>5, SameBuilt DEF FarKept
<1>9. Copies(live[i], i)' = Copies(g, i)' /\ Built(live[i])' = Built(g)'
  BY <1>5 DEF Copies, Built, SlotOf
<1> QED BY <1>3, <1>5, <1>7, <1>8, <1>9

\* The record and the trampoline of the hook that is begun.
LEMMA BeginCopies ==
  ASSUME HookInv, CopyInv, NoneStuck, NEW h \in Hooks, NEW L, NEW S, Copied(h, L, S),
         NEW m \in Nat \ {0}, m = Len(live) + 1
  PROVE  Copies(h, m)' /\ Built(h)'
<1>1. /\ patching = Nothing /\ h \notin ToSet(live) /\ arch' = arch /\ body' = body /\ live' = live
  BY DEF Copied
<1>2. Shape /\ Kept /\ live \in Seq(Hooks)
  BY DEF HookInv, Shape
<1>3. /\ \A g \in Hooks \ {h} : hook'[g] = hook[g]
      /\ hook'[h].length = L + S /\ hook'[h].original = L /\ hook'[h].saved = SourceBytes(L + S)
      /\ Present = ToSet(live)
  BY <1>2, HookBeginShape
<1>4. /\ L = (IF Short THEN 0 ELSE L + S)
      /\ live = <<>> => L + S = First /\ SourceBytes(L + S) = Inside(Unhooked(body), Span(0, First))
      /\ live # <<>> => L + S = EntrySize /\ SourceBytes(L + S) = One(0, Entrance(live[Len(live)]))
  BY NextCopied
<1>5. Short' = Short /\ First' = First /\ EntrySize' = EntrySize /\ Unhooked(body)' = Unhooked(body)
  BY <1>1, SameFunction
<1>6. Copies(h, m)'
  <2>1. (m = 1 <=> live = <<>>) /\ (m > 1 => live # <<>> /\ m - 1 = Len(live) /\ Len(live) \in 1 .. Len(live))
    BY <1>2, LiveSet
  <2>2. ASSUME m > 1
        PROVE  Entrance(live[m - 1])' = Entrance(live[Len(live)])
    <3>1. PICK g \in Hooks : g = live[Len(live)] /\ g \in ToSet(live)
      BY <1>2, <2>1, <2>2, LiveSet
    <3>2. Same(g)
      BY <1>1, <1>3, <3>1 DEF Same
    <3>3. Entrance(g)' = Entrance(g) /\ live'[m - 1] = g
      BY <1>1, <2>1, <2>2, <3>1, <3>2, SameEntrance
    <3>4. Entrance(live[m - 1])' = Entrance(g)'
      BY <3>3 DEF Entrance, SlotOf
    <3> QED BY <3>1, <3>3, <3>4
  <2>3. m = 1 => hook'[h].length = First' /\ hook'[h].saved = Inside(Unhooked(body)', Span(0, First'))
    BY <1>3, <1>4, <1>5, <2>1
  <2>4. m > 1 => hook'[h].length = EntrySize' /\ hook'[h].saved = One(0, Entrance(live[m - 1])')
    BY <1>3, <1>4, <1>5, <2>1, <2>2
  <2>5. hook'[h].original = IF Short' THEN 0 ELSE hook'[h].length
    BY <1>3, <1>4, <1>5
  <2> QED BY <2>3, <2>4, <2>5 DEF Copies
<1>7. Built(h)'
  <2>1. Separate(Low(code))
    BY <1>1, EntryThere
  <2>2. PICK b : b = BuildTrampoline(SourceBytes(L + S), L + S, Trampoline(h), arch)
    OBVIOUS
  <2>3. /\ \A a \in DOMAIN b : a \in DOMAIN code' /\ code'[a] = b[a]
        /\ \A a \in DOMAIN code' \cap Span(Trampoline(h), Far) :
             \/ a \in DOMAIN b
             \/ /\ a = Slot(Grown(SourceBytes(L + S), L + S, arch), h)
                /\ code'[a] = Own("ptr", 8, Callback(h))
    BY <1>2, <1>3, <2>1, <2>2, HookBeginCode
  <2>4. /\ BuildTrampoline(hook'[h].saved, hook'[h].length, Trampoline(h), arch') = b
        /\ SlotOf(h)' = Slot(Grown(SourceBytes(L + S), L + S, arch), h)
    BY <1>1, <1>3, <2>2 DEF SlotOf
  <2> QED BY <2>3, <2>4 DEF Built
<1> QED BY <1>6, <1>7

LEMMA HookBeginKeepsCopies ==
  ASSUME HookInv, CopyInv, NEW h \in Hooks, HookBegin(h)
  PROVE  CopyInv'
<1>1. PICK L, S : Copied(h, L, S)
  BY HookBeginCopies
<1>2. Shape
  BY DEF HookInv
<1>3. /\ NoneStuck' => NoneStuck
      /\ \A g \in Hooks \ {h} : hook'[g] = hook[g]
      /\ Begun' /\ patching'.hook = h
      /\ Present = ToSet(live) /\ Present' = ToSet(live) \cup {h}
  BY <1>1, <1>2, HookBeginShape
<1> SUFFICES ASSUME NoneStuck'
             PROVE  CopyInv'
  BY DEF CopyInv
<1>4. NoneStuck /\ Kept
  BY <1>3 DEF HookInv
<1>5. /\ patching = Nothing /\ h \notin ToSet(live) /\ arch' = arch /\ body' = body /\ live' = live
  BY <1>1 DEF Copied
<1>6. Separate(Low(code))
  BY <1>4, <1>5, EntryThere
<1>7. PICK k : k = IF S > 0 THEN 6 ELSE L
  OBVIOUS
<1>8. /\ Low(code') = Outside(Low(code), Span(0, k))
      /\ \A a \in DOMAIN code' \ Near : a \in DOMAIN code \/ a \in Span(Trampoline(h), Far)
      /\ \A a \in DOMAIN code \ Near : a \in DOMAIN code' /\ code'[a] = code[a]
  BY <1>1, <1>2, <1>3, <1>4, <1>6, <1>7, HookBeginCode
<1>9. Short' = Short /\ First' = First /\ EntrySize' = EntrySize /\ Unhooked(body)' = Unhooked(body)
  BY <1>5, SameFunction
<1>10. /\ L = (IF Short THEN 0 ELSE L + S) /\ L + S > 0 /\ (S > 0 <=> Short)
       /\ live = <<>> => L + S = First
       /\ live # <<>> => L + S = EntrySize
  BY <1>1, <1>4, NextCopied
<1>11. EntrySize \in {5, 6, 16} /\ (Short => EntrySize = 6) /\ First \in 0 .. 256
       /\ (First > 0 => EntrySize <= First)
  BY <1>2, FirstFits
<1>12. First > 0
  <2>1. ASSUME live # <<>>
        PROVE  First > 0
    <3>1. Len(live) \in 1 .. Len(live)
      BY <1>2, <2>1, FrontLive DEF Shape
    <3> QED BY <1>2, <1>4, <3>1, CopiesOf
  <2> QED BY <1>10, <2>1
<1>13. k \in Nat /\ EntrySize <= k /\ k <= First /\ (live # <<>> => k = EntrySize)
  <2>1. CASE Short
    <3>1. k = 6
      BY <1>7, <1>10, <2>1
    <3> QED BY <1>11, <1>12, <2>1, <3>1
  <2>2. CASE ~ Short
    <3>1. k = L + S
      BY <1>7, <1>10, <2>2
    <3> QED BY <1>10, <1>11, <1>12, <3>1
  <2> QED BY <2>1, <2>2
<1>14. ASSUME NEW i \in 1 .. Len(live)
       PROVE  Copies(live[i], i)' /\ Built(live[i])' /\ live'[i] = live[i]
  <2>1. Len(live) \in Nat /\ ToSet(live) = {live[j] : j \in 1 .. Len(live)} /\ ToSet(live) \subseteq Hooks
    BY <1>2, LiveSet DEF Shape
  <2>2. \A j \in 1 .. Len(live) : live[j] \in Hooks \ {h} /\ Same(live[j])
    BY <1>3, <1>5, <2>1 DEF Same
  <2>3. \A j \in 1 .. i : j \in 1 .. Len(live)
    BY <2>1
  <2>4. FarKept(live[i])
    BY <1>8, <2>2, FarFrame
  <2> QED BY <1>2, <1>4, <1>5, <2>2, <2>3, <2>4, OthersKept
<1>15. \A i \in 1 .. Len(live') : \A g \in Hooks : g = live'[i] => Copies(g, i)' /\ Built(g)'
  <2> SUFFICES ASSUME NEW i \in 1 .. Len(live), NEW g \in Hooks, g = live'[i]
               PROVE  Copies(g, i)' /\ Built(g)'
    BY <1>5
  <2>1. Copies(live[i], i)' /\ Built(live[i])' /\ live'[i] = g
    BY <1>14
  <2> QED BY <2>1 DEF Copies, Built, SlotOf
<1>16. \A g \in Hooks : Begun' /\ g = patching'.hook => Copies(g, Len(live) + 1)' /\ Built(g)'
  <2>1. PICK m \in Nat \ {0} : m = Len(live) + 1
    BY <1>2, LiveSet DEF Shape
  <2>2. Copies(h, m)' /\ Built(h)'
    BY <1>1, <1>4, <2>1, BeginCopies
  <2>3. Len(live') + 1 = m
    BY <1>5, <2>1
  <2> QED BY <1>3, <2>2, <2>3
<1>17. Rest'
  <2>1. /\ DOMAIN code' \cap Near = (DOMAIN code \cap Near) \ Span(0, k)
        /\ \A a \in DOMAIN code' \cap Near : code'[a] = code[a]
    BY <1>8 DEF Low, Outside, Restrict
  <2>2. Rest
    <3>1. CASE live # <<>>
      <4>1. Len(live) \in 1 .. Len(live)
        BY <1>2, <3>1, FrontLive DEF Shape
      <4> QED BY <1>2, <1>4, <4>1, CopiesOf
    <3>2. CASE live = <<>>
      BY <1>4 DEF CopyInv
    <3> QED BY <3>1, <3>2
  <2>3. ASSUME NEW a \in (DOMAIN code' \cap Near) \ {0}
        PROVE  \/ a \in DOMAIN body /\ code'[a] = Unhooked(body)[a] /\ First <= a
               \/ Present' # {} /\ ~ Short /\ a < First /\ code'[a] = Nop
    <3>1. a \in (DOMAIN code \cap Near) \ {0} /\ a \notin Span(0, k) /\ code'[a] = code[a]
      BY <2>1
    <3>2. CASE a \in DOMAIN body /\ code[a] = Unhooked(body)[a]
      <4>1. a \in Nat /\ k <= a
        BY <1>13, <3>1, NearNat DEF Span
      <4>2. EntrySize <= a
        BY <1>11, <1>13, <4>1
      <4> QED BY <1>2, <3>1, <3>2, <4>2, NoneBetween
    <3>3. CASE ~ Short /\ a < First /\ code[a] = Nop
      BY <1>3, <3>1, <3>3
    <3> QED BY <2>2, <3>1, <3>2, <3>3 DEF Rest
  <2>4. ASSUME NEW a \in DOMAIN body, First <= a
        PROVE  a \in DOMAIN code'
    <3>1. a \in DOMAIN code /\ a \in Near
      BY <1>2, <2>2, <2>4, Original DEF Rest
    <3>2. a \notin Span(0, k)
      <4>1. a \in Nat
        BY <3>1, NearNat
      <4> QED BY <1>11, <1>13, <2>4, <4>1 DEF Span
    <3> QED BY <2>1, <3>1, <3>2
  <2> QED BY <1>5, <1>9, <2>3, <2>4 DEF Rest
<1> QED BY <1>9, <1>12, <1>15, <1>16, <1>17 DEF CopyInv

LEMMA HookEndKeepsCopies ==
  ASSUME HookInv, CopyInv, HookEnd
  PROVE  CopyInv'
<1>0. PICK h : h = patching.hook
  OBVIOUS
<1>1. Shape /\ live \in Seq(Hooks) /\ arch \in Archs
  BY DEF HookInv, Shape
<1>2. /\ Begun /\ live' = Append(live, h) /\ patching' = Nothing
      /\ arch' = arch /\ body' = body /\ hook' = hook
      /\ patching.writing = "hook" \/ patching.writing = "short"
  BY <1>0 DEF HookEnd, Begun
<1>3. PICK p : /\ code' = Beside(code, p)
               /\ patching.writing = "hook" => p = Patch(arch, hook[h].length, h)
               /\ patching.writing # "hook" =>
                    p = ShortPatch(Grown(hook[h].saved, hook[h].length, arch), h)
  BY <1>0 DEF HookEnd
<1>4. h \in Hooks \ ToSet(live)
  BY <1>0, <1>1, <1>2 DEF Shape, Begun, Nothing
<1> SUFFICES ASSUME NoneStuck'
             PROVE  CopyInv'
  BY DEF CopyInv
<1>5. NoneStuck /\ Kept
  BY <1>2 DEF NoneStuck, HookInv
<1>6. /\ Len(live) \in Nat /\ Len(live') = Len(live) + 1 /\ live'[Len(live) + 1] = h
      /\ \A i \in 1 .. Len(live) : live'[i] = live[i]
      /\ ToSet(live') = ToSet(live) \cup {h}
  BY <1>1, <1>2, <1>4, AppendLive
<1>7. PICK m \in Nat \ {0} : m = Len(live) + 1
  BY <1>6
<1>8. Present' = Present /\ h \in Present /\ ~ Begun'
  <2>1. Pending' = {} /\ Pending = {h} /\ ~ Begun'
    BY <1>0, <1>2 DEF Begun, Pending, Nothing
  <2> QED BY <1>6, <2>1 DEF Present
<1>9. Copies(h, m) /\ Built(h) /\ First > 0 /\ Rest
  BY <1>0, <1>2, <1>4, <1>5, <1>7, <1>8 DEF CopyInv
<1>10. /\ Short' = Short /\ First' = First /\ Unhooked(body)' = Unhooked(body)
       /\ \A g : Same(g)
  BY <1>2, SameFunction DEF Same
<1>11. hook[h].length \in Lengths /\ hook[h].length \in EntrySize .. First /\ First \in 1 .. 256
       /\ EntrySize \in {5, 6, 16}
  BY <1>1, <1>9, CopyBounds
<1>12. \A a \in DOMAIN p : a = 0 \/ (~ Short /\ a \in Near /\ a < First /\ p[a] = Nop)
  <2>1. CASE patching.writing = "hook"
    <3>1. PICK n \in Nat, J \in {5, 16} : n = hook[h].length /\ J = JmpSize(arch)
      BY <1>1, <1>5, <1>4, Sizes DEF Kept
    <3>2. ~ Short
      <4>1. PICK c : Overlay(c, h)
        BY <1>0, <1>2, <1>4, <1>5 DEF Kept, Now
      <4>2. hook[h].original = n /\ n > 0
        BY <2>1, <3>1, <4>1 DEF Overlay
      <4> QED BY <1>9, <4>2 DEF Copies
    <3>3. DOMAIN p = {0} \cup J .. n - 1 /\ \A a \in J .. n - 1 : a # 0 => p[a] = Nop
      BY <1>3, <2>1, <3>1 DEF Patch, Beside, One
    <3>4. n <= First /\ First \in 1 .. 256
      BY <1>11, <3>1
    <3>5. \A a \in J .. n - 1 : a < First /\ a \in Near /\ a # 0
      BY ONLY <3>1, <3>4 DEF Near, Span, Far
    <3> QED BY <3>2, <3>3, <3>5
  <2>2. CASE patching.writing = "short"
    <3>1. DOMAIN p = {0}
      BY <1>3, <2>2 DEF ShortPatch, One
    <3> QED BY <3>1
  <2> QED BY <1>2, <2>1, <2>2
<1>13. /\ DOMAIN code' = DOMAIN code \cup DOMAIN p
       /\ \A a \in DOMAIN code : code'[a] = code[a]
       /\ \A a \in DOMAIN p \ DOMAIN code : code'[a] = p[a]
  BY <1>3 DEF Beside
<1>14. DOMAIN p \subseteq Near
  <2>1. 0 \in Near
    BY DEF Near, Span, Far
  <2> QED BY <1>12, <2>1
<1>15. \A g \in Hooks : FarKept(g)
  <2>1. /\ \A a \in DOMAIN code \ Near : a \in DOMAIN code' /\ code'[a] = code[a]
        /\ \A a \in DOMAIN code' \ Near : a \in DOMAIN code
    BY <1>13, <1>14
  <2> QED BY <2>1, FarFrame
<1>16. ASSUME NEW i \in 1 .. Len(live)
       PROVE  Copies(live[i], i)' /\ Built(live[i])' /\ live'[i] = live[i]
  <2>1. live[i] \in Hooks
    BY <1>1, <1>5, CopiesOf
  <2>2. \A j \in 1 .. i : j \in 1 .. Len(live)
    BY <1>6
  <2> QED BY <1>1, <1>2, <1>5, <1>6, <1>10, <1>15, <2>1, <2>2, OthersKept
<1>17. Copies(h, m)' /\ Built(h)'
  <2>1. m > 1 => live'[m - 1] = live[m - 1]
    <3>1. m > 1 => m - 1 \in 1 .. Len(live)
      BY <1>6, <1>7
    <3> QED BY <1>6, <3>1
  <2>2. Copies(h, m)'
    BY <1>2, <1>9, <1>10, <2>1, SameCopies
  <2>3. Built(h)'
    BY <1>1, <1>2, <1>4, <1>9, <1>10, <1>15, SameBuilt DEF FarKept
  <2> QED BY <2>2, <2>3
<1>18. \A i \in 1 .. Len(live') : \A g \in Hooks : g = live'[i] => Copies(g, i)' /\ Built(g)'
  <2> SUFFICES ASSUME NEW i \in 1 .. m, NEW g \in Hooks, g = live'[i]
               PROVE  Copies(g, i)' /\ Built(g)'
    BY <1>6, <1>7
  <2>1. CASE i = m
    BY <1>6, <1>7, <1>17, <2>1
  <2>2. CASE i # m
    <3>1. i \in 1 .. Len(live)
      BY <1>6, <1>7, <2>2
    <3>2. Copies(live[i], i)' /\ Built(live[i])' /\ live'[i] = g
      BY <1>16, <3>1
    <3> QED BY <3>2 DEF Copies, Built, SlotOf
  <2> QED BY <2>1, <2>2
<1>19. Rest'
  <2>1. ASSUME NEW a \in (DOMAIN code' \cap Near) \ {0}
        PROVE  \/ a \in DOMAIN body /\ code'[a] = Unhooked(body)[a] /\ First <= a
               \/ ~ Short /\ a < First /\ code'[a] = Nop
    <3>1. CASE a \in DOMAIN code
      BY <1>8, <1>9, <1>13, <2>1, <3>1 DEF Rest
    <3>2. CASE a \notin DOMAIN code
      BY <1>12, <1>13, <2>1, <3>2
    <3> QED BY <3>1, <3>2
  <2>2. \A a \in DOMAIN body : First <= a => a \in DOMAIN code'
    BY <1>9, <1>13 DEF Rest
  <2>3. Present' # {}
    BY <1>8
  <2> QED BY <1>2, <1>10, <2>1, <2>2, <2>3 DEF Rest
<1> QED BY <1>8, <1>9, <1>10, <1>18, <1>19 DEF CopyInv

LEMMA UnHookBeginKeepsCopies ==
  ASSUME HookInv, CopyInv, NEW h \in Hooks, UnHookBegin(h)
  PROVE  CopyInv'
<1>1. Shape /\ live \in Seq(Hooks) /\ DOMAIN hook = Hooks /\ HookOK(h)
  BY DEF HookInv, Shape
<1>2. /\ patching = Nothing /\ live # <<>> /\ h = Last(live)
      /\ code' = Outside(code, Span(0, hook[h].original))
      /\ patching' = [hook |-> h, writing |-> "original"]
      /\ arch' = arch /\ body' = body /\ live' = live
      /\ hook' = [hook EXCEPT ![h].stuck = hook[h].stuck \/ hook[h].original = 0]
  BY DEF UnHookBegin
<1> SUFFICES ASSUME NoneStuck'
             PROVE  CopyInv'
  BY DEF CopyInv
<1>3. /\ \A g \in Hooks : Same(g)
      /\ \A g \in Hooks : hook'[g].stuck = FALSE => hook[g].stuck = FALSE
  <2>1. \A g \in Hooks \ {h} : hook'[g] = hook[g]
    BY <1>1, <1>2
  <2>2. hook'[h] = [hook[h] EXCEPT !.stuck = hook[h].stuck \/ hook[h].original = 0]
    BY <1>1, <1>2
  <2>3. Same(h) /\ hook'[h].stuck = (hook[h].stuck \/ hook[h].original = 0) /\ hook[h].stuck \in BOOLEAN
    <3>1. PICK r : r = hook[h]
      OBVIOUS
    <3>2. r = [length |-> r.length, original |-> r.original, saved |-> r.saved, stuck |-> r.stuck]
          /\ r.stuck \in BOOLEAN
      BY <1>1, <3>1 DEF HookOK
    <3>3. hook'[h] = [length |-> r.length, original |-> r.original, saved |-> r.saved,
                      stuck |-> (r.stuck \/ r.original = 0)]
      BY <2>2, <3>1, <3>2
    <3> QED BY <3>1, <3>2, <3>3 DEF Same
  <2> QED BY <2>1, <2>3 DEF Same
<1>4. NoneStuck /\ Kept
  <2>1. NoneStuck
    <3>1. \A g \in Hooks : hook'[g].stuck \in BOOLEAN /\ ~ hook'[g].stuck
      <4>1. Shape'
        BY UnHookBeginKeeps DEF HookInv
      <4> QED BY <4>1 DEF Shape, HookOK, NoneStuck
    <3> QED BY <1>3, <3>1 DEF NoneStuck
  <2> QED BY <2>1 DEF HookInv
<1>5. Len(live) \in 1 .. Len(live) /\ Len(live) \in Nat /\ h = live[Len(live)]
  BY <1>1, <1>2, FrontLive
<1>6. /\ Copies(h, Len(live)) /\ First > 0 /\ Present # {} /\ Rest /\ Len(live) \in Nat \ {0}
  BY <1>1, <1>4, <1>5, CopiesOf
<1>7. Present' = Present /\ ~ Begun'
  BY <1>2 DEF Present, Pending, Begun, Nothing
<1>8. PICK k \in Nat : k = hook[h].original /\ k <= First /\ First \in 1 .. 256
  <2>1. hook[h].length \in EntrySize .. First /\ First \in 1 .. 256 /\ EntrySize \in {5, 6, 16}
    BY <1>1, <1>6, CopyBounds
  <2>2. hook[h].original = 0 \/ hook[h].original = hook[h].length
    BY <1>6 DEF Copies
  <2> QED BY <2>1, <2>2
<1>9. DOMAIN code' = DOMAIN code \ Span(0, k) /\ \A a \in DOMAIN code' : code'[a] = code[a]
  BY <1>2, <1>8 DEF Outside, Restrict
<1>10. Span(0, k) \subseteq Near
  BY ONLY <1>8 DEF Span, Near, Far
<1>11. Short' = Short /\ First' = First /\ Unhooked(body)' = Unhooked(body)
  BY <1>2, SameFunction
<1>12. ASSUME NEW i \in 1 .. Len(live)
       PROVE  Copies(live[i], i)' /\ Built(live[i])' /\ live'[i] = live[i]
  <2>1. \A j \in 1 .. Len(live) : live[j] \in Hooks
    BY <1>1, <1>4, CopiesOf
  <2>2. \A j \in 1 .. i : j \in 1 .. Len(live)
    BY <1>5
  <2>3. FarKept(live[i])
    <3>1. /\ \A a \in DOMAIN code \ Near : a \in DOMAIN code' /\ code'[a] = code[a]
          /\ \A a \in DOMAIN code' \ Near : a \in DOMAIN code
      BY <1>9, <1>10
    <3> QED BY <2>1, <3>1, FarFrame
  <2> QED BY <1>1, <1>2, <1>3, <1>4, <2>1, <2>2, <2>3, OthersKept
<1>13. \A i \in 1 .. Len(live') : \A g \in Hooks : g = live'[i] => Copies(g, i)' /\ Built(g)'
  <2> SUFFICES ASSUME NEW i \in 1 .. Len(live), NEW g \in Hooks, g = live'[i]
               PROVE  Copies(g, i)' /\ Built(g)'
    BY <1>2
  <2>1. Copies(live[i], i)' /\ Built(live[i])' /\ live'[i] = g
    BY <1>12
  <2> QED BY <2>1 DEF Copies, Built, SlotOf
<1>14. Rest'
  <2>1. \A a \in DOMAIN body : First <= a => a \in DOMAIN code'
    <3> SUFFICES ASSUME NEW a \in DOMAIN body, First <= a
                 PROVE  a \in DOMAIN code'
      OBVIOUS
    <3>1. a \in DOMAIN code /\ a \in Nat
      BY <1>1, <1>6, Original DEF Rest
    <3>2. a \notin Span(0, k)
      BY ONLY <1>8, <3>1, First <= a DEF Span
    <3> QED BY <1>9, <3>1, <3>2
  <2> QED BY <1>2, <1>6, <1>7, <1>9, <1>11, <2>1 DEF Rest
<1> QED BY <1>6, <1>7, <1>11, <1>13, <1>14 DEF CopyInv

LEMMA UnHookEndKeepsCopies ==
  ASSUME HookInv, CopyInv, UnHookEnd
  PROVE  CopyInv'
<1>0. PICK h : h = patching.hook
  OBVIOUS
<1>1. /\ Shape /\ patching.writing = "original" /\ live' = Front(live) /\ patching' = Nothing
      /\ code' = Beside(Outside(code, Span(Trampoline(h), Far)),
                        Inside(hook[h].saved, Span(0, hook[h].original)))
      /\ arch' = arch /\ body' = body /\ hook' = hook
  BY <1>0 DEF HookInv, UnHookEnd
<1>2. live \in Seq(Hooks) /\ live # <<>> /\ h = Last(live) /\ ~ Begun /\ ~ Begun' /\ patching # Nothing
  BY <1>0, <1>1 DEF Shape, Begun, Nothing
<1>3. /\ Len(live) \in Nat \ {0} /\ h = live[Len(live)] /\ h \in Hooks
      /\ live' \in Seq(Hooks) /\ Len(live') = Len(live) - 1
      /\ \A i \in 1 .. Len(live) - 1 : live'[i] = live[i]
  BY <1>1, <1>2, FrontLive
<1>4. ToSet(live') = ToSet(live) \ {h} /\ Present' = ToSet(live')
  BY <1>1, <1>2, FrontSet DEF Shape, Present, Pending
<1> SUFFICES ASSUME NoneStuck'
             PROVE  CopyInv'
  BY DEF CopyInv
<1>5. NoneStuck /\ Kept
  BY <1>1 DEF NoneStuck, HookInv
<1>6. PICK m \in Nat \ {0} : m = Len(live) /\ m \in 1 .. Len(live)
  BY <1>3
<1>7. Copies(h, m) /\ First > 0 /\ Rest /\ Present # {}
  BY <1>1, <1>3, <1>5, <1>6, CopiesOf
<1>8. PICK n \in Lengths : /\ n = hook[h].original /\ n > 0 /\ n = hook[h].length /\ ~ Short
                           /\ n \in EntrySize .. First /\ First \in 1 .. 256
                           /\ \A a \in DOMAIN code : a \notin Span(0, n)
  <2>1. PICK c : Now(c)
    BY <1>5 DEF Kept
  <2>2. hook[h].original > 0 /\ Low(code) = Outside(c, Span(0, hook[h].original))
    BY <1>0, <1>1, <1>3, <2>1 DEF Now
  <2>3. hook[h].original \in Lengths
    BY <1>3, <1>5 DEF Kept
  <2>4. hook[h].original = hook[h].length /\ ~ Short
    BY <1>7, <2>2 DEF Copies
  <2>5. hook[h].length \in EntrySize .. First /\ First \in 1 .. 256
    BY <1>1, <1>7, CopyBounds
  <2>6. Span(0, hook[h].original) \subseteq Near
    BY <2>3, NearBytes
  <2>7. \A a \in DOMAIN code : a \notin Span(0, hook[h].original)
    <3>1. \A a \in DOMAIN Low(code) : a \notin Span(0, hook[h].original)
      BY <2>2 DEF Outside, Restrict
    <3> QED BY <2>6, <3>1 DEF Low, Restrict
  <2> QED BY <2>2, <2>3, <2>4, <2>5, <2>7
<1>9. PICK q : q = Inside(hook[h].saved, Span(0, n))
  OBVIOUS
<1>10. /\ DOMAIN q \subseteq Span(0, n) /\ DOMAIN q \subseteq DOMAIN hook[h].saved
       /\ \A a \in DOMAIN q : q[a] = hook[h].saved[a]
  BY <1>9 DEF Inside, Restrict
<1>11. Span(0, n) \subseteq Near
  BY NearBytes
<1>12. /\ DOMAIN code' = (DOMAIN code \ Span(Trampoline(h), Far)) \cup DOMAIN q
       /\ \A a \in DOMAIN code \ Span(Trampoline(h), Far) : code'[a] = code[a]
       /\ \A a \in DOMAIN q : code'[a] = q[a]
  <2>1. code' = Beside(Outside(code, Span(Trampoline(h), Far)), q)
    BY <1>1, <1>8, <1>9
  <2>2. \A a \in DOMAIN q : a \notin DOMAIN code
    BY <1>8, <1>10
  <2> QED BY <2>1, <2>2 DEF Beside, Outside, Restrict
<1>13. Short' = Short /\ First' = First /\ Unhooked(body)' = Unhooked(body) /\ \A g : Same(g)
  BY <1>1, SameFunction DEF Same
<1>14. \A a \in Span(Trampoline(h), Far) : a \notin Near
  BY <1>3, Distant
<1>15. ASSUME NEW i \in 1 .. Len(live')
       PROVE  Copies(live[i], i)' /\ Built(live[i])' /\ live'[i] = live[i]
  <2>1. i \in 1 .. Len(live) /\ i # Len(live) /\ Len(live) \in 1 .. Len(live)
    BY <1>3
  <2>2. live[i] \in Hooks /\ live[i] # h
    BY <1>1, <1>3, <1>5, <2>1, CopiesOf DEF Shape
  <2>3. \A j \in 1 .. i : j \in 1 .. Len(live) - 1
    BY <1>3
  <2>4. FarKept(live[i])
    <3>1. /\ \A a \in DOMAIN code \ Near :
               (a \in DOMAIN code' /\ code'[a] = code[a]) \/ a \in Span(Trampoline(h), Far)
          /\ \A a \in DOMAIN code' \ Near : a \in DOMAIN code
      BY <1>10, <1>11, <1>12
    <3> QED BY <1>3, <2>2, <3>1, FarFrame
  <2> QED BY <1>1, <1>3, <1>5, <1>13, <2>1, <2>3, <2>4, OthersKept
<1>16. \A i \in 1 .. Len(live') : \A g \in Hooks : g = live'[i] => Copies(g, i)' /\ Built(g)'
  <2> SUFFICES ASSUME NEW i \in 1 .. Len(live'), NEW g \in Hooks, g = live'[i]
               PROVE  Copies(g, i)' /\ Built(g)'
    OBVIOUS
  <2>1. Copies(live[i], i)' /\ Built(live[i])' /\ live'[i] = g
    BY <1>15
  <2> QED BY <2>1 DEF Copies, Built, SlotOf
<1>17. Rest'
  <2>1. ASSUME NEW a \in (DOMAIN code' \cap Near) \ {0}
        PROVE  \/ a \in DOMAIN body /\ code'[a] = Unhooked(body)[a] /\ (Present' # {} => First <= a)
               \/ Present' # {} /\ ~ Short /\ a < First /\ code'[a] = Nop
    <3>1. CASE a \in DOMAIN q
      <4>1. m = 1
        <5>1. ASSUME m > 1
              PROVE  FALSE
          <6>1. DOMAIN hook[h].saved = {0}
            BY <1>7, <5>1 DEF Copies, One
          <6> QED BY <1>10, <2>1, <3>1, <6>1
        <5> QED BY <5>1
      <4>2. Present' = {}
        <5>1. ToSet(live) = {live[i] : i \in 1 .. 1}
          BY <1>2, <1>6, <4>1, LiveSet
        <5> QED BY <1>3, <1>4, <1>6, <4>1, <5>1
      <4>3. hook[h].saved = Inside(Unhooked(body), Span(0, First))
        BY <1>7, <4>1 DEF Copies
      <4>4. a \in DOMAIN Unhooked(body) /\ hook[h].saved[a] = Unhooked(body)[a]
        BY <1>10, <3>1, <4>3 DEF Inside, Restrict
      <4> QED BY <1>1, <1>10, <1>12, <3>1, <4>2, <4>4, Original
    <3>2. CASE a \notin DOMAIN q
      <4>1. a \in (DOMAIN code \cap Near) \ {0} /\ code'[a] = code[a] /\ a \notin Span(0, n) /\ a \in Nat
        BY <1>8, <1>12, <2>1, <3>2, NearNat
      <4>2. CASE a \in DOMAIN body /\ code[a] = Unhooked(body)[a] /\ First <= a
        BY <4>1, <4>2
      <4>3. CASE a < First /\ code[a] = Nop
        <5>1. m > 1
          <6>1. ASSUME m = 1
                PROVE  FALSE
            <7>1. n = First
              BY <1>7, <1>8, <6>1 DEF Copies
            <7> QED BY <1>8, <4>1, <4>3, <7>1 DEF Span
          <6> QED BY <6>1
        <5>2. Present' # {}
          <6>1. 1 \in 1 .. Len(live) /\ Len(live) \in 1 .. Len(live) /\ Len(live) # 1
            BY <1>6, <5>1
          <6>2. live[1] \in ToSet(live) /\ live[1] # h
            BY <1>1, <1>2, <1>3, <6>1, LiveSet DEF Shape
          <6> QED BY <1>4, <6>2
        <5> QED BY <1>8, <4>1, <4>3, <5>2
      <4> QED BY <1>7, <4>1, <4>2, <4>3 DEF Rest
    <3> QED BY <3>1, <3>2
  <2>2. ASSUME NEW a \in DOMAIN body, First <= a
        PROVE  a \in DOMAIN code'
    <3>1. a \in DOMAIN code /\ a \in Near
      BY <1>1, <1>7, <2>2, Original DEF Rest
    <3> QED BY <1>12, <1>14, <3>1
  <2> QED BY <1>1, <1>13, <2>1, <2>2 DEF Rest
<1> QED BY <1>2, <1>7, <1>13, <1>16, <1>17 DEF CopyInv

\* What the trampolines hold is what the hooks have copied, at every step.
LEMMA CopiesKept == HookInv /\ CopyInv /\ [Next]_vars => CopyInv'
<1> SUFFICES ASSUME HookInv, CopyInv, [Next]_vars
             PROVE  CopyInv'
  OBVIOUS
<1>0. Shape
  BY DEF HookInv
<1>1. CASE UNCHANGED vars
  BY <1>0, <1>1, CopiesUntouched DEF vars
<1>2. CASE SetHook
  BY <1>2, HookBeginKeepsCopies DEF SetHook
<1>3. CASE UnsetHook
  BY <1>3, UnHookBeginKeepsCopies DEF UnsetHook
<1>4. CASE HookEnd
  BY <1>4, HookEndKeepsCopies
<1>5. CASE UnHookEnd
  BY <1>5, UnHookEndKeepsCopies
<1>6. ASSUME NEW t \in Threads,
             Call(t) \/ Run(t) \/ Stray(t) \/ \E h \in Hooks : RunCallback(t, h)
      PROVE  CopyInv'
  <2>1. UNCHANGED <<arch, body, memory>>
    BY <1>6 DEF Call, Run, Stray, RunCallback
  <2> QED BY <1>0, <2>1, CopiesUntouched
<1> QED BY <1>1, <1>2, <1>3, <1>4, <1>5, <1>6 DEF Next
-----------------------------------------------------------------------------
(***************************************************************************)
(* What 32 bits are enough for.                                            *)
(***************************************************************************)
\* No hook has stuck, and the operands of the function are in reach of the trampolines.
Clear == InReach(arch, body) /\ NoneStuck

LEMMA ReachKept == [Next]_vars => (InReach(arch, body)' <=> InReach(arch, body))
<1> SUFFICES ASSUME [Next]_vars
             PROVE  InReach(arch, body)' <=> InReach(arch, body)
  OBVIOUS
<1>1. arch' = arch /\ body' = body
  BY DEF Next, vars, SetHook, UnsetHook, HookBegin, UnHookBegin, HookEnd, UnHookEnd, Call, Run, Stray,
         RunCallback
<1> QED BY <1>1 DEF InReach, Beginning, Unhooked

\* A number smaller than the modulus is its own remainder.
LEMMA Remainder ==
  ASSUME NEW m \in Nat \ {0}, NEW x \in 0 .. m - 1
  PROVE  x % m = x
OBVIOUS

\* A displacement that fits is not truncated; a short one that does not still leads somewhere near.
LEMMA WrapFits ==
  ASSUME NEW n \in Int, NEW w, w # 8, NEW a, a = "x64" => n \in -Reach .. Reach - 1
  PROVE  Wrap(n, w, a) = n
<1>1. CASE a = "x64"
  <2>1. Reach \in Nat /\ 10000 <= Reach
    BY DetourAssumption DEF Far
  <2>2. PICK m \in Nat \ {0} : m = 2 * Reach
    BY <2>1
  <2>3. PICK x \in 0 .. m - 1 : x = n + Reach
    BY <1>1, <2>1, <2>2
  <2>4. x % m = x
    BY Remainder
  <2>5. Wrap(n, w, a) = (x % m) - Reach
    BY <1>1, <2>2, <2>3 DEF Wrap, Signed
  <2> QED BY ONLY <2>1, <2>3, <2>4, <2>5, n \in Int
<1>2. CASE a # "x64"
  BY <1>2 DEF Wrap
<1> QED BY <1>1, <1>2

LEMMA WrapShort ==
  ASSUME NEW n \in Int, NEW a
  PROVE  Wrap(n, 8, a) \in -128 .. 127
<1>1. PICK m \in Int : m = n + 128
  OBVIOUS
<1>2. m % 256 \in 0 .. 255
  OBVIOUS
<1>3. Wrap(n, 8, a) = (m % 256) - 128
  BY <1>1 DEF Wrap, Signed
<1> QED BY <1>2, <1>3

\* Callbacks, trampolines, and the places where a thread is in neither.
LEMMA Apart ==
  ASSUME NEW h \in Hooks
  PROVE  /\ Callback(h) \in Int /\ Callback(h) < -10 /\ Trampoline(h) \in Nat
         /\ Trampoline(h) > 9999 /\ Trampoline(h) \in Span(Trampoline(h), 5000)
         /\ Span(Trampoline(h), 5000) \subseteq Span(Trampoline(h), Far)
         /\ \A g \in Hooks : Callback(g) = Callback(h) \/ Trampoline(g) = Trampoline(h) => g = h
<1>1. PICK k \in Nat \ {0} : k = h
  BY DetourAssumption
<1>2. Callback(h) = -10 - k /\ Trampoline(h) = 10000 * k
  BY <1>1 DEF Callback, Trampoline, Far
<1>3. /\ -10 - k \in Int /\ -10 - k < -10 /\ 10000 * k \in Nat /\ 10000 * k > 9999
  BY <1>1
<1>4. PICK T \in Nat : T = Trampoline(h)
  BY <1>2, <1>3
<1>5. T \in Span(T, 5000) /\ Span(T, 5000) \subseteq Span(T, Far)
  BY ONLY <1>4 DEF Span, Far
<1>6. ASSUME NEW g \in Hooks, Callback(g) = Callback(h) \/ Trampoline(g) = Trampoline(h)
      PROVE  g = h
  <2>1. PICK m \in Nat \ {0} : m = g
    BY DetourAssumption
  <2>2. -10 - m = -10 - k \/ 10000 * m = 10000 * k
    BY <1>2, <1>6, <2>1 DEF Callback, Trampoline, Far
  <2> QED BY <1>1, <2>1, <2>2
<1> QED BY <1>2, <1>3, <1>4, <1>5, <1>6

\* InReach, of what is copied.
LEMMA CopiesReach ==
  ASSUME Shape, InReach(arch, body), NEW h \in Hooks
  PROVE  /\ Short => Trampoline(h) + Far <= Reach
         /\ \A x \in DOMAIN body : LET i == Unhooked(body)[x] IN
              arch = "x64" /\ x < First /\ Relative(i) /\ ~ Conditional(i) /\ i.width # 8
                => i.disp - Trampoline(h) \in -Reach .. Reach - 1
<1>1. PICK c : c = Unhooked(body)
  OBVIOUS
<1>2. Beginning(arch, body) = First
  <2>1. arch \in Archs /\ Needed(arch) = JmpSize(arch) /\ (arch = "x64" => JmpSize(arch) = 16)
    BY Original, Sizes DEF JmpSize
  <2> QED BY <2>1 DEF First, Short, Beginning
<1>3. Short => arch = "x64" /\ CalculateLength(Unhooked(body), Needed(arch)) = 0
  BY DEF Short, Needed, JmpSize
<1> QED BY <1>2, <1>3 DEF InReach

\* The pointer of a short hook can be reached from the function and from all the trampolines.
LEMMA SlotInReach ==
  ASSUME Shape, CopyInv, Clear, NEW i \in 1 .. Len(live), NEW g, g = live[i],
         Pointed(g), hook[g].original = 0
  PROVE  /\ Wrap(SlotOf(g) - 6, 32, "x64") = SlotOf(g) - 6
         /\ \A h \in Hooks : Wrap(SlotOf(g) - 6 - Trampoline(h), 32, arch) = SlotOf(g) - 6 - Trampoline(h)
<1>1. g \in Hooks /\ Copies(g, i) /\ First > 0 /\ i \in Nat \ {0}
  BY CopiesOf DEF Clear
<1>2. Short
  <2>1. hook[g].length = First \/ hook[g].length = EntrySize
    <3>1. i = 1 \/ i > 1
      BY <1>1
    <3> QED BY <1>1, <3>1 DEF Copies
  <2>2. hook[g].length # 0
    <3>1. EntrySize \in {5, 6, 16} /\ First \in 0 .. 256
      BY FirstFits
    <3> QED BY <1>1, <2>1, <3>1
  <2> QED BY <1>1, <2>2 DEF Copies
<1>3. Reach \in Nat
  BY DetourAssumption
<1>4. PICK S \in Int : S = SlotOf(g) /\ 10000 <= S /\ S < Reach
  <2>1. SlotOf(g) \in Span(Trampoline(g), Far)
    BY DEF Pointed
  <2>2. PICK T \in Nat : T = Trampoline(g) /\ T > 9999
    BY <1>1, Apart
  <2>3. T + 10000 <= Reach
    BY <1>1, <1>2, <2>2, CopiesReach DEF Clear, Far
  <2>4. SlotOf(g) \in T .. T + 10000 - 1
    BY <2>1, <2>2 DEF Span, Far
  <2> QED BY <1>3, <2>2, <2>3, <2>4
<1>5. Wrap(S - 6, 32, "x64") = S - 6
  <2>1. PICK n \in Int : n = S - 6 /\ n \in -Reach .. Reach - 1
    BY <1>3, <1>4
  <2> QED BY <2>1, WrapFits
<1>6. ASSUME NEW h \in Hooks
      PROVE  Wrap(S - 6 - Trampoline(h), 32, arch) = S - 6 - Trampoline(h)
  <2>1. PICK T \in Nat : T = Trampoline(h)
    BY Apart
  <2>2. T + 10000 <= Reach
    BY <1>2, <2>1, CopiesReach DEF Clear, Far
  <2>3. PICK n \in Int : n = S - 6 - T /\ n \in -Reach .. Reach - 1
    BY <1>3, <1>4, <2>2
  <2>4. Wrap(n, 32, arch) = n
    BY <2>3, WrapFits
  <2> QED BY <2>1, <2>3, <2>4
<1> QED BY <1>4, <1>5, <1>6

\* Hook and UnHook of PolyHook.cpp: however many hooks are put over each other and taken
\* away from the top, what a call of the function meets first is the callback of the newest;
\* a short function's is, when 32 bits reach from it to the trampolines.
THEOREM NewestFirst == Spec => []Diverted
<1>1. HookInv /\ CopyInv => Diverted
  <2> SUFFICES ASSUME HookInv, CopyInv, Clear, live # <<>>, patching = Nothing
               PROVE  0 \in DOMAIN code /\ Leads(code[0], 0, FALSE) = Callback(Last(live))
    BY DEF Diverted, Clear
  <2>0. NoneStuck
    BY DEF Clear
  <2>1. Shape /\ Kept /\ live \in Seq(Hooks)
    BY <2>0 DEF HookInv, Shape
  <2>2. PICK h : h = Last(live)
    OBVIOUS
  <2>3. Len(live) \in Nat \ {0} /\ h = live[Len(live)] /\ h \in Hooks
    BY <2>1, <2>2, FrontLive
  <2>4. 0 \in DOMAIN code /\ code[0] = Entrance(h)
    BY <2>0, <2>3, EntryThere
  <2>5. h \in Present
    <3>1. Len(live) \in 1 .. Len(live)
      BY <2>3
    <3> QED BY <2>1, <2>3, <3>1, LiveSet DEF Present
  <2>6. Pointed(h) /\ hook[h].original \in Lengths
    BY <2>1, <2>3, <2>5 DEF Kept
  <2>7. hook[h].original = 0 => Wrap(SlotOf(h) - 6, 32, "x64") = SlotOf(h) - 6
    BY <2>1, <2>3, <2>6, SlotInReach
  <2> QED BY <2>1, <2>2, <2>3, <2>4, <2>6, <2>7, EntranceLeads
<1> QED BY <1>1, InitHooks, HooksKept, InitCopies, CopiesKept, PTL DEF Spec
-----------------------------------------------------------------------------
(***************************************************************************)
(* Where the instructions lead.                                            *)
(***************************************************************************)
LEMMA UnhookedAt ==
  ASSUME Shape, NEW x \in DOMAIN body, NEW i, i = Unhooked(body)[x]
  PROVE  /\ i = [op |-> i.op, size |-> i.size, home |-> i.home, width |-> i.width, disp |-> i.disp]
         /\ i.op = body[x].op /\ i.size = body[x].size /\ i.home = x /\ x \in Nat
         /\ i.op \in {"plain", "call", "access", "jmp", "cond", "ret"}
         /\ i.size \in 1 .. 15 /\ i.width = (IF i.size = 2 THEN 8 ELSE 32)
         /\ i.disp \in Int /\ body[x].to \in Int
         /\ Relative(i) => i.disp = body[x].to - (x + i.size)
<1>1. Body(body) /\ Closed(body) /\ x \in Nat
  BY Original
<1>2. /\ body[x].op \in {"plain", "call", "access", "jmp", "cond", "ret"}
      /\ body[x].to \in Int /\ body[x].size \in 1 .. 15
  BY <1>1 DEF Body, Closed
<1>3. i = [op |-> body[x].op, size |-> body[x].size, home |-> x,
           width |-> IF body[x].size = 2 THEN 8 ELSE 32,
           disp |-> IF Relative(body[x]) THEN body[x].to - (x + body[x].size) ELSE 0]
  BY DEF Unhooked
<1>4. /\ i.op = body[x].op /\ i.size = body[x].size /\ i.home = x
      /\ i.width = (IF body[x].size = 2 THEN 8 ELSE 32)
      /\ i.disp = (IF Relative(body[x]) THEN body[x].to - (x + body[x].size) ELSE 0)
      /\ i = [op |-> i.op, size |-> i.size, home |-> i.home, width |-> i.width, disp |-> i.disp]
  BY <1>3
<1>5. Relative(i) <=> Relative(body[x])
  BY <1>4 DEF Relative
<1>6. i.disp \in Int
  BY <1>1, <1>2, <1>4
<1> QED BY <1>1, <1>2, <1>4, <1>5, <1>6

\* Whatever is neither a jump nor a return goes on behind it.
LEMMA FallsThrough ==
  ASSUME NEW i, NEW a, NEW taken, i.op \notin {"ret", "jmp", "abs", "ind"}, i.op = "cond" => ~ taken
  PROVE  Leads(i, a, taken) = a + i.size
BY DEF Leads

LEMMA Jumps ==
  ASSUME NEW i, NEW a, NEW taken, i.op = "jmp" \/ (i.op = "cond" /\ taken)
  PROVE  Leads(i, a, taken) = a + i.size + i.disp
BY DEF Leads

LEMMA Returns ==
  ASSUME NEW i, NEW a, NEW taken, i.op = "ret"
  PROVE  Leads(i, a, taken) = Out
BY DEF Leads

\* The function's own instructions lead to others of the function.
LEMMA BodyLeads ==
  ASSUME Shape, NEW x \in DOMAIN body, NEW taken \in BOOLEAN, NEW i, i = Unhooked(body)[x]
  PROVE  /\ i.op = "ret" => Leads(i, x, taken) = Out
         /\ i.op = "jmp" \/ (i.op = "cond" /\ taken) =>
              /\ Leads(i, x, taken) = x + i.size + i.disp
              /\ Leads(i, x, taken) = body[x].to /\ body[x].to \in DOMAIN body
         /\ i.op \notin {"ret", "jmp"} /\ (i.op = "cond" => ~ taken) =>
              Leads(i, x, taken) = x + i.size /\ x + i.size \in DOMAIN body
<1>1. /\ i.op = body[x].op /\ i.size = body[x].size /\ x \in Nat
      /\ i.op \in {"plain", "call", "access", "jmp", "cond", "ret"}
      /\ i.size \in 1 .. 15 /\ i.disp \in Int /\ body[x].to \in Int
      /\ Relative(i) => i.disp = body[x].to - (x + i.size)
  BY UnhookedAt
<1>2. /\ body[x].op \in {"jmp", "cond"} => body[x].to \in DOMAIN body
      /\ body[x].op \notin {"jmp", "ret"} => x + body[x].size \in DOMAIN body
  BY Original DEF Closed
<1>3. CASE i.op = "ret"
  BY <1>3, Returns
<1>4. CASE i.op = "jmp" \/ (i.op = "cond" /\ taken)
  <2>1. Leads(i, x, taken) = x + i.size + i.disp
    BY <1>4, Jumps
  <2>2. i.disp = body[x].to - (x + i.size)
    BY <1>1, <1>4 DEF Relative
  <2>3. x + i.size + i.disp = body[x].to
    BY ONLY <1>1, <2>2
  <2> QED BY <1>1, <1>2, <1>4, <2>1, <2>3
<1>5. CASE i.op \notin {"ret", "jmp"} /\ (i.op = "cond" => ~ taken)
  <2>1. Leads(i, x, taken) = x + i.size
    BY <1>1, <1>5, FallsThrough
  <2> QED BY <1>1, <1>2, <1>5, <2>1
<1> QED BY <1>1, <1>3, <1>4, <1>5

\* A jump that Hook writes leads where it says.
LEMMA WrittenJMP ==
  ASSUME arch \in Archs, NEW from \in Int, NEW to \in Int, NEW taken
  PROVE  /\ Leads(WriteJMP(arch, from, to), from, taken) = to
         /\ WriteJMP(arch, from, to).home = NoHome
<1> DEFINE i == WriteJMP(arch, from, to)
<1>1. CASE arch = "x86"
  <2>1. i.op = "jmp" /\ i.size = 5 /\ i.disp = to - (from + 5) /\ i.home = NoHome
    BY <1>1 DEF WriteJMP, Own
  <2> HIDE DEF i
  <2>2. Leads(i, from, taken) = from + i.size + i.disp
    BY <2>1, Jumps
  <2>3. from + i.size + i.disp = to
    BY <2>1
  <2> QED BY <2>1, <2>2, <2>3 DEF i
<1>2. CASE arch = "x64"
  <2>1. i.op = "abs" /\ i.disp = to /\ i.home = NoHome
    BY <1>2 DEF WriteJMP, Own
  <2> HIDE DEF i
  <2>2. Leads(i, from, taken) = to
    BY <2>1 DEF Leads
  <2> QED BY <2>1, <2>2 DEF i
<1> QED BY <1>1, <1>2 DEF Archs

\* The entry of a hook that is in place leads to its callback, copied or not.
LEMMA EntranceFields ==
  ASSUME Shape, NEW h \in Hooks, NEW e, e = Entrance(h), hook[h].original \in Lengths
  PROVE  /\ e = [op |-> e.op, size |-> e.size, home |-> e.home, width |-> e.width, disp |-> e.disp]
         /\ e.home = NoHome /\ e.width = 32 /\ Callback(h) \in Int
         /\ \/ e.op = "jmp" /\ e.size = 5 /\ e.disp = Callback(h) - 5
            \/ e.op = "abs" /\ e.disp = Callback(h)
            \/ /\ e.op = "ind" /\ e.size = 6 /\ hook[h].original = 0
               /\ e.disp = Wrap(SlotOf(h) - 6, 32, "x64")
<1>1. Callback(h) \in Int /\ arch \in Archs
  BY DetourAssumption DEF Callback, Shape
<1>2. hook[h].original > 0 \/ hook[h].original = 0
  <2>1. PICK n \in 0 .. 256 : n = hook[h].original
    BY DEF Lengths, Disassembled
  <2> QED BY <2>1
<1>3. CASE hook[h].original > 0 /\ arch = "x86"
  <2>1. e = Own("jmp", 5, Callback(h) - (0 + 5))
    BY <1>3 DEF Entrance, WriteJMP
  <2>2. Callback(h) - (0 + 5) = Callback(h) - 5
    BY <1>1
  <2> QED BY <1>1, <2>1, <2>2 DEF Own
<1>4. CASE hook[h].original > 0 /\ arch = "x64"
  <2>1. e = Own("abs", 16, Callback(h))
    BY <1>4 DEF Entrance, WriteJMP
  <2> QED BY <1>1, <2>1 DEF Own
<1>5. CASE hook[h].original = 0
  <2>1. e = Own("ind", 6, Wrap(SlotOf(h) - 6, 32, "x64"))
    BY <1>5 DEF Entrance
  <2> QED BY <1>1, <1>5, <2>1 DEF Own
<1> QED BY <1>1, <1>2, <1>3, <1>4, <1>5 DEF Archs

\* The trampoline of a hook over another one leads to the callback of that one.
LEMMA OlderTrampoline ==
  ASSUME HookInv, Clear, CopyInv, NEW i \in 1 .. Len(live), i > 1,
         NEW h, h = live[i], NEW g, g = live[i - 1], NEW taken
  PROVE  /\ Trampoline(h) \in DOMAIN code /\ code[Trampoline(h)].home = NoHome
         /\ Leads(code[Trampoline(h)], Trampoline(h), taken) = Callback(g)
<1>1. Shape /\ Kept /\ Len(live) \in Nat /\ NoneStuck
  BY LiveSet DEF HookInv, Shape, Clear
<1>2. i - 1 \in 1 .. Len(live)
  BY <1>1
<1>3. g \in Hooks /\ h \in Hooks /\ Copies(h, i) /\ Built(h) /\ First > 0 /\ Copies(g, i - 1) /\ i \in Nat \ {0}
  BY <1>1, <1>2, CopiesOf
<1>4. PICK e : e = Entrance(g)
  OBVIOUS
<1>5. Pointed(g) /\ hook[g].original \in Lengths
  <2>1. g \in Present
    BY <1>1, <1>2, LiveSet DEF Shape, Present
  <2> QED BY <1>1, <1>3, <2>1 DEF Kept
<1>6. /\ e = [op |-> e.op, size |-> e.size, home |-> e.home, width |-> e.width, disp |-> e.disp]
      /\ e.home = NoHome /\ e.width = 32 /\ Callback(g) \in Int
      /\ \/ e.op = "jmp" /\ e.size = 5 /\ e.disp = Callback(g) - 5
         \/ e.op = "abs" /\ e.disp = Callback(g)
         \/ e.op = "ind" /\ e.size = 6 /\ e.disp = SlotOf(g) - 6 /\ hook[g].original = 0
  <2>1. hook[g].original = 0 => Wrap(SlotOf(g) - 6, 32, "x64") = SlotOf(g) - 6
    BY <1>1, <1>2, <1>5, SlotInReach
  <2> QED BY <1>1, <1>3, <1>4, <1>5, <2>1, EntranceFields
<1>7. PICK T \in Nat : T = Trampoline(h)
  BY <1>3, DetourAssumption DEF Trampoline, Far
<1>8. hook[h].saved = One(0, e) /\ hook[h].length = EntrySize /\ EntrySize \in {5, 6, 16}
  BY <1>1, <1>3, <1>4, FirstFits DEF Copies
<1>9. PICK r : r = RelocateASM(One(0, e), EntrySize, T, arch)
  OBVIOUS
<1>10. T \in DOMAIN r /\ r[T] = IF Relative(e) THEN Relocate(e, T, arch) ELSE e
  <2>1. DOMAIN One(0, e) = {0} /\ One(0, e)[0] = e
    BY DEF One
  <2>2. 0 \in Span(0, EntrySize)
    BY <1>8 DEF Span
  <2>3. DOMAIN r = {y + T : y \in DOMAIN One(0, e) \cap Span(0, EntrySize)}
    BY <1>9 DEF RelocateASM
  <2>4. T \in DOMAIN r /\ T - T = 0 /\ 0 + T = T
    BY <1>7, <2>1, <2>2, <2>3
  <2>5. ~ Conditional(e)
    BY <1>6 DEF Conditional
  <2>6. r[T] = LET j == One(0, e)[T - T] IN
               IF Conditional(j) THEN RelocateConditionalJMP(One(0, e), EntrySize, T - T, arch)
               ELSE IF Relative(j) THEN Relocate(j, T, arch) ELSE j
    BY <1>9, <2>3, <2>4 DEF RelocateASM
  <2> QED BY <2>1, <2>4, <2>5, <2>6
<1>11. T \in DOMAIN code /\ code[T] = r[T]
  <2>1. PICK b : b = BuildTrampoline(One(0, e), EntrySize, T, arch)
    OBVIOUS
  <2>2. T \in DOMAIN b /\ b[T] = r[T]
    BY <1>9, <1>10, <2>1 DEF BuildTrampoline, Beside
  <2> QED BY <1>3, <1>7, <1>8, <2>1, <2>2 DEF Built
<1>12. CASE e.op = "abs"
  <2>1. code[T] = e
    BY <1>10, <1>11, <1>12 DEF Relative
  <2>2. Leads(e, T, taken) = e.disp
    BY <1>12 DEF Leads
  <2> QED BY <1>6, <1>7, <1>11, <1>12, <2>1, <2>2
<1>13. ASSUME e.op \in {"jmp", "ind"}, e.disp \in Int, Wrap(e.disp - T, e.width, arch) = e.disp - T
       PROVE  /\ code[T].op = e.op /\ code[T].size = e.size /\ code[T].home = NoHome
              /\ code[T].disp = e.disp - T
  <2>1. code[T] = [e EXCEPT !.disp = Wrap(e.disp - T, e.width, arch)]
    BY <1>10, <1>11, <1>13 DEF Relative, Relocate
  <2> QED BY <1>6, <1>13, <2>1
<1>14. e.op = "jmp" => arch # "x64"
  BY <1>4 DEF Entrance, WriteJMP, Own
<1>15. CASE e.op = "jmp" /\ e.size = 5 /\ e.disp = Callback(g) - 5
  <2>1. e.disp \in Int
    BY <1>6, <1>15
  <2>2. /\ code[T].op = "jmp" /\ code[T].size = 5 /\ code[T].home = NoHome
        /\ code[T].disp = Callback(g) - 5 - T
    <3>1. Wrap(e.disp - T, e.width, arch) = e.disp - T
      BY <1>6, <1>14, <1>15 DEF Wrap
    <3> QED BY <1>13, <1>15, <2>1, <3>1
  <2>3. Leads(code[T], T, taken) = T + code[T].size + code[T].disp
    BY <2>2, Jumps
  <2>4. T + 5 + (Callback(g) - 5 - T) = Callback(g)
    BY <1>6, <1>7
  <2> QED BY <1>7, <1>11, <2>2, <2>3, <2>4
<1>16. CASE e.op = "ind" /\ e.size = 6 /\ e.disp = SlotOf(g) - 6 /\ hook[g].original = 0
  <2>1. /\ SlotOf(g) \in Span(Trampoline(g), Far) /\ SlotOf(g) \in DOMAIN code
        /\ code[SlotOf(g)].disp = Callback(g)
    BY <1>5, <1>16 DEF Pointed
  <2>2. SlotOf(g) \in Int
    BY <1>3, <2>1, Distant
  <2>3. e.disp \in Int
    BY <1>16, <2>2
  <2>4. /\ code[T].op = "ind" /\ code[T].size = 6 /\ code[T].home = NoHome
        /\ code[T].disp = SlotOf(g) - 6 - T
    <3>1. Wrap(e.disp - T, e.width, arch) = e.disp - T
      BY <1>1, <1>2, <1>3, <1>5, <1>6, <1>7, <1>16, SlotInReach
    <3> QED BY <1>13, <1>16, <2>3, <3>1
  <2>5. Leads(code[T], T, taken) = IF T + code[T].size + code[T].disp \in DOMAIN code
                                   THEN code[T + code[T].size + code[T].disp].disp ELSE Lost
    BY <2>4 DEF Leads
  <2>6. T + 6 + (SlotOf(g) - 6 - T) = SlotOf(g)
    BY <1>7, <2>2
  <2> QED BY <1>7, <1>11, <2>1, <2>4, <2>5, <2>6
<1> QED BY <1>6, <1>12, <1>15, <1>16
-----------------------------------------------------------------------------
(***************************************************************************)
(* The trampoline of the first hook.                                       *)
(***************************************************************************)
\* The first hook has copied the first instructions of the function.
LEMMA SavedFirst ==
  ASSUME Shape, First > 0, NEW c, c = Inside(Unhooked(body), Span(0, First))
  PROVE  /\ DOMAIN c = {x \in DOMAIN body : x < First} /\ DOMAIN c \cap Span(0, First) = DOMAIN c
         /\ \A x \in DOMAIN c : c[x] = Unhooked(body)[x]
<1>1. PICK u : u = Unhooked(body)
  OBVIOUS
<1>2. /\ DOMAIN u = DOMAIN body /\ DOMAIN u \subseteq Nat /\ Separate(u) /\ Cut(u, First)
      /\ First \in Nat
  BY <1>1, Original, FirstFits
<1>3. c = Restrict(u, DOMAIN u \cap Span(0, First))
  <2>1. u = [a \in DOMAIN u |-> u[a]] /\ \A a \in DOMAIN u : u[a].size \in 1 .. 16
    BY <1>2 DEF Separate
  <2>2. DOMAIN u \subseteq Int
    BY <1>2
  <2> QED BY <1>1, <1>2, <2>1, <2>2, Mended
<1>4. DOMAIN c = DOMAIN u \cap Span(0, First) /\ \A x \in DOMAIN c : c[x] = u[x]
  BY <1>3 DEF Restrict
<1>5. \A x \in DOMAIN u : x \in Span(0, First) <=> x < First
  BY <1>2 DEF Span
<1> QED BY <1>1, <1>2, <1>4, <1>5

\* What there is at a copied instruction.
LEMMA CopiedAt ==
  ASSUME Shape, First > 0, NEW c, c = Inside(Unhooked(body), Span(0, First)),
         NEW T \in Nat, NEW r, r = RelocateASM(c, First, T, arch)
  PROVE  /\ \A a \in DOMAIN r : \E x \in DOMAIN body : x < First /\ a = T + x
         /\ \A x \in DOMAIN body : x < First =>
              /\ T + x \in DOMAIN r
              /\ r[T + x] = IF Conditional(Unhooked(body)[x])
                              THEN RelocateConditionalJMP(c, First, x, arch)
                            ELSE IF Relative(Unhooked(body)[x]) THEN Relocate(Unhooked(body)[x], T, arch)
                            ELSE Unhooked(body)[x]
<1>1. /\ DOMAIN c = {x \in DOMAIN body : x < First} /\ DOMAIN c \cap Span(0, First) = DOMAIN c
      /\ \A x \in DOMAIN c : c[x] = Unhooked(body)[x]
  BY SavedFirst
<1>2. DOMAIN body \subseteq Nat
  BY Original
<1>3. DOMAIN r = {b + T : b \in DOMAIN c}
  BY <1>1 DEF RelocateASM
<1>4. ASSUME NEW a \in DOMAIN r
      PROVE  \E x \in DOMAIN body : x < First /\ a = T + x
  <2>1. PICK b \in DOMAIN c : a = b + T
    BY <1>3
  <2>2. b \in DOMAIN body /\ b < First /\ b \in Nat
    BY <1>1, <1>2
  <2>3. b + T = T + b
    BY <2>2
  <2> QED BY <2>1, <2>2, <2>3
<1>5. ASSUME NEW x \in DOMAIN body, x < First
      PROVE  /\ T + x \in DOMAIN r
             /\ r[T + x] = IF Conditional(Unhooked(body)[x])
                             THEN RelocateConditionalJMP(c, First, x, arch)
                           ELSE IF Relative(Unhooked(body)[x]) THEN Relocate(Unhooked(body)[x], T, arch)
                           ELSE Unhooked(body)[x]
  <2>1. x \in Nat /\ x \in DOMAIN c
    BY <1>1, <1>2, <1>5
  <2>2. T + x = x + T /\ (x + T) - T = x
    BY <2>1
  <2>3. x + T \in DOMAIN r
    BY <1>3, <2>1
  <2>4. r[x + T] = LET j == c[(x + T) - T] IN
                   IF Conditional(j) THEN RelocateConditionalJMP(c, First, (x + T) - T, arch)
                   ELSE IF Relative(j) THEN Relocate(j, T, arch) ELSE j
    BY <1>1, <2>3 DEF RelocateASM
  <2> QED BY <1>1, <2>1, <2>2, <2>3, <2>4
<1> QED BY <1>4, <1>5

\* An entry of the jump table leads to where a conditional jump of the function does.
LEMMA TableAt ==
  ASSUME Shape, First > 0, NEW c, c = Inside(Unhooked(body), Span(0, First)),
         NEW T \in Nat, NEW d, d = JumpTable(c, First, T, arch), NEW e \in DOMAIN d, e \in Int
  PROVE  \E to \in DOMAIN body : d[e] = WriteJMP(arch, e, to)
<1> DEFINE C  == Conditionals(c, First)
           At == {b \in C : T + Entry(c, First, b, arch) = e}
<1>1. /\ DOMAIN c = {x \in DOMAIN body : x < First}
      /\ \A x \in DOMAIN c : c[x] = Unhooked(body)[x]
  BY SavedFirst
<1>2. DOMAIN d = {T + Entry(c, First, b, arch) : b \in C}
  BY DEF JumpTable
<1>3. At # {}
  <2>1. PICK b \in C : e = T + Entry(c, First, b, arch)
    <3>1. e \in {T + Entry(c, First, b, arch) : b \in C}
      BY <1>2
    <3> HIDE DEF C
    <3> QED BY <3>1
  <2>2. b \in At
    BY <2>1
  <2> QED BY <2>2
<1> DEFINE a == CHOOSE b \in C : T + Entry(c, First, b, arch) = e
<1>4. a \in C
  BY <1>3
<1>5. d[e] = WriteJMP(arch, e, a + c[a].disp + c[a].size)
  BY <1>2 DEF JumpTable
<1> HIDE DEF a
<1>6. a \in DOMAIN c /\ c[a].op = "cond"
  BY <1>4 DEF Conditionals, Conditional
<1>7. PICK i : i = Unhooked(body)[a]
  OBVIOUS
<1>8. a \in DOMAIN body /\ c[a] = i
  BY <1>1, <1>6, <1>7
<1>9. /\ i.disp \in Int /\ i.size \in 1 .. 15 /\ a \in Nat
      /\ Leads(i, a, TRUE) = a + i.size + i.disp /\ Leads(i, a, TRUE) \in DOMAIN body
  <2>1. i.op = "cond"
    BY <1>6, <1>8
  <2>2. i.disp \in Int /\ i.size \in 1 .. 15 /\ a \in Nat
    BY <1>7, <1>8, UnhookedAt
  <2>3. Leads(i, a, TRUE) = a + i.size + i.disp /\ Leads(i, a, TRUE) \in DOMAIN body
    BY <1>7, <1>8, <2>1, BodyLeads
  <2> QED BY <2>2, <2>3
<1>10. a + i.disp + i.size = a + i.size + i.disp
  BY ONLY <1>9
<1> QED BY <1>5, <1>8, <1>9, <1>10

\* Where a copied instruction leads: out of the function, to an instruction of the function, or to a
\* place near the trampoline.
NearBy(T) == T - 128 .. T + 4999

LEMMA CopyLeads ==
  ASSUME Shape, InReach(arch, body), First > 0, NEW c, c = Inside(Unhooked(body), Span(0, First)),
         NEW T \in Nat, NEW h \in Hooks, T = Trampoline(h), NEW x \in DOMAIN body, x < First, NEW i, i = Unhooked(body)[x],
         NEW k, k = (IF Conditional(i) THEN RelocateConditionalJMP(c, First, x, arch)
                     ELSE IF Relative(i) THEN Relocate(i, T, arch) ELSE i),
         NEW taken \in BOOLEAN
  PROVE  Leads(k, T + x, taken) \in {Out} \cup DOMAIN body \cup NearBy(T)
<1>1. /\ i = [op |-> i.op, size |-> i.size, home |-> i.home, width |-> i.width, disp |-> i.disp]
      /\ i.op \in {"plain", "call", "access", "jmp", "cond", "ret"}
      /\ i.size \in 1 .. 15 /\ i.disp \in Int /\ x \in Nat
  BY UnhookedAt
<1>2. First \in 1 .. 256
  BY FirstFits
<1>3. x \in 0 .. 255
  BY <1>1, <1>2
<1>4. PICK z \in 1 .. 15, m \in Int : z = i.size /\ m = i.disp
  BY <1>1
<1>5. PICK D : D = k.disp
  OBVIOUS
<1>6. x \in Int
  BY <1>3
<1>7. k.op = i.op /\ k.size = i.size
  <2>1. CASE Conditional(i)
    <3>1. c[x] = i
      BY SavedFirst
    <3>2. k = [i EXCEPT !.disp = Wrap(Entry(c, First, x, arch) - (x + i.size), i.width, arch)]
      BY <2>1, <3>1 DEF RelocateConditionalJMP
    <3> QED BY <1>1, <3>2
  <2>2. CASE ~ Conditional(i) /\ Relative(i)
    BY <1>1, <2>2 DEF Relocate
  <2>3. CASE ~ Conditional(i) /\ ~ Relative(i)
    BY <2>3
  <2> QED BY <2>1, <2>2, <2>3
<1>8. CASE i.op = "ret"
  <2>1. Leads(k, T + x, taken) = Out
    BY <1>7, <1>8, Returns
  <2> QED BY <2>1
<1>9. CASE i.op \notin {"ret", "jmp"} /\ (i.op = "cond" => ~ taken)
  <2>1. Leads(k, T + x, taken) = T + x + z
    BY <1>1, <1>7, <1>9, <1>4, FallsThrough
  <2>2. T + x + z \in NearBy(T)
    BY ONLY <1>3, T \in Nat, z \in 1 .. 15 DEF NearBy
  <2> QED BY <2>1, <2>2
<1>10. CASE i.op = "jmp"
  <2>1. k = [i EXCEPT !.disp = Wrap(i.disp - T, i.width, arch)]
    BY <1>10 DEF Relocate, Conditional, Relative
  <2>2. PICK n \in Int : n = i.disp - T
    BY <1>1
  <2>3. k.disp = Wrap(n, i.width, arch)
    BY <1>1, <2>1, <2>2
  <2>4. Leads(k, T + x, taken) = T + x + i.size + k.disp
    <3>1. k.op = "jmp" /\ k.size = i.size
      BY <1>7, <1>10
    <3>2. Leads(k, T + x, taken) = T + x + k.size + k.disp
      BY <3>1, Jumps
    <3> QED BY <3>1, <3>2
  <2>5. CASE i.width = 8
    <3>1. D \in -128 .. 127
      BY <1>5, <2>3, <2>5, WrapShort
    <3>2. T + x + z + D \in NearBy(T)
      BY ONLY <1>3, T \in Nat, z \in 1 .. 15, <3>1 DEF NearBy
    <3>3. Leads(k, T + x, taken) = T + x + z + D
      BY <1>4, <1>5, <2>4
    <3> QED BY <3>2, <3>3
  <2>6. CASE i.width # 8
    <3>1. k.disp = i.disp - T
      <4>1. arch = "x64" => n \in -Reach .. Reach - 1
        BY <1>10, <2>2, <2>6, CopiesReach DEF Relative, Conditional
      <4> QED BY <2>2, <2>3, <2>6, <4>1, WrapFits
    <3>2. T + x + i.size + k.disp = x + i.size + i.disp
      <4>1. T + x + z + (m - T) = x + z + m
        BY ONLY <1>6, T \in Nat, z \in 1 .. 15, m \in Int
      <4> QED BY <1>4, <3>1, <4>1
    <3>3. x + i.size + i.disp \in DOMAIN body
      BY <1>10, BodyLeads
    <3> QED BY <2>4, <3>2, <3>3
  <2> QED BY <2>5, <2>6
<1>11. CASE i.op = "cond" /\ taken
  <2>1. c[x] = i
    BY SavedFirst
  <2>2. PICK E : E = Entry(c, First, x, arch)
    OBVIOUS
  <2>3. E \in 0 .. 4352
    <3>1. arch \in Archs /\ First \in Lengths
      BY Original, FirstFits
    <3>2. PICK G : G = Grown(c, First, arch)
      OBVIOUS
    <3>3. G \in First .. First + 4096 /\ E \in First .. G
      BY <2>2, <3>1, <3>2, TableBounded
    <3> QED BY ONLY <1>2, <3>3
  <2>4. E - (x + z) \in Int
    BY ONLY <1>6, z \in 1 .. 15, <2>3
  <2>5. PICK n \in Int : n = E - (x + z)
    BY ONLY <2>4
  <2>6. k = [i EXCEPT !.disp = Wrap(n, i.width, arch)]
    BY <1>11, <1>4, <2>1, <2>2, <2>5 DEF RelocateConditionalJMP, Conditional
  <2>7. k.disp = Wrap(n, i.width, arch)
    BY <1>1, <2>6
  <2>8. Leads(k, T + x, taken) = T + x + z + D
    BY <1>4, <1>7, <1>11, <1>5, Jumps
  <2>9. D \in -128 .. 127 \/ D = E - (x + z)
    <3>1. n \in -Reach .. Reach - 1
      <4>1. Reach \in Nat /\ 10000 <= Reach
        BY DetourAssumption DEF Far
      <4>2. PICK R \in Nat : R = Reach /\ 10000 <= R
        BY <4>1
      <4>3. -1000 <= n /\ n < 5000
        <5>1. PICK e \in 0 .. 4352 : e = E
          BY ONLY <2>3
        <5>2. PICK y \in 0 .. 255 : y = x
          BY ONLY <1>3
        <5>3. n = e - (y + z)
          BY ONLY <2>5, <5>1, <5>2
        <5> QED BY ONLY <5>3, e \in 0 .. 4352, y \in 0 .. 255, z \in 1 .. 15
      <4>4. n \in -R .. R - 1
        BY ONLY <4>2, <4>3, n \in Int
      <4> QED BY <4>2, <4>4
    <3>2. CASE i.width = 8
      BY <1>5, <2>7, <3>2, WrapShort
    <3>3. CASE i.width # 8
      <4>1. Wrap(n, i.width, arch) = n
        BY <3>1, <3>3, WrapFits
      <4> QED BY <1>5, <2>5, <2>7, <4>1
    <3> QED BY <3>2, <3>3
  <2>10. T + x + z + D \in NearBy(T)
    <3>1. CASE D \in -128 .. 127
      BY ONLY <1>3, <3>1, T \in Nat, z \in 1 .. 15 DEF NearBy
    <3>2. CASE D = E - (x + z)
      <4>1. T + x + z + (E - (x + z)) = T + E /\ T + E \in NearBy(T)
        BY ONLY <1>3, <2>3, T \in Nat, z \in 1 .. 15 DEF NearBy
      <4> QED BY <3>2, <4>1
    <3> QED BY <2>9, <3>1, <3>2
  <2> QED BY <2>8, <2>10
<1> QED BY <1>1, <1>8, <1>9, <1>10, <1>11

\* A place from where a thread meets no callback but through the entry of the function.
Loose(a) ==
  \/ a \in {Out, Lost}
  \/ /\ a \in Nat
     /\ \A h \in Hooks : a \in Span(Trampoline(h), 5000) => live # <<>> /\ h = live[1]

LEMMA LooseNear ==
  ASSUME NEW a \in Near
  PROVE  Loose(a)
<1>1. a \in Nat
  BY NearNat
<1>2. ASSUME NEW h \in Hooks, a \in Span(Trampoline(h), 5000)
      PROVE  FALSE
  <2>1. a \in Span(Trampoline(h), Far)
    BY <1>2, Apart
  <2> QED BY <2>1, Distant
<1> QED BY <1>1, <1>2 DEF Loose

LEMMA LooseNearBy ==
  ASSUME NEW h \in Hooks, live # <<>>, h = live[1], NEW a \in NearBy(Trampoline(h))
  PROVE  Loose(a)
<1>1. PICK k \in Nat \ {0} : k = h
  BY DetourAssumption
<1>2. a \in 10000 * k - 128 .. 10000 * k + 4999
  BY <1>1 DEF NearBy, Trampoline, Far
<1>3. PICK b \in Int : b = a
  <2>1. 10000 * k - 128 \in Int /\ 10000 * k + 4999 \in Int
    BY <1>1
  <2> QED BY <1>2, <2>1
<1>4. 10000 * k - 128 <= b /\ b <= 10000 * k + 4999
  <2>1. b \in 10000 * k - 128 .. 10000 * k + 4999
    BY <1>2, <1>3
  <2> QED BY ONLY <2>1, k \in Nat \ {0}, b \in Int
<1>5. b \in Nat
  BY ONLY <1>4, k \in Nat \ {0}, b \in Int
<1>6. ASSUME NEW g \in Hooks, a \in Span(Trampoline(g), 5000)
      PROVE  g = h
  <2>1. PICK m \in Nat \ {0} : m = g
    BY DetourAssumption
  <2>2. b \in 10000 * m .. 10000 * m + 5000 - 1
    BY <1>3, <1>6, <2>1 DEF Span, Trampoline, Far
  <2>3. 10000 * m <= b /\ b < 10000 * m + 5000
    BY ONLY <2>2, b \in Int, m \in Nat \ {0}
  <2>4. m = k
    BY ONLY <1>4, <2>3, k \in Nat \ {0}, m \in Nat \ {0}, b \in Int
  <2> QED BY <1>1, <2>1, <2>4
<1> QED BY <1>3, <1>5, <1>6 DEF Loose

\* Trampolines take up no more than the first half of their place.
LEMMA InnerSpan ==
  ASSUME Shape, First > 0, NEW h \in Hooks, NEW i \in Nat \ {0}, Copies(h, i), Built(h),
         NEW a \in DOMAIN code \cap Span(Trampoline(h), Far)
  PROVE  a \in Trampoline(h) .. Trampoline(h) + 4400 /\ a \in Span(Trampoline(h), 5000)
<1>1. PICK n \in Extents : n = Grown(hook[h].saved, hook[h].length, arch)
  <2>1. PICK m : m = Grown(hook[h].saved, hook[h].length, arch)
    OBVIOUS
  <2>2. m \in Extents
    BY <2>1, TrampolineSpan
  <2> QED BY <2>1, <2>2
<1>2. PICK T \in Nat : T = Trampoline(h)
  BY Apart
<1>3. PICK b : b = BuildTrampoline(hook[h].saved, hook[h].length, Trampoline(h), arch)
  OBVIOUS
<1>4. /\ n \in 1 .. 4352 /\ DOMAIN b \subseteq T .. T + n /\ SlotOf(h) = T + n + 16
  <2>1. n \in Extents
    BY <1>1, TrampolineSpan
  <2>2. DOMAIN BuildTrampoline(hook[h].saved, hook[h].length, Trampoline(h), arch)
          \subseteq Trampoline(h) .. Trampoline(h) + n
    BY <1>1, TrampolineSpan
  <2>3. SlotOf(h) = Trampoline(h) + n + 16
    BY <1>1, TrampolineSpan
  <2> QED BY <1>2, <1>3, <2>1, <2>2, <2>3 DEF Extents
<1>5. a \in DOMAIN b \/ a = SlotOf(h)
  BY <1>3 DEF Built
<1>6. a \in T .. T + n \/ a = T + n + 16
  BY <1>4, <1>5
<1>7. a \in T .. T + 4400
  <2>1. CASE a \in T .. T + n
    <3>1. T .. T + n \subseteq T .. T + 4400
      BY ONLY n \in Extents, T \in Nat DEF Extents
    <3> QED BY <2>1, <3>1
  <2>2. CASE a = T + n + 16
    BY ONLY <2>2, n \in Extents, T \in Nat DEF Extents
  <2> QED BY <1>6, <2>1, <2>2
<1>8. T .. T + 4400 \subseteq Span(T, 5000)
  BY ONLY T \in Nat DEF Span
<1> QED BY <1>2, <1>7, <1>8

\* The instructions of the first trampoline lead out of the function, into it, or not far from the trampoline.
LEMMA FirstLeads ==
  ASSUME Shape, Clear, CopyInv, live # <<>>, NEW h, h = live[1],
         NEW a \in DOMAIN code \cap Span(Trampoline(h), Far), NEW taken \in BOOLEAN
  PROVE  Leads(code[a], a, taken) \in {Out} \cup Near \cup NearBy(Trampoline(h))
<1>1. 1 \in 1 .. Len(live)
  BY LiveSet, FrontLive DEF Shape
<1>2. h \in Hooks /\ Copies(h, 1) /\ Built(h) /\ First > 0
  BY <1>1, CopiesOf DEF Clear
<1>3. PICK i \in Nat \ {0} : i = 1 /\ Copies(h, i)
  BY <1>2
<1>4. PICK T \in Nat : T = Trampoline(h)
  BY <1>2, Apart
<1>5. PICK c : c = Inside(Unhooked(body), Span(0, First))
  OBVIOUS
<1>6. hook[h].length = First /\ hook[h].saved = c
  BY <1>2, <1>5 DEF Copies
<1>7. PICK n : n = Grown(c, First, arch)
  OBVIOUS
<1>8. n \in 1 .. 4352 /\ First \in 1 .. 256
  <2>1. n = Grown(hook[h].saved, hook[h].length, arch)
    BY <1>6, <1>7
  <2>2. n \in Extents
    BY <1>2, <1>3, <2>1, TrampolineSpan
  <2>3. First \in 1 .. 256
    BY <1>2, FirstFits
  <2> QED BY <2>2, <2>3 DEF Extents
<1>9. PICK r, d, j : /\ r = RelocateASM(c, First, T, arch) /\ d = JumpTable(c, First, T, arch)
                     /\ j = One(T + n, WriteJMP(arch, T + n, n))
  OBVIOUS
<1>10. PICK b : b = Beside(r, Beside(d, j))
  OBVIOUS
<1>11. BuildTrampoline(hook[h].saved, hook[h].length, Trampoline(h), arch) = b
  BY <1>4, <1>6, <1>7, <1>9, <1>10 DEF BuildTrampoline
<1>12. \/ a \in DOMAIN b /\ code[a] = b[a]
       \/ code[a] = Own("ptr", 8, Callback(h))
  BY <1>2, <1>11 DEF Built
<1>13. \/ a \in DOMAIN r /\ code[a] = r[a]
       \/ a \in DOMAIN d /\ code[a] = d[a]
       \/ a \in DOMAIN j /\ code[a] = j[a]
       \/ code[a] = Own("ptr", 8, Callback(h))
  BY <1>10, <1>12 DEF Beside
<1>14. a \in T .. T + 4400 /\ a \in Int
  BY <1>2, <1>4, InnerSpan, Distant
<1>15. CASE a \in DOMAIN r /\ code[a] = r[a]
  <2>1. PICK x \in DOMAIN body : x < First /\ a = T + x
    BY <1>2, <1>5, <1>9, <1>15, CopiedAt
  <2>2. r[T + x] = IF Conditional(Unhooked(body)[x])
                     THEN RelocateConditionalJMP(c, First, x, arch)
                   ELSE IF Relative(Unhooked(body)[x]) THEN Relocate(Unhooked(body)[x], T, arch)
                   ELSE Unhooked(body)[x]
    BY <1>2, <1>5, <1>9, <2>1, CopiedAt
  <2>3. Leads(r[T + x], T + x, taken) \in {Out} \cup DOMAIN body \cup NearBy(T)
    BY <1>2, <1>4, <1>5, <2>1, <2>2, CopyLeads DEF Clear
  <2>4. DOMAIN body \subseteq Near
    BY Original
  <2> QED BY <1>4, <1>15, <2>1, <2>3, <2>4
<1>16. CASE a \in DOMAIN d /\ code[a] = d[a]
  <2>1. PICK to \in DOMAIN body : d[a] = WriteJMP(arch, a, to)
    BY <1>2, <1>5, <1>9, <1>14, <1>16, TableAt
  <2>2. arch \in Archs /\ to \in Near /\ to \in Int
    BY Original
  <2>3. Leads(WriteJMP(arch, a, to), a, taken) = to
    BY <1>14, <2>2, WrittenJMP
  <2> QED BY <1>16, <2>1, <2>2, <2>3
<1>17. CASE a \in DOMAIN j /\ code[a] = j[a]
  <2>1. a = T + n /\ code[a] = WriteJMP(arch, a, n)
    BY <1>9, <1>17 DEF One
  <2>2. n \in Int /\ n \in Near /\ arch \in Archs
    <3>1. n \in Int /\ n \in Near
      BY ONLY <1>8 DEF Near, Span, Far
    <3> QED BY <3>1, Original
  <2>3. Leads(WriteJMP(arch, a, n), a, taken) = n
    BY <1>14, <2>2, WrittenJMP
  <2> QED BY <2>1, <2>2, <2>3
<1>18. CASE code[a] = Own("ptr", 8, Callback(h))
  <2>1. code[a].op = "ptr" /\ code[a].size = 8
    BY <1>18 DEF Own
  <2>2. Leads(code[a], a, taken) = a + 8
    BY <2>1, FallsThrough
  <2>3. a + 8 \in NearBy(T)
    BY ONLY <1>14, T \in Nat DEF NearBy
  <2> QED BY <1>4, <2>2, <2>3
<1> QED BY <1>13, <1>15, <1>16, <1>17, <1>18

LEMMA PresentCopies ==
  ASSUME Shape, NoneStuck, CopyInv, NEW h \in Present
  PROVE  h \in Hooks /\ First > 0 /\ Rest /\ Built(h) /\ \E i \in Nat \ {0} : Copies(h, i)
<1>1. Len(live) \in Nat /\ ToSet(live) = {live[i] : i \in 1 .. Len(live)}
  BY LiveSet DEF Shape
<1>2. CASE h \in ToSet(live)
  <2>1. PICK i \in 1 .. Len(live) : h = live[i]
    BY <1>1, <1>2
  <2> QED BY <2>1, CopiesOf
<1>3. CASE h \in Pending
  <2>1. Begun /\ h = patching.hook
    BY <1>3 DEF Pending
  <2>2. h \in Hooks
    BY <2>1 DEF Shape, Begun, Nothing
  <2>3. PICK m \in Nat \ {0} : m = Len(live) + 1
    BY <1>1
  <2>4. Copies(h, m) /\ Built(h) /\ First > 0 /\ Rest
    BY <2>1, <2>2, <2>3 DEF CopyInv
  <2> QED BY <2>2, <2>4
<1> QED BY <1>2, <1>3 DEF Present

\* From such a place a thread comes to another one.
LEMMA LooseLeads ==
  ASSUME HookInv, Clear, CopyInv, NEW a \in DOMAIN code \ {0}, Loose(a), NEW taken \in BOOLEAN
  PROVE  Loose(Leads(code[a], a, taken))
<1>1. Shape /\ Kept /\ Rest /\ NoneStuck
  BY DEF HookInv, CopyInv, Clear
<1>2. Loose(Out) /\ \A x \in DOMAIN body : Loose(x)
  <2>1. \A x \in DOMAIN body : x \in Near
    BY <1>1, Original
  <2> QED BY <2>1, LooseNear DEF Loose
<1>3. CASE a \in DOMAIN body /\ code[a] = Unhooked(body)[a]
  <2>1. PICK i : i = Unhooked(body)[a]
    OBVIOUS
  <2>2. i.op \in {"plain", "call", "access", "jmp", "cond", "ret"}
    BY <1>1, <1>3, <2>1, UnhookedAt
  <2>3. Leads(i, a, taken) = Out \/ Leads(i, a, taken) \in DOMAIN body
    BY <1>1, <1>3, <2>1, <2>2, BodyLeads
  <2> QED BY <1>2, <1>3, <2>1, <2>3
<1>4. CASE a \in Near /\ Present # {} /\ a < First /\ code[a] = Nop
  <2>1. First \in 1 .. 256 /\ a \in Nat
    <3>1. First > 0
      BY <1>1, <1>4 DEF CopyInv
    <3> QED BY <1>1, <1>4, <3>1, FirstFits, NearNat
  <2>2. code[a].op = "nop" /\ code[a].size = 1
    BY <1>4 DEF Nop, Own
  <2>3. Leads(code[a], a, taken) = a + 1
    BY <2>2, FallsThrough
  <2>4. a + 1 \in Near
    BY ONLY <2>1, <1>4 DEF Near, Span, Far
  <2> QED BY <2>3, <2>4, LooseNear
<1>5. CASE a \notin Near
  <2>1. PICK h \in Present : a \in Span(Trampoline(h), Far)
    BY <1>1, <1>5 DEF Kept, Placed
  <2>2. PICK i \in Nat \ {0} : Copies(h, i)
    BY <1>1, PresentCopies
  <2>3. h \in Hooks /\ First > 0 /\ Built(h)
    BY <1>1, PresentCopies
  <2>4. a \in Span(Trampoline(h), 5000) /\ a \in Int /\ a \notin {Out, Lost}
    <3>1. a \in Span(Trampoline(h), 5000)
      BY <1>1, <2>1, <2>2, <2>3, InnerSpan
    <3>2. PICK T \in Nat : T = Trampoline(h) /\ T > 9999
      BY <2>3, Apart
    <3>3. \A b \in Span(T, 5000) : b \in Int /\ b \notin {-1, -2}
      BY ONLY <3>2 DEF Span
    <3> QED BY <3>1, <3>2, <3>3 DEF Out, Lost
  <2>5. live # <<>> /\ h = live[1]
    BY <2>3, <2>4 DEF Loose
  <2>6. Leads(code[a], a, taken) \in {Out} \cup Near \cup NearBy(Trampoline(h))
    BY <1>1, <2>1, <2>5, FirstLeads
  <2> QED BY <1>2, <2>3, <2>5, <2>6, LooseNear, LooseNearBy
<1> QED BY <1>1, <1>3, <1>4, <1>5 DEF Rest

-----------------------------------------------------------------------------
(***************************************************************************)
(* The callbacks a call passes.                                            *)
(***************************************************************************)
\* The callbacks of the first i hooks, the last of them first.
Remaining(d, i) == d \in Seq(Hooks) /\ Len(d) = i /\ \A j \in 1 .. i : d[j] = live[i + 1 - j]

\* A thread has all the callbacks before it, none, or those of the hooks below the one it is in.
Passing(t) ==
  \/ ip[t] = 0
  \/ Loose(ip[t]) /\ due[t] = <<>>
  \/ \E i \in 1 .. Len(live) :
       \/ ip[t] = Callback(live[i]) /\ Remaining(due[t], i)
       \/ i > 1 /\ ip[t] = Trampoline(live[i]) /\ Remaining(due[t], i - 1)

ThreadsOK == /\ DOMAIN ip = Threads /\ DOMAIN home = Threads
             /\ DOMAIN due = Threads /\ DOMAIN caught = Threads
PassInv == ThreadsOK /\ (Clear => \A t \in Threads : ~ caught[t] => Passing(t))

LEMMA RemainingAll ==
  ASSUME live \in Seq(Hooks)
  PROVE  Remaining(Reverse(live), Len(live))
<1>1. PICK n \in Nat : n = Len(live)
  BY LiveSet
<1>2. PICK d : d = Reverse(live)
  OBVIOUS
<1>3. d = [j \in 1 .. n |-> live[(n - j) + 1]]
  BY <1>1, <1>2 DEF Reverse
<1>4. \A j \in 1 .. n : (n - j) + 1 \in 1 .. n /\ (n - j) + 1 = n + 1 - j
  BY <1>1
<1>5. \A j \in 1 .. n : live[j] \in Hooks
  BY <1>1
<1>6. d \in Seq(Hooks) /\ Len(d) = n
  BY <1>1, <1>3, <1>4, <1>5
<1>7. \A j \in 1 .. n : d[j] = live[n + 1 - j]
  BY <1>3, <1>4
<1> QED BY <1>1, <1>2, <1>6, <1>7 DEF Remaining

LEMMA RemainingTail ==
  ASSUME NEW d, NEW i \in Nat \ {0}, Remaining(d, i)
  PROVE  d # <<>> /\ Head(d) = live[i] /\ Remaining(Tail(d), i - 1)
<1>1. d \in Seq(Hooks) /\ Len(d) = i /\ \A j \in 1 .. i : d[j] = live[i + 1 - j]
  BY DEF Remaining
<1>2. d # <<>> /\ Head(d) = d[1]
  BY <1>1
<1>3. Head(d) = live[i]
  <2>1. 1 \in 1 .. i /\ i + 1 - 1 = i
    OBVIOUS
  <2> QED BY <1>1, <1>2, <2>1
<1>4. Tail(d) \in Seq(Hooks) /\ Len(Tail(d)) = i - 1
  BY <1>1, <1>2
<1>5. ASSUME NEW j \in 1 .. i - 1
      PROVE  Tail(d)[j] = live[(i - 1) + 1 - j]
  <2>1. j + 1 \in 1 .. i /\ i + 1 - (j + 1) = (i - 1) + 1 - j
    OBVIOUS
  <2>2. Tail(d)[j] = d[j + 1]
    BY <1>1, <1>2, <1>4
  <2> QED BY <1>1, <2>1, <2>2
<1> QED BY <1>2, <1>3, <1>4, <1>5 DEF Remaining

\* The hooks that a thread has still to pass have to stay, not the others.
LEMMA RemainingKept ==
  ASSUME NEW d, NEW i \in Nat, Remaining(d, i), \A j \in 1 .. i : live'[j] = live[j]
  PROVE  d \in Seq(Hooks) /\ Len(d) = i /\ \A j \in 1 .. i : d[j] = live'[i + 1 - j]
<1>1. d \in Seq(Hooks) /\ Len(d) = i /\ \A j \in 1 .. i : d[j] = live[i + 1 - j]
  BY DEF Remaining
<1>2. \A j \in 1 .. i : i + 1 - j \in 1 .. i
  OBVIOUS
<1> QED BY <1>1, <1>2

LEMMA PassingKept ==
  ASSUME Shape, NEW t, Passing(t), ip'[t] = ip[t], due'[t] = due[t], Loose(ip[t]) => Loose(ip[t])',
         NEW k \in Nat, k <= Len(live), k <= Len(live'), Len(live') \in Nat,
         \A j \in 1 .. k : live'[j] = live[j],
         \A j \in 1 .. Len(live) : j > k =>
           ip[t] # Callback(live[j]) /\ (ip[t] = Trampoline(live[j]) => Loose(ip[t]) /\ due[t] = <<>>)
  PROVE  Passing(t)'
<1>1. Len(live) \in Nat
  BY LiveSet DEF Shape
<1>2. CASE ip[t] = 0
  BY <1>2 DEF Passing
<1>3. CASE Loose(ip[t]) /\ due[t] = <<>>
  BY <1>3 DEF Passing, Loose
<1>4. ASSUME NEW i \in 1 .. Len(live),
             \/ ip[t] = Callback(live[i]) /\ Remaining(due[t], i)
             \/ i > 1 /\ ip[t] = Trampoline(live[i]) /\ Remaining(due[t], i - 1),
             ~ (Loose(ip[t]) /\ due[t] = <<>>)
      PROVE  Passing(t)'
  <2>1. i <= k /\ i \in Nat /\ i \in 1 .. Len(live') /\ i \in 1 .. k
    BY <1>1, <1>4
  <2>2. live'[i] = live[i]
    BY <2>1
  <2>3. CASE ip[t] = Callback(live[i]) /\ Remaining(due[t], i)
    <3>1. \A j \in 1 .. i : live'[j] = live[j]
      BY <2>1
    <3>2. Remaining(due[t], i)'
      BY <2>1, <2>3, <3>1, RemainingKept DEF Remaining
    <3> QED BY <2>1, <2>2, <2>3, <3>2 DEF Passing, Callback
  <2>4. CASE i > 1 /\ ip[t] = Trampoline(live[i]) /\ Remaining(due[t], i - 1)
    <3>1. PICK m \in Nat : m = i - 1
      BY <2>1, <2>4
    <3>2. \A j \in 1 .. m : live'[j] = live[j]
      BY <2>1, <3>1
    <3>3. Remaining(due[t], m)'
      BY <2>4, <3>1, <3>2, RemainingKept DEF Remaining
    <3> QED BY <2>1, <2>2, <2>4, <3>1, <3>3 DEF Passing, Trampoline
  <2> QED BY <1>4, <2>3, <2>4
<1> QED BY <1>2, <1>3, <1>4 DEF Passing

\* A jump that was left behind stays.
LEMMA StuckKept ==
  ASSUME HookInv, [Next]_vars, NoneStuck'
  PROVE  NoneStuck
<1>1. DOMAIN hook = Hooks
  BY DEF HookInv, Shape
<1> SUFFICES ASSUME NEW g \in Hooks, hook[g].stuck
             PROVE  hook'[g].stuck
  BY DEF NoneStuck
<1>2. ASSUME NEW h \in Hooks, HookBegin(h)
      PROVE  hook'[g].stuck
  BY <1>1, <1>2 DEF HookBegin
<1>3. ASSUME NEW h \in Hooks, UnHookBegin(h)
      PROVE  hook'[g].stuck
  <2>1. hook' = [hook EXCEPT ![h].stuck = @ \/ hook[h].original = 0]
    BY <1>3 DEF UnHookBegin
  <2>2. CASE g = h
    <3>1. hook'[g] = [hook[g] EXCEPT !.stuck = @ \/ hook[g].original = 0]
      BY <1>1, <2>1, <2>2
    <3>2. hook[g] = [length |-> hook[g].length, original |-> hook[g].original,
                     saved |-> hook[g].saved, stuck |-> hook[g].stuck]
      BY DEF HookInv, Shape, HookOK
    <3> QED BY <3>1, <3>2
  <2>3. CASE g # h
    BY <1>1, <2>1, <2>3
  <2> QED BY <2>2, <2>3
<1>4. CASE UNCHANGED hook
  BY <1>4
<1>5. HookEnd \/ UnHookEnd \/ UNCHANGED vars => UNCHANGED hook
  BY DEF HookEnd, UnHookEnd, vars, memory
<1>6. ASSUME NEW t \in Threads,
             Call(t) \/ Run(t) \/ Stray(t) \/ \E h \in Hooks : RunCallback(t, h)
      PROVE  UNCHANGED hook
  BY <1>6 DEF Call, Run, Stray, RunCallback, memory
<1> QED BY <1>2, <1>3, <1>4, <1>5, <1>6 DEF Next, SetHook, UnsetHook

LEMMA ClearKept ==
  ASSUME HookInv, [Next]_vars, Clear'
  PROVE  Clear /\ NoneStuck /\ InReach(arch, body)
BY StuckKept, ReachKept DEF Clear

\* What setting and taking away hooks does to the threads.
LEMMA CatchKeeps ==
  ASSUME ThreadsOK, NEW S, Catch(S), UNCHANGED <<ip, home, due>>
  PROVE  /\ ThreadsOK'
         /\ \A t \in Threads : ~ caught'[t] =>
              ~ caught[t] /\ ip[t] \notin S /\ ip'[t] = ip[t] /\ home'[t] = home[t] /\ due'[t] = due[t]
BY DEF ThreadsOK, Catch

LEMMA HooksKeepPassing ==
  ASSUME HookInv, CopyInv, PassInv, [Next]_vars, SetHook \/ UnsetHook \/ HookEnd \/ UnHookEnd
  PROVE  PassInv'
<1>1. Shape /\ live \in Seq(Hooks) /\ Len(live) \in Nat /\ ThreadsOK
  BY LiveSet DEF HookInv, Shape, PassInv
<1>2. ASSUME NEW S, Catch(S), UNCHANGED <<ip, home, due>>, UNCHANGED live
      PROVE  PassInv'
  <2>1. /\ ThreadsOK'
        /\ \A t \in Threads : ~ caught'[t] => ~ caught[t] /\ ip'[t] = ip[t] /\ due'[t] = due[t]
    BY <1>1, <1>2, CatchKeeps
  <2>2. ASSUME NEW t \in Threads, ~ caught'[t], Clear'
        PROVE  Passing(t)'
    <3>1. Passing(t)
      BY <2>1, <2>2, ClearKept DEF PassInv
    <3>2. Loose(ip[t]) => Loose(ip[t])'
      BY <1>2, <2>1, <2>2 DEF Loose
    <3>3. /\ Len(live) <= Len(live) /\ \A j \in 1 .. Len(live) : ~ (j > Len(live))
      BY <1>1
    <3> QED BY <1>1, <1>2, <2>1, <2>2, <3>1, <3>2, <3>3, PassingKept
  <2> QED BY <2>1, <2>2 DEF PassInv
<1>3. CASE SetHook
  <2>1. PICK h \in Hooks : HookBegin(h)
    BY <1>3 DEF SetHook
  <2>2. \E S : Catch(S)
    BY <2>1 DEF HookBegin
  <2>3. UNCHANGED <<ip, home, due>> /\ UNCHANGED live
    BY <2>1 DEF HookBegin
  <2> QED BY <1>2, <2>2, <2>3
<1>4. CASE UnsetHook
  <2>1. PICK h \in Hooks : UnHookBegin(h)
    BY <1>4 DEF UnsetHook
  <2>2. \E S : Catch(S)
    BY <2>1 DEF UnHookBegin
  <2>3. UNCHANGED <<ip, home, due>> /\ UNCHANGED live
    BY <2>1 DEF UnHookBegin
  <2> QED BY <1>2, <2>2, <2>3
<1>5. CASE HookEnd
  <2>1. PICK h : h = patching.hook
    OBVIOUS
  <2>2. live' = Append(live, h) /\ UNCHANGED threads /\ h \in Hooks \ ToSet(live)
    BY <1>1, <1>5, <2>1 DEF HookEnd, Shape, Begun, Nothing
  <2>3. /\ Len(live') = Len(live) + 1
        /\ \A j \in 1 .. Len(live) : live'[j] = live[j]
    BY <1>1, <2>2, AppendLive
  <2>4. UNCHANGED <<ip, home, due, caught>> /\ ThreadsOK'
    BY <1>1, <2>2 DEF threads, ThreadsOK
  <2>5. ASSUME NEW t \in Threads, ~ caught'[t], Clear'
        PROVE  Passing(t)'
    <3>1. Passing(t)
      BY <2>4, <2>5, ClearKept DEF PassInv
    <3>2. Loose(ip[t]) => Loose(ip[t])'
      <4>1. live # <<>> => 1 \in 1 .. Len(live)
        BY <1>1
      <4>2. live # <<>> => live' # <<>> /\ live'[1] = live[1]
        BY <1>1, <2>3, <4>1
      <4> QED BY <2>4, <4>2 DEF Loose, Trampoline
    <3>3. /\ Len(live) <= Len(live) /\ \A j \in 1 .. Len(live) : ~ (j > Len(live))
          /\ Len(live) <= Len(live') /\ Len(live') \in Nat
      BY <1>1, <2>3
    <3> QED BY <1>1, <2>3, <2>4, <2>5, <3>1, <3>2, <3>3, PassingKept
  <2> QED BY <2>4, <2>5 DEF PassInv
<1>6. CASE UnHookEnd
  <2>1. PICK h : h = patching.hook
    OBVIOUS
  <2>2. /\ live' = Front(live) /\ Catch(Span(Trampoline(h), Far) \cup {Callback(h)})
        /\ UNCHANGED <<ip, home, due>> /\ patching.writing = "original"
    BY <1>6, <2>1 DEF UnHookEnd
  <2>3. live # <<>> /\ h = Last(live)
    BY <1>1, <2>1, <2>2 DEF Shape, Begun, Nothing
  <2>4. PICK k \in Nat : k = Len(live) - 1
    BY <1>1, <2>3, FrontLive
  <2>5. /\ h = live[Len(live)] /\ h \in Hooks /\ Len(live') = k /\ live' \in Seq(Hooks)
        /\ \A j \in 1 .. k : live'[j] = live[j]
    BY <1>1, <2>2, <2>3, <2>4, FrontLive
  <2>6. /\ ThreadsOK'
        /\ \A t \in Threads : ~ caught'[t] => /\ ~ caught[t] /\ ip'[t] = ip[t] /\ due'[t] = due[t]
                                              /\ ip[t] \notin Span(Trampoline(h), Far) \cup {Callback(h)}
    BY <1>1, <2>2, CatchKeeps
  <2>7. ASSUME NEW t \in Threads, ~ caught'[t], Clear'
        PROVE  Passing(t)'
    <3>1. Passing(t) /\ ip[t] \notin Span(Trampoline(h), Far) /\ ip[t] # Callback(h)
      BY <2>6, <2>7, ClearKept DEF PassInv
    <3>2. ip[t] # Trampoline(h) /\ ip[t] \notin Span(Trampoline(h), 5000)
      BY <2>5, <3>1, Apart
    <3>3. Loose(ip[t]) => Loose(ip[t])'
      <4>1. CASE k = 0
        <5>1. live[1] = h
          BY <1>1, <2>4, <2>5, <4>1
        <5> QED BY <2>6, <2>7, <3>2, <5>1 DEF Loose, Trampoline
      <4>2. CASE k # 0
        <5>1. live'[1] = live[1] /\ live' # <<>>
          BY <2>5, <4>2
        <5> QED BY <2>6, <2>7, <5>1 DEF Loose, Trampoline
      <4> QED BY <4>1, <4>2
    <3>4. \A j \in 1 .. Len(live) : j > k => live[j] = h
      <4>1. \A j \in 1 .. Len(live) : j > k => j = Len(live)
        BY <1>1, <2>4
      <4> QED BY <2>5, <4>1
    <3>5. k <= Len(live) /\ k <= Len(live') /\ Len(live') \in Nat
      BY <1>1, <2>4, <2>5
    <3> QED BY <1>1, <2>5, <2>6, <2>7, <3>1, <3>2, <3>3, <3>4, <3>5, PassingKept
  <2> QED BY <2>6, <2>7 DEF PassInv
<1> QED BY <1>3, <1>4, <1>5, <1>6

\* The function's entry, when there is one.
LEMMA EntryOpen ==
  ASSUME HookInv, NoneStuck, patching = Nothing
  PROVE  /\ 0 \in DOMAIN code
         /\ live = <<>> => code = Unhooked(body)
<1>1. Shape
  BY DEF HookInv
<1>2. live = <<>> => code = Unhooked(body)
  BY NoHooks DEF Restored
<1>3. 0 \in DOMAIN Unhooked(body)
  BY <1>1, Original DEF Body
<1> QED BY <1>2, <1>3, EntryThere

LEMMA EntryLeads ==
  ASSUME HookInv, CopyInv, Clear, 0 \in DOMAIN code, NEW taken \in BOOLEAN
  PROVE  /\ patching = Nothing
         /\ live # <<>> => /\ code[0].home = NoHome
                           /\ Leads(code[0], 0, taken) = Callback(live[Len(live)])
<1>1. patching = Nothing /\ Shape /\ Kept /\ NoneStuck
  BY EntryThere DEF HookInv, Clear
<1>2. ASSUME live # <<>>
      PROVE  /\ code[0].home = NoHome
             /\ Leads(code[0], 0, taken) = Callback(live[Len(live)])
  <2>1. PICK h : h = live[Len(live)]
    OBVIOUS
  <2>2. h \in Hooks /\ Len(live) \in 1 .. Len(live)
    BY <1>1, <1>2, <2>1, FrontLive DEF Shape
  <2>3. PICK e : e = Entrance(h)
    OBVIOUS
  <2>4. code[0] = e
    BY <1>1, <1>2, <2>1, <2>3, EntryThere
  <2>5. h \in Present
    BY <1>1, <2>1, <2>2, LiveSet DEF Shape, Present
  <2>6. Pointed(h) /\ hook[h].original \in Lengths
    BY <1>1, <2>2, <2>5 DEF Kept
  <2>7. e.home = NoHome /\ e.op \in {"jmp", "abs", "ind"}
    BY <1>1, <2>2, <2>3, <2>6, EntranceFields
  <2>8. Leads(e, 0, FALSE) = Callback(h)
    <3>1. hook[h].original = 0 => Wrap(SlotOf(h) - 6, 32, "x64") = SlotOf(h) - 6
      BY <1>1, <2>1, <2>2, <2>6, SlotInReach
    <3> QED BY <1>1, <2>2, <2>3, <2>6, <3>1, EntranceLeads
  <2>9. Leads(e, 0, taken) = Leads(e, 0, FALSE)
    BY <2>7 DEF Leads
  <2> QED BY <2>1, <2>4, <2>7, <2>8, <2>9
<1> QED BY <1>1, <1>2

\* There is code in the function and in trampolines only.
LEMMA CodePlaces ==
  ASSUME HookInv, NoneStuck
  PROVE  /\ DOMAIN code \subseteq Nat /\ Out \notin DOMAIN code /\ Lost \notin DOMAIN code
         /\ \A h \in Hooks : Callback(h) \notin DOMAIN code
<1>1. Shape /\ Kept
  BY DEF HookInv
<1>2. ASSUME NEW a \in DOMAIN code
      PROVE  a \in Nat
  <2>1. CASE a \in Near
    BY <2>1, NearNat
  <2>2. CASE a \notin Near
    <3>1. PICK h \in Present : a \in Span(Trampoline(h), Far)
      BY <1>1, <2>2 DEF Kept, Placed
    <3>2. h \in Hooks
      BY <1>1, LiveSet DEF Shape, Present, Pending, Begun, Nothing
    <3>3. PICK T \in Nat : T = Trampoline(h)
      BY <3>2, Apart
    <3>4. Span(T, Far) \subseteq Nat
      BY ONLY T \in Nat DEF Span, Far
    <3> QED BY <3>1, <3>3, <3>4
  <2> QED BY <2>1, <2>2
<1>3. Out \notin Nat /\ Lost \notin Nat /\ \A h \in Hooks : Callback(h) \notin Nat
  <2>1. \A h \in Hooks : Callback(h) \in Int /\ Callback(h) < -10
    BY Apart
  <2> QED BY <2>1 DEF Out, Lost
<1> QED BY <1>2, <1>3

LEMMA RunPasses ==
  ASSUME HookInv, CopyInv, ThreadsOK, Clear, NoneStuck, NEW t \in Threads, Run(t), Passing(t)
  PROVE  Passing(t)'
<1>1. PICK a : a = ip[t]
  OBVIOUS
<1>2. PICK taken \in BOOLEAN : ip' = [ip EXCEPT ![t] = Leads(code[a], a, taken)]
  BY <1>1 DEF Run
<1>3. /\ a \in DOMAIN code /\ live' = live
      /\ due' = [due EXCEPT ![t] = IF a = 0 THEN Reverse(live) ELSE @]
  BY <1>1 DEF Run, memory
<1>4. PICK b : b = Leads(code[a], a, taken)
  OBVIOUS
<1>5. ip'[t] = b /\ (a = 0 => due'[t] = Reverse(live)) /\ (a # 0 => due'[t] = due[t])
  BY <1>2, <1>3, <1>4 DEF ThreadsOK
<1>6. Shape /\ live \in Seq(Hooks) /\ Len(live) \in Nat
  BY LiveSet DEF HookInv, Shape
<1>7. /\ Loose(b)' <=> Loose(b)
      /\ \A d, i : Remaining(d, i)' <=> Remaining(d, i)
  BY <1>3 DEF Loose, Remaining
<1>8. CASE a = 0 /\ live = <<>>
  <2>1. code = Unhooked(body) /\ 0 \in DOMAIN body
    BY <1>3, <1>6, <1>8, EntryLeads, EntryOpen, Original DEF Body
  <2>2. PICK i : i = Unhooked(body)[0]
    OBVIOUS
  <2>3. i.op \in {"plain", "call", "access", "jmp", "cond", "ret"}
    BY <1>6, <2>1, <2>2, UnhookedAt
  <2>4. b = Out \/ b \in DOMAIN body
    BY <1>4, <1>6, <1>8, <2>1, <2>2, <2>3, BodyLeads
  <2>5. Loose(b)
    BY <1>6, <2>4, LooseNear, Original DEF Loose
  <2>6. due'[t] = <<>>
    <3>1. Reverse(live) = <<>>
      BY <1>6, <1>8, RemainingAll DEF Remaining
    <3> QED BY <1>5, <1>8, <3>1
  <2> QED BY <1>5, <1>7, <2>5, <2>6 DEF Passing
<1>9. CASE a = 0 /\ live # <<>>
  <2>1. b = Callback(live[Len(live)])
    BY <1>3, <1>4, <1>9, EntryLeads
  <2>2. PICK n \in 1 .. Len(live) : n = Len(live)
    BY <1>6, <1>9
  <2>3. PICK d : d = due'[t] /\ Remaining(d, n)
    BY <1>5, <1>6, <1>9, <2>2, RemainingAll
  <2>4. Remaining(d, n)'
    BY <1>7, <2>3
  <2>5. n \in 1 .. Len(live') /\ ip'[t] = Callback(live'[n])
    BY <1>3, <1>5, <2>1, <2>2
  <2> QED BY <2>3, <2>4, <2>5 DEF Passing, Callback
<1>10. CASE a # 0 /\ Loose(a) /\ due[t] = <<>>
  <2>1. Loose(b)
    BY <1>3, <1>4, <1>10, LooseLeads
  <2> QED BY <1>5, <1>7, <1>10, <2>1 DEF Passing
<1>11. ASSUME NEW i \in 1 .. Len(live), i > 1, a = Trampoline(live[i]), Remaining(due[t], i - 1)
       PROVE  Passing(t)'
  <2>1. PICK k \in 1 .. Len(live) : k = i - 1
    BY <1>6, <1>11
  <2>2. b = Callback(live[k]) /\ a # 0
    <3>1. live[i] \in Hooks
      BY <1>6
    <3>2. PICK h, g : h = live[i] /\ g = live[i - 1]
      OBVIOUS
    <3>3. Leads(code[Trampoline(h)], Trampoline(h), taken) = Callback(g)
      BY <1>11, <3>2, OlderTrampoline
    <3>4. Trampoline(h) > 9999
      BY <3>1, <3>2, Apart
    <3> QED BY <1>4, <1>11, <2>1, <3>2, <3>3, <3>4
  <2>3. PICK d : d = due'[t] /\ Remaining(d, k)
    BY <1>5, <1>11, <2>1, <2>2
  <2>4. Remaining(d, k)'
    BY <1>7, <2>3
  <2>5. k \in 1 .. Len(live') /\ ip'[t] = Callback(live'[k])
    BY <1>3, <1>5, <2>1, <2>2
  <2> QED BY <2>3, <2>4, <2>5 DEF Passing, Callback
<1>12. ASSUME NEW i \in 1 .. Len(live), a = Callback(live[i])
       PROVE  FALSE
  <2>1. live[i] \in Hooks
    BY <1>6
  <2> QED BY <1>3, <1>12, <2>1, CodePlaces
<1> QED BY <1>1, <1>8, <1>9, <1>10, <1>11, <1>12 DEF Passing

LEMMA CallbackPasses ==
  ASSUME HookInv, ThreadsOK, NEW t \in Threads, NEW h \in Hooks, RunCallback(t, h), Passing(t)
  PROVE  /\ \E i \in 1 .. Len(live) : h = live[i]
         /\ Passing(t)'
<1>1. Shape /\ live \in Seq(Hooks) /\ Len(live) \in Nat
  BY LiveSet DEF HookInv, Shape
<1>2. /\ ip[t] = Callback(h) /\ live' = live /\ ip'[t] = Trampoline(h)
      /\ due[t] # <<>> => due'[t] = Tail(due[t])
  BY DEF RunCallback, ThreadsOK, memory
<1>3. /\ Callback(h) \in Int /\ Callback(h) < -10
      /\ \A g \in Hooks : Trampoline(g) \in Nat
  BY Apart
<1>4. PICK i \in 1 .. Len(live) : ip[t] = Callback(live[i]) /\ Remaining(due[t], i)
  <2>1. ip[t] # 0 /\ ~ Loose(ip[t])
    BY <1>2, <1>3 DEF Loose, Out, Lost
  <2>2. \A i \in 1 .. Len(live) : ip[t] # Trampoline(live[i])
    <3>1. \A i \in 1 .. Len(live) : Trampoline(live[i]) \in Nat
      BY <1>1, <1>3
    <3> QED BY <1>2, <1>3, <3>1
  <2> QED BY <2>1, <2>2 DEF Passing
<1>5. h = live[i]
  <2>1. live[i] \in Hooks
    BY <1>1
  <2>2. \A g \in Hooks : Callback(g) = Callback(h) => g = h
    BY Apart
  <2> QED BY <1>2, <1>4, <2>1, <2>2
<1>6. PICK k \in Nat : k = i - 1
  BY <1>1
<1>7. PICK d : d = due'[t] /\ Remaining(d, k)
  <2>1. i \in Nat \ {0}
    BY <1>1
  <2>2. due[t] # <<>> /\ Remaining(Tail(due[t]), i - 1)
    BY <1>4, <2>1, RemainingTail
  <2> QED BY <1>2, <1>6, <2>2
<1>8. Remaining(d, k)'
  BY <1>2, <1>7 DEF Remaining
<1>9. CASE i > 1
  <2>1. i \in 1 .. Len(live') /\ ip'[t] = Trampoline(live'[i])
    BY <1>2, <1>5
  <2>2. Passing(t)'
    BY <1>6, <1>7, <1>8, <1>9, <2>1 DEF Passing, Trampoline
  <2> QED BY <1>5, <2>2
<1>10. CASE ~ (i > 1)
  <2>1. i = 1 /\ k = 0
    BY <1>1, <1>6, <1>10
  <2>2. due'[t] = <<>>
    BY <1>7, <2>1 DEF Remaining
  <2>3. live # <<>> /\ h = live[1]
    BY <1>1, <1>5, <2>1
  <2>4. Loose(Trampoline(h))
    <3>1. Trampoline(h) \in Nat
      BY Apart
    <3>2. ASSUME NEW g \in Hooks, Trampoline(h) \in Span(Trampoline(g), 5000)
          PROVE  g = h
      <4>1. Trampoline(h) \in Span(Trampoline(g), Far) /\ Trampoline(h) \in Span(Trampoline(h), Far)
        BY <3>2, Apart
      <4> QED BY <4>1, Distant
    <3> QED BY <2>3, <3>1, <3>2 DEF Loose
  <2>5. PICK T : T = Trampoline(h) /\ Loose(T)'
    BY <1>2, <2>4 DEF Loose, Trampoline
  <2>6. Passing(t)'
    BY <1>2, <2>2, <2>5 DEF Passing
  <2> QED BY <1>5, <2>6
<1> QED BY <1>5, <1>9, <1>10

\* Who strays has been caught, or has passed all the callbacks before.
LEMMA StrayPasses ==
  ASSUME HookInv, CopyInv, ThreadsOK, Clear, NoneStuck, NEW t \in Threads, Stray(t), Passing(t), ~ caught'[t]
  PROVE  Passing(t)'
<1>1. Shape /\ live \in Seq(Hooks) /\ Len(live) \in Nat
  BY LiveSet DEF HookInv, Shape
<1>2. /\ ip[t] \notin DOMAIN code /\ \A h \in Hooks : ip[t] # Callback(h)
      /\ ip'[t] = Lost /\ due'[t] = due[t]
      /\ ip[t] = 0 => patching = Nothing
  BY DEF Stray, ThreadsOK
<1>3. ip[t] # 0
  BY <1>2, EntryOpen
<1>4. ASSUME NEW i \in 1 .. Len(live), i > 1
      PROVE  ip[t] # Trampoline(live[i])
  <2>1. PICK h, g : h = live[i] /\ g = live[i - 1]
    OBVIOUS
  <2>2. Trampoline(h) \in DOMAIN code
    BY <1>4, <2>1, OlderTrampoline
  <2> QED BY <1>2, <2>1, <2>2
<1>5. \A i \in 1 .. Len(live) : ip[t] # Callback(live[i])
  <2>1. \A i \in 1 .. Len(live) : live[i] \in Hooks
    BY <1>1
  <2> QED BY <1>2, <2>1
<1>6. due[t] = <<>>
  BY <1>3, <1>4, <1>5 DEF Passing
<1>7. PICK a : a = Lost /\ Loose(a)'
  BY DEF Loose
<1> QED BY <1>2, <1>6, <1>7 DEF Passing

\* What the others do is nothing to a thread.
LEMMA OthersPass ==
  ASSUME UNCHANGED live, NEW t, Passing(t), ip'[t] = ip[t], due'[t] = due[t]
  PROVE  Passing(t)'
<1>1. Loose(ip[t]) => Loose(ip[t])'
  BY DEF Loose, Trampoline
<1>2. \A d, i : Remaining(d, i)' <=> Remaining(d, i)
  BY DEF Remaining
<1> QED BY <1>1, <1>2 DEF Passing, Callback, Trampoline

LEMMA InitPasses == Init => PassInv
<1> SUFFICES ASSUME Init
             PROVE  PassInv
  OBVIOUS
<1>1. ThreadsOK
  BY DEF Init, ThreadsOK
<1>2. ASSUME NEW t \in Threads
      PROVE  Passing(t)
  BY DEF Init, Passing, Loose
<1> QED BY <1>1, <1>2 DEF PassInv

LEMMA PassKept == HookInv /\ CopyInv /\ PassInv /\ [Next]_vars => PassInv'
<1> SUFFICES ASSUME HookInv, CopyInv, PassInv, [Next]_vars
             PROVE  PassInv'
  OBVIOUS
<1>0. ThreadsOK
  BY DEF PassInv
<1>1. CASE UNCHANGED vars
  <2>1. UNCHANGED <<live, ip, due, caught, home>>
    BY <1>1 DEF vars, memory, threads
  <2>2. ThreadsOK'
    BY <1>0, <2>1 DEF ThreadsOK
  <2>3. ASSUME NEW t \in Threads, ~ caught'[t], Clear'
        PROVE  Passing(t)'
    <3>1. Passing(t)
      BY <2>1, <2>3, ClearKept DEF PassInv
    <3> QED BY <2>1, <3>1, OthersPass
  <2> QED BY <2>2, <2>3 DEF PassInv
<1>2. CASE SetHook \/ UnsetHook \/ HookEnd \/ UnHookEnd
  BY <1>2, HooksKeepPassing
<1>3. ASSUME NEW s \in Threads,
             Call(s) \/ Run(s) \/ Stray(s) \/ \E h \in Hooks : RunCallback(s, h)
      PROVE  PassInv'
  <2>1. UNCHANGED live /\ \A t \in Threads : caught[t] => caught'[t]
    BY <1>0, <1>3 DEF Call, Run, Stray, RunCallback, memory, ThreadsOK
  <2>2. ThreadsOK'
    BY <1>0, <1>3 DEF Call, Run, Stray, RunCallback, ThreadsOK
  <2>3. ASSUME NEW t \in Threads, t # s
        PROVE  ip'[t] = ip[t] /\ due'[t] = due[t]
    BY <1>0, <1>3, <2>3 DEF Call, Run, Stray, RunCallback, ThreadsOK
  <2>4. ASSUME NEW t \in Threads, ~ caught'[t], Clear'
        PROVE  Passing(t)'
    <3>1. Passing(t) /\ Clear /\ NoneStuck
      BY <2>1, <2>4, ClearKept DEF PassInv
    <3>2. CASE t # s
      BY <2>1, <2>3, <3>1, <3>2, OthersPass
    <3>3. CASE t = s /\ Call(t)
      <4>1. ip'[t] = 0
        BY <1>0, <3>3 DEF Call, ThreadsOK
      <4> QED BY <4>1 DEF Passing
    <3>4. CASE t = s /\ Run(t)
      BY <1>0, <3>1, <3>4, RunPasses
    <3>5. CASE t = s /\ Stray(t)
      BY <1>0, <2>4, <3>1, <3>5, StrayPasses
    <3>6. CASE t = s /\ \E h \in Hooks : RunCallback(t, h)
      BY <1>0, <3>1, <3>6, CallbackPasses
    <3> QED BY <1>3, <3>2, <3>3, <3>4, <3>5, <3>6
  <2> QED BY <2>2, <2>4 DEF PassInv
<1> QED BY <1>1, <1>2, <1>3 DEF Next

LEMMA PassedAll == HookInv /\ CopyInv /\ PassInv => Intercepted
<1> SUFFICES ASSUME HookInv, CopyInv, PassInv, Clear, NEW t \in Threads, ~ caught[t]
             PROVE  /\ \A h \in Hooks : ip[t] = Callback(h) => due[t] # <<>> /\ Head(due[t]) = h
                    /\ ip[t] \in DOMAIN code \ {0} /\ code[ip[t]].home = 0 => due[t] = <<>>
  BY DEF Intercepted, Clear
<1>0. NoneStuck
  BY DEF Clear
<1>1. Passing(t) /\ Shape /\ live \in Seq(Hooks) /\ Len(live) \in Nat
  BY LiveSet DEF PassInv, HookInv, Shape
<1>2. \A h \in Hooks : Callback(h) \notin Nat /\ Callback(h) \notin {Out, Lost} /\ Trampoline(h) \in Nat
  <2>1. \A h \in Hooks : Callback(h) \in Int /\ Callback(h) < -10 /\ Trampoline(h) \in Nat
    BY Apart
  <2> QED BY <2>1 DEF Out, Lost
<1>3. \A i \in 1 .. Len(live) : live[i] \in Hooks
  BY <1>1
<1>4. ASSUME NEW h \in Hooks, ip[t] = Callback(h)
      PROVE  due[t] # <<>> /\ Head(due[t]) = h
  <2>1. PICK i \in 1 .. Len(live) : ip[t] = Callback(live[i]) /\ Remaining(due[t], i)
    BY <1>1, <1>2, <1>3, <1>4 DEF Passing, Loose
  <2>2. live[i] = h
    <3>1. \A g \in Hooks : Callback(g) = Callback(h) => g = h
      BY Apart
    <3> QED BY <1>3, <1>4, <2>1, <3>1
  <2>3. i \in Nat \ {0}
    BY <1>1
  <2> QED BY <2>1, <2>2, <2>3, RemainingTail
<1>5. ASSUME ip[t] \in DOMAIN code \ {0}, code[ip[t]].home = 0
      PROVE  due[t] = <<>>
  <2>1. ASSUME NEW i \in 1 .. Len(live)
        PROVE  ip[t] # Callback(live[i])
    <3>1. Callback(live[i]) \notin DOMAIN code
      BY <1>0, <1>3, CodePlaces
    <3> QED BY <1>5, <3>1
  <2>2. ASSUME NEW i \in 1 .. Len(live), i > 1, ip[t] = Trampoline(live[i])
        PROVE  FALSE
    <3>1. PICK h, g : h = live[i] /\ g = live[i - 1]
      OBVIOUS
    <3>2. code[Trampoline(h)].home = NoHome
      BY <2>2, <3>1, OlderTrampoline
    <3> QED BY <1>5, <2>2, <3>1, <3>2 DEF NoHome
  <2> QED BY <1>1, <1>5, <2>1, <2>2 DEF Passing
<1> QED BY <1>4, <1>5

\* The jumps that Hook writes and the trampolines that GetOriginal hands out (PolyHook.cpp:20-56, 135):
\* whatever the function, and however many hooks are put over each other and taken away again while
\* threads run, none of them a short one, and with 32 bits enough, on x64, for what is relocated to
\* the trampolines: a call passes the callback of every hook in place, the newest
\* first, each of them once, before it comes to the first instruction of the function.
THEOREM CallsIntercepted == Spec => []Intercepted
BY InitHooks, HooksKept, InitCopies, CopiesKept, InitPasses, PassKept, PassedAll, PTL DEF Spec

-----------------------------------------------------------------------------
(***************************************************************************)
(* The instructions a thread executes.                                     *)
(***************************************************************************)
\* A thread is where it would be without hooks: out of the function, in what is left of it, before
\* its first instruction in a callback or at a jump that has been copied, or in the copy.
Following(t) ==
  \/ ip[t] = Out /\ home[t] = Out
  \/ ip[t] \in DOMAIN body /\ home[t] = ip[t] /\ (Present # {} => ip[t] \notin 1 .. First - 1)
  \/ \E i \in 1 .. Len(live) :
       /\ home[t] = 0
       /\ ip[t] = Callback(live[i]) \/ (i > 1 /\ ip[t] = Trampoline(live[i]))
  \/ /\ live # <<>> /\ home[t] \in DOMAIN body /\ home[t] <= First
     /\ ip[t] = Trampoline(live[1]) + home[t]

FollowInv == Hookable(arch, body) /\ Clear => \A t \in Threads : ~ caught[t] => Following(t)

LEMMA HookableFirst ==
  ASSUME Shape, Hookable(arch, body)
  PROVE  /\ First \in 1 .. 256
         /\ \A x \in DOMAIN body :
              /\ x < First => ~ Conditional(Unhooked(body)[x])
                              /\ ~ (Relative(Unhooked(body)[x]) /\ Unhooked(body)[x].width = 8)
              /\ Unhooked(body)[x].op \in {"jmp", "cond"} =>
                   x + Unhooked(body)[x].size + Unhooked(body)[x].disp \notin 1 .. First - 1
<1>1. PICK c : c = Unhooked(body)
  OBVIOUS
<1>2. PICK n : n = Beginning(arch, body)
  OBVIOUS
<1>4. /\ n > 0
      /\ \A x \in DOMAIN c :
           /\ x < n => ~ Conditional(c[x]) /\ ~ (Relative(c[x]) /\ c[x].width = 8)
           /\ c[x].op \in {"jmp", "cond"} => x + c[x].size + c[x].disp \notin 1 .. n - 1
  BY <1>1, <1>2 DEF Hookable
<1>5. n = First
  <2>1. arch \in Archs /\ Needed(arch) = JmpSize(arch) /\ (arch = "x64" => JmpSize(arch) = 16)
    BY Original, Sizes DEF JmpSize
  <2> QED BY <1>2, <2>1 DEF First, Short, Beginning
<1>6. First \in 1 .. 256
  BY <1>4, <1>5, FirstFits
<1>7. DOMAIN c = DOMAIN body
  BY <1>1, Original
<1> QED BY <1>1, <1>4, <1>5, <1>6, <1>7

\* Where no conditional jump is copied, there is no jump table.
LEMMA TableEmpty ==
  ASSUME Shape, Hookable(arch, body), NEW c, c = Inside(Unhooked(body), Span(0, First)), NEW T \in Nat
  PROVE  Grown(c, First, arch) = First /\ DOMAIN JumpTable(c, First, T, arch) = {}
<1>1. First \in 1 .. 256
  BY HookableFirst
<1>2. /\ DOMAIN c = {x \in DOMAIN body : x < First}
      /\ \A x \in DOMAIN c : c[x] = Unhooked(body)[x]
  <2>1. First > 0
    BY <1>1
  <2> QED BY <2>1, SavedFirst
<1>3. Conditionals(c, First) = {}
  <2>1. ASSUME NEW a \in DOMAIN c
        PROVE  ~ Conditional(c[a])
    <3>1. a \in DOMAIN body /\ a < First /\ c[a] = Unhooked(body)[a]
      BY <1>2
    <3>2. ~ Conditional(Unhooked(body)[a])
      BY <3>1, HookableFirst
    <3> QED BY <3>1, <3>2
  <2> QED BY <2>1 DEF Conditionals
<1>4. Cardinality(Conditionals(c, First)) = 0
  BY <1>3, FS_EmptySet
<1>5. PICK J \in {5, 16} : J = JmpSize(arch)
  BY Original, Sizes
<1>6. Grown(c, First, arch) = First
  <2>1. PICK n \in 1 .. 256 : n = First
    BY <1>1
  <2>2. n + J * 0 = n
    BY ONLY n \in 1 .. 256, J \in {5, 16}
  <2> QED BY <1>4, <1>5, <2>1, <2>2 DEF Grown
<1> QED BY <1>3, <1>6 DEF JumpTable

\* The first trampoline holds the instructions that were copied, and behind them the jump back.
LEMMA FirstCopied ==
  ASSUME HookInv, NoneStuck, CopyInv, Hookable(arch, body), live # <<>>, NEW h, h = live[1],
         NEW T, T = Trampoline(h)
  PROVE  /\ h \in Hooks /\ T \in Nat /\ T > 9999
         /\ T + First \in DOMAIN code /\ code[T + First] = WriteJMP(arch, T + First, First)
         /\ \A x \in DOMAIN body : x < First =>
              /\ T + x \in DOMAIN code
              /\ code[T + x] = IF Relative(Unhooked(body)[x]) THEN Relocate(Unhooked(body)[x], T, arch)
                               ELSE Unhooked(body)[x]
<1>1. Shape /\ 1 \in 1 .. Len(live)
  BY FrontLive DEF HookInv, Shape
<1>2. h \in Hooks /\ Copies(h, 1) /\ Built(h) /\ First > 0
  BY <1>1, CopiesOf
<1>3. PICK N \in Nat : N = T /\ N > 9999
  BY <1>2, Apart
<1>4. PICK c : c = Inside(Unhooked(body), Span(0, First))
  OBVIOUS
<1>5. hook[h].length = First /\ hook[h].saved = c
  BY <1>2, <1>4 DEF Copies
<1>6. PICK n \in 1 .. 256 : n = First
  BY <1>1, HookableFirst
<1>7. PICK r, d, j : /\ r = RelocateASM(c, First, N, arch) /\ d = JumpTable(c, First, N, arch)
                     /\ j = One(N + n, WriteJMP(arch, N + n, n))
  OBVIOUS
<1>8. Grown(c, First, arch) = n /\ DOMAIN d = {}
  BY <1>1, <1>4, <1>6, <1>7, TableEmpty
<1>9. PICK b : b = Beside(r, Beside(d, j))
  OBVIOUS
<1>10. BuildTrampoline(hook[h].saved, hook[h].length, Trampoline(h), arch) = b
  BY <1>3, <1>5, <1>7, <1>8, <1>9 DEF BuildTrampoline
<1>11. \A a \in DOMAIN b : a \in DOMAIN code /\ code[a] = b[a]
  BY <1>2, <1>10 DEF Built
<1>12. \A x \in DOMAIN body : x < First =>
         /\ N + x \in DOMAIN r
         /\ r[N + x] = IF Conditional(Unhooked(body)[x])
                         THEN RelocateConditionalJMP(c, First, x, arch)
                       ELSE IF Relative(Unhooked(body)[x]) THEN Relocate(Unhooked(body)[x], N, arch)
                       ELSE Unhooked(body)[x]
  BY <1>1, <1>2, <1>4, <1>7, CopiedAt
<1>13. ASSUME NEW x \in DOMAIN body, x < First
       PROVE  /\ N + x \in DOMAIN code
              /\ code[N + x] = IF Relative(Unhooked(body)[x]) THEN Relocate(Unhooked(body)[x], N, arch)
                               ELSE Unhooked(body)[x]
  <2>1. ~ Conditional(Unhooked(body)[x])
    BY <1>1, <1>13, HookableFirst
  <2>2. N + x \in DOMAIN b /\ b[N + x] = r[N + x]
    BY <1>9, <1>12, <1>13 DEF Beside
  <2> QED BY <1>11, <1>12, <1>13, <2>1, <2>2
<1>14. N + n \in DOMAIN code /\ code[N + n] = WriteJMP(arch, N + n, n)
  <2>1. N + n \notin DOMAIN r
    <3>1. SUFFICES ASSUME NEW x \in DOMAIN body, x < First, N + n = N + x
                   PROVE  FALSE
      BY <1>1, <1>2, <1>4, <1>7, CopiedAt
    <3>2. x \in Nat /\ x < n
      BY <1>1, <1>6, <3>1, Original
    <3> QED BY ONLY <3>1, <3>2, N \in Nat, n \in 1 .. 256
  <2>2. N + n \in DOMAIN j /\ j[N + n] = WriteJMP(arch, N + n, n)
    BY <1>7 DEF One
  <2>3. N + n \in DOMAIN b /\ b[N + n] = j[N + n]
    BY <1>8, <1>9, <2>1, <2>2 DEF Beside
  <2> QED BY <1>11, <2>2, <2>3
<1> QED BY <1>2, <1>3, <1>6, <1>13, <1>14

\* A copied instruction is the function's own, with the same operand.
LEMMA CopyKeeps ==
  ASSUME Shape, Hookable(arch, body), InReach(arch, body), NEW x \in DOMAIN body, x < First,
         NEW i, i = Unhooked(body)[x], NEW T \in Nat, NEW h \in Hooks, T = Trampoline(h),
         NEW k, k = (IF Relative(i) THEN Relocate(i, T, arch) ELSE i)
  PROVE  /\ k.home = x /\ k.op = i.op /\ k.size = i.size
         /\ Relative(i) => k.disp = i.disp - T
         /\ i.op \in {"call", "access"} => T + x + k.disp = x + i.disp
<1>1. /\ i = [op |-> i.op, size |-> i.size, home |-> i.home, width |-> i.width, disp |-> i.disp]
      /\ i.op \in {"plain", "call", "access", "jmp", "cond", "ret"}
      /\ i.size \in 1 .. 15 /\ i.disp \in Int /\ x \in Nat /\ i.home = x
  BY UnhookedAt
<1>2. First \in 1 .. 256 /\ i.op # "cond" /\ (Relative(i) => i.width # 8)
  BY HookableFirst DEF Conditional
<1>3. PICK z \in 1 .. 15, m \in Int : z = i.size /\ m = i.disp
  BY <1>1
<1>4. k.op = i.op /\ k.size = i.size /\ k.home = x
  BY <1>1 DEF Relocate
<1>5. ASSUME Relative(i)
      PROVE  k.disp = m - T /\ k.disp = i.disp - T
  <2>1. PICK n \in Int : n = m - T
    OBVIOUS
  <2>2. k = [i EXCEPT !.disp = Wrap(n, i.width, arch)]
    BY <1>3, <1>5, <2>1 DEF Relocate
  <2>3. k.disp = Wrap(n, i.width, arch)
    BY <1>1, <2>2
  <2>4. k.disp = m - T
    <3>1. arch = "x64" => n \in -Reach .. Reach - 1
      BY <1>2, <1>3, <1>5, <2>1, CopiesReach DEF Conditional
    <3> QED BY <1>2, <1>5, <2>1, <2>3, <3>1, WrapFits
  <2>5. k.disp = i.disp - T
    BY ONLY <1>3, <2>4
  <2> QED BY <2>4, <2>5
<1>6. ASSUME i.op \in {"call", "access"}
      PROVE  T + x + k.disp = x + i.disp
  <2>1. k.disp = m - T
    BY <1>5, <1>6 DEF Relative
  <2>2. T + x + (m - T) = x + m
    BY ONLY <1>1, T \in Nat, m \in Int
  <2> QED BY <1>3, <2>1, <2>2
<1> QED BY <1>4, <1>5, <1>6

\* The copy leads where the instruction does: out, to what is not overwritten, or to its own copy.
LEMMA CopyFollows ==
  ASSUME Shape, Hookable(arch, body), InReach(arch, body), NEW x \in DOMAIN body, x < First,
         NEW i, i = Unhooked(body)[x], NEW T \in Nat, NEW h \in Hooks, T = Trampoline(h),
         NEW k, k = (IF Relative(i) THEN Relocate(i, T, arch) ELSE i), NEW taken \in BOOLEAN
  PROVE  /\ k.home = x /\ k.op = i.op
         /\ i.op \in {"call", "access"} => T + x + k.disp = x + i.disp
         /\ \/ Leads(k, T + x, taken) = Out /\ Leads(i, x, taken) = Out
            \/ /\ Leads(k, T + x, taken) = Leads(i, x, taken)
               /\ Leads(i, x, taken) \in DOMAIN body /\ Leads(i, x, taken) \notin 1 .. First - 1
            \/ /\ Leads(i, x, taken) \in DOMAIN body /\ Leads(i, x, taken) <= First
               /\ Leads(k, T + x, taken) = T + Leads(i, x, taken)
<1>1. /\ i = [op |-> i.op, size |-> i.size, home |-> i.home, width |-> i.width, disp |-> i.disp]
      /\ i.op \in {"plain", "call", "access", "jmp", "cond", "ret"}
      /\ i.size \in 1 .. 15 /\ i.disp \in Int /\ x \in Nat /\ i.home = x
  BY UnhookedAt
<1>2. First \in 1 .. 256 /\ i.op # "cond" /\ (Relative(i) => i.width # 8)
  BY HookableFirst DEF Conditional
<1>3. PICK z \in 1 .. 15, m \in Int : z = i.size /\ m = i.disp
  BY <1>1
<1>4. k.op = i.op /\ k.size = i.size /\ k.home = x
  BY CopyKeeps
<1>5. Relative(i) => k.disp = m - T
  BY <1>3, CopyKeeps
<1>6. i.op \in {"call", "access"} => T + x + k.disp = x + i.disp
  BY CopyKeeps
<1>7. CASE i.op = "ret"
  <2>1. Leads(k, T + x, taken) = Out /\ Leads(i, x, taken) = Out
    BY <1>4, <1>7, Returns
  <2> QED BY <1>4, <1>6, <2>1
<1>8. CASE i.op = "jmp"
  <2>1. Leads(i, x, taken) = x + z + m /\ Leads(i, x, taken) \in DOMAIN body
    BY <1>3, <1>8, BodyLeads
  <2>2. Leads(i, x, taken) \notin 1 .. First - 1
    <3>1. x + i.size + i.disp \notin 1 .. First - 1
      BY <1>8, HookableFirst
    <3> QED BY <1>3, <2>1, <3>1
  <2>3. Leads(k, T + x, taken) = T + x + z + k.disp
    BY <1>3, <1>4, <1>8, Jumps
  <2>4. k.disp = m - T
    BY <1>5, <1>8 DEF Relative
  <2>5. T + x + z + (m - T) = x + z + m
    BY ONLY <1>1, T \in Nat, m \in Int, z \in 1 .. 15
  <2> QED BY <1>4, <1>6, <2>1, <2>2, <2>3, <2>4, <2>5
<1>9. CASE i.op \in {"plain", "call", "access"}
  <2>1. Leads(i, x, taken) = x + z /\ x + z \in DOMAIN body
    BY <1>3, <1>9, BodyLeads
  <2>2. Leads(k, T + x, taken) = T + x + z
    BY <1>3, <1>4, <1>9, FallsThrough
  <2>3. T + x + z = T + (x + z)
    BY ONLY <1>1, T \in Nat, z \in 1 .. 15
  <2>4. x + z <= First
    <3>1. Cut(Unhooked(body), First) /\ DOMAIN Unhooked(body) = DOMAIN body
      BY <1>2, FirstFits, Original
    <3> QED BY <1>3, <3>1 DEF Cut
  <2> QED BY <1>4, <1>6, <2>1, <2>2, <2>3, <2>4
<1> QED BY <1>1, <1>2, <1>7, <1>8, <1>9

\* What is left of the function is the function's own, from the end of what was copied on.
LEMMA RestFollows ==
  ASSUME HookInv, NoneStuck, CopyInv, Hookable(arch, body), NEW a \in DOMAIN body, a # 0,
         Present # {} => a \notin 1 .. First - 1
  PROVE  /\ a \in DOMAIN code /\ code[a] = Unhooked(body)[a]
         /\ Present # {} => First <= a
<1>1. Shape /\ Rest /\ First \in 1 .. 256 /\ a \in Nat /\ a \in Near
  BY HookableFirst, Original DEF HookInv, CopyInv
<1>2. CASE Present = {}
  <2>1. live = <<>> /\ patching = Nothing
    <3>1. live \in Seq(Hooks) /\ ToSet(live) = {} /\ Pending = {}
      BY <1>1, <1>2 DEF Present, Shape
    <3>2. live = <<>>
      <4>1. {live[j] : j \in 1 .. Len(live)} = {}
        BY <3>1, LiveSet
      <4>2. live # <<>> => live[Len(live)] \in {live[j] : j \in 1 .. Len(live)}
        BY <3>1, FrontLive
      <4> QED BY <4>1, <4>2
    <3>3. ~ Begun
      BY <3>1 DEF Pending
    <3> QED BY <1>1, <3>2, <3>3 DEF Shape
  <2> QED BY <1>1, <1>2, <2>1, EntryOpen, Original
<1>3. CASE Present # {}
  <2>1. First <= a
    <3>1. PICK n \in 1 .. 256 : n = First
      BY <1>1
    <3>2. a \in Nat /\ a \notin 1 .. n - 1
      BY <1>1, <1>3, <3>1
    <3>3. n <= a
      BY ONLY <3>2, a # 0, n \in 1 .. 256
    <3> QED BY <3>1, <3>3
  <2>2. a \in DOMAIN code
    BY <1>1, <2>1 DEF Rest
  <2>3. ~ (a < First)
    BY <1>1, <2>1
  <2> QED BY <1>1, <2>1, <2>2, <2>3 DEF Rest
<1> QED BY <1>2, <1>3

\* Its instructions do not lead back into what was copied, but to the entry.
LEMMA RestLeads ==
  ASSUME Shape, Hookable(arch, body), NEW x \in DOMAIN body, NEW taken \in BOOLEAN, x = 0 \/ First <= x,
         x # 0 \/ Present = {},
         NEW b, b = Leads(Unhooked(body)[x], x, taken)
  PROVE  b = Out \/ (b \in DOMAIN body /\ (Present # {} => b \notin 1 .. First - 1))
<1>1. PICK i : i = Unhooked(body)[x]
  OBVIOUS
<1>2. /\ i.op \in {"plain", "call", "access", "jmp", "cond", "ret"}
      /\ i.size \in 1 .. 15 /\ i.disp \in Int /\ x \in Nat
  BY <1>1, UnhookedAt
<1>3. CASE i.op = "ret"
  BY <1>1, <1>3, Returns
<1>4. CASE i.op = "jmp" \/ (i.op = "cond" /\ taken)
  <2>1. b = x + i.size + i.disp /\ b \in DOMAIN body
    BY <1>1, <1>4, BodyLeads
  <2>2. x + i.size + i.disp \notin 1 .. First - 1
    BY <1>1, <1>4, HookableFirst
  <2> QED BY <2>1, <2>2
<1>5. CASE i.op \notin {"ret", "jmp"} /\ (i.op = "cond" => ~ taken)
  <2>1. b = x + i.size /\ b \in DOMAIN body
    BY <1>1, <1>5, BodyLeads
  <2>2. ASSUME Present # {}
        PROVE  b \notin 1 .. First - 1
    <3>1. First <= x /\ First \in 1 .. 256
      BY <1>2, <2>2, HookableFirst
    <3>2. PICK z \in 1 .. 15 : z = i.size
      BY <1>2
    <3>3. x + z \notin 1 .. First - 1
      BY ONLY <1>2, <3>1, z \in 1 .. 15
    <3> QED BY <2>1, <3>2, <3>3
  <2> QED BY <2>1, <2>2
<1> QED BY <1>2, <1>3, <1>4, <1>5

LEMMA FollowingTo ==
  ASSUME NEW t, UNCHANGED <<arch, body, memory>>, NEW a, NEW b, ip'[t] = a, home'[t] = b,
         \/ a = Out /\ b = Out
         \/ a \in DOMAIN body /\ b = a /\ (Present # {} => a \notin 1 .. First - 1)
         \/ \E i \in 1 .. Len(live) :
              b = 0 /\ (a = Callback(live[i]) \/ (i > 1 /\ a = Trampoline(live[i])))
         \/ /\ live # <<>> /\ b \in DOMAIN body /\ b <= First /\ a = Trampoline(live[1]) + b
  PROVE  Following(t)'
<1>1. /\ arch' = arch /\ body' = body /\ live' = live /\ patching' = patching
  BY DEF memory
<1>2. First' = First /\ Present' = Present
  BY <1>1, SameFunction DEF Present, Pending, Begun
<1>3. CASE a = Out /\ b = Out
  BY <1>3 DEF Following
<1>4. CASE a \in DOMAIN body /\ b = a /\ (Present # {} => a \notin 1 .. First - 1)
  BY <1>1, <1>2, <1>4 DEF Following
<1>5. ASSUME NEW i \in 1 .. Len(live), b = 0, a = Callback(live[i]) \/ (i > 1 /\ a = Trampoline(live[i]))
      PROVE  Following(t)'
  BY <1>1, <1>5 DEF Following, Callback, Trampoline
<1>6. CASE live # <<>> /\ b \in DOMAIN body /\ b <= First /\ a = Trampoline(live[1]) + b
  BY <1>1, <1>2, <1>6 DEF Following, Trampoline
<1> QED BY <1>3, <1>4, <1>5, <1>6

LEMMA RunFollows ==
  ASSUME HookInv, CopyInv, ThreadsOK, NoneStuck, Clear, Hookable(arch, body),
         NEW t \in Threads, Run(t), Following(t)
  PROVE  Following(t)'
<1>1. PICK a : a = ip[t]
  OBVIOUS
<1>2. PICK taken \in BOOLEAN :
        /\ ip' = [ip EXCEPT ![t] = Leads(code[a], a, taken)]
        /\ home' = [home EXCEPT ![t] =
             IF code[a].home = NoHome THEN @
             ELSE Leads(Unhooked(body)[code[a].home], code[a].home, taken)]
  BY <1>1 DEF Run
<1>3. a \in DOMAIN code /\ UNCHANGED <<arch, body, memory>>
  BY <1>1 DEF Run
<1>4. PICK b : b = Leads(code[a], a, taken)
  OBVIOUS
<1>5. /\ ip'[t] = b
      /\ code[a].home = NoHome => home'[t] = home[t]
      /\ code[a].home # NoHome =>
           home'[t] = Leads(Unhooked(body)[code[a].home], code[a].home, taken)
  BY <1>2, <1>4 DEF ThreadsOK
<1>6. Shape /\ live \in Seq(Hooks) /\ Len(live) \in Nat
  BY LiveSet DEF HookInv, Shape
<1>7. First \in 1 .. 256 /\ DOMAIN body \subseteq Nat /\ NoHome \notin Nat
  BY <1>6, HookableFirst, Original DEF NoHome
<1>8. CASE a \in DOMAIN body /\ home[t] = a /\ (Present # {} => a \notin 1 .. First - 1) /\ a # 0
  <2>1. code[a] = Unhooked(body)[a] /\ (Present # {} => First <= a)
    BY <1>8, RestFollows
  <2>2. code[a].home = a
    BY <1>6, <1>8, <2>1, UnhookedAt
  <2>3. home'[t] = b
    BY <1>4, <1>5, <1>7, <1>8, <2>1, <2>2
  <2>4. b = Out \/ (b \in DOMAIN body /\ (Present # {} => b \notin 1 .. First - 1))
    <3>1. CASE Present = {}
      <4>1. PICK i : i = Unhooked(body)[a]
        OBVIOUS
      <4>2. i.op \in {"plain", "call", "access", "jmp", "cond", "ret"}
        BY <1>6, <1>8, <4>1, UnhookedAt
      <4> QED BY <1>4, <1>6, <1>8, <2>1, <3>1, <4>1, <4>2, BodyLeads
    <3>2. CASE Present # {}
      BY <1>4, <1>6, <1>8, <2>1, <3>2, RestLeads
    <3> QED BY <3>1, <3>2
  <2> QED BY <1>3, <1>5, <2>3, <2>4, FollowingTo
<1>9. CASE a = 0 /\ home[t] = 0 /\ live = <<>>
  <2>1. code = Unhooked(body) /\ 0 \in DOMAIN body /\ patching = Nothing
    BY <1>3, <1>6, <1>9, EntryLeads, EntryOpen, Original DEF Body
  <2>2. Present = {}
    BY <1>6, <1>9, <2>1, LiveSet DEF Present, Pending, Begun, Nothing
  <2>3. code[a].home = a
    BY <1>6, <1>9, <2>1, UnhookedAt
  <2>4. home'[t] = b
    BY <1>4, <1>5, <1>7, <1>9, <2>1, <2>3
  <2>5. b = Out \/ (b \in DOMAIN body /\ (Present # {} => b \notin 1 .. First - 1))
    BY <1>4, <1>6, <1>9, <2>1, <2>2, RestLeads
  <2> QED BY <1>3, <1>5, <2>4, <2>5, FollowingTo
<1>10. CASE a = 0 /\ home[t] = 0 /\ live # <<>>
  <2>1. code[a].home = NoHome /\ b = Callback(live[Len(live)])
    BY <1>3, <1>4, <1>10, EntryLeads
  <2>2. Len(live) \in 1 .. Len(live) /\ home'[t] = 0
    BY <1>5, <1>6, <1>10, <2>1
  <2> QED BY <1>3, <1>5, <2>1, <2>2, FollowingTo
<1>11. ASSUME NEW i \in 1 .. Len(live), home[t] = 0,
              a = Callback(live[i]) \/ (i > 1 /\ a = Trampoline(live[i]))
       PROVE  Following(t)'
  <2>1. PICK h, g : h = live[i] /\ g = live[i - 1]
    OBVIOUS
  <2>2. a # Callback(h)
    BY <1>3, <1>6, <2>1, CodePlaces
  <2>3. i > 1 /\ a = Trampoline(h)
    BY <1>11, <2>1, <2>2
  <2>4. code[a].home = NoHome /\ b = Callback(g)
    BY <1>4, <2>1, <2>3, OlderTrampoline
  <2>5. PICK k \in 1 .. Len(live) : k = i - 1
    BY <1>6, <2>3
  <2>6. b = Callback(live[k]) /\ home'[t] = 0
    BY <1>5, <1>11, <2>1, <2>4, <2>5
  <2> QED BY <1>3, <1>5, <2>6, FollowingTo
<1>12. ASSUME live # <<>>, NEW x \in DOMAIN body, home[t] = x, x <= First, a = Trampoline(live[1]) + x
       PROVE  Following(t)'
  <2>1. PICK h, T : h = live[1] /\ T = Trampoline(h)
    OBVIOUS
  <2>2. h \in Hooks /\ T \in Nat
    BY <1>12, <2>1, FirstCopied
  <2>3. CASE x < First
    <3>1. PICK i : i = Unhooked(body)[x]
      OBVIOUS
    <3>2. PICK k : k = IF Relative(i) THEN Relocate(i, T, arch) ELSE i
      OBVIOUS
    <3>3. code[T + x] = k
      BY <1>12, <2>1, <2>3, <3>1, <3>2, FirstCopied
    <3>4. PICK y : y = Leads(i, x, taken)
      OBVIOUS
    <3>5. /\ k.home = x
          /\ \/ Leads(k, T + x, taken) = Out /\ y = Out
             \/ Leads(k, T + x, taken) = y /\ y \in DOMAIN body /\ y \notin 1 .. First - 1
             \/ y \in DOMAIN body /\ y <= First /\ Leads(k, T + x, taken) = T + y
      BY <1>6, <2>1, <2>2, <2>3, <3>1, <3>2, <3>4, CopyFollows DEF Clear
    <3>6. home'[t] = y /\ b = Leads(k, T + x, taken)
      BY <1>4, <1>5, <1>7, <1>12, <2>1, <3>1, <3>3, <3>4, <3>5
    <3> QED BY <1>3, <1>5, <1>12, <2>1, <3>5, <3>6, FollowingTo
  <2>4. CASE x = First
    <3>1. PICK n \in Nat : n = First
      BY <1>7
    <3>2. code[T + n] = WriteJMP(arch, T + n, n)
      BY <1>12, <2>1, <3>1, FirstCopied
    <3>3. T + n \in Int /\ arch \in Archs
      BY <1>6, <2>2, Original
    <3>4. Leads(code[T + n], T + n, taken) = n /\ code[T + n].home = NoHome
      BY <3>2, <3>3, WrittenJMP
    <3>5. b = x /\ home'[t] = x
      BY <1>4, <1>5, <1>12, <2>1, <2>4, <3>1, <3>4
    <3>6. x \notin 1 .. First - 1
      BY <1>7, <2>4
    <3> QED BY <1>3, <1>5, <3>5, <3>6, FollowingTo
  <2>5. x < First \/ x = First
    <3>1. PICK n \in Nat : n = First
      BY <1>7
    <3>2. x \in Nat /\ x <= n
      BY <1>7, <1>12, <3>1
    <3> QED BY <3>1, <3>2
  <2> QED BY <2>3, <2>4, <2>5
<1>13. a # Out
  BY <1>3, CodePlaces
<1> QED BY <1>1, <1>8, <1>9, <1>10, <1>11, <1>12, <1>13 DEF Following

LEMMA CallbackFollows ==
  ASSUME HookInv, CopyInv, ThreadsOK, NoneStuck, Clear, Hookable(arch, body),
         NEW t \in Threads, NEW h \in Hooks, RunCallback(t, h), Following(t)
  PROVE  Following(t)'
<1>1. Shape /\ live \in Seq(Hooks) /\ Len(live) \in Nat
  BY LiveSet DEF HookInv, Shape
<1>2. /\ ip[t] = Callback(h) /\ ip'[t] = Trampoline(h) /\ home'[t] = home[t]
      /\ UNCHANGED <<arch, body, memory>>
  BY DEF RunCallback, ThreadsOK
<1>3. /\ Callback(h) \in Int /\ Callback(h) < -10
      /\ \A g \in Hooks : Trampoline(g) \in Nat /\ (Callback(g) = Callback(h) => g = h)
  BY Apart
<1>4. 0 \in DOMAIN body /\ DOMAIN body \subseteq Nat /\ First \in 1 .. 256
  BY <1>1, Original, HookableFirst DEF Body
<1>5. \A i \in 1 .. Len(live) : live[i] \in Hooks /\ Trampoline(live[i]) \in Nat
  BY <1>1, <1>3
<1>6. ASSUME live # <<>>, NEW x \in DOMAIN body
      PROVE  ip[t] # Trampoline(live[1]) + x
  <2>1. 1 \in 1 .. Len(live)
    BY <1>1, <1>6
  <2>2. PICK T \in Nat : T = Trampoline(live[1])
    BY <1>5, <2>1
  <2>3. T + x \in Nat
    BY <1>4
  <2> QED BY <1>2, <1>3, <2>2, <2>3
<1>7. PICK i \in 1 .. Len(live) : home[t] = 0 /\ ip[t] = Callback(live[i])
  <2>1. ip[t] \notin Nat /\ ip[t] # Out
    BY <1>2, <1>3 DEF Out
  <2> QED BY <1>4, <1>5, <1>6, <2>1 DEF Following
<1>8. h = live[i]
  BY <1>2, <1>3, <1>5, <1>7
<1>9. CASE i > 1
  BY <1>2, <1>7, <1>8, <1>9, FollowingTo
<1>10. CASE ~ (i > 1)
  <2>1. live # <<>> /\ h = live[1]
    BY <1>1, <1>8, <1>10
  <2>2. Trampoline(h) + 0 = Trampoline(h) /\ 0 <= First
    BY <1>3, <1>4
  <2> QED BY <1>2, <1>4, <1>7, <2>1, <2>2, FollowingTo
<1> QED BY <1>9, <1>10

\* Nobody strays who has not been caught.
LEMMA NoneStrays ==
  ASSUME HookInv, CopyInv, ThreadsOK, NoneStuck, Clear, Hookable(arch, body),
         NEW t \in Threads, Stray(t), Following(t), ~ caught'[t]
  PROVE  FALSE
<1>1. Shape /\ live \in Seq(Hooks) /\ Len(live) \in Nat
  BY LiveSet DEF HookInv, Shape
<1>2. /\ ip[t] \notin DOMAIN code /\ ip[t] # Out /\ \A h \in Hooks : ip[t] # Callback(h)
      /\ ip[t] = 0 => patching = Nothing
  BY DEF Stray, ThreadsOK
<1>3. ip[t] # 0
  BY <1>2, EntryOpen
<1>4. ~ (ip[t] \in DOMAIN body /\ (Present # {} => ip[t] \notin 1 .. First - 1))
  BY <1>2, <1>3, RestFollows
<1>5. ASSUME NEW i \in 1 .. Len(live), ip[t] = Callback(live[i]) \/ (i > 1 /\ ip[t] = Trampoline(live[i]))
      PROVE  FALSE
  <2>1. PICK h, g : h = live[i] /\ g = live[i - 1]
    OBVIOUS
  <2>2. h \in Hooks
    BY <1>1, <2>1
  <2>3. i > 1 => Trampoline(h) \in DOMAIN code
    BY <2>1, OlderTrampoline
  <2> QED BY <1>2, <1>5, <2>1, <2>2, <2>3
<1>6. ASSUME live # <<>>, NEW x \in DOMAIN body, x <= First, ip[t] = Trampoline(live[1]) + x
      PROVE  FALSE
  <2>1. PICK h, T : h = live[1] /\ T = Trampoline(h)
    OBVIOUS
  <2>2. PICK n \in Nat : n = First
    BY <1>1, HookableFirst
  <2>3. x \in Nat
    BY <1>1, Original
  <2>4. x < n \/ x = n
    BY <1>6, <2>2, <2>3
  <2>5. T + x \in DOMAIN code
    <3>1. CASE x < n
      BY <1>6, <2>1, <2>2, <3>1, FirstCopied
    <3>2. CASE x = n
      <4>1. T + First \in DOMAIN code
        BY <1>6, <2>1, FirstCopied
      <4> QED BY <2>2, <3>2, <4>1
    <3> QED BY <2>4, <3>1, <3>2
  <2> QED BY <1>2, <1>6, <2>1, <2>5
<1> QED BY <1>2, <1>4, <1>5, <1>6 DEF Following

\* Who was in what the first of the hooks writes over has been caught.
LEMMA BeginCatches ==
  ASSUME HookInv, CopyInv, NoneStuck, NEW h \in Hooks, HookBegin(h)
  PROVE  /\ First \in 1 .. 256
         /\ \E k \in Nat : EntrySize <= k /\ Catch(Span(0, k) \ {0})
<1>1. PICK L, S : Copied(h, L, S) /\ Catch(Span(0, IF S > 0 THEN 6 ELSE L) \ {0})
  BY DEF HookBegin, Copied
<1>2. Shape
  BY DEF HookInv
<1>3. PICK k : k = IF S > 0 THEN 6 ELSE L
  OBVIOUS
<1>4. /\ L = (IF Short THEN 0 ELSE L + S) /\ L + S > 0 /\ (S > 0 <=> Short)
      /\ live = <<>> => L + S = First
      /\ live # <<>> => L + S = EntrySize
  BY <1>1, NextCopied
<1>5. EntrySize \in {5, 6, 16} /\ (Short => EntrySize = 6) /\ First \in 0 .. 256
      /\ (First > 0 => EntrySize <= First)
  BY <1>2, FirstFits
<1>6. First > 0
  <2>1. ASSUME live # <<>>
        PROVE  First > 0
    <3>1. Len(live) \in 1 .. Len(live)
      BY <1>2, <2>1, FrontLive DEF Shape
    <3> QED BY <1>2, <3>1, CopiesOf
  <2> QED BY <1>4, <2>1
<1>7. k \in Nat /\ EntrySize <= k
  <2>1. CASE Short
    <3>1. k = 6
      BY <1>3, <1>4, <2>1
    <3> QED BY <1>5, <2>1, <3>1
  <2>2. CASE ~ Short
    <3>1. k = L + S
      BY <1>3, <1>4, <2>2
    <3> QED BY <1>4, <1>5, <1>6, <3>1
  <2> QED BY <2>1, <2>2
<1> QED BY <1>1, <1>3, <1>5, <1>6, <1>7

LEMMA FollowingKept ==
  ASSUME Shape, Hookable(arch, body), NEW t, Following(t), arch' = arch, body' = body,
         ip'[t] = ip[t], home'[t] = home[t],
         NEW k \in Nat, k <= Len(live), k <= Len(live'), Len(live') \in Nat,
         \A j \in 1 .. k : live'[j] = live[j],
         \A j \in 1 .. Len(live) : j > k => ip[t] # Callback(live[j])
                                            /\ ip[t] \notin Span(Trampoline(live[j]), Far),
         Present' # {} => Present # {} \/ (ip[t] \in DOMAIN body => ip[t] \notin 1 .. First - 1)
  PROVE  Following(t)'
<1>1. live \in Seq(Hooks) /\ Len(live) \in Nat
  BY LiveSet DEF Shape
<1>2. First' = First /\ First \in 1 .. 256 /\ DOMAIN body \subseteq Nat
  BY SameFunction, HookableFirst, Original
<1>3. CASE ip[t] = Out /\ home[t] = Out
  BY <1>3 DEF Following
<1>4. CASE ip[t] \in DOMAIN body /\ home[t] = ip[t] /\ (Present # {} => ip[t] \notin 1 .. First - 1)
  BY <1>2, <1>4 DEF Following
<1>5. ASSUME NEW i \in 1 .. Len(live), home[t] = 0,
             ip[t] = Callback(live[i]) \/ (i > 1 /\ ip[t] = Trampoline(live[i]))
      PROVE  Following(t)'
  <2>1. Trampoline(live[i]) \in Span(Trampoline(live[i]), Far)
    <3>1. live[i] \in Hooks
      BY <1>1
    <3>2. PICK h \in Hooks : h = live[i]
      BY <3>1
    <3>3. Trampoline(h) \in Span(Trampoline(h), Far)
      BY Apart
    <3> QED BY <3>2, <3>3
  <2>2. i <= k
    BY <1>1, <1>5, <2>1
  <2>3. i \in 1 .. k /\ i \in 1 .. Len(live')
    BY <1>1, <2>2
  <2>4. live'[i] = live[i]
    BY <2>3
  <2> QED BY <1>5, <2>3, <2>4 DEF Following, Callback, Trampoline
<1>6. ASSUME live # <<>>, NEW x \in DOMAIN body, home[t] = x, x <= First,
             ip[t] = Trampoline(live[1]) + x
      PROVE  Following(t)'
  <2>1. 1 \in 1 .. Len(live)
    BY <1>1, <1>6
  <2>2. PICK h \in Hooks : h = live[1]
    BY <1>1, <2>1
  <2>3. PICK T \in Nat : T = Trampoline(h)
    BY Apart
  <2>4. PICK n \in 1 .. 256 : n = First
    BY <1>2
  <2>5. x \in Nat /\ x <= n
    BY <1>2, <1>6, <2>4
  <2>6. T + x \in Span(T, Far)
    BY ONLY <2>5, T \in Nat, n \in 1 .. 256 DEF Span, Far
  <2>7. ip[t] \in Span(Trampoline(live[1]), Far)
    BY <1>6, <2>2, <2>3, <2>6
  <2>8. ~ (1 > k)
    BY <2>1, <2>7
  <2>9. 1 \in 1 .. k /\ live' # <<>>
    BY <2>8
  <2>10. live'[1] = live[1]
    BY <2>9
  <2> QED BY <1>2, <1>6, <2>9, <2>10 DEF Following, Trampoline
<1> QED BY <1>3, <1>4, <1>5, <1>6 DEF Following

LEMMA HooksKeepFollowing ==
  ASSUME HookInv, CopyInv, ThreadsOK, FollowInv, [Next]_vars, SetHook \/ UnsetHook \/ HookEnd \/ UnHookEnd
  PROVE  FollowInv'
<1>1. Shape /\ live \in Seq(Hooks) /\ Len(live) \in Nat
  BY LiveSet DEF HookInv, Shape
<1>2. arch' = arch /\ body' = body
  BY DEF SetHook, UnsetHook, HookBegin, UnHookBegin, HookEnd, UnHookEnd
<1>3. Hookable(arch, body)' <=> Hookable(arch, body)
  BY <1>2 DEF Hookable, Unhooked
<1> SUFFICES ASSUME NEW t \in Threads, Clear', Hookable(arch, body), ~ caught'[t]
             PROVE  Following(t)'
  BY <1>3 DEF FollowInv
<1>4. Clear /\ NoneStuck
  BY ClearKept
<1>5. /\ Len(live) <= Len(live) /\ \A j \in 1 .. Len(live) : ~ (j > Len(live))
  BY <1>1
<1>6. CASE SetHook
  <2>1. PICK h \in Hooks : HookBegin(h)
    BY <1>6 DEF SetHook
  <2>2. PICK k \in Nat : EntrySize <= k /\ Catch(Span(0, k) \ {0})
    BY <1>4, <2>1, BeginCatches
  <2>3. UNCHANGED <<ip, home, due>> /\ live' = live
    BY <2>1 DEF HookBegin
  <2>4. ~ caught[t] /\ ip[t] \notin Span(0, k) \ {0} /\ ip'[t] = ip[t] /\ home'[t] = home[t]
    BY <2>2, <2>3, CatchKeeps
  <2>5. Following(t)
    BY <1>4, <2>4 DEF FollowInv
  <2>6. ip[t] \in DOMAIN body => ip[t] \notin 1 .. First - 1
    <3>1. SUFFICES ASSUME NEW a \in DOMAIN body, a = ip[t], a \in 1 .. First - 1
                   PROVE  FALSE
      OBVIOUS
    <3>2. a \in Nat /\ First \in 1 .. 256 /\ EntrySize \in {5, 6, 16}
      BY <1>1, Original, HookableFirst, FirstFits
    <3>3. a < First /\ a # 0
      BY <3>1, <3>2
    <3>4. ~ (a < k)
      BY <2>4, <3>1, <3>2, <3>3 DEF Span
    <3>5. EntrySize <= a
      BY <2>2, <3>2, <3>4
    <3> QED BY <1>1, <3>2, <3>3, <3>5, NoneBetween
  <2> QED BY <1>1, <1>2, <1>5, <2>3, <2>4, <2>5, <2>6, FollowingKept
<1>7. CASE UnsetHook
  <2>1. PICK h \in Hooks : UnHookBegin(h)
    BY <1>7 DEF UnsetHook
  <2>2. PICK S : Catch(S)
    BY <2>1 DEF UnHookBegin
  <2>3. UNCHANGED <<ip, home, due>> /\ live' = live /\ live # <<>>
    BY <2>1 DEF UnHookBegin
  <2>4. ~ caught[t] /\ ip'[t] = ip[t] /\ home'[t] = home[t]
    BY <2>2, <2>3, CatchKeeps
  <2>5. Following(t)
    BY <1>4, <2>4 DEF FollowInv
  <2>6. Present # {}
    <3>1. Len(live) \in 1 .. Len(live)
      BY <1>1, <2>3
    <3> QED BY <1>1, <3>1, LiveSet DEF Present
  <2> QED BY <1>1, <1>2, <1>5, <2>3, <2>4, <2>5, <2>6, FollowingKept
<1>8. CASE HookEnd
  <2>1. PICK h : h = patching.hook
    OBVIOUS
  <2>2. live' = Append(live, h) /\ UNCHANGED threads /\ h \in Hooks \ ToSet(live) /\ Begun
    BY <1>1, <1>8, <2>1 DEF HookEnd, Shape, Begun, Nothing
  <2>3. /\ Len(live') = Len(live) + 1
        /\ \A j \in 1 .. Len(live) : live'[j] = live[j]
    BY <1>1, <2>2, AppendLive
  <2>4. UNCHANGED <<ip, home, due, caught>> /\ Present # {}
    BY <2>2 DEF threads, Present, Pending
  <2>5. Following(t)
    BY <1>4, <2>4 DEF FollowInv
  <2>6. Len(live) <= Len(live') /\ Len(live') \in Nat
    BY <1>1, <2>3
  <2> QED BY <1>1, <1>2, <1>5, <2>3, <2>4, <2>5, <2>6, FollowingKept
<1>9. CASE UnHookEnd
  <2>1. PICK h : h = patching.hook
    OBVIOUS
  <2>2. /\ live' = Front(live) /\ Catch(Span(Trampoline(h), Far) \cup {Callback(h)})
        /\ UNCHANGED <<ip, home, due>> /\ patching.writing = "original"
    BY <1>9, <2>1 DEF UnHookEnd
  <2>3. live # <<>> /\ h = Last(live)
    BY <1>1, <2>1, <2>2 DEF Shape, Begun, Nothing
  <2>4. PICK k \in Nat : k = Len(live) - 1
    BY <1>1, <2>3, FrontLive
  <2>5. /\ h = live[Len(live)] /\ Len(live') = k /\ Len(live) \in 1 .. Len(live)
        /\ \A j \in 1 .. k : live'[j] = live[j]
    BY <1>1, <2>2, <2>3, <2>4, FrontLive
  <2>6. /\ ~ caught[t] /\ ip'[t] = ip[t] /\ home'[t] = home[t]
        /\ ip[t] \notin Span(Trampoline(h), Far) \cup {Callback(h)}
    BY <2>2, CatchKeeps
  <2>7. Following(t)
    BY <1>4, <2>6 DEF FollowInv
  <2>8. Present # {}
    BY <1>1, <2>5, LiveSet DEF Present
  <2>9. \A j \in 1 .. Len(live) : j > k => live[j] = h
    <3>1. \A j \in 1 .. Len(live) : j > k => j = Len(live)
      BY <1>1, <2>4
    <3> QED BY <2>5, <3>1
  <2>10. k <= Len(live) /\ k <= Len(live') /\ Len(live') \in Nat
    BY <1>1, <2>4, <2>5
  <2> QED BY <1>1, <1>2, <2>5, <2>6, <2>7, <2>8, <2>9, <2>10, FollowingKept
<1> QED BY <1>6, <1>7, <1>8, <1>9

LEMMA InitFollows == Init => FollowInv
<1> SUFFICES ASSUME Init, NEW t \in Threads
             PROVE  Following(t)
  BY DEF FollowInv
<1> QED BY DEF Init, Following

LEMMA FollowKept == HookInv /\ CopyInv /\ ThreadsOK /\ FollowInv /\ [Next]_vars => FollowInv'
<1> SUFFICES ASSUME HookInv, CopyInv, ThreadsOK, FollowInv, [Next]_vars
             PROVE  FollowInv'
  OBVIOUS
<1>1. CASE SetHook \/ UnsetHook \/ HookEnd \/ UnHookEnd
  BY <1>1, HooksKeepFollowing
<1>2. ASSUME UNCHANGED <<arch, body, memory>>, \A t \in Threads : caught[t] => caught'[t],
             \A t \in Threads : ~ caught'[t] /\ Following(t) /\ Clear /\ Hookable(arch, body) => Following(t)'
      PROVE  FollowInv'
  <2>1. Hookable(arch, body)' <=> Hookable(arch, body)
    BY <1>2 DEF Hookable, Unhooked
  <2>2. SUFFICES ASSUME NEW t \in Threads, Clear', Hookable(arch, body), ~ caught'[t]
                 PROVE  Following(t)'
    BY <2>1 DEF FollowInv
  <2>3. Clear
    BY <2>2, ClearKept
  <2>4. Following(t)
    BY <1>2, <2>2, <2>3 DEF FollowInv
  <2> QED BY <1>2, <2>2, <2>3, <2>4
<1>3. ASSUME UNCHANGED <<arch, body, memory>>, NEW t \in Threads, Following(t),
             ip'[t] = ip[t], home'[t] = home[t]
      PROVE  Following(t)'
  <2>1. PICK a, b : a = ip[t] /\ b = home[t]
    OBVIOUS
  <2> QED BY <1>3, <2>1, FollowingTo DEF Following
<1>4. CASE UNCHANGED vars
  <2>1. UNCHANGED <<arch, body, memory>> /\ UNCHANGED <<ip, home, caught>>
    BY <1>4 DEF vars, threads
  <2> QED BY <1>2, <1>3, <2>1
<1>5. ASSUME NEW s \in Threads,
             Call(s) \/ Run(s) \/ Stray(s) \/ \E h \in Hooks : RunCallback(s, h)
      PROVE  FollowInv'
  <2>1. UNCHANGED <<arch, body, memory>> /\ \A t \in Threads : caught[t] => caught'[t]
    BY <1>5 DEF Call, Run, Stray, RunCallback, ThreadsOK
  <2>2. ASSUME NEW t \in Threads, ~ caught'[t], Following(t), Clear, Hookable(arch, body)
        PROVE  Following(t)'
    <3>0. NoneStuck
      BY <2>2 DEF Clear
    <3>1. CASE t # s
      <4>1. ip'[t] = ip[t] /\ home'[t] = home[t]
        BY <1>5, <3>1 DEF Call, Run, Stray, RunCallback, ThreadsOK
      <4> QED BY <1>3, <2>1, <2>2, <4>1
    <3>2. CASE t = s /\ Call(t)
      <4>1. ip'[t] = 0 /\ home'[t] = 0
        BY <3>2 DEF Call, ThreadsOK
      <4>2. 0 \in DOMAIN body /\ 0 \notin 1 .. First - 1
        BY <2>2, HookableFirst, Original DEF HookInv, Body
      <4> QED BY <2>1, <4>1, <4>2, FollowingTo
    <3>3. CASE t = s /\ Run(t)
      BY <2>2, <3>0, <3>3, RunFollows
    <3>4. CASE t = s /\ Stray(t)
      BY <2>2, <3>0, <3>4, NoneStrays
    <3>5. CASE t = s /\ \E h \in Hooks : RunCallback(t, h)
      BY <2>2, <3>0, <3>5, CallbackFollows
    <3> QED BY <1>5, <3>1, <3>2, <3>3, <3>4, <3>5
  <2> QED BY <1>2, <2>1, <2>2
<1> QED BY <1>1, <1>4, <1>5 DEF Next

LEMMA FollowedAll == HookInv /\ CopyInv /\ FollowInv => Follows
<1> SUFFICES ASSUME HookInv, CopyInv, FollowInv, Hookable(arch, body), Clear, NoneStuck,
                    NEW t \in Threads, ~ caught[t]
             PROVE  /\ ip[t] # Lost
                    /\ ip[t] = Out <=> home[t] = Out
                    /\ ip[t] \in DOMAIN code /\ code[ip[t]].home # NoHome =>
                         LET i == code[ip[t]]
                             o == Unhooked(body)[home[t]]
                         IN /\ i.home = home[t]
                            /\ i.op \in {"call", "access"} => ip[t] + i.disp = home[t] + o.disp
  BY DEF Follows, Clear
<1>1. Shape /\ live \in Seq(Hooks) /\ Len(live) \in Nat /\ Following(t)
  BY LiveSet DEF HookInv, Shape, FollowInv
<1>2. PICK a, b : a = ip[t] /\ b = home[t]
  OBVIOUS
<1> SUFFICES /\ a # Lost
             /\ a = Out <=> b = Out
             /\ a \in DOMAIN code /\ code[a].home # NoHome =>
                  /\ code[a].home = b
                  /\ code[a].op \in {"call", "access"} => a + code[a].disp = b + Unhooked(body)[b].disp
  BY <1>2
<1>3. Out \notin Nat /\ Lost \notin Nat /\ Out # Lost /\ DOMAIN body \subseteq Nat /\ 0 \in Nat
  BY <1>1, Original DEF Out, Lost
<1>4. CASE a = Out /\ b = Out
  BY <1>3, <1>4, CodePlaces
<1>5. CASE a \in DOMAIN body /\ b = a /\ (Present # {} => a \notin 1 .. First - 1) /\ a # 0
  <2>1. code[a] = Unhooked(body)[a]
    BY <1>5, RestFollows
  <2>2. code[a].home = a
    BY <1>1, <1>5, <2>1, UnhookedAt
  <2> QED BY <1>3, <1>5, <2>1, <2>2
<1>6. CASE a = 0 /\ b = 0
  <2>1. ASSUME 0 \in DOMAIN code, live = <<>>
        PROVE  code[0] = Unhooked(body)[0] /\ code[0].home = 0
    <3>1. code = Unhooked(body) /\ 0 \in DOMAIN body
      BY <1>1, <2>1, EntryLeads, EntryOpen, Original
    <3> QED BY <1>1, <3>1, UnhookedAt
  <2>2. ASSUME 0 \in DOMAIN code, live # <<>>
        PROVE  code[0].home = NoHome
    BY <2>2, EntryLeads
  <2> QED BY <1>3, <1>6, <2>1, <2>2
<1>7. ASSUME NEW i \in 1 .. Len(live), b = 0, a = Callback(live[i]) \/ (i > 1 /\ a = Trampoline(live[i]))
      PROVE  /\ a # Lost /\ a # Out /\ b # Out
             /\ a \in DOMAIN code => code[a].home = NoHome
  <2>1. PICK h, g : h = live[i] /\ g = live[i - 1]
    OBVIOUS
  <2>2. h \in Hooks
    BY <1>1, <2>1
  <2>3. Callback(h) \in Int /\ Callback(h) < -10 /\ Trampoline(h) \in Nat /\ Callback(h) \notin DOMAIN code
    BY <2>2, Apart, CodePlaces
  <2>4. i > 1 => code[Trampoline(h)].home = NoHome
    BY <2>1, OlderTrampoline
  <2> QED BY <1>3, <1>7, <2>1, <2>3, <2>4 DEF Out, Lost
<1>8. CASE live # <<>> /\ b \in DOMAIN body /\ b <= First /\ a = Trampoline(live[1]) + b
  <2>1. PICK h, T : h = live[1] /\ T = Trampoline(h)
    OBVIOUS
  <2>2. T \in Nat /\ h \in Hooks /\ b \in Nat /\ T + b \in Nat /\ T + First \in DOMAIN code
    BY <1>3, <1>8, <2>1, FirstCopied
  <2>3. CASE b < First
    <3>1. PICK i : i = Unhooked(body)[b]
      OBVIOUS
    <3>2. PICK k : k = IF Relative(i) THEN Relocate(i, T, arch) ELSE i
      OBVIOUS
    <3>3. code[T + b] = k
      BY <1>8, <2>1, <2>3, <3>1, <3>2, FirstCopied
    <3>4. k.home = b /\ k.op = i.op /\ (i.op \in {"call", "access"} => T + b + k.disp = b + i.disp)
      <4>1. /\ Shape /\ Hookable(arch, body) /\ InReach(arch, body) /\ b \in DOMAIN body /\ b < First
            /\ T \in Nat /\ h \in Hooks /\ T = Trampoline(h)
        BY <1>1, <1>8, <2>1, <2>2, <2>3 DEF Clear
      <4> QED BY ONLY <4>1, <3>1, <3>2, CopyKeeps
    <3> QED BY <1>3, <1>8, <2>1, <2>2, <3>1, <3>3, <3>4
  <2>4. CASE b = First
    <3>1. PICK n \in Nat : n = First
      BY <2>2, <2>4
    <3>2. code[T + n] = WriteJMP(arch, T + n, n)
      BY <1>8, <2>1, <3>1, FirstCopied
    <3>3. T + n \in Int /\ arch \in Archs
      BY <1>1, <2>2, Original
    <3>4. code[T + n].home = NoHome
      BY <3>2, <3>3, WrittenJMP
    <3> QED BY <1>3, <1>8, <2>1, <2>2, <2>4, <3>1, <3>4
  <2>5. b < First \/ b = First
    <3>1. PICK n \in Nat : n = First
      <4>1. First \in 1 .. 256
        BY <1>1, HookableFirst
      <4> QED BY <4>1
    <3>2. b <= n
      BY <1>8, <3>1
    <3> QED BY <2>2, <3>1, <3>2
  <2> QED BY <2>3, <2>4, <2>5
<1>9. a = 0 \/ a # 0
  OBVIOUS
<1> QED BY <1>1, <1>2, <1>3, <1>4, <1>5, <1>6, <1>7, <1>8, <1>9 DEF Following

\* RelocateASM, the jump back and the jump over the function (PolyHook.cpp:20-56, 142-207): where no
\* conditional and no short jump is copied, nor jumped back into, and where, on x64, the displacements
\* that are relocated still fit into 32 bits (InReach; _Relocate truncates those that do not): however many hooks are put over each
\* other and taken away again while threads run, a thread that was not in the bytes that were overwritten
\* or freed executes the function's instructions, with the same operands, and returns when it would have.
THEOREM CopiesFollow == Spec => []Follows
<1>1. PassInv => ThreadsOK
  BY DEF PassInv
<1> QED BY <1>1, InitHooks, HooksKept, InitCopies, CopiesKept, InitPasses, PassKept, InitFollows, FollowKept,
           FollowedAll, PTL DEF Spec
=============================================================================
