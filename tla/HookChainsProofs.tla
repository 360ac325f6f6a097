-------------------------- MODULE HookChainsProofs --------------------------
(***************************************************************************)
(* Proof that the hooks that swap pointers keep what HookChains promises   *)
(* together: every step of SwapHooks puts one callback into chains, takes  *)
(* those of one hook out of them, or changes none.  The callbacks on a way *)
(* are in an order that hooks do not change, so that a chain is determined *)
(* by the set of the callbacks in it.                                      *)
(***************************************************************************)
EXTENDS SwapHooksProofs
-----------------------------------------------------------------------------
(***************************************************************************)
(* The order of the callbacks on a way: the detours of a piece of code,    *)
(* the newest first, then the code, then what it leads to.                 *)
(***************************************************************************)
OfADetour(x) == x \in Callbacks /\ setup[x.hook].type = "VFuncDetour"
Base(x) == IF OfADetour(x) THEN Rank(Source(x.hook)) ELSE Rank(x)
Own(x)  == IF OfADetour(x) THEN x.hook ELSE 0
Later(x, y) == Base(y) < Base(x) \/ (Base(x) = Base(y) /\ Own(y) < Own(x))
Sorted(q) == \A i, j \in DOMAIN q : i < j => Later(q[i], q[j])

LEMMA KeysOf == \A x : Base(x) \in Nat /\ Own(x) \in Nat
<1>1. \A x \in Callbacks : x.hook \in Nat
  BY SwapAssumption DEF Callbacks, Callback, Extra
<1> QED BY <1>1, RankOf DEF Base, Own, OfADetour

LEMMA LaterOrder ==
  /\ \A x, y : Later(x, y) => ~ Later(y, x)
  /\ \A x, y, z : Later(x, y) /\ Later(y, z) => Later(x, z)
<1>1. ASSUME NEW x, NEW y, Later(x, y) PROVE ~ Later(y, x)
  <2>1. PICK a \in Nat, b \in Nat, c \in Nat, d \in Nat :
          a = Base(x) /\ b = Base(y) /\ c = Own(x) /\ d = Own(y)
    BY KeysOf
  <2> QED BY <1>1, <2>1 DEF Later
<1>2. ASSUME NEW x, NEW y, NEW z, Later(x, y), Later(y, z) PROVE Later(x, z)
  <2>1. PICK a \in Nat, b \in Nat, c \in Nat, d \in Nat, e \in Nat, g \in Nat :
          /\ a = Base(x) /\ b = Base(y) /\ c = Own(x) /\ d = Own(y)
          /\ e = Base(z) /\ g = Own(z)
    BY KeysOf
  <2>2. b < a \/ (a = b /\ d < c)
    BY <1>2, <2>1 DEF Later
  <2>3. e < b \/ (b = e /\ g < d)
    BY <1>2, <2>1 DEF Later
  <2>4. e < a \/ (a = e /\ g < c)
    BY <2>1, <2>2, <2>3
  <2> QED BY <2>1, <2>4 DEF Later
<1> QED BY <1>1, <1>2

\* Nothing is in a sorted sequence twice, and its order tells the places.
LEMMA SortedOnce ==
  ASSUME NEW C, NEW q \in Seq(C), Sorted(q), NEW i \in DOMAIN q, NEW j \in DOMAIN q
  PROVE  /\ q[i] = q[j] => i = j
         /\ Later(q[i], q[j]) => i < j
<1>1. i < j \/ j < i \/ i = j
  OBVIOUS
<1>2. i < j => Later(q[i], q[j])
  BY DEF Sorted
<1>3. j < i => Later(q[j], q[i])
  BY DEF Sorted
<1>4. \A x : ~ Later(x, x)
  BY LaterOrder
<1> QED BY <1>1, <1>2, <1>3, <1>4, LaterOrder

\* There is one sorted sequence of what it holds.
LEMMA SortedSame ==
  ASSUME NEW C, NEW a \in Seq(C), NEW b \in Seq(C), Sorted(a), Sorted(b), ToSet(a) = ToSet(b)
  PROVE  a = b
<1> DEFINE Bad == {n \in Nat : n \in DOMAIN a /\ n \in DOMAIN b /\ a[n] # b[n]}
<1>1. \A n \in DOMAIN a : \E m \in DOMAIN b : b[m] = a[n]
  BY DEF ToSet
<1>2. \A n \in DOMAIN b : \E m \in DOMAIN a : a[m] = b[n]
  BY DEF ToSet
<1>3. Bad = {}
  <2>1. SUFFICES ASSUME Bad # {} PROVE FALSE
    OBVIOUS
  <2>2. PICK n \in Bad : \A k \in Bad : n <= k
    <3>1. Bad \subseteq Nat
      OBVIOUS
    <3> HIDE DEF Bad
    <3> QED BY <2>1, <3>1, LeastOne
  <2>3. n \in DOMAIN a /\ n \in DOMAIN b /\ a[n] # b[n] /\ n \in Nat
    BY <2>2
  <2>4. \A k \in DOMAIN a : k \in DOMAIN b /\ k < n => a[k] = b[k]
    BY <2>2, <2>3
  <2>5. PICK k \in DOMAIN b : b[k] = a[n]
    BY <1>1, <2>3
  <2>6. PICK m \in DOMAIN a : a[m] = b[n]
    BY <1>2, <2>3
  <2>7. n < k
    <3>1. SUFFICES ASSUME k < n PROVE FALSE
      BY <2>3, <2>5
    <3>2. k \in DOMAIN a
      BY <2>3, <2>5, <3>1
    <3>3. a[k] = a[n]
      BY <2>4, <2>5, <3>1, <3>2
    <3>4. k = n
      BY <2>3, <3>2, <3>3, SortedOnce
    <3> QED BY <2>3, <3>1, <3>4
  <2>8. n < m
    <3>1. SUFFICES ASSUME m < n PROVE FALSE
      BY <2>3, <2>6
    <3>2. m \in DOMAIN b
      BY <2>3, <2>6, <3>1
    <3>3. b[m] = b[n]
      BY <2>4, <2>6, <3>1, <3>2
    <3>4. m = n
      BY <2>3, <3>2, <3>3, SortedOnce
    <3> QED BY <2>3, <3>1, <3>4
  <2>9. Later(b[n], b[k]) /\ Later(a[n], a[m])
    BY <2>3, <2>5, <2>6, <2>7, <2>8 DEF Sorted
  <2> QED BY <2>5, <2>6, <2>9, LaterOrder
<1>4. \A n \in Nat : n \in DOMAIN a /\ n \in DOMAIN b => a[n] = b[n]
  BY <1>3
<1> HIDE DEF Bad
<1>5. ~ (Len(a) < Len(b))
  <2>1. SUFFICES ASSUME Len(a) < Len(b) PROVE FALSE
    OBVIOUS
  <2>2. PICK n : n = Len(a) + 1
    OBVIOUS
  <2>3. n \in DOMAIN b /\ n \notin DOMAIN a
    BY <2>1, <2>2
  <2>4. PICK m \in DOMAIN a : a[m] = b[n]
    BY <1>2, <2>3
  <2>5. m \in DOMAIN b /\ m \in Nat
    BY <2>1, <2>4
  <2>6. b[m] = b[n]
    BY <1>4, <2>4, <2>5
  <2> QED BY <2>3, <2>4, <2>5, <2>6, SortedOnce
<1>6. ~ (Len(b) < Len(a))
  <2>1. SUFFICES ASSUME Len(b) < Len(a) PROVE FALSE
    OBVIOUS
  <2>2. PICK n : n = Len(b) + 1
    OBVIOUS
  <2>3. n \in DOMAIN a /\ n \notin DOMAIN b
    BY <2>1, <2>2
  <2>4. PICK m \in DOMAIN b : b[m] = a[n]
    BY <1>1, <2>3
  <2>5. m \in DOMAIN a /\ m \in Nat
    BY <2>1, <2>4
  <2>6. a[m] = a[n]
    BY <1>4, <2>4, <2>5
  <2> QED BY <2>3, <2>4, <2>5, <2>6, SortedOnce
<1>7. Len(a) = Len(b)
  BY <1>5, <1>6
<1>8. \A n \in 1 .. Len(a) : a[n] = b[n]
  BY <1>4, <1>7
<1> QED BY <1>7, <1>8

LEMMA PieceOf ==
  ASSUME NEW C, NEW a \in Seq(C), NEW m \in Nat \ {0}, NEW n \in Nat, n <= Len(a), m <= n + 1,
         NEW r, r = SubSeq(a, m, n)
  PROVE  r \in Seq(C) /\ Len(r) = n - m + 1 /\ \A i \in 1 .. n - m + 1 : r[i] = a[i + m - 1]
<1>1. r \in Seq(C)
  OBVIOUS
<1>2. Len(r) = n - m + 1
  OBVIOUS
<1>3. \A i \in 1 .. n - m + 1 : r[i] = a[i + m - 1]
  <2> SUFFICES ASSUME NEW i \in 1 .. n - m + 1 PROVE r[i] = a[i + m - 1]
    OBVIOUS
  <2> QED OBVIOUS
<1> QED BY <1>1, <1>2, <1>3

\* A sorted sequence with one more element, which is not the last.
LEMMA SortedInserted ==
  ASSUME NEW C, NEW a \in Seq(C), NEW b \in Seq(C), Sorted(a), Sorted(b),
         NEW x, x \notin ToSet(a), ToSet(b) = ToSet(a) \cup {x},
         NEW y \in ToSet(b), Later(x, y)
  PROVE  Chains!Inserted(a, b, x)
<1>1. PICK k \in DOMAIN b : b[k] = x
  BY DEF ToSet
<1>2. PICK n \in DOMAIN b : b[n] = y
  BY DEF ToSet
<1>3. k < n
  BY <1>1, <1>2, SortedOnce
<1> DEFINE L == Len(b) - 1
           c == [i \in 1 .. L |-> IF i < k THEN b[i] ELSE b[i + 1]]
<1>4. L \in Nat /\ k \in 1 .. L /\ L + 1 = Len(b)
  BY <1>1, <1>2, <1>3
<1>5. \A i \in 1 .. L : i \in DOMAIN b /\ i + 1 \in DOMAIN b
  BY <1>4
<1>6. c \in Seq(C) /\ Len(c) = L /\ DOMAIN c = 1 .. L
  BY <1>4, <1>5
<1>7. Sorted(c)
  <2> SUFFICES ASSUME NEW i \in 1 .. L, NEW j \in 1 .. L, i < j PROVE Later(c[i], c[j])
    BY <1>6 DEF Sorted
  <2>1. PICK u \in DOMAIN b, v \in DOMAIN b : u < v /\ c[i] = b[u] /\ c[j] = b[v]
    <3>1. CASE i < k /\ j < k
      BY <1>5, <3>1
    <3>2. CASE i < k /\ ~ (j < k)
      <4>1. i < j + 1
        OBVIOUS
      <4> QED BY <1>5, <3>2, <4>1
    <3>3. CASE ~ (i < k)
      <4>1. i + 1 < j + 1 /\ ~ (j < k)
        BY <1>4, <3>3
      <4> QED BY <1>5, <3>3, <4>1
    <3> QED BY <3>1, <3>2, <3>3
  <2> QED BY <2>1 DEF Sorted
<1>8. ToSet(c) = ToSet(a)
  <2>1. ASSUME NEW i \in 1 .. L PROVE c[i] \in ToSet(b) /\ c[i] # x
    <3>1. PICK u \in DOMAIN b : u # k /\ c[i] = b[u]
      <4>1. CASE i < k
        BY <1>5, <4>1
      <4>2. CASE ~ (i < k)
        <5>1. i + 1 # k
          BY <1>4, <4>2
        <5> QED BY <1>5, <4>2, <5>1
      <4> QED BY <4>1, <4>2
    <3> QED BY <1>1, <3>1, SortedOnce DEF ToSet
  <2>2. ASSUME NEW z \in ToSet(b), z # x PROVE \E i \in 1 .. L : c[i] = z
    <3>1. PICK u \in DOMAIN b : b[u] = z
      BY DEF ToSet
    <3>2. u # k /\ u \in Nat /\ u >= 1 /\ u <= L + 1
      BY <1>1, <1>4, <2>2, <3>1
    <3>3. CASE u < k
      <4>1. u \in 1 .. L
        BY <1>4, <3>2, <3>3
      <4> QED BY <3>1, <3>3, <4>1
    <3>4. CASE k < u
      <4>1. PICK i : i = u - 1
        OBVIOUS
      <4>2. i \in 1 .. L /\ ~ (i < k) /\ i + 1 = u
        BY <1>4, <3>2, <3>4, <4>1
      <4> QED BY <3>1, <4>2
    <3> QED BY <1>4, <3>2, <3>3, <3>4
  <2>3. ToSet(c) = {c[i] : i \in 1 .. L}
    BY <1>6 DEF ToSet
  <2> HIDE DEF c
  <2> QED BY <2>1, <2>2, <2>3
<1> HIDE DEF c
<1>9. a = c
  BY <1>6, <1>7, <1>8, SortedSame
<1>10. \A i \in 1 .. L : a[i] = IF i < k THEN b[i] ELSE b[i + 1]
  BY <1>9 DEF c
<1>11. Len(a) = L /\ DOMAIN a = 1 .. L
  BY <1>6, <1>9
<1> HIDE DEF L
<1> DEFINE d == SubSeq(a, 1, k - 1) \o <<x>> \o SubSeq(a, k, Len(a))
<1>12. PICK r, s : r = SubSeq(a, 1, k - 1) /\ s = SubSeq(a, k, Len(a))
  OBVIOUS
<1>13. /\ r \in Seq(C) /\ Len(r) = k - 1 /\ \A i \in 1 .. k - 1 : r[i] = a[i]
       /\ s \in Seq(C) /\ Len(s) = L - k + 1 /\ \A i \in 1 .. L - k + 1 : s[i] = a[i + k - 1]
  <2>1. k - 1 \in Nat /\ k - 1 <= L /\ k \in Nat \ {0} /\ k <= L + 1 /\ L \in Nat
    BY <1>4
  <2>2. (k - 1) - 1 + 1 = k - 1 /\ \A i \in 1 .. k - 1 : i + 1 - 1 = i
    BY <1>4
  <2>3. r \in Seq(C) /\ Len(r) = k - 1 /\ \A i \in 1 .. k - 1 : r[i] = a[i]
    <3>1. /\ r \in Seq(C) /\ Len(r) = (k - 1) - 1 + 1
          /\ \A i \in 1 .. (k - 1) - 1 + 1 : r[i] = a[i + 1 - 1]
      <4>1. 1 \in Nat \ {0} /\ 1 <= (k - 1) + 1
        BY <2>1
      <4> QED BY <1>11, <1>12, <2>1, <4>1, PieceOf
    <3> QED BY <2>2, <3>1
  <2>4. s \in Seq(C) /\ Len(s) = L - k + 1 /\ \A i \in 1 .. L - k + 1 : s[i] = a[i + k - 1]
    <3>1. s = SubSeq(a, k, L) /\ L <= Len(a)
      BY <1>11, <1>12, <2>1
    <3> QED BY <2>1, <3>1, PieceOf
  <2> QED BY <2>3, <2>4
<1>14. x \in C
  BY <1>1
<1>15. b = r \o <<x>> \o s
  <2>1. PICK q : q = r \o <<x>>
    OBVIOUS
  <2>2. q \in Seq(C) /\ Len(q) = k /\ q[k] = x /\ \A i \in 1 .. k - 1 : q[i] = r[i]
    BY <1>4, <1>13, <1>14, <2>1
  <2>3. PICK w : w = q \o s
    OBVIOUS
  <2>4. /\ w \in Seq(C) /\ Len(w) = L + 1
        /\ \A i \in 1 .. k : w[i] = q[i]
        /\ \A i \in k + 1 .. L + 1 : w[i] = s[i - k]
    <3>1. /\ w \in Seq(C) /\ Len(w) = Len(q) + Len(s)
          /\ \A i \in 1 .. Len(q) : w[i] = q[i]
          /\ \A i \in Len(q) + 1 .. Len(q) + Len(s) : w[i] = s[i - Len(q)]
      <4>1. q \in Seq(C) /\ s \in Seq(C) /\ w = q \o s
        BY <1>13, <2>2, <2>3
      <4> QED BY ONLY <4>1, JoinOf
    <3>2. PICK m \in Nat : m = Len(s) /\ k + m = L + 1
      BY <1>4, <1>13
    <3>3. Len(q) = k /\ Len(w) = k + m
      BY <2>2, <3>1, <3>2
    <3>4. Len(w) = L + 1 /\ Len(q) + Len(s) = L + 1
      BY <3>2, <3>3
    <3>5. \A i \in 1 .. k : w[i] = q[i]
      BY ONLY <3>1, <3>3
    <3>6. \A i \in k + 1 .. L + 1 : w[i] = s[i - k]
      BY ONLY <3>1, <3>3, <3>4
    <3> QED BY ONLY <3>1, <3>4, <3>5, <3>6
  <2>5. \A i \in 1 .. L + 1 : w[i] = b[i]
    <3> SUFFICES ASSUME NEW i \in 1 .. L + 1 PROVE w[i] = b[i]
      OBVIOUS
    <3>1. CASE i < k
      <4>1. i \in 1 .. k - 1 /\ i \in 1 .. k /\ i \in 1 .. L
        BY <1>4, <3>1
      <4> QED BY <1>10, <1>13, <2>2, <2>4, <3>1, <4>1
    <3>2. CASE i = k
      <4>1. k \in 1 .. k
        BY <1>4
      <4> QED BY <1>1, <2>2, <2>4, <3>2, <4>1
    <3>3. CASE k < i
      <4>1. PICK j : j = i - 1
        OBVIOUS
      <4>2. /\ i \in k + 1 .. L + 1 /\ i - k \in 1 .. L - k + 1 /\ (i - k) + k - 1 = j
            /\ j \in 1 .. L /\ ~ (j < k) /\ j + 1 = i
        BY <1>4, <3>3, <4>1
      <4>3. w[i] = s[i - k] /\ s[i - k] = a[j]
        BY <1>13, <2>4, <4>2
      <4> QED BY <1>10, <4>2, <4>3
    <3> QED BY <1>4, <3>1, <3>2, <3>3
  <2>6. b = w
    BY <1>4, <2>4, <2>5
  <2> QED BY <2>1, <2>3, <2>6
<1>16. k \in DOMAIN a
  BY <1>4, <1>11
<1> QED BY <1>12, <1>15, <1>16 DEF Chains!Inserted

\* A sorted sequence without some of its elements.
LEMMA SortedWithout ==
  ASSUME NEW C, NEW a \in Seq(C), NEW b \in Seq(C), Sorted(a), Sorted(b), NEW h, NEW s,
         ToSet(b) = {x \in ToSet(a) : x = Function(s) \/ x.hook # h}
  PROVE  Chains!Without(a, b, h, s)
<1> DEFINE at == [i \in DOMAIN b |-> CHOOSE k \in DOMAIN a : a[k] = b[i]]
<1>1. \A i \in DOMAIN b : at[i] \in DOMAIN a /\ a[at[i]] = b[i]
  <2> SUFFICES ASSUME NEW i \in DOMAIN b PROVE \E k \in DOMAIN a : a[k] = b[i]
    OBVIOUS
  <2>1. b[i] \in ToSet(a)
    BY DEF ToSet
  <2> QED BY <2>1 DEF ToSet
<1>2. at \in [DOMAIN b -> DOMAIN a]
  BY <1>1
<1> HIDE DEF at
<1>3. \A i, j \in DOMAIN b : i < j => at[i] < at[j]
  <2> SUFFICES ASSUME NEW i \in DOMAIN b, NEW j \in DOMAIN b, i < j PROVE at[i] < at[j]
    OBVIOUS
  <2>1. Later(b[i], b[j])
    BY DEF Sorted
  <2>2. Later(a[at[i]], a[at[j]]) /\ at[i] \in DOMAIN a /\ at[j] \in DOMAIN a
    BY <1>1, <2>1
  <2> QED BY <2>2, SortedOnce
<1>4. \A k \in DOMAIN a : (\E i \in DOMAIN b : at[i] = k) <=> a[k] = Function(s) \/ a[k].hook # h
  <2> SUFFICES ASSUME NEW k \in DOMAIN a
               PROVE  (\E i \in DOMAIN b : at[i] = k) <=> a[k] = Function(s) \/ a[k].hook # h
    OBVIOUS
  <2>1. a[k] \in ToSet(a)
    BY DEF ToSet
  <2>2. a[k] \in ToSet(b) <=> a[k] = Function(s) \/ a[k].hook # h
    BY <2>1
  <2>3. a[k] \in ToSet(b) <=> \E i \in DOMAIN b : b[i] = a[k]
    BY DEF ToSet
  <2>4. \A i \in DOMAIN b : b[i] = a[k] <=> at[i] = k
    BY <1>1, SortedOnce
  <2> QED BY <2>2, <2>3, <2>4
<1> QED BY <1>1, <1>2, <1>3, <1>4 DEF Chains!Without

-----------------------------------------------------------------------------
(***************************************************************************)
(* Every way is sorted.                                                    *)
(***************************************************************************)
LEMMA KeysAt ==
  ASSUME AllLead
  PROVE  /\ \A c \in Code : Known(c) => Base(c) = Rank(c) /\ Own(c) = 0
         /\ \A k \in Hooks : Detouring(k) =>
              /\ Base(Callback(k)) = Rank(Source(k)) /\ Own(Callback(k)) = k /\ k \in Nat \ {0}
<1>1. ASSUME NEW c \in Code, Known(c) PROVE Base(c) = Rank(c) /\ Own(c) = 0
  <2>1. ~ OfADetour(c)
    BY <1>1, KnownOriginal DEF OfADetour
  <2> QED BY <2>1 DEF Base, Own
<1>2. ASSUME NEW k \in Hooks, Detouring(k)
      PROVE  /\ Base(Callback(k)) = Rank(Source(k)) /\ Own(Callback(k)) = k /\ k \in Nat \ {0}
  <2>1. Callback(k) \in Callbacks /\ Callback(k).hook = k
    BY DEF Callbacks, Callback
  <2>2. OfADetour(Callback(k))
    BY <1>2, <2>1 DEF OfADetour, Detouring
  <2>3. Base(Callback(k)) = Rank(Source(Callback(k).hook)) /\ Own(Callback(k)) = Callback(k).hook
    BY <2>2 DEF Base, Own
  <2>4. k \in Nat \ {0}
    BY SwapAssumption
  <2> QED BY <2>1, <2>3, <2>4 DEF Source
<1> QED BY <1>1, <1>2

LEMMA SortedMore ==
  ASSUME NEW C, NEW c \in C, NEW q \in Seq(C), Sorted(q), \A x \in ToSet(q) : Later(c, x)
  PROVE  Sorted(<<c>> \o q)
<1>1. PICK e, w : e = <<c>> /\ w = e \o q
  OBVIOUS
<1>5. e \in Seq(C) /\ Len(e) = 1 /\ e[1] = c
  BY <1>1
<1>2. /\ w \in Seq(C) /\ Len(w) = 1 + Len(q)
      /\ w[1] = c /\ \A i \in 2 .. 1 + Len(q) : w[i] = q[i - 1]
  <2>1. /\ w \in Seq(C) /\ Len(w) = Len(e) + Len(q)
        /\ \A i \in 1 .. Len(e) : w[i] = e[i]
        /\ \A i \in Len(e) + 1 .. Len(e) + Len(q) : w[i] = q[i - Len(e)]
    BY <1>1, <1>5, JoinOf
  <2> QED BY <1>5, <2>1
<1>3. PICK n : n \in Nat /\ n = Len(q) /\ DOMAIN q = 1 .. n /\ DOMAIN w = 1 .. 1 + n
  <2>1. DOMAIN q = 1 .. Len(q) /\ Len(q) \in Nat
    OBVIOUS
  <2>2. DOMAIN w = 1 .. Len(w)
    BY <1>2
  <2> QED BY <1>2, <2>1, <2>2
<1>4. ASSUME NEW i \in DOMAIN w, NEW j \in DOMAIN w, i < j PROVE Later(w[i], w[j])
  <2>1. j \in 2 .. 1 + n /\ j - 1 \in 1 .. n
    BY <1>3, <1>4
  <2>2. CASE i = 1
    <3>1. w[j] = q[j - 1] /\ q[j - 1] \in ToSet(q)
      BY <1>2, <1>3, <2>1 DEF ToSet
    <3> QED BY <1>2, <2>2, <3>1
  <2>3. CASE i # 1
    <3>1. i \in 2 .. 1 + n /\ i - 1 \in 1 .. n /\ i - 1 < j - 1
      BY <1>3, <1>4, <2>3
    <3> QED BY <1>2, <1>3, <2>1, <3>1 DEF Sorted
  <2> QED BY <2>2, <2>3
<1> QED BY <1>1, <1>4 DEF Sorted

\* What may be passed from a place on.
Within(p, x) ==
  \/ Base(x) < Base(p.code)
  \/ /\ Base(x) = Base(p.code)
     /\ \/ p.at = "entry" /\ Own(p.code) = 0
        \/ Own(x) < Own(p.code)
        \/ Own(x) = Own(p.code) /\ p.at # "trampoline"

LEMMA WithinStep ==
  ASSUME AllLead, NEW f, NEW p, Toward(p, f), p # Done(f), NEW r, r = Leads(p, Links)
  PROVE  /\ \A x : r # Done(f) /\ Within(r, x) => Within(p, x) /\ (p.at = "body" => Later(p.code, x))
         /\ p.at = "body" => Within(p, p.code)
         /\ r = Done(f) => p = Body(f)
<1>1. CASE \E c \in Code : Known(c) /\ Fn(c) = f /\ p \in {Entry(c), Body(c)}
  <2>1. PICK c \in Code : Known(c) /\ Fn(c) = f /\ p \in {Entry(c), Body(c)}
    BY <1>1
  <2>2. Base(c) = Rank(c) /\ Own(c) = 0
    BY <2>1, KeysAt
  <2>3. CASE p = Entry(c)
    <3>1. r = Body(c) \/ \E k \in Patched(c) : r = Entry(Callback(k))
      BY <2>1, <2>3, PlaceLeads
    <3>2. CASE r = Body(c)
      BY <2>2, <2>3, <3>2, KeysOf, PlaceKinds DEF Within
    <3>3. ASSUME NEW k \in Patched(c), r = Entry(Callback(k)) PROVE
               /\ \A x : Within(r, x) => Within(p, x)
               /\ r # Done(f)
      <4>1. k \in Hooks /\ Detouring(k) /\ Source(k) = c
        BY <2>1, PatchedOf
      <4>2. Base(Callback(k)) = Base(c)
        BY <2>2, <4>1, KeysAt
      <4> QED BY <2>2, <2>3, <3>3, <4>2, PlaceKinds DEF Within
    <3> QED BY <2>3, <3>1, <3>2, <3>3, PlaceKinds
  <2>4. CASE p = Body(c)
    <3>1. CASE c \in Callbacks
      <4>1. PICK d \in Code : r = Entry(d) /\ Known(d) /\ Rank(d) < Rank(c)
        BY <2>1, <2>4, <3>1, PlaceLeads DEF LeadingBelow
      <4>2. Base(d) < Base(c) /\ Own(d) = 0 /\ Base(d) \in Nat /\ Base(c) \in Nat
        BY <2>2, <4>1, KeysAt, RankOf
      <4>3. \A x : Within(r, x) => Base(x) < Base(c)
        <5> SUFFICES ASSUME NEW x, Within(r, x) PROVE Base(x) < Base(c)
          OBVIOUS
        <5>1. Base(x) \in Nat /\ (Base(x) < Base(d) \/ Base(x) = Base(d))
          BY <4>1, KeysOf, PlaceKinds DEF Within
        <5> QED BY <4>2, <5>1
      <4> QED BY <2>4, <4>1, <4>3, PlaceKinds DEF Within, Later
    <3>2. CASE c \notin Callbacks
      BY <2>1, <2>4, <3>2, PlaceLeads, PlaceKinds DEF Within
    <3> QED BY <3>1, <3>2
  <2> QED BY <2>1, <2>3, <2>4
<1>2. CASE \E k \in Hooks : /\ Detouring(k) /\ Fn(Callback(k)) = f
                            /\ p \in {Entry(Callback(k)), Body(Callback(k)), Trampoline(k)}
  <2>1. PICK k \in Hooks : /\ Detouring(k) /\ Fn(Callback(k)) = f
                           /\ p \in {Entry(Callback(k)), Body(Callback(k)), Trampoline(k)}
    BY <1>2
  <2>2. /\ Base(Callback(k)) = Rank(Source(k)) /\ Own(Callback(k)) = k /\ k \in Nat \ {0}
        /\ p.code = Callback(k)
    BY <2>1, KeysAt, PlaceKinds
  <2>3. CASE p = Entry(Callback(k))
    <3>1. r = Body(Callback(k))
      BY <2>1, <2>3, PlaceLeads
    <3> QED BY <2>2, <2>3, <3>1, PlaceKinds DEF Within
  <2>4. CASE p = Body(Callback(k))
    <3>1. r = Trampoline(k)
      BY <2>1, <2>4, PlaceLeads
    <3> QED BY <2>2, <2>4, <3>1, PlaceKinds DEF Within, Later
  <2>5. CASE p = Trampoline(k)
    <3>1. r = trampoline[k]
      BY <2>1, <2>5, PlaceLeads
    <3>2. CASE r = Body(Source(k))
      <4>1. Source(k) \in Code /\ Known(Source(k))
        BY <2>1, DetourOf
      <4>2. Base(Source(k)) = Base(Callback(k)) /\ Own(Source(k)) = 0
        BY <2>2, <4>1, KeysAt
      <4>3. ASSUME NEW x, Within(r, x) PROVE Within(p, x)
        <5>1. Base(x) < Base(Callback(k)) \/ (Base(x) = Base(Callback(k)) /\ (Own(x) < 0 \/ Own(x) = 0))
          BY <3>2, <4>2, <4>3, PlaceKinds DEF Within
        <5>2. Own(x) \in Nat /\ (Own(x) < 0 \/ Own(x) = 0 => Own(x) < k)
          BY <2>2, KeysOf
        <5> QED BY <2>2, <5>1, <5>2 DEF Within
      <4> QED BY <2>5, <3>2, <4>3, PlaceKinds
    <3>3. ASSUME NEW j \in Patched(Source(k)), j < k, r = Entry(Callback(j))
          PROVE  r # Done(f) /\ \A x : Within(r, x) => Within(p, x)
      <4>1. Source(k) \in Code /\ Known(Source(k))
        BY <2>1, DetourOf
      <4>2. j \in Hooks /\ Detouring(j) /\ Source(j) = Source(k)
        BY <4>1, PatchedOf
      <4>3. Base(Callback(j)) = Base(Callback(k)) /\ Own(Callback(j)) = j /\ j \in Nat \ {0}
        BY <2>2, <4>2, KeysAt
      <4>4. ASSUME NEW x, Within(r, x) PROVE Within(p, x)
        <5>1. Base(x) < Base(Callback(k)) \/ (Base(x) = Base(Callback(k)) /\ (Own(x) < j \/ Own(x) = j))
          BY <3>3, <4>3, <4>4, PlaceKinds DEF Within
        <5>2. Own(x) \in Nat /\ (Own(x) < j \/ Own(x) = j => Own(x) < k)
          BY <2>2, <3>3, <4>3, KeysOf
        <5> QED BY <2>2, <5>1, <5>2 DEF Within
      <4> QED BY <3>3, <4>4, PlaceKinds
    <3> QED BY <2>1, <2>5, <3>1, <3>2, <3>3, PlaceLeads, PlaceKinds
  <2> QED BY <2>1, <2>3, <2>4, <2>5
<1> QED BY <1>1, <1>2 DEF Toward

\* The callbacks on the way from a place come in their order, and run one function.
WaySorted(f, p) ==
  /\ Way(p, Links) \in Seq(Code) /\ Sorted(Way(p, Links))
  /\ \A x \in Passes(p) : x \in Code /\ Fn(x) = f /\ Toward(Body(x), f) /\ Within(p, x)
  /\ p # Done(f) => f \in Passes(p)

LEMMA WaysSorted ==
  ASSUME AllLead, NEW f
  PROVE  \A p : Toward(p, f) => WaySorted(f, p)
<1> DEFINE Wrong(p) == Toward(p, f) /\ ~ WaySorted(f, p)
           Bad == {n \in Nat : \E p : Wrong(p) /\ StepsLeft(p) = n}
<1>1. \A p : Wrong(p) => StepsLeft(p) \in Bad
  BY StepsBound
<1>2. SUFFICES ASSUME Bad # {} PROVE FALSE
  BY <1>1
<1>3. PICK n \in Bad : \A k \in Bad : n <= k
  <2>1. Bad \subseteq Nat
    OBVIOUS
  <2> HIDE DEF Bad
  <2> QED BY <1>2, <2>1, LeastOne
<1>4. PICK p : Wrong(p) /\ StepsLeft(p) = n
  BY <1>3
<1>5. /\ Way(p, Links) \in Seq(Code)
      /\ \A x \in Passes(p) : x \in Code /\ Fn(x) = f /\ Toward(Body(x), f)
      /\ p = Done(f) => Way(p, Links) = <<>>
      /\ p # Done(f) => Way(p, Links) = (IF p.at = "body" THEN <<p.code>> ELSE <<>>)
                                           \o Way(Leads(p, Links), Links)
  BY <1>4, WayJoins
<1>6. p # Done(f)
  <2>1. SUFFICES ASSUME p = Done(f) PROVE WaySorted(f, p)
    BY <1>4
  <2>2. Way(p, Links) = <<>> /\ Passes(p) = {}
    BY <1>5, <2>1 DEF Passes, ToSet
  <2>3. Sorted(<<>>)
    BY DEF Sorted
  <2> QED BY <1>5, <2>1, <2>2, <2>3 DEF WaySorted
<1>7. PICK r : r = Leads(p, Links)
  OBVIOUS
<1>8. /\ Toward(r, f) /\ StepsLeft(r) < StepsLeft(p)
      /\ p.at = "body" => p.code \in Code /\ p = Body(p.code)
  BY <1>4, <1>6, <1>7, TowardLeads
<1>9. WaySorted(f, r)
  <2>1. SUFFICES ASSUME ~ WaySorted(f, r) PROVE FALSE
    OBVIOUS
  <2>2. StepsLeft(r) \in Bad
    BY <1>1, <1>8, <2>1
  <2>3. PICK a \in Nat, b \in Nat : a = StepsLeft(r) /\ b = n
    BY <1>3, <2>2
  <2>4. a < b /\ b <= a
    BY <1>3, <1>4, <1>8, <2>2, <2>3
  <2> QED BY <2>3, <2>4
<1>10. /\ \A x : r # Done(f) /\ Within(r, x) => Within(p, x) /\ (p.at = "body" => Later(p.code, x))
       /\ p.at = "body" => Within(p, p.code)
       /\ r = Done(f) => p = Body(f)
  BY <1>4, <1>6, <1>7, WithinStep
<1>11. Passes(p) = Passes(r) \cup (IF p.at = "body" THEN {p.code} ELSE {})
  BY <1>4, <1>6, <1>7, PassesOf
<1>12. r = Done(f) => Passes(r) = {}
  BY <1>8, PassesOf
<1> HIDE DEF Wrong, Bad
<1>13. \A x \in Passes(p) : Within(p, x)
  BY <1>9, <1>10, <1>11, <1>12 DEF WaySorted
<1>14. f \in Passes(p)
  <2>1. CASE r = Done(f)
    <3>1. p = Body(f)
      BY <1>10, <2>1
    <3>2. p.at = "body" /\ p.code = f
      BY <3>1, PlaceKinds
    <3> QED BY <1>11, <3>2
  <2>2. CASE r # Done(f)
    BY <1>9, <1>11, <2>2 DEF WaySorted
  <2> QED BY <2>1, <2>2
<1>15. Sorted(Way(p, Links))
  <2>1. PICK v : v = Way(r, Links) /\ v \in Seq(Code) /\ Sorted(v) /\ ToSet(v) = Passes(r)
    BY <1>9 DEF WaySorted, Passes
  <2>2. CASE p.at = "body"
    <3>1. PICK c \in Code : c = p.code
      BY <1>8, <2>2
    <3>2. Way(p, Links) = <<c>> \o v
      BY <1>5, <1>6, <1>7, <2>1, <2>2, <3>1
    <3>3. \A x \in ToSet(v) : Later(c, x)
      BY <1>9, <1>10, <1>12, <2>1, <2>2, <3>1 DEF WaySorted
    <3>4. Sorted(<<c>> \o v)
      BY <2>1, <3>3, SortedMore
    <3> QED BY <3>2, <3>4
  <2>3. CASE p.at # "body"
    <3>1. Way(p, Links) = <<>> \o v
      BY <1>5, <1>6, <1>7, <2>1, <2>3
    <3>2. <<>> \o v = v
      BY <2>1
    <3> QED BY <2>1, <3>1, <3>2
  <2> QED BY <2>2, <2>3
<1>16. WaySorted(f, p)
  BY <1>5, <1>13, <1>14, <1>15 DEF WaySorted
<1> QED BY <1>4, <1>16 DEF Wrong

-----------------------------------------------------------------------------
(***************************************************************************)
(* What a copy of a vtable has, and what is under it: the entry a hook has *)
(* written leads to what the entry of the vtable that was copied had then, *)
(* and that one has it still, but for VFuncSwap.                           *)
(***************************************************************************)
Since(n, x, i) == {k \in SwappedIn(x, i) : n < k}

\* What a hook has put into an entry of its copy that had c.
PutInto(g, i, c) ==
  IF i = setup[g].more /\ member[g].more # Wild THEN Entry(Extra(g))
  ELSE IF i = setup[g].index /\ status[g] = "on" THEN Entry(Callback(g)) ELSE Entry(c)

\* Over the same entry c lie the entry that was copied and that of the copy.
Beneath(g, i, c) ==
  /\ Layered(Since(g, member[g].vtable, i), Diverted, Origs, table[member[g].vtable][i], Entry(c))
  /\ Layered(SwappedIn(g, i), Diverted, Origs, table[g][i], PutInto(g, i, c))
  /\ i = setup[g].index => member[g].orig = Entry(c)
  /\ i = setup[g].more /\ member[g].more # Wild => member[g].more = Entry(c)

CopiesBeneath == \A g \in Hooks : Live(g) => \A i \in Indices : \E c \in Code : Beneath(g, i, c)

\* An entry is written by VFuncSwap, and written back.
LEMMA SinceStep ==
  ASSUME SwapInv, AllLead, setup \in Setups, NEW h \in Hooks, HookStep(h),
         NEW x \in {0} \cup Hooks, Live(x), NEW j \in Indices,
         x = h => ~ (DivertEntry(h) \/ DivertMore(h) \/ FreeNewVtable(h)),
         NEW n, WriteVFunc(h) \/ UnHookVFunc(h) => n < h, NEW base,
         Layered(Since(n, x, j), Diverted, Origs, table[x][j], base)
  PROVE  Layered(Since(n, x, j)', Diverted, Origs', table'[x][j], base)
<1>1. PICK v, i, m : v = member[h].vtable /\ i = setup[h].index /\ m = setup[h].more
  OBVIOUS
<1>2. PICK A, u, w : A = Since(n, x, j) /\ u = table[x][j] /\ w = table'[x][j]
  OBVIOUS
<1>3. Layered(A, Diverted, Origs, u, base) /\ A \in SUBSET Hooks
  BY <1>2 DEF Since, SwappedIn
<1>4. \A k \in A \ {h} : Origs'[k] = Origs[k]
  BY <1>3, StatusOf DEF Origs
<1>5. /\ WriteVFunc(h) /\ x = v /\ j = i => w = Entry(Callback(h))
      /\ UnHookVFunc(h) /\ x = v /\ j = i => w = member[h].orig
      /\ ~ ((WriteVFunc(h) \/ UnHookVFunc(h)) /\ x = v /\ j = i) => w = u
  BY <1>1, <1>2, TableStep
<1>6. CASE WriteVFunc(h) /\ x = v /\ j = i
  <2>1. Since(n, x, j)' = A \cup {h}
    <3>1. SwappedIn(x, j)' = SwappedIn(x, j) \cup {h}
      BY <1>1, <1>6, SwappedInStep
    <3> QED BY <1>2, <1>6, <3>1 DEF Since
  <2>2. At(h, "entry") /\ member' = member
    BY <1>6 DEF WriteVFunc
  <2>3. BusyWith(h) /\ busy.doing = "entry"
    BY <2>2, UnderWay
  <2>4. Origs'[h] = u
    BY <1>1, <1>2, <1>6, <2>2, <2>3 DEF BusyWith, Origs
  <2>5. \A k \in A : k < h
    <3>1. status[h] = "new"
      BY <2>3 DEF BusyWith, Setting
    <3> QED BY <1>2, <1>6, <3>1, OldOf DEF Since, SwappedIn, SetsVFunc
  <2>6. \A k \in A : Origs'[k] = Origs[k]
    BY <1>3, <2>2 DEF Origs
  <2>7. Diverted[h] = w
    BY <1>5, <1>6 DEF Diverted
  <2>8. Layered(A \cup {h}, Diverted, Origs', Diverted[h], base)
    BY <1>3, <2>4, <2>5, <2>6, LayerAdded
  <2> QED BY <1>2, <2>1, <2>7, <2>8
<1>7. CASE UnHookVFunc(h) /\ x = v /\ j = i
  <2>1. Since(n, x, j)' = A \ {h} /\ h \in A
    <3>1. SwappedIn(x, j)' = SwappedIn(x, j) \ {h} /\ h \in SwappedIn(x, j)
      BY <1>1, <1>7, SwappedInStep
    <3> QED BY <1>2, <1>7, <3>1 DEF Since
  <2>2. member' = member /\ status[h] = "on"
    BY <1>7 DEF UnHookVFunc, Newest
  <2>3. \A k \in A : k <= h
    BY <1>2, <2>2, NotSetting, OldOf DEF Since, SwappedIn
  <2>4. Origs[h] = w /\ Origs' = Origs
    BY <1>5, <1>7, <2>2 DEF Origs
  <2>5. Layered(A \ {h}, Diverted, Origs, Origs[h], base)
    BY <1>3, <2>1, <2>3, LayerRemoved
  <2> QED BY <1>2, <2>1, <2>4, <2>5
<1>8. CASE ~ ((WriteVFunc(h) \/ UnHookVFunc(h)) /\ x = v /\ j = i)
  <2>1. Since(n, x, j)' = A
    <3>1. SwappedIn(x, j)' = SwappedIn(x, j)
      BY <1>1, <1>8, SwappedInStep
    <3> QED BY <1>2, <3>1 DEF Since
  <2>2. w = u
    BY <1>5, <1>8
  <2>3. h \in A => Origs'[h] = Origs[h]
    <3>1. h \in A => status[h] = "on" /\ setup[h].type = "VFuncSwap"
      BY <1>2 DEF Since, SwappedIn
    <3>2. status[h] = "on" /\ setup[h].type = "VFuncSwap" => UnHookVFunc(h)
      BY KindOf, NotSetting DEF OfVFunc
    <3>3. UnHookVFunc(h) => member' = member
      BY DEF UnHookVFunc
    <3> QED BY <3>1, <3>2, <3>3 DEF Origs
  <2>4. \A k \in A : Origs'[k] = Origs[k]
    BY <1>4, <2>3
  <2> QED BY <1>2, <1>3, <2>1, <2>2, <2>4, LayerKept
<1> QED BY <1>6, <1>7, <1>8

\* The hook that takes a step is above no copy that is in use.
LEMMA VtableNot ==
  ASSUME SwapInv, AllLead, NEW h \in Hooks, HookStep(h), NEW g \in Hooks, Live(g)
  PROVE  /\ member[g].vtable \in {0} \cup Hooks /\ Live(member[g].vtable)
         /\ member[g].vtable # h /\ member[g].vtable < g
         /\ ~ CopyTable(h) \/ g # h
<1>1. PICK v : v = member[g].vtable
  OBVIOUS
<1>2. setup[g].type = "VTableSwap" /\ g # 0 /\ g \in Nat
  BY SwapAssumption DEF Live
<1>3. v = 0 \/ (v < g /\ v \in Pointed(setup[g].object))
  BY <1>1, <1>2 DEF AllLead, VtablesOlder
<1>4. v \in {0} \cup Hooks /\ Live(v) /\ v < g
  <2>1. CASE v = 0
    <3>1. Live(0)
      BY DEF Live
    <3>2. 0 < g
      BY <1>2
    <3> QED BY <2>1, <3>1, <3>2
  <2>2. CASE v \in Pointed(setup[g].object) /\ v < g
    BY <2>2, PointedLive
  <2> QED BY <1>3, <2>1, <2>2
<1>5. ~ (h < g)
  <2>1. SUFFICES ASSUME h < g PROVE FALSE
    OBVIOUS
  <2>2. h # g /\ h \in Nat
    <3>1. h \in Nat
      BY SwapAssumption
    <3>2. g \in Nat
      BY <1>2
    <3> QED BY ONLY <2>1, <3>1, <3>2
  <2>3. status[g] = "on"
    BY <1>2, <2>2, OldOf DEF Live
  <2>4. g < h \/ g <= h
    BY <2>3, OldOf
  <2> QED BY <1>2, <2>1, <2>2, <2>4
<1>6. v # h
  BY <1>4, <1>5
<1>7. ~ CopyTable(h) \/ g # h
  <2>1. CopyTable(h) => busy = Idle /\ status[h] = "new"
    BY DEF CopyTable, Begin
  <2> QED BY <1>2, <2>1, NoneAt DEF Live
<1> QED BY <1>1, <1>4, <1>6, <1>7

\* Nothing is above a copy, or above what it was copied from, when its hook is the newest.
NothingAbove ==
  \A h \in Hooks : (\A k \in Hooks : status[k] = "on" => k <= h) =>
    \A x, j : Since(h, x, j) = {} /\ SwappedIn(h, j) = {}

LEMMA NoneSince == AllLead => NothingAbove
<1> SUFFICES ASSUME AllLead, NEW h \in Hooks, \A k \in Hooks : status[k] = "on" => k <= h, NEW x, NEW j
             PROVE  Since(h, x, j) = {} /\ SwappedIn(h, j) = {}
  BY DEF NothingAbove
<1>1. ASSUME NEW k \in SwappedIn(x, j), h < k PROVE FALSE
  <2>1. k \in Hooks /\ status[k] = "on"
    BY DEF SwappedIn
  <2> QED BY <1>1, <2>1, SwapAssumption
<1>2. ASSUME NEW k \in SwappedIn(h, j) PROVE FALSE
  <2>1. k \in Hooks /\ setup[k].type = "VFuncSwap" /\ status[k] = "on" /\ member[k].vtable = h
    BY DEF SwappedIn
  <2>2. h < k
    BY <2>1 DEF AllLead, SwappedLead
  <2> QED BY <2>1, <2>2, SwapAssumption
<1>3. SwappedIn(h, j) = {}
  BY <1>2
<1>4. Since(h, x, j) = {}
  BY <1>1 DEF Since
<1> QED BY <1>3, <1>4

LEMMA NoneSinceNext == AllLead' => NothingAbove'
BY NoneSince, PTL

LEMMA NewestOf ==
  ASSUME SwapInv, NEW h \in Hooks, HookStep(h)
  PROVE  \A k \in Hooks : status[k] = "on" => k <= h
<1> SUFFICES ASSUME NEW k \in Hooks, status[k] = "on" PROVE k <= h
  OBVIOUS
<1>1. h \in Nat /\ k \in Nat
  BY SwapAssumption
<1>2. k < h \/ k <= h
  BY OldOf
<1> QED BY <1>1, <1>2

\* A vtable is copied as it is.
LEMMA Copied ==
  ASSUME SwapInv, AllLead, setup \in Setups, NEW h \in Hooks, HookStep(h), CopyTable(h),
         NEW t, t = vptr[setup[h].object]
  PROVE  /\ \A i \in Indices : table'[h][i] = table[t][i] /\ \E c \in Code : table[t][i] = Entry(c)
         /\ t \in {0} \cup Hooks /\ t # h /\ table'[t] = table[t]
<1>1. busy = Idle /\ status[h] = "new" /\ setup[h].type = "VTableSwap"
  BY DEF CopyTable, Begin
<1>2. t \in {0} \cup Hooks /\ Live(t)
  BY <1>1, EntryOf
<1>3. t # h
  BY <1>1, <1>2, NoneAt, SwapAssumption DEF Live
<1>4. PICK n : n = GetVFuncCount(Append(table[t], Null))
  OBVIOUS
<1>5. table' = [table EXCEPT ![h] = [i \in Indices |-> IF i <= n THEN table[t][i] ELSE Wild]]
  BY <1>4 DEF CopyTable
<1>6. IsVtable(table[t]) /\ \A i \in Indices : \E c \in Code : table[t][i] = Entry(c)
  BY <1>2 DEF AllLead, TablesLead, Leading
<1>7. \A i \in Indices : table[t][i] # Null
  <2>1. \A c : Entry(c) # Null
    BY DEF Entry, Null
  <2> QED BY <1>6, <2>1
<1>8. \A i \in Indices : i <= n
  BY <1>4, <1>6, <1>7, CountOf
<1>9. DOMAIN table = {0} \cup Hooks
  BY DEF SwapInv, Shape
<1> QED BY <1>2, <1>3, <1>5, <1>6, <1>8, <1>9

LEMMA CopiesBeneathStep ==
  ASSUME SwapInv, AllLead, setup \in Setups, CopiesBeneath, NEW h \in Hooks, HookStep(h)
  PROVE  CopiesBeneath'
<1>1. setup' = setup /\ Diverted' = Diverted
  BY KnownStep DEF Diverted
<1>2. SwapInv' /\ AllLead'
  BY LeadsStep, SwapInvStep DEF Next
<1> SUFFICES ASSUME NEW g \in Hooks, Live(g)', NEW i \in Indices PROVE \E c \in Code : Beneath(g, i, c)'
  BY DEF CopiesBeneath
<1>3. \A k \in Hooks : status[k] = "on" => k <= h
  BY NewestOf
<1>4. CASE CopyTable(h) /\ g = h
  <2>1. PICK t : t = vptr[setup[h].object] /\ member'[h].vtable = t
                 /\ member'[h].orig = table[t][setup[h].index]
    BY <1>4, MemberOf
  <2>2. PICK c \in Code : table[t][i] = Entry(c)
    BY <1>4, <2>1, Copied
  <2>3. table'[h][i] = Entry(c) /\ table'[t][i] = Entry(c)
    BY <1>4, <2>1, <2>2, Copied
  <2>4. \A k \in Hooks : status'[k] = "on" => k <= h
    BY <1>3, <1>4, StatusOf
  <2>5. Since(h, t, i)' = {} /\ SwappedIn(h, i)' = {}
    BY <1>2, <2>4, NoneSinceNext DEF NothingAbove
  <2>6. member'[h].more = Wild /\ status'[h] = "new"
    <3>1. status'[h] = "new"
      BY <1>4, StatusOf
    <3> QED BY <1>2, <3>1 DEF AllLead, SavedFirst
  <2>7. PutInto(h, i, c)' = Entry(c)
    BY <2>6 DEF PutInto
  <2>8. Beneath(h, i, c)'
    BY <1>1, <2>1, <2>2, <2>3, <2>5, <2>6, <2>7 DEF Beneath, Layered
  <2> QED BY <1>4, <2>8
<1>5. CASE ~ (CopyTable(h) /\ g = h)
  <2>1. Live(g) /\ setup[g].type = "VTableSwap" /\ ~ (FreeNewVtable(h) /\ g = h) /\ g # 0
    <3>1. Live(g) /\ ~ (FreeNewVtable(h) /\ g = h)
      BY <1>5, LiveStep
    <3> QED BY <3>1, SwapAssumption DEF Live
  <2>2. PICK v : v = member[g].vtable
    OBVIOUS
  <2>3. v \in {0} \cup Hooks /\ Live(v) /\ v # h /\ v < g
    BY <2>1, <2>2, VtableNot
  <2>4. PICK c \in Code : Beneath(g, i, c)
    BY <2>1 DEF CopiesBeneath
  <2>5. /\ member'[g].vtable = v
        /\ member'[g].orig = member[g].orig
        /\ ~ (DivertMore(h) /\ g = h) => member'[g].more = member[g].more
    <3>1. CASE g # h
      BY <2>2, <3>1, StatusOf
    <3>2. CASE g = h
      <4>1. ~ (SaveVFunc(h) \/ CopyTable(h) \/ SaveImport(h) \/ HookDetour(h))
        BY <1>5, <2>1, <3>2, KindOf DEF OfVFunc, SetsVFunc, OfDetour, OfImport, SetsImport
      <4> QED BY <2>2, <3>2, <4>1, MemberOf
    <3> QED BY <3>1, <3>2
  <2>6. WriteVFunc(h) \/ UnHookVFunc(h) => g < h /\ 0 < h /\ g # h
    <3>1. SUFFICES ASSUME WriteVFunc(h) \/ UnHookVFunc(h) PROVE g < h /\ 0 < h /\ g # h
      OBVIOUS
    <3>2. g # h
      BY <2>1, <3>1, KindOf DEF OfVFunc, SetsVFunc
    <3>3. status[g] = "on"
      BY <2>1, <3>2, OldOf DEF Live
    <3>4. g < h \/ g <= h
      BY <3>3, OldOf
    <3>5. g \in Nat /\ h \in Nat \ {0}
      BY SwapAssumption
    <3> QED BY <3>2, <3>4, <3>5
  <2>7. Layered(Since(g, v, i)', Diverted, Origs', table'[v][i], Entry(c))
    <3>1. Layered(Since(g, v, i), Diverted, Origs, table[v][i], Entry(c))
      BY <2>2, <2>4 DEF Beneath
    <3> QED BY <2>3, <2>6, <3>1, SinceStep
  <2>8. CASE g = h /\ DivertEntry(h)
    <3>1. /\ member'[h].more = Wild /\ member[h].more = Wild
          /\ status'[h] = "on" /\ status[h] = "new"
      <4>1. ~ DivertMore(h) /\ status[h] = "new" /\ status'[h] = "on"
        <5>1. status[h] = "new"
          BY <2>8, OldOf DEF SetsVTable
        <5>2. status'[h] = "on"
          BY <2>8, StatusOf
        <5> QED BY <5>1, <5>2 DEF DivertMore, Newest
      <4> QED BY <2>5, <2>8, <4>1 DEF AllLead, SavedFirst
    <3>2. /\ SwappedIn(h, i) = {} /\ SwappedIn(h, i)' = {}
      <4>1. ~ WriteVFunc(h) /\ ~ UnHookVFunc(h)
        BY <2>6, <2>8
      <4>2. SwappedIn(h, i) = {}
        BY <1>3, NoneSince DEF NothingAbove
      <4> QED BY <4>1, <4>2, SwappedInStep
    <3>3. table[h][i] = Entry(c)
      BY <2>4, <2>8, <3>1, <3>2 DEF Beneath, PutInto, Layered
    <3>4. table'[h][i] = IF i = setup[h].index THEN Entry(Callback(h)) ELSE table[h][i]
      <4>1. Written(table', table, h, setup[h].index, Entry(Callback(h)))
        BY <2>8 DEF DivertEntry, Written
      <4>2. IsVtable(table[h])
        BY <2>1, <2>8 DEF AllLead, TablesLead
      <4> QED BY <4>1, <4>2, EntryWritten
    <3>5. PutInto(h, i, c)' = table'[h][i]
      BY <1>1, <3>1, <3>3, <3>4 DEF PutInto
    <3>6. Layered(SwappedIn(h, i)', Diverted, Origs', table'[h][i], PutInto(h, i, c)')
      BY <3>2, <3>5 DEF Layered
    <3>7. /\ i = setup[h].index => member'[h].orig = Entry(c)
          /\ ~ (i = setup[h].more /\ member'[h].more # Wild)
      BY <2>4, <2>5, <2>8, <3>1 DEF Beneath
    <3>8. Beneath(g, i, c)'
      BY <1>1, <2>5, <2>7, <2>8, <3>6, <3>7 DEF Beneath
    <3> QED BY <3>8
  <2>9. CASE g = h /\ DivertMore(h)
    <3>1. status'[h] = "on" /\ status[h] = "on"
      BY <2>9, StatusOf DEF DivertMore, Newest
    <3>2. /\ SwappedIn(h, i) = {} /\ SwappedIn(h, i)' = {} /\ Since(h, v, i) = {}
      <4>1. ~ WriteVFunc(h) /\ ~ UnHookVFunc(h)
        BY <2>6, <2>9
      <4>2. SwappedIn(h, i) = {} /\ Since(h, v, i) = {}
        BY <1>3, NoneSince DEF NothingAbove
      <4> QED BY <4>1, <4>2, SwappedInStep
    <3>3. table[v][i] = Entry(c) /\ table[h][i] = PutInto(h, i, c)
      BY <2>2, <2>4, <2>9, <3>2 DEF Beneath, Layered
    <3>4. table'[h][i] = IF i = setup[h].more THEN Entry(Extra(h)) ELSE table[h][i]
      <4>1. Written(table', table, h, setup[h].more, Entry(Extra(h)))
        BY <2>9 DEF DivertMore, Written
      <4>2. IsVtable(table[h])
        BY <2>1, <2>9 DEF AllLead, TablesLead
      <4> QED BY <4>1, <4>2, EntryWritten
    <3>5. member'[h].more = table[v][setup[h].more]
      BY <2>2, <2>9, MemberOf
    <3>6. i = setup[h].more => member'[h].more = Entry(c) /\ member'[h].more # Wild
      BY <3>3, <3>5 DEF Entry, Wild
    <3>7. PutInto(h, i, c)' = table'[h][i]
      BY <1>1, <3>1, <3>3, <3>4, <3>6 DEF PutInto
    <3>8. Layered(SwappedIn(h, i)', Diverted, Origs', table'[h][i], PutInto(h, i, c)')
      BY <3>2, <3>7 DEF Layered
    <3>9. i = setup[h].index => member'[h].orig = Entry(c)
      BY <2>4, <2>5, <2>9 DEF Beneath
    <3>10. Beneath(g, i, c)'
      BY <1>1, <2>5, <2>7, <2>9, <3>6, <3>8, <3>9 DEF Beneath
    <3> QED BY <3>10
  <2>10. CASE g = h => ~ (DivertEntry(h) \/ DivertMore(h))
    <3>1. status'[g] = status[g]
      <4>1. CASE g = h
        <5>1. SwapTable(h) \/ ReturnMore(h) \/ RestoreClass(h)
          <6>1. OfVTable(h)
            BY <2>1, <4>1, KindOf
          <6> QED BY <1>5, <2>1, <2>10, <4>1, <6>1 DEF OfVTable, SetsVTable
        <5>2. SwapTable(h) => status' = status
          BY DEF SwapTable
        <5>3. RestoreClass(h) => status' = status
          BY DEF RestoreClass
        <5>4. ReturnMore(h) => status[h] = "on" /\ status'[h] = "on"
          <6>1. ReturnMore(h) => At(h, "return") /\ status'[h] = "on"
            BY StatusOf DEF ReturnMore
          <6>2. At(h, "return") => status[h] = "on"
            BY UnderWay DEF BusyWith, Removing
          <6> QED BY <6>1, <6>2
        <5> QED BY <4>1, <5>1, <5>2, <5>3, <5>4
      <4> QED BY <4>1, StatusOf
    <3>2. PutInto(g, i, c)' = PutInto(g, i, c)
      BY <1>1, <2>5, <2>10, <3>1 DEF PutInto
    <3>3. Layered(SwappedIn(g, i)', Diverted, Origs', table'[g][i], PutInto(g, i, c))
      <4>1. Since(0, g, i) = SwappedIn(g, i) /\ Since(0, g, i)' = SwappedIn(g, i)'
        <5>1. \A k \in Hooks : 0 < k
          BY SwapAssumption
        <5> QED BY <5>1 DEF Since, SwappedIn
      <4>2. Layered(Since(0, g, i), Diverted, Origs, table[g][i], PutInto(g, i, c))
        BY <2>4, <4>1 DEF Beneath
      <4>3. g = h => ~ (DivertEntry(h) \/ DivertMore(h) \/ FreeNewVtable(h))
        BY <2>1, <2>10
      <4>4. Layered(Since(0, g, i)', Diverted, Origs', table'[g][i], PutInto(g, i, c))
        BY <2>1, <2>6, <4>2, <4>3, SinceStep
      <4> QED BY <4>1, <4>4
    <3>4. /\ i = setup[g].index => member'[g].orig = Entry(c)
          /\ i = setup[g].more /\ member'[g].more # Wild => member'[g].more = Entry(c)
      BY <2>4, <2>5, <2>10 DEF Beneath
    <3>5. Beneath(g, i, c)'
      BY <1>1, <2>5, <2>7, <3>2, <3>3, <3>4 DEF Beneath
    <3> QED BY <3>5
  <2> QED BY <2>8, <2>9, <2>10
<1> QED BY <1>4, <1>5

-----------------------------------------------------------------------------
(***************************************************************************)
(* What a step of a hook does to the ways of the calls.                    *)
(***************************************************************************)
\* The original a callback calls.
Original(x) == IF x.extra THEN member[x.hook].more ELSE member[x.hook].orig

\* With no detour set over it, a callback is passed, and then what its original leads to.
OriginalPassed ==
  \A x \in Callbacks : Known(x) /\ Patched(x) = {} =>
    Passes(Entry(x)) = Passes(Original(x)) \cup {x}

LEMMA OriginalPassing == AllLead => OriginalPassed
<1> SUFFICES ASSUME AllLead, NEW x \in Callbacks, Known(x), Patched(x) = {}
             PROVE  Passes(Entry(x)) = Passes(Original(x)) \cup {x}
  BY DEF OriginalPassed
<1>1. PICK f : f = Fn(x)
  OBVIOUS
<1>2. x \in Code
  BY DEF Code
<1>3. Leads(Entry(x), Links) = Body(x) /\ Leads(Body(x), Links) = Original(x)
  <2>1. patch[x] = Body(x)
    BY <1>2 DEF AllLead, FunctionsLead
  <2>2. Leads(Body(x), Links) = IF x.extra THEN member[x.hook].more ELSE member[x.hook].orig
    BY LeadsIn, LinksIn
  <2> QED BY <2>1, <2>2, LeadsIn, LinksIn DEF Original
<1>4. Toward(Entry(x), f) /\ Toward(Body(x), f)
  BY <1>1, <1>2 DEF Toward
<1>5. WayFacts(Entry(x), f) /\ WayFacts(Body(x), f)
  BY <1>4, WayOf DEF OnTheWay
<1>6. Entry(x) # Done(f) /\ Body(x) # Done(f) /\ Passed(Entry(x)) = {} /\ Passed(Body(x)) = {x}
  BY PlaceKinds DEF Passed
<1>7. Passes(Entry(x)) = Passes(Body(x))
  BY <1>3, <1>5, <1>6 DEF WayFacts
<1>8. Passes(Body(x)) = Passes(Original(x)) \cup {x}
  BY <1>3, <1>5, <1>6 DEF WayFacts
<1> QED BY <1>7, <1>8

LEMMA OriginalPassingNext == AllLead' => OriginalPassed'
BY OriginalPassing, PTL

\* No detour is set over a callback of the newest hook.
NotPatched ==
  \A x \in Callbacks : (\A k \in Hooks : status[k] = "on" => k <= x.hook) => Patched(x) = {}

LEMMA PatchedNot == SourceOlder => NotPatched
<1> SUFFICES ASSUME SourceOlder, NEW x \in Callbacks,
                    \A k \in Hooks : status[k] = "on" => k <= x.hook,
                    NEW k \in Patched(x)
             PROVE  FALSE
  BY DEF NotPatched
<1>1. k \in Hooks /\ Detouring(k) /\ Source(k) = x /\ status[k] = "on"
  BY DEF Patched, Detouring, Source
<1>2. Rank(x) < k /\ Rank(x) = x.hook /\ k <= x.hook
  BY <1>1 DEF SourceOlder, Rank
<1>3. k \in Nat /\ Rank(x) \in Nat
  BY <1>1, SwapAssumption, RankOf
<1> QED BY <1>2, <1>3

LEMMA PatchedNotNext == SourceOlder' => NotPatched'
BY PatchedNot, PTL

\* Older code does not lead to a newer callback.
OlderAvoid ==
  \A c \in Code, h \in Hooks : Known(c) /\ Rank(c) < h /\ setup[h].type # "VFuncDetour" =>
    \A x \in Passes(Entry(c)) : x \in Callbacks => x.hook # h

LEMMA OldAvoids == AllLead => OlderAvoid
<1> SUFFICES ASSUME AllLead, NEW c \in Code, NEW h \in Hooks, Known(c), Rank(c) < h,
                    setup[h].type # "VFuncDetour",
                    NEW x \in Passes(Entry(c)), x \in Callbacks, x.hook = h
             PROVE  FALSE
  BY DEF OlderAvoid
<1>1. PICK f : f = Fn(c)
  OBVIOUS
<1>2. Toward(Entry(c), f)
  BY <1>1 DEF Toward
<1>3. Within(Entry(c), x)
  BY <1>2, WaysSorted DEF WaySorted
<1>4. Base(x) = h /\ ~ OfADetour(x)
  BY DEF Base, OfADetour, Rank
<1>5. Base(c) = Rank(c) /\ Base(c) < h
  BY KeysAt
<1>6. Base(x) < Base(c) \/ Base(x) = Base(c)
  BY <1>3, PlaceKinds DEF Within
<1>7. h \in Nat /\ Base(c) \in Nat
  BY SwapAssumption, KeysOf
<1> QED BY <1>4, <1>5, <1>6, <1>7

LEMMA OldAvoidsNext == AllLead' => OlderAvoid'
BY OldAvoids, PTL

\* What the pointers that calls go through lead to when no hook is newer than h.
Foremost(h) ==
  /\ \A k \in Hooks : status[k] = "on" => k < h \/ (k = h /\ setup[h].type = "VTableSwap")
  /\ \A k \in Hooks \ {h} : \A d : ~ At(k, d)
WordsOlder ==
  \A h \in Hooks : Foremost(h) =>
    /\ \A x \in {0} \cup Hooks, i \in Indices : Live(x) /\ x # h =>
         \E c \in Code : table[x][i] = Entry(c) /\ Known(c) /\ Rank(c) < h
    /\ \A s \in Imports : \E c \in Code : iat[s] = Entry(c) /\ Known(c) /\ Rank(c) < h

LEMMA WordsOld == SwapInv /\ AllLead => WordsOlder
<1> SUFFICES ASSUME SwapInv, AllLead, NEW h \in Hooks, Foremost(h)
             PROVE  /\ \A x \in {0} \cup Hooks, i \in Indices : Live(x) /\ x # h =>
                         \E c \in Code : table[x][i] = Entry(c) /\ Known(c) /\ Rank(c) < h
                    /\ \A s \in Imports :
                         \E c \in Code : iat[s] = Entry(c) /\ Known(c) /\ Rank(c) < h
  BY DEF WordsOlder
<1>1. /\ h \in Nat /\ h > 0 /\ \A g \in Hooks : g \in Nat /\ g > 0
      /\ \A d \in Functions : Rank(d) < h
  <2>1. h \in Nat /\ h > 0 /\ \A g \in Hooks : g \in Nat /\ g > 0
    BY SwapAssumption
  <2> QED BY <2>1, RankOf
<1>2. /\ \A k \in Hooks : status[k] = "on" => k < h \/ (k = h /\ setup[h].type = "VTableSwap")
      /\ \A k \in Hooks \ {h} : \A d : ~ At(k, d)
  BY DEF Foremost
<1>3. ASSUME NEW x \in {0} \cup Hooks, NEW i \in Indices, Live(x), x # h
      PROVE  \E c \in Code : table[x][i] = Entry(c) /\ Known(c) /\ Rank(c) < h
  <2>1. Leading(table[x][i], Virtuals[i]) /\ Held(x, i, table[x][i].code)
    BY <1>3 DEF AllLead, TablesLead
  <2>2. PICK c \in Code : table[x][i] = Entry(c) /\ Known(c)
    BY <2>1 DEF Leading
  <2>3. Held(x, i, c)
    BY <2>1, <2>2, PlaceKinds
  <2>4. x \in Nat /\ x < h
    <3>1. CASE x = 0
      BY <1>1, <3>1
    <3>2. CASE x # 0
      <4>1. x \in Hooks /\ status[x] = "on"
        BY <1>2, <1>3, <3>2 DEF Live
      <4> QED BY <1>1, <1>2, <1>3, <4>1
    <3> QED BY <3>1, <3>2
  <2>5. CASE c \in Callbacks /\ c.hook <= x
    <3>1. c.hook \in Hooks /\ Rank(c) = c.hook
      BY <2>5 DEF Callbacks, Callback, Extra, Rank
    <3>2. PICK g \in Nat : g = c.hook
      BY <1>1, <3>1
    <3>3. g < h
      BY <1>1, <2>4, <2>5, <3>2
    <3> QED BY <2>2, <3>1, <3>2, <3>3
  <2>6. CASE \E k \in Hooks : c = Callback(k) /\ setup[k].type = "VFuncSwap" /\ status[k] = "on"
    <3>1. PICK k \in Hooks : c = Callback(k) /\ setup[k].type = "VFuncSwap" /\ status[k] = "on"
      BY <2>6
    <3>2. k < h /\ Rank(c) = k
      BY <1>2, <3>1, RankOf
    <3> QED BY <2>2, <3>2
  <2>7. CASE c \in Functions
    BY <1>1, <2>2, <2>7
  <2> QED BY <2>3, <2>5, <2>6, <2>7 DEF Held
<1>4. ASSUME NEW s \in Imports
      PROVE  \E c \in Code : iat[s] = Entry(c) /\ Known(c) /\ Rank(c) < h
  <2>1. PICK c \in Code : iat[s] = Entry(c) /\ Known(c)
    BY DEF AllLead, ImportsLead, Leading
  <2>2. Layered(Imported(s), Diverted, Origs, iat[s], Entry(s.function)) /\ Imported(s) \in SUBSET Hooks
    BY DEF SwapInv, Layers, ImportLayers, Imported
  <2>3. CASE iat[s] = Entry(s.function)
    <3>1. c = s.function /\ c \in Functions
      BY <2>1, <2>3 DEF Functions, Entry
    <3> QED BY <1>1, <2>1, <3>1
  <2>4. CASE \E g \in Imported(s) : iat[s] = Diverted[g]
    <3>1. PICK g \in Imported(s) : iat[s] = Diverted[g]
      BY <2>4
    <3>2. g \in Hooks /\ status[g] = "on" /\ setup[g].type = "IAT"
          /\ Diverted[g] = Entry(Callback(g))
      BY DEF Imported, Diverted
    <3>3. c = Callback(g) /\ Rank(c) = g
      BY <2>1, <3>1, <3>2, RankOf DEF Entry
    <3>4. g < h
      BY <1>2, <3>2
    <3> QED BY <2>1, <3>3, <3>4
  <2> QED BY <2>2, <2>3, <2>4, LayeredValue
<1> QED BY <1>3, <1>4

LEMMA WordsOldNext == SwapInv' /\ AllLead' => WordsOlder'
BY WordsOld, PTL

LEMMA PointersTowardNext == AllLead' => PointersLead'
BY PointersToward, PTL

LEMMA FunctionNot ==
  ASSUME NEW s \in Sites
  PROVE  Function(s) \in Functions /\ Function(s) \notin Callbacks
<1>1. Function(s) \in Functions
  <2>1. CASE s \in Imports
    BY <2>1 DEF Function, Functions
  <2>2. CASE s \notin Imports
    <3>1. s.index \in Indices
      BY <2>2 DEF Sites, VirtualSites
    <3> QED BY <2>2, <3>1, CodeAssumption DEF Function, Indices
  <2> QED BY <2>1, <2>2
<1> QED BY <1>1, RankOf

\* What a step does to the callbacks on the way from a site: nothing, one more, those of a
\* hook fewer.
Same(s)     == Passes(Pointers[s])' = Passes(Pointers[s])
Added(s, x) ==
  /\ x \notin Passes(Pointers[s])
  /\ Same(s) \/ Passes(Pointers[s])' = Passes(Pointers[s]) \cup {x}
Taken(s, h) == Passes(Pointers[s])' = {x \in Passes(Pointers[s]) : x = Function(s) \/ x.hook # h}

\* Only a detour changes what code leads to.
LEMMA WaysKept ==
  ASSUME SwapInv, AllLead, setup \in Setups, MoreLayers, NEW h \in Hooks, HookStep(h),
         NEW c \in Code, Known(c)
  PROVE  /\ Passes(Entry(c)) \subseteq Passes(Entry(c))' \cup (IF RestoreCode(h) THEN {Callback(h)} ELSE {})
         /\ Passes(Entry(c))' \subseteq Passes(Entry(c)) \cup (IF HookDetour(h) THEN {Callback(h)} ELSE {})
         /\ ~ HookDetour(h) /\ ~ RestoreCode(h) => Passes(Entry(c))' = Passes(Entry(c))
<1>1. PICK f, p : f = Fn(c) /\ p = Entry(c)
  OBVIOUS
<1>2. Toward(p, f)
  BY <1>1 DEF Toward
<1>3. Fn(c)' = f /\ Known(c)'
  BY <1>1, KnownStep
<1>4. Toward(p, f)'
  BY <1>1, <1>3 DEF Toward
<1>5. /\ Passes(p) \subseteq Passes(p)' \cup (IF RestoreCode(h) THEN {Callback(h)} ELSE {})
      /\ Passes(p)' \subseteq Passes(p) \cup (IF HookDetour(h) THEN {Callback(h)} ELSE {})
  BY <1>2, <1>4, PassesStep, MoreOnce
<1>6. Passes(Entry(c))' = Passes(p)'
  BY <1>1 DEF Passes
<1> QED BY <1>1, <1>5, <1>6

LEMMA PointerAt ==
  ASSUME NEW s \in Sites
  PROVE  /\ s \in Imports => Pointers[s] = iat[s] /\ Pointers'[s] = iat'[s]
         /\ s \notin Imports => /\ s \in VirtualSites /\ s.object \in Objects /\ s.index \in Indices
                                /\ Pointers[s] = table[vptr[s.object]][s.index]
                                /\ Pointers'[s] = table'[vptr'[s.object]][s.index]
BY DEF Pointers, Sites, VirtualSites

\* A pointer that is as it was leads to the same, but for a detour.
LEMMA SamePointer ==
  ASSUME SwapInv, AllLead, setup \in Setups, MoreLayers, NEW h \in Hooks, HookStep(h),
         ~ HookDetour(h), ~ RestoreCode(h), NEW s \in Sites, Pointers'[s] = Pointers[s]
  PROVE  Same(s)
<1>1. PICK c \in Code : Pointers[s] = Entry(c) /\ Known(c)
  BY PointersToward DEF PointersLead, Leading
<1>2. Passes(Entry(c))' = Passes(Entry(c))
  BY <1>1, WaysKept
<1>3. Passes(Pointers[s])' = Passes(Entry(c))'
  BY <1>1 DEF Passes
<1> QED BY <1>1, <1>2, <1>3 DEF Same

\* A step makes the pointer of a site lead to x, and x to what the pointer led to.
Puts(s, x) ==
  \E c \in Code : /\ Known(c) /\ Pointers[s] = Entry(c)
                  /\ Original(x)' = Entry(c) /\ Pointers'[s] = Entry(x)

LEMMA AddingOf ==
  ASSUME SwapInv, AllLead, setup \in Setups, MoreLayers, SourceOlder, NEW h \in Hooks, HookStep(h),
         ~ HookDetour(h), ~ RestoreCode(h),
         NEW x \in Callbacks, x.hook = h, Known(x)',
         NEW s \in Sites, x \notin Passes(Pointers[s]), Pointers'[s] = Pointers[s] \/ Puts(s, x)
  PROVE  Added(s, x) /\ (Puts(s, x) => x \in Passes(Pointers[s])')
<1>1. SourceOlder' /\ AllLead'
  BY SourceOlderStep, LeadsStep
<1>2. ASSUME Puts(s, x) PROVE Passes(Pointers[s])' = Passes(Pointers[s]) \cup {x}
  <2>1. PICK c \in Code : /\ Known(c) /\ Pointers[s] = Entry(c)
                          /\ Original(x)' = Entry(c) /\ Pointers'[s] = Entry(x)
    BY <1>2 DEF Puts
  <2>2. Patched(x)' = {}
    <3>1. \A k \in Hooks : status'[k] = "on" => k <= h
      <4>1. \A k \in Hooks : status[k] = "on" => k <= h
        BY NewestOf
      <4>2. \A k \in Hooks \ {h} : status'[k] = status[k]
        BY StatusOf
      <4>3. h <= h
        BY SwapAssumption
      <4> QED BY <4>1, <4>2, <4>3
    <3> QED BY <1>1, <3>1, PatchedNotNext DEF NotPatched
  <2>3. Passes(Entry(x))' = Passes(Original(x))' \cup {x}
    BY <1>1, <2>2, OriginalPassingNext DEF OriginalPassed
  <2>4. Passes(Pointers[s])' = Passes(Entry(x))' /\ Passes(Original(x))' = Passes(Entry(c))'
    BY <2>1 DEF Passes
  <2>5. Passes(Entry(c))' = Passes(Entry(c))
    BY <2>1, WaysKept
  <2> QED BY <2>1, <2>3, <2>4, <2>5
<1>3. ASSUME Pointers'[s] = Pointers[s] PROVE Same(s)
  BY <1>3, SamePointer
<1> QED BY <1>2, <1>3 DEF Added

\* A step makes the pointer of a site lead to what x led to.
Takes(s, x) ==
  \E c \in Code : /\ Known(c) /\ Pointers[s] = Entry(x)
                  /\ Original(x) = Entry(c) /\ Pointers'[s] = Entry(c)

LEMMA TakingOf ==
  ASSUME SwapInv, AllLead, setup \in Setups, MoreLayers, SourceOlder, NEW h \in Hooks, HookStep(h),
         ~ HookDetour(h), ~ RestoreCode(h), status[h] = "on",
         NEW s \in Sites,
         Pointers'[s] = Pointers[s] \/ (\E x \in Callbacks : x.hook = h /\ Known(x) /\ Takes(s, x)),
         \A y \in Passes(Pointers[s])' : y \in Callbacks => y.hook # h
  PROVE  Taken(s, h)
<1>1. AllLead'
  BY LeadsStep
<1>2. PICK f : f = Function(s)
  OBVIOUS
<1>3. \A y \in Passes(Pointers[s])' : y = f \/ y.hook # h
  <2>1. \A y \in Passes(Pointers[s])' : y \in Code /\ Fn(y)' = f
    <3>1. PointersLead'
      BY <1>1, PointersTowardNext
    <3>2. Leading(Pointers[s], f)'
      BY <1>2, <3>1 DEF PointersLead
    <3>3. Toward(Pointers[s], f)'
      BY <3>2 DEF Leading, Toward
    <3> QED BY <1>1, <3>3, WayOfNext DEF OnTheWay, WayFacts
  <2>2. \A y \in Code : y \in Callbacks \/ Fn(y)' = y
    BY DEF Fn
  <2> QED BY <2>1, <2>2
<1>4. CASE Pointers'[s] = Pointers[s]
  <2>1. Same(s)
    BY <1>4, SamePointer
  <2> QED BY <1>2, <1>3, <2>1 DEF Same, Taken
<1>5. CASE \E x \in Callbacks : x.hook = h /\ Known(x) /\ Takes(s, x)
  <2>1. PICK x \in Callbacks, c \in Code :
          /\ x.hook = h /\ Known(x) /\ Known(c) /\ Pointers[s] = Entry(x)
          /\ Original(x) = Entry(c) /\ Pointers'[s] = Entry(c)
    BY <1>5 DEF Takes
  <2>2. Patched(x) = {}
    <3>1. \A k \in Hooks : status[k] = "on" => k <= h
      BY NewestOf
    <3> QED BY <2>1, <3>1, PatchedNot DEF NotPatched
  <2>3. Passes(Entry(x)) = Passes(Entry(c)) \cup {x}
    BY <2>1, <2>2, OriginalPassing DEF OriginalPassed
  <2>4. Passes(Pointers[s])' = Passes(Entry(c))
    <3>1. Passes(Pointers[s])' = Passes(Entry(c))'
      BY <2>1 DEF Passes
    <3> QED BY <2>1, <3>1, WaysKept
  <2>5. x # f
    BY <1>2, <2>1, FunctionNot
  <2> QED BY <1>2, <1>3, <2>1, <2>3, <2>4, <2>5 DEF Taken
<1> QED BY <1>4, <1>5

-----------------------------------------------------------------------------
(***************************************************************************)
(* The pointers after a step, step by step.                                *)
(***************************************************************************)
\* What the lemmas about steps need of ChainsInv.
Ready ==
  /\ SwapInv /\ AllLead /\ setup \in Setups /\ MoreLayers /\ SourceOlder /\ SwapVtable
  /\ CopiesBeneath

\* The copy of the hook that takes a step, next to the vtable that was copied.
LEMMA CopyNow ==
  ASSUME Ready, NEW h \in Hooks, HookStep(h), Live(h), NEW V, V = member[h].vtable,
         NEW i \in Indices
  PROVE  \E c \in Code :
           /\ table[V][i] = Entry(c) /\ table[h][i] = PutInto(h, i, c)
           /\ i = setup[h].index => member[h].orig = Entry(c)
           /\ i = setup[h].more /\ member[h].more # Wild => member[h].more = Entry(c)
<1>1. NothingAbove
  BY NoneSince DEF Ready
<1>2. \A k \in Hooks : status[k] = "on" => k <= h
  BY NewestOf DEF Ready
<1>3. Since(h, V, i) = {} /\ SwappedIn(h, i) = {}
  BY <1>1, <1>2 DEF NothingAbove
<1>4. PICK c \in Code : Beneath(h, i, c)
  BY DEF Ready, CopiesBeneath
<1>5. table[V][i] = Entry(c)
  BY <1>3, <1>4 DEF Beneath, Layered
<1>6. table[h][i] = PutInto(h, i, c)
  BY <1>3, <1>4 DEF Beneath, Layered
<1> QED BY <1>4, <1>5, <1>6 DEF Beneath

\* Objects use no copy that is not in place.
LEMMA CopyAway ==
  ASSUME Ready, NEW h \in Hooks, HookStep(h), NEW o \in Objects
  PROVE  /\ vptr[o] \in {0} \cup Hooks /\ Live(vptr[o])
         /\ vptr[o] = h => setup[h].object = o /\ setup[h].type = "VTableSwap"
                           /\ ~ CopyTable(h) /\ ~ SwapTable(h) /\ ~ FreeNewVtable(h)
<1>1. vptr[o] = h => h \in Pointed(o)
  <2>1. vptr[o] = 0 \/ vptr[o] \in Pointed(o)
    BY DEF Ready, AllLead, ObjectsLive
  <2>2. h # 0
    BY SwapAssumption
  <2> QED BY <2>1, <2>2
<1>2. h \in Pointed(o) => setup[h].object = o /\ setup[h].type = "VTableSwap"
                          /\ ((status[h] = "on" /\ ~ At(h, "free")) \/ At(h, "new entry"))
  BY DEF Pointed
<1>3. CopyTable(h) => status[h] = "new" /\ ~ At(h, "new entry")
  <2>1. CopyTable(h) => busy = Idle /\ status[h] = "new"
    BY DEF CopyTable, Begin
  <2> QED BY <2>1, NoneAt
<1>4. SwapTable(h) => status[h] = "new" /\ ~ At(h, "new entry")
  <2>1. SwapTable(h) => status[h] = "new"
    BY OldOf DEF SetsVTable, Ready
  <2>2. SwapTable(h) => At(h, "class")
    BY DEF SwapTable
  <2>3. \A d : At(h, d) => busy.doing = d
    BY AtWhat
  <2> QED BY <2>1, <2>2, <2>3
<1>5. FreeNewVtable(h) => At(h, "free") /\ ~ At(h, "new entry")
  <2>1. FreeNewVtable(h) => At(h, "free")
    BY DEF FreeNewVtable
  <2>2. \A d : At(h, d) => busy.doing = d
    BY AtWhat
  <2> QED BY <2>1, <2>2
<1>6. vptr[o] \in {0} \cup Hooks /\ Live(vptr[o])
  BY ObjectLive DEF Ready, AllLead
<1> QED BY <1>1, <1>2, <1>3, <1>4, <1>5, <1>6

\* Steps of Hook and UnHook that leave the pointer of every site as it is.
Quiet(h) ==
  \/ SaveVFunc(h) \/ FreeTrampoline(h) \/ CopyTable(h) \/ SwapTable(h)
  \/ ReturnMore(h) \/ FreeNewVtable(h) \/ FindImport(h) \/ SaveImport(h)

LEMMA QuietStep ==
  ASSUME Ready, NEW h \in Hooks, HookStep(h), Quiet(h), NEW s \in Sites
  PROVE  Pointers'[s] = Pointers[s]
<1>1. iat' = iat
  BY DEF Quiet, SaveVFunc, FreeTrampoline, CopyTable, SwapTable, ReturnMore, FreeNewVtable,
         FindImport, SaveImport, memory
<1>2. CASE s \in Imports
  BY <1>1, <1>2, PointerAt
<1>3. CASE s \notin Imports
  <2>1. PICK o \in Objects, i \in Indices : /\ Pointers[s] = table[vptr[o]][i]
                                           /\ Pointers'[s] = table'[vptr'[o]][i]
    BY <1>3, PointerAt
  <2>2. CASE SaveVFunc(h) \/ FreeTrampoline(h) \/ ReturnMore(h) \/ FindImport(h) \/ SaveImport(h)
    <3>1. table' = table /\ vptr' = vptr
      BY <2>2 DEF SaveVFunc, FreeTrampoline, ReturnMore, FindImport, SaveImport, memory
    <3> QED BY <2>1, <3>1
  <2>3. CASE CopyTable(h) \/ FreeNewVtable(h)
    <3>1. vptr' = vptr /\ \A x \in {0} \cup Hooks : x # h => table'[x] = table[x]
      <4>1. \E w : table' = [table EXCEPT ![h] = w]
        BY <2>3 DEF CopyTable, FreeNewVtable
      <4>2. vptr' = vptr
        BY <2>3 DEF CopyTable, FreeNewVtable
      <4> QED BY <4>1, <4>2 DEF Ready, SwapInv, Shape
    <3>2. vptr[o] # h /\ vptr[o] \in {0} \cup Hooks
      BY <2>3, CopyAway
    <3> QED BY <2>1, <3>1, <3>2
  <2>4. CASE SwapTable(h)
    <3>1. At(h, "class") /\ table' = table /\ vptr' = [vptr EXCEPT ![setup[h].object] = h]
      BY <2>4 DEF SwapTable
    <3>2. setup[h].type = "VTableSwap" /\ member[h].vtable = vptr[setup[h].object] /\ Live(h)
          /\ status[h] = "new"
      <4>1. busy.doing = "class" /\ BusyWith(h)
        BY <3>1, UnderWay DEF Ready
      <4> QED BY <3>1, <4>1 DEF BusyWith, Setting, Live
    <3>3. CASE o # setup[h].object
      <4>1. vptr'[o] = vptr[o]
        BY <3>1, <3>3
      <4> QED BY <2>1, <3>1, <4>1
    <3>4. CASE o = setup[h].object
      <4>1. vptr'[o] = h
        BY <3>1, <3>4 DEF Ready, SwapInv, Shape
      <4>2. PICK c \in Code : table[vptr[o]][i] = Entry(c) /\ table[h][i] = PutInto(h, i, c)
        BY <3>2, <3>4, CopyNow
      <4>3. member[h].more = Wild
        BY <3>2 DEF Ready, AllLead, SavedFirst
      <4>4. PutInto(h, i, c) = Entry(c)
        BY <3>2, <4>3 DEF PutInto
      <4> QED BY <2>1, <3>1, <4>1, <4>2, <4>4
    <3> QED BY <3>3, <3>4
  <2> QED BY <2>2, <2>3, <2>4 DEF Quiet
<1> QED BY <1>2, <1>3

\* The word a call through an object goes through.
LEMMA SiteWord ==
  ASSUME Ready, NEW h \in Hooks, HookStep(h), NEW s \in Sites, s \notin Imports
  PROVE  \E y \in {0} \cup Hooks, j \in Indices :
           /\ Live(y) /\ Pointers[s] = table[y][j] /\ y = vptr[s.object] /\ j = s.index
           /\ vptr' = vptr => Pointers'[s] = table'[y][j]
<1>1. PICK y, j : y = vptr[s.object] /\ j = s.index
  OBVIOUS
<1>2. s.object \in Objects /\ j \in Indices
  BY <1>1, PointerAt
<1>3. y \in {0} \cup Hooks /\ Live(y)
  BY <1>1, <1>2, CopyAway
<1>4. Pointers[s] = table[y][j] /\ (vptr' = vptr => Pointers'[s] = table'[y][j])
  BY <1>1, PointerAt
<1> QED BY <1>1, <1>2, <1>3, <1>4

\* What a hook is about to put into a pointer is on no way yet.
LEMMA NotYetPassed ==
  ASSUME Ready, NEW h \in Hooks, HookStep(h), SetsVFunc(h) \/ SetsVTable(h) \/ SetsImport(h),
         NEW s \in Sites, NEW x \in Callbacks, x.hook = h
  PROVE  x \notin Passes(Pointers[s])
<1>1. SwapInv /\ AllLead
  BY DEF Ready
<1>2. /\ status[h] = "new" /\ \A g \in Hooks : status[g] # "new" => g < h
      /\ \A g \in Hooks \ {h} : \A d : ~ At(g, d)
  BY <1>1, OldOf
<1>3. setup[h].type # "VFuncDetour"
  BY <1>1, KindOf DEF OfVFunc, OfVTable, OfImport
<1>4. Foremost(h)
  BY <1>2 DEF Foremost
<1>5. WordsOlder /\ OlderAvoid
  BY <1>1, WordsOld, OldAvoids
<1>6. \E c \in Code : Pointers[s] = Entry(c) /\ Known(c) /\ Rank(c) < h
  <2>1. CASE s \in Imports
    BY <1>4, <1>5, <2>1, PointerAt DEF WordsOlder
  <2>2. CASE s \notin Imports
    <3>1. PICK y \in {0} \cup Hooks, i \in Indices : Live(y) /\ Pointers[s] = table[y][i]
      BY <2>2, SiteWord
    <3>3. CASE y # h
      <4>1. WordsOlder
        BY <1>5
      <4>2. \E c \in Code : table[y][i] = Entry(c) /\ Known(c) /\ Rank(c) < h
        BY ONLY <1>4, <3>1, <3>3, <4>1, h \in Hooks DEF WordsOlder
      <4> QED BY ONLY <3>1, <4>2
    <3>4. CASE y = h
      <4>1. PICK V : V = member[h].vtable
        OBVIOUS
      <4>2. Live(h)
        BY <3>1, <3>4
      <4>3. PICK c \in Code : table[V][i] = Entry(c) /\ table[h][i] = PutInto(h, i, c)
        BY <4>1, <4>2, CopyNow
      <4>4. member[h].more = Wild
        BY <1>1, <1>2 DEF AllLead, SavedFirst
      <4>5. Pointers[s] = table[V][i]
        BY <1>2, <3>1, <3>4, <4>3, <4>4 DEF PutInto
      <4>6. V \in {0} \cup Hooks /\ Live(V) /\ V # h
        BY <1>1, <4>1, <4>2, VtableNot
      <4> QED BY <1>4, <1>5, <4>5, <4>6 DEF WordsOlder
    <3> QED BY <3>3, <3>4
  <2> QED BY <2>1, <2>2
<1>7. PICK c \in Code : Pointers[s] = Entry(c) /\ Known(c) /\ Rank(c) < h
  BY <1>6
<1> QED BY <1>3, <1>5, <1>7 DEF OlderAvoid

\* The callback of HookAdditional, and of a detour, that is not set.
LEMMA UnknownPassed ==
  ASSUME Ready, NEW s \in Sites, NEW x \in Callbacks, ~ Known(x),
         \A k \in Hooks : x = Callback(k) => ~ Detouring(k)
  PROVE  x \notin Passes(Pointers[s])
<1>1. PICK f : f = Function(s)
  OBVIOUS
<1>2. Toward(Pointers[s], f)
  BY <1>1, PointersToward DEF PointersLead, Leading, Toward, Ready
<1>3. x \in Passes(Pointers[s]) => Toward(Body(x), f)
  BY <1>2, PassesOf DEF Ready
<1>4. ~ Toward(Body(x), f)
  <2>1. \A c : Body(x) \in {Entry(c), Body(c)} => c = x
    BY PlaceKinds
  <2>2. \A k : Body(x) \in {Entry(Callback(k)), Body(Callback(k)), Trampoline(k)} => x = Callback(k)
    BY PlaceKinds
  <2>3. Body(x) # Done(f)
    BY PlaceKinds
  <2> QED BY <2>1, <2>2, <2>3 DEF Toward
<1> QED BY <1>3, <1>4

\* What puts a callback into pointers, and which.
Puttings(h) == WriteVFunc(h) \/ DivertEntry(h) \/ DivertMore(h) \/ WriteImport(h)
PutOf(h)    == IF DivertMore(h) THEN Extra(h) ELSE Callback(h)

LEMMA PutFresh ==
  ASSUME Ready, NEW h \in Hooks, HookStep(h), Puttings(h), NEW s \in Sites
  PROVE  PutOf(h) \in Callbacks /\ PutOf(h).hook = h /\ PutOf(h) \notin Passes(Pointers[s])
<1>1. PutOf(h) \in Callbacks /\ PutOf(h).hook = h
  BY DEF PutOf, Callbacks, Callback, Extra
<1>2. CASE DivertMore(h)
  <2>1. member[h].more = Wild
    BY <1>2, MoreOnce DEF Ready
  <2>2. \A k : Extra(h) # Callback(k) /\ (Extra(h) = Extra(k) => h = k)
    BY DEF Extra, Callback
  <2>3. Extra(h) \in Callbacks
    BY DEF Callbacks
  <2>4. ~ Known(Extra(h))
    BY <2>1, <2>2, <2>3, RankOf DEF Known
  <2> QED BY <1>1, <1>2, <2>2, <2>3, <2>4, UnknownPassed DEF PutOf
<1>3. CASE WriteVFunc(h) \/ DivertEntry(h) \/ WriteImport(h)
  BY <1>1, <1>3, NotYetPassed DEF SetsVFunc, SetsVTable, SetsImport
<1> QED BY <1>1, <1>2, <1>3 DEF Puttings

LEMMA PutVFunc ==
  ASSUME Ready, NEW h \in Hooks, HookStep(h), WriteVFunc(h), NEW s \in Sites
  PROVE  Pointers'[s] = Pointers[s] \/ Puts(s, Callback(h))
<1>1. iat' = iat /\ vptr' = vptr /\ member' = member /\ At(h, "entry")
  BY DEF WriteVFunc
<1>2. CASE s \in Imports
  BY <1>1, <1>2, PointerAt
<1>3. CASE s \notin Imports
  <2>1. PICK y \in {0} \cup Hooks, j \in Indices :
          Live(y) /\ Pointers[s] = table[y][j] /\ Pointers'[s] = table'[y][j]
    BY <1>1, <1>3, SiteWord
  <2>2. y \in {0} \cup Hooks /\ Live(y)
    BY <2>1
  <2>3. PICK v, i, m : v = member[h].vtable /\ i = setup[h].index /\ m = setup[h].more
    OBVIOUS
  <2>4. ~ FreeNewVtable(h) /\ ~ DivertEntry(h) /\ ~ DivertMore(h)
    BY KindOf DEF OfVFunc, SetsVFunc, OfVTable, SetsVTable, Ready
  <2>5. table'[y][j] = table[y][j] \/ (y = v /\ j = i)
    BY <2>2, <2>3, <2>4, TableStep DEF Ready
  <2>6. CASE y = v /\ j = i
    <3>1. table'[y][j] = Entry(Callback(h))
      BY <2>2, <2>3, <2>4, <2>6, TableStep DEF Ready
    <3>2. member[h].orig = table[v][i]
      <4>1. busy.doing = "entry" /\ BusyWith(h)
        BY <1>1, UnderWay DEF Ready
      <4> QED BY <2>3, <4>1 DEF BusyWith
    <3>3. PICK c \in Code : Pointers[s] = Entry(c) /\ Known(c)
      BY PointersToward DEF PointersLead, Leading, Ready
    <3>4. Original(Callback(h))' = member[h].orig
      BY <1>1 DEF Original, Callback
    <3> QED BY <1>1, <2>1, <2>6, <3>1, <3>2, <3>3, <3>4 DEF Puts
  <2> QED BY <1>1, <2>1, <2>5, <2>6
<1> QED BY <1>2, <1>3

LEMMA PutEntry ==
  ASSUME Ready, NEW h \in Hooks, HookStep(h), DivertEntry(h), NEW s \in Sites
  PROVE  Pointers'[s] = Pointers[s] \/ Puts(s, Callback(h))
<1>1. /\ iat' = iat /\ vptr' = vptr /\ member' = member /\ At(h, "new entry")
      /\ table' = [table EXCEPT ![h][setup[h].index] = Entry(Callback(h))]
  BY DEF DivertEntry
<1>2. CASE s \in Imports
  BY <1>1, <1>2, PointerAt
<1>3. CASE s \notin Imports
  <2>1. PICK y \in {0} \cup Hooks, j \in Indices :
          Live(y) /\ Pointers[s] = table[y][j] /\ Pointers'[s] = table'[y][j]
    BY <1>1, <1>3, SiteWord
  <2>2. y \in {0} \cup Hooks /\ Live(y)
    BY <2>1
  <2>3. IsVtable(table[y])
    BY <2>2 DEF Ready, AllLead, TablesLead
  <2>4. table'[y][j] = table[y][j] \/ (y = h /\ j = setup[h].index)
    <3>1. Written(table', table, h, setup[h].index, Entry(Callback(h)))
      BY <1>1 DEF Written
    <3> QED BY <2>2, <2>3, <3>1, EntryWritten DEF Ready
  <2>5. CASE y = h /\ j = setup[h].index
    <3>1. table'[h][j] = Entry(Callback(h))
      <4>1. Written(table', table, h, setup[h].index, Entry(Callback(h)))
        BY <1>1 DEF Written
      <4> QED BY <2>2, <2>3, <2>5, <4>1, EntryWritten DEF Ready
    <3>2. PICK c \in Code : table[h][j] = PutInto(h, j, c) /\ member[h].orig = Entry(c)
      BY <2>2, <2>5, CopyNow
    <3>3. status[h] = "new"
      BY OldOf DEF SetsVTable, Ready
    <3>4. member[h].more = Wild
      BY <3>3 DEF Ready, AllLead, SavedFirst
    <3>5. table[h][j] = Entry(c)
      BY <3>2, <3>3, <3>4 DEF PutInto
    <3>6. PICK d \in Code : Pointers[s] = Entry(d) /\ Known(d)
      BY PointersToward DEF PointersLead, Leading, Ready
    <3>7. Original(Callback(h))' = member[h].orig
      BY <1>1 DEF Original, Callback
    <3> QED BY <1>1, <2>1, <2>5, <3>1, <3>2, <3>5, <3>6, <3>7 DEF Puts
  <2> QED BY <1>1, <2>1, <2>4, <2>5
<1> QED BY <1>2, <1>3

LEMMA PutMore ==
  ASSUME Ready, NEW h \in Hooks, HookStep(h), DivertMore(h), setup[h].more # setup[h].index,
         NEW s \in Sites
  PROVE  Pointers'[s] = Pointers[s] \/ Puts(s, Extra(h))
<1>1. /\ iat' = iat /\ vptr' = vptr /\ setup[h].more \in Indices
      /\ table' = [table EXCEPT ![h][setup[h].more] = Entry(Extra(h))]
  BY DEF DivertMore
<1>2. CASE s \in Imports
  BY <1>1, <1>2, PointerAt
<1>3. CASE s \notin Imports
  <2>1. PICK y \in {0} \cup Hooks, j \in Indices :
          Live(y) /\ Pointers[s] = table[y][j] /\ Pointers'[s] = table'[y][j]
    BY <1>1, <1>3, SiteWord
  <2>2. y \in {0} \cup Hooks /\ Live(y)
    BY <2>1
  <2>3. IsVtable(table[y])
    BY <2>2 DEF Ready, AllLead, TablesLead
  <2>4. Written(table', table, h, setup[h].more, Entry(Extra(h)))
    BY <1>1 DEF Written
  <2>5. table'[y][j] = table[y][j] \/ (y = h /\ j = setup[h].more)
    BY <2>2, <2>3, <2>4, EntryWritten DEF Ready
  <2>6. CASE y = h /\ j = setup[h].more
    <3>1. table'[h][j] = Entry(Extra(h))
      BY <2>2, <2>3, <2>4, <2>6, EntryWritten DEF Ready
    <3>2. PICK V : V = member[h].vtable
      OBVIOUS
    <3>3. PICK c \in Code : table[V][j] = Entry(c) /\ table[h][j] = PutInto(h, j, c)
      BY <2>2, <2>6, <3>2, CopyNow
    <3>4. member[h].more = Wild
      BY MoreOnce DEF Ready
    <3>5. table[h][j] = Entry(c)
      BY <2>6, <3>3, <3>4 DEF PutInto
    <3>6. PICK d \in Code : Pointers[s] = Entry(d) /\ Known(d)
      BY PointersToward DEF PointersLead, Leading, Ready
    <3>7. Original(Extra(h))' = table[V][j]
      <4>1. member'[h].more = table[V][j]
        BY <2>6, <3>2, MemberOf DEF Ready
      <4> QED BY <4>1 DEF Original, Extra
    <3> QED BY <1>1, <2>1, <2>6, <3>1, <3>3, <3>5, <3>6, <3>7 DEF Puts
  <2> QED BY <1>1, <2>1, <2>5, <2>6
<1> QED BY <1>2, <1>3

LEMMA PutImport ==
  ASSUME Ready, NEW h \in Hooks, HookStep(h), WriteImport(h), NEW s \in Sites
  PROVE  /\ Pointers'[s] = Pointers[s] \/ Puts(s, Callback(h))
         /\ s \in FindIATFunc(h, setup[h].module) => Pointers'[s] = Entry(Callback(h))
<1>1. /\ table' = table /\ vptr' = vptr /\ member' = member /\ At(h, "import")
      /\ \E r \in FindIATFunc(h, setup[h].module) : iat' = [iat EXCEPT ![r] = Entry(Callback(h))]
  BY DEF WriteImport
<1>2. PICK r \in FindIATFunc(h, setup[h].module) : iat' = [iat EXCEPT ![r] = Entry(Callback(h))]
  BY <1>1
<1>3. r \in Imports /\ \A q \in FindIATFunc(h, setup[h].module) : q = r
  <2>1. \A q \in FindIATFunc(h, setup[h].module) : q = r
    BY <1>2, OneImport
  <2> QED BY <1>2, <2>1 DEF FindIATFunc
<1>4. CASE s \notin Imports
  <2>1. s \notin FindIATFunc(h, setup[h].module)
    BY <1>4 DEF FindIATFunc
  <2> QED BY <1>1, <1>4, <2>1, PointerAt
<1>5. CASE s \in Imports /\ s # r
  <2>1. iat'[s] = iat[s]
    BY <1>2, <1>5
  <2> QED BY <1>3, <1>5, <2>1, PointerAt
<1>6. CASE s = r
  <2>1. iat'[s] = Entry(Callback(h))
    BY <1>2, <1>3, <1>6 DEF Ready, SwapInv, Shape
  <2>2. member[h].orig = iat[s]
    <3>1. busy.doing = "import" /\ BusyWith(h)
      BY <1>1, UnderWay DEF Ready
    <3> QED BY <1>2, <1>6, <3>1 DEF BusyWith
  <2>3. PICK c \in Code : Pointers[s] = Entry(c) /\ Known(c)
    BY PointersToward DEF PointersLead, Leading, Ready
  <2>4. Original(Callback(h))' = member[h].orig
    BY <1>1 DEF Original, Callback
  <2> QED BY <1>3, <1>6, <2>1, <2>2, <2>3, <2>4, PointerAt DEF Puts
<1> QED BY <1>3, <1>4, <1>5, <1>6

LEMMA PutKind ==
  ASSUME NEW h \in Hooks, NEW x, x = PutOf(h)
  PROVE  /\ x \in Callbacks /\ x.hook = h /\ (x.extra => DivertMore(h))
         /\ x = IF DivertMore(h) THEN Extra(h) ELSE Callback(h)
<1>1. CASE DivertMore(h)
  BY <1>1 DEF PutOf, Callbacks, Extra
<1>2. CASE ~ DivertMore(h)
  BY <1>2 DEF PutOf, Callbacks, Callback
<1> QED BY <1>1, <1>2

LEMMA HomeOf ==
  ASSUME Unambiguous, setup \in Setups, NEW h \in Hooks, NEW s \in FindIATFunc(h, setup[h].module),
         setup[h].type = "IAT"
  PROVE  Home(Callback(h)) = s /\ s \in Imports
<1>1. /\ s \in Imports /\ s.module = setup[h].module /\ s.descriptor = 1
      /\ s.function = setup[h].function
  BY DEF FindIATFunc
<1>2. s.library = setup[h].library
  BY <1>1 DEF Unambiguous
<1>3. \A r \in Imports : r.module = setup[h].module /\ r.library = setup[h].library
                         /\ r.function = setup[h].function => r = s
  <2> SUFFICES ASSUME NEW r \in Imports, r.module = setup[h].module, r.library = setup[h].library,
                      r.function = setup[h].function
               PROVE  r = s
    OBVIOUS
  <2>1. r.module = s.module /\ r.library = s.library /\ r.function = s.function
    BY <1>1, <1>2
  <2> QED BY <1>1, <2>1 DEF Unambiguous
<1>4. s = CHOOSE r \in Imports : /\ r.module = setup[h].module /\ r.library = setup[h].library
                                 /\ r.function = setup[h].function
  BY <1>1, <1>2, <1>3
<1>5. Home(Callback(h)) = CHOOSE r \in Imports : /\ r.module = setup[h].module
                                                 /\ r.library = setup[h].library
                                                 /\ r.function = setup[h].function
  BY DEF Home, Callback
<1> QED BY <1>1, <1>4, <1>5

LEMMA VirtualHome ==
  ASSUME setup \in Setups, NEW h \in Hooks, setup[h].type # "IAT", NEW x \in Callbacks, x.hook = h,
         x.extra => setup[h].more \in Indices
  PROVE  /\ Home(x) \in Sites /\ Home(x) \notin Imports /\ Home(x).object = setup[h].object
         /\ Home(x).index = IF x.extra THEN setup[h].more ELSE setup[h].index
<1>1. PICK i : i = IF x.extra THEN setup[h].more ELSE setup[h].index
  OBVIOUS
<1>2. setup[h].object \in Objects /\ setup[h].index \in Indices
  BY SetupOf
<1>3. Home(x) = [object |-> setup[h].object, index |-> i]
  BY <1>1 DEF Home
<1>4. i \in Indices
  BY <1>1, <1>2
<1>5. Home(x) \in VirtualSites
  BY <1>2, <1>3, <1>4 DEF VirtualSites
<1> QED BY <1>1, <1>3, <1>5, SiteAssumption DEF Sites

\* A hook that has swapped the vtable of its object, and is the newest.
LEMMA CopyInPlace ==
  ASSUME Ready, NEW h \in Hooks, HookStep(h), DivertEntry(h) \/ DivertMore(h) \/ RestoreClass(h)
  PROVE  vptr[setup[h].object] = h /\ setup[h].object \in Objects /\ Live(h)
         /\ setup[h].type = "VTableSwap"
<1>1. setup[h].type = "VTableSwap" /\ setup[h].object \in Objects
  <2>1. setup[h].type = "VTableSwap"
    BY KindOf DEF OfVTable, SetsVTable, Ready
  <2> QED BY <2>1, SetupOf DEF Ready
<1>2. h \in Pointed(setup[h].object)
  <2>1. DivertEntry(h) => At(h, "new entry")
    BY DEF DivertEntry
  <2>2. DivertMore(h) \/ RestoreClass(h) => status[h] = "on" /\ busy = Idle
    BY DEF DivertMore, RestoreClass, Newest
  <2>3. DivertMore(h) \/ RestoreClass(h) => status[h] = "on" /\ ~ At(h, "free")
    BY <2>2, NoneAt
  <2> QED BY <1>1, <2>1, <2>3 DEF Pointed
<1>3. \A g \in Pointed(setup[h].object) : g <= h
  <2> SUFFICES ASSUME NEW g \in Pointed(setup[h].object) PROVE g <= h
    OBVIOUS
  <2>1. g \in Hooks /\ (status[g] = "on" \/ At(g, "new entry"))
    BY DEF Pointed
  <2>2. status[g] = "on" => g <= h
    BY <2>1, NewestOf DEF Ready
  <2>3. g # h => ~ At(g, "new entry")
    BY <2>1, OldOf DEF Ready
  <2>4. h <= h
    BY SwapAssumption
  <2> QED BY <2>1, <2>2, <2>3, <2>4
<1>4. vptr[setup[h].object] = h
  BY <1>1, <1>2, <1>3, NewestPointed DEF Ready
<1> QED BY <1>1, <1>2, <1>4, PointedLive

\* A callback is put into the pointer of its own site.
LEMMA PutHome ==
  ASSUME Ready, Unambiguous, NEW h \in Hooks, HookStep(h), Puttings(h), NEW x, x = PutOf(h)
  PROVE  Home(x) \in Sites /\ Pointers'[Home(x)] = Entry(x)
<1>1. x \in Callbacks /\ x.hook = h /\ x = IF DivertMore(h) THEN Extra(h) ELSE Callback(h)
  BY PutKind
<1>2. CASE WriteImport(h)
  <2>1. setup[h].type = "IAT" /\ ~ DivertMore(h)
    BY <1>2, KindOf DEF OfImport, SetsImport, OfVTable, Ready
  <2>2. PICK s : s \in FindIATFunc(h, setup[h].module)
    BY <1>2 DEF WriteImport
  <2>3. x = Callback(h) /\ Home(x) = s /\ s \in Imports
    BY <1>1, <2>1, <2>2, HomeOf DEF Ready
  <2>4. s \in Sites
    BY <2>3 DEF Sites
  <2> QED BY <1>2, <2>2, <2>3, <2>4, PutImport
<1>3. CASE WriteVFunc(h) \/ DivertEntry(h) \/ DivertMore(h)
  <2>1. PICK y, i : y = vptr[setup[h].object] /\ i = IF x.extra THEN setup[h].more ELSE setup[h].index
    OBVIOUS
  <2>2. setup[h].type # "IAT" /\ (x.extra => setup[h].more \in Indices)
    <3>1. setup[h].type # "IAT"
      BY <1>3, KindOf DEF OfVFunc, SetsVFunc, OfVTable, SetsVTable, Ready
    <3>2. x.extra => DivertMore(h)
      BY <1>1 DEF Callback, Extra
    <3> QED BY <3>1, <3>2 DEF DivertMore
  <2>3. Home(x) \in Sites /\ Home(x) \notin Imports /\ Home(x).object = setup[h].object /\ Home(x).index = i
    BY <1>1, <2>1, <2>2, VirtualHome DEF Ready
  <2>4. vptr' = vptr
    BY <1>3 DEF WriteVFunc, DivertEntry, DivertMore
  <2>5. y \in {0} \cup Hooks /\ Live(y) /\ i \in Indices /\ Pointers'[Home(x)] = table'[y][i]
    BY <2>1, <2>3, <2>4, SiteWord
  <2>6. IsVtable(table[y])
    BY <2>5 DEF Ready, AllLead, TablesLead
  <2>10. SwapInv
    BY DEF Ready
  <2>7. CASE WriteVFunc(h)
    <3>1. ~ DivertMore(h)
      BY <2>7, KindOf DEF OfVFunc, SetsVFunc, OfVTable, Ready
    <3>2. x = Callback(h) /\ i = setup[h].index
      BY <1>1, <2>1, <3>1 DEF Callback
    <3>3. y = member[h].vtable
      BY <2>1, <2>7, SwapObject DEF Ready
    <3>4. Written(table', table, y, i, Entry(x))
      BY <2>7, <3>2, <3>3 DEF WriteVFunc, Written
    <3>5. table'[y][i] = Entry(x)
      BY ONLY <2>5, <2>6, <2>10, <3>4, EntryWritten
    <3> QED BY <2>3, <2>5, <3>5
  <2>8. CASE DivertEntry(h) /\ ~ DivertMore(h)
    <3>1. x = Callback(h) /\ i = setup[h].index
      BY <1>1, <2>1, <2>8 DEF Callback
    <3>2. y = h
      BY <2>1, <2>8, CopyInPlace
    <3>3. Written(table', table, y, i, Entry(x))
      BY <2>8, <3>1, <3>2 DEF DivertEntry, Written
    <3>4. table'[y][i] = Entry(x)
      BY ONLY <2>5, <2>6, <2>10, <3>3, EntryWritten
    <3> QED BY <2>3, <2>5, <3>4
  <2>9. CASE DivertMore(h)
    <3>1. x = Extra(h) /\ i = setup[h].more
      BY <1>1, <2>1, <2>9 DEF Extra
    <3>2. y = h
      BY <2>1, <2>9, CopyInPlace
    <3>3. Written(table', table, y, i, Entry(x))
      BY <2>9, <3>1, <3>2 DEF DivertMore, Written
    <3>4. table'[y][i] = Entry(x)
      BY ONLY <2>5, <2>6, <2>10, <3>3, EntryWritten
    <3> QED BY <2>3, <2>5, <3>4
  <2> QED BY <1>3, <2>7, <2>8, <2>9
<1> QED BY <1>2, <1>3 DEF Puttings

LEMMA PutStep ==
  ASSUME Ready, Unambiguous, NEW h \in Hooks, HookStep(h), Puttings(h), NEW x, x = PutOf(h)
  PROVE  /\ x \in Callbacks /\ x.hook = h /\ (x.extra => DivertMore(h))
         /\ \A s \in Sites : Added(s, x)
         /\ Home(x) \in Sites /\ x \in Passes(Pointers[Home(x)])'
<1>1. x \in Callbacks /\ x.hook = h /\ (x.extra => DivertMore(h))
  BY PutKind
<1>2. ~ HookDetour(h) /\ ~ RestoreCode(h)
  BY KindOf DEF Puttings, OfVFunc, SetsVFunc, OfVTable, SetsVTable, OfImport, SetsImport, OfDetour, Ready
<1>3. Known(x)'
  <2>1. CASE DivertMore(h)
    <3>1. LeadingBelow(member'[h].more, Fn(Extra(h)), h)
      BY <2>1, MoreOf DEF Ready
    <3>2. member'[h].more # Wild
      BY <3>1, PlaceKinds DEF LeadingBelow
    <3> QED BY <2>1, <3>2 DEF Known, PutOf
  <2>2. CASE ~ DivertMore(h)
    BY <2>2, CallbackLeads DEF PutOf, Puttings, Ready
  <2> QED BY <2>1, <2>2
<1>4. ASSUME NEW s \in Sites PROVE Added(s, x)
  <2>1. x \notin Passes(Pointers[s])
    BY PutFresh
  <2>2. Pointers'[s] = Pointers[s] \/ Puts(s, x)
    <3>1. CASE DivertMore(h)
      <4>1. setup[h].type = "VTableSwap"
        BY <3>1, CopyInPlace
      <4>2. setup[h].more # setup[h].index
        BY <4>1 DEF Unambiguous, Ready
      <4> QED BY <3>1, <4>2, PutMore DEF PutOf
    <3>2. CASE ~ DivertMore(h)
      BY <3>2, PutVFunc, PutEntry, PutImport DEF Puttings, PutOf
    <3> QED BY <3>1, <3>2
  <2> QED BY <1>1, <1>2, <1>3, <2>1, <2>2, AddingOf DEF Ready
<1>5. Home(x) \in Sites /\ Pointers'[Home(x)] = Entry(x)
  BY PutHome
<1>6. Patched(x)' = {}
  <2>1. \A k \in Hooks : status'[k] = "on" => k <= x.hook
    <3>1. \A k \in Hooks : status[k] = "on" => k <= h
      BY NewestOf DEF Ready
    <3>2. \A k \in Hooks \ {h} : status'[k] = status[k]
      BY StatusOf DEF Ready
    <3>3. h <= h
      BY SwapAssumption
    <3> QED BY <1>1, <3>1, <3>2, <3>3
  <2>2. SourceOlder'
    BY SourceOlderStep DEF Ready
  <2> QED BY <1>1, <2>1, <2>2, PatchedNotNext DEF NotPatched
<1>7. x \in Passes(Entry(x))'
  <2>1. OriginalPassed'
    BY LeadsStep, OriginalPassingNext DEF Ready
  <2> QED BY <1>1, <1>3, <1>6, <2>1 DEF OriginalPassed
<1>8. Passes(Pointers[Home(x)])' = Passes(Entry(x))'
  <2>1. Home(x)' = Home(x)
    <3>1. setup' = setup
      BY KnownStep DEF Ready
    <3> QED BY <3>1 DEF Home
  <2> QED BY <1>5, <2>1 DEF Passes
<1> QED BY <1>1, <1>4, <1>5, <1>7, <1>8

\* A detour puts its callback into the way of what it is set over, and takes it out.
LEMMA DetourStep ==
  ASSUME Ready, NEW h \in Hooks, HookStep(h), HookDetour(h), NEW x, x = Callback(h)
  PROVE  /\ x \in Callbacks /\ x.hook = h /\ ~ x.extra
         /\ \A s \in Sites : Added(s, x)
         /\ Home(x) \in Sites /\ x \in Passes(Pointers[Home(x)])'
<1>1. x \in Callbacks /\ x.hook = h /\ ~ x.extra
  BY DEF Callbacks, Callback
<1>2. setup[h].type = "VFuncDetour" /\ status[h] = "new" /\ ~ RestoreCode(h)
  <2>1. status[h] = "new" /\ setup[h].type = "VFuncDetour"
    BY DEF HookDetour, Begin
  <2>2. RestoreCode(h) => status[h] = "on"
    BY DEF RestoreCode, Newest
  <2> QED BY <2>1, <2>2
<1>3. ASSUME NEW s \in Sites PROVE Added(s, x)
  <2>1. x \notin Passes(Pointers[s])
    <3>1. ~ Known(x)
      <4>1. x \notin Functions /\ \A k : Extra(k) # x /\ (Callback(k) = x => k = h)
        BY <1>1, RankOf DEF Callback, Extra
      <4> QED BY <1>2, <4>1 DEF Known
    <3>2. \A k \in Hooks : x = Callback(k) => ~ Detouring(k)
      <4>1. \A k : x = Callback(k) => k = h
        BY DEF Callback
      <4> QED BY <1>2, <4>1 DEF Detouring
    <3> QED BY <1>1, <3>1, <3>2, UnknownPassed
  <2>2. Pointers'[s] = Pointers[s]
    <3>1. vptr' = vptr /\ table' = table /\ iat' = iat
      BY DEF HookDetour
    <3> QED BY <3>1, PointerAt
  <2>3. PICK c \in Code : Pointers[s] = Entry(c) /\ Known(c)
    BY PointersToward DEF PointersLead, Leading, Ready
  <2>4. Passes(Entry(c)) \subseteq Passes(Entry(c))' /\ Passes(Entry(c))' \subseteq Passes(Entry(c)) \cup {x}
    BY <1>2, <2>3, WaysKept DEF Ready
  <2>5. Passes(Pointers[s])' = Passes(Entry(c))'
    BY <2>2, <2>3 DEF Passes
  <2> QED BY <2>1, <2>3, <2>4, <2>5 DEF Added, Same
<1>4. Home(x) \in Sites /\ x \in Passes(Pointers[Home(x)])'
  <2>1. PICK r : r = [object |-> setup[h].object, index |-> setup[h].index]
    OBVIOUS
  <2>2. Home(x) = r /\ Home(x)' = r
    <3>1. setup' = setup
      BY KnownStep DEF Ready
    <3> QED BY <1>1, <1>2, <2>1, <3>1 DEF Home
  <2>3. r \in Sites /\ x \in Passes(Pointers[r])'
    BY <2>1, DetouredHome DEF Ready
  <2> QED BY <2>2, <2>3
<1> QED BY <1>1, <1>3, <1>4

LEMMA RestoredStep ==
  ASSUME Ready, NEW h \in Hooks, HookStep(h), RestoreCode(h), NEW s \in Sites
  PROVE  Taken(s, h)
<1>1. /\ setup[h].type = "VFuncDetour" /\ status[h] = "on" /\ At(h, "trampoline")'
      /\ vptr' = vptr /\ table' = table /\ iat' = iat
  BY DEF RestoreCode, Newest, Continue, At
<1>2. ~ HookDetour(h)
  BY <1>1, NotSetting DEF Ready
<1>3. Pointers'[s] = Pointers[s]
  BY <1>1, PointerAt
<1> PICK f : f = Function(s)
  OBVIOUS
<1>4. PICK c \in Code : Pointers[s] = Entry(c) /\ Known(c) /\ f = Function(s) /\ Toward(Entry(c), f)
  <2>1. Leading(Pointers[s], f)
    BY PointersToward DEF PointersLead, Ready
  <2> QED BY <2>1 DEF Leading, Toward
<1>5. Passes(Entry(c)) \subseteq Passes(Entry(c))' \cup {Callback(h)} /\ Passes(Entry(c))' \subseteq Passes(Entry(c))
  BY <1>2, <1>4, WaysKept DEF Ready
<1>6. Passes(Pointers[s])' = Passes(Entry(c))'
  BY <1>3, <1>4 DEF Passes
<1>7. Callback(h) \notin Passes(Pointers[s])'
  <2>1. AllLead' /\ setup' = setup
    BY LeadsStep, KnownStep DEF Ready
  <2>2. RemovedDetour'
    BY <2>1, DetourRemovedNext
  <2> QED BY <1>1, <2>1, <2>2 DEF RemovedDetour
<1>8. ASSUME NEW y \in Passes(Entry(c)), y.hook = h, y # f PROVE y = Callback(h)
  <2>1. y \in Code /\ Fn(y) = f
    BY <1>4, PassesOf DEF Ready
  <2>2. y \in Callbacks
    BY <1>8, <2>1 DEF Fn
  <2>3. y = Callback(h) \/ y = Extra(h)
    BY <1>8, <2>2 DEF Callbacks, Callback, Extra
  <2>4. Extra(h) \notin Passes(Pointers[s])
    <3>1. ~ Known(Extra(h))
      <4>1. member[h].more = Wild
        BY <1>1 DEF Ready, AllLead, SavedFirst
      <4>2. Extra(h) \notin Functions /\ \A k : Extra(h) # Callback(k) /\ (Extra(h) = Extra(k) => k = h)
        <5>1. Extra(h) \in Callbacks
          BY DEF Callbacks
        <5> QED BY <5>1, RankOf DEF Callback, Extra
      <4> QED BY <4>1, <4>2 DEF Known
    <3>2. Extra(h) \in Callbacks /\ \A k \in Hooks : Extra(h) # Callback(k)
      BY DEF Callbacks, Callback, Extra
    <3> QED BY <3>1, <3>2, UnknownPassed
  <2> QED BY <1>4, <2>3, <2>4
<1>9. Callback(h).hook = h /\ Callback(h) # f
  BY <1>4, FunctionNot DEF Callbacks, Callback
<1> QED BY <1>4, <1>5, <1>6, <1>7, <1>8, <1>9 DEF Taken

\* When a hook has been removed no pointer leads to a callback of it.
Removes(h) == UnHookVFunc(h) \/ RestoreClass(h) \/ UnHookImport(h)

LEMMA RemovesWhen ==
  ASSUME Ready, NEW h \in Hooks, HookStep(h), Removes(h)
  PROVE  /\ status[h] = "on" /\ busy = Idle /\ setup' = setup /\ member' = member
         /\ setup[h].type # "VFuncDetour" /\ ~ HookDetour(h) /\ ~ RestoreCode(h)
         /\ setup[h].type = "VTableSwap" => RestoreClass(h) /\ At(h, "free")'
         /\ setup[h].type # "VTableSwap" => status'[h] = "off"
<1>1. status[h] = "on" /\ busy = Idle /\ member' = member
  BY DEF Removes, UnHookVFunc, RestoreClass, UnHookImport, Newest
<1>2. /\ UnHookVFunc(h) => setup[h].type = "VFuncSwap"
      /\ RestoreClass(h) => setup[h].type = "VTableSwap"
      /\ UnHookImport(h) => setup[h].type = "IAT"
      /\ HookDetour(h) \/ RestoreCode(h) => setup[h].type = "VFuncDetour"
  BY KindOf DEF OfVFunc, OfVTable, OfImport, OfDetour, Ready
<1>3. RestoreClass(h) => At(h, "free")'
  BY DEF RestoreClass, Continue, At
<1>4. UnHookVFunc(h) \/ UnHookImport(h) => status'[h] = "off"
  BY StatusOf DEF Ready
<1>5. setup' = setup
  BY KnownStep DEF Ready
<1> QED BY <1>1, <1>2, <1>3, <1>4, <1>5 DEF Removes

LEMMA RemovedPassed ==
  ASSUME Ready, NEW h \in Hooks, HookStep(h), Removes(h), NEW s \in Sites
  PROVE  \A y \in Passes(Pointers[s])' : y \in Callbacks => y.hook # h
<1>1. /\ status[h] = "on" /\ setup' = setup /\ setup[h].type # "VFuncDetour"
      /\ setup[h].type = "VTableSwap" => RestoreClass(h) /\ At(h, "free")'
      /\ setup[h].type # "VTableSwap" => status'[h] = "off"
  BY RemovesWhen
<1>2. SwapInv' /\ AllLead'
  BY LeadsStep, SwapInvStep DEF Ready, Next
<1>3. Foremost(h)'
  <2>1. ASSUME NEW k \in Hooks, status'[k] = "on"
        PROVE  k < h \/ (k = h /\ setup'[h].type = "VTableSwap")
    <3>1. CASE k = h
      BY <1>1, <2>1, <3>1
    <3>2. CASE k # h
      <4>1. status[k] = "on"
        BY <2>1, <3>2, StatusOf DEF Ready
      <4>2. k <= h
        BY <4>1, NewestOf DEF Ready
      <4> QED BY <3>2, <4>2, SwapAssumption
    <3> QED BY <3>1, <3>2
  <2>2. \A k \in Hooks \ {h} : \A d : ~ At(k, d)'
    BY OldOf DEF Ready
  <2> QED BY <2>1, <2>2 DEF Foremost
<1>4. WordsOlder' /\ OlderAvoid'
  BY <1>2, WordsOldNext, OldAvoidsNext
<1>5. \E c \in Code : Pointers'[s] = Entry(c) /\ Known(c)' /\ Rank(c) < h
  <2>1. CASE s \in Imports
    <3>1. \E c \in Code : iat'[s] = Entry(c) /\ Known(c)' /\ Rank(c) < h
      BY <1>3, <1>4, <2>1 DEF WordsOlder, Rank
    <3> QED BY <2>1, <3>1, PointerAt
  <2>2. CASE s \notin Imports
    <3>6. PICK o \in Objects, i \in Indices : Pointers'[s] = table'[vptr'[o]][i]
      BY <2>2, PointerAt
    <3>1. PICK y : y = vptr'[o] /\ Pointers'[s] = table'[y][i]
      BY <3>6
    <3>2. y = 0 \/ y \in Pointed(o)'
      BY <1>2, <3>1 DEF AllLead, ObjectsLive
    <3>3. y \in {0} \cup Hooks /\ Live(y)'
      BY <3>2 DEF Pointed, Live
    <3>4. y # h
      <4>1. h # 0
        BY SwapAssumption
      <4>2. At(h, "free")' => ~ At(h, "new entry")'
        <5>1. \A d : At(h, d)' => busy'.doing = d
          BY DEF At
        <5> QED BY <5>1
      <4> QED BY <1>1, <3>2, <4>1, <4>2 DEF Pointed
    <3>5. \E c \in Code : table'[y][i] = Entry(c) /\ Known(c)' /\ Rank(c) < h
      BY <1>3, <1>4, <3>3, <3>4 DEF WordsOlder, Rank
    <3> QED BY <3>1, <3>5
  <2> QED BY <2>1, <2>2
<1>6. PICK c \in Code : Pointers'[s] = Entry(c) /\ Known(c)' /\ Rank(c) < h
  BY <1>5
<1>7. \A y \in Passes(Entry(c))' : y \in Callbacks => y.hook # h
  BY <1>1, <1>4, <1>6 DEF OlderAvoid, Rank
<1>8. Passes(Pointers[s])' = Passes(Entry(c))'
  BY <1>6 DEF Passes
<1> QED BY <1>7, <1>8

LEMMA KnownNewest ==
  ASSUME Ready, NEW h \in Hooks, status[h] = "on", setup[h].type # "VFuncDetour"
  PROVE  /\ Known(Callback(h)) /\ \E c \in Code : member[h].orig = Entry(c) /\ Known(c)
         /\ member[h].more # Wild =>
              Known(Extra(h)) /\ \E c \in Code : member[h].more = Entry(c) /\ Known(c)
<1>1. member[h].orig # Wild
  BY DEF Ready, AllLead, SavedFirst
<1>2. LeadingBelow(member[h].orig, Fn(Callback(h)), h)
  BY <1>1 DEF Ready, AllLead, MembersLead
<1>3. member[h].more # Wild => LeadingBelow(member[h].more, Fn(Extra(h)), h)
  BY DEF Ready, AllLead, MembersLead
<1> QED BY <1>1, <1>2, <1>3 DEF Known, LeadingBelow

LEMMA TakesVFunc ==
  ASSUME Ready, NEW h \in Hooks, HookStep(h), UnHookVFunc(h), NEW s \in Sites
  PROVE  Pointers'[s] = Pointers[s] \/ Takes(s, Callback(h))
<1>1. /\ status[h] = "on" /\ setup[h].type = "VFuncSwap" /\ vptr' = vptr /\ iat' = iat
      /\ table' = [table EXCEPT ![member[h].vtable][setup[h].index] = member[h].orig]
  BY DEF UnHookVFunc, Newest
<1>2. CASE s \in Imports
  BY <1>1, <1>2, PointerAt
<1>3. CASE s \notin Imports
  <2>1. PICK y \in {0} \cup Hooks, j \in Indices :
          Live(y) /\ Pointers[s] = table[y][j] /\ Pointers'[s] = table'[y][j]
    BY <1>1, <1>3, SiteWord
  <2>2. PICK v, i : v = member[h].vtable /\ i = setup[h].index
    OBVIOUS
  <2>3. Written(table', table, v, i, member[h].orig) /\ IsVtable(table[y])
    BY <1>1, <2>1, <2>2 DEF Written, Ready, AllLead, TablesLead
  <2>4. /\ y = v /\ j = i => table'[y][j] = member[h].orig
        /\ ~ (y = v /\ j = i) => table'[y][j] = table[y][j]
    BY <2>3, EntryWritten DEF Ready
  <2>5. CASE y = v /\ j = i
    <3>1. h \in SwappedIn(y, j) /\ \A g \in SwappedIn(y, j) : g <= h
      <4>1. \A g \in SwappedIn(y, j) : g \in Hooks /\ status[g] = "on"
        BY DEF SwappedIn
      <4>2. \A g \in SwappedIn(y, j) : g <= h
        BY <4>1, NewestOf DEF Ready
      <4> QED BY <1>1, <2>2, <2>5, <4>2 DEF SwappedIn
    <3>2. table[y][j] = Diverted[h]
      <4>1. CASE y = 0
        <5>1. Swapped(j) = SwappedIn(y, j)
          BY <4>1 DEF Swapped, SwappedIn
        <5>2. Layered(Swapped(j), Diverted, Origs, table[0][j], Entry(Virtuals[j]))
          BY DEF Ready, SwapInv, Layers, VirtualLayers
        <5> QED BY <3>1, <4>1, <5>1, <5>2 DEF Layered
      <4>2. CASE y # 0
        <5>1. y \in Hooks
          BY <2>1, <4>2
        <5>2. PICK c \in Code : Beneath(y, j, c)
          BY <2>1, <5>1 DEF Ready, CopiesBeneath
        <5> QED BY <3>1, <5>2 DEF Beneath, Layered
      <4> QED BY <4>1, <4>2
    <3>3. PICK c \in Code : member[h].orig = Entry(c) /\ Known(c)
      BY <1>1, KnownNewest
    <3>4. Original(Callback(h)) = member[h].orig /\ Diverted[h] = Entry(Callback(h))
      BY DEF Original, Callback, Diverted
    <3> QED BY <2>1, <2>4, <2>5, <3>2, <3>3, <3>4 DEF Takes
  <2> QED BY <2>1, <2>4, <2>5
<1> QED BY <1>2, <1>3

LEMMA TakesClass ==
  ASSUME Ready, NEW h \in Hooks, HookStep(h), RestoreClass(h), NEW s \in Sites
  PROVE  Pointers'[s] = Pointers[s] \/ Takes(s, Callback(h))
         \/ (member[h].more # Wild /\ Takes(s, Extra(h)))
<1>1. /\ status[h] = "on" /\ setup[h].type = "VTableSwap" /\ table' = table /\ iat' = iat
      /\ vptr' = [vptr EXCEPT ![setup[h].object] = member[h].vtable]
  BY DEF RestoreClass, Newest
<1>2. CASE s \in Imports
  BY <1>1, <1>2, PointerAt
<1>3. CASE s \notin Imports
  <2>1. PICK o \in Objects, i \in Indices : /\ Pointers[s] = table[vptr[o]][i]
                                           /\ Pointers'[s] = table'[vptr'[o]][i]
    BY <1>3, PointerAt
  <2>2. CASE o # setup[h].object
    <3>1. vptr'[o] = vptr[o]
      BY <1>1, <2>2
    <3> QED BY <1>1, <2>1, <3>1
  <2>3. CASE o = setup[h].object
    <3>1. vptr[o] = h /\ Live(h)
      BY <2>3, CopyInPlace
    <3>2. PICK V : V = member[h].vtable
      OBVIOUS
    <3>3. vptr'[o] = V
      BY <1>1, <2>3, <3>2 DEF Ready, SwapInv, Shape
    <3>4. PICK c \in Code :
            /\ table[V][i] = Entry(c) /\ table[h][i] = PutInto(h, i, c)
            /\ i = setup[h].index => member[h].orig = Entry(c)
            /\ i = setup[h].more /\ member[h].more # Wild => member[h].more = Entry(c)
      BY <3>1, <3>2, CopyNow
    <3>5. Pointers[s] = PutInto(h, i, c) /\ Pointers'[s] = Entry(c)
      BY <1>1, <2>1, <3>1, <3>3, <3>4
    <3>6. Original(Callback(h)) = member[h].orig /\ Original(Extra(h)) = member[h].more
      BY DEF Original, Callback, Extra
    <3>7. /\ \E d \in Code : member[h].orig = Entry(d) /\ Known(d)
          /\ member[h].more # Wild => \E d \in Code : member[h].more = Entry(d) /\ Known(d)
      BY <1>1, KnownNewest
    <3>8. CASE i = setup[h].more /\ member[h].more # Wild
      <4>1. Pointers[s] = Entry(Extra(h))
        BY <3>5, <3>8 DEF PutInto
      <4>2. PICK d \in Code : member[h].more = Entry(d) /\ Known(d)
        BY <3>7, <3>8
      <4> QED BY <3>4, <3>5, <3>6, <3>8, <4>1, <4>2 DEF Takes
    <3>9. CASE ~ (i = setup[h].more /\ member[h].more # Wild) /\ i = setup[h].index
      <4>1. Pointers[s] = Entry(Callback(h))
        BY <1>1, <3>5, <3>9 DEF PutInto
      <4>2. PICK d \in Code : member[h].orig = Entry(d) /\ Known(d)
        BY <3>7
      <4> QED BY <3>4, <3>5, <3>6, <3>9, <4>1, <4>2 DEF Takes
    <3>10. CASE ~ (i = setup[h].more /\ member[h].more # Wild) /\ i # setup[h].index
      BY <3>5, <3>10 DEF PutInto
    <3> QED BY <3>8, <3>9, <3>10
  <2> QED BY <2>2, <2>3
<1> QED BY <1>2, <1>3

LEMMA TakesImport ==
  ASSUME Ready, NEW h \in Hooks, HookStep(h), UnHookImport(h), NEW s \in Sites
  PROVE  Pointers'[s] = Pointers[s] \/ Takes(s, Callback(h))
<1>1. /\ status[h] = "on" /\ setup[h].type = "IAT" /\ setup[h].module = "exe"
      /\ vptr' = vptr /\ table' = table
      /\ \E r \in FindIATFunc(h, "exe") : iat' = [iat EXCEPT ![r] = member[h].orig]
  BY DEF UnHookImport, Newest
<1>2. PICK r \in FindIATFunc(h, "exe") : iat' = [iat EXCEPT ![r] = member[h].orig]
  BY <1>1
<1>3. r \in Imports
  BY DEF FindIATFunc
<1>4. CASE s \notin Imports
  BY <1>1, <1>4, PointerAt
<1>5. CASE s \in Imports /\ s # r
  <2>1. iat'[s] = iat[s]
    BY <1>2, <1>5
  <2> QED BY <1>5, <2>1, PointerAt
<1>6. CASE s = r
  <2>1. iat'[s] = member[h].orig
    BY <1>2, <1>3, <1>6 DEF Ready, SwapInv, Shape
  <2>2. h \in Imported(r) /\ \A g \in Imported(r) : g <= h
    <3>1. \A g \in Imported(r) : g \in Hooks /\ status[g] = "on"
      BY DEF Imported
    <3>2. \A g \in Imported(r) : g <= h
      BY <3>1, NewestOf DEF Ready
    <3> QED BY <1>1, <3>2 DEF Imported
  <2>3. iat[r] = Diverted[h]
    <3>1. Layered(Imported(r), Diverted, Origs, iat[r], Entry(r.function))
      BY <1>3 DEF Ready, SwapInv, Layers, ImportLayers
    <3> QED BY <2>2, <3>1 DEF Layered
  <2>4. PICK c \in Code : member[h].orig = Entry(c) /\ Known(c)
    BY <1>1, KnownNewest
  <2>5. Original(Callback(h)) = member[h].orig /\ Diverted[h] = Entry(Callback(h))
    BY DEF Original, Callback, Diverted
  <2> QED BY <1>3, <1>6, <2>1, <2>3, <2>4, <2>5, PointerAt DEF Takes
<1> QED BY <1>4, <1>5, <1>6

LEMMA TakeStep ==
  ASSUME Ready, NEW h \in Hooks, HookStep(h), Removes(h), NEW s \in Sites
  PROVE  Taken(s, h)
<1>1. status[h] = "on" /\ setup[h].type # "VFuncDetour" /\ ~ HookDetour(h) /\ ~ RestoreCode(h)
  BY RemovesWhen
<1>2. \A y \in Passes(Pointers[s])' : y \in Callbacks => y.hook # h
  BY RemovedPassed
<1>3. Known(Callback(h)) /\ (member[h].more # Wild => Known(Extra(h)))
  BY <1>1, KnownNewest
<1>4. /\ Callback(h) \in Callbacks /\ Callback(h).hook = h
      /\ Extra(h) \in Callbacks /\ Extra(h).hook = h
  BY DEF Callbacks, Callback, Extra
<1>5. Pointers'[s] = Pointers[s] \/ Takes(s, Callback(h)) \/ (member[h].more # Wild /\ Takes(s, Extra(h)))
  BY TakesVFunc, TakesClass, TakesImport DEF Removes
<1>6. Pointers'[s] = Pointers[s] \/ (\E x \in Callbacks : x.hook = h /\ Known(x) /\ Takes(s, x))
  BY <1>3, <1>4, <1>5
<1> QED BY <1>1, <1>2, <1>6, TakingOf DEF Ready

-----------------------------------------------------------------------------
(***************************************************************************)
(* SwapHooks implements HookChains.                                        *)
(***************************************************************************)
SortedEqual == \A a, b \in Seq(Code) : Sorted(a) /\ Sorted(b) /\ ToSet(a) = ToSet(b) => a = b
InsertedSorted ==
  \A a, b \in Seq(Code) : \A x : \A y \in ToSet(b) :
    Sorted(a) /\ Sorted(b) /\ x \notin ToSet(a) /\ ToSet(b) = ToSet(a) \cup {x} /\ Later(x, y) =>
      Chains!Inserted(a, b, x)
WithoutSorted ==
  \A a, b \in Seq(Code) : \A h, s :
    Sorted(a) /\ Sorted(b) /\ ToSet(b) = {x \in ToSet(a) : x = Function(s) \/ x.hook # h} =>
      Chains!Without(a, b, h, s)
\* The function a call is for is the last on its way.
FunctionLast ==
  \A a \in Seq(Code) : \A f \in ToSet(a), x \in ToSet(a) :
    Sorted(a) /\ f \notin Callbacks /\ f \in Functions /\ x # f => Later(x, f)

SortedFacts == SortedEqual /\ InsertedSorted /\ WithoutSorted /\ FunctionLast

LEMMA SortedOnes == SortedFacts
<1>1. SortedEqual
  BY SortedSame DEF SortedEqual
<1>2. InsertedSorted
  <2> SUFFICES ASSUME NEW a \in Seq(Code), NEW b \in Seq(Code), NEW x, NEW y \in ToSet(b),
                      Sorted(a), Sorted(b), x \notin ToSet(a), ToSet(b) = ToSet(a) \cup {x}, Later(x, y)
               PROVE  Chains!Inserted(a, b, x)
    BY DEF InsertedSorted
  <2> QED BY SortedInserted
<1>3. WithoutSorted
  BY SortedWithout DEF WithoutSorted
<1>4. FunctionLast
  <2> SUFFICES ASSUME NEW a \in Seq(Code), NEW f \in ToSet(a), NEW x \in ToSet(a), Sorted(a),
                      f \notin Callbacks, f \in Functions, x # f
               PROVE  Later(x, f)
    BY DEF FunctionLast
  <2>1. PICK i \in DOMAIN a, j \in DOMAIN a : a[i] = x /\ a[j] = f
    BY DEF ToSet
  <2>2. i < j \/ j < i
    BY <2>1
  <2>3. Later(x, f) \/ Later(f, x)
    BY <2>1, <2>2 DEF Sorted
  <2>4. Base(f) = 0 /\ Own(f) = 0
    BY RankOf DEF Base, Own, OfADetour
  <2>5. Base(x) \in Nat /\ Own(x) \in Nat
    BY KeysOf
  <2>6. ~ (Base(x) < 0) /\ ~ (Own(x) < 0)
    BY <2>5
  <2> QED BY <2>3, <2>4, <2>6 DEF Later
<1> QED BY <1>1, <1>2, <1>3, <1>4 DEF SortedFacts

LEMMA SortedOnesNext == SortedFacts'
BY SortedOnes, PTL

\* The chain of a site is sorted, and the function of the site is in it.
SitesSorted ==
  \A s \in Sites : /\ Way(Pointers[s], Links) \in Seq(Code) /\ Sorted(Way(Pointers[s], Links))
                   /\ Function(s) \in Passes(Pointers[s])

LEMMA SitesAreSorted == AllLead => SitesSorted
<1> SUFFICES ASSUME AllLead, NEW s \in Sites
             PROVE  /\ Way(Pointers[s], Links) \in Seq(Code) /\ Sorted(Way(Pointers[s], Links))
                    /\ Function(s) \in Passes(Pointers[s])
  BY DEF SitesSorted
<1>1. PICK f, p : f = Function(s) /\ p = Pointers[s]
  OBVIOUS
<1>2. Leading(p, f)
  BY <1>1, PointersToward DEF PointersLead
<1>3. Toward(p, f) /\ p # Done(f)
  BY <1>2, PlaceKinds DEF Leading, Toward
<1>4. WaySorted(f, p)
  BY <1>3, WaysSorted
<1> QED BY <1>1, <1>3, <1>4 DEF WaySorted

LEMMA SitesAreSortedNext == AllLead' => SitesSorted'
BY SitesAreSorted, PTL

\* The place of a callback in the order does not change, but for that of a detour.
LEMMA KeysKept ==
  ASSUME Ready, NEW h \in Hooks, HookStep(h), NEW x, HookDetour(h) /\ x \in Callbacks => x.hook # h
  PROVE  Base(x)' = Base(x) /\ Own(x)' = Own(x)
<1>1. setup' = setup
  BY KnownStep DEF Ready
<1>2. OfADetour(x)' <=> OfADetour(x)
  BY <1>1 DEF OfADetour
<1>3. Own(x)' = Own(x)
  BY <1>2 DEF Own
<1>4. CASE OfADetour(x)
  <2>1. x \in Callbacks /\ x.hook \in Hooks
    BY <1>4 DEF OfADetour, Callbacks, Callback, Extra
  <2>2. PICK k \in Hooks : k = x.hook
    BY <2>1
  <2>3. member'[k].src = member[k].src
    BY <2>1, <2>2, StatusOf, MemberOf DEF Ready
  <2>4. Source(k)' = Source(k)
    BY <2>3 DEF Source
  <2>5. Base(x) = Rank(Source(k)) /\ Base(x)' = Rank(Source(k)')
    BY <1>2, <1>4, <2>2 DEF Base, Rank
  <2> QED BY <1>3, <2>4, <2>5
<1>5. CASE ~ OfADetour(x)
  BY <1>2, <1>3, <1>5 DEF Base, Rank
<1> QED BY <1>4, <1>5

\* How the chain of a site changes.
LEMMA ChainStep ==
  ASSUME Ready, ChainIs, NEW h \in Hooks, HookStep(h), NEW s \in Sites
  PROVE  /\ ToSet(chain[s]) = Passes(Pointers[s]) /\ ToSet(chain'[s]) = Passes(Pointers[s])'
         /\ Same(s) => chain'[s] = chain[s]
         /\ \A x : Added(s, x) => chain'[s] = chain[s] \/ Chains!Inserted(chain[s], chain'[s], x)
         /\ \A k : Taken(s, k) => Chains!Without(chain[s], chain'[s], k, s)
<1>1. PICK a, b : a = chain[s] /\ b = chain'[s]
  OBVIOUS
<1>2. a = Way(Pointers[s], Links)
  BY <1>1 DEF ChainIs
<1>3. b = Way(Pointers'[s], Links')
  <2>1. Watch
    BY WatchOf
  <2> QED BY <1>1, <2>1 DEF Watch
<1>4. ToSet(a) = Passes(Pointers[s]) /\ ToSet(b) = Passes(Pointers[s])'
  BY <1>2, <1>3 DEF Passes, ToSet
<1>5. AllLead' /\ SitesSorted /\ SitesSorted'
  BY LeadsStep, SitesAreSorted, SitesAreSortedNext DEF Ready
<1>6. a \in Seq(Code) /\ Sorted(a) /\ Function(s) \in ToSet(a)
  BY <1>2, <1>4, <1>5 DEF SitesSorted
<1>7. b \in Seq(Code) /\ Sorted(b)' /\ Function(s) \in ToSet(b)
  BY <1>3, <1>4, <1>5 DEF SitesSorted
<1>8. Sorted(a)'
  <2>1. ASSUME NEW x \in ToSet(a), HookDetour(h), x \in Callbacks PROVE x.hook # h
    <3>1. SUFFICES ASSUME x.hook = h PROVE FALSE
      OBVIOUS
    <3>2. setup[h].type = "VFuncDetour" /\ status[h] = "new"
      BY <2>1 DEF HookDetour, Begin
    <3>3. member[h].more = Wild
      BY <3>2 DEF Ready, AllLead, SavedFirst
    <3>4. \A k \in Hooks : x = Callback(k) \/ x = Extra(k) => k = h
      BY <3>1 DEF Callback, Extra
    <3>5. ~ Known(x)
      BY <2>1, <3>2, <3>3, <3>4, RankOf DEF Known
    <3>6. \A k \in Hooks : x = Callback(k) => ~ Detouring(k)
      BY <3>2, <3>4 DEF Detouring
    <3> QED BY <1>4, <2>1, <3>5, <3>6, UnknownPassed
  <2>2. \A x \in ToSet(a) : Base(x)' = Base(x) /\ Own(x)' = Own(x)
    BY <2>1, KeysKept
  <2>3. \A i \in DOMAIN a : a[i] \in ToSet(a)
    BY DEF ToSet
  <2>4. \A i \in DOMAIN a : Base(a[i])' = Base(a[i]) /\ Own(a[i])' = Own(a[i])
    BY <2>2, <2>3
  <2>5. \A i, j \in DOMAIN a : Later(a[i], a[j]) => Later(a[i], a[j])'
    BY <2>4 DEF Later
  <2> QED BY <1>6, <2>5 DEF Sorted
<1>9. SortedFacts'
  BY SortedOnesNext
<1>10. Same(s) => b = a
  BY <1>4, <1>6, <1>7, <1>8, <1>9 DEF Same, SortedFacts, SortedEqual, ToSet
<1>11. ASSUME NEW x, Added(s, x), ~ Same(s) PROVE Chains!Inserted(a, b, x)
  <2>1. x \notin ToSet(a) /\ ToSet(b) = ToSet(a) \cup {x}
    BY <1>4, <1>11 DEF Added
  <2>2. PICK y : y = Function(s)
    OBVIOUS
  <2>3. y \in ToSet(a) /\ y \in ToSet(b) /\ x \in ToSet(b) /\ x # y /\ y \in Functions /\ y \notin Callbacks
    BY <1>6, <1>7, <2>1, <2>2, FunctionNot
  <2>4. Later(x, y)'
    BY <1>7, <1>9, <2>3 DEF SortedFacts, FunctionLast, ToSet
  <2> QED BY <1>6, <1>7, <1>8, <1>9, <2>1, <2>3, <2>4 DEF SortedFacts, InsertedSorted, ToSet
<1>12. ASSUME NEW k, Taken(s, k) PROVE Chains!Without(a, b, k, s)
  <2>1. ToSet(b) = {x \in ToSet(a) : x = Function(s) \/ x.hook # k}
    BY <1>4, <1>12 DEF Taken
  <2> QED BY <1>6, <1>7, <1>8, <1>9, <2>1 DEF SortedFacts, WithoutSorted, ToSet, Function
<1> QED BY <1>1, <1>4, <1>10, <1>11, <1>12

\* What a step of a hook does to the chains.
LEMMA ChainsSet ==
  ASSUME Ready, ChainIs, NEW h \in Hooks, HookStep(h), NEW x \in Callbacks, x.hook = h,
         x.extra => setup[h].type = "VTableSwap" /\ setup[h].more \in Indices,
         \A s \in Sites : Added(s, x), Home(x) \in Sites, x \in Passes(Pointers[Home(x)])'
  PROVE  Chains!Next
<1>1. setup' = setup
  BY KnownStep DEF Ready
<1>2. \A s \in Sites : /\ x \notin ToSet(chain[s])
                       /\ chain'[s] = chain[s] \/ Chains!Inserted(chain[s], chain'[s], x)
  BY ChainStep DEF Added
<1>3. x \in ToSet(chain'[Home(x)])
  <2>1. Passes(Pointers[Home(x)])' = ToSet(chain'[Home(x)])
    <3>1. PICK s \in Sites : s = Home(x)
      OBVIOUS
    <3>2. Home(x)' = Home(x)
      BY <1>1 DEF Home
    <3>3. Passes(Pointers[Home(x)])' = Passes(Pointers[s])'
      BY <3>1, <3>2 DEF Passes
    <3> QED BY <3>1, <3>3, ChainStep
  <2> QED BY <2>1
<1>4. Chains!Set(x)
  BY <1>2, <1>3 DEF Chains!Set, Chains!ToSet, ToSet
<1> QED BY <1>1, <1>4 DEF Chains!Next, Home, Chains!Callbacks

LEMMA ChainsUnset ==
  ASSUME Ready, ChainIs, NEW h \in Hooks, HookStep(h), \A s \in Sites : Taken(s, h)
  PROVE  Chains!Next
<1>1. setup' = setup
  BY KnownStep DEF Ready
<1>2. \A s \in Sites : Chains!Without(chain[s], chain'[s], h, s)
  BY ChainStep
<1>3. Chains!Unset(h)
  BY <1>2 DEF Chains!Unset
<1>4. PICK x : x = Callback(h)
  OBVIOUS
<1>5. x \in Callbacks /\ x.hook = h /\ ~ x.extra
  BY <1>4 DEF Callbacks, Callback
<1> QED BY <1>1, <1>3, <1>5 DEF Chains!Next, Home, Chains!Callbacks

LEMMA HookMaps ==
  ASSUME Ready, ChainIs, Unambiguous, NEW h \in Hooks, HookStep(h)
  PROVE  [Chains!Next]_(Chains!vars)
<1>1. setup' = setup
  BY KnownStep DEF Ready
<1>2. CASE Quiet(h) /\ ~ HookDetour(h) /\ ~ RestoreCode(h)
  <2>1. \A s \in Sites : Same(s)
    <3> SUFFICES ASSUME NEW s \in Sites PROVE Same(s)
      OBVIOUS
    <3>1. Pointers'[s] = Pointers[s]
      BY <1>2, QuietStep
    <3> QED BY <1>2, <3>1, SamePointer DEF Ready
  <2>2. \A s \in Sites : chain'[s] = chain[s]
    BY <2>1, ChainStep
  <2>3. chain' = chain
    <3>1. chain' = [s \in Sites |-> Way(Pointers'[s], Links')]
      BY WatchOf DEF Watch
    <3> QED BY <2>2, <3>1 DEF ChainIs
  <2> QED BY <1>1, <2>3 DEF Chains!vars, Home
<1>3. CASE Puttings(h)
  <2>1. PICK x : x = PutOf(h)
    OBVIOUS
  <2>2. x.extra => setup[h].type = "VTableSwap" /\ setup[h].more \in Indices
    <3>1. DivertMore(h) => setup[h].type = "VTableSwap" /\ setup[h].more \in Indices
      BY DEF DivertMore, Newest
    <3> QED BY <2>1, <3>1, PutKind
  <2> QED BY <1>3, <2>1, <2>2, PutStep, ChainsSet
<1>4. CASE HookDetour(h)
  <2>1. PICK x : x = Callback(h)
    OBVIOUS
  <2> QED BY <1>4, <2>1, DetourStep, ChainsSet
<1>5. CASE RestoreCode(h)
  BY <1>5, RestoredStep, ChainsUnset
<1>6. CASE Removes(h)
  BY <1>6, TakeStep, ChainsUnset
<1>7. Quiet(h) \/ Puttings(h) \/ HookDetour(h) \/ RestoreCode(h) \/ Removes(h)
  BY DEF HookStep, Quiet, Puttings, Removes
<1> QED BY <1>2, <1>3, <1>4, <1>5, <1>6, <1>7

\* The chains are the ways, and the copies are as the hooks have left them.
ChainsInv == OnceInv /\ CopiesBeneath /\ ChainIs

LEMMA ReadyOf == ChainsInv => Ready
BY DEF ChainsInv, OnceInv, CallInv, Ready

LEMMA InitChainsInv == Init => ChainsInv
<1> SUFFICES ASSUME Init PROVE ChainsInv
  OBVIOUS
<1>1. \A g \in Hooks : ~ Live(g)
  <2>1. \A g \in Hooks : status[g] = "new" /\ g # 0 /\ \A d : ~ At(g, d)
    BY NoneAt, SwapAssumption DEF Init
  <2> QED BY <2>1 DEF Live
<1>2. CopiesBeneath
  BY <1>1 DEF CopiesBeneath
<1> QED BY <1>2, InitOnceInv, InitChains DEF ChainsInv

LEMMA SameCopies ==
  ASSUME UNCHANGED <<memory, hooks>>, chain' = chain, CopiesBeneath, ChainIs
  PROVE  CopiesBeneath' /\ ChainIs'
<1> USE DEF memory, hooks
<1>1. ChainIs'
  BY DEF ChainIs, Pointers, Links
<1>2. /\ \A x : Live(x)' <=> Live(x)
      /\ \A n, x, i : Since(n, x, i)' = Since(n, x, i) /\ SwappedIn(x, i)' = SwappedIn(x, i)
      /\ Origs' = Origs /\ Diverted' = Diverted
      /\ \A g, i, c : PutInto(g, i, c)' = PutInto(g, i, c)
  BY DEF Live, At, Since, SwappedIn, Origs, Diverted, PutInto
<1>3. \A g, i, c : Beneath(g, i, c) => Beneath(g, i, c)'
  BY <1>2 DEF Beneath, Layered
<1> QED BY <1>1, <1>2, <1>3 DEF CopiesBeneath

LEMMA ChainsInvStep ==
  ASSUME ChainsInv, [Next]_vars PROVE ChainsInv'
<1>1. OnceInv'
  BY OnceInvStep DEF ChainsInv
<1>2. ASSUME NEW h \in Hooks, HookStep(h) PROVE ChainsInv'
  <2>1. CopiesBeneath'
    BY <1>2, ReadyOf, CopiesBeneathStep DEF Ready
  <2>2. ChainIs'
    <3>1. chain' = [s \in Sites |-> Way(Pointers'[s], Links')]
      BY <1>2, WatchOf DEF Watch
    <3> QED BY <3>1 DEF ChainIs
  <2> QED BY <1>1, <2>1, <2>2 DEF ChainsInv
<1>3. ASSUME NEW t \in Threads, CallStep(t) PROVE ChainsInv'
  <2>1. UNCHANGED <<memory, hooks>> /\ chain' = chain
    BY <1>3 DEF CallStep, Call, LoadEntry, Run, Return
  <2> QED BY <1>1, <2>1, SameCopies DEF ChainsInv
<1>4. CASE UNCHANGED vars
  <2>1. UNCHANGED <<memory, hooks>> /\ chain' = chain
    BY <1>4 DEF vars
  <2> QED BY <1>1, <2>1, SameCopies DEF ChainsInv
<1> QED BY <1>2, <1>3, <1>4 DEF Next

\* Every step of SwapHooks is one of HookChains, or changes no chain.
LEMMA StepMaps ==
  ASSUME ChainsInv, Unambiguous, [Next]_vars PROVE [Chains!Next]_(Chains!vars)
<1>1. CASE \E h \in Hooks : HookStep(h)
  BY <1>1, ReadyOf, HookMaps DEF ChainsInv
<1>2. CASE (\E t \in Threads : CallStep(t)) \/ UNCHANGED vars
  <2>1. chain' = chain /\ setup' = setup
    BY <1>2 DEF CallStep, Call, LoadEntry, Run, Return, vars, hooks
  <2> QED BY <2>1 DEF Chains!vars, Home
<1> QED BY <1>1, <1>2 DEF Next

\* Hook puts one callback into the chain of its own site, and perhaps into others, before
\* what is there; UnHook takes the callbacks of one hook out and leaves the others in their
\* order: SwapHooks implements HookChains, when the names of the setups say where the hooks
\* end up.
THEOREM HooksChain == Unambiguous => (Spec => AbstractSpec)
<1> SUFFICES ASSUME Unambiguous PROVE Spec => AbstractSpec
  OBVIOUS
<1>1. Init => Chains!Init
  BY DEF Init, Chains!Init
<1>2. Init => ChainsInv
  BY InitChainsInv
<1>3. ChainsInv /\ [Next]_vars => ChainsInv'
  BY ChainsInvStep
<1>4. ChainsInv /\ [Next]_vars => [Chains!Next]_(Chains!vars)
  BY StepMaps
<1> QED BY <1>1, <1>2, <1>3, <1>4, PTL DEF Spec, AbstractSpec, Chains!Spec
=============================================================================
