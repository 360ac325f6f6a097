--------------------------- MODULE SwapHooksProofs --------------------------
(***************************************************************************)
(* Proofs about the hooks that swap pointers, for any number of hooks of   *)
(* any mixture of kinds over each other and any threads that call: first   *)
(* the words the hooks have written, then the calls that run while hooks   *)
(* come and go, where they lead and which callbacks they pass.             *)
(***************************************************************************)
EXTENDS SwapHooks, FiniteSetTheorems, WellFoundedInduction, TLAPS

(***************************************************************************)
(* A word that several hooks have written, one over the other.             *)
(***************************************************************************)
\* The hooks of A have written x, each its own value, and saved what they found: the
\* newest one's value is there, the oldest one has saved the base.
Layered(A, value, saved, x, base) ==
  /\ A = {} => x = base
  /\ \A h \in A : (\A g \in A : g <= h) => x = value[h]
  /\ \A h \in A : (\A g \in A : h <= g) => saved[h] = base
  /\ \A g, h \in A : g < h /\ (\A k \in A : k <= g \/ h <= k) => saved[h] = value[g]

\* A newer hook saves what is there and writes its own value.
LEMMA LayerAdded ==
  ASSUME NEW A \in SUBSET Hooks, NEW value, NEW saved, NEW x, NEW base,
         Layered(A, value, saved, x, base),
         NEW h \in Hooks, \A g \in A : g < h,
         NEW newSaved, newSaved[h] = x, \A g \in A : newSaved[g] = saved[g]
  PROVE  Layered(A \cup {h}, value, newSaved, value[h], base)
<1> USE SwapAssumption
<1>1. \A g \in A \cup {h} : g \in Nat
  OBVIOUS
<1>2. ASSUME NEW g \in A \cup {h}, \A f \in A \cup {h} : f <= g PROVE value[h] = value[g]
  BY <1>1, <1>2
<1>3. ASSUME NEW g \in A \cup {h}, \A f \in A \cup {h} : g <= f PROVE newSaved[g] = base
  <2>1. CASE g = h
    <3>1. A = {}
      BY <1>1, <1>3, <2>1
    <3> QED BY <2>1, <3>1 DEF Layered
  <2>2. CASE g # h
    BY <1>3, <2>2 DEF Layered
  <2> QED BY <2>1, <2>2
<1>4. ASSUME NEW f \in A \cup {h}, NEW g \in A \cup {h}, f < g,
             \A k \in A \cup {h} : k <= f \/ g <= k
      PROVE  newSaved[g] = value[f]
  <2>1. f \in A
    BY <1>1, <1>4
  <2>2. CASE g = h
    <3>1. \A k \in A : k <= f
      BY <1>1, <1>4, <2>2
    <3> QED BY <2>1, <2>2, <3>1 DEF Layered
  <2>3. CASE g # h
    BY <1>4, <2>1, <2>3 DEF Layered
  <2> QED BY <2>2, <2>3
<1> QED BY <1>2, <1>3, <1>4 DEF Layered

\* The newest hook puts back what it saved.
LEMMA LayerRemoved ==
  ASSUME NEW A \in SUBSET Hooks, NEW value, NEW saved, NEW x, NEW base,
         Layered(A, value, saved, x, base),
         NEW h \in A, \A g \in A : g <= h
  PROVE  Layered(A \ {h}, value, saved, saved[h], base)
<1> USE SwapAssumption
<1>1. \A g \in A : g \in Nat
  OBVIOUS
<1>2. A \ {h} = {} => saved[h] = base
  BY <1>1 DEF Layered
<1>3. ASSUME NEW g \in A \ {h}, \A f \in A \ {h} : f <= g PROVE saved[h] = value[g]
  <2>1. g < h /\ \A k \in A : k <= g \/ h <= k
    BY <1>1, <1>3
  <2> QED BY <2>1 DEF Layered
<1>4. ASSUME NEW g \in A \ {h}, \A f \in A \ {h} : g <= f PROVE saved[g] = base
  <2>1. \A f \in A : g <= f
    BY <1>1, <1>4
  <2> QED BY <2>1 DEF Layered
<1>5. ASSUME NEW f \in A \ {h}, NEW g \in A \ {h}, f < g,
             \A k \in A \ {h} : k <= f \/ g <= k
      PROVE  saved[g] = value[f]
  <2>1. \A k \in A : k <= f \/ g <= k
    BY <1>1, <1>5
  <2> QED BY <1>5, <2>1 DEF Layered
<1> QED BY <1>2, <1>3, <1>4, <1>5 DEF Layered
\* Other hooks and other words do not matter.
LEMMA LayerKept ==
  ASSUME NEW A, NEW value, NEW saved, NEW newSaved, NEW x, NEW base,
         Layered(A, value, saved, x, base), \A g \in A : newSaved[g] = saved[g]
  PROVE  Layered(A, value, newSaved, x, base)
BY DEF Layered

(***************************************************************************)
(* The invariant.                                                          *)
(***************************************************************************)
Shape ==
  /\ status \in [Hooks -> {"new", "on", "off", "failed"}]
  /\ DOMAIN member = Hooks
  /\ \A h \in Hooks : DOMAIN member[h] = {"vtable", "src", "orig", "more"}
  /\ DOMAIN vptr = Objects
  /\ DOMAIN table = {0} \cup Hooks /\ DOMAIN table[0] = Indices
  /\ DOMAIN iat = Imports
  /\ DOMAIN patch = Code
  /\ DOMAIN trampoline = Hooks

\* The hooks are set in their order, so that those that are set are older than those
\* that are new.
InOrder == \A g, h \in Hooks : g < h /\ status[g] = "new" => status[h] = "new"

Setting  == {"entry", "class", "new entry", "import"}
Removing == {"trampoline", "free", "return"}

\* What the hooking thread knows between two writes: it sets the oldest of the new
\* hooks, or works on the newest of those that are set, and what it has saved is there
\* still.
BusyWith(h) ==
  /\ busy.doing \in Setting => status[h] = "new" /\ \A g \in Hooks : g < h => status[g] # "new"
  /\ busy.doing \in Removing => status[h] = "on" /\ \A g \in Hooks : h < g => status[g] # "on"
  /\ busy.doing = "entry" =>
       setup[h].type = "VFuncSwap" /\ member[h].orig = table[member[h].vtable][setup[h].index]
  /\ busy.doing \in {"class", "new entry", "free", "return"} => setup[h].type = "VTableSwap"
  /\ busy.doing = "class" => member[h].vtable = vptr[setup[h].object]
  /\ busy.doing = "import" =>
       /\ setup[h].type = "IAT"
       /\ \A s \in FindIATFunc(h, setup[h].module) : member[h].orig = iat[s]
  /\ busy.doing = "trampoline" => setup[h].type = "VFuncDetour"

BusyOK ==
  \/ busy = Idle
  \/ busy.hook \in Hooks /\ busy.doing \in Setting \cup Removing /\ BusyWith(busy.hook)

\* The hooks that have written a word: the vtable pointer of an object, an entry of the
\* vtable of the class, an entry of an import table, the first bytes of a function.
Pointed(o) ==
  {h \in Hooks : /\ setup[h].type = "VTableSwap" /\ setup[h].object = o
                 /\ (status[h] = "on" /\ ~At(h, "free")) \/ At(h, "new entry")}
Swapped(i) ==
  {h \in Hooks : /\ setup[h].type = "VFuncSwap" /\ setup[h].index = i
                 /\ member[h].vtable = 0 /\ status[h] = "on"}
Imported(s) ==
  {h \in Hooks : /\ setup[h].type = "IAT" /\ s \in FindIATFunc(h, setup[h].module)
                 /\ status[h] = "on"}
Patched(c) ==
  {h \in Hooks : /\ setup[h].type = "VFuncDetour" /\ status[h] = "on"
                 /\ ~At(h, "trampoline") /\ member[h].src.code = c}

\* What they have written, and what they have saved.
Itself   == [h \in Hooks |-> h]
Diverted == [h \in Hooks |-> Entry(Callback(h))]
Vtables  == [h \in Hooks |-> member[h].vtable]
Origs    == [h \in Hooks |-> member[h].orig]

ObjectLayers   == \A o \in Objects : Layered(Pointed(o), Itself, Vtables, vptr[o], 0)
VirtualLayers  ==
  \A i \in Indices : Layered(Swapped(i), Diverted, Origs, table[0][i], Entry(Virtuals[i]))
ImportLayers   ==
  \A s \in Imports : Layered(Imported(s), Diverted, Origs, iat[s], Entry(s.function))
FunctionLayers ==
  \A c \in Code : Layered(Patched(c), Diverted, trampoline, patch[c], Body(c))

Layers  == ObjectLayers /\ VirtualLayers /\ ImportLayers /\ FunctionLayers
SwapInv == Shape /\ InOrder /\ BusyOK /\ Layers
(***************************************************************************)
(* What the steps leave alone.                                             *)
(***************************************************************************)
LEMMA InitSwapInv == Init => SwapInv
<1> SUFFICES ASSUME Init PROVE SwapInv
  OBVIOUS
<1>1. Shape
  BY DEF Init, Shape
<1>2. InOrder /\ BusyOK
  BY SwapAssumption DEF Init, InOrder, BusyOK
<1>3. /\ \A o \in Objects : Pointed(o) = {}
      /\ \A i \in Indices : Swapped(i) = {}
      /\ \A s \in Imports : Imported(s) = {}
      /\ \A c \in Code : Patched(c) = {}
  BY DEF Init, Pointed, Swapped, Imported, Patched, At, Idle
<1>4. /\ \A o \in Objects : vptr[o] = 0
      /\ \A i \in Indices : table[0][i] = Entry(Virtuals[i])
      /\ \A s \in Imports : iat[s] = Entry(s.function)
      /\ \A c \in Code : patch[c] = Body(c)
  BY DEF Init
<1>5. Layers
  BY <1>3, <1>4 DEF Layers, ObjectLayers, VirtualLayers, ImportLayers, FunctionLayers, Layered
<1> QED BY <1>1, <1>2, <1>5 DEF SwapInv

\* A step of h changes nothing of another hook.
OnlyHook(h) ==
  /\ UNCHANGED setup
  /\ busy.hook \in {0, h} /\ busy'.hook \in {0, h}
  /\ \A g \in Hooks \ {h} : /\ member'[g] = member[g] /\ status'[g] = status[g]
                            /\ trampoline'[g] = trampoline[g]

LEMMA StepOfHook ==
  ASSUME Shape, NEW h \in Hooks, HookStep(h)
  PROVE  OnlyHook(h) /\ Shape'
<1> USE SwapAssumption DEF Shape, OnlyHook, Watch, memory, Idle, Begin, Newest, At, Continue, Finish
<1>1. CASE SaveVFunc(h)
  BY <1>1 DEF SaveVFunc
<1>2. CASE WriteVFunc(h)
  BY <1>2 DEF WriteVFunc
<1>3. CASE UnHookVFunc(h)
  BY <1>3 DEF UnHookVFunc
<1>4. CASE HookDetour(h)
  BY <1>4 DEF HookDetour
<1>5. CASE RestoreCode(h)
  BY <1>5 DEF RestoreCode
<1>6. CASE FreeTrampoline(h)
  BY <1>6 DEF FreeTrampoline
<1>7. CASE CopyTable(h)
  BY <1>7 DEF CopyTable
<1>8. CASE SwapTable(h)
  BY <1>8 DEF SwapTable
<1>9. CASE DivertEntry(h)
  BY <1>9 DEF DivertEntry
<1>10. CASE DivertMore(h)
  BY <1>10 DEF DivertMore
<1>11. CASE ReturnMore(h)
  BY <1>11 DEF ReturnMore
<1>12. CASE RestoreClass(h)
  BY <1>12 DEF RestoreClass
<1>13. CASE FreeNewVtable(h)
  BY <1>13 DEF FreeNewVtable
<1>14. CASE FindImport(h)
  BY <1>14 DEF FindImport
<1>15. CASE SaveImport(h)
  BY <1>15 DEF SaveImport
<1>16. CASE WriteImport(h)
  BY <1>16 DEF WriteImport
<1>17. CASE UnHookImport(h)
  BY <1>17 DEF UnHookImport
<1> QED BY <1>1, <1>2, <1>3, <1>4, <1>5, <1>6, <1>7, <1>8, <1>9, <1>10, <1>11, <1>12, <1>13,
           <1>14, <1>15, <1>16, <1>17 DEF HookStep
LEMMA OneImport ==
  ASSUME NEW h, NEW module, NEW r \in FindIATFunc(h, module), NEW s \in FindIATFunc(h, module)
  PROVE  r = s
<1>1. /\ r \in Imports /\ r.module = module /\ r.descriptor = 1 /\ r.function = setup[h].function
      /\ s \in Imports /\ s.module = module /\ s.descriptor = 1 /\ s.function = setup[h].function
  BY DEF FindIATFunc
<1> QED BY <1>1, ImportAssumption

LEMMA AtWhat ==
  ASSUME NEW h, NEW d, At(h, d) PROVE busy.hook = h /\ busy.doing = d
BY DEF At

LEMMA AtBusy ==
  ASSUME BusyOK, NEW h \in Hooks, busy.hook = h PROVE BusyWith(h)
<1>1. busy # Idle
  BY SwapAssumption DEF Idle
<1> QED BY <1>1 DEF BusyOK

LEMMA OthersAway ==
  ASSUME NEW h \in Hooks, OnlyHook(h), NEW g \in Hooks \ {h}, NEW d
  PROVE  ~At(g, d) /\ ~At(g, d)'
<1>1. busy.hook # g /\ busy'.hook # g
  BY SwapAssumption DEF OnlyHook
<1> QED BY <1>1 DEF At

\* A step begins with the oldest new hook or the newest of those that are set, or goes
\* on with the hook it is at.
LEMMA StepOf ==
  ASSUME SwapInv, NEW h \in Hooks, HookStep(h)
  PROVE  /\ status[h] = "new" => \A g \in Hooks : g < h => status[g] # "new"
         /\ status[h] = "on" => \A g \in Hooks : h < g => status[g] # "on"
         /\ status[h] \in {"new", "on"}
         /\ status'[h] = "new" => status[h] = "new"
<1>1. /\ status'[h] = "new" => status[h] = "new"
      /\ \/ status[h] = "new" /\ \A g \in Hooks : g < h => status[g] # "new"
         \/ status[h] = "on" /\ \A g \in Hooks : g > h => status[g] # "on"
         \/ \E d \in Setting \cup Removing : At(h, d)
  <2> USE DEF SwapInv, Shape, Begin, Newest, Continue, Finish, Setting, Removing
  <2>1. CASE SaveVFunc(h) \/ WriteVFunc(h) \/ UnHookVFunc(h) \/ HookDetour(h) \/ RestoreCode(h)
    BY <2>1 DEF SaveVFunc, WriteVFunc, UnHookVFunc, HookDetour, RestoreCode
  <2>2. CASE FreeTrampoline(h) \/ CopyTable(h) \/ SwapTable(h) \/ DivertEntry(h) \/ DivertMore(h)
    BY <2>2 DEF FreeTrampoline, CopyTable, SwapTable, DivertEntry, DivertMore
  <2>3. CASE ReturnMore(h) \/ RestoreClass(h) \/ FreeNewVtable(h) \/ FindImport(h)
    BY <2>3 DEF ReturnMore, RestoreClass, FreeNewVtable, FindImport
  <2>4. CASE SaveImport(h) \/ WriteImport(h) \/ UnHookImport(h)
    BY <2>4 DEF SaveImport, WriteImport, UnHookImport
  <2> QED BY <2>1, <2>2, <2>3, <2>4 DEF HookStep
<1>2. CASE \E d \in Setting \cup Removing : At(h, d)
  <2>1. busy.hook = h /\ busy.doing \in Setting \cup Removing
    BY <1>2, AtWhat
  <2>2. BusyWith(h)
    BY <2>1, AtBusy DEF SwapInv
  <2>3. busy.doing \in Setting =>
          status[h] = "new" /\ \A g \in Hooks : g < h => status[g] # "new"
    BY <2>2 DEF BusyWith
  <2>4. busy.doing \in Removing =>
          status[h] = "on" /\ \A g \in Hooks : h < g => status[g] # "on"
    BY <2>2 DEF BusyWith
  <2> QED BY <1>1, <2>1, <2>3, <2>4
<1>3. \A g \in Hooks : g > h <=> h < g
  BY SwapAssumption
<1> QED BY <1>1, <1>2, <1>3

LEMMA StepOrder ==
  ASSUME SwapInv, NEW h \in Hooks, HookStep(h)
  PROVE  InOrder' /\ BusyOK'
<1>1. OnlyHook(h) /\ Shape'
  BY StepOfHook DEF SwapInv
<1>2. /\ status[h] = "new" => \A g \in Hooks : g < h => status[g] # "new"
      /\ status'[h] = "new" => status[h] = "new"
  BY StepOf
<1>3. InOrder'
  <2> SUFFICES ASSUME NEW f \in Hooks, NEW g \in Hooks, f < g, status'[f] = "new"
               PROVE  status'[g] = "new"
    BY DEF InOrder
  <2>1. status[f] = "new"
    BY <1>1, <1>2 DEF OnlyHook
  <2>2. status[g] = "new"
    BY <2>1 DEF SwapInv, InOrder
  <2>3. g # h
    BY <1>2, <2>1, <2>2
  <2> QED BY <1>1, <2>2, <2>3 DEF OnlyHook
<1>4. ASSUME SaveImport(h)
      PROVE  \A s \in FindIATFunc(h, setup[h].module)' : member'[h].orig = iat'[s]
  <2>1. PICK s \in FindIATFunc(h, setup[h].module) : member' = [member EXCEPT ![h].orig = iat[s]]
    BY <1>4 DEF SaveImport
  <2>2. setup' = setup /\ iat' = iat
    BY <1>4 DEF SaveImport, Watch, memory
  <2>3. \A r \in FindIATFunc(h, setup[h].module)' : r = s
    BY <2>2, OneImport DEF FindIATFunc
  <2>4. DOMAIN member = Hooks /\ DOMAIN member[h] = {"vtable", "src", "orig", "more"}
    BY DEF SwapInv, Shape
  <2>5. member'[h].orig = iat[s]
    BY <2>1, <2>4
  <2> QED BY <2>2, <2>3, <2>5
<1>5. busy' # Idle => /\ busy'.hook = h /\ busy'.doing \in Setting \cup Removing
                      /\ BusyWith(h)'
  <2> USE DEF BusyWith, Begin, Newest, At, Continue, Finish, Setting, Removing, memory
  <2>1. busy.hook = h => BusyWith(h)
    BY AtBusy DEF SwapInv
  <2>2. DOMAIN member = Hooks /\ DOMAIN member[h] = {"vtable", "src", "orig", "more"}
    BY DEF SwapInv, Shape
  <2>3. CASE SaveVFunc(h)
    BY <2>2, <2>3 DEF SaveVFunc, Watch
  <2>4. CASE RestoreCode(h)
    BY <2>4 DEF RestoreCode, Watch
  <2>5. CASE CopyTable(h)
    BY <2>2, <2>5 DEF CopyTable, Watch
  <2>6. CASE SwapTable(h)
    BY <2>1, <2>6 DEF SwapTable, Watch
  <2>7. CASE DivertMore(h)
    BY <2>7 DEF DivertMore, Watch
  <2>8. CASE RestoreClass(h)
    BY <2>8 DEF RestoreClass, Watch
  <2>9. CASE SaveImport(h)
    BY <1>4, <2>9 DEF SaveImport, Watch
  <2>10. CASE WriteVFunc(h) \/ UnHookVFunc(h) \/ HookDetour(h) \/ FreeTrampoline(h)
             \/ DivertEntry(h) \/ ReturnMore(h) \/ FreeNewVtable(h)
    BY <2>10 DEF WriteVFunc, UnHookVFunc, HookDetour, FreeTrampoline, DivertEntry, ReturnMore,
                FreeNewVtable
  <2>11. CASE FindImport(h) \/ WriteImport(h) \/ UnHookImport(h)
    BY <2>11 DEF FindImport, WriteImport, UnHookImport
  <2> QED BY <2>3, <2>4, <2>5, <2>6, <2>7, <2>8, <2>9, <2>10, <2>11 DEF HookStep
<1>6. BusyOK'
  BY <1>5 DEF BusyOK
<1> QED BY <1>3, <1>6

(***************************************************************************)
(* Words that a step of h does not write.                                  *)
(***************************************************************************)
LEMMA ObjectsKept ==
  ASSUME ObjectLayers, NEW h \in Hooks, OnlyHook(h), vptr' = vptr,
         \A o \in Objects : h \in Pointed(o)' <=> h \in Pointed(o),
         \A o \in Objects : h \in Pointed(o) => member'[h].vtable = member[h].vtable
  PROVE  ObjectLayers'
<1> SUFFICES ASSUME NEW o \in Objects
             PROVE  Layered(Pointed(o)', Itself, Vtables', vptr[o], 0)
  BY DEF ObjectLayers, Itself
<1>1. Pointed(o)' = Pointed(o)
  <2>1. \A g \in Hooks \ {h} : g \in Pointed(o)' <=> g \in Pointed(o)
    BY OthersAway DEF Pointed, OnlyHook
  <2>2. Pointed(o) \subseteq Hooks /\ Pointed(o)' \subseteq Hooks
    BY DEF Pointed
  <2> QED BY <2>1, <2>2
<1>2. \A g \in Pointed(o) : Vtables'[g] = Vtables[g]
  BY DEF Pointed, Vtables, OnlyHook
<1> QED BY <1>1, <1>2, LayerKept DEF ObjectLayers

LEMMA VirtualsKept ==
  ASSUME VirtualLayers, NEW h \in Hooks, OnlyHook(h), table'[0] = table[0],
         \A i \in Indices : h \in Swapped(i)' <=> h \in Swapped(i),
         \A i \in Indices : h \in Swapped(i) => member'[h].orig = member[h].orig
  PROVE  VirtualLayers'
<1> SUFFICES ASSUME NEW i \in Indices
             PROVE  Layered(Swapped(i)', Diverted, Origs', table[0][i], Entry(Virtuals[i]))
  BY DEF VirtualLayers, Diverted
<1>1. Swapped(i)' = Swapped(i)
  BY DEF Swapped, OnlyHook
<1>2. \A g \in Swapped(i) : Origs'[g] = Origs[g]
  BY DEF Swapped, Origs, OnlyHook
<1> QED BY <1>1, <1>2, LayerKept DEF VirtualLayers

LEMMA ImportsKept ==
  ASSUME ImportLayers, NEW h \in Hooks, OnlyHook(h), iat' = iat,
         \A s \in Imports : h \in Imported(s)' <=> h \in Imported(s),
         \A s \in Imports : h \in Imported(s) => member'[h].orig = member[h].orig
  PROVE  ImportLayers'
<1> SUFFICES ASSUME NEW s \in Imports
             PROVE  Layered(Imported(s)', Diverted, Origs', iat[s], Entry(s.function))
  BY DEF ImportLayers, Diverted
<1>1. Imported(s)' = Imported(s)
  BY DEF Imported, FindIATFunc, OnlyHook
<1>2. \A g \in Imported(s) : Origs'[g] = Origs[g]
  BY DEF Imported, Origs, OnlyHook
<1> QED BY <1>1, <1>2, LayerKept DEF ImportLayers

LEMMA FunctionsKept ==
  ASSUME FunctionLayers, NEW h \in Hooks, OnlyHook(h), patch' = patch,
         \A c \in Code : h \in Patched(c)' <=> h \in Patched(c),
         \A c \in Code : h \in Patched(c) => trampoline'[h] = trampoline[h]
  PROVE  FunctionLayers'
<1> SUFFICES ASSUME NEW c \in Code
             PROVE  Layered(Patched(c)', Diverted, trampoline', patch[c], Body(c))
  BY DEF FunctionLayers, Diverted
<1>1. Patched(c)' = Patched(c)
  BY OthersAway DEF Patched, OnlyHook
<1>2. \A g \in Patched(c) : trampoline'[g] = trampoline[g]
  BY DEF Patched, OnlyHook
<1> QED BY <1>1, <1>2, LayerKept DEF FunctionLayers
\* A hook that is new when a step of it begins is above every hook that is set.
LEMMA WrittenBelow ==
  ASSUME SwapInv, NEW h \in Hooks, status[h] = "new"
  PROVE  \A g \in Hooks : status[g] # "new" => g < h
<1> SUFFICES ASSUME NEW g \in Hooks, ~(g < h) PROVE status[g] = "new"
  OBVIOUS
<1>1. g = h \/ h < g
  BY SwapAssumption
<1> QED BY <1>1 DEF SwapInv, InOrder

\* A hook touches the words of its own kind only.
LEMMA OtherKinds ==
  ASSUME Layers, NEW h \in Hooks, OnlyHook(h)
  PROVE  /\ setup[h].type # "VTableSwap" /\ vptr' = vptr => ObjectLayers'
         /\ setup[h].type # "VFuncSwap" /\ table'[0] = table[0] => VirtualLayers'
         /\ setup[h].type # "IAT" /\ iat' = iat => ImportLayers'
         /\ setup[h].type # "VFuncDetour" /\ patch' = patch => FunctionLayers'
<1> USE DEF Layers
<1>1. setup' = setup
  BY DEF OnlyHook
<1>2. ASSUME setup[h].type # "VTableSwap", vptr' = vptr PROVE ObjectLayers'
  <2>1. \A o : h \notin Pointed(o) /\ h \notin Pointed(o)'
    BY <1>1, <1>2 DEF Pointed
  <2> QED BY <1>2, <2>1, ObjectsKept
<1>3. ASSUME setup[h].type # "VFuncSwap", table'[0] = table[0] PROVE VirtualLayers'
  <2>1. \A i : h \notin Swapped(i) /\ h \notin Swapped(i)'
    BY <1>1, <1>3 DEF Swapped
  <2> QED BY <1>3, <2>1, VirtualsKept
<1>4. ASSUME setup[h].type # "IAT", iat' = iat PROVE ImportLayers'
  <2>1. \A s : h \notin Imported(s) /\ h \notin Imported(s)'
    BY <1>1, <1>4 DEF Imported
  <2> QED BY <1>4, <2>1, ImportsKept
<1>5. ASSUME setup[h].type # "VFuncDetour", patch' = patch PROVE FunctionLayers'
  <2>1. \A c : h \notin Patched(c) /\ h \notin Patched(c)'
    BY <1>1, <1>5 DEF Patched
  <2> QED BY <1>5, <2>1, FunctionsKept
<1> QED BY <1>2, <1>3, <1>4, <1>5

(***************************************************************************)
(* The writes of each kind of hook.                                        *)
(***************************************************************************)
LEMMA VFuncSwapStep ==
  ASSUME SwapInv, NEW h \in Hooks, SaveVFunc(h) \/ WriteVFunc(h) \/ UnHookVFunc(h)
  PROVE  Layers'
<1>1. OnlyHook(h) /\ setup' = setup
  BY StepOfHook DEF SwapInv, HookStep, OnlyHook
<1>2. /\ setup[h].type = "VFuncSwap" /\ vptr' = vptr /\ iat' = iat /\ patch' = patch
      /\ WriteVFunc(h) => /\ member[h].orig = table[member[h].vtable][setup[h].index]
                          /\ status[h] = "new"
  <2>1. WriteVFunc(h) => busy.hook = h /\ busy.doing = "entry"
    BY AtWhat DEF WriteVFunc
  <2>2. WriteVFunc(h) => BusyWith(h)
    BY <2>1, AtBusy DEF SwapInv
  <2>3. WriteVFunc(h) => /\ setup[h].type = "VFuncSwap"
                         /\ member[h].orig = table[member[h].vtable][setup[h].index]
                         /\ status[h] = "new"
    BY <2>1, <2>2 DEF BusyWith, Setting
  <2> QED BY <2>3 DEF SaveVFunc, WriteVFunc, UnHookVFunc, Begin, Newest, memory
<1>3. ObjectLayers' /\ ImportLayers' /\ FunctionLayers'
  BY <1>1, <1>2, OtherKinds DEF SwapInv
<1>4. DOMAIN table = {0} \cup Hooks /\ DOMAIN table[0] = Indices /\ DOMAIN status = Hooks
      /\ VirtualLayers
  BY DEF SwapInv, Shape, Layers
<1>5. CASE SaveVFunc(h)
  <2>1. status[h] = "new" /\ status' = status /\ table' = table
    BY <1>5 DEF SaveVFunc, Begin, memory
  <2>2. \A i : h \notin Swapped(i) /\ h \notin Swapped(i)'
    BY <2>1 DEF Swapped
  <2>3. VirtualLayers'
    BY <1>1, <1>4, <2>1, <2>2, VirtualsKept
  <2> QED BY <1>3, <2>3 DEF Layers
<1>6. ASSUME NEW i \in Indices, WriteVFunc(h)
      PROVE  Layered(Swapped(i)', Diverted, Origs', table'[0][i], Entry(Virtuals[i]))
  <2>1. /\ status' = [status EXCEPT ![h] = "on"] /\ member' = member
        /\ table' = [table EXCEPT ![member[h].vtable][setup[h].index] = Entry(Callback(h))]
    BY <1>6 DEF WriteVFunc, Finish
  <2>2. status[h] = "new" /\ \A g \in Hooks : status[g] = "on" => g < h
    BY <1>2, <1>6, WrittenBelow
  <2>3. CASE member[h].vtable = 0 /\ setup[h].index = i
    <3>1. Swapped(i)' = Swapped(i) \cup {h}
      BY <1>1, <1>2, <1>4, <2>1, <2>3 DEF Swapped
    <3>2. table'[0][i] = Diverted[h]
      BY <1>4, <2>1, <2>3 DEF Diverted
    <3>3. Origs'[h] = table[0][i] /\ Origs' = Origs
      BY <1>2, <1>6, <2>1, <2>3 DEF Origs
    <3>4. \A g \in Swapped(i) : g < h
      BY <2>2 DEF Swapped
    <3>5. /\ Swapped(i) \in SUBSET Hooks
          /\ Layered(Swapped(i), Diverted, Origs, table[0][i], Entry(Virtuals[i]))
      BY <1>4 DEF Swapped, VirtualLayers
    <3>6. Layered(Swapped(i) \cup {h}, Diverted, Origs', Diverted[h], Entry(Virtuals[i]))
      BY <3>3, <3>4, <3>5, LayerAdded
    <3> QED BY <3>1, <3>2, <3>6
  <2>4. CASE ~(member[h].vtable = 0 /\ setup[h].index = i)
    <3>1. Swapped(i)' = Swapped(i)
      BY <1>1, <1>4, <2>1, <2>2, <2>4 DEF Swapped
    <3>2. table'[0][i] = table[0][i] /\ Origs' = Origs
      BY <1>4, <2>1, <2>4 DEF Origs
    <3> QED BY <1>4, <3>1, <3>2 DEF VirtualLayers
  <2> QED BY <2>3, <2>4
<1>7. ASSUME NEW i \in Indices, UnHookVFunc(h)
      PROVE  Layered(Swapped(i)', Diverted, Origs', table'[0][i], Entry(Virtuals[i]))
  <2>1. /\ status' = [status EXCEPT ![h] = "off"] /\ member' = member /\ status[h] = "on"
        /\ table' = [table EXCEPT ![member[h].vtable][setup[h].index] = member[h].orig]
        /\ \A g \in Hooks : status[g] = "on" => g <= h
    BY <1>7, SwapAssumption DEF UnHookVFunc, Finish, Newest
  <2>2. CASE member[h].vtable = 0 /\ setup[h].index = i
    <3>1. Swapped(i)' = Swapped(i) \ {h} /\ h \in Swapped(i)
      BY <1>1, <1>2, <1>4, <2>1, <2>2 DEF Swapped
    <3>2. table'[0][i] = Origs[h] /\ Origs' = Origs
      BY <1>4, <2>1, <2>2 DEF Origs
    <3>3. \A g \in Swapped(i) : g <= h
      BY <2>1 DEF Swapped
    <3>4. /\ Swapped(i) \in SUBSET Hooks
          /\ Layered(Swapped(i), Diverted, Origs, table[0][i], Entry(Virtuals[i]))
      BY <1>4 DEF Swapped, VirtualLayers
    <3> QED BY <3>1, <3>2, <3>3, <3>4, LayerRemoved
  <2>3. CASE ~(member[h].vtable = 0 /\ setup[h].index = i)
    <3>1. Swapped(i)' = Swapped(i)
      BY <1>1, <1>4, <2>1, <2>3 DEF Swapped
    <3>2. table'[0][i] = table[0][i] /\ Origs' = Origs
      BY <1>4, <2>1, <2>3 DEF Origs
    <3> QED BY <1>4, <3>1, <3>2 DEF VirtualLayers
  <2> QED BY <2>2, <2>3
<1>8. CASE WriteVFunc(h)
  BY <1>3, <1>6, <1>8 DEF Layers, VirtualLayers, Diverted
<1>9. CASE UnHookVFunc(h)
  BY <1>3, <1>7, <1>9 DEF Layers, VirtualLayers, Diverted
<1> QED BY <1>5, <1>8, <1>9
LEMMA VFuncDetourStep ==
  ASSUME SwapInv, NEW h \in Hooks, HookDetour(h) \/ RestoreCode(h) \/ FreeTrampoline(h)
  PROVE  Layers'
<1>1. OnlyHook(h) /\ setup' = setup
  BY StepOfHook DEF SwapInv, HookStep, OnlyHook
<1>2. setup[h].type = "VFuncDetour" /\ vptr' = vptr /\ table' = table /\ iat' = iat
  <2>1. FreeTrampoline(h) => busy.hook = h /\ busy.doing = "trampoline"
    BY AtWhat DEF FreeTrampoline
  <2>2. FreeTrampoline(h) => setup[h].type = "VFuncDetour"
    BY <2>1, AtBusy DEF SwapInv, BusyWith
  <2> QED BY <2>2 DEF HookDetour, RestoreCode, FreeTrampoline, Begin, Newest
<1>3. ObjectLayers' /\ VirtualLayers' /\ ImportLayers'
  BY <1>1, <1>2, OtherKinds DEF SwapInv
<1>4. /\ DOMAIN patch = Code /\ DOMAIN status = Hooks /\ DOMAIN trampoline = Hooks
      /\ DOMAIN member = Hooks /\ DOMAIN member[h] = {"vtable", "src", "orig", "more"}
      /\ FunctionLayers
  BY DEF SwapInv, Shape, Layers
<1>5. CASE FreeTrampoline(h)
  <2>1. At(h, "trampoline") /\ status' = [status EXCEPT ![h] = "off"] /\ patch' = patch
    BY <1>5 DEF FreeTrampoline, Finish
  <2>2. \A c : h \notin Patched(c) /\ h \notin Patched(c)'
    BY <1>4, <2>1 DEF Patched
  <2>3. FunctionLayers'
    BY <1>1, <1>4, <2>1, <2>2, FunctionsKept
  <2> QED BY <1>3, <2>3 DEF Layers
<1>6. ASSUME NEW c \in Code, HookDetour(h)
      PROVE  Layered(Patched(c)', Diverted, trampoline', patch'[c], Body(c))
  <2> DEFINE p == table[vptr[setup[h].object]][setup[h].index]
  <2>1. /\ status' = [status EXCEPT ![h] = "on"] /\ busy' = Idle /\ busy = Idle /\ status[h] = "new"
        /\ trampoline' = [trampoline EXCEPT ![h] = patch[p.code]]
        /\ patch' = [patch EXCEPT ![p.code] = Entry(Callback(h))]
        /\ member' = [member EXCEPT ![h].orig = Trampoline(h), ![h].src = p]
    BY <1>6 DEF HookDetour, Finish, Begin
  <2> HIDE DEF p
  <2>2. \A g \in Hooks : status[g] = "on" => g < h
    BY <2>1, WrittenBelow
  <2>3. ~At(h, "trampoline") /\ ~At(h, "trampoline")'
    BY <2>1, SwapAssumption DEF At, Idle
  <2>4. /\ h \notin Patched(c) /\ status'[h] = "on" /\ member'[h].src = p
        /\ trampoline'[h] = patch[p.code]
    BY <1>4, <2>1 DEF Patched
  <2>5. \A g \in Hooks \ {h} : g \in Patched(c)' <=> g \in Patched(c)
    BY <1>1, OthersAway DEF Patched, OnlyHook
  <2>6. /\ Patched(c) \in SUBSET Hooks
        /\ Layered(Patched(c), Diverted, trampoline, patch[c], Body(c))
    BY <1>4 DEF Patched, FunctionLayers
  <2>7. \A g \in Patched(c) : g < h /\ trampoline'[g] = trampoline[g]
    BY <1>1, <2>2, <2>4 DEF Patched, OnlyHook
  <2>8. h \in Patched(c)' <=> p.code = c
    BY <1>1, <1>2, <2>3, <2>4 DEF Patched
  <2>9. CASE p.code = c
    <3>1. Patched(c)' = Patched(c) \cup {h}
      BY <2>5, <2>8, <2>9 DEF Patched
    <3>2. patch'[c] = Diverted[h] /\ trampoline'[h] = patch[c]
      BY <1>4, <2>1, <2>4, <2>9 DEF Diverted
    <3> QED BY <2>6, <2>7, <3>1, <3>2, LayerAdded
  <2>10. CASE p.code # c
    <3>1. Patched(c)' = Patched(c)
      BY <2>4, <2>5, <2>8, <2>10 DEF Patched
    <3>2. patch'[c] = patch[c]
      BY <1>4, <2>1, <2>10
    <3> QED BY <2>6, <2>7, <3>1, <3>2, LayerKept
  <2> QED BY <2>9, <2>10
<1>7. ASSUME NEW c \in Code, RestoreCode(h)
      PROVE  Layered(Patched(c)', Diverted, trampoline', patch'[c], Body(c))
  <2>1. /\ status' = status /\ member' = member /\ status[h] = "on" /\ trampoline' = trampoline
        /\ busy = Idle /\ At(h, "trampoline")'
        /\ patch' = [patch EXCEPT ![member[h].src.code] = trampoline[h]]
        /\ \A g \in Hooks : status[g] = "on" => g <= h
    BY <1>7, SwapAssumption DEF RestoreCode, Newest, Continue, At
  <2>2. ~At(h, "trampoline")
    BY <2>1, SwapAssumption DEF At, Idle
  <2>3. \A g \in Hooks \ {h} : g \in Patched(c)' <=> g \in Patched(c)
    BY <1>1, OthersAway DEF Patched, OnlyHook
  <2>4. /\ Patched(c) \in SUBSET Hooks
        /\ Layered(Patched(c), Diverted, trampoline, patch[c], Body(c))
    BY <1>4 DEF Patched, FunctionLayers
  <2>5. \A g \in Patched(c) : g <= h
    BY <2>1 DEF Patched
  <2>6. Patched(c)' = Patched(c) \ {h}
    BY <2>1, <2>3 DEF Patched
  <2>7. h \in Patched(c) <=> member[h].src.code = c
    BY <1>2, <2>1, <2>2 DEF Patched
  <2>8. CASE member[h].src.code = c
    <3>1. patch'[c] = trampoline[h]
      BY <1>4, <2>1, <2>8
    <3>2. Layered(Patched(c) \ {h}, Diverted, trampoline, trampoline[h], Body(c))
      BY <2>4, <2>5, <2>7, <2>8, LayerRemoved
    <3> QED BY <2>1, <2>6, <3>1, <3>2
  <2>9. CASE member[h].src.code # c
    BY <1>4, <2>1, <2>4, <2>6, <2>7, <2>9
  <2> QED BY <2>8, <2>9
<1>8. CASE HookDetour(h)
  BY <1>3, <1>6, <1>8 DEF Layers, FunctionLayers, Diverted
<1>9. CASE RestoreCode(h)
  BY <1>3, <1>7, <1>9 DEF Layers, FunctionLayers, Diverted
<1> QED BY <1>5, <1>8, <1>9

LEMMA VTableSwapStep ==
  ASSUME SwapInv, NEW h \in Hooks,
         \/ CopyTable(h) \/ SwapTable(h) \/ DivertEntry(h) \/ DivertMore(h)
         \/ ReturnMore(h) \/ RestoreClass(h) \/ FreeNewVtable(h)
  PROVE  Layers'
<1>1. OnlyHook(h) /\ setup' = setup
  BY StepOfHook DEF SwapInv, HookStep, OnlyHook
<1>2. setup[h].type = "VTableSwap"
  <2>1. SwapTable(h) \/ DivertEntry(h) \/ ReturnMore(h) \/ FreeNewVtable(h)
          => busy.hook = h /\ busy.doing \in {"class", "new entry", "free", "return"}
    BY AtWhat DEF SwapTable, DivertEntry, ReturnMore, FreeNewVtable
  <2>2. SwapTable(h) \/ DivertEntry(h) \/ ReturnMore(h) \/ FreeNewVtable(h)
          => setup[h].type = "VTableSwap"
    BY <2>1, AtBusy DEF SwapInv, BusyWith
  <2> QED BY <2>2 DEF CopyTable, DivertMore, RestoreClass, Begin, Newest
<1>3. iat' = iat /\ patch' = patch /\ table'[0] = table[0]
  BY SwapAssumption DEF CopyTable, SwapTable, DivertEntry, DivertMore, ReturnMore, RestoreClass,
                        FreeNewVtable, memory, SwapInv, Shape
<1>4. VirtualLayers' /\ ImportLayers' /\ FunctionLayers'
  BY <1>1, <1>2, <1>3, OtherKinds DEF SwapInv
<1>5. /\ DOMAIN vptr = Objects /\ DOMAIN status = Hooks
      /\ DOMAIN member = Hooks /\ DOMAIN member[h] = {"vtable", "src", "orig", "more"}
      /\ ObjectLayers
  BY DEF SwapInv, Shape, Layers
<1>6. \A o \in Objects : /\ Pointed(o) \in SUBSET Hooks /\ Pointed(o)' \in SUBSET Hooks
                         /\ Layered(Pointed(o), Itself, Vtables, vptr[o], 0)
  BY <1>5 DEF Pointed, ObjectLayers
<1>7. \A o \in Objects : \A g \in Hooks \ {h} : g \in Pointed(o)' <=> g \in Pointed(o)
  BY <1>1, OthersAway DEF Pointed, OnlyHook
<1>8. CASE CopyTable(h)
  <2>1. busy = Idle /\ status[h] = "new" /\ status' = status /\ vptr' = vptr
        /\ busy' = [hook |-> h, doing |-> "class"]
    BY <1>8 DEF CopyTable, Begin, Continue
  <2>2. ~At(h, "new entry") /\ ~At(h, "new entry")'
    BY <2>1, SwapAssumption DEF At, Idle
  <2>3. \A o : h \notin Pointed(o) /\ h \notin Pointed(o)'
    BY <2>1, <2>2 DEF Pointed
  <2>4. ObjectLayers'
    BY <1>1, <1>5, <2>1, <2>3, ObjectsKept
  <2> QED BY <1>4, <2>4 DEF Layers
<1>9. CASE DivertEntry(h) \/ DivertMore(h) \/ ReturnMore(h)
  <2>1. /\ vptr' = vptr /\ member'[h].vtable = member[h].vtable
        /\ status'[h] = "on" /\ ~At(h, "free")'
        /\ ~At(h, "free") /\ (status[h] = "on" \/ At(h, "new entry"))
    <3>1. CASE DivertEntry(h)
      BY <1>5, <3>1, SwapAssumption DEF DivertEntry, Finish, At, Idle
    <3>2. CASE DivertMore(h)
      BY <1>5, <3>2, SwapAssumption DEF DivertMore, Newest, Continue, At, Idle
    <3>3. CASE ReturnMore(h)
      <4>1. busy.hook = h /\ busy.doing = "return"
        BY <3>3, AtWhat DEF ReturnMore
      <4>2. status[h] = "on"
        BY <4>1, AtBusy DEF SwapInv, BusyWith, Removing
      <4> QED BY <1>5, <3>3, <4>2, SwapAssumption DEF ReturnMore, memory, Finish, At, Idle
    <3> QED BY <1>9, <3>1, <3>2, <3>3
  <2>2. \A o : h \in Pointed(o)' <=> h \in Pointed(o)
    BY <1>1, <1>2, <2>1 DEF Pointed
  <2>3. ObjectLayers'
    BY <1>1, <1>5, <2>1, <2>2, ObjectsKept
  <2> QED BY <1>4, <2>3 DEF Layers
<1>10. CASE FreeNewVtable(h)
  <2>1. At(h, "free") /\ busy' = Idle /\ status' = [status EXCEPT ![h] = "off"] /\ vptr' = vptr
    BY <1>10 DEF FreeNewVtable, Finish
  <2>2. ~At(h, "new entry") /\ ~At(h, "new entry")'
    BY <2>1, SwapAssumption DEF At, Idle
  <2>3. \A o : h \notin Pointed(o) /\ h \notin Pointed(o)'
    BY <1>5, <2>1, <2>2 DEF Pointed
  <2>4. ObjectLayers'
    BY <1>1, <1>5, <2>1, <2>3, ObjectsKept
  <2> QED BY <1>4, <2>4 DEF Layers
<1>11. ASSUME NEW o \in Objects, SwapTable(h)
       PROVE  Layered(Pointed(o)', Itself, Vtables', vptr'[o], 0)
  <2>1. /\ At(h, "class") /\ At(h, "new entry")' /\ status' = status /\ member' = member
        /\ vptr' = [vptr EXCEPT ![setup[h].object] = h]
    BY <1>11 DEF SwapTable, Continue, At
  <2>2. BusyWith(h) /\ busy.doing = "class"
    BY <2>1, AtWhat, AtBusy DEF SwapInv
  <2>3. status[h] = "new" /\ member[h].vtable = vptr[setup[h].object]
    BY <2>2 DEF BusyWith, Setting
  <2>4. ~At(h, "new entry")
    <3>1. At(h, "new entry") => busy.doing = "new entry"
      BY AtWhat
    <3> QED BY <2>2, <3>1
  <2>5. \A g \in Hooks : status[g] = "on" => g < h
    BY <2>3, WrittenBelow
  <2>6. h \notin Pointed(o) /\ \A g \in Pointed(o) : g < h
    <3>1. h \notin Pointed(o)
      BY <2>3, <2>4 DEF Pointed
    <3>2. \A g \in Pointed(o) : status[g] = "on"
      BY <1>1, <3>1, OthersAway DEF Pointed
    <3> QED BY <1>6, <2>5, <3>1, <3>2
  <2>7. h \in Pointed(o)' <=> setup[h].object = o
    BY <1>1, <1>2, <2>1 DEF Pointed
  <2>8. Vtables' = Vtables /\ Vtables[h] = vptr[setup[h].object]
    BY <2>1, <2>3 DEF Vtables
  <2>9. CASE setup[h].object = o
    <3>1. Pointed(o)' = Pointed(o) \cup {h}
      BY <1>6, <1>7, <2>7, <2>9
    <3>2. vptr'[o] = Itself[h]
      BY <1>5, <2>1, <2>9 DEF Itself
    <3>3. Vtables[h] = vptr[o]
      BY <2>8, <2>9
    <3> QED BY <1>6, <2>6, <2>8, <3>1, <3>2, <3>3, LayerAdded
  <2>10. CASE setup[h].object # o
    <3>1. Pointed(o)' = Pointed(o)
      BY <1>6, <1>7, <2>6, <2>7, <2>10
    <3>2. vptr'[o] = vptr[o]
      BY <1>5, <2>1, <2>10
    <3> QED BY <1>6, <2>8, <3>1, <3>2
  <2> QED BY <2>9, <2>10
<1>12. ASSUME NEW o \in Objects, RestoreClass(h)
       PROVE  Layered(Pointed(o)', Itself, Vtables', vptr'[o], 0)
  <2>1. /\ busy = Idle /\ At(h, "free")' /\ status' = status /\ member' = member /\ status[h] = "on"
        /\ vptr' = [vptr EXCEPT ![setup[h].object] = member[h].vtable]
        /\ \A g \in Hooks : status[g] = "on" => g <= h
    BY <1>12, SwapAssumption DEF RestoreClass, Newest, Continue, At
  <2>2. \A g \in Hooks : \A d : ~At(g, d)
    BY <2>1, SwapAssumption DEF At, Idle
  <2>3. ~At(h, "new entry")'
    BY <2>1 DEF At
  <2>4. \A g \in Pointed(o) : g <= h
    BY <2>1, <2>2 DEF Pointed
  <2>5. h \in Pointed(o) <=> setup[h].object = o
    BY <1>2, <2>1, <2>2 DEF Pointed
  <2>6. Pointed(o)' = Pointed(o) \ {h}
    <3>1. h \notin Pointed(o)'
      BY <2>1, <2>3 DEF Pointed
    <3> QED BY <1>6, <1>7, <3>1
  <2>7. Vtables' = Vtables /\ Vtables[h] = member[h].vtable
    BY <2>1 DEF Vtables
  <2>8. CASE setup[h].object = o
    <3>1. vptr'[o] = Vtables[h]
      BY <1>5, <2>1, <2>7, <2>8
    <3> QED BY <1>6, <2>4, <2>5, <2>6, <2>7, <2>8, <3>1, LayerRemoved
  <2>9. CASE setup[h].object # o
    <3>1. vptr'[o] = vptr[o]
      BY <1>5, <2>1, <2>9
    <3>2. Pointed(o)' = Pointed(o)
      BY <1>6, <2>5, <2>6, <2>9
    <3> QED BY <1>6, <2>7, <3>1, <3>2
  <2> QED BY <2>8, <2>9
<1>13. CASE SwapTable(h)
  BY <1>4, <1>11, <1>13 DEF Layers, ObjectLayers, Itself
<1>14. CASE RestoreClass(h)
  BY <1>4, <1>12, <1>14 DEF Layers, ObjectLayers, Itself
<1> QED BY <1>8, <1>9, <1>10, <1>13, <1>14
LEMMA IATHookStep ==
  ASSUME SwapInv, NEW h \in Hooks,
         FindImport(h) \/ SaveImport(h) \/ WriteImport(h) \/ UnHookImport(h)
  PROVE  Layers'
<1>1. OnlyHook(h) /\ setup' = setup
  BY StepOfHook DEF SwapInv, HookStep, OnlyHook
<1>2. /\ setup[h].type = "IAT" /\ vptr' = vptr /\ table' = table /\ patch' = patch
      /\ WriteImport(h) => /\ status[h] = "new"
                           /\ \A s \in FindIATFunc(h, setup[h].module) : member[h].orig = iat[s]
  <2>1. WriteImport(h) => busy.hook = h /\ busy.doing = "import"
    BY AtWhat DEF WriteImport
  <2>2. WriteImport(h) => BusyWith(h)
    BY <2>1, AtBusy DEF SwapInv
  <2>3. WriteImport(h) => /\ setup[h].type = "IAT" /\ status[h] = "new"
                          /\ \A s \in FindIATFunc(h, setup[h].module) : member[h].orig = iat[s]
    BY <2>1, <2>2 DEF BusyWith, Setting
  <2> QED BY <2>3 DEF FindImport, SaveImport, WriteImport, UnHookImport, Begin, Newest, memory
<1>3. ObjectLayers' /\ VirtualLayers' /\ FunctionLayers'
  BY <1>1, <1>2, OtherKinds DEF SwapInv
<1>4. DOMAIN iat = Imports /\ DOMAIN status = Hooks /\ ImportLayers
  BY DEF SwapInv, Shape, Layers
<1>5. \A s \in Imports : /\ Imported(s) \in SUBSET Hooks /\ Imported(s)' \in SUBSET Hooks
                         /\ Layered(Imported(s), Diverted, Origs, iat[s], Entry(s.function))
                         /\ \A g \in Imported(s) : status[g] = "on"
  BY <1>4 DEF Imported, ImportLayers
<1>6. \A s \in Imports : \A g \in Hooks \ {h} : g \in Imported(s)' <=> g \in Imported(s)
  BY <1>1 DEF Imported, FindIATFunc, OnlyHook
<1>7. \A s \in Imports :
        h \in Imported(s)' <=> s \in FindIATFunc(h, setup[h].module) /\ status'[h] = "on"
  BY <1>1, <1>2 DEF Imported, FindIATFunc
<1>8. CASE FindImport(h) \/ SaveImport(h)
  <2>1. status[h] = "new" /\ iat' = iat /\ status'[h] # "on"
    BY <1>4, <1>8 DEF FindImport, SaveImport, Begin, Finish, memory
  <2>2. \A s \in Imports : h \notin Imported(s) /\ h \notin Imported(s)'
    BY <1>7, <2>1 DEF Imported
  <2>3. ImportLayers'
    BY <1>1, <1>4, <2>1, <2>2, ImportsKept
  <2> QED BY <1>3, <2>3 DEF Layers
<1>9. ASSUME NEW s \in Imports, WriteImport(h)
      PROVE  Layered(Imported(s)', Diverted, Origs', iat'[s], Entry(s.function))
  <2>1. status'[h] = "on" /\ member' = member
    BY <1>4, <1>9 DEF WriteImport, Finish
  <2>2. PICK r \in FindIATFunc(h, setup[h].module) : iat' = [iat EXCEPT ![r] = Entry(Callback(h))]
    BY <1>9 DEF WriteImport
  <2>3. s \in FindIATFunc(h, setup[h].module) <=> s = r
    BY <2>2, OneImport
  <2>4. Origs' = Origs /\ Origs[h] = iat[r]
    BY <1>2, <1>9, <2>1, <2>2 DEF Origs
  <2>5. status[h] = "new" /\ h \notin Imported(s) /\ \A g \in Imported(s) : g < h
    BY <1>2, <1>5, <1>9, WrittenBelow
  <2>6. CASE s = r
    <3>1. Imported(s)' = Imported(s) \cup {h}
      BY <1>5, <1>6, <1>7, <2>1, <2>3, <2>6
    <3>2. iat'[s] = Diverted[h]
      BY <1>4, <2>2, <2>6 DEF Diverted
    <3>3. Origs[h] = iat[s]
      BY <2>4, <2>6
    <3> QED BY <1>5, <2>4, <2>5, <3>1, <3>2, <3>3, LayerAdded
  <2>7. CASE s # r
    <3>1. Imported(s)' = Imported(s)
      BY <1>5, <1>6, <1>7, <2>3, <2>5, <2>7
    <3>2. iat'[s] = iat[s]
      BY <1>4, <2>2, <2>7
    <3> QED BY <1>5, <2>4, <3>1, <3>2
  <2> QED BY <2>6, <2>7
<1>10. ASSUME NEW s \in Imports, UnHookImport(h)
       PROVE  Layered(Imported(s)', Diverted, Origs', iat'[s], Entry(s.function))
  <2>1. /\ status[h] = "on" /\ status'[h] = "off" /\ member' = member /\ setup[h].module = "exe"
        /\ \A g \in Hooks : status[g] = "on" => g <= h
    BY <1>4, <1>10, SwapAssumption DEF UnHookImport, Newest, Finish
  <2>2. PICK r \in FindIATFunc(h, setup[h].module) : iat' = [iat EXCEPT ![r] = member[h].orig]
    BY <1>10, <2>1 DEF UnHookImport
  <2>3. s \in FindIATFunc(h, setup[h].module) <=> s = r
    BY <2>2, OneImport
  <2>4. Origs' = Origs /\ Origs[h] = member[h].orig
    BY <2>1 DEF Origs
  <2>5. h \in Imported(s) <=> s = r
    BY <1>2, <2>1, <2>3 DEF Imported
  <2>6. Imported(s)' = Imported(s) \ {h}
    BY <1>5, <1>6, <1>7, <2>1
  <2>7. CASE s = r
    <3>1. iat'[s] = Origs[h]
      BY <1>4, <2>2, <2>4, <2>7
    <3>2. Layered(Imported(s) \ {h}, Diverted, Origs, Origs[h], Entry(s.function))
      BY <1>5, <2>1, <2>5, <2>7, LayerRemoved
    <3> QED BY <2>4, <2>6, <3>1, <3>2
  <2>8. CASE s # r
    <3>1. iat'[s] = iat[s]
      BY <1>4, <2>2, <2>8
    <3>2. Imported(s)' = Imported(s)
      BY <1>5, <2>5, <2>6, <2>8
    <3> QED BY <1>5, <2>4, <3>1, <3>2
  <2> QED BY <2>7, <2>8
<1>11. CASE WriteImport(h)
  BY <1>3, <1>9, <1>11 DEF Layers, ImportLayers, Diverted
<1>12. CASE UnHookImport(h)
  BY <1>3, <1>10, <1>12 DEF Layers, ImportLayers, Diverted
<1> QED BY <1>8, <1>11, <1>12

LEMMA SwapInvStep ==
  ASSUME SwapInv, [Next]_vars PROVE SwapInv'
<1>1. ASSUME NEW h \in Hooks, HookStep(h) PROVE SwapInv'
  <2>1. Shape' /\ InOrder' /\ BusyOK'
    BY <1>1, StepOfHook, StepOrder DEF SwapInv
  <2>2. Layers'
    BY <1>1, VFuncSwapStep, VFuncDetourStep, VTableSwapStep, IATHookStep DEF HookStep
  <2> QED BY <2>1, <2>2 DEF SwapInv
<1>2. ASSUME UNCHANGED <<memory, hooks>> PROVE SwapInv'
  <2> USE <1>2 DEF memory, hooks
  <2>1. Shape' /\ InOrder'
    BY DEF SwapInv, Shape, InOrder
  <2>2. BusyOK'
    BY DEF SwapInv, BusyOK, BusyWith, FindIATFunc
  <2>3. Layers'
    BY DEF SwapInv, Layers, ObjectLayers, VirtualLayers, ImportLayers, FunctionLayers, Pointed,
           Swapped, Imported, Patched, Vtables, Origs, Itself, Diverted, At, FindIATFunc
  <2> QED BY <2>1, <2>2, <2>3 DEF SwapInv
<1>3. ASSUME NEW t \in Threads, CallStep(t) PROVE UNCHANGED <<memory, hooks>>
  BY <1>3 DEF CallStep, Call, LoadEntry, Run, Return
<1> QED BY <1>1, <1>2, <1>3 DEF Next, vars

(***************************************************************************)
(* The theorem.                                                            *)
(***************************************************************************)
\* Whatever hooks were set over each other, of whatever kinds, and whoever calls
\* meanwhile: with the last of them removed, every vtable pointer, every entry of the
\* class's vtable and of the import tables, and every function is as it was.
THEOREM EverythingRestored == Spec => []AllRestored
<1>1. SwapInv => AllRestored
  <2> SUFFICES ASSUME SwapInv, busy = Idle,
                      \A h \in Hooks : status[h] \in {"new", "off", "failed"}
               PROVE  /\ \A o \in Objects : vptr[o] = 0
                      /\ \A i \in Indices : table[0][i] = Entry(Virtuals[i])
                      /\ \A s \in Imports : iat[s] = Entry(s.function)
                      /\ \A c \in Code : patch[c] = Body(c)
    BY DEF AllRestored
  <2>1. \A h \in Hooks : status[h] # "on" /\ ~At(h, "new entry")
    BY SwapAssumption DEF At, Idle
  <2>2. /\ \A o \in Objects : Pointed(o) = {}
        /\ \A i \in Indices : Swapped(i) = {}
        /\ \A s \in Imports : Imported(s) = {}
        /\ \A c \in Code : Patched(c) = {}
    BY <2>1 DEF Pointed, Swapped, Imported, Patched
  <2> QED BY <2>2 DEF SwapInv, Layers, ObjectLayers, VirtualLayers, ImportLayers, FunctionLayers,
                      Layered
<1> QED BY <1>1, InitSwapInv, SwapInvStep, PTL DEF Spec
-----------------------------------------------------------------------------
(***************************************************************************)
(* The invariant.                                                          *)
(***************************************************************************)
\* The function a piece of code stands for: a callback, for the one its hook is of.
Fn(c) ==
  IF c \notin Callbacks THEN c
  ELSE LET u == setup[c.hook]
       IN IF u.type = "IAT" THEN u.function ELSE Virtuals[IF c.extra THEN u.more ELSE u.index]

\* Code whose original is known for good: the callbacks of hooks that swap a pointer.
Known(c) ==
  \/ c \in Functions
  \/ \E h \in Hooks : c = Callback(h) /\ setup[h].type # "VFuncDetour" /\ member[h].orig # Wild
  \/ \E h \in Hooks : c = Extra(h) /\ member[h].more # Wild

\* The hook a callback is of; a function is older than all hooks.
Rank(c) == IF c \in Callbacks THEN c.hook ELSE 0

Leading(p, f)        == \E c \in Code : p = Entry(c) /\ Known(c) /\ Fn(c) = f
LeadingBelow(p, f, h) == \E c \in Code : p = Entry(c) /\ Known(c) /\ Fn(c) = f /\ Rank(c) < h

\* The vtables that threads and objects may use: the one of the class, and the copies
\* that are not freed.
Live(x) ==
  \/ x = 0
  \/ x \in Hooks /\ setup[x].type = "VTableSwap"
                 /\ (status[x] = "on" \/ At(x, "class") \/ At(x, "new entry"))

\* What is saved leads on to the function, through older hooks only.
MembersLead ==
  \A h \in Hooks :
    /\ setup[h].type # "VFuncDetour" /\ member[h].orig # Wild =>
         LeadingBelow(member[h].orig, Fn(Callback(h)), h)
    /\ member[h].more # Wild => LeadingBelow(member[h].more, Fn(Extra(h)), h)
SavedFirst ==
  \A h \in Hooks : LET setting == \E d \in Setting : At(h, d) IN
    /\ status[h] = "on" \/ setting => member[h].orig # Wild
    /\ status[h] = "new" /\ ~setting => member[h].orig = Wild
    /\ member[h].more # Wild => /\ status[h] # "new" /\ setup[h].type = "VTableSwap"
                                /\ setup[h].more \in Indices

\* The hook that swapped the vtable of an object before h did.
VtablesOlder ==
  \A h \in Hooks : setup[h].type = "VTableSwap" /\ Live(h) =>
    \/ member[h].vtable = 0
    \/ member[h].vtable < h /\ member[h].vtable \in Pointed(setup[h].object)

ObjectsLive == \A o \in Objects : vptr[o] = 0 \/ vptr[o] \in Pointed(o)

\* The code an entry of a vtable may hold: the one of the class has functions, a copy has
\* what was there before its hook, and both what VFuncSwap has written into them.
Held(x, i, c) ==
  \/ c \in Functions
  \/ c \in Callbacks /\ c.hook <= x
  \/ \E k \in Hooks : /\ c = Callback(k) /\ setup[k].type = "VFuncSwap" /\ setup[k].index = i
                      /\ status[k] = "on" /\ member[k].vtable = x

IsVtable(words) == words = [i \in Indices |-> words[i]]
TablesLead ==
  \A x \in {0} \cup Hooks : Live(x) =>
    /\ IsVtable(table[x])
    /\ \A i \in Indices : /\ Leading(table[x][i], Virtuals[i])
                          /\ Held(x, i, table[x][i].code)
SwappedLead ==
  \A h \in Hooks : setup[h].type = "VFuncSwap" /\ (status[h] = "on" \/ At(h, "entry")) =>
    /\ Live(member[h].vtable) /\ member[h].vtable < h
    /\ Held(member[h].vtable, setup[h].index, member[h].orig.code)

ImportsLead == \A s \in Imports : Leading(iat[s], s.function)

\* The first bytes of a function, and the trampolines of its detours.
FunctionsLead ==
  \A c \in Code : patch[c] = Body(c) \/ \E k \in Patched(c) : patch[c] = Entry(Callback(k))

Detouring(k) == setup[k].type = "VFuncDetour" /\ status[k] = "on"
Source(k) == member[k].src.code
DetoursLead ==
  \A k \in Hooks : Detouring(k) =>
    /\ member[k].orig = Trampoline(k)
    /\ Source(k) \in Code /\ Known(Source(k)) /\ Fn(Source(k)) = Fn(Callback(k))
    /\ \/ trampoline[k] = Body(Source(k))
       \/ \E j \in Patched(Source(k)) : j < k /\ trampoline[k] = Entry(Callback(j))

\* The callbacks a thread has passed are of the code it comes from, or of detours of
\* the code it is at that are newer than k.
Group(x) == IF setup[x.hook].type = "VFuncDetour" THEN Source(x.hook) ELSE x
Above(t, c) == \A x \in ToSet(passed[t]) : Rank(c) < Rank(Group(x))
Behind(t, c, k) ==
  \A x \in ToSet(passed[t]) :
    \/ Rank(c) < Rank(Group(x))
    \/ setup[x.hook].type = "VFuncDetour" /\ Source(x.hook) = c /\ k < x.hook

\* Where a call may be that has not been overtaken by a removal.
Entering(t) ==
  \/ ip[t] = Out
  \/ \E x \in {0} \cup Hooks : ip[t] = Loaded(x) /\ Live(x) /\ site[t] \in VirtualSites \ Imports
Inside(t, c) ==
  /\ Known(c) /\ Fn(c) = Function(site[t])
  /\ \/ ip[t] = Entry(c) /\ Above(t, c)
     \/ ip[t] = Body(c) /\ Behind(t, c, 0)
Detoured(t, k) ==
  /\ Detouring(k) /\ Fn(Callback(k)) = Function(site[t])
  /\ \/ ip[t] \in {Entry(Callback(k)), Body(Callback(k))} /\ Behind(t, Source(k), k)
     \/ ip[t] = Trampoline(k) /\ Behind(t, Source(k), k - 1)
Settled(x) == x \in Callbacks /\ (setup[x.hook].type = "VFuncDetour" => status[x.hook] # "new")
Placed(t) ==
  \/ Entering(t) /\ passed[t] = <<>>
  \/ /\ passed[t] \in Seq(Code) /\ IsInjective(passed[t])
     /\ \/ ip[t] = Done(Function(site[t]))
        \/ /\ \A x \in ToSet(passed[t]) : Settled(x)
           /\ (\E c \in Code : Inside(t, c)) \/ (\E k \in Hooks : Detoured(t, k))
CallsOK == \A t \in Threads : exposed[t] \/ Placed(t)
AllLead == MembersLead /\ SavedFirst /\ VtablesOlder /\ ObjectsLive /\ TablesLead /\ SwappedLead
           /\ ImportsLead /\ FunctionsLead /\ DetoursLead

(***************************************************************************)
(* What the steps of a hook are.                                           *)
(***************************************************************************)
SetsVFunc(h)   == SaveVFunc(h) \/ WriteVFunc(h)
SetsVTable(h)  == CopyTable(h) \/ SwapTable(h) \/ DivertEntry(h)
SetsImport(h)  == FindImport(h) \/ SaveImport(h) \/ WriteImport(h)
OfVFunc(h)     == SetsVFunc(h) \/ UnHookVFunc(h)
OfDetour(h)    == HookDetour(h) \/ RestoreCode(h) \/ FreeTrampoline(h)
OfVTable(h)    == \/ SetsVTable(h) \/ DivertMore(h) \/ ReturnMore(h) \/ RestoreClass(h)
                  \/ FreeNewVtable(h)
OfImport(h)    == SetsImport(h) \/ UnHookImport(h)

LEMMA UnderWay ==
  ASSUME SwapInv, NEW h \in Hooks, NEW d, At(h, d)
  PROVE  busy = [hook |-> h, doing |-> d] /\ busy.doing = d /\ BusyWith(h)
<1>1. busy.hook = h /\ busy.doing = d
  BY AtWhat
<1>2. BusyWith(h)
  BY <1>1, AtBusy DEF SwapInv
<1> QED BY <1>1, <1>2 DEF At

LEMMA KindOf ==
  ASSUME SwapInv, NEW h \in Hooks
  PROVE  /\ HookStep(h) <=> OfVFunc(h) \/ OfDetour(h) \/ OfVTable(h) \/ OfImport(h)
         /\ OfVFunc(h)  => setup[h].type = "VFuncSwap"
         /\ OfDetour(h) => setup[h].type = "VFuncDetour"
         /\ OfVTable(h) => setup[h].type = "VTableSwap"
         /\ OfImport(h) => setup[h].type = "IAT"
<1> USE DEF OfVFunc, OfDetour, OfVTable, OfImport, SetsVFunc, SetsVTable, SetsImport
<1>1. HookStep(h) <=> OfVFunc(h) \/ OfDetour(h) \/ OfVTable(h) \/ OfImport(h)
  BY DEF HookStep
<1>2. \A d : At(h, d) => busy.doing = d /\ BusyWith(h)
  BY UnderWay
<1>3. OfVFunc(h) => setup[h].type = "VFuncSwap"
  BY <1>2 DEF SaveVFunc, WriteVFunc, UnHookVFunc, Begin, Newest, BusyWith
<1>4. OfDetour(h) => setup[h].type = "VFuncDetour"
  BY <1>2 DEF HookDetour, RestoreCode, FreeTrampoline, Begin, Newest, BusyWith
<1>5. OfVTable(h) => setup[h].type = "VTableSwap"
  BY <1>2 DEF CopyTable, SwapTable, DivertEntry, DivertMore, ReturnMore, RestoreClass,
              FreeNewVtable, Begin, Newest, BusyWith
<1>6. OfImport(h) => setup[h].type = "IAT"
  BY <1>2 DEF FindImport, SaveImport, WriteImport, UnHookImport, Begin, Newest, BusyWith
<1> QED BY <1>1, <1>3, <1>4, <1>5, <1>6

\* A hook that is being set is the oldest of the new ones, and no other is under way; a
\* hook that is used or removed is the newest of those that are set.
LEMMA OldOf ==
  ASSUME SwapInv, NEW h \in Hooks, HookStep(h)
  PROVE  /\ SetsVFunc(h) \/ HookDetour(h) \/ SetsVTable(h) \/ SetsImport(h) =>
              status[h] = "new" /\ \A g \in Hooks : status[g] # "new" => g < h
         /\ ~(SetsVFunc(h) \/ HookDetour(h) \/ SetsVTable(h) \/ SetsImport(h)) =>
              status[h] = "on" /\ \A g \in Hooks : status[g] = "on" => g <= h
         /\ \A g \in Hooks \ {h} : \A d : ~At(g, d) /\ ~At(g, d)'
<1>1. \A d : At(h, d) => (d \in Setting => status[h] = "new") /\ (d \in Removing => status[h] = "on")
  <2> SUFFICES ASSUME NEW d, At(h, d)
               PROVE  (d \in Setting => status[h] = "new") /\ (d \in Removing => status[h] = "on")
    OBVIOUS
  <2>1. busy.doing = d /\ BusyWith(h)
    BY UnderWay
  <2> QED BY <2>1 DEF BusyWith
<1>2. SetsVFunc(h) \/ HookDetour(h) \/ SetsVTable(h) \/ SetsImport(h) => status[h] = "new"
  <2>1. SetsVFunc(h) \/ HookDetour(h) => status[h] = "new"
    BY <1>1 DEF SetsVFunc, SaveVFunc, WriteVFunc, HookDetour, Begin, Setting
  <2>2. SetsVTable(h) => status[h] = "new"
    BY <1>1 DEF SetsVTable, CopyTable, SwapTable, DivertEntry, Begin, Setting
  <2>3. SetsImport(h) => status[h] = "new"
    BY <1>1 DEF SetsImport, FindImport, SaveImport, WriteImport, Begin, Setting
  <2> QED BY <2>1, <2>2, <2>3
<1>3. ~(SetsVFunc(h) \/ HookDetour(h) \/ SetsVTable(h) \/ SetsImport(h)) => status[h] = "on"
  <2>1. UnHookVFunc(h) \/ RestoreCode(h) \/ FreeTrampoline(h) \/ UnHookImport(h) => status[h] = "on"
    BY <1>1 DEF UnHookVFunc, RestoreCode, FreeTrampoline, UnHookImport, Newest, Removing
  <2>2. DivertMore(h) \/ ReturnMore(h) \/ RestoreClass(h) \/ FreeNewVtable(h) => status[h] = "on"
    BY <1>1 DEF DivertMore, ReturnMore, RestoreClass, FreeNewVtable, Newest, Removing
  <2> QED BY <2>1, <2>2 DEF HookStep, SetsVFunc, SetsVTable, SetsImport
<1>4. \A g \in Hooks : h < g \/ g <= h
  BY SwapAssumption
<1>5. \A g \in Hooks \ {h} : \A d : ~At(g, d) /\ ~At(g, d)'
  BY StepOfHook, OthersAway DEF SwapInv
<1>6. status[h] = "new" => \A g \in Hooks : status[g] # "new" => g < h
  BY WrittenBelow
<1>7. status[h] = "on" => \A g \in Hooks : status[g] = "on" => g <= h
  BY <1>4, StepOf
<1> QED BY <1>2, <1>3, <1>5, <1>6, <1>7
\* What becomes of the status.
LEMMA StatusOf ==
  ASSUME SwapInv, NEW h \in Hooks, HookStep(h)
  PROVE  /\ \A g \in Hooks \ {h} : status'[g] = status[g] /\ member'[g] = member[g]
                                   /\ trampoline'[g] = trampoline[g]
         /\ status'[h] \in {"new", "on", "off", "failed"}
         /\ SaveVFunc(h) \/ CopyTable(h) \/ SwapTable(h) \/ SaveImport(h) => status'[h] = "new"
         /\ WriteVFunc(h) \/ HookDetour(h) \/ DivertEntry(h) \/ WriteImport(h) => status'[h] = "on"
         /\ RestoreCode(h) \/ DivertMore(h) \/ ReturnMore(h) \/ RestoreClass(h) => status'[h] = "on"
         /\ UnHookVFunc(h) \/ FreeTrampoline(h) \/ FreeNewVtable(h) \/ UnHookImport(h)
              => status'[h] = "off"
<1>1. DOMAIN status = Hooks /\ status[h] \in {"new", "on"}
  BY OldOf DEF SwapInv, Shape
<1>2. SaveVFunc(h) \/ CopyTable(h) \/ SwapTable(h) \/ SaveImport(h) => status'[h] = "new"
  <2>1. SetsVFunc(h) \/ SetsVTable(h) \/ SetsImport(h) => status[h] = "new"
    BY OldOf
  <2> QED BY <2>1 DEF SetsVFunc, SetsVTable, SetsImport, SaveVFunc, CopyTable, SwapTable, SaveImport,
                      memory
<1>3. WriteVFunc(h) \/ HookDetour(h) \/ DivertEntry(h) \/ ReturnMore(h) \/ WriteImport(h)
        => status'[h] = "on"
  BY <1>1 DEF WriteVFunc, HookDetour, DivertEntry, ReturnMore, WriteImport, Finish
<1>4. RestoreCode(h) \/ DivertMore(h) \/ RestoreClass(h) => status'[h] = "on"
  BY DEF RestoreCode, DivertMore, RestoreClass, Newest
<1>5. UnHookVFunc(h) \/ FreeTrampoline(h) \/ FreeNewVtable(h) \/ UnHookImport(h)
        => status'[h] = "off"
  BY <1>1 DEF UnHookVFunc, FreeTrampoline, FreeNewVtable, UnHookImport, Finish
<1>6. FindImport(h) => status'[h] = "failed"
  BY <1>1 DEF FindImport, Finish
<1>7. OnlyHook(h) /\ Shape'
  BY StepOfHook DEF SwapInv
<1>8. status'[h] \in {"new", "on", "off", "failed"}
  BY <1>7 DEF Shape
<1> QED BY <1>2, <1>3, <1>4, <1>5, <1>7, <1>8 DEF OnlyHook
\* What becomes of the members: an original that is saved stays as it is.
LEMMA MemberOf ==
  ASSUME SwapInv, NEW h \in Hooks, HookStep(h)
  PROVE  /\ ~(SaveVFunc(h) \/ CopyTable(h)) => member'[h].vtable = member[h].vtable
         /\ ~HookDetour(h) => member'[h].src = member[h].src
         /\ ~DivertMore(h) => member'[h].more = member[h].more
         /\ ~(SaveVFunc(h) \/ CopyTable(h) \/ SaveImport(h) \/ HookDetour(h)) =>
              member'[h].orig = member[h].orig
         /\ SaveVFunc(h) \/ CopyTable(h) =>
              /\ member'[h].vtable = vptr[setup[h].object]
              /\ member'[h].orig = table[vptr[setup[h].object]][setup[h].index]
         /\ SaveImport(h) =>
              \E s \in FindIATFunc(h, setup[h].module) : member'[h].orig = iat[s]
         /\ HookDetour(h) => /\ member'[h].orig = Trampoline(h)
                             /\ member'[h].src = table[vptr[setup[h].object]][setup[h].index]
         /\ DivertMore(h) => member'[h].more = table[member[h].vtable][setup[h].more]
<1>1. DOMAIN member = Hooks /\ DOMAIN member[h] = {"vtable", "src", "orig", "more"}
  BY DEF SwapInv, Shape
<1> USE <1>1
<1>2. CASE SaveVFunc(h) \/ CopyTable(h)
  <2>1. member' = [member EXCEPT ![h].vtable = vptr[setup[h].object],
                               ![h].orig = table[vptr[setup[h].object]][setup[h].index]]
    BY <1>2 DEF SaveVFunc, CopyTable
  <2>2. ~HookDetour(h) /\ ~SaveImport(h) /\ ~DivertMore(h)
    BY <1>2, OldOf, KindOf DEF OfVFunc, OfDetour, OfImport, OfVTable, SetsVFunc, SetsVTable, SetsImport,
       Newest, DivertMore
  <2> QED BY <1>2, <2>1, <2>2
<1>3. CASE SaveImport(h)
  <2>1. PICK s \in FindIATFunc(h, setup[h].module) : member' = [member EXCEPT ![h].orig = iat[s]]
    BY <1>3 DEF SaveImport
  <2>2. setup[h].type = "IAT"
    BY <1>3, KindOf DEF OfImport, SetsImport
  <2>3. ~HookDetour(h) /\ ~SaveVFunc(h) /\ ~CopyTable(h) /\ ~DivertMore(h)
    BY <2>2, KindOf DEF OfVFunc, OfDetour, OfVTable, SetsVFunc, SetsVTable
  <2> QED BY <1>3, <2>1, <2>3
<1>4. CASE HookDetour(h)
  <2>1. member' = [member EXCEPT ![h].orig = Trampoline(h),
                                 ![h].src = table[vptr[setup[h].object]][setup[h].index]]
    BY <1>4 DEF HookDetour
  <2>2. ~SaveImport(h) /\ ~SaveVFunc(h) /\ ~CopyTable(h) /\ ~DivertMore(h)
    BY <1>4, KindOf DEF OfVFunc, OfDetour, OfImport, OfVTable, SetsVFunc, SetsVTable, SetsImport
  <2> QED BY <1>4, <2>1, <2>2
<1>5. CASE DivertMore(h)
  <2>1. member' = [member EXCEPT ![h].more = table[member[h].vtable][setup[h].more]]
    BY <1>5 DEF DivertMore
  <2>2. ~HookDetour(h) /\ ~SaveImport(h) /\ ~SaveVFunc(h) /\ ~CopyTable(h)
    <3>1. status[h] = "on" /\ OfVTable(h)
      BY <1>5 DEF DivertMore, Newest, OfVTable
    <3>2. ~HookDetour(h) /\ ~SaveImport(h) /\ ~SaveVFunc(h)
      BY <3>1, KindOf DEF OfVFunc, OfDetour, OfImport, SetsVFunc, SetsImport
    <3>3. ~CopyTable(h)
      BY <3>1 DEF CopyTable, Begin
    <3> QED BY <3>2, <3>3
  <2> QED BY <1>5, <2>1, <2>2
<1>6. CASE ~(SaveVFunc(h) \/ CopyTable(h) \/ SaveImport(h) \/ HookDetour(h) \/ DivertMore(h))
  <2>1. member' = member
    BY <1>6 DEF HookStep, WriteVFunc, UnHookVFunc, RestoreCode, FreeTrampoline, SwapTable, DivertEntry,
       ReturnMore, RestoreClass, FreeNewVtable, FindImport, WriteImport, UnHookImport
  <2> QED BY <1>6, <2>1
<1> QED BY <1>2, <1>3, <1>4, <1>5, <1>6

\* What is known of a piece of code stays known.
LEMMA KnownKept ==
  ASSUME SwapInv, SavedFirst, NEW h \in Hooks, HookStep(h)
  PROVE  /\ setup' = setup
         /\ \A c : Fn(c)' = Fn(c)
         /\ \A g \in Hooks : setup[g].type # "VFuncDetour" /\ member[g].orig # Wild =>
                               member'[g].orig = member[g].orig
         /\ \A c : Known(c) /\ ~(DivertMore(h) /\ c = Extra(h)) => Known(c)'
<1>1. setup' = setup
  BY StepOfHook DEF SwapInv, OnlyHook
<1>2. setup[h].type # "VFuncDetour" /\ member[h].orig # Wild => member'[h].orig = member[h].orig
  <2>1. CASE SaveVFunc(h) \/ CopyTable(h) \/ SaveImport(h)
    <3>1. busy = Idle /\ status[h] = "new"
      BY <2>1 DEF SaveVFunc, CopyTable, SaveImport, Begin
    <3>2. \A d : ~At(h, d)
      BY <3>1, SwapAssumption DEF At, Idle
    <3> QED BY <3>1, <3>2 DEF SavedFirst
  <2>2. CASE HookDetour(h)
    BY <2>2, KindOf DEF OfDetour
  <2>3. CASE ~(SaveVFunc(h) \/ CopyTable(h) \/ SaveImport(h) \/ HookDetour(h))
    BY <2>3, MemberOf
  <2> QED BY <2>1, <2>2, <2>3
<1>3. \A g \in Hooks : setup[g].type # "VFuncDetour" /\ member[g].orig # Wild =>
                         member'[g].orig = member[g].orig
  BY <1>2, StatusOf
<1>4. \A c : Fn(c)' = Fn(c)
  BY <1>1 DEF Fn
<1>5. ASSUME NEW c, Known(c), ~(DivertMore(h) /\ c = Extra(h)) PROVE Known(c)'
  <2>1. CASE c \in Functions
    BY <2>1 DEF Known
  <2>2. CASE \E g \in Hooks : c = Callback(g) /\ setup[g].type # "VFuncDetour" /\ member[g].orig # Wild
    BY <1>1, <1>3, <2>2 DEF Known
  <2>3. CASE \E g \in Hooks : c = Extra(g) /\ member[g].more # Wild
    <3>1. PICK g \in Hooks : c = Extra(g) /\ member[g].more # Wild
      BY <2>3
    <3>2. member'[g].more = member[g].more
      BY <1>5, <3>1, StatusOf, MemberOf
    <3> QED BY <3>1, <3>2 DEF Known
  <2> QED BY <1>5, <2>1, <2>2, <2>3 DEF Known
<1> QED BY <1>1, <1>3, <1>4, <1>5
(***************************************************************************)
(* What becomes of the sets of hooks the invariant speaks of.              *)
(***************************************************************************)
LEMMA LiveStep ==
  ASSUME SwapInv, NEW h \in Hooks, HookStep(h)
  PROVE  \A x : Live(x)' <=> \/ Live(x) /\ ~(FreeNewVtable(h) /\ x = h)
                             \/ CopyTable(h) /\ x = h
<1> SUFFICES ASSUME NEW x
             PROVE  Live(x)' <=> \/ Live(x) /\ ~(FreeNewVtable(h) /\ x = h)
                                 \/ CopyTable(h) /\ x = h
  OBVIOUS
<1>1. setup' = setup
  BY StepOfHook DEF SwapInv, OnlyHook
<1>2. h # 0
  BY SwapAssumption
<1>3. CASE x # h
  <2>1. x \in Hooks => /\ status'[x] = status[x]
                       /\ \A d : ~At(x, d) /\ ~At(x, d)'
    BY <1>3, OldOf, StatusOf
  <2> QED BY <1>1, <1>3, <2>1 DEF Live
<1>4. CASE x = h /\ ~OfVTable(h)
  <2>1. setup[h].type # "VTableSwap"
    BY <1>4, KindOf DEF OfVTable
  <2> QED BY <1>1, <1>2, <1>4, <2>1, KindOf DEF Live, OfVTable, SetsVTable
<1>5. CASE x = h /\ OfVTable(h)
  <2>1. setup[h].type = "VTableSwap"
    BY <1>5, KindOf
  <2>2. CASE CopyTable(h)
    <3>1. At(h, "class")'
      BY <2>2 DEF CopyTable, Continue, At
    <3> QED BY <1>1, <1>5, <2>1, <2>2, <3>1 DEF Live
  <2>3. CASE SwapTable(h)
    <3>1. At(h, "class") /\ At(h, "new entry")'
      BY <2>3 DEF SwapTable, Continue, At
    <3>2. ~FreeNewVtable(h)
      BY <3>1 DEF FreeNewVtable, At
    <3> QED BY <1>1, <1>5, <2>1, <3>1, <3>2 DEF Live
  <2>4. CASE DivertEntry(h)
    <3>1. At(h, "new entry")
      BY <2>4 DEF DivertEntry
    <3>2. ~FreeNewVtable(h)
      BY <3>1 DEF FreeNewVtable, At
    <3>3. status'[h] = "on"
      BY <2>4, StatusOf
    <3> QED BY <1>1, <1>5, <2>1, <3>1, <3>2, <3>3 DEF Live
  <2>5. CASE FreeNewVtable(h)
    <3>1. status'[h] = "off" /\ busy' = Idle
      BY <2>5, StatusOf DEF FreeNewVtable, Finish
    <3>2. ~At(h, "class")' /\ ~At(h, "new entry")'
      BY <1>2, <3>1 DEF At, Idle
    <3>3. ~CopyTable(h)
      BY <1>2, <2>5 DEF CopyTable, Begin, FreeNewVtable, At, Idle
    <3> QED BY <1>2, <1>5, <2>5, <3>1, <3>2, <3>3 DEF Live
  <2>6. CASE DivertMore(h) \/ ReturnMore(h) \/ RestoreClass(h)
    <3>1. status'[h] = "on"
      BY <2>6, StatusOf
    <3>2. busy = Idle \/ At(h, "return")
      BY <2>6 DEF DivertMore, ReturnMore, RestoreClass, Newest
    <3>4. status[h] = "on"
      BY <2>6, UnderWay DEF DivertMore, ReturnMore, RestoreClass, Newest, BusyWith, Removing
    <3>3. ~FreeNewVtable(h)
      BY <1>2, <3>2 DEF FreeNewVtable, At, Idle
    <3> QED BY <1>1, <1>5, <2>1, <3>1, <3>3, <3>4 DEF Live
  <2> QED BY <1>5, <2>2, <2>3, <2>4, <2>5, <2>6 DEF OfVTable, SetsVTable
<1> QED BY <1>3, <1>4, <1>5

LEMMA PointedStep ==
  ASSUME SwapInv, NEW h \in Hooks, HookStep(h)
  PROVE  /\ \A o : \A g \in Pointed(o) : ~(RestoreClass(h) /\ g = h) => g \in Pointed(o)'
         /\ SwapTable(h) => \A o : setup[h].object = o => h \in Pointed(o)'
<1>1. setup' = setup
  BY StepOfHook DEF SwapInv, OnlyHook
<1>2. ASSUME NEW o, SwapTable(h), setup[h].object = o PROVE h \in Pointed(o)'
  <2>1. At(h, "new entry")'
    BY <1>2 DEF SwapTable, Continue, At
  <2>2. setup[h].type = "VTableSwap"
    BY <1>2, KindOf DEF OfVTable, SetsVTable
  <2> QED BY <1>1, <1>2, <2>1, <2>2 DEF Pointed
<1>3. ASSUME NEW o, NEW g \in Pointed(o), ~(RestoreClass(h) /\ g = h) PROVE g \in Pointed(o)'
  <2>1. g \in Hooks /\ setup[g].type = "VTableSwap" /\ setup[g].object = o
    BY DEF Pointed
  <2>2. CASE g # h
    <3>1. status'[g] = status[g] /\ \A d : ~At(g, d) /\ ~At(g, d)'
      BY <2>1, <2>2, OldOf, StatusOf
    <3> QED BY <1>1, <2>1, <3>1 DEF Pointed
  <2>3. CASE g = h
    <3>1. OfVTable(h) /\ ~RestoreClass(h)
      BY <1>3, <2>1, <2>3, KindOf
    <3>2. (status[h] = "on" /\ ~At(h, "free")) \/ At(h, "new entry")
      BY <2>3 DEF Pointed
    <3>3. CASE CopyTable(h) \/ SwapTable(h)
      <4>1. status[h] = "new"
        BY <3>3, OldOf DEF SetsVTable
      <4>2. At(h, "new entry")
        BY <3>2, <4>1
      <4>3. FALSE
        BY <3>3, <4>2, SwapAssumption DEF CopyTable, SwapTable, Begin, Idle, At
      <4> QED BY <4>3
    <3>4. CASE DivertEntry(h) \/ ReturnMore(h)
      <4>1. status'[h] = "on"
        BY <3>4, StatusOf
      <4>3. busy' = Idle
        BY <3>4 DEF DivertEntry, ReturnMore, Finish
      <4>2. ~At(h, "free")'
        BY <4>3, SwapAssumption DEF At, Idle
      <4> QED BY <1>1, <2>1, <2>3, <4>1, <4>2 DEF Pointed
    <3>5. CASE DivertMore(h)
      <4>1. status'[h] = "on"
        BY <3>5, StatusOf
      <4>2. ~At(h, "free")'
        BY <3>5 DEF DivertMore, Continue, At
      <4> QED BY <1>1, <2>1, <2>3, <4>1, <4>2 DEF Pointed
    <3>6. ~FreeNewVtable(h)
      <4> SUFFICES ASSUME FreeNewVtable(h) PROVE FALSE
        OBVIOUS
      <4>1. At(h, "free")
        BY DEF FreeNewVtable
      <4> QED BY <3>2, <4>1 DEF At
    <3> QED BY <3>1, <3>3, <3>4, <3>5, <3>6 DEF OfVTable, SetsVTable
  <2> QED BY <2>2, <2>3
<1> QED BY <1>2, <1>3
LEMMA PatchedStep ==
  ASSUME SwapInv, NEW h \in Hooks, HookStep(h)
  PROVE  /\ \A c : \A g \in Patched(c) : ~(RestoreCode(h) /\ g = h) => g \in Patched(c)'
         /\ HookDetour(h) => \A c : member'[h].src.code = c => h \in Patched(c)'
<1>1. setup' = setup
  BY StepOfHook DEF SwapInv, OnlyHook
<1>2. ASSUME NEW c, HookDetour(h), member'[h].src.code = c PROVE h \in Patched(c)'
  <2>1. status'[h] = "on" /\ setup[h].type = "VFuncDetour"
    BY <1>2, StatusOf, KindOf DEF OfDetour
  <2>2. ~At(h, "trampoline")'
    BY <1>2, SwapAssumption DEF HookDetour, Finish, At, Idle
  <2> QED BY <1>1, <1>2, <2>1, <2>2 DEF Patched
<1>3. ASSUME NEW c, NEW g \in Patched(c), ~(RestoreCode(h) /\ g = h) PROVE g \in Patched(c)'
  <2>1. /\ g \in Hooks /\ setup[g].type = "VFuncDetour" /\ status[g] = "on"
        /\ ~At(g, "trampoline") /\ member[g].src.code = c
    BY DEF Patched
  <2>2. g # h
    <3> SUFFICES ASSUME g = h PROVE FALSE
      OBVIOUS
    <3>1. OfDetour(h)
      BY <2>1, KindOf
    <3>2. ~HookDetour(h)
      BY <2>1, OldOf
    <3>3. FreeTrampoline(h)
      BY <1>3, <3>1, <3>2 DEF OfDetour
    <3> QED BY <2>1, <3>3 DEF FreeTrampoline
  <2>3. /\ status'[g] = status[g] /\ member'[g] = member[g]
        /\ \A d : ~At(g, d) /\ ~At(g, d)'
    BY <2>1, <2>2, OldOf, StatusOf
  <2> QED BY <1>1, <2>1, <2>3 DEF Patched
<1> QED BY <1>2, <1>3

LEMMA DetouringStep ==
  ASSUME SwapInv, NEW h \in Hooks, HookStep(h)
  PROVE  /\ \A k \in Hooks : Detouring(k) /\ ~(FreeTrampoline(h) /\ k = h) =>
              Detouring(k)' /\ member'[k] = member[k] /\ trampoline'[k] = trampoline[k]
         /\ \A k \in Hooks : Detouring(k)' => Detouring(k) \/ (HookDetour(h) /\ k = h)
<1>1. setup' = setup
  BY StepOfHook DEF SwapInv, OnlyHook
<1>2. ASSUME NEW k \in Hooks, Detouring(k), ~(FreeTrampoline(h) /\ k = h)
      PROVE  Detouring(k)' /\ member'[k] = member[k] /\ trampoline'[k] = trampoline[k]
  <2>1. CASE k # h
    BY <1>1, <1>2, <2>1, StatusOf DEF Detouring
  <2>2. CASE k = h
    <3>1. OfDetour(h) /\ ~HookDetour(h)
      BY <1>2, <2>2, KindOf, OldOf DEF Detouring
    <3>2. RestoreCode(h)
      BY <1>2, <2>2, <3>1 DEF OfDetour
    <3>3. status' = status /\ member' = member /\ trampoline' = trampoline
      BY <3>2 DEF RestoreCode
    <3> QED BY <1>1, <1>2, <3>3 DEF Detouring
  <2> QED BY <2>1, <2>2
<1>3. ASSUME NEW k \in Hooks, Detouring(k)' PROVE Detouring(k) \/ (HookDetour(h) /\ k = h)
  <2>1. CASE k # h
    BY <1>1, <1>3, <2>1, StatusOf DEF Detouring
  <2>2. CASE k = h
    <3>1. OfDetour(h)
      BY <1>1, <1>3, <2>2, KindOf DEF Detouring
    <3>2. ~HookDetour(h) => status[h] = "on"
      BY <3>1, KindOf, OldOf DEF OfVFunc, OfVTable, OfImport
    <3> QED BY <1>1, <1>3, <2>2, <3>2 DEF Detouring
  <2> QED BY <2>1, <2>2
<1> QED BY <1>2, <1>3

\* A vtable holds the callback of a VFuncSwap hook until UnHook puts the original back.
LEMMA HeldStep ==
  ASSUME SwapInv, NEW h \in Hooks, HookStep(h)
  PROVE  /\ \A x, i, c : \/ Held(x, i, c) => Held(x, i, c)'
                         \/ /\ UnHookVFunc(h) /\ c = Callback(h)
                            /\ x = member[h].vtable /\ i = setup[h].index
         /\ WriteVFunc(h) => \A x, i : member[h].vtable = x /\ setup[h].index = i =>
                                        Held(x, i, Callback(h))'
<1>1. setup' = setup
  BY StepOfHook DEF SwapInv, OnlyHook
<1>2. ASSUME NEW x, NEW i, NEW c, Held(x, i, c),
             ~(/\ UnHookVFunc(h) /\ c = Callback(h)
               /\ x = member[h].vtable /\ i = setup[h].index)
      PROVE  Held(x, i, c)'
  <2>1. CASE c \in Functions \/ (c \in Callbacks /\ c.hook <= x)
    BY <2>1 DEF Held
  <2>2. CASE \E k \in Hooks : /\ c = Callback(k) /\ setup[k].type = "VFuncSwap"
                              /\ setup[k].index = i /\ status[k] = "on" /\ member[k].vtable = x
    <3>1. PICK k \in Hooks : /\ c = Callback(k) /\ setup[k].type = "VFuncSwap"
                             /\ setup[k].index = i /\ status[k] = "on" /\ member[k].vtable = x
      BY <2>2
    <3>2. k # h
      <4> SUFFICES ASSUME k = h PROVE FALSE
        OBVIOUS
      <4>1. OfVFunc(h) /\ ~SetsVFunc(h)
        BY <3>1, KindOf, OldOf
      <4> QED BY <1>2, <3>1, <4>1 DEF OfVFunc
    <3> QED BY <1>1, <3>1, <3>2, StatusOf DEF Held
  <2> QED BY <1>2, <2>1, <2>2 DEF Held
<1>3. ASSUME NEW x, NEW i, WriteVFunc(h), member[h].vtable = x, setup[h].index = i
      PROVE  Held(x, i, Callback(h))'
  <2>1. status'[h] = "on" /\ setup[h].type = "VFuncSwap"
    BY <1>3, StatusOf, KindOf DEF OfVFunc, SetsVFunc
  <2>2. member' = member
    BY <1>3 DEF WriteVFunc
  <2> QED BY <1>1, <1>3, <2>1, <2>2 DEF Held
<1> QED BY <1>2, <1>3
(***************************************************************************)
(* What a hook saves.                                                      *)
(***************************************************************************)
LEMMA RankOf ==
  /\ \A c : Rank(c) \in Nat
  /\ \A c \in Functions : Rank(c) = 0 /\ c \notin Callbacks
  /\ \A h \in Hooks : Rank(Callback(h)) = h /\ Rank(Extra(h)) = h
<1>1. \A h \in Hooks : /\ h \in Nat /\ Callback(h) \in Callbacks /\ Extra(h) \in Callbacks
                       /\ Callback(h).hook = h /\ Extra(h).hook = h
  BY SwapAssumption DEF Callbacks, Callback, Extra
<1>2. \A c \in Callbacks : c.hook \in Hooks
  BY DEF Callbacks, Callback, Extra
<1>3. \A c \in Functions : c \notin Callbacks
  BY CodeAssumption
<1> QED BY <1>1, <1>2, <1>3, SwapAssumption DEF Rank

LEMMA NoneAt ==
  ASSUME busy = Idle PROVE \A g \in Hooks : \A d : ~At(g, d)
BY SwapAssumption DEF At, Idle

LEMMA PointedLive ==
  ASSUME NEW o, NEW x \in Pointed(o) PROVE x \in Hooks /\ Live(x)
BY DEF Pointed, Live

LEMMA ObjectLive ==
  ASSUME ObjectsLive, NEW o \in Objects PROVE vptr[o] \in {0} \cup Hooks /\ Live(vptr[o])
BY PointedLive DEF ObjectsLive, Live

\* What can be saved or found is older than a hook that begins.
LEMMA KnownOlder ==
  ASSUME SwapInv, SavedFirst, ObjectsLive, busy = Idle, NEW h \in Hooks, status[h] = "new"
  PROVE  /\ \A c : Known(c) => Rank(c) < h
         /\ \A o \in Objects : vptr[o] < h
<1>1. \A g \in Hooks : \A d : ~At(g, d)
  BY NoneAt
<1>2. \A g \in Hooks : status[g] # "new" => g < h
  BY WrittenBelow
<1>3. ASSUME NEW c, Known(c) PROVE Rank(c) < h
  <2>1. CASE c \in Functions
    BY <2>1, RankOf, SwapAssumption
  <2>2. CASE \E g \in Hooks : c = Callback(g) /\ member[g].orig # Wild
    BY <1>1, <1>2, <2>2, RankOf DEF SavedFirst, SwapInv, Shape
  <2>3. CASE \E g \in Hooks : c = Extra(g) /\ member[g].more # Wild
    BY <1>2, <2>3, RankOf DEF SavedFirst
  <2> QED BY <1>3, <2>1, <2>2, <2>3 DEF Known
<1>4. ASSUME NEW o \in Objects PROVE vptr[o] < h
  <2>1. CASE vptr[o] = 0
    BY <2>1, SwapAssumption
  <2>2. CASE vptr[o] \in Pointed(o)
    <3>1. vptr[o] \in Hooks /\ status[vptr[o]] = "on"
      BY <1>1, <2>2 DEF Pointed
    <3> QED BY <1>2, <3>1
  <2> QED BY <2>1, <2>2 DEF ObjectsLive
<1> QED BY <1>3, <1>4

LEMMA SetupOf ==
  ASSUME setup \in Setups, NEW h \in Hooks, setup[h].type # "IAT"
  PROVE  setup[h].object \in Objects /\ setup[h].index \in Indices
BY SetupAssumption

\* The entry a hook of a virtual function finds.
LEMMA EntryOf ==
  ASSUME AllLead, setup \in Setups, NEW h \in Hooks, setup[h].type # "IAT",
         NEW x, NEW i, x = vptr[setup[h].object], i = setup[h].index
  PROVE  x \in {0} \cup Hooks /\ Live(x) /\ Leading(table[x][i], Virtuals[i])
         /\ Held(x, i, table[x][i].code)
<1>1. setup[h].object \in Objects /\ i \in Indices
  BY SetupOf
<1>2. x \in {0} \cup Hooks /\ Live(x)
  BY <1>1, ObjectLive DEF AllLead
<1> QED BY <1>1, <1>2 DEF AllLead, TablesLead

LEMMA SavedOf ==
  ASSUME SwapInv, AllLead, setup \in Setups, NEW h \in Hooks,
         SaveVFunc(h) \/ CopyTable(h) \/ SaveImport(h)
  PROVE  LeadingBelow(member'[h].orig, Fn(Callback(h)), h)
<1>1. busy = Idle /\ status[h] = "new" /\ HookStep(h)
  BY DEF SaveVFunc, CopyTable, SaveImport, Begin, HookStep
<1>2. \A c : Known(c) => Rank(c) < h
  BY <1>1, KnownOlder DEF AllLead
<1>3. Callback(h) \in Callbacks /\ Callback(h).hook = h /\ ~Callback(h).extra
  BY DEF Callbacks, Callback
<1>4. CASE SaveVFunc(h) \/ CopyTable(h)
  <2>1. setup[h].type # "IAT"
    BY <1>4, KindOf, <1>1 DEF OfVFunc, OfVTable, SetsVFunc, SetsVTable
  <2>2. member'[h].orig = table[vptr[setup[h].object]][setup[h].index]
    BY <1>1, <1>4, MemberOf
  <2>3. Leading(member'[h].orig, Virtuals[setup[h].index])
    BY <2>1, <2>2, EntryOf
  <2>4. Fn(Callback(h)) = Virtuals[setup[h].index]
    BY <1>3, <2>1 DEF Fn
  <2> QED BY <1>2, <2>3, <2>4 DEF Leading, LeadingBelow
<1>5. CASE SaveImport(h)
  <2>1. setup[h].type = "IAT"
    BY <1>5, KindOf DEF OfImport, SetsImport
  <2>2. PICK s \in FindIATFunc(h, setup[h].module) : member'[h].orig = iat[s]
    BY <1>1, <1>5, MemberOf
  <2>3. s \in Imports /\ s.function = setup[h].function
    BY DEF FindIATFunc
  <2>4. Leading(member'[h].orig, setup[h].function)
    BY <2>2, <2>3 DEF AllLead, ImportsLead
  <2>5. Fn(Callback(h)) = setup[h].function
    BY <1>3, <2>1 DEF Fn
  <2> QED BY <1>2, <2>4, <2>5 DEF Leading, LeadingBelow
<1> QED BY <1>4, <1>5

LEMMA MoreOf ==
  ASSUME SwapInv, AllLead, NEW h \in Hooks, DivertMore(h)
  PROVE  LeadingBelow(member'[h].more, Fn(Extra(h)), h)
<1> DEFINE x == member[h].vtable
           i == setup[h].more
<1>1. status[h] = "on" /\ i \in Indices /\ HookStep(h)
  BY DEF DivertMore, Newest, HookStep
<1>2. setup[h].type = "VTableSwap" /\ \A g \in Hooks : status[g] = "on" => g <= h
  <2>1. setup[h].type = "VTableSwap"
    BY KindOf DEF OfVTable
  <2> QED BY <1>1, <2>1, OldOf
<1>3. member'[h].more = table[x][i]
  BY <1>1, MemberOf
<1>4. x = 0 \/ (x < h /\ x \in Pointed(setup[h].object))
  <2>1. VtablesOlder /\ Live(h)
    BY <1>1, <1>2 DEF AllLead, Live
  <2> QED BY <1>2, <2>1 DEF VtablesOlder
<1>5. x \in {0} \cup Hooks /\ Live(x) /\ x < h
  <2>1. x = 0 => x \in {0} \cup Hooks /\ Live(x) /\ x < h
    BY SwapAssumption DEF Live
  <2>2. x \in Pointed(setup[h].object) => x \in Hooks /\ Live(x)
    BY PointedLive
  <2> QED BY <1>4, <2>1, <2>2
<1>6. Leading(table[x][i], Virtuals[i]) /\ Held(x, i, table[x][i].code)
  BY <1>1, <1>5 DEF AllLead, TablesLead
<1> HIDE DEF x, i
<1>7. PICK c \in Code : table[x][i] = Entry(c) /\ Known(c) /\ Fn(c) = Virtuals[i]
  BY <1>6 DEF Leading
<1>8. Held(x, i, c)
  BY <1>6, <1>7 DEF Entry
<1>9. Rank(c) < h
  <2>1. CASE c \in Functions
    BY <2>1, RankOf, SwapAssumption
  <2>2. CASE c \in Callbacks /\ c.hook <= x
    <3>1. Rank(c) <= x /\ Rank(c) \in Nat /\ x \in Nat /\ h \in Nat
      BY <1>5, <2>2, RankOf, SwapAssumption DEF Rank
    <3> QED BY <1>5, <3>1
  <2>3. CASE \E k \in Hooks : c = Callback(k) /\ setup[k].type = "VFuncSwap" /\ status[k] = "on"
    <3>1. PICK k \in Hooks : c = Callback(k) /\ setup[k].type = "VFuncSwap" /\ status[k] = "on"
      BY <2>3
    <3>2. k <= h /\ k # h /\ Rank(c) = k
      BY <1>2, <3>1, RankOf
    <3> QED BY <3>2, SwapAssumption
  <2> QED BY <1>8, <2>1, <2>2, <2>3 DEF Held
<1>10. Fn(Extra(h)) = Virtuals[i]
  <2>1. Extra(h) \in Callbacks /\ Extra(h).hook = h /\ Extra(h).extra
    BY DEF Callbacks, Extra
  <2> QED BY <1>2, <2>1 DEF Fn, i
<1> QED BY <1>3, <1>7, <1>9, <1>10 DEF LeadingBelow

LEMMA KnownStep ==
  ASSUME SwapInv, AllLead, NEW h \in Hooks, HookStep(h)
  PROVE  setup' = setup /\ \A c : Fn(c)' = Fn(c) /\ (Known(c) => Known(c)')
<1>1. /\ setup' = setup /\ \A c : Fn(c)' = Fn(c)
      /\ \A c : Known(c) /\ ~(DivertMore(h) /\ c = Extra(h)) => Known(c)'
  BY KnownKept DEF AllLead
<1>2. DivertMore(h) => Known(Extra(h))'
  <2> SUFFICES ASSUME DivertMore(h) PROVE Known(Extra(h))'
    OBVIOUS
  <2>1. LeadingBelow(member'[h].more, Fn(Extra(h)), h)
    BY MoreOf
  <2>2. member'[h].more # Wild
    BY <2>1 DEF LeadingBelow, Entry, Wild
  <2> QED BY <2>2 DEF Known
<1> QED BY <1>1, <1>2
(***************************************************************************)
(* The parts of the invariant, one by one.                                 *)
(***************************************************************************)
LEMMA MembersStep ==
  ASSUME SwapInv, AllLead, setup \in Setups, NEW h \in Hooks, HookStep(h)
  PROVE  MembersLead'
<1>1. setup' = setup /\ \A c : Fn(c)' = Fn(c) /\ (Known(c) => Known(c)')
  BY KnownStep
<1>2. ASSUME NEW g \in Hooks, setup'[g].type # "VFuncDetour", member'[g].orig # Wild
      PROVE  LeadingBelow(member[g].orig, Fn(Callback(g)), g)'
  <2>1. CASE g = h /\ (SaveVFunc(h) \/ CopyTable(h) \/ SaveImport(h))
    BY <1>1, <2>1, SavedOf DEF LeadingBelow
  <2>2. CASE ~(g = h /\ (SaveVFunc(h) \/ CopyTable(h) \/ SaveImport(h)))
    <3>1. g = h => ~HookDetour(h)
      BY <1>1, <1>2, KindOf DEF OfDetour
    <3>2. member'[g].orig = member[g].orig
      BY <2>2, <3>1, StatusOf, MemberOf
    <3>3. LeadingBelow(member[g].orig, Fn(Callback(g)), g)
      BY <1>1, <1>2, <3>2 DEF AllLead, MembersLead
    <3> QED BY <1>1, <3>2, <3>3 DEF LeadingBelow
  <2> QED BY <2>1, <2>2
<1>3. ASSUME NEW g \in Hooks, member'[g].more # Wild
      PROVE  LeadingBelow(member[g].more, Fn(Extra(g)), g)'
  <2>1. CASE g = h /\ DivertMore(h)
    BY <1>1, <2>1, MoreOf DEF LeadingBelow
  <2>2. CASE ~(g = h /\ DivertMore(h))
    <3>1. member'[g].more = member[g].more
      BY <2>2, StatusOf, MemberOf
    <3>2. LeadingBelow(member[g].more, Fn(Extra(g)), g)
      BY <1>3, <3>1 DEF AllLead, MembersLead
    <3> QED BY <1>1, <3>1, <3>2 DEF LeadingBelow
  <2> QED BY <2>1, <2>2
<1> QED BY <1>2, <1>3 DEF MembersLead

Being(h) == \E d \in Setting : At(h, d)

LEMMA SavedFirstStep ==
  ASSUME SwapInv, AllLead, setup \in Setups, NEW h \in Hooks, HookStep(h)
  PROVE  SavedFirst'
<1> USE DEF Being
<1>1. setup' = setup
  BY KnownStep
<1>2. SavedFirst
  BY DEF AllLead
<1>3. /\ status'[h] = "on" \/ Being(h)' => member'[h].orig # Wild
      /\ status'[h] = "new" => Being(h)'
  <2>1. CASE SaveVFunc(h) \/ CopyTable(h) \/ SaveImport(h)
    <3>3. LeadingBelow(member'[h].orig, Fn(Callback(h)), h)
      BY <2>1, SavedOf
    <3>1. member'[h].orig # Wild
      BY <3>3 DEF LeadingBelow, Entry, Wild
    <3>2. Being(h)'
      BY <2>1 DEF SaveVFunc, CopyTable, SaveImport, Continue, At, Setting
    <3> QED BY <3>1, <3>2
  <2>2. CASE WriteVFunc(h) \/ SwapTable(h) \/ DivertEntry(h) \/ WriteImport(h)
    <3>1. Being(h)
      BY <2>2 DEF WriteVFunc, SwapTable, DivertEntry, WriteImport, Setting
    <3>2. member' = member
      BY <2>2 DEF WriteVFunc, SwapTable, DivertEntry, WriteImport
    <3>3. member'[h].orig # Wild
      BY <1>2, <3>1, <3>2 DEF SavedFirst
    <3>4. SwapTable(h) => Being(h)'
      BY DEF SwapTable, Continue, At, Setting
    <3>5. WriteVFunc(h) \/ DivertEntry(h) \/ WriteImport(h) => status'[h] = "on"
      BY StatusOf
    <3> QED BY <2>2, <3>3, <3>4, <3>5
  <2>3. CASE HookDetour(h)
    <3>1. member'[h].orig = Trampoline(h) /\ status'[h] = "on"
      BY <2>3, StatusOf, MemberOf
    <3> QED BY <3>1 DEF Trampoline, Wild
  <2>4. CASE FindImport(h)
    <3>1. status'[h] = "failed"
      BY <2>4 DEF FindImport, Finish, SwapInv, Shape
    <3>2. ~Being(h)'
      BY <2>4, SwapAssumption DEF FindImport, Finish, At, Idle
    <3> QED BY <3>1, <3>2
  <2>5. CASE ~(SetsVFunc(h) \/ HookDetour(h) \/ SetsVTable(h) \/ SetsImport(h))
    <3>1. status[h] = "on"
      BY <2>5, OldOf
    <3>2. member[h].orig # Wild
      BY <1>2, <3>1 DEF SavedFirst
    <3>3. member'[h].orig = member[h].orig
      BY <2>5, MemberOf DEF SetsVFunc, SetsVTable, SetsImport
    <3>4. status'[h] # "new"
      BY <3>1, StepOf
    <3> QED BY <3>2, <3>3, <3>4
  <2> QED BY <2>1, <2>2, <2>3, <2>4, <2>5 DEF SetsVFunc, SetsVTable, SetsImport
<1>4. member'[h].more # Wild => /\ status'[h] # "new" /\ setup[h].type = "VTableSwap"
                                /\ setup[h].more \in Indices
  <2>1. CASE DivertMore(h)
    <3>1. setup[h].more \in Indices
      BY <2>1 DEF DivertMore
    <3>2. setup[h].type = "VTableSwap" /\ status'[h] = "on"
      BY <2>1, StatusOf, KindOf DEF OfVTable
    <3> QED BY <3>1, <3>2
  <2>2. CASE ~DivertMore(h)
    <3>1. member'[h].more = member[h].more
      BY <2>2, MemberOf
    <3>2. status'[h] = "new" => status[h] = "new"
      BY StepOf
    <3> QED BY <1>2, <3>1, <3>2 DEF SavedFirst
  <2> QED BY <2>1, <2>2
<1>5. \A g \in Hooks \ {h} : /\ status'[g] = status[g] /\ member'[g] = member[g]
                             /\ \A d : ~At(g, d) /\ ~At(g, d)'
  BY OldOf, StatusOf
<1>6. ASSUME NEW g \in Hooks
      PROVE  /\ status'[g] = "on" \/ Being(g)' => member'[g].orig # Wild
             /\ status'[g] = "new" /\ ~Being(g)' => member'[g].orig = Wild
             /\ member'[g].more # Wild => /\ status'[g] # "new" /\ setup[g].type = "VTableSwap"
                                          /\ setup[g].more \in Indices
  BY <1>2, <1>3, <1>4, <1>5 DEF SavedFirst
<1> QED BY <1>1, <1>6 DEF SavedFirst

LEMMA VtablesStep ==
  ASSUME SwapInv, AllLead, setup \in Setups, NEW h \in Hooks, HookStep(h)
  PROVE  VtablesOlder'
<1>1. setup' = setup
  BY KnownStep
<1> SUFFICES ASSUME NEW g \in Hooks, setup[g].type = "VTableSwap", Live(g)',
                    NEW o, setup[g].object = o
             PROVE  member'[g].vtable = 0 \/ (member'[g].vtable < g /\ member'[g].vtable \in Pointed(o)')
  BY <1>1 DEF VtablesOlder
<1>2. CASE g = h /\ CopyTable(h)
  <2>1. busy = Idle /\ status[h] = "new"
    BY <1>2 DEF CopyTable, Begin
  <2>2. o \in Objects /\ member'[h].vtable = vptr[o]
    BY <1>2, SetupOf, MemberOf
  <2>3. vptr[o] < h
    BY <2>1, <2>2, KnownOlder DEF AllLead
  <2>4. vptr[o] = 0 \/ vptr[o] \in Pointed(o)
    BY <2>2 DEF AllLead, ObjectsLive
  <2>5. vptr[o] # h
    BY <2>3, SwapAssumption
  <2> QED BY <1>2, <2>2, <2>3, <2>4, <2>5, PointedStep
<1>3. CASE ~(g = h /\ CopyTable(h))
  <2>1. Live(g)
    BY <1>3, LiveStep
  <2>2. g = h => ~SaveVFunc(h)
    BY KindOf DEF OfVFunc, SetsVFunc
  <2>3. member'[g].vtable = member[g].vtable
    BY <1>3, <2>2, StatusOf, MemberOf
  <2>4. \/ member[g].vtable = 0
        \/ member[g].vtable < g /\ member[g].vtable \in Pointed(o)
    BY <2>1 DEF AllLead, VtablesOlder
  <2>5. ASSUME RestoreClass(h), member[g].vtable = h PROVE ~(h < g)
    <3>1. status[h] = "on" /\ \A k \in Hooks : status[k] = "on" => k <= h
      BY <2>5, OldOf, StatusOf DEF RestoreClass, Newest
    <3>2. g = h \/ status[g] = "on"
      BY <2>1, OldOf, SwapAssumption DEF Live
    <3>3. g <= h
      BY <3>1, <3>2
    <3> QED BY <3>3, SwapAssumption
  <2> QED BY <2>3, <2>4, <2>5, PointedStep
<1> QED BY <1>2, <1>3

LEMMA ObjectsStep ==
  ASSUME SwapInv, AllLead, setup \in Setups, NEW h \in Hooks, HookStep(h)
  PROVE  ObjectsLive'
<1>1. setup' = setup /\ DOMAIN vptr = Objects
  BY KnownStep DEF SwapInv, Shape
<1> SUFFICES ASSUME NEW o \in Objects PROVE vptr'[o] = 0 \/ vptr'[o] \in Pointed(o)'
  BY DEF ObjectsLive
<1>2. vptr[o] = 0 \/ vptr[o] \in Pointed(o)
  BY DEF AllLead, ObjectsLive
<1>3. CASE SwapTable(h)
  <2>1. vptr' = [vptr EXCEPT ![setup[h].object] = h]
    BY <1>3 DEF SwapTable
  <2>2. CASE setup[h].object = o
    <3>1. vptr'[o] = h
      BY <1>1, <2>1, <2>2
    <3> QED BY <1>3, <2>2, <3>1, PointedStep
  <2>3. CASE setup[h].object # o
    <3>1. vptr'[o] = vptr[o] /\ ~RestoreClass(h)
      <4>1. status[h] = "new"
        BY <1>3, OldOf DEF SetsVTable
      <4> QED BY <1>1, <2>1, <2>3, <4>1 DEF RestoreClass, Newest
    <3> QED BY <1>2, <3>1, PointedStep
  <2> QED BY <2>2, <2>3
<1>4. CASE RestoreClass(h)
  <2>1. vptr' = [vptr EXCEPT ![setup[h].object] = member[h].vtable] /\ status[h] = "on"
    BY <1>4 DEF RestoreClass, Newest
  <2>2. setup[h].type = "VTableSwap"
    BY <1>4, KindOf DEF OfVTable
  <2>3. CASE setup[h].object = o
    <3>1. vptr'[o] = member[h].vtable
      BY <1>1, <2>1, <2>3
    <3>2. Live(h)
      BY <2>1, <2>2 DEF Live
    <3>3. \/ member[h].vtable = 0
          \/ member[h].vtable < h /\ member[h].vtable \in Pointed(o)
      BY <2>2, <2>3, <3>2 DEF AllLead, VtablesOlder
    <3> QED BY <3>1, <3>3, PointedStep, SwapAssumption
  <2>4. CASE setup[h].object # o
    <3>1. vptr'[o] = vptr[o] /\ h \notin Pointed(o)
      BY <1>1, <2>1, <2>4 DEF Pointed
    <3> QED BY <1>2, <3>1, PointedStep
  <2> QED BY <2>3, <2>4
<1>5. CASE ~SwapTable(h) /\ ~RestoreClass(h)
  <2>1. vptr' = vptr
    BY <1>5 DEF HookStep, SaveVFunc, WriteVFunc, UnHookVFunc, HookDetour, RestoreCode, FreeTrampoline,
       CopyTable, DivertEntry, DivertMore, ReturnMore, FreeNewVtable, FindImport, SaveImport,
       WriteImport, UnHookImport, memory
  <2> QED BY <1>2, <1>5, <2>1, PointedStep
<1> QED BY <1>3, <1>4, <1>5
\* GetVFuncCount counts all the functions of a vtable in use.
LEMMA CountOf ==
  ASSUME NEW words, IsVtable(words), \A i \in Indices : words[i] # Null
  PROVE  \A i \in Indices : i <= GetVFuncCount(Append(words, Null))
<1>1. Virtuals \in Seq(Functions)
  BY CodeAssumption
<1>2. PICK n \in Nat : Indices = 1 .. n
  BY <1>1 DEF Indices
<1>3. words \in Seq({words[i] : i \in Indices})
  BY <1>2 DEF IsVtable
<1>4. Len(words) = n
  BY <1>2, <1>3 DEF IsVtable
<1> DEFINE w == Append(words, Null)
<1>5. DOMAIN w = 1 .. n + 1 /\ w[n + 1] = Null /\ \A k \in 1 .. n : w[k] = words[k]
  BY <1>2, <1>3, <1>4
<1> HIDE DEF w
<1>6. {m \in DOMAIN w : \A k \in 1 .. m : IsValidPtr(w[k])} = 1 .. n
  <2>1. \A k \in 1 .. n : IsValidPtr(w[k])
    BY <1>2, <1>5 DEF IsValidPtr
  <2>2. ASSUME NEW m \in 1 .. n + 1 PROVE (\A k \in 1 .. m : IsValidPtr(w[k])) <=> m \in 1 .. n
    <3>1. CASE m \in 1 .. n
      <4>1. \A k \in 1 .. m : k \in 1 .. n
        BY <3>1
      <4> QED BY <2>1, <3>1, <4>1
    <3>2. CASE m = n + 1
      <4>1. ~IsValidPtr(w[m]) /\ m \in 1 .. m /\ m \notin 1 .. n
        BY <1>5, <3>2 DEF IsValidPtr
      <4> QED BY <4>1
    <3> QED BY <2>2, <3>1, <3>2
  <2>3. 1 .. n \subseteq 1 .. n + 1
    OBVIOUS
  <2> QED BY <1>5, <2>2, <2>3
<1>7. GetVFuncCount(w) = n
  <2>1. Cardinality(1 .. n) = IF 1 > n THEN 0 ELSE n - 1 + 1
    BY <1>2, FS_Interval
  <2>2. Cardinality(1 .. n) = n
    BY <1>2, <2>1
  <2> QED BY <1>6, <2>2 DEF GetVFuncCount
<1> QED BY <1>2, <1>7 DEF w

\* What becomes of the vtables.
LEMMA TableOf ==
  ASSUME SwapInv, NEW h \in Hooks, HookStep(h)
  PROVE  \/ table' = table /\ ~(WriteVFunc(h) \/ UnHookVFunc(h) \/ CopyTable(h) \/ DivertEntry(h)
                                \/ DivertMore(h) \/ FreeNewVtable(h))
         \/ WriteVFunc(h) \/ UnHookVFunc(h) \/ CopyTable(h) \/ DivertEntry(h) \/ DivertMore(h)
         \/ FreeNewVtable(h)
BY DEF HookStep, SaveVFunc, HookDetour, RestoreCode, FreeTrampoline, SwapTable, ReturnMore,
       RestoreClass, FindImport, SaveImport, WriteImport, UnHookImport, memory

\* One entry of a vtable is written, and nothing else.
Written(new, old, y, i, p) == new = [old EXCEPT ![y][i] = p]

LEMMA VtableWritten ==
  ASSUME SwapInv, NEW x \in {0} \cup Hooks, NEW y, NEW i, NEW p,
         Written(table', table, y, i, p), IsVtable(table[x])
  PROVE  /\ IsVtable(table'[x])
         /\ x # y => table'[x] = table[x]
         /\ x = y => table'[x] = [k \in Indices |-> IF i = k THEN p ELSE table[x][k]]
<1>1. DOMAIN table = {0} \cup Hooks
  BY DEF SwapInv, Shape
<1>2. CASE x # y
  BY <1>1, <1>2 DEF Written, IsVtable
<1>3. CASE x = y
  <2>1. table'[x] = [table[x] EXCEPT ![i] = p]
    BY <1>1, <1>3 DEF Written
  <2>2. table'[x] = [k \in Indices |-> IF i = k THEN p ELSE table[x][k]]
    BY <2>1 DEF IsVtable
  <2> QED BY <1>3, <2>2 DEF IsVtable
<1> QED BY <1>2, <1>3

LEMMA EntryWritten ==
  ASSUME SwapInv, NEW x \in {0} \cup Hooks, NEW y, NEW i, NEW p, NEW j \in Indices,
         Written(table', table, y, i, p), IsVtable(table[x])
  PROVE  /\ x = y /\ i = j => table'[x][j] = p
         /\ ~(x = y /\ i = j) => table'[x][j] = table[x][j]
<1>1. /\ x # y => table'[x] = table[x]
      /\ x = y => table'[x] = [k \in Indices |-> IF i = k THEN p ELSE table[x][k]]
  BY VtableWritten
<1> QED BY <1>1

\* The callback of a hook that is being written, or the original that is put back.
LEMMA CallbackLeads ==
  ASSUME SwapInv, AllLead, setup \in Setups, NEW h \in Hooks, HookStep(h),
         WriteVFunc(h) \/ DivertEntry(h) \/ WriteImport(h)
  PROVE  Known(Callback(h))' /\ Callback(h) \in Code
         /\ (setup[h].type # "IAT" => Fn(Callback(h))' = Virtuals[setup[h].index])
         /\ (setup[h].type = "IAT" => Fn(Callback(h))' = setup[h].function)
<1>1. setup' = setup
  BY KnownStep
<1>2. member[h].orig # Wild /\ member' = member
  <2>1. \E d \in Setting : At(h, d)
    BY DEF WriteVFunc, DivertEntry, WriteImport, Setting
  <2>2. member' = member
    BY DEF WriteVFunc, DivertEntry, WriteImport
  <2> QED BY <2>1, <2>2 DEF AllLead, SavedFirst
<1>3. setup[h].type # "VFuncDetour"
  BY KindOf DEF OfVFunc, OfVTable, OfImport, SetsVFunc, SetsVTable, SetsImport
<1>4. Callback(h) \in Callbacks /\ Callback(h).hook = h /\ ~Callback(h).extra /\ Callback(h) \in Code
  BY DEF Callbacks, Callback, Code
<1>5. Known(Callback(h))'
  BY <1>1, <1>2, <1>3 DEF Known
<1> QED BY <1>1, <1>4, <1>5 DEF Fn

LEMMA TablesStep ==
  ASSUME SwapInv, AllLead, setup \in Setups, NEW h \in Hooks, HookStep(h)
  PROVE  TablesLead'
<1> DEFINE Fine(x) == /\ IsVtable(table'[x])
                      /\ \A i \in Indices : /\ Leading(table[x][i], Virtuals[i])'
                                            /\ Held(x, i, table[x][i].code)'
<1>1. setup' = setup /\ \A c : Fn(c)' = Fn(c) /\ (Known(c) => Known(c)')
  BY KnownStep
<1>2. \A p, f : Leading(p, f) => Leading(p, f)'
  BY <1>1 DEF Leading
<1>3. h \in Nat /\ h # 0 /\ Callback(h) \in Callbacks /\ Callback(h).hook = h
      /\ Extra(h) \in Callbacks /\ Extra(h).hook = h
  BY SwapAssumption DEF Callbacks, Callback, Extra
<1>4. ASSUME NEW x \in {0} \cup Hooks, Live(x), ~(FreeNewVtable(h) /\ x = h)
      PROVE  /\ IsVtable(table[x])
             /\ \A i \in Indices : Leading(table[x][i], Virtuals[i]) /\ Held(x, i, table[x][i].code)
  BY <1>4 DEF AllLead, TablesLead
<1>5. ASSUME NEW x \in {0} \cup Hooks, Live(x), ~(FreeNewVtable(h) /\ x = h),
             NEW i \in Indices, table'[x][i] = table[x][i],
             ~(UnHookVFunc(h) /\ x = member[h].vtable /\ i = setup[h].index)
      PROVE  Leading(table[x][i], Virtuals[i])' /\ Held(x, i, table[x][i].code)'
  <2> DEFINE p == table[x][i]
  <2>1. Leading(p, Virtuals[i]) /\ Held(x, i, p.code)
    BY <1>4, <1>5
  <2>2. Held(x, i, p.code)'
    <3> HIDE DEF p
    <3>1. \A c : Held(x, i, c) => Held(x, i, c)'
      BY <1>5, HeldStep
    <3> QED BY <2>1, <1>5, <3>1 DEF p
  <2> QED BY <1>1, <1>5, <2>1, <2>2 DEF Leading
<1>6. ASSUME NEW x \in {0} \cup Hooks, Live(x), ~(FreeNewVtable(h) /\ x = h),
             table'[x] = table[x], ~UnHookVFunc(h)
      PROVE  Fine(x)
  <2>1. \A i \in Indices : Leading(table[x][i], Virtuals[i])' /\ Held(x, i, table[x][i].code)'
    BY <1>5, <1>6
  <2> QED BY <1>4, <1>6, <2>1
\* An entry is written: what is written belongs there, and the others are kept.
<1>7. ASSUME NEW x \in {0} \cup Hooks, Live(x), ~FreeNewVtable(h),
             NEW y, NEW i, NEW p, Written(table', table, y, i, p),
             UnHookVFunc(h) => y = member[h].vtable /\ i = setup[h].index,
             x = y /\ i \in Indices =>
               Held(x, i, p.code)' /\ \E c \in Code : p = Entry(c) /\ Known(c)' /\ Fn(c)' = Virtuals[i]
      PROVE  Fine(x)
  <2>1. IsVtable(table[x]) /\ Written(table', table, y, i, p)
    BY <1>4, <1>7
  <2>4. IsVtable(table'[x])
    BY <2>1, VtableWritten
  <2>3. ASSUME NEW j \in Indices
        PROVE  /\ x = y /\ i = j => table'[x][j] = p
               /\ ~(x = y /\ i = j) => table'[x][j] = table[x][j]
    BY <2>1, EntryWritten
  <2>2. ASSUME NEW j \in Indices
        PROVE  Leading(table[x][j], Virtuals[j])' /\ Held(x, j, table[x][j].code)'
    <3>1. CASE x = y /\ i = j
      <4>1. table'[x][j] = p
        BY <2>3, <3>1
      <4> QED BY <1>7, <3>1, <4>1 DEF Leading
    <3>2. CASE ~(x = y /\ i = j)
      BY <1>5, <1>7, <2>3, <3>2
    <3> QED BY <3>1, <3>2
  <2> QED BY <2>2, <2>4
<1>8. ASSUME NEW x \in {0} \cup Hooks, Live(x), WriteVFunc(h), NEW i, setup[h].index = i
      PROVE  Fine(x)
  <2>1. setup[h].type = "VFuncSwap" /\ status[h] = "new"
    BY <1>8, KindOf, OldOf DEF OfVFunc, SetsVFunc
  <2>2. ~FreeNewVtable(h) /\ ~UnHookVFunc(h)
    BY <2>1, KindOf DEF OfVTable, UnHookVFunc, Newest
  <2>3. Written(table', table, member[h].vtable, i, Entry(Callback(h)))
    BY <1>8 DEF WriteVFunc, Written
  <2>4. x = member[h].vtable => Held(x, i, Callback(h))'
    BY <1>8, HeldStep
  <2>5. /\ Callback(h) \in Code /\ Known(Callback(h))' /\ Fn(Callback(h))' = Virtuals[i]
        /\ Entry(Callback(h)).code = Callback(h)
    BY <1>8, <2>1, CallbackLeads DEF Entry
  <2> QED BY <1>7, <1>8, <2>2, <2>3, <2>4, <2>5
<1>9. ASSUME NEW x \in {0} \cup Hooks, Live(x), UnHookVFunc(h), NEW i, setup[h].index = i
      PROVE  Fine(x)
  <2>1. /\ setup[h].type = "VFuncSwap" /\ status[h] = "on" /\ ~FreeNewVtable(h)
        /\ Written(table', table, member[h].vtable, i, member[h].orig)
    BY <1>9, KindOf DEF OfVFunc, OfVTable, UnHookVFunc, Newest, Written
  <2>2. member[h].orig # Wild
    BY <2>1 DEF AllLead, SavedFirst
  <2>3. LeadingBelow(member[h].orig, Fn(Callback(h)), h)
    BY <2>1, <2>2 DEF AllLead, MembersLead
  <2>4. Fn(Callback(h)) = Virtuals[i]
    BY <1>3, <1>9, <2>1 DEF Fn, Callback
  <2>5. PICK c \in Code : member[h].orig = Entry(c) /\ Known(c) /\ Fn(c) = Virtuals[i]
                         /\ Rank(c) < h
    BY <2>3, <2>4 DEF LeadingBelow
  <2>6. member[h].orig.code = c /\ c # Callback(h)
    BY <1>3, <2>5, RankOf DEF Entry
  <2>7. Held(member[h].vtable, i, c)
    BY <1>9, <2>1, <2>6 DEF AllLead, SwappedLead
  <2>8. x = member[h].vtable => Held(x, i, c)'
    <3>1. \A y, j : Held(y, j, c) => Held(y, j, c)'
      BY <2>6, HeldStep
    <3> QED BY <2>7, <3>1
  <2> QED BY <1>1, <1>7, <1>9, <2>1, <2>5, <2>6, <2>8
<1>10. ASSUME NEW x \in {0} \cup Hooks, Live(x), DivertEntry(h), NEW i, setup[h].index = i
       PROVE  Fine(x)
  <2>1. /\ setup[h].type = "VTableSwap" /\ ~FreeNewVtable(h) /\ ~UnHookVFunc(h)
        /\ Written(table', table, h, i, Entry(Callback(h)))
    <3>1. setup[h].type = "VTableSwap" /\ status[h] = "new"
      BY <1>10, KindOf, OldOf DEF OfVTable, SetsVTable
    <3>2. ~FreeNewVtable(h)
      BY <1>10 DEF DivertEntry, FreeNewVtable, At
    <3>3. ~UnHookVFunc(h)
      BY <3>1 DEF UnHookVFunc, Newest
    <3> QED BY <1>10, <3>1, <3>2, <3>3 DEF DivertEntry, Written
  <2>2. /\ Callback(h) \in Code /\ Known(Callback(h))' /\ Fn(Callback(h))' = Virtuals[i]
        /\ Entry(Callback(h)).code = Callback(h)
    BY <1>10, <2>1, CallbackLeads DEF Entry
  <2>3. x = h => Held(x, i, Callback(h))'
    BY <1>3 DEF Held
  <2> QED BY <1>7, <1>10, <2>1, <2>2, <2>3
<1>11. ASSUME NEW x \in {0} \cup Hooks, Live(x), DivertMore(h), NEW i, setup[h].more = i
       PROVE  Fine(x)
  <2>1. /\ setup[h].type = "VTableSwap" /\ ~FreeNewVtable(h) /\ ~UnHookVFunc(h)
        /\ Written(table', table, h, i, Entry(Extra(h)))
    <3>1. setup[h].type = "VTableSwap" /\ busy = Idle
      BY <1>11 DEF DivertMore, Newest
    <3>2. ~FreeNewVtable(h)
      BY <3>1, NoneAt DEF FreeNewVtable
    <3>3. ~UnHookVFunc(h)
      BY <3>1 DEF UnHookVFunc, Newest
    <3> QED BY <1>11, <3>1, <3>2, <3>3 DEF DivertMore, Written
  <2>2. Known(Extra(h))'
    <3>1. LeadingBelow(member'[h].more, Fn(Extra(h)), h)
      BY <1>11, MoreOf
    <3>2. member'[h].more # Wild
      BY <3>1 DEF LeadingBelow, Entry, Wild
    <3> QED BY <3>2 DEF Known
  <2>3. Fn(Extra(h))' = Virtuals[i] /\ Extra(h) \in Code /\ Entry(Extra(h)).code = Extra(h)
    BY <1>1, <1>3, <1>11, <2>1 DEF Fn, Extra, Code, Entry
  <2>4. x = h => Held(x, i, Extra(h))'
    BY <1>3 DEF Held
  <2> QED BY <1>7, <1>11, <2>1, <2>2, <2>3, <2>4
<1>12. ASSUME CopyTable(h) PROVE Fine(h)
  <2> DEFINE t == vptr[setup[h].object]
             n == GetVFuncCount(Append(table[t], Null))
  <2>1. table' = [table EXCEPT ![h] = [i \in Indices |-> IF i <= n THEN table[t][i] ELSE Wild]]
    BY <1>12 DEF CopyTable
  <2>2. busy = Idle /\ status[h] = "new" /\ setup[h].type = "VTableSwap"
    BY <1>12 DEF CopyTable, Begin
  <2>3. t \in {0} \cup Hooks /\ Live(t)
    BY <2>2, EntryOf
  <2> HIDE DEF t
  <2>4. /\ IsVtable(table[t])
        /\ \A i \in Indices : Leading(table[t][i], Virtuals[i])
    BY <2>3 DEF AllLead, TablesLead
  <2>5. \A i \in Indices : table[t][i] # Null
    <3> SUFFICES ASSUME NEW i \in Indices PROVE table[t][i] # Null
      OBVIOUS
    <3>1. Leading(table[t][i], Virtuals[i])
      BY <2>4
    <3> QED BY <3>1 DEF Leading, Entry, Null
  <2>6. \A i \in Indices : i <= n
    BY <2>4, <2>5, CountOf
  <2>7. DOMAIN table = {0} \cup Hooks
    BY DEF SwapInv, Shape
  <2> HIDE DEF n
  <2>8. table'[h] = [i \in Indices |-> table[t][i]]
    BY <2>1, <2>6, <2>7
  <2>10. IsVtable(table'[h])
    BY <2>8 DEF IsVtable
  <2>9. ASSUME NEW i \in Indices
        PROVE  Leading(table[h][i], Virtuals[i])' /\ Held(h, i, table[h][i].code)'
    <3>1. PICK c \in Code : table[t][i] = Entry(c) /\ Known(c) /\ Fn(c) = Virtuals[i]
      BY <2>4, <2>9 DEF Leading
    <3>2. table'[h][i] = Entry(c) /\ table'[h][i].code = c
      BY <2>8, <3>1 DEF Entry
    <3>3. Rank(c) < h
      BY <2>2, <3>1, KnownOlder DEF AllLead
    <3>4. c \in Functions \/ (c \in Callbacks /\ c.hook <= h)
      <4>1. CASE c \in Callbacks
        <5>1. c.hook < h /\ c.hook \in Nat
          BY <3>3, <4>1, RankOf DEF Rank
        <5> QED BY <1>3, <4>1, <5>1
      <4> QED BY <4>1 DEF Code
    <3>5. Held(h, i, c)'
      BY <3>4 DEF Held
    <3> QED BY <1>1, <3>1, <3>2, <3>5 DEF Leading
  <2> QED BY <2>9, <2>10
<1>13. ASSUME NEW x \in {0} \cup Hooks, x # h, CopyTable(h) \/ FreeNewVtable(h)
       PROVE  table'[x] = table[x] /\ ~UnHookVFunc(h)
  <2>1. setup[h].type = "VTableSwap"
    BY <1>13, KindOf DEF OfVTable, SetsVTable
  <2> QED BY <1>13, <2>1 DEF CopyTable, FreeNewVtable, UnHookVFunc, Newest, SwapInv, Shape
<1>14. ASSUME NEW x \in {0} \cup Hooks, Live(x)' PROVE Fine(x)
  <2>1. CASE CopyTable(h) /\ x = h
    BY <1>12, <2>1
  <2>2. CASE ~(CopyTable(h) /\ x = h)
    <3>1. Live(x) /\ ~(FreeNewVtable(h) /\ x = h)
      BY <1>14, <2>2, LiveStep
    <3>2. CASE CopyTable(h) \/ FreeNewVtable(h)
      BY <1>6, <1>13, <2>2, <3>1, <3>2
    <3>3. CASE ~(CopyTable(h) \/ FreeNewVtable(h))
      BY <1>6, <1>8, <1>9, <1>10, <1>11, <3>1, <3>3, TableOf
    <3> QED BY <3>2, <3>3
  <2> QED BY <2>1, <2>2
<1> QED BY <1>14 DEF TablesLead
LEMMA SwappedStep ==
  ASSUME SwapInv, AllLead, setup \in Setups, NEW h \in Hooks, HookStep(h)
  PROVE  SwappedLead'
<1>1. setup' = setup
  BY KnownStep
<1> SUFFICES ASSUME NEW g \in Hooks, setup[g].type = "VFuncSwap",
                    status'[g] = "on" \/ At(g, "entry")',
                    NEW v, NEW i, NEW c,
                    v = member'[g].vtable, i = setup[g].index, c = member'[g].orig.code
             PROVE  Live(v)' /\ v < g /\ Held(v, i, c)'
  BY <1>1 DEF SwappedLead
<1>2. /\ \A x : Live(x) /\ ~(FreeNewVtable(h) /\ x = h) => Live(x)'
      /\ Held(v, i, c) => \/ Held(v, i, c)'
                          \/ UnHookVFunc(h) /\ c = Callback(h)
  BY LiveStep, HeldStep
<1>3. CASE g = h /\ SaveVFunc(h)
  <2>1. v = vptr[setup[h].object] /\ c = table[v][i].code
    BY <1>3, MemberOf
  <2>2. Live(v) /\ Held(v, i, c)
    BY <1>3, <2>1, EntryOf
  <2>3. busy = Idle /\ status[h] = "new"
    BY <1>3 DEF SaveVFunc, Begin
  <2>4. v < h
    BY <1>3, <2>1, <2>3, KnownOlder, SetupOf DEF AllLead
  <2>5. ~FreeNewVtable(h) /\ ~UnHookVFunc(h)
    BY <2>3, NoneAt DEF FreeNewVtable, UnHookVFunc, Newest
  <2> QED BY <1>2, <1>3, <2>2, <2>4, <2>5
<1>4. CASE g = h /\ ~SaveVFunc(h)
  <2>1. WriteVFunc(h)
    <3>1. OfVFunc(h)
      BY <1>4, KindOf
    <3>2. ~UnHookVFunc(h)
      <4> SUFFICES ASSUME UnHookVFunc(h) PROVE FALSE
        OBVIOUS
      <4>1. status'[h] = "off"
        BY StatusOf
      <4>2. busy' = Idle
        BY DEF UnHookVFunc, Finish
      <4>3. ~At(h, "entry")'
        BY <4>2, SwapAssumption DEF At, Idle
      <4> QED BY <1>4, <4>1, <4>3
    <3> QED BY <1>4, <3>1, <3>2 DEF OfVFunc, SetsVFunc
  <2>2. At(h, "entry") /\ member' = member
    BY <2>1 DEF WriteVFunc
  <2>3. Live(v) /\ v < h /\ Held(v, i, c)
    BY <1>4, <2>2 DEF AllLead, SwappedLead
  <2>4. ~FreeNewVtable(h) /\ ~UnHookVFunc(h)
    BY <2>2, SwapAssumption DEF FreeNewVtable, UnHookVFunc, Newest, At, Idle
  <2> QED BY <1>2, <1>4, <2>3, <2>4
<1>5. CASE g # h
  <2>1. /\ status'[g] = status[g] /\ member'[g] = member[g] /\ ~At(g, "entry")'
    BY <1>5, OldOf, StatusOf
  <2>2. Live(v) /\ v < g /\ Held(v, i, c)
    BY <2>1 DEF AllLead, SwappedLead
  <2>3. ASSUME FreeNewVtable(h) \/ UnHookVFunc(h) PROVE g < h
    <3>1. status[h] = "on"
      BY <2>3, UnderWay DEF FreeNewVtable, UnHookVFunc, Newest, BusyWith, Removing
    <3>2. ~(SetsVFunc(h) \/ HookDetour(h) \/ SetsVTable(h) \/ SetsImport(h))
      BY <3>1, OldOf
    <3>3. g <= h
      BY <2>1, <3>2, OldOf
    <3> QED BY <1>5, <3>3, SwapAssumption
  <2>4. UnHookVFunc(h) => c # Callback(h)
    <3> SUFFICES ASSUME UnHookVFunc(h), c = Callback(h) PROVE FALSE
      OBVIOUS
    <3>1. member[g].orig # Wild
      BY <2>1 DEF AllLead, SavedFirst
    <3>2. LeadingBelow(member[g].orig, Fn(Callback(g)), g)
      BY <3>1 DEF AllLead, MembersLead
    <3>3. PICK d \in Code : member[g].orig = Entry(d) /\ Rank(d) < g
      BY <3>2 DEF LeadingBelow
    <3>6. member'[g] = member[g]
      BY <2>1
    <3>7. Entry(d).code = d
      BY DEF Entry
    <3>8. Entry(d).code = c
      BY <3>3, <3>6
    <3>4. d = c
      BY <3>7, <3>8
    <3>5. h < g
      BY <3>3, <3>4, RankOf
    <3> QED BY <2>3, <3>5, SwapAssumption
  <2>5. FreeNewVtable(h) => v # h
    BY <2>2, <2>3, SwapAssumption
  <2> QED BY <1>2, <2>2, <2>4, <2>5
<1> QED BY <1>3, <1>4, <1>5

LEMMA ImportsStep ==
  ASSUME SwapInv, AllLead, setup \in Setups, NEW h \in Hooks, HookStep(h)
  PROVE  ImportsLead'
<1>1. setup' = setup /\ \A c : Fn(c)' = Fn(c) /\ (Known(c) => Known(c)')
  BY KnownStep
<1> SUFFICES ASSUME NEW s \in Imports
             PROVE  \E c \in Code : iat'[s] = Entry(c) /\ Known(c)' /\ Fn(c)' = s.function
  BY DEF ImportsLead, Leading
<1>2. \E c \in Code : iat[s] = Entry(c) /\ Known(c)' /\ Fn(c)' = s.function
  BY <1>1 DEF AllLead, ImportsLead, Leading
<1>3. DOMAIN iat = Imports
  BY DEF SwapInv, Shape
<1>4. CASE WriteImport(h)
  <2>1. PICK r \in FindIATFunc(h, setup[h].module) : iat' = [iat EXCEPT ![r] = Entry(Callback(h))]
    BY <1>4 DEF WriteImport
  <2>2. setup[h].type = "IAT"
    BY <1>4, KindOf DEF OfImport, SetsImport
  <2>3. Callback(h) \in Code /\ Known(Callback(h))' /\ Fn(Callback(h))' = setup[h].function
    BY <1>4, <2>2, CallbackLeads
  <2>4. CASE r = s
    <3>1. s.function = setup[h].function
      BY <2>4 DEF FindIATFunc
    <3>2. iat'[s] = Entry(Callback(h))
      BY <1>3, <2>1, <2>4
    <3> QED BY <2>3, <3>1, <3>2
  <2>5. CASE r # s
    BY <1>2, <1>3, <2>1, <2>5
  <2> QED BY <2>4, <2>5
<1>5. CASE UnHookImport(h)
  <2>1. PICK r \in FindIATFunc(h, "exe") : iat' = [iat EXCEPT ![r] = member[h].orig]
    BY <1>5 DEF UnHookImport
  <2>2. setup[h].type = "IAT" /\ status[h] = "on"
    BY <1>5 DEF UnHookImport, Newest
  <2>3. member[h].orig # Wild
    BY <2>2 DEF AllLead, SavedFirst
  <2>4. LeadingBelow(member[h].orig, Fn(Callback(h)), h)
    BY <2>2, <2>3 DEF AllLead, MembersLead
  <2>5. Fn(Callback(h)) = setup[h].function
    <3>1. Callback(h) \in Callbacks /\ Callback(h).hook = h
      BY DEF Callbacks, Callback
    <3> QED BY <2>2, <3>1 DEF Fn
  <2>6. \E c \in Code : member[h].orig = Entry(c) /\ Known(c)' /\ Fn(c)' = setup[h].function
    BY <1>1, <2>4, <2>5 DEF LeadingBelow
  <2>7. CASE r = s
    <3>1. s.function = setup[h].function
      BY <2>7 DEF FindIATFunc
    <3>2. iat'[s] = member[h].orig
      BY <1>3, <2>1, <2>7
    <3> QED BY <2>6, <3>1, <3>2
  <2>8. CASE r # s
    BY <1>2, <1>3, <2>1, <2>8
  <2> QED BY <2>7, <2>8
<1>6. CASE ~WriteImport(h) /\ ~UnHookImport(h)
  <2>1. iat' = iat
    BY <1>6 DEF HookStep, SaveVFunc, WriteVFunc, UnHookVFunc, HookDetour, RestoreCode, FreeTrampoline,
       CopyTable, SwapTable, DivertEntry, DivertMore, ReturnMore, RestoreClass, FreeNewVtable,
       FindImport, SaveImport, memory
  <2> QED BY <1>2, <2>1
<1> QED BY <1>4, <1>5, <1>6

\* The first bytes of a function lead to the newest of its detours, and a trampoline to
\* what its hook has found there.
LEMMA FunctionsStep ==
  ASSUME SwapInv, AllLead, setup \in Setups, NEW h \in Hooks, HookStep(h)
  PROVE  FunctionsLead'
<1>1. \A c : \A g \in Patched(c) : ~(RestoreCode(h) /\ g = h) => g \in Patched(c)'
  BY PatchedStep
<1>2. DOMAIN patch = Code
  BY DEF SwapInv, Shape
<1> SUFFICES ASSUME NEW c \in Code
             PROVE  patch'[c] = Body(c) \/ \E k \in Patched(c)' : patch'[c] = Entry(Callback(k))
  BY DEF FunctionsLead
<1>3. patch[c] = Body(c) \/ \E k \in Patched(c) : patch[c] = Entry(Callback(k))
  BY DEF AllLead, FunctionsLead
<1>4. CASE HookDetour(h)
  <2>1. member'[h].src = table[vptr[setup[h].object]][setup[h].index]
    BY <1>4, MemberOf
  <2>2. patch' = [patch EXCEPT ![member'[h].src.code] = Entry(Callback(h))]
    BY <1>4, <2>1 DEF HookDetour
  <2>3. CASE member'[h].src.code = c
    <3>1. h \in Patched(c)'
      BY <1>4, <2>3, PatchedStep
    <3> QED BY <1>2, <2>2, <2>3, <3>1
  <2>4. CASE member'[h].src.code # c
    <3>1. patch'[c] = patch[c] /\ ~RestoreCode(h)
      <4>1. status[h] = "new"
        BY <1>4, OldOf
      <4> QED BY <1>2, <2>2, <2>4, <4>1 DEF RestoreCode, Newest
    <3> QED BY <1>1, <1>3, <3>1
  <2> QED BY <2>3, <2>4
<1>5. CASE RestoreCode(h)
  <2>1. patch' = [patch EXCEPT ![Source(h)] = trampoline[h]]
    BY <1>5 DEF RestoreCode, Source
  <2>2. Detouring(h)
    BY <1>5 DEF RestoreCode, Newest, Detouring
  <2>3. CASE Source(h) = c
    <3>1. \/ trampoline[h] = Body(c)
          \/ \E j \in Patched(c) : j < h /\ trampoline[h] = Entry(Callback(j))
      BY <2>2, <2>3 DEF AllLead, DetoursLead
    <3>2. \A j \in Patched(c) : j < h => j # h
      BY SwapAssumption DEF Patched
    <3>3. patch'[c] = trampoline[h]
      BY <1>2, <2>1, <2>3
    <3> QED BY <1>1, <3>1, <3>2, <3>3
  <2>4. CASE Source(h) # c
    <3>1. patch'[c] = patch[c]
      BY <1>2, <2>1, <2>4
    <3>2. h \notin Patched(c)
      BY <2>4 DEF Patched, Source
    <3> QED BY <1>1, <1>3, <3>1, <3>2
  <2> QED BY <2>3, <2>4
<1>6. CASE ~HookDetour(h) /\ ~RestoreCode(h)
  <2>1. patch' = patch
    BY <1>6 DEF HookStep, SaveVFunc, WriteVFunc, UnHookVFunc, FreeTrampoline, CopyTable, SwapTable,
       DivertEntry, DivertMore, ReturnMore, RestoreClass, FreeNewVtable, FindImport, SaveImport,
       WriteImport, UnHookImport, memory
  <2> QED BY <1>1, <1>3, <1>6, <2>1
<1> QED BY <1>4, <1>5, <1>6

LEMMA DetoursStep ==
  ASSUME SwapInv, AllLead, setup \in Setups, NEW h \in Hooks, HookStep(h)
  PROVE  DetoursLead'
<1>1. setup' = setup /\ \A c : Fn(c)' = Fn(c) /\ (Known(c) => Known(c)')
  BY KnownStep
<1>2. \A c : \A g \in Patched(c) : ~(RestoreCode(h) /\ g = h) => g \in Patched(c)'
  BY PatchedStep
<1> SUFFICES ASSUME NEW k \in Hooks, Detouring(k)', NEW c, c = Source(k)', NEW p, p = trampoline'[k]
             PROVE  /\ member'[k].orig = Trampoline(k)
                    /\ c \in Code /\ Known(c)' /\ Fn(c)' = Fn(Callback(k))'
                    /\ p = Body(c) \/ \E j \in Patched(c)' : j < k /\ p = Entry(Callback(j))
  BY DEF DetoursLead
<1>3. CASE k = h /\ HookDetour(h)
  <2> DEFINE x == vptr[setup[h].object]
             i == setup[h].index
  <2>1. setup[h].type = "VFuncDetour" /\ status[h] = "new" /\ \A g \in Hooks : status[g] # "new" => g < h
    BY <1>3, KindOf, OldOf DEF OfDetour
  <2>2. member'[h].orig = Trampoline(h) /\ member'[h].src = table[x][i]
    BY <1>3, MemberOf
  <2>3. Leading(table[x][i], Virtuals[i])
    BY <2>1, EntryOf
  <2>4. trampoline' = [trampoline EXCEPT ![h] = patch[table[x][i].code]]
    BY <1>3 DEF HookDetour
  <2> HIDE DEF x, i
  <2>5. PICK d \in Code : table[x][i] = Entry(d) /\ Known(d) /\ Fn(d) = Virtuals[i]
    BY <2>3 DEF Leading
  <2>6. d = c /\ table[x][i].code = c
    BY <1>3, <2>2, <2>5 DEF Source, Entry
  <2>7. p = patch[c]
    BY <1>3, <2>4, <2>6 DEF SwapInv, Shape
  <2>8. Fn(Callback(h)) = Virtuals[i]
    <3>1. Callback(h) \in Callbacks /\ Callback(h).hook = h /\ ~Callback(h).extra
      BY DEF Callbacks, Callback
    <3> QED BY <2>1, <3>1 DEF Fn, i
  <2>9. patch[c] = Body(c) \/ \E j \in Patched(c) : patch[c] = Entry(Callback(j))
    BY <2>5, <2>6 DEF AllLead, FunctionsLead
  <2>10. \A j \in Patched(c) : j \in Patched(c)' /\ j < h
    <3>1. \A j \in Patched(c) : j \in Hooks /\ status[j] = "on"
      BY DEF Patched
    <3>2. ~RestoreCode(h)
      BY <2>1 DEF RestoreCode, Newest
    <3> QED BY <1>2, <2>1, <3>1, <3>2
  <2> QED BY <1>1, <1>3, <2>2, <2>5, <2>6, <2>7, <2>8, <2>9, <2>10
<1>4. CASE ~(k = h /\ HookDetour(h))
  <2>1. Detouring(k)
    BY <1>4, DetouringStep
  <2>2. ~(FreeTrampoline(h) /\ k = h)
    <3> SUFFICES ASSUME FreeTrampoline(h), k = h PROVE FALSE
      OBVIOUS
    <3>1. status'[h] = "off"
      BY StatusOf
    <3> QED BY <3>1 DEF Detouring
  <2>3. member'[k] = member[k] /\ trampoline'[k] = trampoline[k]
    BY <2>1, <2>2, DetouringStep
  <2>4. c = Source(k) /\ p = trampoline[k]
    BY <2>3 DEF Source
  <2>5. /\ member[k].orig = Trampoline(k)
        /\ c \in Code /\ Known(c) /\ Fn(c) = Fn(Callback(k))
        /\ p = Body(c) \/ \E j \in Patched(c) : j < k /\ p = Entry(Callback(j))
    BY <2>1, <2>4 DEF AllLead, DetoursLead
  <2>6. \A j \in Patched(c) : j < k => ~(RestoreCode(h) /\ j = h)
    <3> SUFFICES ASSUME RestoreCode(h), h < k PROVE FALSE
      OBVIOUS
    <3>1. status[h] = "on" /\ status[k] = "on"
      BY <2>1 DEF RestoreCode, Newest, Detouring
    <3>2. ~(SetsVFunc(h) \/ HookDetour(h) \/ SetsVTable(h) \/ SetsImport(h))
      BY <3>1, OldOf
    <3>3. k <= h
      BY <3>1, <3>2, OldOf
    <3> QED BY <3>3, SwapAssumption
  <2>7. \A j \in Patched(c) : j < k => j \in Patched(c)'
    BY <1>2, <2>6
  <2> QED BY <1>1, <2>3, <2>5, <2>7
<1> QED BY <1>3, <1>4
(***************************************************************************)
(* What the calls see of a step of a hook.                                 *)
(***************************************************************************)
LEMMA InitLeads == Init => AllLead
<1> SUFFICES ASSUME Init PROVE AllLead
  OBVIOUS
<1>1. \A h \in Hooks : /\ member[h].orig = Wild /\ member[h].more = Wild /\ status[h] = "new"
                       /\ \A d : ~At(h, d)
  BY NoneAt DEF Init
<1>2. MembersLead /\ SavedFirst
  BY <1>1 DEF MembersLead, SavedFirst
<1>8. VtablesOlder
  <2>1. \A h \in Hooks : ~Live(h)
    BY <1>1, SwapAssumption DEF Live
  <2> QED BY <2>1 DEF VtablesOlder
<1>3. ObjectsLive /\ SwappedLead /\ DetoursLead
  BY <1>1 DEF Init, ObjectsLive, SwappedLead, DetoursLead, Detouring
<1>4. FunctionsLead
  BY DEF Init, FunctionsLead
<1>5. \A f \in Functions : Leading(Entry(f), f) /\ Entry(f).code = f
  BY RankOf DEF Leading, Entry, Known, Fn, Code
<1>6. ImportsLead
  <2>1. \A s \in Imports : s.function \in Functions /\ iat[s] = Entry(s.function)
    BY DEF Init, Functions
  <2> QED BY <1>5, <2>1 DEF ImportsLead
<1>7. TablesLead
  <2>1. \A x \in {0} \cup Hooks : Live(x) => x = 0
    BY <1>1 DEF Live
  <2>2. table[0] = [i \in Indices |-> Entry(Virtuals[i])]
    BY DEF Init
  <2>3. \A i \in Indices : Virtuals[i] \in Functions
    BY CodeAssumption DEF Indices
  <2>4. IsVtable(table[0])
    BY <2>2 DEF IsVtable
  <2>5. \A i \in Indices : Leading(table[0][i], Virtuals[i]) /\ Held(0, i, table[0][i].code)
    BY <1>5, <2>2, <2>3 DEF Held
  <2> QED BY <2>1, <2>4, <2>5 DEF TablesLead
<1> QED BY <1>2, <1>3, <1>4, <1>6, <1>7, <1>8 DEF AllLead

LEMMA LeadsStep ==
  ASSUME SwapInv, AllLead, setup \in Setups, NEW h \in Hooks, HookStep(h)
  PROVE  AllLead'
<1>1. MembersLead' /\ SavedFirst' /\ VtablesOlder' /\ ObjectsLive'
  BY MembersStep, SavedFirstStep, VtablesStep, ObjectsStep
<1>2. TablesLead' /\ SwappedLead' /\ ImportsLead' /\ FunctionsLead' /\ DetoursLead'
  BY TablesStep, SwappedStep, ImportsStep, FunctionsStep, DetoursStep
<1> QED BY <1>1, <1>2 DEF AllLead

\* What a step frees is exposed, and only that.
LEMMA ExposedStep ==
  ASSUME NEW h \in Hooks, HookStep(h), NEW t \in Threads
  PROVE  /\ exposed[t] => exposed'[t]
         /\ FreeTrampoline(h) /\ ip[t] \in {Trampoline(h), Entry(Callback(h)), Body(Callback(h))} =>
              exposed'[t]
         /\ FreeNewVtable(h) /\ ip[t] = Loaded(h) => exposed'[t]
         /\ ip' = ip /\ site' = site /\ passed' = passed
<1>1. CASE FreeTrampoline(h) /\ ~FreeNewVtable(h)
  BY <1>1 DEF FreeTrampoline, Expose, Watch
<1>2. CASE FreeNewVtable(h) /\ ~FreeTrampoline(h)
  BY <1>2 DEF FreeNewVtable, Expose, Watch
<1>3. CASE ~FreeTrampoline(h) /\ ~FreeNewVtable(h)
  BY <1>3 DEF HookStep, SaveVFunc, WriteVFunc, UnHookVFunc, HookDetour, RestoreCode, CopyTable,
     SwapTable, DivertEntry, DivertMore, ReturnMore, RestoreClass, FindImport, SaveImport,
     WriteImport, UnHookImport, Watch
<1>4. ~(FreeTrampoline(h) /\ FreeNewVtable(h))
  BY DEF FreeTrampoline, FreeNewVtable, At
<1> QED BY <1>1, <1>2, <1>3, <1>4

\* Where a call is stays right whatever is hooked or unhooked.
LEMMA PlacedStep ==
  ASSUME SwapInv, AllLead, setup \in Setups, NEW h \in Hooks, HookStep(h),
         NEW t \in Threads, Placed(t)
  PROVE  exposed'[t] \/ Placed(t)'
<1>1. setup' = setup /\ \A c : Fn(c)' = Fn(c) /\ (Known(c) => Known(c)')
  BY KnownStep
<1>2. ip' = ip /\ site' = site /\ passed' = passed
  BY ExposedStep
<1>3. ASSUME NEW x, Settled(x)
      PROVE  /\ Settled(x)' /\ Group(x)' = Group(x)
             /\ setup[x.hook].type = "VFuncDetour" => Source(x.hook)' = Source(x.hook)
  <2> DEFINE g == x.hook
  <2>1. g \in Hooks
    BY <1>3 DEF Settled, Callbacks, Callback, Extra
  <2> HIDE DEF g
  <2>2. status[g] # "new" => status'[g] # "new"
    BY <2>1, StatusOf, StepOf
  <2>3. ASSUME setup[g].type = "VFuncDetour" PROVE Source(g)' = Source(g)
    <3>1. status[g] # "new"
      BY <1>3, <2>3 DEF Settled, g
    <3>2. g = h => ~HookDetour(h)
      BY <3>1, OldOf
    <3>3. member'[g].src = member[g].src
      BY <2>1, <3>2, StatusOf, MemberOf
    <3> QED BY <3>3 DEF Source
  <2>4. Settled(x)'
    BY <1>1, <1>3, <2>2 DEF Settled, g
  <2> QED BY <1>1, <2>3, <2>4 DEF Group, g
<1>4. CASE Entering(t) /\ passed[t] = <<>>
  <2>1. CASE ip[t] = Out
    BY <1>2, <1>4, <2>1 DEF Placed, Entering
  <2>2. CASE ip[t] # Out
    <3>1. PICK x \in {0} \cup Hooks : ip[t] = Loaded(x) /\ Live(x) /\ site[t] \in VirtualSites \ Imports
      BY <1>4, <2>2 DEF Entering
    <3>2. CASE FreeNewVtable(h) /\ x = h
      BY <3>1, <3>2, ExposedStep
    <3>3. CASE ~(FreeNewVtable(h) /\ x = h)
      <4>1. Live(x)'
        BY <3>1, <3>3, LiveStep
      <4> QED BY <1>2, <1>4, <3>1, <4>1 DEF Placed, Entering
    <3> QED BY <3>2, <3>3
  <2> QED BY <2>1, <2>2
<1>5. CASE passed[t] \in Seq(Code) /\ IsInjective(passed[t]) /\ ip[t] = Done(Function(site[t]))
  BY <1>2, <1>5 DEF Placed
<1>6. CASE /\ passed[t] \in Seq(Code) /\ IsInjective(passed[t])
           /\ \A x \in ToSet(passed[t]) : Settled(x)
           /\ (\E c \in Code : Inside(t, c)) \/ (\E k \in Hooks : Detoured(t, k))
  <2>1. \A x \in ToSet(passed[t]) : Settled(x)'
    BY <1>3, <1>6
  <2>2. ASSUME NEW c PROVE /\ Above(t, c) => Above(t, c)'
                           /\ \A k : Behind(t, c, k) => Behind(t, c, k)'
    BY <1>1, <1>2, <1>3, <1>6 DEF Above, Behind, Rank
  <2>3. CASE \E c \in Code : Inside(t, c)
    <3>1. PICK c \in Code : Inside(t, c)
      BY <2>3
    <3>2. Inside(t, c)'
      BY <1>1, <1>2, <2>2, <3>1 DEF Inside
    <3> QED BY <1>2, <1>6, <2>1, <3>2 DEF Placed
  <2>4. CASE \E k \in Hooks : Detoured(t, k)
    <3>1. PICK k \in Hooks : Detoured(t, k)
      BY <2>4
    <3>2. CASE FreeTrampoline(h) /\ k = h
      BY <3>1, <3>2, ExposedStep DEF Detoured
    <3>3. CASE ~(FreeTrampoline(h) /\ k = h)
      <4>1. Detouring(k)' /\ Source(k)' = Source(k)
        BY <3>1, <3>3, DetouringStep DEF Detoured, Source
      <4>2. Detoured(t, k)'
        BY <1>1, <1>2, <2>2, <3>1, <4>1 DEF Detoured
      <4> QED BY <1>2, <1>6, <2>1, <4>2 DEF Placed
    <3> QED BY <3>2, <3>3
  <2> QED BY <1>6, <2>3, <2>4
<1> QED BY <1>4, <1>5, <1>6 DEF Placed
(***************************************************************************)
(* The steps of a call.                                                    *)
(***************************************************************************)
LEMMA PassedMore ==
  ASSUME NEW s \in Seq(Code), IsInjective(s), NEW c \in Code, c \notin ToSet(s)
  PROVE  /\ Append(s, c) \in Seq(Code) /\ IsInjective(Append(s, c))
         /\ ToSet(Append(s, c)) = ToSet(s) \cup {c}
<1> DEFINE w == Append(s, c)
<1>1. w \in Seq(Code) /\ DOMAIN w = DOMAIN s \cup {Len(s) + 1} /\ w[Len(s) + 1] = c
  OBVIOUS
<1>2. \A i \in DOMAIN s : w[i] = s[i] /\ i # Len(s) + 1
  OBVIOUS
<1> HIDE DEF w
<1>3. \A i \in DOMAIN s : s[i] # c
  BY DEF ToSet
<1>4. IsInjective(w)
  BY <1>1, <1>2, <1>3 DEF IsInjective
<1>5. ToSet(w) = ToSet(s) \cup {c}
  BY <1>1, <1>2 DEF ToSet
<1> QED BY <1>1, <1>4, <1>5 DEF w

LEMMA SameHooks ==
  ASSUME UNCHANGED <<memory, hooks>>
  PROVE  /\ \A c : (Known(c)' <=> Known(c)) /\ Fn(c)' = Fn(c)
         /\ \A x : Live(x)' <=> Live(x)
         /\ \A k : (Detouring(k)' <=> Detouring(k)) /\ Source(k)' = Source(k)
         /\ \A x : Group(x)' = Group(x) /\ (Settled(x)' <=> Settled(x))
BY DEF memory, hooks, Known, Fn, Live, At, Detouring, Source, Group, Settled

\* The others do not notice.
LEMMA OthersPlaced ==
  ASSUME UNCHANGED <<memory, hooks>>, NEW u, Placed(u),
         ip'[u] = ip[u], site'[u] = site[u], passed'[u] = passed[u]
  PROVE  Placed(u)'
<1>1. Entering(u) => Entering(u)'
  BY SameHooks DEF Entering
<1>2. \A c, k : Above(u, c)' = Above(u, c) /\ Behind(u, c, k)' = Behind(u, c, k)
  BY SameHooks DEF Above, Behind, Rank, hooks
<1>3. \A c : Inside(u, c) => Inside(u, c)'
  BY <1>2, SameHooks DEF Inside
<1>4. \A k : Detoured(u, k) => Detoured(u, k)'
  BY <1>2, SameHooks DEF Detoured
<1> QED BY <1>1, <1>3, <1>4, SameHooks DEF Placed

CallShape == DOMAIN ip = Threads /\ DOMAIN site = Threads /\ DOMAIN passed = Threads
             /\ DOMAIN exposed = Threads

LEMMA PlaceKinds ==
  /\ \A c : /\ Entry(c).at = "entry" /\ Entry(c).code = c
            /\ Body(c).at = "body" /\ Body(c).code = c
  /\ \A k : /\ Trampoline(k).at = "trampoline" /\ Trampoline(k).code = Callback(k)
            /\ Callback(k).hook = k /\ ~Callback(k).extra
  /\ \A f : Done(f).at = "done" /\ Done(f).code = f
  /\ \A x : Loaded(x).at = "table" /\ Loaded(x).code = x
  /\ Out.at = "out" /\ Wild.at = "wild"
BY DEF Entry, Body, Trampoline, Done, Loaded, Out, Wild, Callback

LEMMA PlacedAt ==
  ASSUME NEW t, Placed(t)
  PROVE  /\ ip[t] # Wild
         /\ ip[t] = Out => passed[t] = <<>>
         /\ ip[t].at = "table" => Entering(t) /\ passed[t] = <<>>
         /\ ip[t].at = "done" => ip[t] = Done(Function(site[t]))
         /\ ip[t].at \in {"entry", "body", "trampoline"} =>
              /\ passed[t] \in Seq(Code) /\ IsInjective(passed[t])
              /\ \A x \in ToSet(passed[t]) : Settled(x)
              /\ (\E c \in Code : Inside(t, c)) \/ (\E k \in Hooks : Detoured(t, k))
<1>1. CASE Entering(t) /\ passed[t] = <<>>
  BY <1>1, PlaceKinds DEF Entering
<1>2. CASE ip[t] = Done(Function(site[t])) /\ passed[t] \in Seq(Code) /\ IsInjective(passed[t])
  BY <1>2, PlaceKinds
<1>3. CASE /\ passed[t] \in Seq(Code) /\ IsInjective(passed[t])
           /\ \A x \in ToSet(passed[t]) : Settled(x)
           /\ (\E c \in Code : Inside(t, c)) \/ (\E k \in Hooks : Detoured(t, k))
  <2>1. ip[t].at \in {"entry", "body", "trampoline"}
    BY <1>3, PlaceKinds DEF Inside, Detoured
  <2> QED BY <1>3, <2>1, PlaceKinds
<1> QED BY <1>1, <1>2, <1>3 DEF Placed

\* A call begins.
LEMMA CallPlaced ==
  ASSUME AllLead, CallShape, NEW t \in Threads, Call(t), Placed(t)
  PROVE  Placed(t)'
<1>1. PICK s \in Sites : /\ site' = [site EXCEPT ![t] = s]
                         /\ ip' = [ip EXCEPT ![t] = IF s \in Imports THEN iat[s]
                                                    ELSE Loaded(vptr[s.object])]
  BY DEF Call
<1>2. UNCHANGED <<memory, hooks>> /\ passed'[t] = <<>>
  BY PlacedAt DEF Call
<1>3. site'[t] = s /\ ip'[t] = IF s \in Imports THEN iat[s] ELSE Loaded(vptr[s.object])
  BY <1>1 DEF CallShape
<1>4. CASE s \in Imports
  <2>1. PICK c \in Code : iat[s] = Entry(c) /\ Known(c) /\ Fn(c) = s.function
    BY <1>4 DEF AllLead, ImportsLead, Leading
  <2>2. Function(site'[t]) = Fn(c)
    BY <1>3, <1>4, <2>1 DEF Function
  <2>3. Above(t, c)' /\ \A x \in ToSet(passed'[t]) : Settled(x)'
    BY <1>2 DEF Above, ToSet
  <2>4. Inside(t, c)'
    BY <1>2, <1>3, <1>4, <2>1, <2>2, <2>3, SameHooks DEF Inside
  <2>5. passed'[t] \in Seq(Code) /\ IsInjective(passed'[t])
    BY <1>2 DEF IsInjective
  <2> QED BY <2>3, <2>4, <2>5 DEF Placed
<1>5. CASE s \notin Imports
  <2>1. s \in VirtualSites \ Imports /\ s.object \in Objects
    BY <1>5 DEF Sites, VirtualSites
  <2>2. vptr[s.object] \in {0} \cup Hooks /\ Live(vptr[s.object])
    BY <2>1, ObjectLive DEF AllLead
  <2>3. Entering(t)'
    BY <1>2, <1>3, <1>5, <2>1, <2>2, SameHooks DEF Entering
  <2> QED BY <1>2, <2>3 DEF Placed
<1> QED BY <1>4, <1>5

\* It has the vtable, and reads the entry.
LEMMA LoadPlaced ==
  ASSUME AllLead, CallShape, NEW t \in Threads, LoadEntry(t), Placed(t)
  PROVE  Placed(t)'
<1>1. UNCHANGED <<memory, hooks>> /\ site' = site /\ passed' = passed
      /\ ip'[t] = table[ip[t].code][site[t].index] /\ ip[t].at = "table"
  BY DEF LoadEntry, CallShape
<1>2. Entering(t) /\ passed'[t] = <<>>
  BY <1>1, PlacedAt
<1>3. PICK x \in {0} \cup Hooks : ip[t] = Loaded(x) /\ Live(x) /\ site[t] \in VirtualSites \ Imports
  BY <1>1, <1>2, PlaceKinds DEF Entering
<1>4. ip[t].code = x
  BY <1>3, PlaceKinds
<1>5. site[t].index \in Indices /\ Function(site[t]) = Virtuals[site[t].index]
  BY <1>3 DEF VirtualSites, Function
<1>6. Leading(table[x][site[t].index], Virtuals[site[t].index])
  BY <1>3, <1>5 DEF AllLead, TablesLead
<1>7. PICK c \in Code : ip'[t] = Entry(c) /\ Known(c) /\ Fn(c) = Function(site[t])
  BY <1>1, <1>4, <1>5, <1>6 DEF Leading
<1>8. Above(t, c)' /\ \A y \in ToSet(passed'[t]) : Settled(y)'
  BY <1>2 DEF Above, ToSet
<1>9. Inside(t, c)'
  BY <1>1, <1>7, <1>8, SameHooks DEF Inside
<1>10. passed'[t] \in Seq(Code) /\ IsInjective(passed'[t])
  BY <1>2 DEF IsInjective
<1> QED BY <1>8, <1>9, <1>10 DEF Placed
\* What is known and what is detoured, of a place in a call.
LEMMA DetourOf ==
  ASSUME AllLead, NEW k \in Hooks, Detouring(k)
  PROVE  /\ Callback(k) \in Callbacks /\ Callback(k) \in Code
         /\ Source(k) \in Code /\ Known(Source(k)) /\ Fn(Source(k)) = Fn(Callback(k))
         /\ Group(Callback(k)) = Source(k)
         /\ ~Known(Callback(k)) /\ Patched(Callback(k)) = {}
<1>1. Callback(k) \in Callbacks /\ Callback(k) \in Code /\ Callback(k).hook = k
  BY DEF Callbacks, Callback, Code
<1>2. \A j \in Hooks : Detouring(j) => Source(j) \in Code /\ Known(Source(j))
                                       /\ Fn(Source(j)) = Fn(Callback(j))
  BY DEF AllLead, DetoursLead
<1>3. Group(Callback(k)) = Source(k)
  BY <1>1 DEF Group, Detouring
<1>4. ~Known(Callback(k))
  <2>1. Callback(k) \notin Functions
    BY <1>1, RankOf
  <2>2. \A g \in Hooks : /\ Callback(k) # Extra(g)
                         /\ Callback(k) = Callback(g) => k = g
    BY DEF Callback, Extra
  <2> QED BY <2>1, <2>2 DEF Known, Detouring
<1>5. Patched(Callback(k)) = {}
  BY <1>2, <1>4 DEF Patched, Detouring, Source
<1> QED BY <1>1, <1>2, <1>3, <1>4, <1>5

LEMMA PatchedOf ==
  ASSUME AllLead, NEW c, NEW k \in Patched(c)
  PROVE  k \in Hooks /\ Detouring(k) /\ Source(k) = c /\ Fn(Callback(k)) = Fn(c) /\ k > 0
<1>1. k \in Hooks /\ Detouring(k) /\ Source(k) = c /\ k > 0
  BY SwapAssumption DEF Patched, Detouring, Source
<1>2. Fn(Callback(k)) = Fn(c)
  BY <1>1, DetourOf
<1> QED BY <1>1, <1>2

\* A callback that swapped a pointer leads on to older ones, and is passed once.
LEMMA KnownOriginal ==
  ASSUME AllLead, NEW c \in Code, Known(c), c \in Callbacks
  PROVE  /\ setup[c.hook].type # "VFuncDetour" /\ Group(c) = c
         /\ LeadingBelow(IF c.extra THEN member[c.hook].more ELSE member[c.hook].orig, Fn(c), Rank(c))
<1>1. c \notin Functions
  BY RankOf
<1>2. CASE \E g \in Hooks : c = Callback(g) /\ setup[g].type # "VFuncDetour" /\ member[g].orig # Wild
  <2>1. PICK g \in Hooks : c = Callback(g) /\ setup[g].type # "VFuncDetour" /\ member[g].orig # Wild
    BY <1>2
  <2>2. c.hook = g /\ ~c.extra /\ Rank(c) = g
    BY <2>1, PlaceKinds, RankOf
  <2>3. LeadingBelow(member[g].orig, Fn(c), g)
    BY <2>1 DEF AllLead, MembersLead
  <2> QED BY <2>1, <2>2, <2>3 DEF Group
<1>3. CASE \E g \in Hooks : c = Extra(g) /\ member[g].more # Wild
  <2>1. PICK g \in Hooks : c = Extra(g) /\ member[g].more # Wild
    BY <1>3
  <2>2. c.hook = g /\ c.extra /\ Rank(c) = g
    BY <2>1, RankOf DEF Extra
  <2>3. LeadingBelow(member[g].more, Fn(c), g)
    BY <2>1 DEF AllLead, MembersLead
  <2>4. setup[g].type = "VTableSwap"
    BY <2>1 DEF AllLead, SavedFirst
  <2> QED BY <2>2, <2>3, <2>4 DEF Group
<1> QED BY <1>1, <1>2, <1>3 DEF Known

\* A call goes on.
LEMMA RunPlaced ==
  ASSUME AllLead, CallShape, NEW t \in Threads, Run(t), Placed(t), ~NotYet(ip[t])
  PROVE  Placed(t)'
<1> DEFINE p == ip[t]
           q == ip'[t]
           w == passed[t]
           f == Function(site[t])
<1>1. UNCHANGED <<memory, hooks>> /\ site' = site /\ p.at \in {"entry", "body", "trampoline"}
  BY DEF Run
<1>2. q = Leads(p, Links)
  BY DEF Run, CallShape
<1>3. w \in Seq(Code) /\ IsInjective(w) /\ \A x \in ToSet(w) : Settled(x)
  BY <1>1, PlacedAt
<1>4. passed'[t] = IF p.at = "body" THEN Append(w, p.code) ELSE w
  BY <1>3 DEF Run, CallShape
<1>5. /\ p.at = "entry" => q = patch[p.code]
      /\ p.at = "trampoline" => q = trampoline[p.code.hook]
      /\ p.at = "body" /\ p.code \notin Callbacks => q = Done(p.code)
      /\ p.at = "body" /\ p.code \in Callbacks =>
           q = IF p.code.extra THEN member[p.code.hook].more ELSE member[p.code.hook].orig
  BY <1>2 DEF Leads, Links
<1>6. (\E c \in Code : Inside(t, c)) \/ (\E k \in Hooks : Detoured(t, k))
  BY <1>1, PlacedAt
<1> HIDE DEF p, q, w, f
\* Where it is allowed to come.
<1>7. ASSUME passed'[t] = w,
             \/ \E c \in Code : /\ Known(c) /\ Fn(c) = f
                                /\ (q = Body(c) /\ Behind(t, c, 0))
             \/ \E k \in Hooks : /\ Detouring(k) /\ Fn(Callback(k)) = f
                                 /\ q \in {Entry(Callback(k)), Body(Callback(k))}
                                 /\ Behind(t, Source(k), k)
      PROVE  Placed(t)'
  <2>1. \A c, k : Behind(t, c, k)' = Behind(t, c, k)
    BY <1>1, <1>7, SameHooks DEF Behind, Rank, hooks, w
  <2>2. (\E c \in Code : Inside(t, c)') \/ (\E k \in Hooks : Detoured(t, k)')
    BY <1>1, <1>7, <2>1, SameHooks DEF Inside, Detoured, f, q
  <2>3. \A x \in ToSet(passed'[t]) : Settled(x)'
    BY <1>1, <1>3, <1>7, SameHooks
  <2> QED BY <1>3, <1>7, <2>2, <2>3 DEF Placed
\* From the entry of a function, or of the callback of a hook that swapped a pointer.
<1>8. ASSUME NEW c \in Code, Known(c), Fn(c) = f, p = Entry(c), Above(t, c) PROVE Placed(t)'
  <2>1. passed'[t] = w /\ q = patch[c]
    BY <1>4, <1>5, <1>8, PlaceKinds
  <2>2. \A k : Behind(t, c, k)
    BY <1>8 DEF Above, Behind
  <2>3. CASE q = Body(c)
    BY <1>7, <1>8, <2>1, <2>2, <2>3
  <2>4. CASE \E k \in Patched(c) : q = Entry(Callback(k))
    <3>1. PICK k \in Patched(c) : q = Entry(Callback(k))
      BY <2>4
    <3>2. k \in Hooks /\ Detouring(k) /\ Source(k) = c /\ Fn(Callback(k)) = f
      BY <1>8, PatchedOf
    <3> QED BY <1>7, <2>1, <2>2, <3>1, <3>2
  <2> QED BY <2>1, <2>3, <2>4 DEF AllLead, FunctionsLead
\* The function itself.
<1>9. ASSUME NEW c \in Code, Known(c), Fn(c) = f, p = Body(c), Behind(t, c, 0), c \notin Callbacks
      PROVE  Placed(t)'
  <2>1. p.at = "body" /\ p.code = c
    BY <1>9, PlaceKinds
  <2>2. q = Done(c) /\ c = f /\ passed'[t] = Append(w, c)
    BY <1>4, <1>5, <1>9, <2>1 DEF Fn
  <2>3. c \notin ToSet(w)
    BY <1>3, <1>9 DEF Settled
  <2>4. passed'[t] \in Seq(Code) /\ IsInjective(passed'[t])
    BY <1>3, <2>2, <2>3, PassedMore
  <2> QED BY <1>1, <2>2, <2>4 DEF Placed, q, f
\* The callback of a hook that swapped a pointer.
<1>10. ASSUME NEW c \in Code, Known(c), Fn(c) = f, p = Body(c), Behind(t, c, 0), c \in Callbacks
       PROVE  Placed(t)'
  <2>1. p.at = "body" /\ p.code = c
    BY <1>10, PlaceKinds
  <2>2. /\ setup[c.hook].type # "VFuncDetour" /\ Group(c) = c
        /\ LeadingBelow(q, f, Rank(c))
    BY <1>5, <1>10, <2>1, KnownOriginal
  <2>3. PICK d \in Code : q = Entry(d) /\ Known(d) /\ Fn(d) = f /\ Rank(d) < Rank(c)
    BY <2>2 DEF LeadingBelow
  <2>4. \A x \in ToSet(w) : \/ Rank(c) < Rank(Group(x))
                            \/ setup[x.hook].type = "VFuncDetour" /\ Source(x.hook) = c
    BY <1>10 DEF Behind, w
  <2>5. c \notin ToSet(w)
    BY <2>2, <2>4, RankOf
  <2>6. \A x \in ToSet(w) \cup {c} : Rank(d) < Rank(Group(x))
    <3>1. ASSUME NEW x \in ToSet(w), setup[x.hook].type = "VFuncDetour" /\ Source(x.hook) = c
          PROVE  Rank(d) < Rank(Group(x))
      BY <2>3, <3>1 DEF Group
    <3>2. ASSUME NEW x \in ToSet(w), Rank(c) < Rank(Group(x)) PROVE Rank(d) < Rank(Group(x))
      BY <2>3, <3>2, RankOf
    <3> QED BY <2>2, <2>3, <2>4, <3>1, <3>2
  <2>7. /\ passed'[t] \in Seq(Code) /\ IsInjective(passed'[t])
        /\ ToSet(passed'[t]) = ToSet(w) \cup {c}
    BY <1>3, <1>4, <2>1, <2>5, PassedMore
  <2>8. Above(t, d)'
    BY <1>1, <2>6, <2>7, SameHooks DEF Above, Rank, hooks
  <2>9. Inside(t, d)'
    BY <1>1, <2>3, <2>8, SameHooks DEF Inside, q, f
  <2>10. \A x \in ToSet(passed'[t]) : Settled(x)'
    BY <1>1, <1>3, <1>10, <2>2, <2>7, SameHooks DEF Settled
  <2> QED BY <2>7, <2>9, <2>10 DEF Placed
\* The callback of a detour, which is no function that is detoured itself.
<1>11. ASSUME NEW k \in Hooks, Detouring(k), Fn(Callback(k)) = f,
              p = Entry(Callback(k)), Behind(t, Source(k), k)
       PROVE  Placed(t)'
  <2>1. passed'[t] = w /\ q = patch[Callback(k)]
    BY <1>4, <1>5, <1>11, PlaceKinds
  <2>2. q = Body(Callback(k))
    BY <1>11, <2>1, DetourOf DEF AllLead, FunctionsLead
  <2> QED BY <1>7, <1>11, <2>1, <2>2
<1>12. ASSUME NEW k \in Hooks, Detouring(k), Fn(Callback(k)) = f,
              p = Body(Callback(k)), Behind(t, Source(k), k)
       PROVE  Placed(t)'
  <2> DEFINE c == Callback(k)
  <2>1. p.at = "body" /\ p.code = c /\ c.hook = k /\ ~c.extra
    BY <1>12, PlaceKinds
  <2>2. c \in Callbacks /\ c \in Code /\ Group(c) = Source(k)
    BY <1>12, DetourOf
  <2>3. q = Trampoline(k) /\ passed'[t] = Append(w, c)
    BY <1>4, <1>5, <1>12, <2>1, <2>2 DEF AllLead, DetoursLead
  <2>4. \A x \in ToSet(w) :
          \/ Rank(Source(k)) < Rank(Group(x))
          \/ setup[x.hook].type = "VFuncDetour" /\ Source(x.hook) = Source(k) /\ k < x.hook
    BY <1>12 DEF Behind, w
  <2> HIDE DEF c
  <2>5. c \notin ToSet(w)
    BY <2>1, <2>2, <2>4, RankOf, SwapAssumption
  <2>6. \A x \in ToSet(w) \cup {c} :
          \/ Rank(Source(k)) < Rank(Group(x))
          \/ setup[x.hook].type = "VFuncDetour" /\ Source(x.hook) = Source(k) /\ k - 1 < x.hook
    <3>1. setup[k].type = "VFuncDetour" /\ k - 1 < k /\ \A n \in Nat : k < n => k - 1 < n
      BY <1>12, SwapAssumption DEF Detouring
    <3>2. \A x \in ToSet(w) : x.hook \in Nat
      BY <1>3, SwapAssumption DEF Settled, Callbacks, Callback, Extra
    <3> QED BY <2>1, <2>4, <3>1, <3>2
  <2>7. /\ passed'[t] \in Seq(Code) /\ IsInjective(passed'[t])
        /\ ToSet(passed'[t]) = ToSet(w) \cup {c}
    BY <1>3, <2>2, <2>3, <2>5, PassedMore
  <2>8. Behind(t, Source(k), k - 1)'
    BY <1>1, <2>6, <2>7, SameHooks DEF Behind, Rank, hooks
  <2>9. Detoured(t, k)'
    BY <1>1, <1>12, <2>3, <2>8, SameHooks DEF Detoured, q, f
  <2>10. \A x \in ToSet(passed'[t]) : Settled(x)'
    <3>1. Settled(c)
      BY <1>12, <2>1, <2>2 DEF Settled, Detouring
    <3> QED BY <1>1, <1>3, <2>7, <3>1, SameHooks
  <2> QED BY <2>7, <2>9, <2>10 DEF Placed
\* Its trampoline, which leads to an older detour of the function or to the function.
<1>13. ASSUME NEW k \in Hooks, Detouring(k), Fn(Callback(k)) = f,
              p = Trampoline(k), Behind(t, Source(k), k - 1)
       PROVE  Placed(t)'
  <2> DEFINE c == Source(k)
  <2>1. passed'[t] = w /\ q = trampoline[k]
    BY <1>4, <1>5, <1>13, PlaceKinds
  <2>2. c \in Code /\ Known(c) /\ Fn(c) = f
    BY <1>13, DetourOf
  <2>3. \A x \in ToSet(w) : \/ Rank(c) < Rank(Group(x))
                            \/ /\ setup[x.hook].type = "VFuncDetour" /\ Source(x.hook) = c
                               /\ k - 1 < x.hook
    BY <1>13 DEF Behind, w
  <2>4. q = Body(c) \/ \E j \in Patched(c) : j < k /\ q = Entry(Callback(j))
    BY <1>13, <2>1 DEF AllLead, DetoursLead
  <2> HIDE DEF c
  <2>5. \A x \in ToSet(w) : x.hook \in Nat /\ x.hook > 0
    BY <1>3, SwapAssumption DEF Settled, Callbacks, Callback, Extra
  <2>6. CASE q = Body(c)
    <3>1. Behind(t, c, 0)
      BY <2>3, <2>5 DEF Behind, w
    <3> QED BY <1>7, <2>1, <2>2, <2>6, <3>1
  <2>7. CASE \E j \in Patched(c) : j < k /\ q = Entry(Callback(j))
    <3>1. PICK j \in Patched(c) : j < k /\ q = Entry(Callback(j))
      BY <2>7
    <3>2. j \in Hooks /\ Detouring(j) /\ Source(j) = c /\ Fn(Callback(j)) = f
      BY <2>2, PatchedOf
    <3>3. j \in Nat /\ k \in Nat
      BY <3>2, SwapAssumption
    <3>4. Behind(t, c, j)
      BY <2>3, <2>5, <3>1, <3>3 DEF Behind, w
    <3> QED BY <1>7, <2>1, <3>1, <3>2, <3>4
  <2> QED BY <2>4, <2>6, <2>7
<1>14. ASSUME NEW c \in Code, Inside(t, c) PROVE Placed(t)'
  BY <1>8, <1>9, <1>10, <1>14 DEF Inside, p, f
<1>15. ASSUME NEW k \in Hooks, Detoured(t, k) PROVE Placed(t)'
  BY <1>11, <1>12, <1>13, <1>15 DEF Detoured, p, f
<1> QED BY <1>6, <1>14, <1>15
(***************************************************************************)
(* The theorems.                                                           *)
(***************************************************************************)
CallInv == SwapInv /\ setup \in Setups /\ AllLead /\ CallShape /\ CallsOK

LEMMA InitCallInv == Init => CallInv
<1> SUFFICES ASSUME Init PROVE CallInv
  OBVIOUS
<1>1. SwapInv /\ AllLead
  BY InitSwapInv, InitLeads
<1>2. setup \in Setups /\ CallShape
  BY DEF Init, CallShape
<1>3. \A t \in Threads : ip[t] = Out /\ passed[t] = <<>>
  BY DEF Init
<1>4. CallsOK
  BY <1>3 DEF CallsOK, Placed, Entering
<1> QED BY <1>1, <1>2, <1>4 DEF CallInv

LEMMA SameLeads ==
  ASSUME AllLead, UNCHANGED <<memory, hooks>> PROVE AllLead'
<1> USE DEF memory, hooks
<1>1. \A c : (Known(c)' <=> Known(c)) /\ Fn(c)' = Fn(c)
  BY SameHooks
<1>2. \A p, f : (Leading(p, f)' <=> Leading(p, f))
                /\ \A h : LeadingBelow(p, f, h)' <=> LeadingBelow(p, f, h)
  BY <1>1 DEF Leading, LeadingBelow
<1>3. /\ \A h, d : At(h, d)' <=> At(h, d)
      /\ \A o : Pointed(o)' = Pointed(o) /\ Patched(o)' = Patched(o)
      /\ \A x, i, c : Held(x, i, c)' <=> Held(x, i, c)
  BY DEF At, Pointed, Patched, Held
<1>4. MembersLead' /\ SavedFirst'
  BY <1>1, <1>2, <1>3 DEF AllLead, MembersLead, SavedFirst
<1>5. VtablesOlder' /\ ObjectsLive'
  BY <1>3, SameHooks DEF AllLead, VtablesOlder, ObjectsLive
<1>6. TablesLead' /\ SwappedLead'
  BY <1>2, <1>3, SameHooks DEF AllLead, TablesLead, SwappedLead
<1>7. ImportsLead' /\ FunctionsLead' /\ DetoursLead'
  BY <1>1, <1>2, <1>3, SameHooks DEF AllLead, ImportsLead, FunctionsLead, DetoursLead
<1> QED BY <1>4, <1>5, <1>6, <1>7 DEF AllLead

LEMMA CallInvStep ==
  ASSUME CallInv, [Next]_vars PROVE CallInv'
<1> USE DEF CallInv
<1>1. SwapInv'
  BY SwapInvStep
<1>2. ASSUME NEW h \in Hooks, HookStep(h) PROVE CallInv'
  <2>1. AllLead' /\ setup' = setup
    BY <1>2, LeadsStep, KnownStep
  <2>2. CallShape'
    <3>1. DOMAIN exposed' = Threads
      BY <1>2 DEF HookStep, SaveVFunc, WriteVFunc, UnHookVFunc, HookDetour, RestoreCode, FreeTrampoline,
         CopyTable, SwapTable, DivertEntry, DivertMore, ReturnMore, RestoreClass, FreeNewVtable,
         FindImport, SaveImport, WriteImport, UnHookImport, Expose, CallShape
    <3>2. ip' = ip /\ site' = site /\ passed' = passed
      BY <1>2 DEF HookStep, SaveVFunc, WriteVFunc, UnHookVFunc, HookDetour, RestoreCode, FreeTrampoline,
         CopyTable, SwapTable, DivertEntry, DivertMore, ReturnMore, RestoreClass, FreeNewVtable,
         FindImport, SaveImport, WriteImport, UnHookImport, Watch
    <3> QED BY <3>1, <3>2 DEF CallShape
  <2>3. CallsOK'
    BY <1>2, ExposedStep, PlacedStep DEF CallsOK
  <2> QED BY <1>1, <2>1, <2>2, <2>3
<1>3. ASSUME NEW t \in Threads, CallStep(t) PROVE CallInv'
  <2>1. UNCHANGED <<memory, hooks>>
    BY <1>3 DEF CallStep, Call, LoadEntry, Run, Return
  <2>2. AllLead' /\ setup' = setup
    BY <2>1, SameLeads DEF hooks
  <2>3. CallShape'
    BY <1>3 DEF CallStep, Call, LoadEntry, Run, Return, CallShape
  <2>4. \A u \in Threads \ {t} : /\ ip'[u] = ip[u] /\ site'[u] = site[u] /\ passed'[u] = passed[u]
                                 /\ exposed'[u] = exposed[u]
    BY <1>3 DEF CallStep, Call, LoadEntry, Run, Return, CallShape
  <2>5. \A u \in Threads \ {t} : exposed'[u] \/ Placed(u)'
    BY <2>1, <2>4, OthersPlaced DEF CallsOK
  <2>6. exposed'[t] \/ Placed(t)'
    <3>1. CASE Call(t) \/ LoadEntry(t)
      <4>1. exposed' = exposed
        BY <3>1 DEF Call, LoadEntry
      <4> QED BY <3>1, <4>1, CallPlaced, LoadPlaced DEF CallsOK
    <3>2. CASE Run(t)
      <4>1. exposed'[t] <=> exposed[t] \/ NotYet(ip[t])
        BY <3>2 DEF Run, CallShape
      <4> QED BY <3>2, <4>1, RunPlaced DEF CallsOK
    <3>3. CASE Return(t)
      <4>1. ip'[t] = Out /\ passed'[t] = <<>>
        BY <3>3 DEF Return, CallShape
      <4> QED BY <4>1 DEF Placed, Entering
    <3> QED BY <1>3, <3>1, <3>2, <3>3 DEF CallStep
  <2> QED BY <1>1, <2>2, <2>3, <2>5, <2>6 DEF CallsOK
<1>4. CASE UNCHANGED vars
  <2>1. UNCHANGED <<memory, hooks>> /\ ip' = ip /\ site' = site /\ passed' = passed
        /\ exposed' = exposed
    BY <1>4 DEF vars, calls
  <2>2. AllLead' /\ setup' = setup
    BY <2>1, SameLeads DEF hooks
  <2>3. CallShape' /\ CallsOK'
    BY <2>1, OthersPlaced DEF CallShape, CallsOK
  <2> QED BY <1>1, <2>2, <2>3
<1> QED BY <1>2, <1>3, <1>4 DEF Next

LEMMA CallInvAlways == Spec => []CallInv
BY InitCallInv, CallInvStep, PTL DEF Spec

\* However hooks of all kinds come and go, write by write: a thread that calls never
\* follows a pointer that was freed or never written, unless it was in what is freed.
THEOREM CallsNeverWild == Spec => []NeverWild
<1>1. CallInv => NeverWild
  BY PlacedAt DEF CallInv, CallsOK, NeverWild
<1> QED BY <1>1, CallInvAlways, PTL

\* However hooks of all kinds come and go: a call ends in the function it was made for.
THEOREM CallsRightFunction == Spec => []RightFunction
<1>1. CallInv => RightFunction
  BY PlacedAt, PlaceKinds DEF CallInv, CallsOK, RightFunction
<1> QED BY <1>1, CallInvAlways, PTL

\* However hooks of all kinds come and go: a call passes no callback twice.
THEOREM CallsPassOnce == Spec => []PassedOnce
<1>1. CallInv => PassedOnce
  BY DEF CallInv, CallsOK, PassedOnce, Placed, IsInjective
<1> QED BY <1>1, CallInvAlways, PTL

-----------------------------------------------------------------------------
(***************************************************************************)
(* The callbacks a call is to pass.                                        *)
(***************************************************************************)
\* A set of numbers has a least element.
LEMMA Smaller ==
  ASSUME NEW m \in Nat, NEW n \in Nat, m < n
  PROVE  <<m, n>> \in OpToRel(<, Nat)
BY DEF OpToRel

LEMMA LeastOne ==
  ASSUME NEW S, S \subseteq Nat, S # {}
  PROVE  \E n \in S : \A m \in S : n <= m
<1>1. PICK n \in S : \A m \in S : ~ (<<m, n>> \in OpToRel(<, Nat))
  BY NatLessThanWellFounded, WFMin
<1>2. \A m \in S : ~ (m < n)
  BY <1>1, Smaller
<1> QED BY <1>2

\* The places Way goes through, one after the other.
Begun(p) == [at |-> p, seen |-> <<>>]
Further(w, m) ==
  [at |-> Leads(w.at, m),
   seen |-> IF w.at.at = "body" THEN Append(w.seen, w.at.code) ELSE w.seen]
Going(g, p, m, n) == g = [i \in 0 .. n |-> IF i = 0 THEN Begun(p) ELSE Further(g[i - 1], m)]

LEMMA WayGoes ==
  ASSUME NEW m, NEW p, NEW N \in Nat
  PROVE  \E g : Going(g, p, m, N)
<1> DEFINE Bad == {n \in Nat : ~ \E g : Going(g, p, m, n)}
<1> SUFFICES ASSUME Bad # {} PROVE FALSE
  BY DEF Going
<1>1. PICK n \in Bad : \A k \in Bad : n <= k
  <2>1. Bad \subseteq Nat
    OBVIOUS
  <2> HIDE DEF Bad
  <2> QED BY <2>1, LeastOne
<1>2. CASE n = 0
  <2> DEFINE g == [i \in 0 .. 0 |-> Begun(p)]
  <2>1. Going(g, p, m, 0)
    BY DEF Going
  <2> QED BY <1>1, <1>2, <2>1
<1>3. CASE n # 0
  <2>1. n \in Nat /\ n - 1 \in Nat /\ ~ (n <= n - 1)
    BY <1>1, <1>3
  <2>2. PICK g : Going(g, p, m, n - 1)
    BY <1>1, <2>1
  <2> DEFINE f == [i \in 0 .. n |-> IF i = n THEN Further(g[n - 1], m) ELSE g[i]]
  <2>3. \A i \in 0 .. n : f[i] = IF i = 0 THEN Begun(p) ELSE Further(f[i - 1], m)
    <3>1. TAKE i \in 0 .. n
    <3>2. CASE i = n
      <4>1. f[n - 1] = g[n - 1] /\ f[n] = Further(g[n - 1], m)
        BY <2>1
      <4> QED BY <1>3, <3>2, <4>1
    <3>3. CASE i # n
      <4>1. i \in 0 .. n - 1 /\ f[i] = g[i] /\ (i # 0 => f[i - 1] = g[i - 1])
        BY <2>1, <3>1, <3>3
      <4> QED BY <2>2, <4>1 DEF Going
    <3> QED BY <3>2, <3>3
  <2>4. Going(f, p, m, n)
    <3>1. f = [i \in 0 .. n |-> f[i]]
      OBVIOUS
    <3> HIDE DEF f
    <3> QED BY <2>3, <3>1 DEF Going
  <2> QED BY <1>1, <2>4
<1> QED BY <1>2, <1>3

LEMMA WayEnds ==
  ASSUME NEW m, NEW p, MaxWay \in Nat
  PROVE  \E g : /\ Going(g, p, m, MaxWay)
                /\ Way(p, m) = IF g[MaxWay].at.at = "done" THEN g[MaxWay].seen
                               ELSE Append(g[MaxWay].seen, Wild)
<1> DEFINE g == CHOOSE g : Going(g, p, m, MaxWay)
<1>1. Going(g, p, m, MaxWay)
  BY WayGoes
<1>2. Way(p, m) = IF g[MaxWay].at.at = "done" THEN g[MaxWay].seen
                  ELSE Append(g[MaxWay].seen, Wild)
  BY DEF Way, Going, Begun, Further
<1> HIDE DEF g
<1> QED BY <1>1, <1>2

\* A place on the way to a function: a piece of code that is known, a detour, or the end.
Toward(p, f) ==
  \/ \E c \in Code : Known(c) /\ Fn(c) = f /\ p \in {Entry(c), Body(c)}
  \/ \E k \in Hooks : /\ Detouring(k) /\ Fn(Callback(k)) = f
                      /\ p \in {Entry(Callback(k)), Body(Callback(k)), Trampoline(k)}
  \/ p = Done(f)

\* The hooks a call may still meet, when it comes to a piece of code, when it is in it, and
\* when it comes to a detour.  A detour counts for the code it is of.
Grouped(g)    == IF Detouring(g) THEN Rank(Source(g)) ELSE g
UpTo(c)       == {g \in Hooks : Grouped(g) <= Rank(c)}
Under(c)      == {g \in Hooks : Grouped(g) < Rank(c) \/ g = Rank(c)}
UpToDetour(k) == Under(Source(k)) \cup
                 {g \in Hooks : Detouring(g) /\ Source(g) = Source(k) /\ g <= k}

\* A bound on the steps to the end.
StepsLeft(p) ==
  IF p.at = "done" THEN 0
  ELSE IF p.code \in Callbacks /\ setup[p.code.hook].type = "VFuncDetour"
  THEN 3 * Cardinality(UpToDetour(p.code.hook))
       + (IF p.at = "entry" THEN 2 ELSE IF p.at = "body" THEN 1 ELSE 0)
  ELSE IF p.at = "entry" THEN 3 * Cardinality(UpTo(p.code)) + 3
  ELSE 3 * Cardinality(Under(p.code)) + 1

LEMMA FewerHooks ==
  ASSUME NEW S \in SUBSET Hooks, NEW T \in SUBSET Hooks, S \subseteq T
  PROVE  /\ Cardinality(S) \in Nat /\ Cardinality(T) \in Nat /\ Cardinality(S) <= Cardinality(T)
         /\ Cardinality(T) <= Cardinality(Hooks) /\ Cardinality(Hooks) \in Nat
         /\ \A x \in T : x \notin S => Cardinality(S) + 1 <= Cardinality(T)
<1>1. IsFiniteSet(Hooks) /\ IsFiniteSet(S) /\ IsFiniteSet(T)
  BY SwapAssumption, FS_Subset
<1>2. /\ Cardinality(S) \in Nat /\ Cardinality(T) \in Nat /\ Cardinality(Hooks) \in Nat
      /\ Cardinality(S) <= Cardinality(T) /\ Cardinality(T) <= Cardinality(Hooks)
      /\ Cardinality(S) = Cardinality(T) => S = T
  BY <1>1, FS_Subset, FS_CardinalityType
<1> QED BY <1>2

LEMMA HooksLess ==
  ASSUME AllLead
  PROVE  /\ \A c \in Code : Known(c) => Under(c) \subseteq UpTo(c)
         /\ \A c, d \in Code : Known(c) /\ Known(d) /\ c \in Callbacks /\ Rank(d) < Rank(c) =>
              UpTo(d) \subseteq Under(c) /\ Rank(c) \in Under(c) /\ Rank(c) \notin UpTo(d)
         /\ \A k \in Hooks : Detouring(k) =>
              /\ Under(Source(k)) \subseteq UpToDetour(k) /\ k \in UpToDetour(k)
              /\ k \notin Under(Source(k))
              /\ \A j \in Hooks : Detouring(j) /\ Source(j) = Source(k) /\ j < k =>
                   UpToDetour(j) \subseteq UpToDetour(k) /\ k \notin UpToDetour(j)
         /\ \A c \in Code : \A k \in Patched(c) : Known(c) => UpToDetour(k) \subseteq UpTo(c)
<1>1. \A g \in Hooks : g \in Nat /\ g > 0 /\ Grouped(g) \in Nat
  BY RankOf, SwapAssumption DEF Grouped
<1>2. \A c : Rank(c) \in Nat
  BY RankOf
<1>3. ASSUME NEW c \in Code, Known(c), NEW g \in Hooks, g = Rank(c)
      PROVE  Grouped(g) = g /\ ~ Detouring(g) /\ c \in Callbacks
  <2>1. c \in Callbacks /\ Rank(c) = c.hook
    BY <1>1, <1>3 DEF Rank
  <2>2. setup[g].type # "VFuncDetour"
    BY <1>3, <2>1, KnownOriginal
  <2> QED BY <2>1, <2>2 DEF Grouped, Detouring
<1>4. ASSUME NEW c \in Code, Known(c) PROVE Under(c) \subseteq UpTo(c)
  <2>1. ASSUME NEW g \in Under(c) PROVE g \in UpTo(c)
    <3>1. g \in Hooks /\ (Grouped(g) < Rank(c) \/ g = Rank(c))
      BY <2>1 DEF Under
    <3>2. Grouped(g) <= Rank(c)
      BY <1>1, <1>2, <1>3, <1>4, <3>1
    <3> QED BY <3>1, <3>2 DEF UpTo
  <2> QED BY <2>1
<1>5. ASSUME NEW c \in Code, NEW d \in Code, Known(c), Known(d), c \in Callbacks, Rank(d) < Rank(c)
      PROVE  UpTo(d) \subseteq Under(c) /\ Rank(c) \in Under(c) /\ Rank(c) \notin UpTo(d)
  <2>1. Rank(c) \in Hooks
    BY <1>5 DEF Rank, Callbacks, Callback, Extra
  <2>2. Rank(c) \in Under(c)
    BY <2>1 DEF Under
  <2>3. Rank(c) \notin UpTo(d)
    <3>1. Grouped(Rank(c)) = Rank(c)
      BY <1>3, <1>5, <2>1
    <3>2. ~ (Rank(c) <= Rank(d))
      BY <1>2, <1>5
    <3> QED BY <3>1, <3>2 DEF UpTo
  <2>4. ASSUME NEW g \in UpTo(d) PROVE g \in Under(c)
    <3>1. g \in Hooks /\ Grouped(g) <= Rank(d)
      BY <2>4 DEF UpTo
    <3>2. Grouped(g) < Rank(c)
      BY <1>1, <1>2, <1>5, <3>1
    <3> QED BY <3>1, <3>2 DEF Under
  <2> QED BY <2>2, <2>3, <2>4
<1>6. ASSUME NEW k \in Hooks, Detouring(k)
      PROVE  /\ Under(Source(k)) \subseteq UpToDetour(k) /\ k \in UpToDetour(k)
             /\ k \notin Under(Source(k))
  <2>1. Source(k) \in Code /\ Known(Source(k))
    BY <1>6, DetourOf
  <2>2. Grouped(k) = Rank(Source(k)) /\ k # Rank(Source(k))
    BY <1>3, <1>6, <2>1 DEF Grouped
  <2>3. ~ (Rank(Source(k)) < Rank(Source(k)))
    BY <1>2
  <2>4. k \notin Under(Source(k))
    BY <2>2, <2>3 DEF Under
  <2>5. k \in UpToDetour(k)
    BY <1>1, <1>6 DEF UpToDetour
  <2> QED BY <2>4, <2>5 DEF UpToDetour
<1>7. ASSUME NEW k \in Hooks, Detouring(k), NEW j \in Hooks, Detouring(j), Source(j) = Source(k), j < k
      PROVE  UpToDetour(j) \subseteq UpToDetour(k) /\ k \notin UpToDetour(j)
  <2>1. \A g \in Hooks : g <= j => g <= k
    BY <1>1, <1>7
  <2>2. ~ (k <= j)
    BY <1>1, <1>7
  <2> QED BY <1>6, <1>7, <2>1, <2>2 DEF UpToDetour
<1>8. ASSUME NEW c \in Code, NEW k \in Patched(c), Known(c) PROVE UpToDetour(k) \subseteq UpTo(c)
  <2>1. Source(k) = c
    BY <1>8, PatchedOf
  <2>2. ASSUME NEW g \in Hooks, Detouring(g), Source(g) = c PROVE g \in UpTo(c)
    BY <1>1, <1>2, <2>2 DEF UpTo, Grouped
  <2> QED BY <1>4, <1>8, <2>1, <2>2 DEF UpToDetour
<1> QED BY <1>4, <1>5, <1>6, <1>7, <1>8

LEMMA UnderSubsets ==
  \A c, k : UpTo(c) \in SUBSET Hooks /\ Under(c) \in SUBSET Hooks /\ UpToDetour(k) \in SUBSET Hooks
BY DEF UpTo, Under, UpToDetour

LEMMA StepsOf ==
  ASSUME AllLead
  PROVE  /\ \A f : StepsLeft(Done(f)) = 0
         /\ \A c \in Code : Known(c) =>
              /\ StepsLeft(Entry(c)) = 3 * Cardinality(UpTo(c)) + 3
              /\ StepsLeft(Body(c)) = 3 * Cardinality(Under(c)) + 1
         /\ \A k \in Hooks : Detouring(k) =>
              /\ StepsLeft(Entry(Callback(k))) = 3 * Cardinality(UpToDetour(k)) + 2
              /\ StepsLeft(Body(Callback(k))) = 3 * Cardinality(UpToDetour(k)) + 1
              /\ StepsLeft(Trampoline(k)) = 3 * Cardinality(UpToDetour(k))
<1>1. \A f : StepsLeft(Done(f)) = 0
  BY PlaceKinds DEF StepsLeft
<1>2. ASSUME NEW c \in Code, Known(c)
      PROVE  /\ StepsLeft(Entry(c)) = 3 * Cardinality(UpTo(c)) + 3
             /\ StepsLeft(Body(c)) = 3 * Cardinality(Under(c)) + 1
  <2>1. ~ (c \in Callbacks /\ setup[c.hook].type = "VFuncDetour")
    BY <1>2, KnownOriginal
  <2> QED BY <2>1, PlaceKinds DEF StepsLeft
<1>3. ASSUME NEW k \in Hooks, Detouring(k)
      PROVE  /\ StepsLeft(Entry(Callback(k))) = 3 * Cardinality(UpToDetour(k)) + 2
             /\ StepsLeft(Body(Callback(k))) = 3 * Cardinality(UpToDetour(k)) + 1
             /\ StepsLeft(Trampoline(k)) = 3 * Cardinality(UpToDetour(k))
  <2>1. Callback(k) \in Callbacks /\ setup[Callback(k).hook].type = "VFuncDetour" /\ Callback(k).hook = k
    BY <1>3, DetourOf, PlaceKinds DEF Detouring
  <2>2. 3 * Cardinality(UpToDetour(k)) + 0 = 3 * Cardinality(UpToDetour(k))
    BY UnderSubsets, FewerHooks
  <2> QED BY <2>1, <2>2, PlaceKinds DEF StepsLeft
<1> QED BY <1>1, <1>2, <1>3

\* Where a call goes from a place.
LEMMA PlaceLeads ==
  ASSUME AllLead
  PROVE  /\ \A c \in Code : Known(c) =>
              /\ Leads(Entry(c), Links) = patch[c]
              /\ patch[c] = Body(c) \/ \E k \in Patched(c) : patch[c] = Entry(Callback(k))
              /\ c \in Callbacks => LeadingBelow(Leads(Body(c), Links), Fn(c), Rank(c))
              /\ c \notin Callbacks => Leads(Body(c), Links) = Done(c) /\ Fn(c) = c
         /\ \A k \in Hooks : Detouring(k) =>
              /\ Leads(Entry(Callback(k)), Links) = Body(Callback(k))
              /\ Leads(Body(Callback(k)), Links) = Trampoline(k)
              /\ Leads(Trampoline(k), Links) = trampoline[k]
              /\ \/ trampoline[k] = Body(Source(k))
                 \/ \E j \in Patched(Source(k)) : j < k /\ trampoline[k] = Entry(Callback(j))
         /\ \A f : Leads(Done(f), Links) = Done(f)
<1>1. /\ \A c : Leads(Entry(c), Links) = patch[c]
      /\ \A k : Leads(Trampoline(k), Links) = trampoline[k]
      /\ \A f : Leads(Done(f), Links) = Done(f)
  BY PlaceKinds DEF Leads, Links
<1>2. ASSUME NEW c \in Code, Known(c)
      PROVE  /\ patch[c] = Body(c) \/ \E k \in Patched(c) : patch[c] = Entry(Callback(k))
             /\ c \in Callbacks => LeadingBelow(Leads(Body(c), Links), Fn(c), Rank(c))
             /\ c \notin Callbacks => Leads(Body(c), Links) = Done(c) /\ Fn(c) = c
  <2>1. Leads(Body(c), Links) = IF c \in Callbacks
                                THEN IF c.extra THEN member[c.hook].more ELSE member[c.hook].orig
                                ELSE Done(c)
    BY PlaceKinds DEF Leads, Links
  <2>2. c \in Callbacks => LeadingBelow(IF c.extra THEN member[c.hook].more ELSE member[c.hook].orig,
                                        Fn(c), Rank(c))
    BY <1>2, KnownOriginal
  <2>3. c \notin Callbacks => Fn(c) = c
    BY DEF Fn
  <2> QED BY <2>1, <2>2, <2>3 DEF AllLead, FunctionsLead
<1>3. ASSUME NEW k \in Hooks, Detouring(k)
      PROVE  /\ Leads(Entry(Callback(k)), Links) = Body(Callback(k))
             /\ Leads(Body(Callback(k)), Links) = Trampoline(k)
             /\ \/ trampoline[k] = Body(Source(k))
                \/ \E j \in Patched(Source(k)) : j < k /\ trampoline[k] = Entry(Callback(j))
  <2>1. Callback(k) \in Callbacks /\ Callback(k) \in Code /\ Patched(Callback(k)) = {}
    BY <1>3, DetourOf
  <2>2. patch[Callback(k)] = Body(Callback(k))
    BY <2>1 DEF AllLead, FunctionsLead
  <2>3. Leads(Body(Callback(k)), Links) = member[k].orig
    BY <2>1, PlaceKinds DEF Leads, Links
  <2> QED BY <1>1, <1>3, <2>2, <2>3 DEF AllLead, DetoursLead
<1> QED BY <1>1, <1>2, <1>3

\* It comes closer to the function it is to end in.
LEMMA TowardLeads ==
  ASSUME AllLead, NEW f, NEW p, Toward(p, f), p # Done(f)
  PROVE  /\ Toward(Leads(p, Links), f)
         /\ StepsLeft(Leads(p, Links)) < StepsLeft(p)
         /\ p.at \in {"entry", "body", "trampoline"}
         /\ p.at = "body" => p.code \in Code /\ Fn(p.code) = f /\ p = Body(p.code)
<1>1. CASE \E c \in Code : Known(c) /\ Fn(c) = f /\ p \in {Entry(c), Body(c)}
  <2>1. PICK c \in Code : Known(c) /\ Fn(c) = f /\ p \in {Entry(c), Body(c)}
    BY <1>1
  <2>2. PICK m \in Nat, n \in Nat : m = Cardinality(UpTo(c)) /\ n = Cardinality(Under(c)) /\ n <= m
    BY <2>1, HooksLess, UnderSubsets, FewerHooks
  <2>3. StepsLeft(Entry(c)) = 3 * m + 3 /\ StepsLeft(Body(c)) = 3 * n + 1
    BY <2>1, <2>2, StepsOf
  <2>4. CASE p = Entry(c) /\ patch[c] = Body(c)
    <3>1. Leads(p, Links) = Body(c) /\ p.at = "entry"
      BY <2>1, <2>4, PlaceLeads, PlaceKinds
    <3>2. 3 * n + 1 < 3 * m + 3
      BY <2>2
    <3>3. Toward(Body(c), f)
      BY <2>1 DEF Toward
    <3> QED BY <2>3, <2>4, <3>1, <3>2, <3>3
  <2>5. CASE p = Entry(c) /\ \E k \in Patched(c) : patch[c] = Entry(Callback(k))
    <3>1. PICK k \in Patched(c) : patch[c] = Entry(Callback(k))
      BY <2>5
    <3>2. k \in Hooks /\ Detouring(k) /\ Fn(Callback(k)) = f
      BY <2>1, PatchedOf
    <3>3. Leads(p, Links) = Entry(Callback(k)) /\ p.at = "entry"
      BY <2>1, <2>5, <3>1, PlaceLeads, PlaceKinds
    <3>4. PICK a \in Nat : a = Cardinality(UpToDetour(k)) /\ a <= m
      BY <2>1, <2>2, HooksLess, UnderSubsets, FewerHooks
    <3>5. StepsLeft(Entry(Callback(k))) = 3 * a + 2
      BY <3>2, <3>4, StepsOf
    <3>6. 3 * a + 2 < 3 * m + 3
      BY <2>2, <3>4
    <3>7. Toward(Entry(Callback(k)), f)
      BY <3>2 DEF Toward
    <3> QED BY <2>3, <2>5, <3>3, <3>5, <3>6, <3>7
  <2>6. CASE p = Body(c) /\ c \in Callbacks
    <3>1. PICK d \in Code : Leads(p, Links) = Entry(d) /\ Known(d) /\ Fn(d) = f /\ Rank(d) < Rank(c)
      BY <2>1, <2>6, PlaceLeads DEF LeadingBelow
    <3>2. PICK a \in Nat : a = Cardinality(UpTo(d)) /\ a + 1 <= n
      <4>1. UpTo(d) \subseteq Under(c) /\ Rank(c) \in Under(c) /\ Rank(c) \notin UpTo(d)
        BY <2>1, <2>6, <3>1, HooksLess
      <4> QED BY <2>2, <4>1, UnderSubsets, FewerHooks
    <3>3. StepsLeft(Entry(d)) = 3 * a + 3
      BY <3>1, <3>2, StepsOf
    <3>4. 3 * a + 3 < 3 * n + 1
      BY <2>2, <3>2
    <3>5. Toward(Entry(d), f)
      BY <3>1 DEF Toward
    <3> QED BY <2>1, <2>3, <2>6, <3>1, <3>3, <3>4, <3>5, PlaceKinds
  <2>7. CASE p = Body(c) /\ c \notin Callbacks
    <3>1. Leads(p, Links) = Done(f)
      BY <2>1, <2>7, PlaceLeads
    <3>2. StepsLeft(Done(f)) = 0 /\ 0 < 3 * n + 1
      BY <2>2, StepsOf
    <3> QED BY <2>1, <2>3, <2>7, <3>1, <3>2, PlaceKinds DEF Toward
  <2>8. patch[c] = Body(c) \/ \E k \in Patched(c) : patch[c] = Entry(Callback(k))
    BY <2>1, PlaceLeads
  <2> QED BY <2>1, <2>4, <2>5, <2>6, <2>7, <2>8
<1>2. CASE \E k \in Hooks : /\ Detouring(k) /\ Fn(Callback(k)) = f
                            /\ p \in {Entry(Callback(k)), Body(Callback(k)), Trampoline(k)}
  <2>1. PICK k \in Hooks : /\ Detouring(k) /\ Fn(Callback(k)) = f
                           /\ p \in {Entry(Callback(k)), Body(Callback(k)), Trampoline(k)}
    BY <1>2
  <2>2. PICK n \in Nat : n = Cardinality(UpToDetour(k))
    BY UnderSubsets, FewerHooks
  <2>3. /\ StepsLeft(Entry(Callback(k))) = 3 * n + 2
        /\ StepsLeft(Body(Callback(k))) = 3 * n + 1
        /\ StepsLeft(Trampoline(k)) = 3 * n
    BY <2>1, <2>2, StepsOf
  <2>4. 3 * n + 1 < 3 * n + 2 /\ 3 * n < 3 * n + 1
    BY <2>2
  <2>5. Callback(k) \in Code
    BY <2>1, DetourOf
  <2>6. CASE p = Entry(Callback(k)) \/ p = Body(Callback(k))
    <3>1. Toward(Body(Callback(k)), f) /\ Toward(Trampoline(k), f)
      BY <2>1 DEF Toward
    <3> QED BY <2>1, <2>3, <2>4, <2>5, <2>6, <3>1, PlaceLeads, PlaceKinds
  <2>7. CASE p = Trampoline(k)
    <3> DEFINE c == Source(k)
    <3>1. c \in Code /\ Known(c) /\ Fn(c) = f
      BY <2>1, DetourOf
    <3>2. \/ Leads(p, Links) = Body(c)
          \/ \E j \in Patched(c) : j < k /\ Leads(p, Links) = Entry(Callback(j))
      BY <2>1, <2>7, PlaceLeads
    <3>3. CASE Leads(p, Links) = Body(c)
      <4>1. PICK a \in Nat : a = Cardinality(Under(c)) /\ a + 1 <= n
        <5>1. Under(c) \subseteq UpToDetour(k) /\ k \in UpToDetour(k) /\ k \notin Under(c)
          BY <2>1, HooksLess
        <5> QED BY <2>2, <5>1, UnderSubsets, FewerHooks
      <4>2. StepsLeft(Body(c)) = 3 * a + 1
        BY <3>1, <4>1, StepsOf
      <4>3. 3 * a + 1 < 3 * n
        BY <2>2, <4>1
      <4>4. Toward(Body(c), f)
        BY <3>1 DEF Toward
      <4> QED BY <2>3, <2>7, <3>3, <4>2, <4>3, <4>4, PlaceKinds
    <3>4. CASE \E j \in Patched(c) : j < k /\ Leads(p, Links) = Entry(Callback(j))
      <4>1. PICK j \in Patched(c) : j < k /\ Leads(p, Links) = Entry(Callback(j))
        BY <3>4
      <4>2. j \in Hooks /\ Detouring(j) /\ Source(j) = c /\ Fn(Callback(j)) = f
        BY <3>1, <4>1, PatchedOf
      <4>3. PICK a \in Nat : a = Cardinality(UpToDetour(j)) /\ a + 1 <= n
        <5>1. UpToDetour(j) \subseteq UpToDetour(k) /\ k \in UpToDetour(k) /\ k \notin UpToDetour(j)
          BY <2>1, <4>1, <4>2, HooksLess
        <5> QED BY <2>2, <5>1, UnderSubsets, FewerHooks
      <4>4. StepsLeft(Entry(Callback(j))) = 3 * a + 2
        BY <4>2, <4>3, StepsOf
      <4>5. 3 * a + 2 < 3 * n
        BY <2>2, <4>3
      <4>6. Toward(Entry(Callback(j)), f)
        BY <4>2 DEF Toward
      <4> QED BY <2>3, <2>7, <4>1, <4>4, <4>5, <4>6, PlaceKinds
    <3> QED BY <3>2, <3>3, <3>4
  <2> QED BY <2>1, <2>6, <2>7
<1> QED BY <1>1, <1>2 DEF Toward

LEMMA SeenMore ==
  ASSUME NEW C, NEW s \in Seq(C), NEW c \in C
  PROVE  Append(s, c) \in Seq(C) /\ ToSet(Append(s, c)) = ToSet(s) \cup {c}
<1> DEFINE w == Append(s, c)
<1>1. w \in Seq(C) /\ DOMAIN w = DOMAIN s \cup {Len(s) + 1} /\ w[Len(s) + 1] = c
  OBVIOUS
<1>2. \A i \in DOMAIN s : w[i] = s[i]
  OBVIOUS
<1> HIDE DEF w
<1>3. ToSet(w) = ToSet(s) \cup {c}
  BY <1>1, <1>2 DEF ToSet
<1> QED BY <1>1, <1>3 DEF w

\* What holds at first, and at the next step when at one, holds at all.
LEMMA AllSteps ==
  ASSUME NEW N \in Nat, NEW S, 0 \in S, \A n \in 0 .. N : n \in S /\ n # N => n + 1 \in S
  PROVE  \A n \in 0 .. N : n \in S
<1> DEFINE Bad == {n \in 0 .. N : n \notin S}
<1> SUFFICES ASSUME Bad # {} PROVE FALSE
  OBVIOUS
<1>1. PICK n \in Bad : \A k \in Bad : n <= k
  <2>1. Bad \subseteq Nat
    OBVIOUS
  <2> HIDE DEF Bad
  <2> QED BY <2>1, LeastOne
<1>2. n # 0 /\ n \in 0 .. N
  BY <1>1
<1>3. n - 1 \in 0 .. N /\ n - 1 # N /\ ~ (n <= n - 1) /\ (n - 1) + 1 = n
  BY <1>2
<1>4. n - 1 \in S
  BY <1>1, <1>3
<1> QED BY <1>1, <1>3, <1>4

LEMMA StepsBound ==
  ASSUME AllLead, NEW f, NEW p, Toward(p, f)
  PROVE  MaxWay \in Nat /\ StepsLeft(p) \in Nat /\ StepsLeft(p) <= MaxWay
<1>1. PICK N \in Nat : N = Cardinality(Hooks) /\ MaxWay = 4 * N + 3
  BY UnderSubsets, FewerHooks DEF MaxWay
<1>2. \A S \in SUBSET Hooks : Cardinality(S) \in Nat /\ Cardinality(S) <= N
  BY <1>1, FewerHooks
<1>3. CASE \E c \in Code : Known(c) /\ Fn(c) = f /\ p \in {Entry(c), Body(c)}
  <2>1. PICK c \in Code : Known(c) /\ Fn(c) = f /\ p \in {Entry(c), Body(c)}
    BY <1>3
  <2>2. PICK m \in Nat, n \in Nat : /\ m = Cardinality(UpTo(c)) /\ n = Cardinality(Under(c))
                                    /\ n <= N /\ m <= N
    BY <1>2, UnderSubsets
  <2>3. StepsLeft(p) = 3 * m + 3 \/ StepsLeft(p) = 3 * n + 1
    BY <2>1, <2>2, StepsOf
  <2> QED BY <1>1, <2>2, <2>3
<1>4. CASE \E k \in Hooks : /\ Detouring(k) /\ Fn(Callback(k)) = f
                            /\ p \in {Entry(Callback(k)), Body(Callback(k)), Trampoline(k)}
  <2>1. PICK k \in Hooks : Detouring(k) /\ p \in {Entry(Callback(k)), Body(Callback(k)), Trampoline(k)}
    BY <1>4
  <2>2. PICK n \in Nat : n = Cardinality(UpToDetour(k)) /\ n <= N
    BY <1>2, UnderSubsets
  <2>3. StepsLeft(p) \in {3 * n + 2, 3 * n + 1, 3 * n}
    BY <2>1, <2>2, StepsOf
  <2> QED BY <1>1, <2>2, <2>3
<1>5. CASE p = Done(f)
  BY <1>1, <1>5, StepsOf
<1> QED BY <1>3, <1>4, <1>5 DEF Toward

\* What Way has seen, as far as it has gone.
LEMMA WaySeen ==
  ASSUME AllLead, NEW f, NEW p, Toward(p, f), NEW g, Going(g, p, Links, MaxWay)
  PROVE  \A n \in 0 .. MaxWay :
           /\ Toward(g[n].at, f)
           /\ g[n].at = Done(f) \/ StepsLeft(g[n].at) + n <= StepsLeft(p)
           /\ g[n].seen \in Seq(Code) /\ \A x \in ToSet(g[n].seen) : Toward(Body(x), f)
<1> DEFINE Holds(n) == /\ Toward(g[n].at, f)
                       /\ g[n].at = Done(f) \/ StepsLeft(g[n].at) + n <= StepsLeft(p)
                       /\ g[n].seen \in Seq(Code) /\ \A x \in ToSet(g[n].seen) : Toward(Body(x), f)
           S == {n \in Nat : Holds(n)}
<1>1. MaxWay \in Nat /\ StepsLeft(p) \in Nat
  BY StepsBound
<1>2. g[0] = Begun(p) /\ \A n \in 0 .. MaxWay : n # MaxWay => g[n + 1] = Further(g[n], Links)
  <2>1. \A n \in 0 .. MaxWay : n # MaxWay => n + 1 \in 0 .. MaxWay /\ n + 1 # 0 /\ (n + 1) - 1 = n
    BY <1>1
  <2>2. 0 \in 0 .. MaxWay
    BY <1>1
  <2>3. \A i \in 0 .. MaxWay : g[i] = IF i = 0 THEN Begun(p) ELSE Further(g[i - 1], Links)
    BY DEF Going
  <2> QED BY <2>1, <2>2, <2>3
<1>3. Holds(0)
  <2>1. g[0].at = p /\ g[0].seen = <<>>
    BY <1>2 DEF Begun
  <2>2. StepsLeft(p) + 0 <= StepsLeft(p)
    BY <1>1
  <2> QED BY <2>1, <2>2 DEF ToSet
<1>4. ASSUME NEW n \in 0 .. MaxWay, n # MaxWay, Holds(n) PROVE Holds(n + 1)
  <2>1. PICK w, v : w = g[n] /\ v = g[n + 1]
    OBVIOUS
  <2>2. /\ v.at = Leads(w.at, Links)
        /\ v.seen = IF w.at.at = "body" THEN Append(w.seen, w.at.code) ELSE w.seen
    <3>1. v = Further(w, Links)
      BY ONLY <1>2, n \in 0 .. MaxWay, n # MaxWay, <2>1
    <3> QED BY ONLY <3>1 DEF Further
  <2>3. CASE w.at = Done(f)
    <3>1. v.at = Done(f) /\ v.seen = w.seen
      BY <1>4, <2>2, <2>3, PlaceLeads, PlaceKinds
    <3> QED BY <1>4, <2>1, <2>3, <3>1
  <2>4. CASE w.at # Done(f)
    <3>1. /\ Toward(v.at, f) /\ StepsLeft(v.at) < StepsLeft(w.at)
          /\ w.at.at = "body" => w.at.code \in Code /\ w.at = Body(w.at.code)
      BY <1>4, <2>1, <2>2, <2>4, TowardLeads
    <3>2. PICK a \in Nat, b \in Nat, m \in Nat : /\ a = StepsLeft(v.at) /\ b = StepsLeft(w.at)
                                                /\ m = StepsLeft(p)
      BY <1>4, <2>1, <3>1, StepsBound
    <3>3. b + n <= m /\ a < b
      BY <1>4, <2>1, <2>4, <3>1, <3>2
    <3>4. a + (n + 1) <= m
      BY ONLY <3>2, <3>3, <1>1, n \in 0 .. MaxWay
    <3>5. v.seen \in Seq(Code) /\ \A x \in ToSet(v.seen) : Toward(Body(x), f)
      <4>1. w.seen \in Seq(Code) /\ \A x \in ToSet(w.seen) : Toward(Body(x), f)
        BY <1>4, <2>1
      <4>2. CASE w.at.at = "body"
        <5>1. PICK s \in Seq(Code), c \in Code : s = w.seen /\ c = w.at.code /\ v.seen = Append(s, c)
          BY <2>2, <3>1, <4>1, <4>2
        <5>2. Append(s, c) \in Seq(Code) /\ ToSet(Append(s, c)) = ToSet(s) \cup {c}
          BY SeenMore
        <5>3. Toward(Body(c), f)
          BY <1>4, <2>1, <3>1, <4>2, <5>1
        <5> QED BY <4>1, <5>1, <5>2, <5>3
      <4>3. CASE w.at.at # "body"
        BY <2>2, <4>1, <4>3
      <4> QED BY <4>2, <4>3
    <3> QED BY <2>1, <3>1, <3>2, <3>4, <3>5
  <2> QED BY <2>3, <2>4
<1> HIDE DEF Holds
<1>5. 0 \in S
  BY <1>3
<1>6. \A n \in 0 .. MaxWay : n \in S /\ n # MaxWay => n + 1 \in S
  BY <1>1, <1>4
<1> HIDE DEF S
<1>7. \A n \in 0 .. MaxWay : n \in S
  BY <1>1, <1>5, <1>6, AllSteps
<1> QED BY <1>7 DEF S, Holds

LEMMA StepsOfWay ==
  ASSUME NEW p, NEW m, NEW N \in Nat, NEW g, Going(g, p, m, N)
  PROVE  g[0] = Begun(p) /\ \A n \in 0 .. N : n # N => g[n + 1] = Further(g[n], m)
<1>1. \A n \in 0 .. N : n # N => n + 1 \in 0 .. N /\ n + 1 # 0 /\ (n + 1) - 1 = n
  OBVIOUS
<1>2. 0 \in 0 .. N
  OBVIOUS
<1>3. \A i \in 0 .. N : g[i] = IF i = 0 THEN Begun(p) ELSE Further(g[i - 1], m)
  BY DEF Going
<1> QED BY <1>1, <1>2, <1>3

LEMMA JoinOf ==
  ASSUME NEW C, NEW q \in Seq(C), NEW s \in Seq(C), NEW w, w = q \o s
  PROVE  /\ w \in Seq(C) /\ Len(w) = Len(q) + Len(s)
         /\ \A i \in 1 .. Len(q) : w[i] = q[i]
         /\ \A i \in Len(q) + 1 .. Len(q) + Len(s) : w[i] = s[i - Len(q)]
<1>1. w \in Seq(C) /\ Len(w) = Len(q) + Len(s)
  OBVIOUS
<1>2. \A i \in 1 .. Len(q) : w[i] = q[i]
  OBVIOUS
<1>3. \A i \in Len(q) + 1 .. Len(q) + Len(s) : w[i] = s[i - Len(q)]
  OBVIOUS
<1> QED BY <1>1, <1>2, <1>3

LEMMA JoinAppended ==
  ASSUME NEW C, NEW q \in Seq(C), NEW s \in Seq(C), NEW c \in C
  PROVE  Append(q \o s, c) = q \o Append(s, c)
OBVIOUS

LEMMA JoinSet ==
  ASSUME NEW C, NEW q \in Seq(C), NEW s \in Seq(C)
  PROVE  ToSet(q \o s) = ToSet(q) \cup ToSet(s)
<1>1. PICK w : w = q \o s
  OBVIOUS
<1>2. /\ w \in Seq(C) /\ Len(w) = Len(q) + Len(s)
      /\ \A i \in 1 .. Len(q) : w[i] = q[i]
      /\ \A i \in Len(q) + 1 .. Len(q) + Len(s) : w[i] = s[i - Len(q)]
  BY <1>1, JoinOf
<1>3. \A i \in DOMAIN q : i \in DOMAIN w /\ w[i] = q[i]
  BY <1>2
<1>4. \A i \in DOMAIN s : i + Len(q) \in DOMAIN w /\ w[i + Len(q)] = s[i]
  <2> SUFFICES ASSUME NEW i \in DOMAIN s PROVE i + Len(q) \in DOMAIN w /\ w[i + Len(q)] = s[i]
    OBVIOUS
  <2>1. PICK n, j : n = Len(q) /\ j = i + n
    OBVIOUS
  <2>2. j \in n + 1 .. n + Len(s) /\ j - n = i /\ j \in 1 .. Len(w)
    BY <1>2, <2>1
  <2>3. w[j] = s[j - n]
    BY <1>2, <2>1, <2>2
  <2> QED BY <1>2, <2>1, <2>2, <2>3
<1>5. \A i \in DOMAIN w : i \in DOMAIN q \/ (i - Len(q) \in DOMAIN s /\ w[i] = s[i - Len(q)])
  <2>1. PICK n \in Nat, m \in Nat : n = Len(q) /\ m = Len(s) /\ DOMAIN q = 1 .. n /\ DOMAIN s = 1 .. m
    OBVIOUS
  <2>2. DOMAIN w = 1 .. n + m /\ \A i \in n + 1 .. n + m : w[i] = s[i - n]
    BY <1>2, <2>1
  <2>3. \A i \in 1 .. n + m : i \in 1 .. n \/ (i \in n + 1 .. n + m /\ i - n \in 1 .. m)
    OBVIOUS
  <2> QED BY ONLY <2>1, <2>2, <2>3
<1>6. ToSet(w) \subseteq ToSet(q) \cup ToSet(s)
  BY <1>3, <1>5 DEF ToSet
<1>7. ToSet(q) \subseteq ToSet(w) /\ ToSet(s) \subseteq ToSet(w)
  BY <1>3, <1>4 DEF ToSet
<1> QED BY <1>1, <1>6, <1>7

\* The way from a place is the place, and the way from the next one.
LEMMA WayAlong ==
  ASSUME AllLead, NEW f, NEW p, Toward(p, f), p # Done(f), NEW q, q = Leads(p, Links),
         NEW g, Going(g, p, Links, MaxWay), NEW h, Going(h, q, Links, MaxWay)
  PROVE  /\ g[MaxWay].at = Done(f) /\ h[MaxWay].at = Done(f)
         /\ g[MaxWay].seen = (IF p.at = "body" THEN <<p.code>> ELSE <<>>) \o h[MaxWay].seen
<1>1. /\ Toward(q, f) /\ StepsLeft(q) < StepsLeft(p)
      /\ p.at = "body" => p.code \in Code /\ Fn(p.code) = f
  BY TowardLeads
<1>2. PICK M \in Nat, a \in Nat, b \in Nat : /\ M = MaxWay /\ a = StepsLeft(q) /\ b = StepsLeft(p)
                                             /\ a < b /\ b <= M
  BY <1>1, StepsBound
<1>3. PICK N \in Nat : N + 1 = M /\ a <= N
  <2>1. M - 1 \in Nat /\ (M - 1) + 1 = M /\ a <= M - 1
    BY <1>2
  <2> QED BY <2>1
<1>4. /\ g[0] = Begun(p) /\ \A n \in 0 .. N : g[n + 1] = Further(g[n], Links)
      /\ h[0] = Begun(q) /\ \A n \in 0 .. N : h[n + 1] = Further(h[n], Links)
  <2>1. \A n \in 0 .. N : n \in 0 .. M /\ n # M
    BY <1>3
  <2>2. M = MaxWay /\ M \in Nat /\ Going(g, p, Links, M) /\ Going(h, q, Links, M)
    BY <1>2
  <2>3. g[0] = Begun(p) /\ \A n \in 0 .. M : n # M => g[n + 1] = Further(g[n], Links)
    BY ONLY <2>2, StepsOfWay
  <2>4. h[0] = Begun(q) /\ \A n \in 0 .. M : n # M => h[n + 1] = Further(h[n], Links)
    BY ONLY <2>2, StepsOfWay
  <2> QED BY ONLY <2>1, <2>3, <2>4
<1>5. /\ \A n \in 0 .. N : Toward(h[n].at, f) /\ h[n].seen \in Seq(Code) /\ g[n + 1].seen \in Seq(Code)
      /\ h[N].at = Done(f) \/ StepsLeft(h[N].at) + N <= StepsLeft(q)
  <2>1. \A n \in 0 .. N : n \in 0 .. M /\ n + 1 \in 0 .. M
    BY <1>3
  <2>2. N \in 0 .. N
    OBVIOUS
  <2> QED BY <1>1, <1>2, <2>1, <2>2, WaySeen
<1> DEFINE B == IF p.at = "body" THEN <<p.code>> ELSE <<>>
           Same(n) == g[n + 1].at = h[n].at /\ g[n + 1].seen = B \o h[n].seen
           S == {n \in Nat : Same(n)}
<1>6. Same(0)
  <2>1. PICK w : w = g[1]
    OBVIOUS
  <2>2. w = Further(Begun(p), Links)
    <3>1. 0 \in 0 .. N /\ 0 + 1 = 1
      BY <1>3
    <3>2. g[0] = Begun(p) /\ g[0 + 1] = Further(g[0], Links)
      BY ONLY <1>4, <3>1
    <3> QED BY <2>1, <3>1, <3>2
  <2>3. w.at = q /\ w.seen = IF p.at = "body" THEN Append(<<>>, p.code) ELSE <<>>
    BY <2>2 DEF Further, Begun
  <2>4. h[0].at = q /\ h[0].seen = <<>>
    BY <1>4 DEF Begun
  <2>5. B \in Seq(Code) /\ B = (IF p.at = "body" THEN Append(<<>>, p.code) ELSE <<>>)
    BY <1>1
  <2> HIDE DEF B
  <2>6. B \o <<>> = B
    BY <2>5
  <2> QED BY <2>1, <2>3, <2>4, <2>5, <2>6
<1>12. B \in Seq(Code)
  BY <1>1
<1> HIDE DEF B
<1>7. ASSUME NEW n \in 0 .. N, n # N, Same(n) PROVE Same(n + 1)
  <2>1. n + 1 \in 0 .. N /\ n \in 0 .. N
    BY <1>7
  <2>2. PICK w, v, x, y : w = g[n + 1] /\ v = h[n] /\ x = g[(n + 1) + 1] /\ y = h[n + 1]
    OBVIOUS
  <2>3. x = Further(w, Links) /\ y = Further(v, Links)
    BY ONLY <1>4, <2>1, <2>2
  <2>4. /\ x.at = Leads(w.at, Links) /\ y.at = Leads(v.at, Links)
        /\ x.seen = IF w.at.at = "body" THEN Append(w.seen, w.at.code) ELSE w.seen
        /\ y.seen = IF v.at.at = "body" THEN Append(v.seen, v.at.code) ELSE v.seen
    BY ONLY <2>3 DEF Further
  <2>5. w.at = v.at /\ w.seen = B \o v.seen /\ Toward(v.at, f)
        /\ v.seen \in Seq(Code) /\ w.seen \in Seq(Code)
    BY <1>5, <1>7, <2>1, <2>2
  <2>6. CASE v.at.at = "body"
    <3>1. v.at # Done(f)
      BY <2>6, PlaceKinds
    <3>2. v.at.code \in Code
      BY <2>5, <2>6, <3>1, TowardLeads
    <3>3. Append(B \o v.seen, v.at.code) = B \o Append(v.seen, v.at.code)
      <4>1. PICK u \in Seq(Code), c \in Code : u = v.seen /\ c = v.at.code
        BY <2>5, <3>2
      <4>2. PICK bs : bs = B /\ bs \in Seq(Code)
        BY <1>12, Zenon
      <4>3. Append(bs \o u, c) = bs \o Append(u, c)
        BY JoinAppended
      <4> QED BY ONLY <4>1, <4>2, <4>3
    <3> QED BY <2>2, <2>4, <2>5, <2>6, <3>3
  <2>7. CASE v.at.at # "body"
    BY <2>2, <2>4, <2>5, <2>7
  <2> QED BY <2>6, <2>7
<1> HIDE DEF Same
<1>8. Same(N)
  <2>1. 0 \in S
    BY <1>6
  <2>2. \A n \in 0 .. N : n \in S /\ n # N => n + 1 \in S
    BY <1>7
  <2>3. N \in 0 .. N
    OBVIOUS
  <2> HIDE DEF S
  <2>4. N \in S
    BY <2>1, <2>2, <2>3, AllSteps
  <2> QED BY <2>4 DEF S
<1>9. h[N].at = Done(f)
  <2>1. SUFFICES ASSUME h[N].at # Done(f) PROVE FALSE
    OBVIOUS
  <2>2. N \in 0 .. N
    OBVIOUS
  <2>3. Toward(h[N].at, f)
    BY <1>5, <2>2
  <2>4. PICK c \in Nat, d \in Nat : /\ c = StepsLeft(h[N].at) /\ d = StepsLeft(Leads(h[N].at, Links))
                                    /\ d < c
    BY <2>1, <2>3, TowardLeads, StepsBound
  <2>5. c + N <= a
    BY <1>2, <1>5, <2>1, <2>4
  <2> QED BY <1>3, <2>4, <2>5
<1>10. h[M].at = Done(f) /\ h[M].seen = h[N].seen
  <2>1. N \in 0 .. N
    OBVIOUS
  <2>2. h[M] = Further(h[N], Links)
    BY <1>3, <1>4, <2>1
  <2> QED BY <1>9, <2>2, PlaceLeads, PlaceKinds DEF Further
<1>11. g[M].at = Done(f) /\ g[M].seen = B \o h[N].seen
  BY <1>3, <1>8, <1>9 DEF Same
<1> QED BY <1>2, <1>10, <1>11 DEF B

\* The callbacks, and the function, that a call passes from a place on.
Passes(p) == ToSet(Way(p, Links))

LEMMA WayJoins ==
  ASSUME AllLead, NEW f, NEW p, Toward(p, f)
  PROVE  /\ Way(p, Links) \in Seq(Code)
         /\ \A x \in Passes(p) : x \in Code /\ Fn(x) = f /\ Toward(Body(x), f)
         /\ p = Done(f) => Way(p, Links) = <<>>
         /\ p # Done(f) => Way(p, Links) = (IF p.at = "body" THEN <<p.code>> ELSE <<>>)
                                              \o Way(Leads(p, Links), Links)
<1>1. PICK M \in Nat : M = MaxWay
  BY StepsBound
<1>2. PICK g : /\ Going(g, p, Links, MaxWay)
               /\ Way(p, Links) = IF g[MaxWay].at.at = "done" THEN g[MaxWay].seen
                                  ELSE Append(g[MaxWay].seen, Wild)
  BY <1>1, WayEnds
<1>3. g[MaxWay].seen \in Seq(Code) /\ \A x \in ToSet(g[MaxWay].seen) : Toward(Body(x), f)
  <2>1. M \in 0 .. M
    OBVIOUS
  <2> QED BY <1>1, <1>2, <2>1, WaySeen
<1>4. \A x : Toward(Body(x), f) => x \in Code /\ Fn(x) = f
  BY TowardLeads, PlaceKinds
<1>5. CASE p # Done(f)
  <2>1. PICK q : q = Leads(p, Links)
    OBVIOUS
  <2>2. PICK h : /\ Going(h, q, Links, MaxWay)
                 /\ Way(q, Links) = IF h[MaxWay].at.at = "done" THEN h[MaxWay].seen
                                    ELSE Append(h[MaxWay].seen, Wild)
    BY <1>1, WayEnds
  <2>3. /\ g[MaxWay].at = Done(f) /\ h[MaxWay].at = Done(f)
        /\ g[MaxWay].seen = (IF p.at = "body" THEN <<p.code>> ELSE <<>>) \o h[MaxWay].seen
    BY <1>2, <1>5, <2>1, <2>2, WayAlong
  <2>4. g[MaxWay].at.at = "done" /\ h[MaxWay].at.at = "done"
    BY <2>3, PlaceKinds
  <2>5. Way(p, Links) = g[MaxWay].seen /\ Way(q, Links) = h[MaxWay].seen
    BY ONLY <1>2, <2>2, <2>4
  <2> QED BY <1>3, <1>4, <1>5, <2>1, <2>3, <2>5 DEF Passes
<1>6. CASE p = Done(f)
  <2> DEFINE S == {n \in Nat : g[n] = Begun(p)}
  <2>1. g[0] = Begun(p) /\ \A n \in 0 .. M : n # M => g[n + 1] = Further(g[n], Links)
    <3>1. Going(g, p, Links, M)
      BY <1>1, <1>2
    <3> QED BY ONLY <3>1, M \in Nat, StepsOfWay
  <2>2. Further(Begun(p), Links) = Begun(p)
    BY <1>6, PlaceLeads, PlaceKinds DEF Further, Begun
  <2>3. 0 \in S /\ \A n \in 0 .. M : n \in S /\ n # M => n + 1 \in S
    BY <2>1, <2>2
  <2>4. M \in 0 .. M
    OBVIOUS
  <2> HIDE DEF S
  <2>5. M \in S
    BY <2>3, <2>4, AllSteps
  <2>6. g[MaxWay] = Begun(p)
    BY <1>1, <2>5 DEF S
  <2>7. Way(p, Links) = <<>>
    BY <1>2, <1>6, <2>6, PlaceKinds DEF Begun
  <2> QED BY <1>6, <2>7 DEF Passes, ToSet
<1> QED BY <1>5, <1>6

LEMMA PassesOf ==
  ASSUME AllLead, NEW f, NEW p, Toward(p, f)
  PROVE  /\ p = Done(f) => Passes(p) = {}
         /\ p # Done(f) => Passes(p) = Passes(Leads(p, Links))
                                        \cup (IF p.at = "body" THEN {p.code} ELSE {})
         /\ \A x \in Passes(p) : x \in Code /\ Fn(x) = f /\ Toward(Body(x), f)
<1>1. ASSUME p = Done(f) PROVE Passes(p) = {}
  <2>1. Way(p, Links) = <<>>
    BY <1>1, WayJoins
  <2> QED BY <2>1 DEF Passes, ToSet
<1>2. ASSUME p # Done(f)
      PROVE  Passes(p) = Passes(Leads(p, Links)) \cup (IF p.at = "body" THEN {p.code} ELSE {})
  <2>1. PICK B : B = IF p.at = "body" THEN <<p.code>> ELSE <<>>
    OBVIOUS
  <2>2. B \in Seq(Code) /\ ToSet(B) = IF p.at = "body" THEN {p.code} ELSE {}
    <3>1. p.at = "body" => p.code \in Code
      BY <1>2, TowardLeads
    <3> QED BY <2>1, <3>1 DEF ToSet
  <2>3. PICK w, v : w = Way(p, Links) /\ v = Way(Leads(p, Links), Links)
    OBVIOUS
  <2>4. w = B \o v /\ v \in Seq(Code)
    <3>1. Toward(Leads(p, Links), f)
      BY <1>2, TowardLeads
    <3> QED BY <1>2, <2>1, <2>3, <3>1, WayJoins
  <2>5. ToSet(w) = ToSet(v) \cup ToSet(B)
    BY <2>2, <2>4, JoinSet
  <2> QED BY <2>2, <2>3, <2>5 DEF Passes
<1> QED BY <1>1, <1>2, WayJoins

\* The places of a way, as they are in one state.
Passed(p) == IF p.at = "body" THEN {p.code} ELSE {}
WayFacts(p, f) ==
  /\ StepsLeft(p) \in Nat
  /\ p = Done(f) => Passes(p) = {}
  /\ p # Done(f) => /\ Toward(Leads(p, Links), f) /\ StepsLeft(Leads(p, Links)) < StepsLeft(p)
                    /\ Passes(p) = Passes(Leads(p, Links)) \cup Passed(p)
                    /\ p.at \in {"entry", "body", "trampoline"}
                    /\ p.at = "body" => p = Body(p.code)
  /\ \A x \in Passes(p) : x \in Code /\ Fn(x) = f /\ Toward(Body(x), f)
OnTheWay == \A f, p : Toward(p, f) => WayFacts(p, f)

LEMMA WayOf == AllLead => OnTheWay
<1> SUFFICES ASSUME AllLead, NEW f, NEW p, Toward(p, f) PROVE WayFacts(p, f)
  BY DEF OnTheWay
<1>1. StepsLeft(p) \in Nat
  BY StepsBound
<1>2. /\ p = Done(f) => Passes(p) = {}
      /\ p # Done(f) => Passes(p) = Passes(Leads(p, Links)) \cup Passed(p)
      /\ \A x \in Passes(p) : x \in Code /\ Fn(x) = f /\ Toward(Body(x), f)
  BY PassesOf DEF Passed
<1>3. p # Done(f) => /\ Toward(Leads(p, Links), f) /\ StepsLeft(Leads(p, Links)) < StepsLeft(p)
                     /\ p.at \in {"entry", "body", "trampoline"}
                     /\ p.at = "body" => p = Body(p.code)
  BY TowardLeads
<1> QED BY <1>1, <1>2, <1>3 DEF WayFacts

LEMMA WayOfNext == AllLead' => OnTheWay'
BY WayOf, PTL

\* Two states in which the ways differ by no more than some callbacks, place by place.
Between(q, r, X) ==
  Passes(r) \cup Passed(q) \subseteq Passes(q) /\ Passes(q) \subseteq Passes(r) \cup Passed(q) \cup X
LEMMA PassesChange ==
  ASSUME OnTheWay, OnTheWay', NEW f, NEW X, NEW Y,
         \A q : Toward(q, f) /\ Toward(q, f)' /\ q # Done(f) =>
           \E r : /\ Toward(r, f) /\ Toward(r, f)' /\ StepsLeft(r) < StepsLeft(q)
                  /\ Between(q, r, X) /\ Between(q, r, Y)'
  PROVE  \A p : Toward(p, f) /\ Toward(p, f)' =>
                  Passes(p) \subseteq Passes(p)' \cup X /\ Passes(p)' \subseteq Passes(p) \cup Y
<1> DEFINE Right(p) == Passes(p) \subseteq Passes(p)' \cup X /\ Passes(p)' \subseteq Passes(p) \cup Y
           Wrong(p) == Toward(p, f) /\ Toward(p, f)' /\ ~ Right(p)
           Bad == {n \in Nat : \E p : Wrong(p) /\ StepsLeft(p) = n}
<1>1. \A p : Wrong(p) => StepsLeft(p) \in Bad
  BY DEF OnTheWay, WayFacts
<1>2. SUFFICES ASSUME Bad # {} PROVE FALSE
  BY <1>1
<1>3. PICK n \in Bad : \A k \in Bad : n <= k
  <2>1. Bad \subseteq Nat
    OBVIOUS
  <2> HIDE DEF Bad
  <2> QED BY <1>2, <2>1, LeastOne
<1>4. PICK p : Wrong(p) /\ StepsLeft(p) = n
  BY <1>3
<1>5. p # Done(f)
  <2>1. ASSUME p = Done(f) PROVE Passes(p) = {} /\ Passes(p)' = {}
    BY <1>4, <2>1 DEF OnTheWay, WayFacts, Done
  <2> QED BY <1>4, <2>1
<1>6. PICK r : /\ Toward(r, f) /\ Toward(r, f)' /\ StepsLeft(r) < StepsLeft(p)
               /\ Between(p, r, X) /\ Between(p, r, Y)'
  BY <1>4, <1>5
<1>7. Right(r)
  <2>1. SUFFICES ASSUME ~ Right(r) PROVE FALSE
    OBVIOUS
  <2>2. StepsLeft(r) \in Bad
    BY <1>1, <1>6, <2>1
  <2>3. PICK a \in Nat, b \in Nat : a = StepsLeft(r) /\ b = n
    BY <1>3, <2>2
  <2>4. a < b /\ b <= a
    BY <1>3, <1>4, <1>6, <2>2, <2>3
  <2> QED BY <2>3, <2>4
<1>8. Passed(p)' = Passed(p)
  BY DEF Passed
<1>9. Right(p)
  <2> HIDE DEF Wrong, Bad
  <2> QED BY <1>6, <1>7, <1>8 DEF Between
<1> QED BY <1>4, <1>9

\* A callback no place on the way belongs to is not passed.
LEMMA Avoids ==
  ASSUME OnTheWay, NEW f, NEW x, NEW Q,
         \A q \in Q : Toward(q, f) /\ (q # Done(f) => Leads(q, Links) \in Q /\ q # Body(x))
  PROVE  \A p \in Q : x \notin Passes(p)
<1> DEFINE Bad == {n \in Nat : \E p \in Q : x \in Passes(p) /\ StepsLeft(p) = n}
<1>1. \A p \in Q : x \in Passes(p) => StepsLeft(p) \in Bad
  BY DEF OnTheWay, WayFacts
<1>2. SUFFICES ASSUME Bad # {} PROVE FALSE
  BY <1>1
<1>3. PICK n \in Bad : \A k \in Bad : n <= k
  <2>1. Bad \subseteq Nat
    OBVIOUS
  <2> HIDE DEF Bad
  <2> QED BY <1>2, <2>1, LeastOne
<1>4. PICK p \in Q : x \in Passes(p) /\ StepsLeft(p) = n
  BY <1>3
<1> DEFINE r == Leads(p, Links)
<1>5. /\ p # Done(f) /\ Passes(p) = Passes(r) \cup Passed(p) /\ StepsLeft(r) < StepsLeft(p)
      /\ r \in Q /\ x \notin Passed(p)
  <2>1. WayFacts(p, f)
    BY <1>4 DEF OnTheWay
  <2>2. p # Done(f)
    BY <1>4, <2>1 DEF WayFacts
  <2> QED BY <1>4, <2>1, <2>2 DEF WayFacts, Passed
<1> HIDE DEF r
<1>6. StepsLeft(r) \in Bad
  BY <1>1, <1>4, <1>5
<1>7. PICK a \in Nat, b \in Nat : a = StepsLeft(r) /\ b = n
  BY <1>3, <1>6
<1>8. a < b /\ b <= a
  BY <1>3, <1>4, <1>5, <1>6, <1>7
<1> QED BY <1>7, <1>8

LEMMA LeadsIn ==
  ASSUME NEW m
  PROVE  /\ \A c : Leads(Entry(c), m) = m.patch[c]
         /\ \A c \in Callbacks : Leads(Body(c), m) = IF c.extra THEN m.member[c.hook].more
                                                     ELSE m.member[c.hook].orig
         /\ \A c : c \notin Callbacks => Leads(Body(c), m) = Done(c)
         /\ \A k : Leads(Trampoline(k), m) = m.trampoline[k]
         /\ \A f : Leads(Done(f), m) = Done(f)
BY PlaceKinds DEF Leads

LEMMA LinksIn ==
  /\ Links.patch = patch /\ Links.trampoline = trampoline /\ Links.member = member
  /\ Links'.patch = patch' /\ Links'.trampoline = trampoline' /\ Links'.member = member'
BY DEF Links

\* No step but those of a detour turns a call that is on its way.
LEMMA LinksKept ==
  ASSUME SwapInv, AllLead, NEW h \in Hooks, HookStep(h), DivertMore(h) => member[h].more = Wild,
         NEW f, NEW q, Toward(q, f), Toward(q, f)'
  PROVE  /\ Leads(q, Links') = Leads(q, Links) \/ \E c : q = Entry(c) /\ patch'[c] # patch[c]
         /\ ~ (HookDetour(h) \/ RestoreCode(h)) => patch' = patch
<1>1. ~ (HookDetour(h) \/ RestoreCode(h)) => patch' = patch
  BY DEF HookStep, SaveVFunc, WriteVFunc, UnHookVFunc, FreeTrampoline, CopyTable, SwapTable,
         DivertEntry, DivertMore, ReturnMore, RestoreClass, FreeNewVtable, FindImport, SaveImport,
         WriteImport, UnHookImport, memory
<1>2. ASSUME NEW c, q = Entry(c)
      PROVE  Leads(q, Links') = Leads(q, Links) \/ patch'[c] # patch[c]
  BY <1>2, LeadsIn, LinksIn
<1>3. ASSUME NEW c \in Code, Known(c), q = Body(c)
      PROVE  Leads(q, Links') = Leads(q, Links)
  <2>1. CASE c \notin Callbacks
    <3>1. \A m : Leads(Body(c), m) = Done(c)
      BY <2>1, LeadsIn
    <3> QED BY <1>3, <3>1
  <2>2. ASSUME NEW g \in Hooks, c = Callback(g), setup[g].type # "VFuncDetour", member[g].orig # Wild
        PROVE  Leads(q, Links') = Leads(q, Links)
    <3>1. member'[g].orig = member[g].orig
      BY <2>2, KnownKept DEF AllLead
    <3>2. c \in Callbacks /\ c.hook = g /\ ~ c.extra
      BY <2>2, PlaceKinds DEF Callbacks
    <3> QED BY <1>3, <3>1, <3>2, LeadsIn, LinksIn
  <2>3. ASSUME NEW g \in Hooks, c = Extra(g), member[g].more # Wild
        PROVE  Leads(q, Links') = Leads(q, Links)
    <3>1. member'[g].more = member[g].more
      BY <2>3, StatusOf, MemberOf
    <3>2. c \in Callbacks /\ c.hook = g /\ c.extra
      BY <2>3 DEF Callbacks, Extra
    <3> QED BY <1>3, <3>1, <3>2, LeadsIn, LinksIn
  <2>4. c \in Functions => c \notin Callbacks
    BY RankOf
  <2> QED BY <1>3, <2>1, <2>2, <2>3, <2>4 DEF Known
<1>4. ASSUME NEW k \in Hooks, Detouring(k), q = Body(Callback(k))
      PROVE  Leads(q, Links') = Leads(q, Links)
  <2>1. member'[k] = member[k]
    <3>1. CASE FreeTrampoline(h) /\ k = h
      BY <3>1 DEF FreeTrampoline
    <3>2. CASE ~ (FreeTrampoline(h) /\ k = h)
      BY <1>4, <3>2, DetouringStep
    <3> QED BY <3>1, <3>2
  <2>2. PICK c \in Callbacks : c = Callback(k) /\ c.hook = k /\ ~ c.extra
    BY PlaceKinds DEF Callbacks
  <2>3. Leads(Body(c), Links') = member'[k].orig /\ Leads(Body(c), Links) = member[k].orig
    BY <2>2, LeadsIn, LinksIn
  <2> QED BY <1>4, <2>1, <2>2, <2>3
<1>5. ASSUME NEW k \in Hooks, Detouring(k), q = Trampoline(k)
      PROVE  Leads(q, Links') = Leads(q, Links)
  <2>1. Detouring(k)'
    <3>1. \A c : q # Entry(c) /\ q # Body(c) /\ q # Done(f)
      BY <1>5, PlaceKinds
    <3>2. \A j : q = Trampoline(j) => j = k
      <4>1. \A j : Trampoline(k) = Trampoline(j) => Callback(k) = Callback(j)
        BY DEF Trampoline
      <4>2. \A j : Callback(k) = Callback(j) => k = j
        BY DEF Callback
      <4> QED BY <1>5, <4>1, <4>2
    <3>3. PICK j \in Hooks : /\ Detouring(j)'
                            /\ q \in {Entry(Callback(j)), Body(Callback(j)), Trampoline(j)}
      BY <3>1 DEF Toward
    <3> QED BY <3>1, <3>2, <3>3
  <2>2. ~ (FreeTrampoline(h) /\ k = h)
    BY <2>1, StatusOf DEF Detouring
  <2>3. trampoline'[k] = trampoline[k]
    BY <1>5, <2>2, DetouringStep
  <2> QED BY <1>5, <2>3, LeadsIn, LinksIn
<1>6. q = Done(f) => Leads(q, Links') = Leads(q, Links)
  BY LeadsIn
<1>7. Leads(q, Links') = Leads(q, Links) \/ \E c : q = Entry(c) /\ patch'[c] # patch[c]
  <2>1. CASE \E c \in Code : Known(c) /\ Fn(c) = f /\ q \in {Entry(c), Body(c)}
    BY <1>2, <1>3, <2>1
  <2>2. CASE \E k \in Hooks : /\ Detouring(k) /\ Fn(Callback(k)) = f
                              /\ q \in {Entry(Callback(k)), Body(Callback(k)), Trampoline(k)}
    BY <1>2, <1>4, <1>5, <2>2
  <2> QED BY <1>6, <2>1, <2>2 DEF Toward
<1> QED BY <1>1, <1>7

\* What is passed on the way of a detour.
DetourPassed ==
  \A k \in Hooks : \A f : Detouring(k) /\ Fn(Callback(k)) = f =>
    /\ Toward(Entry(Callback(k)), f) /\ Toward(trampoline[k], f)
    /\ StepsLeft(trampoline[k]) < StepsLeft(Entry(Callback(k)))
    /\ Passes(Entry(Callback(k))) = Passes(trampoline[k]) \cup {Callback(k)}
LEMMA DetourPassing == AllLead => DetourPassed
<1> SUFFICES ASSUME AllLead, NEW k \in Hooks, NEW f, Detouring(k), Fn(Callback(k)) = f
             PROVE  /\ Toward(Entry(Callback(k)), f) /\ Toward(trampoline[k], f)
                    /\ StepsLeft(trampoline[k]) < StepsLeft(Entry(Callback(k)))
                    /\ Passes(Entry(Callback(k))) = Passes(trampoline[k]) \cup {Callback(k)}
  BY DEF DetourPassed
<1>1. OnTheWay
  BY WayOf
<1>2. PICK a, b, c : a = Entry(Callback(k)) /\ b = Body(Callback(k)) /\ c = Trampoline(k)
  OBVIOUS
<1>3. Toward(a, f) /\ Toward(b, f) /\ Toward(c, f)
  BY <1>2 DEF Toward
<1>4. Leads(a, Links) = b /\ Leads(b, Links) = c /\ Leads(c, Links) = trampoline[k]
  BY <1>2, PlaceLeads
<1>5. a # Done(f) /\ b # Done(f) /\ c # Done(f)
  BY <1>2, PlaceKinds
<1>6. Passed(a) = {} /\ Passed(b) = {Callback(k)} /\ Passed(c) = {}
  BY <1>2, PlaceKinds DEF Passed
<1>7. WayFacts(a, f) /\ WayFacts(b, f) /\ WayFacts(c, f)
  BY <1>1, <1>3 DEF OnTheWay
<1>8. /\ Toward(trampoline[k], f) /\ Passes(a) = Passes(b) /\ Passes(b) = Passes(c) \cup {Callback(k)}
      /\ Passes(c) = Passes(trampoline[k])
      /\ StepsLeft(b) < StepsLeft(a) /\ StepsLeft(c) < StepsLeft(b)
      /\ StepsLeft(trampoline[k]) < StepsLeft(c)
  BY <1>4, <1>5, <1>6, <1>7 DEF WayFacts
<1>9. WayFacts(trampoline[k], f)
  BY <1>1, <1>8 DEF OnTheWay
<1>10. StepsLeft(trampoline[k]) < StepsLeft(a)
  <2>1. PICK m \in Nat, n \in Nat, i \in Nat, j \in Nat :
          m = StepsLeft(a) /\ n = StepsLeft(b) /\ i = StepsLeft(c) /\ j = StepsLeft(trampoline[k])
    BY <1>7, <1>9 DEF WayFacts
  <2>2. n < m /\ i < n /\ j < i
    BY <1>8, <2>1
  <2>3. j < m
    BY ONLY <2>1, <2>2
  <2> QED BY <2>1, <2>3
<1> QED BY <1>2, <1>3, <1>8, <1>10

LEMMA DetourPassingNext == AllLead' => DetourPassed'
BY DetourPassing, PTL

\* What a detour turns: calls that come to the code it is of.
LEMMA PatchOf ==
  ASSUME SwapInv, AllLead, setup \in Setups, NEW h \in Hooks, HookStep(h)
  PROVE  /\ HookDetour(h) => \E c \in Code :
              /\ Known(c) /\ Fn(c) = Fn(Callback(h)) /\ Rank(c) < h
              /\ table[vptr[setup[h].object]][setup[h].index] = Entry(c)
              /\ \A d \in Code : d # c => patch'[d] = patch[d]
              /\ patch'[c] = Entry(Callback(h)) /\ trampoline'[h] = patch[c]
              /\ Source(h)' = c /\ Detouring(h)' /\ ~ Detouring(h)
         /\ RestoreCode(h) =>
              /\ \A d \in Code : d # Source(h) => patch'[d] = patch[d]
              /\ patch[Source(h)] = Entry(Callback(h)) /\ patch'[Source(h)] = trampoline[h]
              /\ trampoline' = trampoline /\ Detouring(h) /\ Detouring(h)'
<1>1. ASSUME HookDetour(h)
      PROVE  \E c \in Code :
              /\ Known(c) /\ Fn(c) = Fn(Callback(h)) /\ Rank(c) < h
              /\ table[vptr[setup[h].object]][setup[h].index] = Entry(c)
              /\ \A d \in Code : d # c => patch'[d] = patch[d]
              /\ patch'[c] = Entry(Callback(h)) /\ trampoline'[h] = patch[c]
              /\ Source(h)' = c /\ Detouring(h)' /\ ~ Detouring(h)
  <2>1. setup[h].type = "VFuncDetour" /\ status[h] = "new" /\ busy = Idle /\ setup' = setup
    BY <1>1 DEF HookDetour, Begin, Watch
  <2>2. PICK x, i : x = vptr[setup[h].object] /\ i = setup[h].index
    OBVIOUS
  <2>3. Leading(table[x][i], Virtuals[i])
    BY <2>1, <2>2, EntryOf
  <2>4. PICK c \in Code : table[x][i] = Entry(c) /\ Known(c) /\ Fn(c) = Virtuals[i]
    BY <2>3 DEF Leading
  <2>5. Fn(Callback(h)) = Virtuals[i]
    <3>1. Callback(h) \in Callbacks /\ Callback(h).hook = h /\ ~ Callback(h).extra
      BY PlaceKinds DEF Callbacks
    <3> QED BY <2>1, <2>2, <3>1 DEF Fn
  <2>6. Rank(c) < h
    BY <2>1, <2>4, KnownOlder DEF AllLead
  <2>7. DOMAIN patch = Code /\ DOMAIN trampoline = Hooks
    BY DEF SwapInv, Shape
  <2>8. /\ patch' = [patch EXCEPT ![c] = Entry(Callback(h))]
        /\ trampoline' = [trampoline EXCEPT ![h] = patch[c]]
    <3>1. PICK e : e = table[vptr[setup[h].object]][setup[h].index] /\ e.code = c
      BY <2>2, <2>4, PlaceKinds
    <3>2. /\ patch' = [patch EXCEPT ![e.code] = Entry(Callback(h))]
          /\ trampoline' = [trampoline EXCEPT ![h] = patch[e.code]]
      BY <1>1, <3>1 DEF HookDetour
    <3> QED BY <3>1, <3>2
  <2>9. Source(h)' = c
    <3>1. member'[h].src = Entry(c)
      BY <1>1, <2>2, <2>4, MemberOf
    <3> QED BY <3>1, PlaceKinds DEF Source
  <2>10. Detouring(h)' /\ ~ Detouring(h)
    BY <1>1, <2>1, StatusOf DEF Detouring
  <2> QED BY <2>2, <2>4, <2>5, <2>6, <2>7, <2>8, <2>9, <2>10
<1>2. ASSUME RestoreCode(h)
      PROVE  /\ \A d \in Code : d # Source(h) => patch'[d] = patch[d]
             /\ patch[Source(h)] = Entry(Callback(h)) /\ patch'[Source(h)] = trampoline[h]
             /\ trampoline' = trampoline /\ Detouring(h) /\ Detouring(h)'
  <2>1. setup[h].type = "VFuncDetour" /\ status[h] = "on" /\ busy = Idle /\ setup' = setup
    BY <1>2 DEF RestoreCode, Newest, Watch
  <2>2. Detouring(h) /\ Detouring(h)'
    BY <1>2, <2>1, StatusOf DEF Detouring
  <2>3. Source(h) \in Code
    BY <2>2, DetourOf
  <2>4. h \in Patched(Source(h)) /\ \A g \in Patched(Source(h)) : g <= h
    <3>1. h \in Patched(Source(h))
      BY <2>1, NoneAt DEF Patched, Source
    <3>2. \A g \in Hooks : status[g] = "on" => g <= h
      BY <1>2, <2>1, OldOf DEF RestoreCode, Newest, SetsVFunc, SaveVFunc, WriteVFunc, HookDetour,
         SetsVTable,
         CopyTable, SwapTable, DivertEntry, SetsImport, FindImport, SaveImport, WriteImport, Begin,
         At, Idle, SwapInv
    <3> QED BY <3>1, <3>2 DEF Patched
  <2>5. patch[Source(h)] = Entry(Callback(h))
    <3>1. Layered(Patched(Source(h)), Diverted, trampoline, patch[Source(h)], Body(Source(h)))
      BY <2>3 DEF SwapInv, Layers, FunctionLayers
    <3>2. patch[Source(h)] = Diverted[h]
      BY <2>4, <3>1 DEF Layered
    <3> QED BY <3>2 DEF Diverted
  <2>6. patch' = [patch EXCEPT ![Source(h)] = trampoline[h]] /\ trampoline' = trampoline
    BY <1>2 DEF RestoreCode, Source
  <2>7. DOMAIN patch = Code
    BY DEF SwapInv, Shape
  <2> QED BY <2>2, <2>3, <2>5, <2>6, <2>7
<1> QED BY <1>1, <1>2

\* What a step changes of the way of a call: a detour comes into it, or goes.
LEMMA PassesStep ==
  ASSUME SwapInv, AllLead, setup \in Setups, NEW h \in Hooks, HookStep(h),
         DivertMore(h) => member[h].more = Wild, NEW f
  PROVE  \A p : Toward(p, f) /\ Toward(p, f)' =>
           /\ Passes(p) \subseteq Passes(p)' \cup (IF RestoreCode(h) THEN {Callback(h)} ELSE {})
           /\ Passes(p)' \subseteq Passes(p) \cup (IF HookDetour(h) THEN {Callback(h)} ELSE {})
<1>1. AllLead'
  BY LeadsStep
<1>2. OnTheWay /\ OnTheWay' /\ DetourPassed /\ DetourPassed'
  BY <1>1, WayOf, WayOfNext, DetourPassing, DetourPassingNext
<1>3. PICK X, Y : /\ X = IF RestoreCode(h) THEN {Callback(h)} ELSE {}
                  /\ Y = IF HookDetour(h) THEN {Callback(h)} ELSE {}
  OBVIOUS
<1>4. ASSUME NEW q, Toward(q, f), Toward(q, f)', q # Done(f)
      PROVE  \E r : /\ Toward(r, f) /\ Toward(r, f)' /\ StepsLeft(r) < StepsLeft(q)
                    /\ Between(q, r, X) /\ Between(q, r, Y)'
  <2>1. WayFacts(q, f) /\ WayFacts(q, f)'
    BY <1>2, <1>4 DEF OnTheWay
  <2>2. PICK r, s : r = Leads(q, Links) /\ s = Leads(q, Links')
    OBVIOUS
  <2>3. /\ Toward(r, f) /\ StepsLeft(r) < StepsLeft(q)
        /\ Passes(q) = Passes(r) \cup Passed(q)
    BY <1>4, <2>1, <2>2 DEF WayFacts
  <2>4. Toward(s, f)' /\ Passes(q)' = Passes(s)' \cup Passed(q)
    BY <1>4, <2>1, <2>2 DEF WayFacts, Done, Passed
  <2>5. CASE r = s
    BY <2>3, <2>4, <2>5 DEF Between, Passed
  <2>6. CASE r # s
    <3>1. PICK c : q = Entry(c) /\ patch'[c] # patch[c]
      BY <1>4, <2>2, <2>6, LinksKept
    <3>2. HookDetour(h) \/ RestoreCode(h)
      BY <1>4, <3>1, LinksKept
    <3>3. r = patch[c] /\ s = patch'[c] /\ Passed(q) = {}
      <4>1. Passed(q) = {}
        BY <3>1, PlaceKinds DEF Passed
      <4> QED BY <2>2, <3>1, <4>1, LeadsIn, LinksIn
    <3>4. c \in Code
      <4>1. /\ \A d : q = Entry(d) => d = c
            /\ \A d : q # Body(d) /\ q # Trampoline(d) /\ q # Done(f)
        BY <3>1, PlaceKinds
      <4>2. \A k \in Hooks : Callback(k) \in Code
        BY DEF Callbacks, Code
      <4> QED BY <1>4, <4>1, <4>2 DEF Toward
    <3>5. CASE HookDetour(h)
      <4>1. /\ s = Entry(Callback(h)) /\ trampoline'[h] = r /\ Detouring(h)'
        BY <3>1, <3>3, <3>4, <3>5, PatchOf
      <4>2. Fn(Callback(h))' = f
        <5>1. PICK d \in Code : Fn(d) = Fn(Callback(h)) /\ \A e \in Code : e # d => patch'[e] = patch[e]
          BY <3>5, PatchOf
        <5>2. d = c
          BY <3>1, <3>4, <5>1
        <5>3. Fn(c) = f
          <6>1. /\ \A e : q = Entry(e) => e = c
                /\ \A e : q # Body(e) /\ q # Trampoline(e) /\ q # Done(f)
            BY <3>1, PlaceKinds
          <6> QED BY <1>4, <6>1 DEF Toward
        <5>4. Fn(Callback(h))' = Fn(Callback(h))
          BY KnownStep
        <5> QED BY <5>1, <5>2, <5>3, <5>4
      <4>3. /\ Toward(r, f)' /\ Passes(s)' = Passes(r)' \cup {Callback(h)}
        BY <1>2, <4>1, <4>2 DEF DetourPassed, Entry, Callback
      <4>4. Y = {Callback(h)}
        BY <1>3, <3>5
      <4>5. Between(q, r, X)
        BY <2>3, <3>3 DEF Between
      <4>6. Between(q, r, Y)'
        <5>1. Passed(q)' = {}
          BY <3>3 DEF Passed
        <5> QED BY <2>4, <3>3, <4>3, <4>4, <5>1 DEF Between
      <4> QED BY <2>3, <4>3, <4>5, <4>6
    <3>6. CASE RestoreCode(h)
      <4>1. c = Source(h) /\ r = Entry(Callback(h)) /\ s = trampoline[h] /\ Detouring(h)
        BY <3>1, <3>3, <3>4, <3>6, PatchOf
      <4>2. Fn(Callback(h)) = f
        <5>1. Fn(c) = f
          <6>1. /\ \A e : q = Entry(e) => e = c
                /\ \A e : q # Body(e) /\ q # Trampoline(e) /\ q # Done(f)
            BY <3>1, PlaceKinds
          <6> QED BY <1>4, <6>1 DEF Toward
        <5> QED BY <4>1, <5>1, DetourOf
      <4>3. /\ Toward(s, f) /\ Passes(r) = Passes(s) \cup {Callback(h)}
            /\ StepsLeft(s) < StepsLeft(r)
        BY <1>2, <4>1, <4>2 DEF DetourPassed
      <4>4. X = {Callback(h)}
        BY <1>3, <3>6
      <4>5. Between(q, s, X)
        BY <2>3, <3>3, <4>3, <4>4 DEF Between
      <4>6. Between(q, s, Y)'
        <5>1. Passed(q)' = {}
          BY <3>3 DEF Passed
        <5> QED BY <2>4, <3>3, <5>1 DEF Between
      <4>7. StepsLeft(s) < StepsLeft(q)
        <5>1. PICK i \in Nat, j \in Nat, k \in Nat :
                i = StepsLeft(s) /\ j = StepsLeft(r) /\ k = StepsLeft(q)
          BY <1>2, <1>4, <2>3, <4>3 DEF OnTheWay, WayFacts
        <5>2. i < j /\ j < k
          BY <2>3, <4>3, <5>1
        <5>3. i < k
          BY ONLY <5>1, <5>2
        <5> QED BY <5>1, <5>3
      <4> QED BY <2>4, <4>3, <4>5, <4>6, <4>7
    <3> QED BY <3>2, <3>5, <3>6
  <2> QED BY <2>5, <2>6
<1>5. \A p : Toward(p, f) /\ Toward(p, f)' =>
               Passes(p) \subseteq Passes(p)' \cup X /\ Passes(p)' \subseteq Passes(p) \cup Y
  BY <1>2, <1>4, PassesChange
<1> QED BY <1>3, <1>5

(***************************************************************************)
(* What is saved, of hooks of different kinds over each other.             *)
(***************************************************************************)
LEMMA GreatestOne ==
  ASSUME NEW A \in SUBSET Hooks, A # {}
  PROVE  \E h \in A : \A g \in A : g <= h
<1> DEFINE Over(h) == {g \in A : h < g}
           S == {Cardinality(Over(h)) : h \in A}
<1>1. \A h \in A : Over(h) \in SUBSET Hooks /\ Cardinality(Over(h)) \in Nat
  <2> SUFFICES ASSUME NEW h \in A PROVE Over(h) \in SUBSET Hooks /\ Cardinality(Over(h)) \in Nat
    OBVIOUS
  <2>1. Over(h) \in SUBSET Hooks
    OBVIOUS
  <2> HIDE DEF Over
  <2> QED BY <2>1, FewerHooks
<1>2. PICK n \in S : \A m \in S : n <= m
  <2>1. S \subseteq Nat /\ S # {}
    BY <1>1
  <2> HIDE DEF S
  <2> QED BY <2>1, LeastOne
<1>3. PICK h \in A : n = Cardinality(Over(h))
  BY <1>2
<1>4. ASSUME NEW g \in A PROVE g <= h
  <2>1. SUFFICES ASSUME h < g PROVE FALSE
    BY SwapAssumption
  <2>2. Over(g) \subseteq Over(h) /\ g \in Over(h) /\ g \notin Over(g)
    <3>1. \A k \in A : k \in Nat
      BY SwapAssumption
    <3>2. ASSUME NEW k \in Over(g) PROVE k \in Over(h)
      <4>1. k \in A /\ g < k
        BY <3>2
      <4>2. h < k
        BY <2>1, <3>1, <4>1
      <4> QED BY <4>1, <4>2
    <3>3. ~ (g < g)
      BY <3>1
    <3> QED BY <2>1, <3>2, <3>3
  <2>3. PICK a \in Nat, b \in Nat : a = Cardinality(Over(g)) /\ b = Cardinality(Over(h))
    BY <1>1
  <2>4. n <= Cardinality(Over(g))
    BY <1>2
  <2> HIDE DEF Over, S
  <2>5. a + 1 <= b
    BY <1>1, <2>2, <2>3, FewerHooks
  <2> QED BY <1>3, <2>3, <2>4, <2>5
<1> QED BY <1>4

LEMMA LayeredValue ==
  ASSUME NEW A \in SUBSET Hooks, NEW value, NEW saved, NEW x, NEW base,
         Layered(A, value, saved, x, base)
  PROVE  \/ A = {} /\ x = base
         \/ \E h \in A : (\A g \in A : g <= h) /\ x = value[h]
<1>1. CASE A = {}
  BY <1>1 DEF Layered
<1>2. CASE A # {}
  <2>1. PICK h \in A : \A g \in A : g <= h
    BY <1>2, GreatestOne
  <2> QED BY <2>1 DEF Layered
<1> QED BY <1>1, <1>2

\* The vtable of an object is the copy of the newest hook of it.
LEMMA ObjectValue ==
  ASSUME SwapInv, NEW o \in Objects
  PROVE  \/ Pointed(o) = {} /\ vptr[o] = 0
         \/ vptr[o] \in Pointed(o) /\ \A g \in Pointed(o) : g <= vptr[o]
<1>1. Layered(Pointed(o), Itself, Vtables, vptr[o], 0)
  BY DEF SwapInv, Layers, ObjectLayers
<1>2. Pointed(o) \in SUBSET Hooks
  BY DEF Pointed
<1>3. \A h \in Pointed(o) : Itself[h] = h
  BY <1>2 DEF Itself
<1> QED BY <1>1, <1>2, <1>3, LayeredValue

LEMMA PointedBack ==
  ASSUME SwapInv, NEW h \in Hooks, HookStep(h)
  PROVE  \A o : \A y \in Pointed(o)' : y \in Pointed(o) \/ (SwapTable(h) /\ y = h)
<1> SUFFICES ASSUME NEW o, NEW y \in Pointed(o)' PROVE y \in Pointed(o) \/ (SwapTable(h) /\ y = h)
  OBVIOUS
<1>1. setup' = setup
  BY StepOfHook DEF SwapInv, OnlyHook
<1>2. /\ y \in Hooks /\ setup[y].type = "VTableSwap" /\ setup[y].object = o
      /\ (status'[y] = "on" /\ ~At(y, "free")') \/ At(y, "new entry")'
  BY <1>1 DEF Pointed
<1>3. CASE y # h
  <2>1. status'[y] = status[y] /\ ~ At(y, "new entry")' /\ ~ At(y, "free")
    BY <1>2, <1>3, StatusOf, OldOf
  <2> QED BY <1>2, <2>1 DEF Pointed
<1>4. CASE y = h
  <2>1. OfVTable(h)
    BY <1>2, <1>4, KindOf
  <2>2. CASE CopyTable(h)
    <3>1. status'[h] = "new" /\ busy' = [hook |-> h, doing |-> "class"]
      BY <2>2, StatusOf DEF CopyTable, Continue
    <3> QED BY <1>2, <1>4, <3>1 DEF At
  <2>3. CASE SwapTable(h)
    BY <1>4, <2>3
  <2>4. CASE DivertEntry(h)
    BY <1>2, <1>4, <2>4 DEF DivertEntry, Pointed
  <2>5. CASE DivertMore(h)
    <3>1. status[h] = "on" /\ ~ At(h, "free")
      BY <2>5, NoneAt DEF DivertMore, Newest
    <3> QED BY <1>2, <1>4, <3>1 DEF Pointed
  <2>6. CASE ReturnMore(h)
    <3>1. At(h, "return") /\ ~ At(h, "free")
      BY <2>6 DEF ReturnMore, At
    <3>2. status[h] = "on"
      BY <3>1, UnderWay DEF BusyWith, Removing
    <3> QED BY <1>2, <1>4, <3>1, <3>2 DEF Pointed
  <2>7. CASE RestoreClass(h)
    <3>1. At(h, "free")' /\ ~ At(h, "new entry")'
      BY <2>7 DEF RestoreClass, Continue, At
    <3> QED BY <1>2, <1>4, <3>1
  <2>8. CASE FreeNewVtable(h)
    <3>1. status'[h] = "off" /\ ~ At(h, "new entry")'
      BY <2>8, StatusOf, SwapAssumption DEF FreeNewVtable, Finish, At, Idle
    <3> QED BY <1>2, <1>4, <3>1
  <2> QED BY <2>1, <2>2, <2>3, <2>4, <2>5, <2>6, <2>7, <2>8 DEF OfVTable, SetsVTable
<1> QED BY <1>3, <1>4

LEMMA NotSetting ==
  ASSUME SwapInv, NEW h \in Hooks, HookStep(h), status[h] = "on"
  PROVE  ~ (SetsVFunc(h) \/ HookDetour(h) \/ SetsVTable(h) \/ SetsImport(h))
BY OldOf

\* A detour is of code that is older.
SourceOlder == \A k \in Hooks : Detouring(k) => Rank(Source(k)) < k

LEMMA SourceOlderStep ==
  ASSUME SwapInv, AllLead, setup \in Setups, SourceOlder, NEW h \in Hooks, HookStep(h)
  PROVE  SourceOlder'
<1> SUFFICES ASSUME NEW k \in Hooks, Detouring(k)' PROVE Rank(Source(k))' < k
  BY DEF SourceOlder
<1>1. \A c : Rank(c)' = Rank(c)
  BY DEF Rank
<1>2. CASE HookDetour(h) /\ k = h
  <2>1. PICK c \in Code : Rank(c) < h /\ Source(h)' = c
    BY <1>2, PatchOf
  <2> QED BY <1>1, <1>2, <2>1 DEF Rank
<1>3. CASE ~ (HookDetour(h) /\ k = h)
  <2>1. Detouring(k)
    BY <1>3, DetouringStep
  <2>2. ~ (FreeTrampoline(h) /\ k = h)
    BY StatusOf DEF Detouring
  <2>3. Source(k)' = Source(k)
    BY <2>1, <2>2, DetouringStep DEF Source
  <2> QED BY <1>1, <2>1, <2>3 DEF SourceOlder, Rank
<1> QED BY <1>2, <1>3

\* VFuncSwap writes into the vtable of its object: the one of the class, or the copy of the
\* newest of the older hooks of the object.
SwapVtable ==
  \A g \in Hooks : setup[g].type = "VFuncSwap" /\ (status[g] = "on" \/ At(g, "entry")) =>
    /\ member[g].vtable = 0 \/ member[g].vtable \in Pointed(setup[g].object)
    /\ \A y \in Pointed(setup[g].object) : y < g => y <= member[g].vtable

LEMMA SwapVtableStep ==
  ASSUME SwapInv, AllLead, setup \in Setups, SwapVtable, NEW h \in Hooks, HookStep(h)
  PROVE  SwapVtable'
<1>1. setup' = setup
  BY KnownStep
<1> SUFFICES ASSUME NEW g \in Hooks, setup[g].type = "VFuncSwap", status'[g] = "on" \/ At(g, "entry")',
                    NEW o, o = setup[g].object
             PROVE  /\ member'[g].vtable = 0 \/ member'[g].vtable \in Pointed(o)'
                    /\ \A y \in Pointed(o)' : y < g => y <= member'[g].vtable
  BY <1>1 DEF SwapVtable
<1>2. CASE g # h
  <2>1. status[g] = "on" /\ member'[g] = member[g]
    BY <1>2, StatusOf, OldOf
  <2>2. PICK v : v = member[g].vtable /\ v = member'[g].vtable
    BY <2>1
  <2>3. /\ v = 0 \/ v \in Pointed(o)
        /\ \A y \in Pointed(o) : y < g => y <= v
        /\ v < g
    BY <2>1, <2>2 DEF SwapVtable, AllLead, SwappedLead
  <2>4. v \in Pointed(o) => v \in Pointed(o)'
    <3>1. SUFFICES ASSUME v \in Pointed(o), RestoreClass(h), v = h PROVE FALSE
      BY PointedStep
    <3>2. \A k \in Hooks : status[k] = "on" => k <= h
      <4>1. ~ (SetsVFunc(h) \/ HookDetour(h) \/ SetsVTable(h) \/ SetsImport(h))
        <5>1. status[h] = "on"
          BY <3>1 DEF RestoreClass, Newest
        <5> QED BY <5>1, NotSetting
      <4> QED BY <4>1, OldOf
    <3> QED BY <2>1, <2>3, <3>1, <3>2, SwapAssumption
  <2>5. ASSUME NEW y \in Pointed(o)', y < g PROVE y <= v
    <3>1. CASE y \in Pointed(o)
      BY <2>3, <2>5, <3>1
    <3>2. CASE SwapTable(h) /\ y = h
      <4>1. \A k \in Hooks : status[k] # "new" => k < h
        BY <3>2, OldOf DEF SetsVTable
      <4>2. g < h
        BY <2>1, <4>1
      <4>3. h < g
        BY <2>5, <3>2
      <4>4. h \in Nat /\ g \in Nat
        BY SwapAssumption
      <4> QED BY ONLY <4>2, <4>3, <4>4
    <3>3. y \in Pointed(o) \/ (SwapTable(h) /\ y = h)
      BY PointedBack
    <3> QED BY <3>1, <3>2, <3>3
  <2> QED BY <2>2, <2>3, <2>4, <2>5
<1>3. CASE g = h
  <2>1. OfVFunc(h) /\ ~ SwapTable(h) /\ ~ RestoreClass(h)
    BY <1>3, KindOf DEF OfVTable, SetsVTable
  <2>2. Pointed(o)' \subseteq Pointed(o) /\ Pointed(o) \subseteq Pointed(o)'
    BY <2>1, PointedBack, PointedStep
  <2>3. CASE SaveVFunc(h)
    <3>1. member'[h].vtable = vptr[o]
      BY <1>3, <2>3, MemberOf
    <3>2. o \in Objects
      BY SetupOf
    <3> QED BY <1>3, <2>2, <3>1, <3>2, ObjectValue
  <2>4. CASE WriteVFunc(h)
    <3>1. At(h, "entry") /\ member' = member
      BY <2>4 DEF WriteVFunc
    <3> QED BY <1>3, <2>2, <3>1 DEF SwapVtable
  <2>5. CASE UnHookVFunc(h)
    <3>1. status'[h] = "off" /\ ~ At(h, "entry")'
      BY <2>5, StatusOf, SwapAssumption DEF UnHookVFunc, Finish, At, Idle
    <3> QED BY <1>3, <3>1
  <2> QED BY <2>1, <2>3, <2>4, <2>5 DEF OfVFunc, SetsVFunc
<1> QED BY <1>2, <1>3

\* What a step writes into a vtable that is in use.
LEMMA TableStep ==
  ASSUME SwapInv, AllLead, setup \in Setups, NEW h \in Hooks, HookStep(h),
         NEW x \in {0} \cup Hooks, Live(x), NEW j \in Indices, ~ (FreeNewVtable(h) /\ x = h),
         NEW v, v = member[h].vtable, NEW i, i = setup[h].index, NEW m, m = setup[h].more
  PROVE  /\ WriteVFunc(h) /\ x = v /\ j = i => table'[x][j] = Entry(Callback(h))
         /\ UnHookVFunc(h) /\ x = v /\ j = i => table'[x][j] = member[h].orig
         /\ DivertMore(h) /\ x = h /\ j = m => table'[x][j] = Entry(Extra(h))
         /\ \/ table'[x][j] = table[x][j]
            \/ (WriteVFunc(h) \/ UnHookVFunc(h)) /\ x = v /\ j = i
            \/ DivertEntry(h) /\ x = h /\ j = i
            \/ DivertMore(h) /\ x = h /\ j = m
<1>1. IsVtable(table[x])
  BY DEF AllLead, TablesLead
<1>2. ASSUME WriteVFunc(h)
      PROVE  /\ x = v /\ j = i => table'[x][j] = Entry(Callback(h))
             /\ ~ (x = v /\ j = i) => table'[x][j] = table[x][j]
  <2>1. Written(table', table, v, i, Entry(Callback(h)))
    BY <1>2 DEF WriteVFunc, Written
  <2> QED BY <1>1, <2>1, EntryWritten
<1>3. ASSUME UnHookVFunc(h)
      PROVE  /\ x = v /\ j = i => table'[x][j] = member[h].orig
             /\ ~ (x = v /\ j = i) => table'[x][j] = table[x][j]
  <2>1. Written(table', table, v, i, member[h].orig)
    BY <1>3 DEF UnHookVFunc, Written
  <2> QED BY <1>1, <2>1, EntryWritten
<1>4. ASSUME DivertEntry(h), ~ (x = h /\ j = i) PROVE table'[x][j] = table[x][j]
  <2>1. Written(table', table, h, i, Entry(Callback(h)))
    BY <1>4 DEF DivertEntry, Written
  <2> QED BY <1>1, <1>4, <2>1, EntryWritten
<1>5. ASSUME DivertMore(h)
      PROVE  /\ x = h /\ j = m => table'[x][j] = Entry(Extra(h))
             /\ ~ (x = h /\ j = m) => table'[x][j] = table[x][j]
  <2>1. Written(table', table, h, m, Entry(Extra(h)))
    BY <1>5 DEF DivertMore, Written
  <2> QED BY <1>1, <2>1, EntryWritten
<1>6. CASE CopyTable(h)
  <2>1. x # h
    BY <1>6, NoneAt, SwapAssumption DEF CopyTable, Begin, Live
  <2>2. table'[x] = table[x]
    BY <1>6, <2>1 DEF CopyTable
  <2>3. ~ WriteVFunc(h) /\ ~ UnHookVFunc(h) /\ ~ DivertMore(h)
    BY <1>6 DEF CopyTable, WriteVFunc, UnHookVFunc, DivertMore, Begin, Newest, At, Idle
  <2> QED BY <2>2, <2>3
<1>7. CASE FreeNewVtable(h)
  <2>1. table'[x] = table[x]
    BY <1>7 DEF FreeNewVtable
  <2>2. ~ WriteVFunc(h) /\ ~ UnHookVFunc(h) /\ ~ DivertMore(h)
    BY <1>7, SwapAssumption
       DEF FreeNewVtable, WriteVFunc, UnHookVFunc, DivertMore, Begin, Newest, At, Idle
  <2> QED BY <2>1, <2>2
<1>8. CASE table' = table /\ ~(WriteVFunc(h) \/ UnHookVFunc(h) \/ CopyTable(h) \/ DivertEntry(h)
                                \/ DivertMore(h) \/ FreeNewVtable(h))
  BY <1>8
<1>9. /\ DivertEntry(h) => busy.doing = "new entry"
      /\ WriteVFunc(h) => busy.doing = "entry"
      /\ UnHookVFunc(h) \/ DivertMore(h) => busy.doing = "nothing"
  <2>1. \A d : At(h, d) => busy.doing = d
    BY AtWhat
  <2>2. busy = Idle => busy.doing = "nothing"
    BY DEF Idle
  <2>3. DivertEntry(h) => At(h, "new entry")
    BY DEF DivertEntry
  <2>4. WriteVFunc(h) => At(h, "entry")
    BY DEF WriteVFunc
  <2>5. UnHookVFunc(h) \/ DivertMore(h) => busy = Idle
    BY DEF UnHookVFunc, DivertMore, Newest
  <2> QED BY <2>1, <2>2, <2>3, <2>4, <2>5
<1>10. /\ UnHookVFunc(h) => setup[h].type = "VFuncSwap"
       /\ DivertMore(h) => setup[h].type = "VTableSwap"
  BY DEF UnHookVFunc, DivertMore, Newest
<1> QED BY <1>2, <1>3, <1>4, <1>5, <1>6, <1>7, <1>8, <1>9, <1>10, TableOf

\* The hooks that have written an entry of a copy on top of HookAdditional.
SwappedIn(x, i) ==
  {k \in Hooks : /\ setup[k].type = "VFuncSwap" /\ setup[k].index = i
                 /\ member[k].vtable = x /\ status[k] = "on"}
MoreLayers ==
  \A g \in Hooks : member[g].more # Wild /\ status[g] = "on" =>
    Layered(SwappedIn(g, setup[g].more), Diverted, Origs, table[g][setup[g].more], Entry(Extra(g)))

LEMMA SwappedInStep ==
  ASSUME SwapInv, NEW h \in Hooks, HookStep(h), NEW x, NEW j,
         NEW v, v = member[h].vtable, NEW i, i = setup[h].index
  PROVE  /\ WriteVFunc(h) /\ x = v /\ j = i => SwappedIn(x, j)' = SwappedIn(x, j) \cup {h}
         /\ UnHookVFunc(h) /\ x = v /\ j = i => SwappedIn(x, j)' = SwappedIn(x, j) \ {h}
                                                /\ h \in SwappedIn(x, j)
         /\ ~ ((WriteVFunc(h) \/ UnHookVFunc(h)) /\ x = v /\ j = i) => SwappedIn(x, j)' = SwappedIn(x, j)
<1>1. setup' = setup
  BY StepOfHook DEF SwapInv, OnlyHook
<1>2. \A k \in Hooks \ {h} : k \in SwappedIn(x, j)' <=> k \in SwappedIn(x, j)
  BY <1>1, StatusOf DEF SwappedIn
<1>3. WriteVFunc(h) /\ x = v /\ j = i => h \in SwappedIn(x, j)'
  <2>1. WriteVFunc(h) => status'[h] = "on" /\ member' = member /\ setup[h].type = "VFuncSwap"
    BY StatusOf, KindOf DEF WriteVFunc, OfVFunc, SetsVFunc
  <2> QED BY <1>1, <2>1 DEF SwappedIn
<1>4. UnHookVFunc(h) => /\ h \notin SwappedIn(x, j)'
                        /\ h \in SwappedIn(x, j) <=> x = v /\ j = i
  <2>1. UnHookVFunc(h) => status'[h] = "off" /\ status[h] = "on" /\ setup[h].type = "VFuncSwap"
    BY StatusOf DEF UnHookVFunc, Newest
  <2> QED BY <1>1, <2>1 DEF SwappedIn
<1>5. ~ UnHookVFunc(h) => h \notin SwappedIn(x, j)
  <2>1. setup[h].type = "VFuncSwap" => OfVFunc(h)
    BY KindOf
  <2>2. SetsVFunc(h) => status[h] = "new"
    BY OldOf
  <2> QED BY <2>1, <2>2 DEF SwappedIn, OfVFunc
<1>6. ~ UnHookVFunc(h) /\ ~ (WriteVFunc(h) /\ x = v /\ j = i) => h \notin SwappedIn(x, j)'
  <2>1. setup[h].type = "VFuncSwap" => OfVFunc(h)
    BY KindOf
  <2>2. SaveVFunc(h) => status'[h] = "new"
    BY StatusOf
  <2>3. WriteVFunc(h) => member' = member
    BY DEF WriteVFunc
  <2> QED BY <1>1, <2>1, <2>2, <2>3 DEF SwappedIn, OfVFunc, SetsVFunc
<1>7. \A k \in SwappedIn(x, j) \cup SwappedIn(x, j)' : k \in Hooks
  BY DEF SwappedIn
<1>8. WriteVFunc(h) => ~ UnHookVFunc(h)
  BY SwapAssumption DEF WriteVFunc, UnHookVFunc, Newest, At, Idle
<1> HIDE DEF SwappedIn
<1> QED BY <1>2, <1>3, <1>4, <1>5, <1>6, <1>7, <1>8

\* Nothing has been written over the entry of HookAdditional when its hook is the newest.
LEMMA MoreFree ==
  ASSUME SwapInv, AllLead, NEW h \in Hooks, status[h] = "on",
         \A g \in Hooks : status[g] = "on" => g <= h, NEW i
  PROVE  SwappedIn(h, i) = {}
<1>1. ASSUME NEW k \in SwappedIn(h, i) PROVE FALSE
  <2>1. k \in Hooks /\ setup[k].type = "VFuncSwap" /\ status[k] = "on" /\ member[k].vtable = h
    BY DEF SwappedIn
  <2>2. member[k].vtable < k
    BY <2>1 DEF AllLead, SwappedLead
  <2>3. h < k /\ k <= h
    BY <2>1, <2>2
  <2> QED BY <2>1, <2>3, SwapAssumption
<1> QED BY <1>1

\* HookAdditional is not used twice.
LEMMA MoreOnce ==
  ASSUME SwapInv, AllLead, MoreLayers, NEW h \in Hooks, HookStep(h), DivertMore(h)
  PROVE  member[h].more = Wild
<1>1. status[h] = "on" /\ table[h][setup[h].more] # Entry(Extra(h))
  BY DEF DivertMore, Newest
<1>2. \A g \in Hooks : status[g] = "on" => g <= h
  BY <1>1, NotSetting, OldOf
<1>3. SwappedIn(h, setup[h].more) = {}
  BY <1>1, <1>2, MoreFree
<1>4. Layered(SwappedIn(h, setup[h].more), Diverted, Origs, table[h][setup[h].more], Entry(Extra(h)))
        => table[h][setup[h].more] = Entry(Extra(h))
  BY <1>3 DEF Layered
<1> QED BY <1>1, <1>4 DEF MoreLayers

LEMMA MoreLayersStep ==
  ASSUME SwapInv, AllLead, setup \in Setups, MoreLayers, NEW h \in Hooks, HookStep(h)
  PROVE  MoreLayers'
<1>1. setup' = setup
  BY KnownStep
<1> SUFFICES ASSUME NEW g \in Hooks, member'[g].more # Wild, status'[g] = "on", NEW j, j = setup[g].more
             PROVE  Layered(SwappedIn(g, j)', Diverted, Origs', table'[g][j], Entry(Extra(g)))
  BY <1>1 DEF MoreLayers, Diverted
<1>2. AllLead'
  BY LeadsStep
<1>3. setup[g].type = "VTableSwap" /\ j \in Indices
  BY <1>1, <1>2 DEF AllLead, SavedFirst
<1>4. PICK v, i : v = member[h].vtable /\ i = setup[h].index
  OBVIOUS
<1>5. status[h] = "new" => \A f \in Hooks : status[f] # "new" => f < h
  <2>1. status[h] = "new" => SetsVFunc(h) \/ HookDetour(h) \/ SetsVTable(h) \/ SetsImport(h)
    BY OldOf
  <2> QED BY <2>1, OldOf
<1>6. ~ (FreeNewVtable(h) /\ g = h)
  BY StatusOf
<1>7. CASE DivertMore(h) /\ g = h
  <2>1. status[h] = "on" /\ \A f \in Hooks : status[f] = "on" => f <= h
    <3>1. status[h] = "on"
      BY <1>7 DEF DivertMore, Newest
    <3> QED BY <3>1, NotSetting, OldOf
  <2>2. SwappedIn(h, j) = {}
    BY <2>1, MoreFree
  <2>3. SwappedIn(h, j)' = SwappedIn(h, j)
    <3>1. ~ WriteVFunc(h) /\ ~ UnHookVFunc(h)
      BY <1>3, <1>7, KindOf DEF OfVFunc, SetsVFunc
    <3> QED BY <3>1, SwappedInStep
  <2>4. Live(h) /\ h \in {0} \cup Hooks
    BY <1>3, <1>7, <2>1 DEF Live
  <2>5. table'[h][j] = Entry(Extra(h))
    BY <1>3, <1>6, <1>7, <2>4, TableStep
  <2> QED BY <1>7, <2>2, <2>3, <2>5 DEF Layered
<1>8. CASE ~ (DivertMore(h) /\ g = h)
  <2>1. member[g].more # Wild /\ status[g] = "on"
    <3>1. CASE g # h
      BY <3>1, StatusOf
    <3>2. CASE g = h
      <4>1. member[h].more # Wild
        BY <1>8, <3>2, MemberOf
      <4>2. status[h] # "new"
        BY <4>1 DEF AllLead, SavedFirst
      <4> QED BY <3>2, <4>1, <4>2, StepOf
    <3> QED BY <3>1, <3>2
  <2>2. Live(g) /\ g \in {0} \cup Hooks
    BY <1>3, <2>1 DEF Live
  <2>3. PICK A, x, y : A = SwappedIn(g, j) /\ x = table[g][j] /\ y = table'[g][j]
    OBVIOUS
  <2>4. Layered(A, Diverted, Origs, x, Entry(Extra(g))) /\ A \in SUBSET Hooks
    BY <2>1, <2>3 DEF MoreLayers, SwappedIn
  <2>5. \A k \in A \ {h} : Origs'[k] = Origs[k]
    BY <2>4, StatusOf DEF Origs
  <2>6. CASE WriteVFunc(h) /\ g = v /\ j = i
    <3>1. y = Entry(Callback(h))
      BY <1>3, <1>4, <1>6, <2>2, <2>3, <2>6, TableStep
    <3>2. SwappedIn(g, j)' = A \cup {h}
      BY <1>4, <2>3, <2>6, SwappedInStep
    <3>3. At(h, "entry") /\ member' = member
      BY <2>6 DEF WriteVFunc
    <3>4. BusyWith(h) /\ busy.doing = "entry"
      BY <3>3, UnderWay
    <3>5. Origs'[h] = x
      BY <1>4, <2>3, <2>6, <3>3, <3>4 DEF BusyWith, Origs
    <3>6. status[h] = "new"
      BY <3>4 DEF BusyWith, Setting
    <3>7. \A k \in A : k < h
      BY <1>5, <2>3, <3>6 DEF SwappedIn
    <3>8. \A k \in A : Origs'[k] = Origs[k]
      BY <2>4, <3>3 DEF Origs
    <3>9. Diverted[h] = y
      BY <3>1 DEF Diverted
    <3>10. Layered(A \cup {h}, Diverted, Origs', Diverted[h], Entry(Extra(g)))
      BY <2>4, <3>5, <3>7, <3>8, LayerAdded
    <3> QED BY <2>3, <3>2, <3>9, <3>10
  <2>7. CASE UnHookVFunc(h) /\ g = v /\ j = i
    <3>1. y = member[h].orig /\ member' = member
      BY <1>3, <1>4, <1>6, <2>2, <2>3, <2>7, TableStep DEF UnHookVFunc
    <3>2. SwappedIn(g, j)' = A \ {h} /\ h \in A
      BY <1>4, <2>3, <2>7, SwappedInStep
    <3>3. status[h] = "on"
      BY <2>7 DEF UnHookVFunc, Newest
    <3>4. \A k \in A : k <= h
      BY <2>3, <3>3, NotSetting, OldOf DEF SwappedIn
    <3>5. Origs[h] = y /\ Origs' = Origs
      BY <3>1 DEF Origs
    <3>6. Layered(A \ {h}, Diverted, Origs, Origs[h], Entry(Extra(g)))
      BY <2>4, <3>2, <3>4, LayerRemoved
    <3> QED BY <2>3, <3>2, <3>5, <3>6
  <2>8. CASE ~ ((WriteVFunc(h) \/ UnHookVFunc(h)) /\ g = v /\ j = i)
    <3>1. SwappedIn(g, j)' = A
      BY <1>4, <2>3, <2>8, SwappedInStep
    <3>2. y = x
      <4>1. ~ (DivertEntry(h) /\ g = h)
        <5>1. DivertEntry(h) => status[h] = "new"
          BY OldOf DEF SetsVTable
        <5> QED BY <2>1, <5>1
      <4> QED BY <1>3, <1>4, <1>6, <1>8, <2>2, <2>3, <2>8, <4>1, TableStep
    <3>3. h \in A => Origs'[h] = Origs[h]
      <4>1. h \in A => status[h] = "on" /\ setup[h].type = "VFuncSwap"
        BY <2>3 DEF SwappedIn
      <4>2. status[h] = "on" /\ setup[h].type = "VFuncSwap" => UnHookVFunc(h)
        BY KindOf, NotSetting DEF OfVFunc
      <4>3. UnHookVFunc(h) => member' = member
        BY DEF UnHookVFunc
      <4> QED BY <4>1, <4>2, <4>3 DEF Origs
    <3>4. \A k \in A : Origs'[k] = Origs[k]
      BY <2>5, <3>3
    <3> QED BY <2>3, <2>4, <3>1, <3>2, <3>4, LayerKept
  <2> QED BY <2>6, <2>7, <2>8
<1> QED BY <1>7, <1>8

(***************************************************************************)
(* Where a call is, and what it is to pass.                                *)
(***************************************************************************)
\* The place a thread is at, or comes to with the vtable it has.
Now(t) == IF ip[t].at = "table" THEN table[ip[t].code][site[t].index] ELSE ip[t]

NowOK == \A t : Placed(t) /\ ip[t] # Out => Toward(Now(t), Function(site[t]))
LEMMA NowToward == AllLead => NowOK
<1> SUFFICES ASSUME AllLead, NEW t, Placed(t), ip[t] # Out
             PROVE  Toward(Now(t), Function(site[t]))
  BY DEF NowOK
<1>1. CASE Entering(t)
  <2>1. PICK x \in {0} \cup Hooks : ip[t] = Loaded(x) /\ Live(x) /\ site[t] \in VirtualSites \ Imports
    BY <1>1 DEF Entering
  <2>2. site[t].index \in Indices /\ Function(site[t]) = Virtuals[site[t].index]
    BY <2>1 DEF VirtualSites, Function
  <2>3. Leading(table[x][site[t].index], Virtuals[site[t].index])
    BY <2>1, <2>2 DEF AllLead, TablesLead
  <2>4. Now(t) = table[x][site[t].index]
    BY <2>1, PlaceKinds DEF Now
  <2> QED BY <2>2, <2>3, <2>4 DEF Leading, Toward
<1>2. CASE ip[t] = Done(Function(site[t]))
  <2>1. Now(t) = ip[t]
    BY <1>2, PlaceKinds DEF Now
  <2> QED BY <1>2, <2>1 DEF Toward
<1>3. ASSUME NEW c \in Code, Inside(t, c) PROVE Toward(Now(t), Function(site[t]))
  <2>1. Now(t) = ip[t]
    BY <1>3, PlaceKinds DEF Inside, Now
  <2> QED BY <1>3, <2>1 DEF Inside, Toward
<1>4. ASSUME NEW k \in Hooks, Detoured(t, k) PROVE Toward(Now(t), Function(site[t]))
  <2>1. Now(t) = ip[t]
    BY <1>4, PlaceKinds DEF Detoured, Now
  <2> QED BY <1>4, <2>1 DEF Detoured, Toward
<1> QED BY <1>1, <1>2, <1>3, <1>4 DEF Placed

LEMMA NowTowardNext == AllLead' => NowOK'
BY NowToward, PTL

PointersLead == \A s \in Sites : Leading(Pointers[s], Function(s))
LEMMA PointersToward == AllLead => PointersLead
<1> SUFFICES ASSUME AllLead, NEW s \in Sites PROVE Leading(Pointers[s], Function(s))
  BY DEF PointersLead
<1>1. CASE s \in Imports
  <2>1. Pointers[s] = iat[s] /\ Function(s) = s.function
    BY <1>1 DEF Pointers, Function
  <2> QED BY <1>1, <2>1 DEF AllLead, ImportsLead
<1>2. CASE s \notin Imports
  <2>1. s.object \in Objects /\ s.index \in Indices
    BY <1>2 DEF Sites, VirtualSites
  <2>2. Pointers[s] = table[vptr[s.object]][s.index] /\ Function(s) = Virtuals[s.index]
    BY <1>2 DEF Pointers, Function
  <2>3. vptr[s.object] \in {0} \cup Hooks /\ Live(vptr[s.object])
    BY <2>1, ObjectLive DEF AllLead
  <2> QED BY <2>1, <2>2, <2>3 DEF AllLead, TablesLead
<1> QED BY <1>1, <1>2

\* What is in the way of calls is known.
ChainOK == \A s \in Sites : ToSet(chain[s]) = Passes(Pointers[s])
ChainReaches ==
  \A r \in Sites : /\ ToSet(chain[r]) = Passes(Pointers[r])
                   /\ \A f : Function(r) = f => Passes(Pointers[r]) \subseteq Reaching(f)
LEMMA ChainReaching == ChainOK => ChainReaches
<1> SUFFICES ASSUME ChainOK, NEW r \in Sites
             PROVE  /\ ToSet(chain[r]) = Passes(Pointers[r])
                    /\ \A f : Function(r) = f => Passes(Pointers[r]) \subseteq Reaching(f)
  BY DEF ChainReaches
<1>1. ToSet(chain[r]) = Passes(Pointers[r])
  BY DEF ChainOK
<1>2. \A f : Function(r) = f => ToSet(chain[r]) \subseteq Reaching(f)
  BY DEF Reaching
<1> QED BY <1>1, <1>2

LEMMA ChainReachingNext == ChainOK' => ChainReaches'
BY ChainReaching, PTL

LEMMA WatchOf ==
  ASSUME NEW h \in Hooks, HookStep(h)
  PROVE  Watch
BY DEF HookStep, SaveVFunc, WriteVFunc, UnHookVFunc, HookDetour, RestoreCode, FreeTrampoline,
       CopyTable, SwapTable, DivertEntry, DivertMore, ReturnMore, RestoreClass, FreeNewVtable,
       FindImport, SaveImport, WriteImport, UnHookImport

\* A callback that no code on the way is.
LEMMA AvoidsIn ==
  ASSUME AllLead, NEW f, NEW h \in Hooks, NEW C \in SUBSET Code, NEW K \in SUBSET Hooks,
         \A c \in C : Known(c) /\ Fn(c) = f /\ c # Callback(h) /\ Patched(c) \subseteq K,
         \A k \in K : Detouring(k) /\ Fn(Callback(k)) = f /\ k # h /\ Source(k) \in C,
         \A c \in C, d \in Code : Known(d) /\ Fn(d) = f /\ Rank(d) < Rank(c) => d \in C
  PROVE  \A c \in C : Callback(h) \notin Passes(Entry(c))
<1> DEFINE Q == {Done(f)} \cup {Entry(c) : c \in C} \cup {Body(c) : c \in C}
                \cup {Entry(Callback(k)) : k \in K} \cup {Body(Callback(k)) : k \in K}
                \cup {Trampoline(k) : k \in K}
           x == Callback(h)
           Fine(q) == Toward(q, f) /\ (q # Done(f) => Leads(q, Links) \in Q /\ q # Body(x))
<1>1. \A c, d : Body(c) = Body(d) => c = d
  BY DEF Body
<1>2. \A k : Callback(k) = Callback(h) => k = h
  BY DEF Callback
<1>3. \A c \in C : Fine(Entry(c)) /\ Fine(Body(c))
  <2> SUFFICES ASSUME NEW c \in C PROVE Fine(Entry(c)) /\ Fine(Body(c))
    OBVIOUS
  <2>1. c \in Code /\ Known(c) /\ Fn(c) = f /\ c # x
    OBVIOUS
  <2>2. Toward(Entry(c), f) /\ Toward(Body(c), f)
    BY <2>1 DEF Toward
  <2>3. Entry(c) # Body(x) /\ Body(c) # Body(x)
    BY <1>1, <2>1, PlaceKinds
  <2>4. Leads(Entry(c), Links) \in Q
    <3>1. Leads(Entry(c), Links) = Body(c) \/ \E k \in K : Leads(Entry(c), Links) = Entry(Callback(k))
      BY <2>1, PlaceLeads
    <3> QED BY <3>1
  <2>5. Leads(Body(c), Links) \in Q
    <3>1. CASE c \notin Callbacks
      <4>1. Leads(Body(c), Links) = Done(f)
        BY <2>1, <3>1, PlaceLeads
      <4> QED BY <4>1
    <3>2. CASE c \in Callbacks
      <4>1. PICK d \in Code : /\ Leads(Body(c), Links) = Entry(d) /\ Known(d) /\ Fn(d) = f
                              /\ Rank(d) < Rank(c)
        BY <2>1, <3>2, PlaceLeads DEF LeadingBelow
      <4>2. d \in C
        BY <4>1
      <4> QED BY <4>1, <4>2
    <3> QED BY <3>1, <3>2
  <2> QED BY <2>2, <2>3, <2>4, <2>5
<1>4. \A k \in K : Fine(Entry(Callback(k))) /\ Fine(Body(Callback(k))) /\ Fine(Trampoline(k))
  <2> SUFFICES ASSUME NEW k \in K
               PROVE  Fine(Entry(Callback(k))) /\ Fine(Body(Callback(k))) /\ Fine(Trampoline(k))
    OBVIOUS
  <2>1. k \in Hooks /\ Detouring(k) /\ Fn(Callback(k)) = f /\ k # h /\ Source(k) \in C
    OBVIOUS
  <2>2. Toward(Entry(Callback(k)), f) /\ Toward(Body(Callback(k)), f) /\ Toward(Trampoline(k), f)
    BY <2>1 DEF Toward
  <2>3. Entry(Callback(k)) # Body(x) /\ Body(Callback(k)) # Body(x) /\ Trampoline(k) # Body(x)
    BY <1>1, <1>2, <2>1, PlaceKinds
  <2>4. /\ Leads(Entry(Callback(k)), Links) = Body(Callback(k))
        /\ Leads(Body(Callback(k)), Links) = Trampoline(k)
        /\ \/ Leads(Trampoline(k), Links) = Body(Source(k))
           \/ \E j \in K : Leads(Trampoline(k), Links) = Entry(Callback(j))
    BY <2>1, PlaceLeads
  <2> QED BY <2>1, <2>2, <2>3, <2>4
<1>5. Fine(Done(f))
  BY DEF Toward
<1>6. \A q \in Q : Fine(q)
  <2> HIDE DEF Fine
  <2> QED BY <1>3, <1>4, <1>5
<1>7. \A c \in C : Entry(c) \in Q
  OBVIOUS
<1>8. OnTheWay
  BY WayOf
<1> HIDE DEF Q
<1>9. \A p \in Q : x \notin Passes(p)
  BY <1>6, <1>8, Avoids
<1> QED BY <1>7, <1>9

\* The callback of a detour whose code is restored is in the way of no call any more.
RemovedDetour ==
  \A h \in Hooks : setup[h].type = "VFuncDetour" /\ At(h, "trampoline") =>
    \A s \in Sites : Callback(h) \notin Passes(Pointers[s])
LEMMA DetourRemoved == AllLead => RemovedDetour
<1> SUFFICES ASSUME AllLead, NEW h \in Hooks, setup[h].type = "VFuncDetour", At(h, "trampoline"),
                    NEW s \in Sites
             PROVE  Callback(h) \notin Passes(Pointers[s])
  BY DEF RemovedDetour
<1> DEFINE f == Function(s)
           C == {c \in Code : Known(c) /\ Fn(c) = f}
           K == {k \in Hooks : Detouring(k) /\ Fn(Callback(k)) = f /\ k # h}
<1>1. PICK c \in Code : Pointers[s] = Entry(c) /\ Known(c) /\ Fn(c) = f
  BY PointersToward DEF PointersLead, Leading
<1>2. ASSUME NEW d \in C PROVE Known(d) /\ Fn(d) = f /\ d # Callback(h) /\ Patched(d) \subseteq K
  <2>1. d \in Code /\ Known(d) /\ Fn(d) = f
    OBVIOUS
  <2>2. d # Callback(h)
    <3>1. Callback(h) \in Callbacks /\ Callback(h).hook = h
      BY DEF Callbacks, Callback
    <3> QED BY <2>1, <3>1, KnownOriginal
  <2>3. h \notin Patched(d)
    BY DEF Patched
  <2>4. \A k \in Patched(d) : k \in K
    BY <2>1, <2>3, PatchedOf
  <2> QED BY <2>1, <2>2, <2>4
<1>3. \A k \in K : Detouring(k) /\ Fn(Callback(k)) = f /\ k # h /\ Source(k) \in C
  BY DetourOf
<1>4. C \in SUBSET Code /\ K \in SUBSET Hooks /\ c \in C
  BY <1>1
<1>5. \A d \in C, e \in Code : Known(e) /\ Fn(e) = f /\ Rank(e) < Rank(d) => e \in C
  OBVIOUS
<1> HIDE DEF C, K, f
<1>6. \A d \in C : Callback(h) \notin Passes(Entry(d))
  BY <1>2, <1>3, <1>4, <1>5, AvoidsIn
<1> QED BY <1>1, <1>4, <1>6

LEMMA DetourRemovedNext == AllLead' => RemovedDetour'
BY DetourRemoved, PTL

\* Nor is that of a hook whose entry is written back.
RemovedSwap ==
  \A h \in Hooks : setup[h].type = "VFuncSwap" /\ busy = Idle
                   /\ (\A g \in Hooks : status[g] = "on" => g < h) =>
    \A s \in Sites : Callback(h) \notin Passes(Pointers[s])
LEMMA SwapRemoved == SwapInv /\ AllLead => RemovedSwap
<1> SUFFICES ASSUME SwapInv, AllLead, NEW h \in Hooks, setup[h].type = "VFuncSwap", busy = Idle,
                    \A g \in Hooks : status[g] = "on" => g < h,
                    NEW s \in Sites
             PROVE  Callback(h) \notin Passes(Pointers[s])
  BY DEF RemovedSwap
<1> DEFINE f == Function(s)
           C == {c \in Code : Known(c) /\ Fn(c) = f /\ Rank(c) < h}
           K == {k \in Hooks : Detouring(k) /\ Fn(Callback(k)) = f /\ k # h /\ Source(k) \in C}
<1>1. PICK c \in Code : Pointers[s] = Entry(c) /\ Known(c) /\ Fn(c) = f
  BY PointersToward DEF PointersLead, Leading
<1>2. \A g \in Hooks : \A d : ~ At(g, d)
  BY NoneAt
<1>3. \A d, e : Entry(d) = Entry(e) => d = e
  BY DEF Entry
<1>4. h \in Nat /\ h > 0 /\ \A g \in Hooks : g \in Nat /\ g > 0
  BY SwapAssumption
<1>5. \A d \in Functions : Rank(d) < h
  BY <1>4, RankOf
<1>6. Rank(c) < h
  <2>1. CASE s \in Imports
    <3>1. Pointers[s] = iat[s]
      BY <2>1 DEF Pointers
    <3>2. Layered(Imported(s), Diverted, Origs, iat[s], Entry(s.function))
      BY <2>1 DEF SwapInv, Layers, ImportLayers
    <3>3. Imported(s) \in SUBSET Hooks
      BY DEF Imported
    <3>4. CASE iat[s] = Entry(s.function)
      BY <1>1, <1>3, <1>5, <2>1, <3>1, <3>4 DEF Functions
    <3>5. CASE \E g \in Imported(s) : iat[s] = Diverted[g]
      <4>1. PICK g \in Imported(s) : iat[s] = Diverted[g]
        BY <3>5
      <4>2. g \in Hooks /\ status[g] = "on" /\ Diverted[g] = Entry(Callback(g))
        BY DEF Imported, Diverted
      <4> QED BY <1>1, <1>3, <3>1, <4>1, <4>2, RankOf
    <3> QED BY <3>2, <3>3, <3>4, <3>5, LayeredValue
  <2>2. CASE s \notin Imports
    <3>1. s.object \in Objects /\ s.index \in Indices
      BY <2>2 DEF Sites, VirtualSites
    <3>2. PICK x : x = vptr[s.object]
      OBVIOUS
    <3>3. x \in {0} \cup Hooks /\ Live(x)
      BY <3>1, <3>2, ObjectLive DEF AllLead
    <3>4. Pointers[s] = table[x][s.index]
      BY <2>2, <3>2 DEF Pointers
    <3>5. Held(x, s.index, c)
      <4>1. TablesLead
        BY DEF AllLead
      <4>3. \A j \in Indices : Held(x, j, table[x][j].code)
        BY <3>3, <4>1 DEF TablesLead
      <4>2. table[x][s.index].code = c
        <5>1. table[x][s.index] = Entry(c)
          BY <1>1, <3>4
        <5> QED BY <5>1, PlaceKinds
      <4> QED BY <3>1, <4>2, <4>3
    <3>6. x \in Nat /\ x < h
      <4>1. CASE x = 0
        BY <1>4, <4>1
      <4>2. CASE x # 0
        <5>1. x \in Hooks /\ status[x] = "on"
          BY <1>2, <3>3, <4>2 DEF Live
        <5> QED BY <1>4, <5>1
      <4> QED BY <4>1, <4>2
    <3>7. CASE c \in Callbacks /\ c.hook <= x
      <4>1. c.hook \in Hooks /\ Rank(c) = c.hook
        BY <3>7 DEF Callbacks, Callback, Extra, Rank
      <4>2. PICK g \in Nat : g = c.hook
        BY <1>4, <4>1
      <4>3. g < h
        BY <1>4, <3>6, <3>7, <4>2
      <4> QED BY <4>1, <4>2, <4>3
    <3>8. CASE \E k \in Hooks : c = Callback(k) /\ status[k] = "on"
      BY <3>8, RankOf
    <3> QED BY <1>5, <3>5, <3>7, <3>8 DEF Held
  <2> QED BY <2>1, <2>2
<1>7. ASSUME NEW d \in C PROVE Known(d) /\ Fn(d) = f /\ d # Callback(h) /\ Patched(d) \subseteq K
  <2>1. d \in Code /\ Known(d) /\ Fn(d) = f /\ Rank(d) < h
    OBVIOUS
  <2>2. d # Callback(h)
    BY <1>4, <2>1, RankOf
  <2>3. h \notin Patched(d)
    BY DEF Patched
  <2>4. \A k \in Patched(d) : k \in K
    BY <2>1, <2>3, PatchedOf
  <2> QED BY <2>1, <2>2, <2>4
<1>8. \A k \in K : Detouring(k) /\ Fn(Callback(k)) = f /\ k # h /\ Source(k) \in C
  OBVIOUS
<1>9. C \in SUBSET Code /\ K \in SUBSET Hooks /\ c \in C
  BY <1>1, <1>6
<1>10. \A d \in C, e \in Code : Known(e) /\ Fn(e) = f /\ Rank(e) < Rank(d) => e \in C
  <2>1. \A d \in C, e \in Code : Rank(e) < Rank(d) => Rank(e) < h
    <3>1. \A d, e : Rank(d) \in Nat /\ Rank(e) \in Nat
      BY RankOf
    <3>2. \A d \in C : Rank(d) < h
      OBVIOUS
    <3> HIDE DEF C
    <3> QED BY <1>4, <3>1, <3>2
  <2> QED BY <2>1
<1> HIDE DEF C, K, f
<1>11. \A d \in C : Callback(h) \notin Passes(Entry(d))
  BY <1>7, <1>8, <1>9, <1>10, AvoidsIn
<1> QED BY <1>1, <1>9, <1>11

LEMMA SwapRemovedNext == SwapInv' /\ AllLead' => RemovedSwap'
BY SwapRemoved, PTL

\* What is passed on the way of a hook that swaps an entry.
SwapPassed ==
  \A g \in Hooks : \A f :
    setup[g].type = "VFuncSwap" /\ Patched(Callback(g)) = {} /\ Toward(Entry(Callback(g)), f) =>
      /\ Toward(member[g].orig, f)
      /\ Passes(Entry(Callback(g))) = Passes(member[g].orig) \cup {Callback(g)}
LEMMA SwapPassing == AllLead => SwapPassed
<1> SUFFICES ASSUME AllLead, NEW g \in Hooks, NEW f, Patched(Callback(g)) = {},
                    Toward(Entry(Callback(g)), f)
             PROVE  /\ Toward(member[g].orig, f)
                    /\ Passes(Entry(Callback(g))) = Passes(member[g].orig) \cup {Callback(g)}
  BY DEF SwapPassed
<1>1. PICK a, b, c : a = Entry(Callback(g)) /\ b = Body(Callback(g)) /\ c = member[g].orig
  OBVIOUS
<1>2. Callback(g) \in Callbacks /\ Callback(g) \in Code /\ Callback(g).hook = g /\ ~ Callback(g).extra
  BY DEF Callbacks, Callback, Code
<1>3. Leads(a, Links) = b /\ Leads(b, Links) = c
  <2>1. patch[Callback(g)] = Body(Callback(g))
    BY <1>2 DEF AllLead, FunctionsLead
  <2>2. Leads(b, Links) = member[g].orig
    BY <1>1, <1>2, LeadsIn, LinksIn
  <2> QED BY <1>1, <2>1, <2>2, LeadsIn, LinksIn
<1>4. OnTheWay
  BY WayOf
<1>5. a # Done(f) /\ b # Done(f) /\ Passed(a) = {} /\ Passed(b) = {Callback(g)}
  BY <1>1, PlaceKinds DEF Passed
<1>6. Toward(b, f) /\ Passes(a) = Passes(b)
  <2>1. WayFacts(a, f)
    BY <1>1, <1>4 DEF OnTheWay
  <2> QED BY <1>3, <1>5, <2>1 DEF WayFacts
<1>7. Toward(c, f) /\ Passes(b) = Passes(c) \cup {Callback(g)}
  <2>1. WayFacts(b, f)
    BY <1>4, <1>6 DEF OnTheWay
  <2> QED BY <1>3, <1>5, <2>1 DEF WayFacts
<1> QED BY <1>1, <1>6, <1>7

LEMMA SwapPassingNext == AllLead' => SwapPassed'
BY SwapPassing, PTL

\* When a hook is the newest of an object, calls through the object use its copy.
LEMMA NewestPointed ==
  ASSUME SwapInv, NEW o \in Objects, NEW h \in Pointed(o), \A g \in Pointed(o) : g <= h
  PROVE  vptr[o] = h
<1>1. vptr[o] \in Pointed(o) /\ h <= vptr[o] /\ vptr[o] <= h
  BY ObjectValue
<1>2. \A g \in Pointed(o) : g \in Nat
  BY SwapAssumption DEF Pointed
<1>3. PICK a \in Nat, b \in Nat : a = vptr[o] /\ b = h
  BY <1>1, <1>2
<1>4. a <= b /\ b <= a
  BY <1>1, <1>3
<1>5. a = b
  BY ONLY <1>3, <1>4
<1> QED BY <1>3, <1>5

LEMMA SwapObject ==
  ASSUME SwapInv, AllLead, setup \in Setups, SwapVtable, NEW h \in Hooks, HookStep(h),
         WriteVFunc(h) \/ UnHookVFunc(h), NEW o, o = setup[h].object, NEW x, x = member[h].vtable
  PROVE  /\ o \in Objects /\ vptr[o] = x /\ vptr' = vptr
         /\ x = 0 \/ (x \in Hooks /\ setup[x].object = o)
<1>1. setup[h].type = "VFuncSwap" /\ vptr' = vptr
  BY KindOf DEF OfVFunc, SetsVFunc, WriteVFunc, UnHookVFunc
<1>2. o \in Objects
  BY <1>1, SetupOf
<1>3. /\ x = 0 \/ x \in Pointed(o)
      /\ \A y \in Pointed(o) : y < h => y <= x
  <2>1. status[h] = "on" \/ At(h, "entry")
    BY DEF WriteVFunc, UnHookVFunc, Newest
  <2> QED BY <1>1, <2>1 DEF SwapVtable
<1>4. \A y \in Pointed(o) : y < h
  <2>1. \A y \in Pointed(o) : y \in Hooks /\ y # h /\ status[y] \in {"on", "new"}
                              /\ (status[y] = "on" \/ At(y, "new entry"))
    <3>1. \A y \in Pointed(o) : y \in Hooks /\ y # h /\ (status[y] = "on" \/ At(y, "new entry"))
      BY <1>1 DEF Pointed
    <3>2. \A y \in Hooks : At(y, "new entry") => status[y] = "new"
      BY UnderWay DEF BusyWith, Setting
    <3> QED BY <3>1, <3>2
  <2>2. \A y \in Pointed(o) : status[y] = "on"
    <3>1. \A y \in Hooks \ {h} : ~ At(y, "new entry")
      BY OldOf
    <3> QED BY <2>1, <3>1
  <2>3. CASE WriteVFunc(h)
    BY <2>1, <2>2, <2>3, OldOf DEF SetsVFunc
  <2>4. CASE UnHookVFunc(h)
    <3>1. \A y \in Hooks : status[y] = "on" => y <= h
      <4>1. status[h] = "on"
        BY <2>4 DEF UnHookVFunc, Newest
      <4> QED BY <4>1, NotSetting, OldOf
    <3>2. \A y \in Hooks : y <= h /\ y # h => y < h
      BY SwapAssumption
    <3> QED BY <2>1, <2>2, <3>1, <3>2
  <2> QED BY <2>3, <2>4
<1>5. CASE x \in Pointed(o)
  <2>1. vptr[o] = x
    BY <1>2, <1>3, <1>4, <1>5, NewestPointed
  <2> QED BY <1>1, <1>2, <1>5, <2>1 DEF Pointed
<1>6. CASE x = 0
  <2>1. Pointed(o) = {}
    <3>1. ASSUME NEW y \in Pointed(o) PROVE FALSE
      <4>1. y \in Hooks /\ y <= 0
        BY <1>3, <1>4, <1>6 DEF Pointed
      <4>2. \A g \in Hooks : ~ (g <= 0)
        BY SwapAssumption
      <4> QED BY <4>1, <4>2
    <3> QED BY <3>1
  <2>2. vptr[o] = 0
    BY <1>2, <2>1, ObjectValue
  <2>3. vptr[o] = x
    BY <1>6, <2>2
  <2> QED BY <1>1, <1>2, <1>6, <2>3
<1> QED BY <1>3, <1>5, <1>6

\* A hook that is set over the entry of an object is in the way of calls through it.
LEMMA SiteOf ==
  ASSUME setup \in Setups, NEW h \in Hooks, setup[h].type # "IAT",
         NEW r, r = [object |-> setup[h].object, index |-> setup[h].index]
  PROVE  /\ r \in Sites /\ r \notin Imports /\ Function(r) = Fn(Callback(h))
         /\ Fn(Callback(h)) = Virtuals[setup[h].index]
         /\ Pointers[r] = table[vptr[setup[h].object]][setup[h].index]
         /\ Pointers'[r] = table'[vptr'[setup[h].object]][setup[h].index]
<1>1. r \in VirtualSites /\ r.object = setup[h].object /\ r.index = setup[h].index
  BY SetupOf DEF VirtualSites
<1>2. r \in Sites /\ r \notin Imports
  BY <1>1, SiteAssumption DEF Sites
<1>3. Fn(Callback(h)) = Virtuals[setup[h].index]
  <2>1. Callback(h) \in Callbacks /\ Callback(h).hook = h /\ ~ Callback(h).extra
    BY DEF Callbacks, Callback
  <2> QED BY <2>1 DEF Fn
<1> QED BY <1>1, <1>2, <1>3 DEF Function, Pointers

LEMMA DetouredHome ==
  ASSUME SwapInv, AllLead, setup \in Setups, NEW h \in Hooks, HookStep(h), HookDetour(h),
         NEW r, r = [object |-> setup[h].object, index |-> setup[h].index]
  PROVE  r \in Sites /\ Function(r) = Fn(Callback(h)) /\ Callback(h) \in Passes(Pointers[r])'
<1> PICK f : f = Fn(Callback(h))
  OBVIOUS
<1>1. PICK c \in Code :
        /\ Known(c) /\ Fn(c) = f /\ Rank(c) < h
        /\ table[vptr[setup[h].object]][setup[h].index] = Entry(c)
        /\ patch'[c] = Entry(Callback(h)) /\ Source(h)' = c /\ Detouring(h)'
  BY PatchOf
<1>2. AllLead' /\ setup' = setup /\ \A d : Fn(d)' = Fn(d) /\ (Known(d) => Known(d)')
  BY LeadsStep, KnownStep
<1>3. setup[h].type = "VFuncDetour" /\ vptr' = vptr /\ table' = table
  BY DEF HookDetour, Begin
<1>4. r \in Sites /\ Function(r) = f /\ Pointers'[r] = Entry(c)
  BY <1>1, <1>3, SiteOf
<1>5. Toward(Entry(c), f)'
  BY <1>1, <1>2 DEF Toward
<1>6. Leads(Entry(c), Links') = Entry(Callback(h)) /\ Entry(c) # Done(f)
  BY <1>1, LeadsIn, LinksIn, PlaceKinds
<1>7. Passes(Entry(Callback(h)))' \subseteq Passes(Entry(c))'
  <2>1. WayFacts(Entry(c), f)'
    BY <1>2, <1>5, WayOfNext DEF OnTheWay
  <2>2. Passes(Entry(c))' = Passes(Leads(Entry(c), Links))' \cup Passed(Entry(c))'
    BY <1>6, <2>1 DEF WayFacts
  <2>3. Passes(Leads(Entry(c), Links))' = Passes(Entry(Callback(h)))'
    BY <1>6 DEF Passes
  <2> QED BY <2>2, <2>3
<1>8. Callback(h) \in Passes(Entry(Callback(h)))'
  <2>1. Fn(Callback(h))' = f
    BY <1>2
  <2> QED BY <1>1, <1>2, <2>1, DetourPassingNext DEF DetourPassed
<1>9. Passes(Pointers[r])' = Passes(Entry(c))'
  BY <1>4 DEF Passes
<1> QED BY <1>4, <1>7, <1>8, <1>9

LEMMA HookedPassed ==
  ASSUME SwapInv, AllLead, setup \in Setups, ChainOK', NEW h \in Hooks, HookStep(h), HookDetour(h)
  PROVE  Callback(h) \in Reaching(Fn(Callback(h)))'
<1>1. PICK r, f : r = [object |-> setup[h].object, index |-> setup[h].index] /\ f = Fn(Callback(h))
  OBVIOUS
<1>2. r \in Sites /\ Function(r) = f /\ Callback(h) \in Passes(Pointers[r])'
  BY <1>1, DetouredHome
<1>3. \A e : Function(r) = e => Passes(Pointers[r])' \subseteq Reaching(e)'
  BY <1>2, ChainReachingNext DEF ChainReaches
<1>4. Reaching(f)' = Reaching(Fn(Callback(h)))'
  <2>1. Fn(Callback(h))' = Fn(Callback(h))
    BY KnownStep
  <2> QED BY <1>1, <2>1
<1> QED BY <1>2, <1>3, <1>4

\* What a call passes from a place, when the hooking thread does not change what is there.
LEMMA StayStep ==
  ASSUME SwapInv, AllLead, setup \in Setups, MoreLayers, ChainOK', NEW h \in Hooks, HookStep(h),
         NEW f, NEW p, Toward(p, f), Toward(p, f)', NEW s \in Sites
  PROVE  /\ Passes(p) \cap Passes(Pointers[s])' \subseteq Passes(p)'
         /\ Passes(p)' \subseteq Passes(p) \cup Reaching(f)'
         /\ ~ RestoreCode(h) => Passes(p) \subseteq Passes(p)'
<1>1. /\ Passes(p) \subseteq Passes(p)' \cup (IF RestoreCode(h) THEN {Callback(h)} ELSE {})
      /\ Passes(p)' \subseteq Passes(p) \cup (IF HookDetour(h) THEN {Callback(h)} ELSE {})
  BY PassesStep, MoreOnce
<1>2. AllLead' /\ setup' = setup
  BY LeadsStep, KnownStep
<1>3. RestoreCode(h) => Callback(h) \notin Passes(Pointers[s])'
  <2>1. RestoreCode(h) => setup'[h].type = "VFuncDetour" /\ At(h, "trampoline")'
    BY <1>2 DEF RestoreCode, Newest, Continue, At
  <2> QED BY <1>2, <2>1, DetourRemovedNext DEF RemovedDetour
<1>4. HookDetour(h) /\ Callback(h) \in Passes(p)' => Callback(h) \in Reaching(f)'
  <2> SUFFICES ASSUME HookDetour(h), Callback(h) \in Passes(p)' PROVE Callback(h) \in Reaching(f)'
    OBVIOUS
  <2>1. WayFacts(p, f)'
    BY <1>2, WayOfNext DEF OnTheWay
  <2>2. Fn(Callback(h))' = f
    BY <2>1 DEF WayFacts
  <2>3. Reaching(f)' = Reaching(Fn(Callback(h)))'
    BY <2>2
  <2> QED BY <2>3, HookedPassed
<1> QED BY <1>1, <1>3, <1>4

\* A thread that has the vtable of an object the newest hook of which writes an entry has
\* the one the object uses.
LEMMA TurnedPointer ==
  ASSUME SwapInv, AllLead, setup \in Setups, SwapVtable, NEW h \in Hooks, HookStep(h),
         NEW x \in {0} \cup Hooks, NEW s \in VirtualSites,
         x \in Hooks => s.object = setup[x].object,
         \/ (DivertEntry(h) \/ DivertMore(h)) /\ x = h
         \/ UnHookVFunc(h) /\ x = member[h].vtable /\ x # 0
  PROVE  vptr'[s.object] = x
<1>1. s.object \in Objects
  BY DEF VirtualSites
<1>2. CASE (DivertEntry(h) \/ DivertMore(h)) /\ x = h
  <2>1. vptr' = vptr /\ setup[h].type = "VTableSwap" /\ s.object = setup[h].object
    BY <1>2, KindOf DEF DivertEntry, DivertMore, OfVTable, SetsVTable
  <2>2. h \in Pointed(s.object)
    <3>1. DivertEntry(h) => At(h, "new entry")
      BY DEF DivertEntry
    <3>2. DivertMore(h) => status[h] = "on" /\ ~ At(h, "free")
      BY NoneAt DEF DivertMore, Newest
    <3> QED BY <1>2, <2>1, <3>1, <3>2 DEF Pointed
  <2>3. \A g \in Pointed(s.object) : g <= h
    <3>1. \A g \in Pointed(s.object) : g \in Hooks /\ (g # h => status[g] = "on")
      <4>1. \A g \in Hooks \ {h} : ~ At(g, "new entry")
        BY OldOf
      <4> QED BY <4>1 DEF Pointed
    <3>2. \A g \in Hooks : status[g] = "on" => g <= h
      <4>1. DivertEntry(h) => \A g \in Hooks : status[g] = "on" => g < h
        BY OldOf DEF SetsVTable
      <4>2. DivertMore(h) => \A g \in Hooks : status[g] = "on" => g <= h
        <5>1. DivertMore(h) => status[h] = "on"
          BY DEF DivertMore, Newest
        <5> QED BY <5>1, NotSetting, OldOf
      <4>3. \A g \in Hooks : g < h => g <= h
        BY SwapAssumption
      <4> QED BY <1>2, <4>1, <4>2, <4>3
    <3>3. h <= h
      BY SwapAssumption
    <3> QED BY <3>1, <3>2, <3>3
  <2> QED BY <1>1, <1>2, <2>1, <2>2, <2>3, NewestPointed
<1>3. CASE UnHookVFunc(h) /\ x = member[h].vtable /\ x # 0
  <2>1. s.object = setup[x].object
    BY <1>3
  <2> QED BY <1>3, <2>1, SwapObject
<1> QED BY <1>2, <1>3

\* VFuncSwap puts its callback before what a call with the vtable comes to, and takes it
\* away again.
LEMMA WriteTurned ==
  ASSUME SwapInv, AllLead, setup \in Setups, SourceOlder, SwapVtable, MoreLayers, ChainOK',
         NEW h \in Hooks, HookStep(h), WriteVFunc(h),
         NEW f, NEW p, NEW q, f = Fn(Callback(h)), Toward(p, f), Toward(q, f)',
         p = table[member[h].vtable][setup[h].index], q = Entry(Callback(h)),
         q = table'[member[h].vtable][setup[h].index]
  PROVE  Passes(p) \subseteq Passes(q)' /\ Passes(q)' \subseteq Reaching(f)'
<1>1. AllLead' /\ setup' = setup /\ member' = member
  BY LeadsStep, KnownStep DEF WriteVFunc
<1>2. setup[h].type = "VFuncSwap" /\ member[h].orig = p
  <2>1. At(h, "entry")
    BY DEF WriteVFunc
  <2>2. busy.doing = "entry" /\ BusyWith(h)
    BY <2>1, UnderWay
  <2> QED BY <2>2 DEF BusyWith
<1>3. Patched(Callback(h))' = {}
  <2>1. SourceOlder'
    BY SourceOlderStep
  <2>2. ASSUME NEW k \in Patched(Callback(h))' PROVE FALSE
    <3>1. k \in Hooks /\ Detouring(k)' /\ Source(k)' = Callback(h)
      BY DEF Patched, Detouring, Source
    <3>2. Rank(Source(k))' < k
      BY <2>1, <3>1 DEF SourceOlder
    <3>3. Rank(Source(k))' = h
      <4>1. Rank(Source(k))' = Rank(Callback(h))
        BY <3>1 DEF Rank
      <4> QED BY <4>1, RankOf
    <3>4. k # h /\ status[k] = "on"
      BY <1>1, <1>2, <3>1, StatusOf DEF Detouring
    <3>5. k < h
      BY <3>1, <3>4, OldOf DEF SetsVFunc
    <3> QED BY <3>1, <3>2, <3>3, <3>5, SwapAssumption
  <2> QED BY <2>2
<1>4. Toward(p, f)' /\ Passes(q)' = Passes(p)' \cup {Callback(h)}
  <2>1. member'[h].orig = p /\ setup'[h].type = "VFuncSwap" /\ Toward(Entry(Callback(h)), f)'
    BY <1>1, <1>2
  <2>2. /\ Toward(member[h].orig, f)'
        /\ Passes(Entry(Callback(h)))' = Passes(member[h].orig)' \cup {Callback(h)}
    BY <1>1, <1>3, <2>1, SwapPassingNext DEF SwapPassed
  <2> QED BY <2>1, <2>2
<1>5. PICK r : r = [object |-> setup[h].object, index |-> setup[h].index]
  OBVIOUS
<1>6. r \in Sites /\ Function(r) = f /\ Pointers'[r] = q
  BY <1>2, <1>5, SiteOf, SwapObject
<1>7. Passes(p) \subseteq Passes(p)'
  <2>1. ~ RestoreCode(h)
    BY <1>2, KindOf DEF OfDetour
  <2> QED BY <1>4, <1>6, <2>1, StayStep
<1>8. Passes(q)' \subseteq Reaching(f)'
  <2>1. Passes(Pointers[r])' \subseteq Reaching(f)'
    BY <1>6, ChainReachingNext DEF ChainReaches
  <2>2. Passes(Pointers[r])' = Passes(q)'
    BY <1>6
  <2> QED BY <2>1, <2>2
<1> QED BY <1>4, <1>7, <1>8

LEMMA UnHookTurned ==
  ASSUME SwapInv, AllLead, setup \in Setups, SourceOlder, SwapVtable, MoreLayers, ChainOK',
         NEW h \in Hooks, HookStep(h), UnHookVFunc(h), member[h].vtable = 0,
         NEW f, NEW p, NEW q, f = Fn(Callback(h)), Toward(p, f), Toward(q, f)',
         p = table[0][setup[h].index], q = member[h].orig, NEW s \in Sites
  PROVE  Passes(p) \cap Passes(Pointers[s])' \subseteq Passes(q)'
<1>1. AllLead' /\ SwapInv' /\ setup' = setup
  BY LeadsStep, KnownStep, SwapInvStep DEF Next
<1>2. setup[h].type = "VFuncSwap" /\ status[h] = "on" /\ setup[h].index \in Indices
  BY SetupOf DEF UnHookVFunc, Newest
<1>3. \A g \in Hooks : status[g] = "on" => g <= h
  BY <1>2, NotSetting, OldOf
<1>4. p = Entry(Callback(h))
  <2>1. PICK i \in Indices : i = setup[h].index
    BY <1>2
  <2>2. Layered(Swapped(i), Diverted, Origs, table[0][i], Entry(Virtuals[i]))
    BY DEF SwapInv, Layers, VirtualLayers
  <2>3. h \in Swapped(i) /\ \A g \in Swapped(i) : g <= h
    BY <1>2, <1>3, <2>1 DEF Swapped
  <2>4. table[0][i] = Diverted[h]
    BY <2>2, <2>3 DEF Layered
  <2> QED BY <2>1, <2>4 DEF Diverted
<1>5. Patched(Callback(h)) = {}
  <2>1. ASSUME NEW k \in Patched(Callback(h)) PROVE FALSE
    <3>1. k \in Hooks /\ Detouring(k) /\ Source(k) = Callback(h)
      BY PatchedOf
    <3>2. h < k
      BY <3>1, RankOf DEF SourceOlder
    <3>3. k <= h
      BY <1>3, <3>1 DEF Detouring
    <3> QED BY <3>1, <3>2, <3>3, SwapAssumption
  <2> QED BY <2>1
<1>6. Toward(q, f) /\ Passes(p) = Passes(q) \cup {Callback(h)}
  BY <1>2, <1>4, <1>5, SwapPassing DEF SwapPassed
<1>7. Passes(q) \subseteq Passes(q)'
  <2>1. ~ RestoreCode(h)
    BY <1>2, KindOf DEF OfDetour
  <2> QED BY <1>6, <2>1, StayStep
<1>8. Callback(h) \notin Passes(Pointers[s])'
  <2>1. busy' = Idle /\ \A g \in Hooks : status'[g] = "on" => g < h
    <3>1. busy' = Idle /\ status'[h] = "off"
      BY StatusOf DEF UnHookVFunc, Finish
    <3>2. \A g \in Hooks \ {h} : status'[g] = "on" => g <= h
      BY <1>3, StatusOf
    <3>3. \A g \in Hooks \ {h} : g <= h => g < h
      BY SwapAssumption
    <3> QED BY <3>1, <3>2, <3>3
  <2> QED BY <1>1, <1>2, <2>1, SwapRemovedNext DEF RemovedSwap
<1> QED BY <1>6, <1>7, <1>8

\* A call that has a vtable whose entry is written.
LEMMA EntryStep ==
  ASSUME SwapInv, AllLead, setup \in Setups, SourceOlder, SwapVtable, MoreLayers, ChainOK',
         NEW h \in Hooks, HookStep(h), NEW x \in {0} \cup Hooks, Live(x), ~ (FreeNewVtable(h) /\ x = h),
         NEW s \in VirtualSites \ Imports, x \in Hooks => s.object = setup[x].object,
         NEW f, f = Function(s), NEW p, p = table[x][s.index], NEW q, q = table'[x][s.index],
         Toward(p, f), Toward(q, f)'
  PROVE  /\ Passes(p) \cap Passes(Pointers[s])' \subseteq Passes(q)'
         /\ Passes(q)' \subseteq Passes(p) \cup Reaching(f)'
<1>1. s \in Sites /\ s.index \in Indices /\ f = Virtuals[s.index]
  BY DEF Sites, VirtualSites, Function
<1>2. PICK v : v = member[h].vtable
  OBVIOUS
<1>11. PICK i : i = setup[h].index
  OBVIOUS
<1>12. PICK m : m = setup[h].more
  OBVIOUS
<1> PICK j \in Indices : j = s.index
  BY <1>1
<1>3. /\ WriteVFunc(h) /\ x = v /\ j = i => q = Entry(Callback(h))
      /\ UnHookVFunc(h) /\ x = v /\ j = i => q = member[h].orig
      /\ \/ q = p
         \/ (WriteVFunc(h) \/ UnHookVFunc(h)) /\ x = v /\ j = i
         \/ DivertEntry(h) /\ x = h /\ j = i
         \/ DivertMore(h) /\ x = h /\ j = m
  <2>1. /\ WriteVFunc(h) /\ x = v /\ j = i => table'[x][j] = Entry(Callback(h))
        /\ UnHookVFunc(h) /\ x = v /\ j = i => table'[x][j] = member[h].orig
        /\ \/ table'[x][j] = table[x][j]
           \/ (WriteVFunc(h) \/ UnHookVFunc(h)) /\ x = v /\ j = i
           \/ DivertEntry(h) /\ x = h /\ j = i
           \/ DivertMore(h) /\ x = h /\ j = m
    <3>1. ~ (FreeNewVtable(h) /\ x = h)
      OBVIOUS
    <3> QED BY ONLY SwapInv, AllLead, setup \in Setups, HookStep(h), Live(x), <3>1, x \in {0} \cup Hooks,
                    j \in Indices, h \in Hooks, <1>2, <1>11, <1>12, TableStep
  <2>2. p = table[x][j] /\ q = table'[x][j]
    OBVIOUS
  <2> QED BY <2>1, <2>2
<1>4. CASE q = p
  BY <1>1, <1>4, StayStep
<1>5. ASSUME vptr'[s.object] = x
      PROVE  /\ Passes(p) \cap Passes(Pointers[s])' \subseteq Passes(q)'
             /\ Passes(q)' \subseteq Passes(p) \cup Reaching(f)'
  <2>1. Pointers'[s] = q
    BY <1>1, <1>5 DEF Pointers
  <2>2. Passes(Pointers[s])' = Passes(q)'
    BY <2>1
  <2>3. Passes(Pointers[s])' \subseteq Reaching(f)'
    BY <1>1, ChainReachingNext DEF ChainReaches
  <2> QED BY <2>2, <2>3
<1>6. CASE (DivertEntry(h) \/ DivertMore(h)) /\ x = h
  BY <1>5, <1>6, TurnedPointer
<1>7. (WriteVFunc(h) \/ UnHookVFunc(h)) /\ j = i => f = Fn(Callback(h))
  <2>1. WriteVFunc(h) \/ UnHookVFunc(h) => setup[h].type = "VFuncSwap"
    BY KindOf DEF OfVFunc, SetsVFunc
  <2> QED BY <1>1, <1>11, <2>1, SiteOf
<1>8. CASE WriteVFunc(h) /\ x = v /\ j = i
  <2>1. p = table[member[h].vtable][setup[h].index] /\ q = table'[member[h].vtable][setup[h].index]
    BY <1>2, <1>8, <1>11
  <2>2. Passes(p) \subseteq Passes(q)' /\ Passes(q)' \subseteq Reaching(f)'
    BY <1>3, <1>7, <1>8, <2>1, WriteTurned
  <2> QED BY <2>2
<1>9. CASE UnHookVFunc(h) /\ x = v /\ j = i /\ x # 0
  BY <1>2, <1>5, <1>9, TurnedPointer
<1>10. CASE UnHookVFunc(h) /\ x = v /\ j = i /\ x = 0
  <2>1. member[h].vtable = 0 /\ p = table[0][setup[h].index] /\ q = member[h].orig
    BY <1>2, <1>3, <1>10, <1>11
  <2>2. Passes(p) \cap Passes(Pointers[s])' \subseteq Passes(q)'
    BY <1>1, <1>7, <1>10, <2>1, UnHookTurned
  <2>3. Passes(q)' \subseteq Reaching(f)'
    <3>1. PICK r : r = [object |-> setup[h].object, index |-> setup[h].index]
      OBVIOUS
    <3>2. r \in Sites /\ Function(r) = f /\ Pointers'[r] = q
      <4>1. setup[h].type # "IAT"
        BY <1>10, KindOf DEF OfVFunc
      <4>2. vptr'[setup[h].object] = x
        <5>1. vptr[setup[h].object] = member[h].vtable /\ vptr' = vptr
          BY <1>10, SwapObject
        <5> QED BY <1>2, <1>10, <5>1
      <4>3. Pointers'[r] = table'[vptr'[setup[h].object]][setup[h].index]
        BY <3>1, <4>1, SiteOf
      <4>5. Pointers'[r] = table'[x][i]
        BY <1>11, <4>2, <4>3
      <4>4. q = table'[x][i]
        BY <1>10
      <4> QED BY <1>7, <1>10, <3>1, <4>1, <4>4, <4>5, SiteOf
    <3>3. Passes(Pointers[r])' = Passes(q)'
      BY <3>2
    <3>4. Passes(Pointers[r])' \subseteq Reaching(f)'
      BY <3>2, ChainReachingNext DEF ChainReaches
    <3> QED BY <3>3, <3>4
  <2> QED BY <2>2, <2>3
<1> QED BY <1>3, <1>4, <1>6, <1>8, <1>9, <1>10

\* What a call is to pass: what has been in its way all the time is behind it or ahead of it,
\* and both have been in the way of the function.
Ahead(t) == Passes(Now(t))
OnWay(t) ==
  /\ site[t] \in Sites
  /\ \A x \in Hooks : ip[t] = Loaded(x) => site[t].object = setup[x].object
  /\ always[t] \subseteq ToSet(passed[t]) \cup Ahead(t)
  /\ ToSet(passed[t]) \cup Ahead(t) \subseteq during[t]
OnceOK == \A t \in Threads : exposed[t] \/ ip[t] = Out \/ OnWay(t)
HistoryShape == DOMAIN always = Threads /\ DOMAIN during = Threads

LEMMA WatchStep ==
  ASSUME NEW h \in Hooks, HookStep(h)
  PROVE  /\ ChainOK' /\ HistoryShape'
         /\ \A t \in Threads : \A s \in Sites : ip[t] # Out /\ site[t] = s =>
              /\ always'[t] = always[t] \cap Passes(Pointers[s])'
              /\ during'[t] = during[t] \cup Reaching(Function(s))'
<1>1. Watch
  BY WatchOf
<1>2. ChainOK'
  <2>1. \A s \in Sites : chain'[s] = Way(Pointers'[s], Links')
    BY <1>1 DEF Watch
  <2> QED BY <2>1 DEF ChainOK, Passes
<1>3. HistoryShape'
  BY <1>1 DEF Watch, HistoryShape
<1>4. ASSUME NEW t \in Threads, NEW s \in Sites, ip[t] # Out, site[t] = s
      PROVE  /\ always'[t] = always[t] \cap Passes(Pointers[s])'
             /\ during'[t] = during[t] \cup Reaching(Function(s))'
  <2>1. ToSet(chain'[s]) = Passes(Pointers[s])'
    BY <1>2 DEF ChainOK
  <2>2. always'[t] = always[t] \cap ToSet(chain'[s])
    BY <1>1, <1>4 DEF Watch
  <2>3. during'[t] = during[t] \cup Reaching(Function(site[t]))'
    BY <1>1, <1>4 DEF Watch
  <2>4. site' = site
    BY <1>1 DEF Watch
  <2>5. Reaching(Function(site[t]))' = Reaching(Function(s))'
    BY <1>4, <2>4
  <2> QED BY <2>1, <2>2, <2>3, <2>5
<1> QED BY <1>2, <1>3, <1>4

LEMMA OnWayStep ==
  ASSUME SwapInv, AllLead, setup \in Setups, SourceOlder, SwapVtable, MoreLayers,
         NEW h \in Hooks, HookStep(h), NEW t \in Threads, Placed(t), ip[t] # Out, OnWay(t), ~ exposed'[t]
  PROVE  OnWay(t)'
<1>1. AllLead' /\ setup' = setup /\ ChainOK'
  BY LeadsStep, KnownStep, WatchStep
<1>2. ip' = ip /\ site' = site /\ passed' = passed /\ Placed(t)'
  BY ExposedStep, PlacedStep
<1>3. PICK s \in Sites : s = site[t]
  BY DEF OnWay
<1>4. PICK f : f = Function(s)
  OBVIOUS
<1>5. PICK p : p = Now(t)
  OBVIOUS
<1>6. PICK q : q = Now(t)'
  OBVIOUS
<1>7. Toward(p, f)
  BY <1>3, <1>4, <1>5, NowToward DEF NowOK
<1>8. Toward(q, f)'
  <2>1. Toward(Now(t), Function(site[t]))'
    <3>1. ip'[t] # Out
      BY <1>2
    <3> QED BY <1>1, <1>2, <3>1, NowTowardNext DEF NowOK
  <2>2. site'[t] = s
    BY <1>2, <1>3
  <2> QED BY <1>4, <1>6, <2>1, <2>2
<1>9. /\ Passes(p) \cap Passes(Pointers[s])' \subseteq Passes(q)'
      /\ Passes(q)' \subseteq Passes(p) \cup Reaching(f)'
  <2>1. CASE ip[t].at = "table"
    <3>1. PICK x \in {0} \cup Hooks : ip[t] = Loaded(x) /\ Live(x) /\ site[t] \in VirtualSites \ Imports
      <4>1. Entering(t)
        BY <2>1, PlacedAt
      <4> QED BY <2>1, <4>1, PlaceKinds DEF Entering
    <3>2. ip[t].code = x /\ ip'[t] = ip[t] /\ site'[t] = s
      BY <1>2, <1>3, <3>1, PlaceKinds
    <3>3. p = table[x][s.index] /\ q = table'[x][s.index]
      BY <1>3, <1>5, <1>6, <2>1, <3>2 DEF Now
    <3>4. s \in VirtualSites \ Imports /\ (x \in Hooks => s.object = setup[x].object)
      BY <1>3, <3>1 DEF OnWay
    <3>5. ~ (FreeNewVtable(h) /\ x = h)
      BY <3>1, ExposedStep
    <3>6. Live(x)
      BY <3>1
    <3> QED BY <1>1, <1>4, <1>7, <1>8, <3>3, <3>4, <3>5, <3>6, EntryStep
  <2>2. CASE ip[t].at # "table"
    <3>1. q = p
      BY <1>2, <1>5, <1>6, <2>2 DEF Now
    <3> QED BY <1>1, <1>7, <1>8, <3>1, StayStep
  <2> QED BY <2>1, <2>2
<1>10. always'[t] = always[t] \cap Passes(Pointers[s])' /\ during'[t] = during[t] \cup Reaching(f)'
  BY <1>3, <1>4, WatchStep
<1>11. Ahead(t) = Passes(p) /\ Ahead(t)' = Passes(q)'
  BY <1>5, <1>6 DEF Ahead
<1>12. PICK w : w = ToSet(passed[t])
  OBVIOUS
<1>13. always[t] \subseteq w \cup Passes(p) /\ w \cup Passes(p) \subseteq during[t]
  BY <1>11, <1>12 DEF OnWay
<1>14. always'[t] \subseteq w \cup Passes(q)' /\ w \cup Passes(q)' \subseteq during'[t]
  BY <1>9, <1>10, <1>13
<1>15. w = ToSet(passed'[t])
  BY <1>2, <1>12
<1>16. site'[t] \in Sites /\ \A x \in Hooks : ip'[t] = Loaded(x) => site'[t].object = setup'[x].object
  BY <1>1, <1>2 DEF OnWay
<1> QED BY <1>11, <1>14, <1>15, <1>16 DEF OnWay

(***************************************************************************)
(* The steps of a call.                                                    *)
(***************************************************************************)
LEMMA SameWays ==
  ASSUME UNCHANGED <<memory, hooks>>
  PROVE  /\ Links' = Links /\ Pointers' = Pointers /\ table' = table /\ setup' = setup
         /\ \A p : Passes(p)' = Passes(p)
<1>1. Links' = Links /\ Pointers' = Pointers /\ table' = table /\ setup' = setup
  BY DEF memory, hooks, Links, Pointers
<1> QED BY <1>1 DEF Passes

LEMMA OthersOnWay ==
  ASSUME UNCHANGED <<memory, hooks>>, NEW u, OnWay(u), ip'[u] = ip[u], site'[u] = site[u],
         passed'[u] = passed[u], always'[u] = always[u], during'[u] = during[u]
  PROVE  OnWay(u)'
<1>1. Now(u)' = Now(u)
  BY SameWays DEF Now
<1>2. Ahead(u)' = Ahead(u)
  BY <1>1, SameWays DEF Ahead, Passes
<1> QED BY <1>2, SameWays DEF OnWay

LEMMA CallOnWay ==
  ASSUME AllLead, CallShape, HistoryShape, ChainOK, NEW t \in Threads, Call(t), Placed(t)
  PROVE  OnWay(t)'
<1>1. PICK s \in Sites : /\ site' = [site EXCEPT ![t] = s]
                         /\ ip' = [ip EXCEPT ![t] = IF s \in Imports THEN iat[s]
                                                    ELSE Loaded(vptr[s.object])]
                         /\ always' = [always EXCEPT ![t] = ToSet(chain[s])]
                         /\ during' = [during EXCEPT ![t] = Reaching(Function(s))]
  BY DEF Call
<1>2. UNCHANGED <<memory, hooks>> /\ passed'[t] = <<>>
  BY PlacedAt DEF Call
<1>3. /\ site'[t] = s /\ ip'[t] = IF s \in Imports THEN iat[s] ELSE Loaded(vptr[s.object])
      /\ always'[t] = ToSet(chain[s]) /\ during'[t] = Reaching(Function(s))
  BY <1>1 DEF CallShape, HistoryShape
<1>4. PICK c \in Code : Pointers[s] = Entry(c)
  BY PointersToward DEF PointersLead, Leading
<1>5. Now(t)' = Pointers[s] /\ \A x \in Hooks : ip'[t] = Loaded(x) => s.object = setup[x].object
  <2>1. CASE s \in Imports
    <3>1. ip'[t] = Entry(c) /\ Pointers[s] = Entry(c)
      BY <1>3, <1>4, <2>1 DEF Pointers
    <3> QED BY <3>1, PlaceKinds DEF Now
  <2>2. CASE s \notin Imports
    <3>1. s.object \in Objects /\ Pointers[s] = table[vptr[s.object]][s.index]
      BY <2>2 DEF Sites, VirtualSites, Pointers
    <3>2. PICK y : y = vptr[s.object]
      OBVIOUS
    <3>3. ip'[t].at = "table" /\ ip'[t].code = y /\ ip'[t] = Loaded(y)
      BY <1>3, <2>2, <3>2, PlaceKinds
    <3>4. Now(t)' = table[y][s.index]
      BY <1>2, <1>3, <3>3, SameWays DEF Now
    <3>5. ASSUME NEW x \in Hooks, ip'[t] = Loaded(x) PROVE s.object = setup[x].object
      <4>1. x = y
        BY <3>3, <3>5, PlaceKinds
      <4>2. x # 0
        BY SwapAssumption
      <4>3. x \in Pointed(s.object)
        BY <3>1, <3>2, <4>1, <4>2 DEF AllLead, ObjectsLive
      <4> QED BY <4>3 DEF Pointed
    <3> QED BY <3>1, <3>2, <3>4, <3>5
  <2> QED BY <2>1, <2>2
<1>6. Ahead(t)' = Passes(Pointers[s])
  BY <1>2, <1>5, SameWays DEF Ahead, Passes
<1>7. always'[t] = Passes(Pointers[s]) /\ Passes(Pointers[s]) \subseteq during'[t]
  BY <1>3, ChainReaching DEF ChainReaches
<1>8. ToSet(passed'[t]) = {}
  BY <1>2 DEF ToSet
<1>9. setup' = setup
  BY <1>2, SameWays
<1> QED BY <1>3, <1>5, <1>6, <1>7, <1>8, <1>9 DEF OnWay

LEMMA TowardKinds ==
  ASSUME NEW f, NEW q, Toward(q, f)
  PROVE  q.at \in {"entry", "body", "trampoline", "done"} /\ \A x : q # Loaded(x)
BY PlaceKinds DEF Toward

LEMMA LoadOnWay ==
  ASSUME AllLead, CallShape, HistoryShape, NEW t \in Threads, LoadEntry(t), Placed(t), OnWay(t)
  PROVE  OnWay(t)'
<1>1. /\ UNCHANGED <<memory, hooks>> /\ site' = site /\ passed' = passed /\ always' = always
      /\ during' = during /\ ip'[t] = table[ip[t].code][site[t].index] /\ ip[t].at = "table"
  BY DEF LoadEntry, CallShape
<1>2. PICK q : q = Now(t)
  OBVIOUS
<1>3. ip'[t] = q
  BY <1>1, <1>2 DEF Now
<1>4. Toward(q, Function(site[t]))
  <2>1. ip[t] # Out
    BY <1>1, PlaceKinds
  <2> QED BY <1>2, <2>1, NowToward DEF NowOK
<1>5. q.at # "table" /\ \A x : q # Loaded(x)
  BY <1>4, TowardKinds
<1>6. Now(t)' = q
  BY <1>3, <1>5 DEF Now
<1>7. Ahead(t)' = Ahead(t)
  BY <1>1, <1>2, <1>6, SameWays DEF Ahead, Passes
<1> QED BY <1>1, <1>3, <1>5, <1>7 DEF OnWay

LEMMA RunOnWay ==
  ASSUME AllLead, CallShape, HistoryShape, NEW t \in Threads, Run(t), Placed(t), ~ NotYet(ip[t]),
         OnWay(t)
  PROVE  OnWay(t)'
<1>1. PICK p : p = ip[t]
  OBVIOUS
<1>2. PICK q : q = Leads(p, Links)
  OBVIOUS
<1>3. /\ UNCHANGED <<memory, hooks>> /\ site' = site /\ always' = always /\ during' = during
      /\ p.at \in {"entry", "body", "trampoline"} /\ ip'[t] = q
  BY <1>1, <1>2 DEF Run, CallShape
<1>4. PICK w \in Seq(Code) : w = passed[t] /\ IsInjective(w)
  BY <1>1, <1>3, PlacedAt
<1>5. passed'[t] = IF p.at = "body" THEN Append(w, p.code) ELSE w
  BY <1>1, <1>4 DEF Run, CallShape
<1>6. PICK f : f = Function(site[t])
  OBVIOUS
<1>7. Now(t) = p
  BY <1>1, <1>3 DEF Now
<1>8. Toward(p, f) /\ p # Done(f)
  <2>1. ip[t] # Out
    BY <1>1, <1>3, PlaceKinds
  <2> QED BY <1>3, <1>6, <1>7, <2>1, NowToward, PlaceKinds DEF NowOK
<1>9. /\ Toward(q, f) /\ Passes(p) = Passes(q) \cup Passed(p)
      /\ p.at = "body" => p.code \in Code
  <2>1. WayFacts(p, f)
    BY <1>8, WayOf DEF OnTheWay
  <2>2. p.at = "body" => p.code \in Code
    BY <1>8, TowardLeads
  <2> QED BY <1>2, <1>8, <2>1, <2>2 DEF WayFacts
<1>10. q.at # "table" /\ \A x : q # Loaded(x)
  BY <1>9, TowardKinds
<1>11. Now(t)' = q
  BY <1>3, <1>10 DEF Now
<1>12. Ahead(t)' = Passes(q) /\ Ahead(t) = Passes(p)
  BY <1>3, <1>7, <1>11, SameWays DEF Ahead, Passes
<1>13. ToSet(passed'[t]) = ToSet(w) \cup Passed(p)
  <2>1. CASE p.at = "body"
    <3>1. ToSet(Append(w, p.code)) = ToSet(w) \cup {p.code}
      BY <1>9, <2>1, SeenMore
    <3> QED BY <1>5, <2>1, <3>1 DEF Passed
  <2>2. CASE p.at # "body"
    BY <1>5, <2>2 DEF Passed
  <2> QED BY <2>1, <2>2
<1>14. ToSet(passed'[t]) \cup Ahead(t)' = ToSet(passed[t]) \cup Ahead(t)
  BY <1>4, <1>9, <1>12, <1>13
<1>15. site'[t] \in Sites /\ \A x \in Hooks : ip'[t] = Loaded(x) => site'[t].object = setup'[x].object
  BY <1>3, <1>10 DEF OnWay
<1> QED BY <1>3, <1>14, <1>15 DEF OnWay

(***************************************************************************)
(* The invariant of what calls are to pass.                                *)
(***************************************************************************)
OnceInv ==
  CallInv /\ SourceOlder /\ SwapVtable /\ MoreLayers /\ HistoryShape /\ ChainOK /\ OnceOK

\* In the beginning a call runs its function and nothing else.
ChainIs == chain = [s \in Sites |-> Way(Pointers[s], Links)]

LEMMA InitChains == Init => ChainIs
<1> SUFFICES ASSUME Init, NEW s \in Sites PROVE Way(Pointers[s], Links) = <<Function(s)>>
  BY DEF Init, ChainIs
<1>1. AllLead
  BY InitCallInv DEF CallInv
<1>2. PICK f : f = Function(s)
  OBVIOUS
<1>3. f \in Functions /\ Pointers[s] = Entry(f)
  <2>1. CASE s \in Imports
    BY <1>2, <2>1 DEF Init, Pointers, Function, Functions
  <2>2. CASE s \notin Imports
    <3>1. s.object \in Objects /\ s.index \in Indices
      BY <2>2 DEF Sites, VirtualSites
    <3>2. Pointers[s] = table[vptr[s.object]][s.index] /\ f = Virtuals[s.index]
      BY <1>2, <2>2 DEF Pointers, Function
    <3>3. vptr[s.object] = 0 /\ table[0] = [i \in Indices |-> Entry(Virtuals[i])]
      BY <3>1 DEF Init
    <3>4. Virtuals[s.index] \in Functions
      BY <3>1, CodeAssumption DEF Indices
    <3> QED BY <3>1, <3>2, <3>3, <3>4
  <2> QED BY <2>1, <2>2
<1>4. f \in Code /\ f \notin Callbacks /\ Known(f) /\ Fn(f) = f
  BY <1>3, RankOf DEF Code, Known, Fn
<1>5. Leads(Entry(f), Links) = Body(f) /\ Leads(Body(f), Links) = Done(f)
  <2>1. patch[f] = Body(f)
    BY <1>4 DEF Init
  <2> QED BY <1>4, <2>1, LeadsIn, LinksIn
<1>6. Toward(Entry(f), f) /\ Toward(Body(f), f) /\ Toward(Done(f), f)
  BY <1>4 DEF Toward
<1>7. Way(Done(f), Links) = <<>>
  BY <1>1, <1>6, WayJoins
<1>8. Way(Body(f), Links) = <<f>> \o <<>>
  <2>1. Body(f) # Done(f) /\ Body(f).at = "body" /\ Body(f).code = f
    BY PlaceKinds
  <2> QED BY <1>1, <1>5, <1>6, <1>7, <2>1, WayJoins
<1>9. Way(Entry(f), Links) = <<>> \o (<<f>> \o <<>>)
  <2>1. Entry(f) # Done(f) /\ Entry(f).at # "body"
    BY PlaceKinds
  <2> QED BY <1>1, <1>5, <1>6, <1>8, <2>1, WayJoins
<1>10. <<>> \o (<<f>> \o <<>>) = <<f>>
  OBVIOUS
<1> QED BY <1>2, <1>3, <1>9, <1>10

LEMMA InitOnceInv == Init => OnceInv
<1> SUFFICES ASSUME Init PROVE OnceInv
  OBVIOUS
<1>1. CallInv /\ AllLead
  BY InitCallInv DEF CallInv
<1>2. \A h \in Hooks : status[h] = "new" /\ member[h].more = Wild /\ \A d : ~ At(h, d)
  BY NoneAt DEF Init
<1>3. SourceOlder /\ SwapVtable /\ MoreLayers
  BY <1>2 DEF SourceOlder, Detouring, SwapVtable, MoreLayers
<1>4. HistoryShape /\ OnceOK
  BY DEF Init, HistoryShape, OnceOK
<1>5. ChainOK
  BY InitChains DEF ChainIs, ChainOK, Passes
<1> QED BY <1>1, <1>3, <1>4, <1>5 DEF OnceInv

LEMMA SameOlder ==
  ASSUME UNCHANGED <<memory, hooks>>, SourceOlder, SwapVtable, MoreLayers
  PROVE  SourceOlder' /\ SwapVtable' /\ MoreLayers'
<1> USE DEF memory, hooks
<1>1. SourceOlder'
  BY SameHooks DEF SourceOlder, Rank
<1>2. /\ \A h, d : At(h, d)' <=> At(h, d)
      /\ \A o : Pointed(o)' = Pointed(o)
      /\ \A x, i : SwappedIn(x, i)' = SwappedIn(x, i)
      /\ Origs' = Origs
  BY DEF At, Pointed, SwappedIn, Origs
<1>3. SwapVtable'
  BY <1>2 DEF SwapVtable
<1>4. MoreLayers'
  BY <1>2 DEF MoreLayers, Layered, Diverted
<1> QED BY <1>1, <1>3, <1>4

LEMMA OnceInvStep ==
  ASSUME OnceInv, [Next]_vars PROVE OnceInv'
<1>1. CallInv /\ CallInv' /\ SwapInv /\ AllLead /\ setup \in Setups /\ CallShape
  BY CallInvStep DEF OnceInv, CallInv
<1>2. ASSUME NEW h \in Hooks, HookStep(h) PROVE OnceInv'
  <2>1. SourceOlder' /\ SwapVtable' /\ MoreLayers'
    BY <1>1, <1>2, SourceOlderStep, SwapVtableStep, MoreLayersStep DEF OnceInv
  <2>2. HistoryShape' /\ ChainOK'
    BY <1>2, WatchStep
  <2>3. ASSUME NEW t \in Threads PROVE exposed'[t] \/ ip'[t] = Out \/ OnWay(t)'
    <3>1. CASE ip[t] = Out \/ exposed[t]
      BY <1>2, <3>1, ExposedStep
    <3>2. CASE ip[t] # Out /\ ~ exposed[t] /\ ~ exposed'[t]
      <4>1. Placed(t) /\ OnWay(t)
        BY <1>1, <3>2 DEF CallInv, CallsOK, OnceInv, OnceOK
      <4>2. OnWay(t)'
        BY <1>1, <1>2, <3>2, <4>1, OnWayStep DEF OnceInv
      <4> QED BY <4>2
    <3> QED BY <3>1, <3>2
  <2> QED BY <1>1, <2>1, <2>2, <2>3 DEF OnceInv, OnceOK
<1>3. ASSUME NEW t \in Threads, CallStep(t) PROVE OnceInv'
  <2>1. UNCHANGED <<memory, hooks>> /\ chain' = chain
    BY <1>3 DEF CallStep, Call, LoadEntry, Run, Return
  <2>2. SourceOlder' /\ SwapVtable' /\ MoreLayers'
    BY <2>1, SameOlder DEF OnceInv
  <2>3. ChainOK'
    BY <2>1, SameWays DEF OnceInv, ChainOK, Passes
  <2>4. HistoryShape'
    BY <1>3 DEF CallStep, Call, LoadEntry, Run, Return, OnceInv, HistoryShape
  <2>5. ASSUME NEW u \in Threads, u # t PROVE exposed'[u] \/ ip'[u] = Out \/ OnWay(u)'
    <3>1. /\ ip'[u] = ip[u] /\ site'[u] = site[u] /\ passed'[u] = passed[u]
          /\ exposed'[u] = exposed[u]
      BY <1>1, <1>3, <2>5 DEF CallStep, Call, LoadEntry, Run, Return, CallShape
    <3>2. always'[u] = always[u] /\ during'[u] = during[u]
      BY <1>3, <2>5 DEF CallStep, Call, LoadEntry, Run, Return, OnceInv, HistoryShape
    <3>3. exposed[u] \/ ip[u] = Out \/ OnWay(u)
      BY DEF OnceInv, OnceOK
    <3>4. OnWay(u) => OnWay(u)'
      BY <2>1, <3>1, <3>2, OthersOnWay
    <3> QED BY <3>1, <3>3, <3>4
  <2>6. exposed'[t] \/ ip'[t] = Out \/ OnWay(t)'
    <3>1. exposed[t] \/ Placed(t)
      BY <1>1 DEF CallInv, CallsOK
    <3>2. exposed[t] \/ ip[t] = Out \/ OnWay(t)
      BY DEF OnceInv, OnceOK
    <3>3. CASE Call(t)
      <4>1. exposed' = exposed
        BY <3>3 DEF Call
      <4> QED BY <1>1, <3>1, <3>3, <4>1, CallOnWay DEF OnceInv
    <3>4. CASE LoadEntry(t)
      <4>1. exposed' = exposed /\ ip[t] # Out
        BY <3>4, PlaceKinds DEF LoadEntry
      <4> QED BY <1>1, <3>1, <3>2, <3>4, <4>1, LoadOnWay DEF OnceInv
    <3>5. CASE Run(t)
      <4>1. (exposed'[t] <=> exposed[t] \/ NotYet(ip[t])) /\ ip[t] # Out
        BY <1>1, <3>5, PlaceKinds DEF Run, CallShape
      <4> QED BY <1>1, <3>1, <3>2, <3>5, <4>1, RunOnWay DEF OnceInv
    <3>6. CASE Return(t)
      BY <1>1, <3>6 DEF Return, CallShape
    <3> QED BY <1>3, <3>3, <3>4, <3>5, <3>6 DEF CallStep
  <2> QED BY <1>1, <2>2, <2>3, <2>4, <2>5, <2>6 DEF OnceInv, OnceOK
<1>4. CASE UNCHANGED vars
  <2>1. /\ UNCHANGED <<memory, hooks>> /\ chain' = chain /\ ip' = ip /\ site' = site
        /\ passed' = passed /\ exposed' = exposed /\ always' = always /\ during' = during
    BY <1>4 DEF vars, calls
  <2>2. SourceOlder' /\ SwapVtable' /\ MoreLayers'
    BY <2>1, SameOlder DEF OnceInv
  <2>3. ChainOK' /\ HistoryShape'
    BY <2>1, SameWays DEF OnceInv, ChainOK, Passes, HistoryShape
  <2>4. \A u \in Threads : OnWay(u) => OnWay(u)'
    BY <2>1, OthersOnWay
  <2>5. OnceOK'
    BY <2>1, <2>4 DEF OnceInv, OnceOK
  <2> QED BY <1>1, <2>2, <2>3, <2>5 DEF OnceInv
<1> QED BY <1>2, <1>3, <1>4 DEF Next

LEMMA OnceInvAlways == Spec => []OnceInv
BY InitOnceInv, OnceInvStep, PTL DEF Spec

\* However hooks of all kinds come and go: a call that ends has passed each callback that
\* was in its way from its beginning to its end, and none that was not in the way of calls of
\* the function at some time meanwhile.
THEOREM CallsInTheWay == Spec => []CallsOnce
<1>1. OnceInv => CallsOnce
  <2> SUFFICES ASSUME OnceInv, NEW t \in Threads, ip[t].at = "done", ~ exposed[t]
               PROVE  always[t] \subseteq ToSet(passed[t]) /\ ToSet(passed[t]) \subseteq during[t]
    BY DEF CallsOnce
  <2>1. AllLead /\ Placed(t) /\ ip[t] # Out
    BY PlaceKinds DEF OnceInv, CallInv, CallsOK
  <2>2. OnWay(t)
    BY <2>1 DEF OnceInv, OnceOK
  <2>3. PICK f : f = Function(site[t])
    OBVIOUS
  <2>4. ip[t] = Done(f) /\ Now(t) = ip[t]
    BY <2>1, <2>3, PlacedAt DEF Now
  <2>5. Ahead(t) = {}
    <3>1. WayFacts(Done(f), f)
      BY <2>1, WayOf DEF OnTheWay, Toward
    <3> QED BY <2>4, <3>1 DEF WayFacts, Ahead
  <2> QED BY <2>2, <2>5 DEF OnWay
<1> QED BY <1>1, OnceInvAlways, PTL
=============================================================================
