---------------------------- MODULE MCSwapHooks -----------------------------
(***************************************************************************)
(* Small instances of SwapHooks: hooks of the two virtual functions of two *)
(* objects of one class, or of three imports of two modules.               *)
(***************************************************************************)
EXTENDS SwapHooks

CONSTANTS walk, stop, tick, show       \* functions
MCVirtuals == <<walk, stop>>

\* The executable imports tick from its first library, show from its second.
Import(m, d, l, f) == [module |-> m, descriptor |-> d, library |-> l, function |-> f]
MCImports == {Import("exe", 1, "kernel32", tick), Import("exe", 2, "user32", show),
              Import("dll", 1, "user32", show)}

\* Each kind of hook of the first function of an object, and HookAdditional of the
\* second.  The first hook is for the first object: the objects are alike.  Only the one
\* in the middle uses HookAdditional, and the last one swaps a pointer.
OfVirtual == [type : {"VFuncSwap", "VFuncDetour"}, object : Objects, index : {1}, more : {0}]
             \cup [type : {"VTableSwap"}, object : Objects, index : {1}, more : {0, 2}]
OfImport  == {[type |-> "IAT", module |-> s.module, library |-> s.library,
               function |-> s.function] : s \in MCImports}

MCSetups ==
  {u \in [Hooks -> OfVirtual] :
     /\ u[1].object = 1
     /\ u[3].type # "VFuncDetour"
     /\ \A h \in Hooks : h # 2 => u[h].more = 0}
  \cup [Hooks -> OfImport]

\* The setups of the instance meet the hypothesis of HooksChain.
ASSUME NamesAssumption == Unambiguous
=============================================================================
