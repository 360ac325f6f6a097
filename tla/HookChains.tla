----------------------------- MODULE HookChains -----------------------------
(***************************************************************************)
(* What the hooks that swap pointers promise together: a call made from a  *)
(* site (an object and a virtual function of it, or an import) passes a    *)
(* chain of callbacks and ends in the function of the site.  Hook puts one *)
(* callback into the chain of its own site, and perhaps of others; UnHook  *)
(* takes the callbacks of one hook out and leaves the others as they are.  *)
(***************************************************************************)
EXTENDS Integers, Sequences, SequencesExt

CONSTANTS Sites, Function(_)   \* Function(s): what a call from s is meant to run

VARIABLES chain,   \* chain[s]: callbacks, then the function
          home     \* home[x]: the site the callback x is meant for

vars == <<chain, home>>

Callbacks == DOMAIN home

Init == chain = [s \in Sites |-> <<Function(s)>>]

\* x is put before something that was there already.
Inserted(old, new, x) ==
  \E k \in DOMAIN old : new = SubSeq(old, 1, k - 1) \o <<x>> \o SubSeq(old, k, Len(old))

\* Hook, HookAdditional
Set(x) ==
  /\ \A s \in Sites : /\ x \notin ToSet(chain[s])
                      /\ chain'[s] = chain[s] \/ Inserted(chain[s], chain'[s], x)
  /\ x \in ToSet(chain'[home[x]])

\* What is left of old without the callbacks of h: the others, in the order they had.
Without(old, new, h, s) ==
  \E at \in [DOMAIN new -> DOMAIN old] :
    /\ \A i, j \in DOMAIN new : i < j => at[i] < at[j]
    /\ \A i \in DOMAIN new : new[i] = old[at[i]]
    /\ \A k \in DOMAIN old :
         (\E i \in DOMAIN new : at[i] = k) <=> old[k] = Function(s) \/ old[k].hook # h

\* UnHook
Unset(h) == \A s \in Sites : Without(chain[s], chain'[s], h, s)

Next == /\ UNCHANGED home
        /\ \E x \in Callbacks : Set(x) \/ Unset(x.hook)

Spec == Init /\ [][Next]_vars
=============================================================================
