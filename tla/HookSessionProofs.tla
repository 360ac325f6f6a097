------------------------- MODULE HookSessionProofs --------------------------
(***************************************************************************)
(* Proofs about the list of subroutines, for any processes, any code and   *)
(* any lines the user types.                                               *)
(***************************************************************************)
EXTENDS HookSession, TLAPS

SearchResults == [at : Int, to : Int]

\* What is known of the searcher's results: Results repeats a beginning of m_Results,
\* which holds each destination once; a line shown, and a hook set by an index that
\* had been shown, are in Results under their index.
ResultsType ==
  /\ m_Results \in [Processes -> Seq(SearchResults)]
  /\ Results \in [Processes -> Seq(SearchResults)]
  /\ hooked = [p \in Processes |-> hooked[p]]
  /\ shown = [p \in Processes |-> shown[p]]

Beginning ==
  \A p \in Processes : \A k \in DOMAIN Results[p] :
    k \in DOMAIN m_Results[p] /\ m_Results[p][k] = Results[p][k]

Distinct ==
  \A p \in Processes : \A j, k \in DOMAIN m_Results[p] :
    m_Results[p][j].to = m_Results[p][k].to => j = k

ShownIn ==
  \A p \in Processes : \A l \in shown[p] :
    /\ l.index \in Int /\ l.index + 1 \in DOMAIN Results[p]
    /\ Results[p][l.index + 1].to = l.at

HookedIn ==
  \A p \in Processes : \A h \in hooked[p] :
    h.listed => /\ h.by \in Int /\ h.by + 1 \in DOMAIN Results[p]
                /\ Results[p][h.by + 1].to = h.at

ListInv == ResultsType /\ Beginning /\ Distinct /\ ShownIn /\ HookedIn

searched == <<m_Results, Results, hooked, shown>>

(***************************************************************************)
(* The steps of the DLL, one lemma for each that changes what is known.    *)
(***************************************************************************)
\* The searcher appends a call at most, and one whose destination it has not found.
LEMMA WithCallAppends ==
  ASSUME NEW f \in Seq(SearchResults), NEW i, i.address \in Int, GetCallDestination(i) \in Int
  PROVE  /\ WithCall(f, i) \in Seq(SearchResults)
         /\ \A k \in DOMAIN f : k \in DOMAIN WithCall(f, i) /\ WithCall(f, i)[k] = f[k]
         /\ (\A j, k \in DOMAIN f : f[j].to = f[k].to => j = k) =>
              \A j, k \in DOMAIN WithCall(f, i) :
                WithCall(f, i)[j].to = WithCall(f, i)[k].to => j = k
<1> DEFINE e == [at |-> i.address, to |-> GetCallDestination(i)]
<1>1. CASE \E k \in DOMAIN f : f[k].to = GetCallDestination(i)
  <2>1. WithCall(f, i) = f
    BY <1>1 DEF WithCall
  <2> QED BY <2>1
<1>2. CASE ~\E k \in DOMAIN f : f[k].to = GetCallDestination(i)
  <2>1. WithCall(f, i) = Append(f, e)
    BY <1>2 DEF WithCall
  <2>2. e \in SearchResults /\ e.to = GetCallDestination(i)
    BY DEF SearchResults
  <2>3. /\ Append(f, e) \in Seq(SearchResults)
        /\ Len(f) \in Nat /\ DOMAIN f = 1 .. Len(f)
        /\ DOMAIN Append(f, e) = 1 .. Len(f) + 1
        /\ Append(f, e)[Len(f) + 1] = e
        /\ \A k \in 1 .. Len(f) : Append(f, e)[k] = f[k]
    BY <2>2
  <2> HIDE DEF e
  <2>4. \A k \in DOMAIN f : k \in DOMAIN Append(f, e) /\ Append(f, e)[k] = f[k]
    BY <2>3
  <2>5. ASSUME \A j, k \in DOMAIN f : f[j].to = f[k].to => j = k,
               NEW j \in 1 .. Len(f) + 1, NEW k \in 1 .. Len(f) + 1,
               Append(f, e)[j].to = Append(f, e)[k].to
        PROVE  j = k
    <3>1. CASE j \in DOMAIN f /\ k \in DOMAIN f
      BY <2>3, <2>5, <3>1
    <3>2. CASE j \in DOMAIN f /\ k = Len(f) + 1
      BY <1>2, <2>2, <2>3, <2>5, <3>2
    <3>3. CASE j = Len(f) + 1 /\ k \in DOMAIN f
      BY <1>2, <2>2, <2>3, <2>5, <3>3
    <3>4. CASE j = Len(f) + 1 /\ k = Len(f) + 1
      BY <3>4
    <3> QED BY <2>3, <3>1, <3>2, <3>3, <3>4
  <2> QED BY <2>1, <2>3, <2>4, <2>5
<1> QED BY <1>1, <1>2

\* An instruction the search is at has an address and a destination.
LEMMA CurrentType ==
  ASSUME NEW p \in Processes, AtInstruction(p)
  PROVE  Current(p).address \in Int /\ GetCallDestination(Current(p)) \in Int
<1>1. scan[p].section \in DOMAIN Code[p] /\ scan[p].next \in 1 .. Len(Section(p).instructions)
  BY DEF AtInstruction, InSection
<1>2. /\ Current(p).address \in Int /\ Current(p).disp \in Int /\ Current(p).size \in Nat
  BY <1>1, CodeAssumption DEF Current, Section
<1> QED BY <1>2 DEF GetCallDestination

LEMMA SearchStep ==
  ASSUME ListInv, NEW p \in Processes, SearchForInstruction(p)
  PROVE  ListInv' /\ ResultsStay
<1> DEFINE old == m_Results[p]
           new == IF IsCall(p, Current(p)) THEN WithCall(old, Current(p)) ELSE old
<1>1. m_Results' = [m_Results EXCEPT ![p] = new] /\ UNCHANGED <<Results, hooked, shown>>
  BY DEF SearchForInstruction
<1>2. old \in Seq(SearchResults)
  BY DEF ListInv, ResultsType
<1>3. Current(p).address \in Int /\ GetCallDestination(Current(p)) \in Int
  BY CurrentType DEF SearchForInstruction
<1>4. /\ new \in Seq(SearchResults)
      /\ \A k \in DOMAIN old : k \in DOMAIN new /\ new[k] = old[k]
      /\ (\A j, k \in DOMAIN old : old[j].to = old[k].to => j = k) =>
           \A j, k \in DOMAIN new : new[j].to = new[k].to => j = k
  BY <1>2, <1>3, WithCallAppends
<1> HIDE DEF new
<1>5. /\ m_Results' \in [Processes -> Seq(SearchResults)]
      /\ m_Results'[p] = new
      /\ \A q \in Processes : q # p => m_Results'[q] = m_Results[q]
  BY <1>1, <1>4 DEF ListInv, ResultsType
<1>6. ResultsType'
  BY <1>1, <1>5 DEF ListInv, ResultsType
<1>7. Beginning'
  BY <1>1, <1>4, <1>5 DEF ListInv, Beginning
<1>8. Distinct'
  BY <1>4, <1>5 DEF ListInv, Distinct
<1>9. ShownIn' /\ HookedIn' /\ ResultsStay
  BY <1>1 DEF ListInv, ShownIn, HookedIn, ResultsStay
<1> QED BY <1>6, <1>7, <1>8, <1>9 DEF ListInv

LEMMA EndSectionStep ==
  ASSUME ListInv, NEW p \in Processes, EndSection(p)
  PROVE  ListInv' /\ ResultsStay
<1>1. Results' = [Results EXCEPT ![p] = m_Results[p]] /\ UNCHANGED <<m_Results, hooked, shown>>
  BY DEF EndSection
<1>2. /\ Results' \in [Processes -> Seq(SearchResults)]
      /\ Results'[p] = m_Results[p]
      /\ \A q \in Processes : q # p => Results'[q] = Results[q]
  BY <1>1 DEF ListInv, ResultsType
<1>3. ResultsStay
  BY <1>2 DEF ListInv, Beginning, ResultsStay
<1>4. ResultsType' /\ Distinct'
  BY <1>1, <1>2 DEF ListInv, ResultsType, Distinct
<1>5. Beginning'
  BY <1>1, <1>2 DEF ListInv, Beginning
<1>6. ShownIn'
  BY <1>1, <1>3 DEF ListInv, ShownIn, ResultsStay
<1>7. HookedIn'
  BY <1>1, <1>3 DEF ListInv, HookedIn, ResultsStay
<1> QED BY <1>4, <1>5, <1>6, <1>7, <1>3 DEF ListInv

LEMMA PrintStep ==
  ASSUME ListInv, NEW p \in Processes, PrintFoundSubs(p)
  PROVE  ListInv' /\ ResultsStay
<1> DEFINE lines == {[index |-> j - 1, at |-> Results[p][j].to] : j \in DOMAIN Results[p]}
<1>1. /\ shown' = [shown EXCEPT ![p] = @ \cup lines]
      /\ UNCHANGED <<m_Results, Results, hooked>>
  BY DEF PrintFoundSubs
<1>2. Results[p] \in Seq(SearchResults) /\ DOMAIN Results[p] \subseteq Int
  BY DEF ListInv, ResultsType
<1>3. ASSUME NEW l \in lines
      PROVE  /\ l.index \in Int /\ l.index + 1 \in DOMAIN Results[p]
             /\ Results[p][l.index + 1].to = l.at
  <2>1. PICK j \in DOMAIN Results[p] : l = [index |-> j - 1, at |-> Results[p][j].to]
    BY <1>3
  <2>2. l.index = j - 1 /\ l.at = Results[p][j].to /\ j \in Int
    BY <2>1, <1>2
  <2>3. l.index + 1 = j
    BY <2>2
  <2> QED BY <2>2, <2>3
<1> HIDE DEF lines
<1>4. /\ DOMAIN shown' = Processes /\ shown'[p] = shown[p] \cup lines
      /\ \A q \in Processes : q # p => shown'[q] = shown[q]
      /\ shown' = [q \in Processes |-> shown'[q]]
  BY <1>1 DEF ListInv, ResultsType
<1>5. ShownIn'
  BY <1>1, <1>3, <1>4 DEF ListInv, ShownIn
<1>6. ResultsType' /\ Beginning' /\ Distinct' /\ HookedIn' /\ ResultsStay
  BY <1>1, <1>4 DEF ListInv, ResultsType, Beginning, Distinct, HookedIn, ResultsStay
<1> QED BY <1>5, <1>6 DEF ListInv

\* A hook by an index that was shown is set where the line of that index says.
LEMMA HookStep ==
  ASSUME ListInv, NEW p \in Processes, NEW a, NEW by, HookFunctionAtRuntime(p, a, by),
         \A l \in shown[p] : l.index = by => by + 1 \in DOMAIN Results[p]
                                              /\ Results[p][by + 1].to = a
  PROVE  ListInv' /\ ResultsStay
<1> DEFINE h == [at |-> a, by |-> by, listed |-> \E l \in shown[p] : l.index = by]
<1>1. hooked' = [hooked EXCEPT ![p] = @ \cup {h}] /\ UNCHANGED <<m_Results, Results, shown>>
  BY DEF HookFunctionAtRuntime
<1>2. h.listed => /\ h.by \in Int /\ h.by + 1 \in DOMAIN Results[p]
                  /\ Results[p][h.by + 1].to = h.at
  BY DEF ListInv, ShownIn
<1> HIDE DEF h
<1>3. /\ DOMAIN hooked' = Processes /\ hooked'[p] = hooked[p] \cup {h}
      /\ \A q \in Processes : q # p => hooked'[q] = hooked[q]
      /\ hooked' = [q \in Processes |-> hooked'[q]]
  BY <1>1 DEF ListInv, ResultsType
<1>4. HookedIn'
  BY <1>1, <1>2, <1>3 DEF ListInv, HookedIn
<1>5. ResultsType' /\ Beginning' /\ Distinct' /\ ShownIn' /\ ResultsStay
  BY <1>1, <1>3 DEF ListInv, ResultsType, Beginning, Distinct, ShownIn, ResultsStay
<1> QED BY <1>4, <1>5 DEF ListInv

LEMMA HookAtIndexStep ==
  ASSUME ListInv, NEW p \in Processes, HookAtIndex(p)
  PROVE  ListInv' /\ ResultsStay
<1> DEFINE n == Task(p).number
<1>1. PICK a : /\ HookFunctionAtRuntime(p, a, n)
               /\ n + 1 \in DOMAIN Results[p] => a = Results[p][n + 1].to
  BY DEF HookAtIndex
<1>2. \A l \in shown[p] : l.index = n => n + 1 \in DOMAIN Results[p]
  BY DEF ListInv, ShownIn
<1> QED BY <1>1, <1>2, HookStep

LEMMA HookAtAddrStep ==
  ASSUME ListInv, NEW p \in Processes, HookAtAddr(p)
  PROVE  ListInv' /\ ResultsStay
<1>1. HookFunctionAtRuntime(p, Task(p).number, ByNobody)
  BY DEF HookAtAddr
<1>2. ASSUME NEW l \in shown[p] PROVE l.index # ByNobody
  <2>1. l.index \in Int /\ l.index + 1 \in DOMAIN Results[p]
    BY DEF ListInv, ShownIn
  <2>2. Results[p] \in Seq(SearchResults)
    BY DEF ListInv, ResultsType
  <2>3. l.index + 1 >= 1
    BY <2>1, <2>2
  <2> QED BY <2>1, <2>3 DEF ByNobody
<1> QED BY <1>1, <1>2, HookStep

LEMMA Unsearched ==
  ASSUME ListInv, UNCHANGED searched PROVE ListInv' /\ ResultsStay
BY DEF searched, ListInv, ResultsType, Beginning, Distinct, ShownIn, HookedIn, ResultsStay

(***************************************************************************)
(* The theorems.                                                           *)
(***************************************************************************)
LEMMA ListInit == SessionInit => ListInv
<1> SUFFICES ASSUME SessionInit PROVE ListInv
  OBVIOUS
<1>1. /\ m_Results = [p \in Processes |-> <<>>] /\ Results = [p \in Processes |-> <<>>]
      /\ hooked = [p \in Processes |-> {}] /\ shown = [p \in Processes |-> {}]
  BY DEF SessionInit, SubInit
<1>2. ResultsType
  BY <1>1 DEF ResultsType
<1>3. Beginning /\ Distinct /\ ShownIn /\ HookedIn
  BY <1>1 DEF Beginning, Distinct, ShownIn, HookedIn
<1> QED BY <1>2, <1>3 DEF ListInv

LEMMA ListStep == ListInv /\ [Next]_vars => ListInv' /\ ResultsStay
<1> SUFFICES ASSUME ListInv, [Next]_vars PROVE ListInv' /\ ResultsStay
  OBVIOUS
<1>1. CASE UNCHANGED vars
  BY <1>1, Unsearched DEF vars, dll, searched
<1>2. CASE \/ TypeLine \/ OpenProc \/ OpenProcPath \/ Inject \/ ProcExit
           \/ Help \/ ExitLoader \/ EndBatch \/ (\E name \in Sent : SendCommand(name))
  <2>1. UNCHANGED searched
    BY <1>2 DEF TypeLine, OpenProc, OpenProcPath, Inject, ProcExit, Help, ExitLoader,
                EndBatch, SendCommand, dll, searched
  <2> QED BY <2>1, Unsearched
<1>3. ASSUME NEW p \in Processes, Attach(p) \/ ParseAndExecuteCommands(p)
      PROVE  ListInv' /\ ResultsStay
  <2>1. UNCHANGED searched
    BY <1>3 DEF Attach, ParseAndExecuteCommands, dll, searched
  <2> QED BY <2>1, Unsearched
<1>4. ASSUME NEW p \in Processes, DllStep(p) PROVE ListInv' /\ ResultsStay
  <2>1. CASE FindSubRoutines(p) \/ SkipSection(p)
    <3>1. UNCHANGED searched
      BY <2>1 DEF FindSubRoutines, SkipSection, searched
    <3> QED BY <3>1, Unsearched
  <2>2. CASE SearchForInstruction(p)
    BY <2>2, SearchStep
  <2>3. CASE EndSection(p)
    BY <2>3, EndSectionStep
  <2>4. CASE PrintFoundSubs(p)
    BY <2>4, PrintStep
  <2>5. CASE HookAtIndex(p)
    BY <2>5, HookAtIndexStep
  <2>6. CASE HookAtAddr(p)
    BY <2>6, HookAtAddrStep
  <2> QED BY <1>4, <2>1, <2>2, <2>3, <2>4, <2>5, <2>6 DEF DllStep, Serve
<1> QED BY <1>1, <1>2, <1>3, <1>4 DEF Next

LEMMA ListAlways == Spec => []ListInv
<1>1. ListInv /\ [Next]_vars => ListInv'
  BY ListStep
<1> QED BY <1>1, ListInit, PTL DEF Spec

\* Once an index has been listed, hooking it hooks the subroutine of that line
\* (dllmain.cpp:117 and 153), whatever was hooked and searched in between.
THEOREM IndexKeepsMeaning == Spec => []ListedHooked
<1>1. ListInv => ListedHooked
  BY DEF ListInv, ShownIn, HookedIn, ListedHooked
<1> QED BY <1>1, ListAlways, PTL

\* The lists number each subroutine once (DissasemblyRoutines.cpp:42-49).
THEOREM SubroutinesOnce == Spec => []ListedOnce
<1>1. ListInv => ListedOnce
  <2> SUFFICES ASSUME ListInv, NEW p \in Processes, NEW k \in shown[p], NEW l \in shown[p]
               PROVE  k.index = l.index <=> k.at = l.at
    BY DEF ListedOnce
  <2>1. /\ k.index \in Int /\ k.index + 1 \in DOMAIN Results[p]
        /\ Results[p][k.index + 1].to = k.at
        /\ l.index \in Int /\ l.index + 1 \in DOMAIN Results[p]
        /\ Results[p][l.index + 1].to = l.at
    BY DEF ListInv, ShownIn
  <2>2. k.at = l.at => k.index + 1 = l.index + 1
    BY <2>1 DEF ListInv, Beginning, Distinct
  <2> QED BY <2>1, <2>2
<1> QED BY <1>1, ListAlways, PTL

\* No step takes a result away or moves one: m_Results is never cleared.
THEOREM NoResultLost == Spec => ResultsStable
<1>1. ListInv /\ [Next]_vars => [ResultsStay]_vars
  BY ListStep
<1> QED BY <1>1, ListAlways, PTL DEF Spec, ResultsStable
=============================================================================
