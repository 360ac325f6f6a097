---------------------------- MODULE Subroutines -----------------------------
(***************************************************************************)
(* What UniHook.dll knows of the subroutines of the process it is in: the  *)
(* InstructionSearcher looks for calls in the executable sections, and the *)
(* results, which the user sees as a numbered list, are hooked by number.  *)
(* A hook overwrites the code that the next search reads.                  *)
(*                                                                         *)
(* One thread of each process does all this (MsgThread), task by task.     *)
(***************************************************************************)
EXTENDS Integers, Sequences, SequencesExt

CONSTANTS
  Processes,   \* processes of the machine; one that has ended does not come back
  Code,        \* Code[p]: the sections, [executable, instructions]; an instruction
               \* is [address, size, op, disp]
  JmpSize      \* bytes that Detour overwrites

Instructions(p) == UNION {ToSet(Code[p][s].instructions) : s \in DOMAIN Code[p]}

ASSUME CodeAssumption ==
  /\ JmpSize \in Nat
  /\ \A p \in Processes :
       /\ Len(Code[p]) \in Nat /\ DOMAIN Code[p] = 1 .. Len(Code[p])
       /\ \A s \in DOMAIN Code[p] :
            /\ Code[p][s].executable \in BOOLEAN
            /\ Len(Code[p][s].instructions) \in Nat
            /\ \A k \in 1 .. Len(Code[p][s].instructions) :
                 /\ Code[p][s].instructions[k].address \in Int
                 /\ Code[p][s].instructions[k].disp \in Int
                 /\ Code[p][s].instructions[k].size \in Nat

VARIABLES
  running,     \* processes that have not ended
  m_Results,   \* m_Results[p]: what the searcher has found: [at, to], the address of a
               \* call and its destination
  Results,     \* Results[p]: what it has returned
  hooked,      \* hooked[p]: m_Hooks: [at, by, listed], the address hooked, and as history
               \* the index it was hooked by (-1 for none), and whether the user had seen
               \* that index in a list
  job,         \* job[p]: the tasks of the command in execution: [kind, number]
  scan,        \* scan[p]: section and instruction the search is at; section 0: none
  shown        \* history: shown[p]: the lines sent to the user: [index, at]

dll == <<m_Results, Results, hooked, job, scan, shown>>

NoScan   == [section |-> 0, next |-> 0]
ByNobody == -1
NoCode   == -1                       \* an address at which nothing can be hooked

SubInit ==
  /\ m_Results = [p \in Processes |-> <<>>]
  /\ Results   = [p \in Processes |-> <<>>]
  /\ hooked    = [p \in Processes |-> {}]
  /\ job       = [p \in Processes |-> <<>>]
  /\ scan      = [p \in Processes |-> NoScan]
  /\ shown     = [p \in Processes |-> {}]

\* A hook has put a jump here, and nops up to the next instruction.
Overwritten(p, i) ==
  \E h \in hooked[p] : i.address + i.size > h.at /\ i.address < h.at + JmpSize

\* What cs_disasm makes of an instruction: it stops at bytes that are none.
Decodes(p, i) == i.op # "data" \/ Overwritten(p, i)
IsCall(p, i)  == i.op = "call" /\ ~Overwritten(p, i)      \* call with an immediate

GetCallDestination(i) == i.address + i.disp + i.size
-----------------------------------------------------------------------------
(***************************************************************************)
(* FindSubRoutines, for a list, or for an index when there are no Results. *)
(***************************************************************************)
Task(p)  == Head(job[p])
Busy(p)  == p \in running /\ job[p] # <<>>
Scanned(p) == scan[p].section > Len(Code[p])
NeedsScan(p) ==
  scan[p] = NoScan /\ (Task(p).kind = "list" \/ (Task(p).kind = "index" /\ Results[p] = <<>>))

Ready(p) == Scanned(p) \/ (scan[p] = NoScan /\ ~NeedsScan(p))

FindSubRoutines(p) ==
  /\ Busy(p) /\ NeedsScan(p)
  /\ scan' = [scan EXCEPT ![p] = [section |-> 1, next |-> 1]]
  /\ UNCHANGED <<running, m_Results, Results, hooked, job, shown>>

\* In the middle of the section with these instructions.
InSection(p) == Busy(p) /\ scan[p].section \in DOMAIN Code[p]
Section(p)   == Code[p][scan[p].section]
NextSection(p) ==
  scan' = [scan EXCEPT ![p] = [section |-> @.section + 1, next |-> 1]]

SkipSection(p) ==
  /\ InSection(p) /\ ~Section(p).executable
  /\ NextSection(p)
  /\ UNCHANGED <<running, m_Results, Results, hooked, job, shown>>

Current(p) == Section(p).instructions[scan[p].next]
AtInstruction(p) ==
  /\ InSection(p) /\ Section(p).executable
  /\ scan[p].next \in 1 .. Len(Section(p).instructions)
  /\ Decodes(p, Current(p))

\* Faulty variant: a call is new when no call at this address was found.
WithCallAt(found, i) ==
  IF \E k \in DOMAIN found : found[k].at = i.address
  THEN found ELSE Append(found, [at |-> i.address, to |-> GetCallDestination(i)])

\* m_Results with the call i, unless a call of the same destination is in it.
WithCall(found, i) ==
  IF \E k \in DOMAIN found : found[k].to = GetCallDestination(i)
  THEN found ELSE Append(found, [at |-> i.address, to |-> GetCallDestination(i)])

SearchForInstruction(p) ==
  /\ AtInstruction(p)
  /\ m_Results' = [m_Results EXCEPT ![p] =
                     IF IsCall(p, Current(p)) THEN WithCall(@, Current(p)) ELSE @]
  /\ scan' = [scan EXCEPT ![p].next = @ + 1]
  /\ UNCHANGED <<running, Results, hooked, job, shown>>

\* Faulty variant: the searcher forgets what it has found when it is done.
EndSectionForget(p) ==
  /\ InSection(p) /\ Section(p).executable /\ ~AtInstruction(p)
  /\ Results' = [Results EXCEPT ![p] = m_Results[p]]
  /\ m_Results' = [m_Results EXCEPT ![p] = <<>>]
  /\ NextSection(p)
  /\ UNCHANGED <<running, hooked, job, shown>>

\* Results = m_InsSearcher.SearchForInstruction(...)
EndSection(p) ==
  /\ InSection(p) /\ Section(p).executable /\ ~AtInstruction(p)
  /\ Results' = [Results EXCEPT ![p] = m_Results[p]]
  /\ NextSection(p)
  /\ UNCHANGED <<running, m_Results, hooked, job, shown>>
-----------------------------------------------------------------------------
(***************************************************************************)
(* The tasks.                                                              *)
(***************************************************************************)
Done(p) ==
  /\ job' = [job EXCEPT ![p] = Tail(@)]
  /\ scan' = [scan EXCEPT ![p] = NoScan]

\* Every line of the list, numbered from 0.
PrintFoundSubs(p) ==
  /\ Busy(p) /\ Task(p).kind = "list" /\ Scanned(p)
  /\ shown' = [shown EXCEPT ![p] =
       @ \cup {[index |-> j - 1, at |-> Results[p][j].to] : j \in DOMAIN Results[p]}]
  /\ Done(p)
  /\ UNCHANGED <<running, m_Results, Results, hooked>>

\* A Detour is set at address a.  A process in which no instruction begins there is
\* taken to end: what the overwritten bytes would mean is left out.
HookFunctionAtRuntime(p, a, by) ==
  /\ hooked' = [hooked EXCEPT ![p] = @ \cup
       {[at |-> a, by |-> by, listed |-> \E l \in shown[p] : l.index = by]}]
  /\ running' = IF \E i \in Instructions(p) : i.address = a
                THEN running ELSE running \ {p}
  /\ Done(p)
  /\ UNCHANGED <<m_Results, Results, shown>>

\* Faulty variant: the index is taken to begin with one.
HookAtIndexOne(p) ==
  LET n == Task(p).number IN
  /\ Busy(p) /\ Task(p).kind = "index" /\ Ready(p)
  /\ \E a \in IF n \in DOMAIN Results[p] THEN {Results[p][n].to} ELSE {NoCode} :
       HookFunctionAtRuntime(p, a, n)

\* Results[Index] is not checked: beyond the end, it is whatever lies there.
HookAtIndex(p) ==
  LET n == Task(p).number IN
  /\ Busy(p) /\ Task(p).kind = "index" /\ Ready(p)
  /\ \E a \in IF n + 1 \in DOMAIN Results[p] THEN {Results[p][n + 1].to}
              ELSE {NoCode} \cup {i.address : i \in Instructions(p)} :
       HookFunctionAtRuntime(p, a, n)

HookAtAddr(p) ==
  /\ Busy(p) /\ Task(p).kind = "address"
  /\ HookFunctionAtRuntime(p, Task(p).number, ByNobody)

Serve(p) ==
  \/ FindSubRoutines(p) \/ SkipSection(p) \/ SearchForInstruction(p) \/ EndSection(p)
  \/ PrintFoundSubs(p) \/ HookAtIndex(p) \/ HookAtAddr(p)
-----------------------------------------------------------------------------
(***************************************************************************)
(* Properties                                                              *)
(***************************************************************************)
\* A line of the list stays true: once an index has been listed, hooking it hooks the
\* subroutine of that line, whatever was hooked and searched in between.
ListedHooked ==
  \A p \in Processes : \A h \in hooked[p] : \A l \in shown[p] :
    h.listed /\ h.by = l.index => h.at = l.at

\* The lines of all the lists number each subroutine once.
ListedOnce ==
  \A p \in Processes : \A k, l \in shown[p] : k.index = l.index <=> k.at = l.at

\* No result is ever dropped or moved.
ResultsStay ==
  \A p \in Processes : \A k \in DOMAIN Results[p] :
    k \in DOMAIN Results'[p] /\ Results'[p][k] = Results[p][k]
=============================================================================
