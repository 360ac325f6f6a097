------------------------------ MODULE CmdLine -------------------------------
(***************************************************************************)
(* CmdLineParser: how the words of a line become commands.                 *)
(***************************************************************************)
EXTENDS Integers, Sequences, SequencesExt, FiniteSetsExt

CONSTANT Registered      \* RegisterArgs: [id, names, takes], in the order of the calls

Found(id, word) == [id |-> id, param |-> word]

\* The word is compared with each registered option.  An option that takes a
\* parameter moves on to the next word, and the options registered after it are
\* compared with that.
CompareAll(args, i) ==
  FoldLeft(LAMBDA s, r :
             IF s.arg \notin r.names THEN s
             ELSE IF ~r.takes THEN [s EXCEPT !.found = Append(@, Found(r.id, ""))]
             ELSE IF s.i + 1 > Len(args)
             THEN [s EXCEPT !.i = @ + 1, !.found = Append(@, Found(r.id, ""))]
             ELSE [i |-> s.i + 1, arg |-> args[s.i + 1],
                   found |-> Append(s.found, Found(r.id, args[s.i + 1]))],
           [i |-> i, arg |-> args[i], found |-> <<>>], Registered)

\* What Parse appends to m_FoundArgs.
Parse(args) ==
  LET from[i \in 1 .. Len(args) + 2] ==
        IF i > Len(args) THEN <<>>
        ELSE LET s == CompareAll(args, i) IN s.found \o from[Min({s.i, Len(args) + 1}) + 1]
  IN from[1]
-----------------------------------------------------------------------------
\* What a reader of the help expects: an option, then its parameter.
IsOption(word) == \E k \in DOMAIN Registered : word \in Registered[k].names
Option(word)   == Registered[CHOOSE k \in DOMAIN Registered : word \in Registered[k].names]

Reading(args) ==
  LET from[i \in 1 .. Len(args) + 2] ==
        IF i > Len(args) THEN <<>>
        ELSE IF ~IsOption(args[i]) THEN from[i + 1]
        ELSE IF Option(args[i]).takes
        THEN <<Found(Option(args[i]).id, IF i < Len(args) THEN args[i + 1] ELSE "")>>
               \o from[i + 2]
        ELSE <<Found(Option(args[i]).id, "")>> \o from[i + 1]
  IN from[1]

\* No parameter is the name of an option registered after the one it belongs to.
Unambiguous(args) ==
  \A i \in 1 .. Len(args) - 1 : \A k \in DOMAIN Registered :
    args[i] \in Registered[k].names /\ Registered[k].takes =>
      \A n \in DOMAIN Registered : n > k => args[i + 1] \notin Registered[n].names
=============================================================================
