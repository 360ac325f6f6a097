--------------------------- MODULE MCHookSession ----------------------------
(***************************************************************************)
(* A small instance of HookSession: two processes that run one program.    *)
(***************************************************************************)
EXTENDS HookSession

Registration(id, short, long, takes) == [id |-> id, names |-> {short, long}, takes |-> takes]
MCRegistered == <<
  Registration("OpenProc", "-p", "-openproc", TRUE),
  Registration("Inject", "-i", "-inject", TRUE),
  Registration("ProcExit", "-pe", "-procexit", FALSE),
  Registration("Help", "-h", "-help", FALSE),
  Registration("ListSubs", "-ls", "-listsubs", FALSE),
  Registration("HookAtAddr", "-hsa", "-hooksuba", TRUE),
  Registration("HookAtIndex", "-hsi", "-hooksubi", TRUE),
  Registration("Exit", "-x", "-exit", FALSE),
  Registration("OpenProcPath", "-pp", "-openprocpath", TRUE),
  Registration("HookMultiple", "-hsm", "-hooksubm", TRUE) >>

\* Two subroutines, at 0 and 20, the first of which begins with a call of the second;
\* behind them data, and a call that is not found because of it.
Ins(a, n, op, d) == [address |-> a, size |-> n, op |-> op, disp |-> d]
Program == <<
  [executable |-> TRUE, instructions |->
     << Ins(0, 5, "call", 15), Ins(5, 5, "call", -10), Ins(10, 3, "plain", 0),
        Ins(20, 5, "plain", 0), Ins(25, 5, "call", -10), Ins(30, 2, "data", 0),
        Ins(32, 5, "call", 3) >>],
  [executable |-> FALSE, instructions |-> << Ins(40, 5, "call", 0) >>],
  [executable |-> TRUE, instructions |-> << Ins(60, 5, "call", -65) >>] >>
MCCode == [p \in Processes |-> Program]

MCName == [p \in Processes |-> "app.exe"]
MCPath == [p \in Processes |-> "c:app.exe"]
MCNumber == [w \in {"0", "1", "2"} |-> CASE w = "0" -> 0 [] w = "1" -> 1 [] OTHER -> 2]
MCFiles == [f \in {"hooks.txt"} |-> << [kind |-> "index", number |-> 1],
                                       [kind |-> "address", number |-> 20] >>]

Opening == {<<"-p", "app.exe", "-i", "dll">>, <<"-pp", "c:app.exe", "-inject", "dll">>}
MCLines == Opening \cup
  {<<"-ls">>, <<"-listsubs", "-hsi", "1">>, <<"-hsi", "0">>, <<"-hsi">>, <<"-hsa", "1">>,
   <<"-hsm", "hooks.txt">>, <<"-x", "-pe">>, <<"-pe", "-p", "other.exe">>, <<"-h", "-p", "-pe">>}
=============================================================================
