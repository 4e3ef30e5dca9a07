-------------------------------- MODULE MCCalls -------------------------------
(* Instances of the calls for TLC.                                         *)
EXTENDS MCRouter, Calls, FiniteSetsExt

\* The first console watches the one side of the patch, the second both.
MCBoards == [c \in Console |-> IF c = "d1" THEN {{1}} ELSE {{1, 2}}]

\* Consoles that watch both sides.
BothSides == [c \in Console |-> {{1, 2}}]

\* Consoles whose board may be any.
AnyBoard == [c \in Console |-> SUBSET Tg]

\* The order of a patch table that lists its routes by number.
MCFirstOf(t, S) == IF t \in S THEN t ELSE Min(S)
===============================================================================
