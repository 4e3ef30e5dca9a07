------------------------------- MODULE MCRouter -------------------------------
(* Instances of the router for TLC.                                        *)
EXTENDS RouterSteady, TLC

\* Each unit plays on a server of its own, named like the unit's session.
MCServerOf == [c \in Client |-> IF c \in Console THEN ConsoleServer
                                ELSE CHOOSE s \in Server : s = <<"fx", c>>]
MCServer == {<<"fx", c>> : c \in Unit}
MCSessionServer == [s \in Session |-> s[1]]
NoSession == {}
OneEach == {<<s, 1>> : s \in Server}

Trunked == [t \in Tg |-> "P25"]
AllAm == [t \in Tg |-> "AM"]
AmSide == [t \in Tg |-> IF t = 1 THEN "P25" ELSE "AM"]
FmSide == [t \in Tg |-> IF t = 1 THEN "P25" ELSE "FM"]

NoPatch == {{}}
Pair == {{}, {{1, 2}}}
Chain == {{}, {{1, 2}, {2, 3}}}

\* Units are alike: their servers appear in no state.
Alike == Permutations(Unit)
===============================================================================
