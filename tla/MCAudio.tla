-------------------------------- MODULE MCAudio --------------------------------
(* An instance of the audio path for TLC: an airband frequency and a       *)
(* talkgroup, which may be patched.                                        *)
EXTENDS Audio

MCModeOf == [t \in Route |-> IF t = 1 THEN "Am" ELSE "P25"]

Table(airband, trunked) ==
    [t \in Route |-> [c \in Client |->
        LET links == IF t = 1 THEN airband ELSE trunked
        IN  IF c \in DOMAIN links THEN links[c] ELSE None]]

\* A radio on each side, and a listener on both who may move from one lane of
\* the frequency to another.
MCRoster ==
    {Table([a |-> 100, l |-> quality], [l |-> 100, b |-> 30]) : quality \in {40, 100}}

\* Everybody on the frequency.
MCAirband == {Table([a |-> 100, b |-> 100, l |-> 100], [l |-> 5])}

\* Two frequencies, in sight of one listener.
BothAm == [t \in Route |-> "Am"]

MCTower == {Table([l |-> 100], [l |-> 100])}
===============================================================================
