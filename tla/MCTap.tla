--------------------------------- MODULE MCTap ---------------------------------
(* An instance of a tap for TLC.                                           *)
EXTENDS Tap

\* No voice, and some that reads as the negative of a number.
MCAround == {<<>>, <<248, 7>>}
===============================================================================
