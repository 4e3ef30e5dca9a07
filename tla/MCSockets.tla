------------------------------ MODULE MCSockets -------------------------------
(* An instance of the audio sockets for TLC.                               *)
EXTENDS Sockets

\* Two tokens of one client, as a page reloaded under a new one has.
MCTokenOf == [t \in Token |-> "a"]
===============================================================================
