------------------------------- MODULE MCLanes --------------------------------
(* Instances of the router with the reported link qualities on record.     *)
EXTENDS MCRouter, RouterLanes
===============================================================================
