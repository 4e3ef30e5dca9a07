----------------------------- MODULE MCSupervisor -----------------------------
(* An instance of the supervisor for TLC.                                  *)
EXTENDS Supervisor
===============================================================================
