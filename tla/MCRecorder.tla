------------------------------- MODULE MCRecorder -------------------------------
(* An instance of the recorder for TLC.                                    *)
EXTENDS Recorder
===============================================================================
