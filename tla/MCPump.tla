------------------------------- MODULE MCPump -------------------------------
(* Frames for the model-checking runs of Pump. *)
EXTENDS Pump

CONSTANTS f1, f2
=============================================================================
