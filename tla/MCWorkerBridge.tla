---------------------------- MODULE MCWorkerBridge ----------------------------
(* Two sessions over one worker and one backend, one of each mode. *)
EXTENDS WorkerBridge, TLC

CONSTANTS a, b

MCInputs == a :> 2 @@ b :> 1
=============================================================================
