----------------------- MODULE MCWorkerPoolRelocation -----------------------
(* An instance of WorkerPoolRelocation for TLC: one worker is enough to move, *)
(* a request that held it, one that holds it now and one that comes last.     *)
EXTENDS WorkerPoolRelocation, TLC

CONSTANTS r1, r2, r3

MCTypeOf == [r \in Requests |-> "duplex"]
MCSupports == [w \in Workers |-> {"duplex"}]
MCGpuGroup == [w \in Workers |-> w]

=============================================================================
