---------------------------- MODULE MCWorkerPool ----------------------------
(* An instance of WorkerPool for TLC: three workers on two GPUs, one of them *)
(* without the duplex capability, and four requests of two types.            *)
EXTENDS WorkerPool, TLC

CONSTANTS r1, r2, r3, r4

MCRequests == {r1, r2, r3, r4}
MCWorkers  == 1 .. 3
MCTypeOf   == (r1 :> "duplex") @@ (r2 :> "duplex") @@ (r3 :> "duplex") @@ (r4 :> "chat")
MCSupports == <<{"chat", "duplex"}, {"chat", "duplex"}, {"chat"}>>
MCGpuGroup == <<"gpu0", "gpu0", "gpu1">>

=============================================================================
