---------------------------- MODULE FrameService ----------------------------
(***************************************************************************)
(* What omni.h promises of a duplex session: frames are pushed, each is    *)
(* answered once, in the order of the pushes and in the context of itself  *)
(* and its predecessors alone, and a session that ends has answered all.   *)
(***************************************************************************)
EXTENDS Naturals, Sequences

CONSTANT MaxFrames

VARIABLES
    pushed,      \* how many frames have been pushed
    results,     \* the answers so far
    open         \* the session has not been ended

\* The answer to a frame, made when the context had seen so many of them.
Answer(k) == [frame |-> k, seen |-> k]

Init == pushed = 0 /\ results = <<>> /\ open = TRUE

Push ==
    /\ open /\ pushed < MaxFrames
    /\ pushed' = pushed + 1
    /\ UNCHANGED <<results, open>>

Serve ==
    /\ Len(results) < pushed
    /\ results' = Append(results, Answer(Len(results) + 1))
    /\ UNCHANGED <<pushed, open>>

End ==
    /\ open /\ Len(results) = pushed
    /\ open' = FALSE
    /\ UNCHANGED <<pushed, results>>

Next == Push \/ Serve \/ End

Spec == Init /\ [][Next]_<<pushed, results, open>>
=============================================================================
