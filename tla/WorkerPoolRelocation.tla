------------------------ MODULE WorkerPoolRelocation ------------------------
(***************************************************************************)
(* The worker pool when the control plane may also move a worker to a new  *)
(* endpoint (PUT /internal/workers/{worker_id}) while handlers hold it.    *)
(* The handlers keep the connection they have to the old process; the      *)
(* pool's record of the worker now stands for the new one.                 *)
(***************************************************************************)
EXTENDS WorkerPool

VARIABLE moved     \* requests whose worker has moved since it was granted

relocationVars == <<vars, moved>>

InitRelocation == Init /\ moved = {}

\* register_worker with another endpoint: what was known of w is dropped.  The
\* refresh and the dispatch that follow are those of the pool.
Relocate(w) ==
    /\ status' = [status EXCEPT ![w] = "offline"]
    /\ dispatched' = [dispatched EXCEPT ![w] = FALSE]
    /\ moved' = moved \cup {r \in Requests : Holds(r, w)}
    /\ UNCHANGED <<slot, arrivals, position, future, finished, owed>>

NextRelocation ==
    \/ Next /\ UNCHANGED moved
    \/ \E w \in Workers : Relocate(w)

SpecRelocation == InitRelocation /\ [][NextRelocation]_relocationVars

-----------------------------------------------------------------------------

\* Two requests hold one worker only if it has moved while one of those it was
\* granted to held it: the release by an old holder, which does not say whom it is
\* for, is the one way to an endpoint that is granted twice (release_worker).
DoublesHaveMoved ==
    \A r, s \in Requests, w \in Workers :
        Holds(r, w) /\ Holds(s, w) /\ r # s => \E q \in moved : future[q] = w

=============================================================================
