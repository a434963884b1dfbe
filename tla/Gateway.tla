------------------------------- MODULE Gateway -------------------------------
(***************************************************************************)
(* The gateway service: one handler per client WebSocket (gateway.py,      *)
(* _api_worker_passthrough_ws), the health checks and registrations that   *)
(* refresh the worker pool, and the worker processes as the gateway meets  *)
(* them.  Handlers and refreshes are coroutines of one event loop: a step  *)
(* is the code between two awaits, and anything may come between steps.    *)
(*                                                                         *)
(* Clients in Deserters may drop their connection at any time; the gateway *)
(* only learns of it from a send that fails, or while it relays.  Workers  *)
(* in Flaky may crash, restart and let a health check time out.            *)
(***************************************************************************)
EXTENDS Naturals, FiniteSets

CONSTANTS
    Requests, Workers, TypeOf, Supports, GpuGroup, MaxQueueSize,
    Pending, Cancelled, NoFuture,   \* as in WorkerPool
    TimedTypes,     \* request types with a maximal session duration
    Deserters,      \* requests whose client may disconnect early
    Flaky,          \* workers that may crash or miss a health check
    Registering,    \* workers that the control plane may register again
    NoOne           \* a worker process without a session

ASSUME OutcomesDistinct == /\ Pending \notin Workers /\ Cancelled \notin Workers
                           /\ NoFuture \notin Workers
                           /\ Pending # Cancelled /\ Pending # NoFuture
                           /\ Cancelled # NoFuture

VARIABLES
    status, dispatched, slot, arrivals, position, future,   \* the pool
    pc,        \* [Requests -> Stage] where the handler of each request is
    online,    \* [Requests -> BOOLEAN] the client's connection is up
    up,        \* [Workers -> BOOLEAN] the worker process is running
    owner,     \* [Workers -> Requests or NoOne] the session the process runs
    probe      \* [Tasks -> [Workers -> Probe]] refreshes in flight

poolVars   == <<status, dispatched, slot, arrivals, position, future>>
workerVars == <<up, owner>>
vars       == <<poolVars, pc, online, workerVars, probe>>

\* The stages are the awaits a handler can be suspended at: sending a queue
\* notice, waiting for the future, sending queue_done, connecting to the
\* worker, relaying, closing.
Stage == {"new", "notify", "wait", "announce", "connect", "relay", "closing", "done"}

\* A refresh is made by the health loop or by a registration.  Per worker its
\* GET is in flight, then answered, then applied.
Tasks == {"loop", "register"}
Probe == {"none", "sent", "idle", "busy", "offline", "applied"}

Pool == INSTANCE WorkerPool
          WITH finished <- {r \in Requests : pc[r] = "done"},
               owed     <- \E t \in Tasks, w \in Workers : probe[t][w] = "applied"

Init ==
    /\ Pool!PoolInit
    /\ pc = [r \in Requests |-> "new"]
    /\ online = [r \in Requests |-> TRUE]
    /\ up = [w \in Workers |-> TRUE]
    /\ owner = [w \in Workers |-> NoOne]
    /\ probe = [t \in Tasks |-> [w \in Workers |-> "none"]]

-----------------------------------------------------------------------------
(* A client's handler *)

Goto(r, from, to) == pc[r] = from /\ pc' = [pc EXCEPT ![r] = to]

\* accept and enqueue; a rejected request is told so and closed.
Arrive(r) ==
    /\ \/ Goto(r, "new", "announce") /\ Pool!EnqueueImmediate(r)
       \/ Goto(r, "new", "notify") /\ Pool!EnqueueWaiting(r)
       \/ Goto(r, "new", "done") /\ Pool!QueueFull(r)
    /\ UNCHANGED <<online, workerVars, probe>>

\* session.queued or session.queue_update is sent: back to `while not
\* future.done()`.  The result of a cancelled future raises out of the handler.
NotifySent(r) ==
    /\ \/ Goto(r, "notify", "wait") /\ future[r] = Pending
       \/ Goto(r, "notify", "announce") /\ future[r] \in Workers
       \/ Goto(r, "notify", "done") /\ future[r] = Cancelled
    /\ UNCHANGED <<poolVars, online, workerVars, probe>>

\* The send raises: the handler cancels its ticket and returns.  Nothing is
\* cancelled when the ticket has left the queue during the send.
NotifyFailed(r) ==
    /\ ~online[r]
    /\ Goto(r, "notify", "done")
    /\ IF slot[r] # 0 THEN Pool!Cancel(r) ELSE UNCHANGED poolVars
    /\ UNCHANGED <<online, workerVars, probe>>

\* The 3 s timeout on the future: send the current position.
Poll(r) ==
    /\ future[r] = Pending
    /\ Goto(r, "wait", "notify")
    /\ UNCHANGED <<poolVars, online, workerVars, probe>>

\* The future is done.  If it was cancelled, so is the wait, and the handler's
\* own cancel finds no ticket.
Wake(r) ==
    /\ \/ Goto(r, "wait", "announce") /\ future[r] \in Workers
       \/ Goto(r, "wait", "done") /\ future[r] = Cancelled
    /\ UNCHANGED <<poolVars, online, workerVars, probe>>

\* session.queue_done is sent: the granted worker is marked busy again.
AnnounceSent(r) ==
    /\ Goto(r, "announce", "connect")
    /\ Pool!MarkBusy(future[r])
    /\ UNCHANGED <<online, workerVars, probe>>

\* That send raises: it is outside every try, and the handler dies.
AnnounceFailed(r) ==
    /\ ~online[r]
    /\ Goto(r, "announce", "done")
    /\ UNCHANGED <<poolVars, online, workerVars, probe>>

\* The worker accepts a connection only when it has no session.
Accepts(w) == up[w] /\ owner[w] = NoOne

\* Fault: a failed connection returns before the finally block.
ConnectNoFinally(r) ==
    /\ \/ /\ Goto(r, "connect", "relay")
          /\ Accepts(future[r])
          /\ owner' = [owner EXCEPT ![future[r]] = r]
       \/ Goto(r, "connect", "done") /\ UNCHANGED owner
    /\ UNCHANGED <<poolVars, online, up, probe>>

\* If it does not, or is too slow (open_timeout), the exception is reported to the
\* client and the finally block runs.  A slow worker may have accepted all the same.
Connect(r) ==
    /\ \/ /\ Goto(r, "connect", "relay")
          /\ Accepts(future[r])
          /\ owner' = [owner EXCEPT ![future[r]] = r]
       \/ /\ Goto(r, "connect", "closing")
          /\ \/ UNCHANGED owner
             \/ Accepts(future[r]) /\ owner' = [owner EXCEPT ![future[r]] = r]
    /\ UNCHANGED <<poolVars, online, up, probe>>

\* Fault: the end of the relay releases the worker, and so does the handler.
RelayEndReleases(r) ==
    /\ Goto(r, "relay", "closing")
    /\ ~online[r] \/ owner[future[r]] # r
    /\ Pool!ReleaseWorker(future[r])
    /\ UNCHANGED <<online, workerVars, probe>>

\* One side of the relay is gone.
RelayEnd(r) ==
    /\ Goto(r, "relay", "closing")
    /\ ~online[r] \/ owner[future[r]] # r
    /\ UNCHANGED <<poolVars, online, workerVars, probe>>

\* session_timeout_watchdog, which chat sessions do not have.
SessionTimeout(r) ==
    /\ TypeOf[r] \in TimedTypes
    /\ Goto(r, "relay", "closing")
    /\ UNCHANGED <<poolVars, online, workerVars, probe>>

\* The end of the finally block, once the worker connection is closed.
Release(r) ==
    /\ Goto(r, "closing", "done")
    /\ Pool!ReleaseWorker(future[r])
    /\ UNCHANGED <<online, workerVars, probe>>

\* DELETE /api/queue/{ticket_id}
AdminCancel(r) ==
    /\ Pool!Cancel(r)
    /\ UNCHANGED <<pc, online, workerVars, probe>>

-----------------------------------------------------------------------------
(* Clients and worker processes *)

Leave(r) ==
    /\ r \in Deserters
    /\ online[r] /\ pc[r] \notin {"new", "done"}
    /\ online' = [online EXCEPT ![r] = FALSE]
    /\ UNCHANGED <<poolVars, pc, workerVars, probe>>

\* The process has closed its session and reports idle again: the session was
\* closed, the backend failed, or the gateway's connection ended some time ago.
SessionEnd(w) ==
    /\ owner[w] # NoOne
    /\ owner' = [owner EXCEPT ![w] = NoOne]
    /\ UNCHANGED <<poolVars, pc, online, up, probe>>

Crash(w) ==
    /\ w \in Flaky /\ up[w]
    /\ up' = [up EXCEPT ![w] = FALSE]
    /\ owner' = [owner EXCEPT ![w] = NoOne]
    /\ UNCHANGED <<poolVars, pc, online, probe>>

Restart(w) ==
    /\ ~up[w]
    /\ up' = [up EXCEPT ![w] = TRUE]
    /\ UNCHANGED <<poolVars, pc, online, owner, probe>>

-----------------------------------------------------------------------------
(* Refreshes *)

InFlight(t) == {w \in Workers : probe[t][w] # "none"}

\* _refresh_all_status: a GET to every worker.
StartSweep ==
    /\ InFlight("loop") = {}
    /\ probe' = [probe EXCEPT !["loop"] = [w \in Workers |-> "sent"]]
    /\ UNCHANGED <<poolVars, pc, online, workerVars>>

\* register_worker, for a worker whose endpoint is unchanged.  One at a time.
StartRegister(w) ==
    /\ w \in Registering
    /\ InFlight("register") = {}
    /\ probe' = [probe EXCEPT !["register"][w] = "sent"]
    /\ UNCHANGED <<poolVars, pc, online, workerVars>>

\* GET /health answers with the status of the moment, or fails.
Answer(t, w) ==
    /\ probe[t][w] = "sent"
    /\ \E report \in (IF ~up[w] THEN {"offline"}
                      ELSE {IF owner[w] = NoOne THEN "idle" ELSE "busy"}
                           \cup (IF w \in Flaky THEN {"offline"} ELSE {})) :
         probe' = [probe EXCEPT ![t][w] = report]
    /\ UNCHANGED <<poolVars, pc, online, workerVars>>

\* The coroutine resumes with the answer, by now perhaps stale.
Apply(t, w) ==
    /\ probe[t][w] \in Pool!Status
    /\ Pool!RefreshStatus(w, probe[t][w])
    /\ probe' = [probe EXCEPT ![t][w] = "applied"]
    /\ UNCHANGED <<pc, online, workerVars>>

\* Fault: no dispatch after a refresh.
FinishWithoutDispatch(t) ==
    /\ InFlight(t) # {}
    /\ \A w \in InFlight(t) : probe[t][w] = "applied"
    /\ probe' = [probe EXCEPT ![t] = [w \in Workers |-> "none"]]
    /\ UNCHANGED <<poolVars, pc, online, workerVars>>

\* gather returns, or the registered worker is refreshed: dispatch.
FinishRefresh(t) ==
    /\ InFlight(t) # {}
    /\ \A w \in InFlight(t) : probe[t][w] = "applied"
    /\ Pool!DispatchNext(status, dispatched, slot, future)
    /\ probe' = [probe EXCEPT ![t] = [w \in Workers |-> "none"]]
    /\ UNCHANGED <<pc, online, workerVars>>

-----------------------------------------------------------------------------
(* The whole service *)

HandlerStep(r) ==
    \/ NotifySent(r) \/ NotifyFailed(r) \/ Wake(r)
    \/ AnnounceSent(r) \/ AnnounceFailed(r)
    \/ Connect(r) \/ RelayEnd(r) \/ SessionTimeout(r) \/ Release(r)

RefreshStep(t) ==
    \/ \E w \in Workers : Answer(t, w) \/ Apply(t, w)
    \/ FinishRefresh(t)

Next ==
    \/ \E r \in Requests : \/ Arrive(r) \/ HandlerStep(r) \/ Poll(r)
                           \/ AdminCancel(r) \/ Leave(r)
    \/ \E w \in Workers : \/ SessionEnd(w) \/ Crash(w) \/ Restart(w)
                          \/ StartRegister(w)
    \/ StartSweep
    \/ \E t \in Tasks : RefreshStep(t)

Spec == Init /\ [][Next]_vars

\* No handler relays to w, so the process sees its connection closed.
Unattended(w) == \A r \in Requests : pc[r] = "relay" => future[r] # w

\* The event loop runs every ready coroutine, timers fire, health checks are
\* answered or time out, and a process whose connection is gone ends its session
\* (closing the backend's session is bounded, and its failure is logged).
\* Nothing makes a client arrive, leave or end its session.
Fairness ==
    /\ \A r \in Requests : WF_vars(HandlerStep(r)) /\ WF_vars(Poll(r))
    /\ \A w \in Workers : WF_vars(Unattended(w) /\ SessionEnd(w)) /\ WF_vars(Restart(w))
    /\ WF_vars(StartSweep)
    /\ \A t \in Tasks : WF_vars(RefreshStep(t))

FairSpec == Spec /\ Fairness

-----------------------------------------------------------------------------
(* What the service promises *)

\* Handlers and refreshes call the pool as its specification supposes.
ImplementsPool == Pool!Spec

\* The handler of r has been granted w and has yet to release it.
Holding(r, w) == future[r] = w /\ pc[r] \notin {"new", "done"}

\* A worker process never runs the session of one request while the handler of
\* another relays to it.
RelayIsPrivate ==
    \A r \in Requests : pc[r] = "relay" => owner[future[r]] \in {r, NoOne}

\* A worker the gateway has dispatched to is held by a live handler, or was lost
\* with a client that left before queue_done: no other path leaks a worker.
OnlyDesertionLeaks ==
    \A w \in Workers : dispatched[w] =>
        \E r \in Requests : Holding(r, w) \/ (future[r] = w /\ pc[r] = "done" /\ ~online[r])

\* Every handler ends, so every waiter gets its worker, as long as sessions are
\* timed, workers stay up and no client leaves early.
HandlersEnd ==
    \A r \in Requests : pc[r] # "new" ~> pc[r] = "done"

=============================================================================
