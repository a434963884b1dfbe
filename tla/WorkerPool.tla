------------------------------ MODULE WorkerPool ------------------------------
(***************************************************************************)
(* The gateway's worker pool (gateway_modules/worker_pool.py): a set of    *)
(* inference workers, the FIFO of requests that wait for one, and the      *)
(* operations that grant workers, take them back and refresh what the      *)
(* gateway believes about them.                                            *)
(*                                                                         *)
(* Every operation of the pool runs to completion between two awaits of    *)
(* the gateway's event loop, so each is one action.  The lower half of the *)
(* module closes the pool with its callers, reduced to the protocol they   *)
(* follow: Spec is what the pool promises to any such callers, and         *)
(* Gateway.tla shows that the WebSocket handlers and the health checks are *)
(* callers of this kind.                                                   *)
(*                                                                         *)
(* A ticket is identified with the request it is issued for (the code      *)
(* draws a fresh uuid for each request).                                   *)
(***************************************************************************)
EXTENDS Naturals, FiniteSets

CONSTANTS
    Requests,       \* the requests that may ever reach the gateway
    Workers,        \* worker ids, numbered in the order the code compares them
    TypeOf,         \* the request type of each request
    Supports,       \* the request types each worker's capabilities cover
    GpuGroup,       \* the GPU group each worker runs on
    MaxQueueSize,   \* capacity of the queue (1000 in production)
    Pending,        \* an unresolved future
    Cancelled,      \* a cancelled future
    NoFuture        \* the request has no ticket: not enqueued, or rejected

ASSUME WorkersAssumption == Workers \subseteq Nat
ASSUME FutureAssumption  == /\ Pending \notin Workers /\ Cancelled \notin Workers
                            /\ NoFuture \notin Workers
                            /\ Pending # Cancelled /\ Pending # NoFuture
                            /\ Cancelled # NoFuture
ASSUME QueueAssumption   == MaxQueueSize \in Nat
ASSUME RequestsAssumption == IsFiniteSet(Requests)

VARIABLES
    status,      \* [Workers -> Status] WorkerConnection.status
    dispatched,  \* [Workers -> BOOLEAN] WorkerConnection._gateway_dispatched
    slot,        \* [Requests -> Nat] place of insertion in _queue, 0 when absent
    arrivals,    \* Nat, the insertions made so far
    position,    \* [Requests -> Nat] QueueTicket.position, 0 once out of the queue
    future       \* [Requests -> outcome of the QueueEntry's future]

poolVars == <<status, dispatched, slot, arrivals, position, future>>

\* is_busy groups the four busy states of GatewayWorkerStatus; LOADING, ERROR
\* and OFFLINE are alike to the pool: neither idle nor busy.
Status == {"idle", "busy", "offline"}

PoolTypeOK ==
    /\ status \in [Workers -> Status]
    /\ dispatched \in [Workers -> BOOLEAN]
    /\ slot \in [Requests -> Nat]
    /\ arrivals \in Nat
    /\ position \in [Requests -> Nat]
    /\ future \in [Requests -> Workers \cup {Pending, Cancelled, NoFuture}]

PoolInit ==
    /\ status = [w \in Workers |-> "offline"]
    /\ dispatched = [w \in Workers |-> FALSE]
    /\ slot = [r \in Requests |-> 0]
    /\ arrivals = 0
    /\ position = [r \in Requests |-> 0]
    /\ future = [r \in Requests |-> NoFuture]

-----------------------------------------------------------------------------
(* Worker selection *)

\* The tickets in the OrderedDict, in the order of their slots.
Queue == {r \in Requests : slot[r] # 0}

With(st, s) == {w \in Workers : st[w] = s}

\* Idle workers whose capabilities cover the type of r.
FreeFor(r, idle) == {w \in idle : TypeOf[r] \in Supports[w]}

\* Busy workers that share the GPU of w.
Load(w, busy) == Cardinality({v \in busy : GpuGroup[v] = GpuGroup[w]})

\* _get_idle_worker: the free worker with the least loaded GPU, ties by id.
IsPick(w, free, busy) ==
    /\ w \in free
    /\ \A v \in free : \/ Load(w, busy) < Load(v, busy)
                       \/ Load(w, busy) = Load(v, busy) /\ w <= v

\* _recalc_positions_and_eta: a ticket's position is its index, from 1.
Ranks(sl) ==
    [r \in Requests |->
        IF sl[r] = 0 THEN 0
        ELSE Cardinality({s \in Requests : sl[s] # 0 /\ sl[s] <= sl[r]})]

-----------------------------------------------------------------------------
(* Dispatch.  The loop of _dispatch_next takes, again and again, the first  *)
(* ticket that some idle worker supports.  Idle workers only become fewer   *)
(* as it goes, so a ticket passed over stays passed over, and the loop      *)
(* amounts to one pass over the queue: a ticket is served exactly when an   *)
(* idle worker that supports it is left by the tickets before it.           *)

\* Fault: the queue is scanned from the tail (popitem() takes the last).
LeftIdleLifo(r, idle, give, sl) ==
    {w \in idle : ~ \E s \in DOMAIN give : sl[s] > sl[r] /\ give[s] = w}

\* What the tickets before r leave idle, and what they add to the busy.
LeftIdle(r, idle, give, sl) ==
    {w \in idle : ~ \E s \in DOMAIN give : sl[s] < sl[r] /\ give[s] = w}

NowBusy(r, busy, give, sl) ==
    busy \cup {give[s] : s \in {q \in DOMAIN give : sl[q] < sl[r]}}

\* give maps the tickets that are served to their workers.
IsDispatch(give, live, st, sl) ==
    \A r \in live :
        LET free == FreeFor(r, LeftIdle(r, With(st, "idle"), give, sl))
        IN  IF r \in DOMAIN give
              THEN IsPick(give[r], free, NowBusy(r, With(st, "busy"), give, sl))
              ELSE free = {}

\* _dispatch_next, run on the worker states st and dp, the queue sl and the
\* futures fu that its caller has just left.  Tickets whose future is already
\* done are dropped, served ones become busy before their future resolves.
DispatchNext(st, dp, sl, fu) ==
    LET live == {r \in Requests : sl[r] # 0 /\ fu[r] = Pending}
    IN  \E served \in SUBSET live : \E give \in [served -> With(st, "idle")] :
          /\ IsDispatch(give, live, st, sl)
          /\ LET granted == {give[r] : r \in served} IN
             /\ status' = [w \in Workers |-> IF w \in granted THEN "busy" ELSE st[w]]
             /\ dispatched' = [w \in Workers |-> w \in granted \/ dp[w]]
          /\ future' = [r \in Requests |-> IF r \in served THEN give[r] ELSE fu[r]]
          /\ slot' = [r \in Requests |-> IF r \in live \ served THEN sl[r] ELSE 0]
          /\ position' = Ranks(slot')
          /\ UNCHANGED arrivals

-----------------------------------------------------------------------------
(* Operations *)

\* enqueue, with a worker free: the request is granted it at once, and the
\* queue is not consulted.
EnqueueImmediate(r) ==
    /\ future[r] = NoFuture
    /\ \E w \in Workers :
         /\ IsPick(w, FreeFor(r, With(status, "idle")), With(status, "busy"))
         /\ status' = [status EXCEPT ![w] = "busy"]
         /\ dispatched' = [dispatched EXCEPT ![w] = TRUE]
         /\ future' = [future EXCEPT ![r] = w]
    /\ UNCHANGED <<slot, arrivals, position>>

\* enqueue, with no worker free and room in the queue.
EnqueueWaiting(r) ==
    /\ future[r] = NoFuture
    /\ FreeFor(r, With(status, "idle")) = {}
    /\ Cardinality(Queue) < MaxQueueSize
    /\ arrivals' = arrivals + 1
    /\ slot' = [slot EXCEPT ![r] = arrivals + 1]
    /\ position' = Ranks(slot')
    /\ future' = [future EXCEPT ![r] = Pending]
    /\ UNCHANGED <<status, dispatched>>

\* enqueue raises QueueFullError: nothing changes in the pool.
QueueFull(r) ==
    /\ future[r] = NoFuture
    /\ FreeFor(r, With(status, "idle")) = {}
    /\ Cardinality(Queue) >= MaxQueueSize
    /\ UNCHANGED poolVars

\* Fault: the ticket is taken out and its future left pending.
CancelKeepsFuture(r) ==
    /\ slot[r] # 0
    /\ DispatchNext(status, dispatched, [slot EXCEPT ![r] = 0], future)

\* cancel: takes the ticket out, then dispatches.  It returns False, and does
\* nothing, for a ticket that is not (or no longer) in the queue.
Cancel(r) ==
    /\ slot[r] # 0
    /\ DispatchNext(status, dispatched, [slot EXCEPT ![r] = 0],
                    [future EXCEPT ![r] = IF @ = Pending THEN Cancelled ELSE @])

\* mark_busy, called again by the handler that was granted w.
MarkBusy(w) ==
    /\ status' = [status EXCEPT ![w] = "busy"]
    /\ dispatched' = [dispatched EXCEPT ![w] = TRUE]
    /\ UNCHANGED <<slot, arrivals, position, future>>

\* Fault: the release does not dispatch.
ReleaseOnly(w) ==
    /\ status' = [status EXCEPT ![w] = "idle"]
    /\ dispatched' = [dispatched EXCEPT ![w] = FALSE]
    /\ UNCHANGED <<slot, arrivals, position, future>>

\* release_worker: w is idle whatever it was, then dispatches.
ReleaseWorker(w) ==
    DispatchNext([status EXCEPT ![w] = "idle"], [dispatched EXCEPT ![w] = FALSE],
                 slot, future)

\* Fault: the report of a dispatched worker is believed.
RefreshBelieved(w, report) ==
    /\ status' = [status EXCEPT ![w] = report]
    /\ UNCHANGED <<dispatched, slot, arrivals, position, future>>

\* Fault: a failed GET leaves a status that the pool does not know.
RefreshUnknown(w, report) ==
    /\ status' = [status EXCEPT ![w] =
                    IF dispatched[w] /\ report = "idle" THEN @
                    ELSE IF report = "offline" THEN "unknown" ELSE report]
    /\ UNCHANGED <<dispatched, slot, arrivals, position, future>>

\* _refresh_worker_status applies the report of worker w.  A worker that the
\* gateway has dispatched to is not made idle by its report.
RefreshStatus(w, report) ==
    /\ status' = [status EXCEPT ![w] =
                    IF dispatched[w] /\ report = "idle" THEN @ ELSE report]
    /\ UNCHANGED <<dispatched, slot, arrivals, position, future>>

-----------------------------------------------------------------------------
(* The pool closed with its callers.  A caller enqueues once; when granted a
   worker it may mark it busy, and it ends by releasing the worker or by just
   forgetting it (a handler that dies).  Refreshes come at any time with any
   report; a dispatch follows, but not in the same step.                    *)

VARIABLES
    finished,    \* requests whose caller has ended
    owed         \* a report was applied and the dispatch after it is to come

vars == <<status, dispatched, slot, arrivals, position, future, finished, owed>>

\* The caller of r has been granted a worker and has not ended.
Holds(r, w) == future[r] = w /\ r \notin finished

TypeOK ==
    /\ PoolTypeOK
    /\ finished \subseteq Requests
    /\ owed \in BOOLEAN

Init == PoolInit /\ finished = {} /\ owed = FALSE

Arrive(r) ==
    /\ r \notin finished
    /\ EnqueueImmediate(r) \/ EnqueueWaiting(r)
    /\ UNCHANGED <<finished, owed>>

Reject(r) ==
    /\ r \notin finished
    /\ QueueFull(r)
    /\ finished' = finished \cup {r}
    /\ UNCHANGED owed

Withdraw(r) ==
    /\ Cancel(r)
    /\ finished' \in {finished, finished \cup {r}}
    /\ UNCHANGED owed

Confirm(r) ==
    /\ \E w \in Workers : Holds(r, w) /\ MarkBusy(w)
    /\ UNCHANGED <<finished, owed>>

Return(r) ==
    /\ \E w \in Workers : Holds(r, w) /\ ReleaseWorker(w)
    /\ finished' = finished \cup {r}
    /\ UNCHANGED owed

\* A caller that ends without a release.
Forget(r) ==
    /\ r \notin finished
    /\ future[r] \in Workers \cup {Cancelled}
    /\ finished' = finished \cup {r}
    /\ UNCHANGED <<poolVars, owed>>

Refresh(w) ==
    /\ \E report \in Status : RefreshStatus(w, report)
    /\ owed' = TRUE
    /\ UNCHANGED finished

\* Other refreshes may be waiting for their own dispatch.
AfterRefresh ==
    /\ DispatchNext(status, dispatched, slot, future)
    /\ owed' \in {FALSE, owed}
    /\ UNCHANGED finished

Next ==
    \/ \E r \in Requests : \/ Arrive(r) \/ Reject(r) \/ Withdraw(r)
                           \/ Confirm(r) \/ Return(r) \/ Forget(r)
    \/ \E w \in Workers : Refresh(w)
    \/ AfterRefresh

Spec == Init /\ [][Next]_vars

-----------------------------------------------------------------------------
(* What the pool promises *)

\* A worker is held by one request at a time: "Duplex (exclusive)", and a worker
\* marked busy at dispatch is not assigned twice.
ExclusiveLease ==
    \A r, s \in Requests, w \in Workers : Holds(r, w) /\ Holds(s, w) => r = s

\* What makes it so: no refresh, however stale its report, makes a worker that
\* is held look free, and only the pool's own grants take a worker from idle.
LeaseIsGuarded ==
    /\ \A r \in Requests, w \in Workers : Holds(r, w) => dispatched[w]
    /\ \A w \in Workers : dispatched[w] => status[w] # "idle"

\* The queue holds exactly the tickets whose caller is waiting, so that no waiter
\* is lost and none is granted a worker after it has withdrawn; and it respects
\* its capacity.
QueueIsWaiters ==
    /\ Queue = {r \in Requests : future[r] = Pending}
    /\ Cardinality(Queue) <= MaxQueueSize

\* Insertions have places of their own, and none is yet to come.
SlotsDistinct ==
    /\ \A r \in Requests : slot[r] <= arrivals
    /\ \A r, s \in Queue : slot[r] = slot[s] => r = s

\* No ticket waits for a worker that is idle and could serve it, except between
\* a refresh and the dispatch that follows it.
WorkConserving ==
    ~owed => \A r \in Queue : FreeFor(r, With(status, "idle")) = {}

\* s has been waiting for the same kind of worker since before r.
Before(s, r) == s \in Queue /\ TypeOf[s] = TypeOf[r]
                /\ (r \notin Queue \/ slot[s] < slot[r])

GrantedNow(r) == future[r] \notin Workers /\ future'[r] \in Workers

\* Among requests of one type, the tickets in the queue are granted workers in
\* the order of their arrival, and a request that arrives later is granted one
\* before them at most between a refresh and its dispatch.
FifoButForRefresh ==
    [][\A r, s \in Requests :
         GrantedNow(r) /\ Before(s, r) /\ future'[s] = Pending
           => owed /\ r \notin Queue]_vars

\* First come, first served, as the module's header says: no exception.
Fifo ==
    [][\A r, s \in Requests :
         GrantedNow(r) /\ Before(s, r) => future'[s] # Pending]_vars

\* The position told to a waiting client never grows.
PositionNeverGrows ==
    [][\A r \in Queue \cap Queue' : position'[r] <= position[r]]_vars

=============================================================================
