----------------------------- MODULE GatewayProofs -----------------------------
(***************************************************************************)
(* The gateway implements the worker pool's specification: its handlers    *)
(* and its refreshes, whatever their number and their interleaving, use    *)
(* the pool only as callers of WorkerPool do.  What WorkerPoolProofs       *)
(* proves of Pool!Spec therefore holds of the gateway.  And what the pool  *)
(* cannot promise: a worker relays for one client at a time, and is lost   *)
(* for ever only when a client deserts it.                                 *)
(***************************************************************************)
EXTENDS Gateway, TLAPS

Outcomes == Workers \cup {Pending, Cancelled, NoFuture}

-----------------------------------------------------------------------------
(* The invariant that relates a handler's stage to its future: a handler that
   has enqueued has a ticket or its outcome, and one that is past the wait has
   a worker.                                                                 *)

HandlerInv ==
    /\ arrivals \in Nat
    /\ slot \in [Requests -> Nat]
    /\ future \in [Requests -> Outcomes]
    /\ pc \in [Requests -> Stage]
    /\ probe \in [Tasks -> [Workers -> Probe]]
    /\ \A r \in Requests : slot[r] # 0 <=> future[r] = Pending
    /\ \A r \in Requests : pc[r] \notin {"new", "done"} => future[r] # NoFuture
    /\ \A r \in Requests :
         pc[r] \in {"announce", "connect", "relay", "closing"} => future[r] \in Workers

\* A dispatch resolves pending futures to workers and changes no other; tickets
\* that stay pending stay in the queue.
LEMMA DispatchFutures ==
  ASSUME NEW st, NEW dp, NEW sl \in [Requests -> Nat], NEW fu \in [Requests -> Outcomes],
         \A r \in Requests : fu[r] = Pending => sl[r] # 0,
         Pool!DispatchNext(st, dp, sl, fu)
  PROVE  /\ arrivals' = arrivals
         /\ slot' \in [Requests -> Nat]
         /\ future' \in [Requests -> Outcomes]
         /\ \A r \in Requests : \/ future'[r] = fu[r]
                                \/ fu[r] = Pending /\ future'[r] \in Workers
         /\ \A r \in Requests : slot'[r] # 0 <=> future'[r] = Pending
  <1> DEFINE live == {r \in Requests : sl[r] # 0 /\ fu[r] = Pending}
             idle == Pool!With(st, "idle")
  <1>1. PICK served \in SUBSET live : \E give \in [served -> idle] :
          /\ arrivals' = arrivals
          /\ future' = [r \in Requests |-> IF r \in served THEN give[r] ELSE fu[r]]
          /\ slot' = [r \in Requests |-> IF r \in live \ served THEN sl[r] ELSE 0]
    BY DEF Pool!DispatchNext
  <1>2. PICK give \in [served -> idle] :
          /\ arrivals' = arrivals
          /\ future' = [r \in Requests |-> IF r \in served THEN give[r] ELSE fu[r]]
          /\ slot' = [r \in Requests |-> IF r \in live \ served THEN sl[r] ELSE 0]
    BY <1>1
  <1>3. \A r \in served : give[r] \in Workers /\ fu[r] = Pending
    BY DEF Pool!With
  <1> QED  BY <1>2, <1>3, OutcomesDistinct DEF Outcomes

\* So does a cancellation, but that it may cancel the ticket it takes out.
LEMMA CancelFutures ==
  ASSUME HandlerInv, NEW r \in Requests, Pool!Cancel(r)
  PROVE  /\ arrivals' = arrivals
         /\ slot' \in [Requests -> Nat]
         /\ future' \in [Requests -> Outcomes]
         /\ \A s \in Requests : \/ future'[s] = future[s]
                                \/ future[s] = Pending /\ future'[s] \in Workers \cup {Cancelled}
         /\ \A s \in Requests : slot'[s] # 0 <=> future'[s] = Pending
  <1> DEFINE sl == [slot EXCEPT ![r] = 0]
             fu == [future EXCEPT ![r] = IF @ = Pending THEN Cancelled ELSE @]
  <1>1. Pool!DispatchNext(status, dispatched, sl, fu)
    BY DEF Pool!Cancel
  <1>2. /\ sl \in [Requests -> Nat] /\ fu \in [Requests -> Outcomes]
        /\ \A s \in Requests : fu[s] = Pending => sl[s] # 0
        /\ \A s \in Requests : \/ fu[s] = future[s]
                               \/ future[s] = Pending /\ fu[s] = Cancelled
    BY OutcomesDistinct DEF HandlerInv, Outcomes
  <1> HIDE DEF sl, fu
  <1>3. /\ arrivals' = arrivals
        /\ slot' \in [Requests -> Nat]
        /\ future' \in [Requests -> Outcomes]
        /\ \A s \in Requests : \/ future'[s] = fu[s]
                               \/ fu[s] = Pending /\ future'[s] \in Workers
        /\ \A s \in Requests : slot'[s] # 0 <=> future'[s] = Pending
    BY <1>1, <1>2, DispatchFutures
  <1> QED  BY <1>2, <1>3, OutcomesDistinct

\* The steps that dispatch and leave every stage but that of done handlers alone.
LEMMA DispatchKeeps ==
  ASSUME HandlerInv, arrivals' = arrivals,
         slot' \in [Requests -> Nat], future' \in [Requests -> Outcomes],
         \A r \in Requests : \/ future'[r] = future[r]
                             \/ future[r] = Pending /\ future'[r] \in Workers \cup {Cancelled},
         \A r \in Requests : slot'[r] # 0 <=> future'[r] = Pending,
         pc' \in [Requests -> Stage], \A r \in Requests : pc'[r] \in {pc[r], "done"},
         probe' \in [Tasks -> [Workers -> Probe]]
  PROVE  HandlerInv'
  BY OutcomesDistinct DEF HandlerInv, Outcomes

LEMMA HandlerStepKeeps == HandlerInv /\ [Next]_vars => HandlerInv'
  <1> SUFFICES ASSUME HandlerInv, [Next]_vars
               PROVE  HandlerInv'
    OBVIOUS
  <1>1. ASSUME NEW r \in Requests, Arrive(r)
        PROVE  HandlerInv'
    <2>1. CASE Goto(r, "new", "announce") /\ Pool!EnqueueImmediate(r)
      <3>1. PICK w \in Workers : future' = [future EXCEPT ![r] = w]
        BY <2>1 DEF Pool!EnqueueImmediate, Pool!IsPick, Pool!FreeFor, Pool!With
      <3>2. slot' = slot /\ arrivals' = arrivals /\ future[r] = NoFuture /\ probe' = probe
        BY <1>1, <2>1 DEF Arrive, Pool!EnqueueImmediate
      <3> QED  BY <2>1, <3>1, <3>2, OutcomesDistinct DEF HandlerInv, Goto, Outcomes, Stage
    <2>2. CASE Goto(r, "new", "notify") /\ Pool!EnqueueWaiting(r)
      <3>1. /\ slot' = [slot EXCEPT ![r] = arrivals + 1] /\ arrivals' = arrivals + 1
            /\ future' = [future EXCEPT ![r] = Pending]
            /\ future[r] = NoFuture /\ probe' = probe
        BY <1>1, <2>2 DEF Arrive, Pool!EnqueueWaiting
      <3> QED  BY <2>2, <3>1, OutcomesDistinct DEF HandlerInv, Goto, Outcomes, Stage
    <2>3. CASE Goto(r, "new", "done") /\ Pool!QueueFull(r)
      BY <1>1, <2>3 DEF Arrive, Pool!QueueFull, Pool!poolVars, HandlerInv, Goto, Stage
    <2> QED  BY <1>1, <2>1, <2>2, <2>3 DEF Arrive
  <1>2. ASSUME NEW r \in Requests, NotifySent(r) \/ Wake(r) \/ AnnounceFailed(r) \/ Poll(r)
                                   \/ RelayEnd(r) \/ SessionTimeout(r) \/ Connect(r)
        PROVE  HandlerInv'
    BY <1>2, OutcomesDistinct DEF NotifySent, Wake, AnnounceFailed, Poll, RelayEnd, SessionTimeout, Connect,
                Goto, poolVars, workerVars, HandlerInv, Stage
  <1>3. ASSUME NEW r \in Requests, AnnounceSent(r)
        PROVE  HandlerInv'
    BY <1>3 DEF AnnounceSent, Goto, Pool!MarkBusy, workerVars, HandlerInv, Stage
  <1>4. ASSUME NEW r \in Requests, NotifyFailed(r)
        PROVE  HandlerInv'
    <2>1. pc' = [pc EXCEPT ![r] = "done"] /\ probe' = probe
      BY <1>4 DEF NotifyFailed, Goto
    <2>2. CASE Pool!Cancel(r)
      BY <2>1, <2>2, CancelFutures, DispatchKeeps DEF HandlerInv, Stage
    <2>3. CASE UNCHANGED poolVars
      BY <2>1, <2>3, DispatchKeeps DEF poolVars, HandlerInv, Stage
    <2> QED  BY <1>4, <2>2, <2>3 DEF NotifyFailed
  <1>5. ASSUME NEW r \in Requests, Release(r)
        PROVE  HandlerInv'
    <2>1. pc' = [pc EXCEPT ![r] = "done"] /\ probe' = probe
      BY <1>5 DEF Release, Goto
    <2>2. \E st, dp : Pool!DispatchNext(st, dp, slot, future)
      BY <1>5 DEF Release, Pool!ReleaseWorker
    <2>3. /\ arrivals' = arrivals
          /\ slot' \in [Requests -> Nat] /\ future' \in [Requests -> Outcomes]
          /\ \A s \in Requests : \/ future'[s] = future[s]
                                 \/ future[s] = Pending /\ future'[s] \in Workers
          /\ \A s \in Requests : slot'[s] # 0 <=> future'[s] = Pending
      BY <2>2, DispatchFutures DEF HandlerInv
    <2> QED  BY <2>1, <2>3, DispatchKeeps DEF HandlerInv, Stage
  <1>6. ASSUME NEW r \in Requests, AdminCancel(r)
        PROVE  HandlerInv'
    BY <1>6, CancelFutures, DispatchKeeps DEF AdminCancel, HandlerInv
  <1>7. ASSUME NEW r \in Requests, Leave(r)
        PROVE  HandlerInv'
    BY <1>7 DEF Leave, poolVars, HandlerInv
  <1>8. ASSUME NEW w \in Workers, SessionEnd(w) \/ Crash(w) \/ Restart(w)
        PROVE  HandlerInv'
    BY <1>8 DEF SessionEnd, Crash, Restart, poolVars, HandlerInv
  <1>9. CASE StartSweep
    BY <1>9 DEF StartSweep, poolVars, HandlerInv, Probe, Tasks
  <1>10. ASSUME NEW w \in Workers, StartRegister(w)
         PROVE  HandlerInv'
    BY <1>10 DEF StartRegister, poolVars, HandlerInv, Probe, Tasks
  <1>11. ASSUME NEW t \in Tasks, NEW w \in Workers, Answer(t, w)
         PROVE  HandlerInv'
    <2>1. PICK report \in {"idle", "busy", "offline"} : probe' = [probe EXCEPT ![t][w] = report]
      BY <1>11 DEF Answer
    <2> QED  BY <1>11, <2>1 DEF Answer, poolVars, HandlerInv, Probe
  <1>12. ASSUME NEW t \in Tasks, NEW w \in Workers, Apply(t, w)
         PROVE  HandlerInv'
    BY <1>12 DEF Apply, Pool!RefreshStatus, HandlerInv, Probe
  <1>13. ASSUME NEW t \in Tasks, FinishRefresh(t)
         PROVE  HandlerInv'
    <2>1. /\ Pool!DispatchNext(status, dispatched, slot, future)
          /\ pc' = pc /\ probe' = [probe EXCEPT ![t] = [w \in Workers |-> "none"]]
      BY <1>13 DEF FinishRefresh
    <2>2. /\ arrivals' = arrivals
          /\ slot' \in [Requests -> Nat] /\ future' \in [Requests -> Outcomes]
          /\ \A s \in Requests : \/ future'[s] = future[s]
                                 \/ future[s] = Pending /\ future'[s] \in Workers
          /\ \A s \in Requests : slot'[s] # 0 <=> future'[s] = Pending
      BY <2>1, DispatchFutures DEF HandlerInv
    <2>3. probe' \in [Tasks -> [Workers -> Probe]]
      BY <2>1 DEF HandlerInv, Probe
    <2> QED  BY <2>1, <2>2, <2>3, DispatchKeeps DEF HandlerInv
  <1>14. CASE UNCHANGED vars
    BY <1>14 DEF vars, poolVars, HandlerInv
  <1> QED  BY <1>1, <1>2, <1>3, <1>4, <1>5, <1>6, <1>7, <1>8, <1>9, <1>10, <1>11, <1>12,
              <1>13, <1>14 DEF Next, HandlerStep, RefreshStep

-----------------------------------------------------------------------------
(* The refinement *)

\* The values of the pool's variables finished and owed.
Done == {r \in Requests : pc[r] = "done"}
Owed == \E t \in Tasks, w \in Workers : probe[t][w] = "applied"

LEMMA StepSimulation == HandlerInv /\ [Next]_vars => [Pool!Next]_(Pool!vars)
  <1> SUFFICES ASSUME HandlerInv, [Next]_vars
               PROVE  [Pool!Next]_(Pool!vars)
    OBVIOUS
  <1>s. ASSUME UNCHANGED poolVars, Done' = Done, Owed' = Owed
        PROVE  UNCHANGED Pool!vars
    BY <1>s DEF poolVars, Pool!vars, Done, Owed
  <1>1. ASSUME NEW r \in Requests, Arrive(r)
        PROVE  Pool!Next
    <2>1. pc[r] = "new" /\ Owed' = Owed
      BY <1>1 DEF Arrive, Goto, Owed
    <2>2. CASE Goto(r, "new", "announce") /\ Pool!EnqueueImmediate(r)
      <3>1. Done' = Done
        BY <2>2 DEF Goto, Done, HandlerInv
      <3>2. Pool!Arrive(r)
        BY <2>1, <2>2, <3>1 DEF Pool!Arrive, Done, Owed
      <3> QED  BY <3>2 DEF Pool!Next
    <2>3. CASE Goto(r, "new", "notify") /\ Pool!EnqueueWaiting(r)
      <3>1. Done' = Done
        BY <2>3 DEF Goto, Done, HandlerInv
      <3>2. Pool!Arrive(r)
        BY <2>1, <2>3, <3>1 DEF Pool!Arrive, Done, Owed
      <3> QED  BY <3>2 DEF Pool!Next
    <2>4. CASE Goto(r, "new", "done") /\ Pool!QueueFull(r)
      <3>1. Done' = Done \cup {r}
        BY <2>4 DEF Goto, Done, HandlerInv
      <3>2. Pool!Reject(r)
        BY <2>1, <2>4, <3>1 DEF Pool!Reject, Done, Owed
      <3> QED  BY <3>2 DEF Pool!Next
    <2> QED  BY <1>1, <2>2, <2>3, <2>4 DEF Arrive
  \* A handler that ends with a granted or a cancelled future forgets it.
  <1>f. ASSUME NEW r \in Requests, pc[r] # "done", pc' = [pc EXCEPT ![r] = "done"],
               future[r] \in Workers \cup {Cancelled}, UNCHANGED poolVars, Owed' = Owed
        PROVE  Pool!Next
    <2>1. Done' = Done \cup {r}
      BY <1>f DEF Done, HandlerInv
    <2>2. Pool!Forget(r)
      BY <1>f, <2>1 DEF Pool!Forget, Done, Owed, poolVars, Pool!poolVars
    <2> QED  BY <2>2 DEF Pool!Next
  <1>2. ASSUME NEW r \in Requests, NotifySent(r) \/ Wake(r)
        PROVE  [Pool!Next]_(Pool!vars)
    <2>1. UNCHANGED poolVars /\ Owed' = Owed
      BY <1>2 DEF NotifySent, Wake, Owed
    <2>2. CASE pc' = [pc EXCEPT ![r] = "done"] /\ future[r] = Cancelled
      BY <1>2, <1>f, <2>1, <2>2 DEF NotifySent, Wake, Goto
    <2>3. CASE pc[r] # "done" /\ \E to \in {"wait", "announce"} : pc' = [pc EXCEPT ![r] = to]
      <3>1. Done' = Done
        BY <2>3 DEF Done, HandlerInv
      <3> QED  BY <1>s, <2>1, <3>1
    <2> QED  BY <1>2, <2>2, <2>3 DEF NotifySent, Wake, Goto
  <1>3. ASSUME NEW r \in Requests, NotifyFailed(r)
        PROVE  Pool!Next
    <2>1. pc[r] = "notify" /\ pc' = [pc EXCEPT ![r] = "done"] /\ Owed' = Owed
      BY <1>3 DEF NotifyFailed, Goto, Owed
    <2>2. CASE Pool!Cancel(r)
      <3>1. Done' = Done \cup {r}
        BY <2>1 DEF Done, HandlerInv
      <3>2. Pool!Withdraw(r)
        BY <2>1, <2>2, <3>1 DEF Pool!Withdraw, Done, Owed
      <3> QED  BY <3>2 DEF Pool!Next
    <2>3. CASE slot[r] = 0 /\ UNCHANGED poolVars
      BY <1>f, <2>1, <2>3 DEF HandlerInv, Outcomes
    <2> QED  BY <1>3, <2>2, <2>3 DEF NotifyFailed
  <1>4. ASSUME NEW r \in Requests, AnnounceSent(r)
        PROVE  Pool!Next
    <2>1. /\ pc[r] = "announce" /\ pc' = [pc EXCEPT ![r] = "connect"]
          /\ Pool!MarkBusy(future[r]) /\ Owed' = Owed
      BY <1>4 DEF AnnounceSent, Goto, Owed
    <2>2. Done' = Done /\ r \notin Done
      BY <2>1 DEF Done, HandlerInv
    <2>3. future[r] \in Workers
      BY <2>1 DEF HandlerInv
    <2>4. Pool!Confirm(r)
      BY <2>1, <2>2, <2>3 DEF Pool!Confirm, Pool!Holds, Done, Owed
    <2> QED  BY <2>4 DEF Pool!Next
  <1>5. ASSUME NEW r \in Requests, AnnounceFailed(r)
        PROVE  Pool!Next
    <2>1. /\ pc[r] = "announce" /\ pc' = [pc EXCEPT ![r] = "done"]
          /\ UNCHANGED poolVars /\ Owed' = Owed
      BY <1>5 DEF AnnounceFailed, Goto, Owed
    <2> QED  BY <1>f, <2>1 DEF HandlerInv
  <1>6. ASSUME NEW r \in Requests, Poll(r) \/ Connect(r) \/ RelayEnd(r) \/ SessionTimeout(r)
        PROVE  UNCHANGED Pool!vars
    <2>1. /\ pc[r] # "done" /\ \E to \in {"notify", "relay", "closing"} : pc' = [pc EXCEPT ![r] = to]
          /\ UNCHANGED poolVars /\ Owed' = Owed
      BY <1>6 DEF Poll, Connect, RelayEnd, SessionTimeout, Goto, Owed
    <2>2. Done' = Done
      BY <2>1 DEF Done, HandlerInv
    <2> QED  BY <1>s, <2>1, <2>2
  <1>7. ASSUME NEW r \in Requests, Release(r)
        PROVE  Pool!Next
    <2>1. /\ pc[r] = "closing" /\ pc' = [pc EXCEPT ![r] = "done"]
          /\ Pool!ReleaseWorker(future[r]) /\ Owed' = Owed
      BY <1>7 DEF Release, Goto, Owed
    <2>2. Done' = Done \cup {r} /\ r \notin Done
      BY <2>1 DEF Done, HandlerInv
    <2>3. future[r] \in Workers
      BY <2>1 DEF HandlerInv
    <2>4. Pool!Return(r)
      BY <2>1, <2>2, <2>3 DEF Pool!Return, Pool!Holds, Done, Owed
    <2> QED  BY <2>4 DEF Pool!Next
  <1>8. ASSUME NEW r \in Requests, AdminCancel(r)
        PROVE  Pool!Next
    <2>1. Pool!Withdraw(r)
      BY <1>8 DEF AdminCancel, Pool!Withdraw
    <2> QED  BY <2>1 DEF Pool!Next
  <1>9. ASSUME \/ \E r \in Requests : Leave(r)
               \/ \E w \in Workers : SessionEnd(w) \/ Crash(w) \/ Restart(w)
        PROVE  UNCHANGED Pool!vars
    <2>1. UNCHANGED <<poolVars, pc, probe>>
      BY <1>9 DEF Leave, SessionEnd, Crash, Restart
    <2> QED  BY <1>s, <2>1 DEF Done, Owed
  \* A refresh that starts or is answered owes nothing yet.
  <1>10. ASSUME StartSweep \/ (\E w \in Workers : StartRegister(w))
                \/ (\E t \in Tasks, w \in Workers : Answer(t, w))
         PROVE  UNCHANGED Pool!vars
    <2>1. UNCHANGED <<poolVars, pc>>
      BY <1>10 DEF StartSweep, StartRegister, Answer
    <2>2. \A t \in Tasks, w \in Workers : probe'[t][w] = "applied" <=> probe[t][w] = "applied"
      <3>1. CASE StartSweep
        BY <3>1 DEF StartSweep, InFlight, HandlerInv, Tasks
      <3>2. ASSUME NEW w \in Workers, StartRegister(w)
            PROVE  \A t \in Tasks, v \in Workers : probe'[t][v] = "applied" <=> probe[t][v] = "applied"
        BY <3>2 DEF StartRegister, InFlight, HandlerInv, Tasks
      <3>3. ASSUME NEW t \in Tasks, NEW w \in Workers, Answer(t, w)
            PROVE  \A u \in Tasks, v \in Workers : probe'[u][v] = "applied" <=> probe[u][v] = "applied"
        <4>1. PICK report \in {"idle", "busy", "offline"} :
                probe[t][w] = "sent" /\ probe' = [probe EXCEPT ![t][w] = report]
          BY <3>3 DEF Answer
        <4> QED  BY <4>1 DEF HandlerInv
      <3> QED  BY <1>10, <3>1, <3>2, <3>3
    <2> QED  BY <1>s, <2>1, <2>2 DEF Done, Owed
  <1>11. ASSUME NEW t \in Tasks, NEW w \in Workers, Apply(t, w)
         PROVE  Pool!Next
    <2>1. Done' = Done
      BY <1>11 DEF Apply, Done
    <2>2. probe'[t][w] = "applied"
      BY <1>11 DEF Apply, HandlerInv
    <2>3. Pool!Refresh(w)
      BY <1>11, <2>1, <2>2 DEF Apply, Pool!Refresh, Done
    <2> QED  BY <2>3 DEF Pool!Next
  <1>12. ASSUME NEW t \in Tasks, FinishRefresh(t)
         PROVE  Pool!Next
    <2>1. Done' = Done /\ Pool!DispatchNext(status, dispatched, slot, future)
      BY <1>12 DEF FinishRefresh, Done
    <2>2. Owed
      BY <1>12 DEF FinishRefresh, InFlight, Owed
    <2>3. Owed' \in {FALSE, Owed}
      BY <2>2 DEF Owed
    <2>4. Pool!AfterRefresh
      BY <2>1, <2>3 DEF Pool!AfterRefresh, Done, Owed
    <2> QED  BY <2>4 DEF Pool!Next
  <1>13. CASE UNCHANGED vars
    BY <1>s, <1>13 DEF vars, Done, Owed
  <1> QED  BY <1>1, <1>2, <1>3, <1>4, <1>5, <1>6, <1>7, <1>8, <1>9, <1>10, <1>11, <1>12,
              <1>13 DEF Next, HandlerStep, RefreshStep

LEMMA InitSimulation == Init => HandlerInv /\ Pool!Init
  <1> SUFFICES ASSUME Init
               PROVE  HandlerInv /\ Pool!Init
    OBVIOUS
  <1>1. HandlerInv
    BY OutcomesDistinct DEF Init, Pool!PoolInit, HandlerInv, Outcomes, Stage, Probe, Tasks
  <1>2. Pool!PoolInit /\ Done = {} /\ Owed = FALSE
    BY DEF Init, Done, Owed, Tasks
  <1> QED  BY <1>1, <1>2 DEF Pool!Init, Done, Owed

\* Handlers and refreshes are callers as the pool's specification supposes: every
\* behaviour of the gateway is one of the pool.
THEOREM GatewayImplementsPool == Spec => ImplementsPool
  BY InitSimulation, HandlerStepKeeps, StepSimulation, PTL
     DEF Spec, ImplementsPool, Pool!Spec

-----------------------------------------------------------------------------
(* Leases: which handler may use which worker, and which workers nobody will  *)
(* ever release.  The argument needs what the pool cannot see, the stages of  *)
(* the handlers, the clients' connections and the sessions of the worker      *)
(* processes.  The inductive invariant, beside HandlerInv:                    *)

LeaseTypes ==
    /\ status \in [Workers -> Pool!Status]
    /\ dispatched \in [Workers -> BOOLEAN]
    /\ online \in [Requests -> BOOLEAN]
    /\ owner \in [Workers -> Requests \cup {NoOne}]

\* A handler that has not enqueued has no future; one that has, and may still be
\* granted a worker, is where it will see the grant.
WaitersListen ==
    \A r \in Requests : /\ pc[r] = "new" => future[r] = NoFuture
                        /\ future[r] = Pending => pc[r] \in {"notify", "wait"}

\* Two tickets that are served at once take different workers because their
\* places in the queue differ.
PlacesDiffer ==
    /\ \A r \in Requests : slot[r] <= arrivals
    /\ \A r, s \in Requests : slot[r] # 0 /\ slot[r] = slot[s] => r = s

\* A held worker is marked, a marked one is not idle, and it has one holder.
HeldOnce ==
    /\ \A r \in Requests, w \in Workers : Holding(r, w) => dispatched[w]
    /\ \A w \in Workers : dispatched[w] => status[w] # "idle"
    /\ \A r, s \in Requests, w \in Workers : Holding(r, w) /\ Holding(s, w) => r = s

LeaseInv ==
    /\ LeaseTypes
    /\ WaitersListen
    /\ PlacesDiffer
    /\ HeldOnce
    /\ OnlyDesertionLeaks
    /\ RelayIsPrivate

-----------------------------------------------------------------------------
(* What a dispatch does to the workers *)

\* The workers it marks are those it grants, each to one waiting ticket; they
\* were idle and become busy.
LEMMA DispatchGrants ==
  ASSUME NEW st \in [Workers -> Pool!Status], NEW dp \in [Workers -> BOOLEAN],
         NEW sl \in [Requests -> Nat], NEW fu \in [Requests -> Outcomes],
         \A r, s \in Requests : sl[r] # 0 /\ sl[r] = sl[s] => r = s,
         \A r \in Requests : fu[r] = Pending => sl[r] # 0,
         Pool!DispatchNext(st, dp, sl, fu)
  PROVE  /\ status' \in [Workers -> Pool!Status]
         /\ dispatched' \in [Workers -> BOOLEAN]
         /\ \A r \in Requests : slot'[r] \in {sl[r], 0}
         /\ \A r \in Requests : \/ future'[r] = fu[r]
                                \/ /\ fu[r] = Pending /\ future'[r] \in Workers
                                   /\ st[future'[r]] = "idle"
         /\ \A w \in Workers :
              LET taken == \E r \in Requests : fu[r] = Pending /\ future'[r] = w
              IN  /\ dispatched'[w] <=> taken \/ dp[w]
                  /\ status'[w] = IF taken THEN "busy" ELSE st[w]
         /\ \A r, s \in Requests :
              /\ fu[r] = Pending /\ fu[s] = Pending
              /\ future'[r] \in Workers /\ future'[r] = future'[s]
              => r = s
  <1> DEFINE live == {r \in Requests : sl[r] # 0 /\ fu[r] = Pending}
             idle == Pool!With(st, "idle")
  <1>1. PICK served \in SUBSET live : \E give \in [served -> idle] :
          /\ Pool!IsDispatch(give, live, st, sl)
          /\ status' = [w \in Workers |-> IF w \in {give[r] : r \in served} THEN "busy" ELSE st[w]]
          /\ dispatched' = [w \in Workers |-> w \in {give[r] : r \in served} \/ dp[w]]
          /\ future' = [r \in Requests |-> IF r \in served THEN give[r] ELSE fu[r]]
          /\ slot' = [r \in Requests |-> IF r \in live \ served THEN sl[r] ELSE 0]
    BY DEF Pool!DispatchNext
  <1>2. PICK give \in [served -> idle] :
          /\ Pool!IsDispatch(give, live, st, sl)
          /\ status' = [w \in Workers |-> IF w \in {give[r] : r \in served} THEN "busy" ELSE st[w]]
          /\ dispatched' = [w \in Workers |-> w \in {give[r] : r \in served} \/ dp[w]]
          /\ future' = [r \in Requests |-> IF r \in served THEN give[r] ELSE fu[r]]
          /\ slot' = [r \in Requests |-> IF r \in live \ served THEN sl[r] ELSE 0]
    BY <1>1
  <1>3. idle \subseteq Workers /\ \A w \in idle : st[w] = "idle"
    BY DEF Pool!With
  <1>4. \A r \in served : give[r] \in idle /\ r \in Requests /\ sl[r] # 0 /\ fu[r] = Pending
    OBVIOUS
  <1>5. \A r \in Requests : /\ r \in served <=> fu[r] = Pending /\ future'[r] \in Workers
                            /\ r \in served => future'[r] = give[r]
                            /\ r \notin served => future'[r] = fu[r]
    BY <1>2, <1>3, <1>4, OutcomesDistinct
  <1>6. /\ status' \in [Workers -> Pool!Status]
        /\ dispatched' \in [Workers -> BOOLEAN]
        /\ \A r \in Requests : slot'[r] \in {sl[r], 0}
    BY <1>2 DEF Pool!Status
  <1>7. \A w \in Workers :
          w \in {give[r] : r \in served} <=> \E r \in Requests : fu[r] = Pending /\ future'[r] = w
    BY <1>4, <1>5
  <1>8. \A w \in Workers :
          LET taken == \E r \in Requests : fu[r] = Pending /\ future'[r] = w
          IN  /\ dispatched'[w] <=> taken \/ dp[w]
              /\ status'[w] = IF taken THEN "busy" ELSE st[w]
    BY <1>2, <1>7
  <1>9. \A r, s \in served : sl[s] < sl[r] => give[s] # give[r]
    <2>1. \A r \in served : give[r] \in Pool!LeftIdle(r, idle, give, sl)
      BY <1>2 DEF Pool!IsDispatch, Pool!IsPick, Pool!FreeFor
    <2> QED  BY <2>1 DEF Pool!LeftIdle
  <1>10. \A r, s \in served : give[r] = give[s] => r = s
    <2> SUFFICES ASSUME NEW r \in served, NEW s \in served, give[r] = give[s]
                 PROVE  r = s
      OBVIOUS
    <2>1. sl[r] \in Nat /\ sl[s] \in Nat /\ sl[r] # 0
      BY <1>4
    <2>2. ~(sl[s] < sl[r]) /\ ~(sl[r] < sl[s])
      BY <1>9
    <2> QED  BY <2>1, <2>2, <1>4
  <1>11. \A r, s \in Requests :
           /\ fu[r] = Pending /\ fu[s] = Pending
           /\ future'[r] \in Workers /\ future'[r] = future'[s]
           => r = s
    BY <1>5, <1>10
  <1> QED  BY <1>3, <1>4, <1>5, <1>6, <1>8, <1>11

-----------------------------------------------------------------------------
(* Steps that leave the pool alone, and steps that dispatch *)

\* A step that leaves the pool alone keeps the invariant when a handler that ends
\* has no worker or has lost its client, and the sessions stay with their handlers.
LEMMA QuietKeeps ==
  ASSUME LeaseInv, HandlerInv, UNCHANGED poolVars,
         online' \in [Requests -> BOOLEAN], \A s \in Requests : online'[s] => online[s],
         owner' \in [Workers -> Requests \cup {NoOne}],
         \A s \in Requests : \/ pc'[s] = pc[s]
                             \/ /\ pc[s] # "done" /\ pc'[s] # "new"
                                /\ pc'[s] = "done" => future[s] \notin Workers \/ ~online[s]
                                /\ future[s] = Pending => pc'[s] \in {"notify", "wait"}
                                /\ future[s] \in Workers => pc[s] # "new",
         RelayIsPrivate'
  PROVE  LeaseInv'
  <1>1. LeaseTypes' /\ WaitersListen' /\ PlacesDiffer'
    BY DEF LeaseInv, LeaseTypes, WaitersListen, PlacesDiffer, poolVars
  <1>2. \A s \in Requests, w \in Workers : Holding(s, w)' => Holding(s, w)
    BY OutcomesDistinct DEF Holding, poolVars, LeaseInv, WaitersListen
  <1>3. HeldOnce'
    BY <1>2 DEF LeaseInv, HeldOnce, poolVars
  <1>4. OnlyDesertionLeaks'
    <2> SUFFICES ASSUME NEW w \in Workers, dispatched[w]
                 PROVE  \E r \in Requests : Holding(r, w)' \/ (future[r] = w /\ pc'[r] = "done" /\ ~online'[r])
      BY DEF OnlyDesertionLeaks, poolVars
    <2>1. PICK r \in Requests : Holding(r, w) \/ (future[r] = w /\ pc[r] = "done" /\ ~online[r])
      BY DEF LeaseInv, OnlyDesertionLeaks
    <2>2. future[r] = w /\ future'[r] = w
      BY <2>1 DEF Holding, poolVars
    <2> QED  BY <2>1, <2>2 DEF Holding, LeaseInv, LeaseTypes
  <1> QED  BY <1>1, <1>3, <1>4 DEF LeaseInv

\* A dispatch keeps it, from the state its caller leaves: a ticket that waits
\* becomes the only holder of the worker it is granted.
LEMMA GrantsKeep ==
  ASSUME NEW st \in [Workers -> Pool!Status], NEW dp \in [Workers -> BOOLEAN],
         NEW sl \in [Requests -> Nat], NEW fu \in [Requests -> Outcomes],
         arrivals \in Nat, \A r \in Requests : sl[r] <= arrivals,
         \A r, s \in Requests : sl[r] # 0 /\ sl[r] = sl[s] => r = s,
         \A r \in Requests : fu[r] = Pending => sl[r] # 0,
         Pool!DispatchNext(st, dp, sl, fu),
         \A r \in Requests : /\ pc'[r] = "new" => fu[r] = NoFuture
                             /\ fu[r] = Pending => pc'[r] \in {"notify", "wait"},
         \A r \in Requests, w \in Workers : fu[r] = w /\ pc'[r] \notin {"new", "done"} => dp[w],
         \A w \in Workers : dp[w] => st[w] # "idle",
         \A r, s \in Requests, w \in Workers :
            /\ fu[r] = w /\ pc'[r] \notin {"new", "done"}
            /\ fu[s] = w /\ pc'[s] \notin {"new", "done"}
            => r = s,
         \A w \in Workers : dp[w] =>
            \E r \in Requests : /\ fu[r] = w
                                /\ pc'[r] # "new" /\ (pc'[r] = "done" => ~online'[r]),
         \A r \in Requests : pc'[r] = "relay" => fu[r] \in Workers /\ owner'[fu[r]] \in {r, NoOne},
         online' \in [Requests -> BOOLEAN], owner' \in [Workers -> Requests \cup {NoOne}]
  PROVE  LeaseInv'
  <1>1. /\ arrivals' = arrivals /\ slot' \in [Requests -> Nat]
        /\ future' \in [Requests -> Outcomes]
    BY DispatchFutures
  <1>2. /\ status' \in [Workers -> Pool!Status] /\ dispatched' \in [Workers -> BOOLEAN]
        /\ \A r \in Requests : slot'[r] \in {sl[r], 0}
    BY DispatchGrants
  <1>3. \A r \in Requests : \/ future'[r] = fu[r]
                            \/ /\ fu[r] = Pending /\ future'[r] \in Workers
                               /\ st[future'[r]] = "idle"
    BY DispatchGrants
  <1>4. \A w \in Workers :
          LET taken == \E r \in Requests : fu[r] = Pending /\ future'[r] = w
          IN  /\ dispatched'[w] <=> taken \/ dp[w]
              /\ status'[w] = IF taken THEN "busy" ELSE st[w]
    BY DispatchGrants
  <1>5. \A r, s \in Requests :
          /\ fu[r] = Pending /\ fu[s] = Pending
          /\ future'[r] \in Workers /\ future'[r] = future'[s]
          => r = s
    BY DispatchGrants
  <1>6. LeaseTypes'
    BY <1>2 DEF LeaseTypes, Pool!Status
  <1>7. WaitersListen'
    BY <1>3, OutcomesDistinct DEF WaitersListen
  <1>8. PlacesDiffer'
    BY <1>1, <1>2 DEF PlacesDiffer
  \* Whoever holds a worker afterwards held it before or has just been granted it.
  <1>9. \A r \in Requests, w \in Workers :
          Holding(r, w)' => \/ fu[r] = w /\ pc'[r] \notin {"new", "done"}
                            \/ fu[r] = Pending /\ future'[r] = w /\ st[w] = "idle"
    BY <1>3 DEF Holding
  <1>10. HeldOnce'
    <2>1. \A r \in Requests, w \in Workers : Holding(r, w)' => dispatched'[w]
      BY <1>4, <1>9
    <2>2. \A w \in Workers : dispatched'[w] => status'[w] # "idle"
      BY <1>4
    <2>3. \A r, s \in Requests, w \in Workers : Holding(r, w)' /\ Holding(s, w)' => r = s
      BY <1>5, <1>9
    <2> QED  BY <2>1, <2>2, <2>3 DEF HeldOnce
  <1>11. OnlyDesertionLeaks'
    <2> SUFFICES ASSUME NEW w \in Workers, dispatched'[w]
                 PROVE  \E r \in Requests :
                          Holding(r, w)' \/ (future'[r] = w /\ pc'[r] = "done" /\ ~online'[r])
      BY DEF OnlyDesertionLeaks
    <2>1. CASE \E r \in Requests : fu[r] = Pending /\ future'[r] = w
      BY <2>1 DEF Holding
    <2>2. CASE dp[w]
      <3>1. PICK r \in Requests : /\ fu[r] = w
                                  /\ pc'[r] # "new" /\ (pc'[r] = "done" => ~online'[r])
        BY <2>2
      <3>2. future'[r] = w
        BY <1>3, <3>1, OutcomesDistinct
      <3> QED  BY <3>1, <3>2 DEF Holding
    <2> QED  BY <1>4, <2>1, <2>2
  <1>12. RelayIsPrivate'
    BY <1>3, OutcomesDistinct DEF RelayIsPrivate
  <1> QED  BY <1>6, <1>7, <1>8, <1>10, <1>11, <1>12 DEF LeaseInv

-----------------------------------------------------------------------------
(* Every step of the service *)

\* A request that arrives takes a worker that is idle, hence held by nobody, or
\* the next place in the queue.
LEMMA ArriveKeeps ==
  ASSUME HandlerInv, LeaseInv, NEW r \in Requests, Arrive(r)
  PROVE  LeaseInv'
  <1> USE DEF LeaseInv
  <1>1. UNCHANGED <<online, owner>>
    BY DEF Arrive, workerVars
  <1>2. CASE Goto(r, "new", "announce") /\ Pool!EnqueueImmediate(r)
    <2>1. PICK w \in Workers : /\ status[w] = "idle"
                               /\ status' = [status EXCEPT ![w] = "busy"]
                               /\ dispatched' = [dispatched EXCEPT ![w] = TRUE]
                               /\ future' = [future EXCEPT ![r] = w]
      BY <1>2 DEF Pool!EnqueueImmediate, Pool!IsPick, Pool!FreeFor, Pool!With
    <2>2. /\ UNCHANGED <<slot, arrivals>> /\ future[r] = NoFuture
          /\ pc[r] = "new" /\ pc' = [pc EXCEPT ![r] = "announce"]
      BY <1>2 DEF Pool!EnqueueImmediate, Goto
    <2>3. LeaseTypes' /\ WaitersListen' /\ PlacesDiffer'
      BY <1>1, <2>1, <2>2, OutcomesDistinct
         DEF LeaseTypes, WaitersListen, PlacesDiffer, HandlerInv, Pool!Status
    <2>4. \A s \in Requests, v \in Workers : Holding(s, v)' => Holding(s, v) \/ (s = r /\ v = w)
      BY <2>1, <2>2 DEF Holding, HandlerInv
    <2>5. \A s \in Requests : ~Holding(s, w)
      BY <2>1 DEF HeldOnce
    <2>6. HeldOnce'
      <3>1. \A s \in Requests, v \in Workers : Holding(s, v)' => dispatched'[v]
        BY <2>1, <2>4 DEF HeldOnce, LeaseTypes
      <3>2. \A v \in Workers : dispatched'[v] => status'[v] # "idle"
        BY <2>1 DEF HeldOnce, LeaseTypes
      <3>3. \A s, q \in Requests, v \in Workers : Holding(s, v)' /\ Holding(q, v)' => s = q
        BY <2>4, <2>5 DEF HeldOnce
      <3> QED  BY <3>1, <3>2, <3>3 DEF HeldOnce
    <2>7. OnlyDesertionLeaks'
      BY <1>1, <2>1, <2>2, OutcomesDistinct DEF OnlyDesertionLeaks, Holding, HandlerInv, LeaseTypes
    <2>8. RelayIsPrivate'
      BY <1>1, <2>1, <2>2 DEF RelayIsPrivate, HandlerInv
    <2> QED  BY <2>3, <2>6, <2>7, <2>8
  <1>3. CASE Goto(r, "new", "notify") /\ Pool!EnqueueWaiting(r)
    <2>1. /\ arrivals' = arrivals + 1 /\ slot' = [slot EXCEPT ![r] = arrivals + 1]
          /\ future' = [future EXCEPT ![r] = Pending] /\ future[r] = NoFuture
          /\ UNCHANGED <<status, dispatched>>
          /\ pc[r] = "new" /\ pc' = [pc EXCEPT ![r] = "notify"]
      BY <1>3 DEF Pool!EnqueueWaiting, Goto
    <2>2. LeaseTypes' /\ WaitersListen'
      BY <1>1, <2>1, OutcomesDistinct DEF LeaseTypes, WaitersListen, HandlerInv
    <2>3. PlacesDiffer'
      BY <2>1 DEF PlacesDiffer, HandlerInv
    <2>4. \A s \in Requests, v \in Workers : Holding(s, v)' => Holding(s, v)
      BY <2>1, OutcomesDistinct DEF Holding, HandlerInv
    <2>5. HeldOnce'
      BY <2>1, <2>4 DEF HeldOnce
    <2>6. OnlyDesertionLeaks'
      BY <1>1, <2>1, OutcomesDistinct DEF OnlyDesertionLeaks, Holding, HandlerInv
    <2>7. RelayIsPrivate'
      BY <1>1, <2>1 DEF RelayIsPrivate, HandlerInv
    <2> QED  BY <2>2, <2>3, <2>5, <2>6, <2>7
  <1>4. CASE Goto(r, "new", "done") /\ Pool!QueueFull(r)
    <2>1. /\ UNCHANGED poolVars /\ future[r] = NoFuture
          /\ pc[r] = "new" /\ pc' = [pc EXCEPT ![r] = "done"]
      BY <1>4 DEF Pool!QueueFull, Goto, Pool!poolVars, poolVars
    <2>2. RelayIsPrivate'
      BY <1>1, <2>1 DEF RelayIsPrivate, HandlerInv, poolVars
    <2> QED  BY <1>1, <2>1, <2>2, QuietKeeps, OutcomesDistinct DEF HandlerInv, LeaseTypes
  <1> QED  BY <1>2, <1>3, <1>4 DEF Arrive

\* The steps of a handler between its grant and its end touch the session of its
\* own worker at most; the others of that worker are not relayed to.
LEMMA HandlerKeeps ==
  ASSUME HandlerInv, LeaseInv, NEW r \in Requests,
         \/ NotifySent(r) \/ Wake(r) \/ Poll(r) \/ AnnounceFailed(r)
         \/ Connect(r) \/ RelayEnd(r) \/ SessionTimeout(r)
  PROVE  LeaseInv'
  <1> USE DEF LeaseInv
  <1>1. UNCHANGED poolVars /\ online' = online
    BY DEF NotifySent, Wake, Poll, AnnounceFailed, Connect, RelayEnd, SessionTimeout
  <1>2. /\ pc[r] \notin {"new", "done"}
        /\ \E to \in Stage \ {"new"} :
             /\ pc' = [pc EXCEPT ![r] = to]
             /\ to = "done" => future[r] \notin Workers \/ ~online[r]
             /\ future[r] = Pending => to \in {"notify", "wait"}
    BY OutcomesDistinct DEF NotifySent, Wake, Poll, AnnounceFailed, Connect, RelayEnd, SessionTimeout,
                            Goto, Stage, HandlerInv
  <1>3. CASE /\ Connect(r) /\ pc[r] = "connect"
             /\ \E to \in {"relay", "closing"} : pc' = [pc EXCEPT ![r] = to]
             /\ owner' = [owner EXCEPT ![future[r]] = r]
    <2>1. future[r] \in Workers /\ Holding(r, future[r])
      BY <1>3 DEF HandlerInv, Holding
    <2>2. \A s \in Requests : pc[s] = "relay" => future[s] # future[r]
      BY <1>3, <2>1 DEF HeldOnce, Holding
    <2>3. RelayIsPrivate'
      BY <1>1, <1>3, <2>1, <2>2 DEF RelayIsPrivate, HandlerInv, LeaseTypes, poolVars
    <2>4. owner' \in [Workers -> Requests \cup {NoOne}]
      BY <1>3 DEF LeaseTypes
    <2> QED  BY <1>1, <1>2, <2>3, <2>4, QuietKeeps DEF HandlerInv, LeaseTypes
  <1>4. CASE owner' = owner /\ \E to \in Stage \ {"relay"} : pc' = [pc EXCEPT ![r] = to]
    <2>1. RelayIsPrivate'
      BY <1>1, <1>4 DEF RelayIsPrivate, HandlerInv, poolVars
    <2> QED  BY <1>1, <1>2, <1>4, <2>1, QuietKeeps DEF HandlerInv, LeaseTypes
  <1>5. CASE Connect(r)
    BY <1>3, <1>4, <1>5 DEF Connect, Goto, Stage
  <1> QED  BY <1>4, <1>5 DEF NotifySent, Wake, Poll, AnnounceFailed, RelayEnd, SessionTimeout,
                             Goto, Stage, workerVars

\* A cancelled ticket holds nothing.  Its handler goes on, or ends because the
\* client is gone.
LEMMA CancelKeeps ==
  ASSUME HandlerInv, LeaseInv, NEW r \in Requests, Pool!Cancel(r),
         UNCHANGED <<online, owner>>,
         pc' = pc \/ (pc[r] = "notify" /\ pc' = [pc EXCEPT ![r] = "done"])
  PROVE  LeaseInv'
  <1> USE DEF LeaseInv
  <1> DEFINE sl == [slot EXCEPT ![r] = 0]
             fu == [future EXCEPT ![r] = IF @ = Pending THEN Cancelled ELSE @]
  <1>1. Pool!DispatchNext(status, dispatched, sl, fu) /\ slot[r] # 0
    BY DEF Pool!Cancel
  <1>2. future[r] = Pending /\ fu = [future EXCEPT ![r] = Cancelled]
    BY <1>1 DEF HandlerInv
  <1>3. sl \in [Requests -> Nat] /\ fu \in [Requests -> Outcomes]
    BY <1>2 DEF HandlerInv, Outcomes
  <1>4. /\ arrivals \in Nat /\ \A s \in Requests : sl[s] <= arrivals
        /\ \A s, q \in Requests : sl[s] # 0 /\ sl[s] = sl[q] => s = q
        /\ \A s \in Requests : fu[s] = Pending => sl[s] # 0
    BY <1>2, OutcomesDistinct DEF HandlerInv, PlacesDiffer
  <1>5. \A s \in Requests, w \in Workers : fu[s] = w <=> future[s] = w
    BY <1>2, OutcomesDistinct DEF HandlerInv
  <1>6. \A s \in Requests : fu[s] \in Workers \/ fu[s] = Pending \/ pc[s] = "new" => pc'[s] = pc[s]
    BY <1>2, OutcomesDistinct DEF HandlerInv, WaitersListen
  <1>7. \A s \in Requests : /\ pc'[s] = "new" => fu[s] = NoFuture
                            /\ fu[s] = Pending => pc'[s] \in {"notify", "wait"}
    BY <1>2, <1>6, OutcomesDistinct DEF HandlerInv, WaitersListen
  <1> HIDE DEF sl, fu
  <1>8. \A s \in Requests, w \in Workers :
          fu[s] = w /\ pc'[s] \notin {"new", "done"} => Holding(s, w)
    BY <1>5, <1>6 DEF Holding
  <1>9. /\ \A s \in Requests, w \in Workers :
             fu[s] = w /\ pc'[s] \notin {"new", "done"} => dispatched[w]
        /\ \A w \in Workers : dispatched[w] => status[w] # "idle"
        /\ \A s, q \in Requests, w \in Workers :
             /\ fu[s] = w /\ pc'[s] \notin {"new", "done"}
             /\ fu[q] = w /\ pc'[q] \notin {"new", "done"}
             => s = q
    BY <1>8 DEF HeldOnce
  <1>10. \A w \in Workers : dispatched[w] =>
           \E s \in Requests : fu[s] = w /\ pc'[s] # "new" /\ (pc'[s] = "done" => ~online'[s])
    BY <1>5, <1>6 DEF OnlyDesertionLeaks, Holding
  <1>11. \A s \in Requests : pc'[s] = "relay" => fu[s] \in Workers /\ owner'[fu[s]] \in {s, NoOne}
    <2> SUFFICES ASSUME NEW s \in Requests, pc'[s] = "relay"
                 PROVE  fu[s] \in Workers /\ owner'[fu[s]] \in {s, NoOne}
      OBVIOUS
    <2>1. pc[s] = "relay"
      BY DEF HandlerInv
    <2>2. future[s] \in Workers /\ owner[future[s]] \in {s, NoOne}
      BY <2>1 DEF HandlerInv, RelayIsPrivate
    <2> QED  BY <1>5, <2>2
  <1>12. /\ status \in [Workers -> Pool!Status] /\ dispatched \in [Workers -> BOOLEAN]
         /\ online' \in [Requests -> BOOLEAN] /\ owner' \in [Workers -> Requests \cup {NoOne}]
    BY DEF LeaseTypes
  <1> HIDE DEF LeaseInv
  <1> QED  BY <1>1, <1>3, <1>4, <1>7, <1>9, <1>10, <1>11, <1>12, GrantsKeep

\* The released worker loses its mark with its holder, and nobody else's.
LEMMA ReleaseKeeps ==
  ASSUME HandlerInv, LeaseInv, NEW r \in Requests, Release(r)
  PROVE  LeaseInv'
  <1> USE DEF LeaseInv
  <1> DEFINE w == future[r]
             st == [status EXCEPT ![w] = "idle"]
             dp == [dispatched EXCEPT ![w] = FALSE]
  <1>1. /\ pc[r] = "closing" /\ pc' = [pc EXCEPT ![r] = "done"] /\ UNCHANGED <<online, owner>>
        /\ Pool!DispatchNext(st, dp, slot, future)
    BY DEF Release, Goto, Pool!ReleaseWorker, workerVars
  <1>2. w \in Workers /\ Holding(r, w)
    BY <1>1 DEF HandlerInv, Holding
  <1>3. st \in [Workers -> Pool!Status] /\ dp \in [Workers -> BOOLEAN]
    BY DEF LeaseTypes, Pool!Status
  <1>4. \A v \in Workers : /\ dp[v] <=> dispatched[v] /\ v # w
                           /\ v # w => st[v] = status[v]
    BY <1>2 DEF LeaseTypes
  <1>5. \A s \in Requests, v \in Workers :
          future[s] = v /\ pc'[s] \notin {"new", "done"} => Holding(s, v) /\ v # w
    BY <1>1, <1>2 DEF Holding, HeldOnce, HandlerInv
  <1> HIDE DEF st, dp, w
  <1>6. /\ \A s \in Requests, v \in Workers :
             future[s] = v /\ pc'[s] \notin {"new", "done"} => dp[v]
        /\ \A v \in Workers : dp[v] => st[v] # "idle"
        /\ \A s, q \in Requests, v \in Workers :
             /\ future[s] = v /\ pc'[s] \notin {"new", "done"}
             /\ future[q] = v /\ pc'[q] \notin {"new", "done"}
             => s = q
    BY <1>4, <1>5 DEF HeldOnce
  <1>7. \A v \in Workers : dp[v] =>
          \E s \in Requests : future[s] = v /\ pc'[s] # "new" /\ (pc'[s] = "done" => ~online'[s])
    BY <1>1, <1>4 DEF OnlyDesertionLeaks, Holding, HandlerInv, w
  <1>8. \A s \in Requests : /\ pc'[s] = "new" => future[s] = NoFuture
                            /\ future[s] = Pending => pc'[s] \in {"notify", "wait"}
    BY <1>1 DEF WaitersListen, HandlerInv
  <1>9. \A s \in Requests : pc'[s] = "relay" => future[s] \in Workers /\ owner'[future[s]] \in {s, NoOne}
    BY <1>1 DEF HandlerInv, RelayIsPrivate
  <1>10. /\ slot \in [Requests -> Nat] /\ future \in [Requests -> Outcomes] /\ arrivals \in Nat
         /\ \A s \in Requests : slot[s] <= arrivals
         /\ \A s, q \in Requests : slot[s] # 0 /\ slot[s] = slot[q] => s = q
         /\ \A s \in Requests : future[s] = Pending => slot[s] # 0
         /\ online' \in [Requests -> BOOLEAN] /\ owner' \in [Workers -> Requests \cup {NoOne}]
    BY <1>1 DEF LeaseTypes, HandlerInv, PlacesDiffer
  <1> HIDE DEF LeaseInv
  <1> QED  BY <1>1, <1>3, <1>6, <1>7, <1>8, <1>9, <1>10, GrantsKeep

LEMMA LeaseStepKeeps == HandlerInv /\ LeaseInv /\ [Next]_vars => LeaseInv'
  <1> SUFFICES ASSUME HandlerInv, LeaseInv, [Next]_vars
               PROVE  LeaseInv'
    OBVIOUS
  <1> USE DEF LeaseInv
  <1>1. ASSUME NEW r \in Requests, AnnounceSent(r)
        PROVE  LeaseInv'
    <2>1. /\ pc[r] = "announce" /\ pc' = [pc EXCEPT ![r] = "connect"]
          /\ status' = [status EXCEPT ![future[r]] = "busy"]
          /\ dispatched' = [dispatched EXCEPT ![future[r]] = TRUE]
          /\ UNCHANGED <<slot, arrivals, future, online, owner>>
      BY <1>1 DEF AnnounceSent, Goto, Pool!MarkBusy, workerVars
    <2>2. future[r] \in Workers /\ Holding(r, future[r])
      BY <2>1 DEF HandlerInv, Holding
    <2>3. \A s \in Requests, w \in Workers : Holding(s, w)' <=> Holding(s, w)
      BY <2>1 DEF Holding, HandlerInv
    <2>4. LeaseTypes' /\ WaitersListen' /\ PlacesDiffer'
      BY <2>1, <2>2, OutcomesDistinct
         DEF LeaseTypes, WaitersListen, PlacesDiffer, HandlerInv, Pool!Status
    <2>5. dispatched[future[r]] /\ dispatched' = dispatched
      BY <2>1, <2>2 DEF HeldOnce, LeaseTypes
    <2>6. HeldOnce'
      BY <2>1, <2>3, <2>5 DEF HeldOnce, LeaseTypes
    <2>7. OnlyDesertionLeaks'
      BY <2>1, <2>3, <2>5 DEF OnlyDesertionLeaks, HandlerInv
    <2>8. RelayIsPrivate'
      BY <2>1 DEF RelayIsPrivate, HandlerInv
    <2> QED  BY <2>4, <2>6, <2>7, <2>8
  <1>2. ASSUME NEW r \in Requests, NotifyFailed(r)
        PROVE  LeaseInv'
    <2>1. /\ pc[r] = "notify" /\ ~online[r] /\ pc' = [pc EXCEPT ![r] = "done"]
          /\ UNCHANGED <<online, owner>>
      BY <1>2 DEF NotifyFailed, Goto, workerVars
    <2>2. CASE Pool!Cancel(r)
      BY <2>1, <2>2, CancelKeeps
    <2>3. CASE slot[r] = 0 /\ UNCHANGED poolVars
      <3>1. RelayIsPrivate'
        BY <2>1, <2>3 DEF RelayIsPrivate, HandlerInv, poolVars
      <3> QED  BY <2>1, <2>3, <3>1, QuietKeeps DEF HandlerInv, LeaseTypes
    <2> QED  BY <1>2, <2>2, <2>3 DEF NotifyFailed
  <1>3. ASSUME NEW r \in Requests, AdminCancel(r)
        PROVE  LeaseInv'
    BY <1>3, CancelKeeps DEF AdminCancel, workerVars
  <1>4. ASSUME \/ \E r \in Requests : Leave(r)
               \/ \E w \in Workers : SessionEnd(w) \/ Crash(w) \/ Restart(w) \/ StartRegister(w)
               \/ StartSweep \/ (\E t \in Tasks, w \in Workers : Answer(t, w))
               \/ UNCHANGED vars
        PROVE  LeaseInv'
    <2>1. UNCHANGED <<poolVars, pc>>
      BY <1>4 DEF Leave, SessionEnd, Crash, Restart, StartRegister, StartSweep, Answer, vars
    <2>2. /\ online' \in [Requests -> BOOLEAN] /\ \A s \in Requests : online'[s] => online[s]
          /\ \A w \in Workers : owner'[w] \in {owner[w], NoOne}
          /\ owner' \in [Workers -> Requests \cup {NoOne}]
      BY <1>4 DEF Leave, SessionEnd, Crash, Restart, StartRegister, StartSweep, Answer, vars,
                  workerVars, LeaseTypes
    <2>3. RelayIsPrivate'
      BY <2>1, <2>2 DEF RelayIsPrivate, HandlerInv, poolVars
    <2> QED  BY <2>1, <2>2, <2>3, QuietKeeps
  <1>5. ASSUME NEW t \in Tasks, NEW w \in Workers, Apply(t, w)
        PROVE  LeaseInv'
    <2>1. UNCHANGED <<dispatched, slot, arrivals, future, pc, online, owner>>
      BY <1>5 DEF Apply, Pool!RefreshStatus, workerVars
    <2>2. PICK report \in Pool!Status :
            status' = [status EXCEPT ![w] = IF dispatched[w] /\ report = "idle" THEN @ ELSE report]
      BY <1>5 DEF Apply, Pool!RefreshStatus
    <2>3. LeaseTypes'
      BY <2>1, <2>2 DEF LeaseTypes
    <2>4. HeldOnce'
      BY <2>1, <2>2 DEF HeldOnce, Holding, LeaseTypes
    <2> QED  BY <2>1, <2>3, <2>4 DEF WaitersListen, PlacesDiffer, OnlyDesertionLeaks, Holding, RelayIsPrivate
  <1>6. ASSUME NEW t \in Tasks, FinishRefresh(t)
        PROVE  LeaseInv'
    <2>1. /\ Pool!DispatchNext(status, dispatched, slot, future)
          /\ UNCHANGED <<pc, online, owner>>
      BY <1>6 DEF FinishRefresh, workerVars
    <2>2. \A w \in Workers : dispatched[w] =>
            \E s \in Requests : future[s] = w /\ pc'[s] # "new" /\ (pc'[s] = "done" => ~online'[s])
      BY <2>1 DEF OnlyDesertionLeaks, Holding
    <2>3. \A s \in Requests : pc'[s] = "relay" => future[s] \in Workers /\ owner'[future[s]] \in {s, NoOne}
      BY <2>1 DEF HandlerInv, RelayIsPrivate
    <2>4. \A s \in Requests, w \in Workers :
            future[s] = w /\ pc'[s] \notin {"new", "done"} => Holding(s, w)
      BY <2>1 DEF Holding
    <2>5. /\ \A s \in Requests, w \in Workers :
               future[s] = w /\ pc'[s] \notin {"new", "done"} => dispatched[w]
          /\ \A w \in Workers : dispatched[w] => status[w] # "idle"
          /\ \A s, q \in Requests, w \in Workers :
               /\ future[s] = w /\ pc'[s] \notin {"new", "done"}
               /\ future[q] = w /\ pc'[q] \notin {"new", "done"}
               => s = q
      BY <2>4 DEF HeldOnce
    <2>6. \A s \in Requests : /\ pc'[s] = "new" => future[s] = NoFuture
                              /\ future[s] = Pending => pc'[s] \in {"notify", "wait"}
      BY <2>1 DEF WaitersListen
    <2>7. /\ slot \in [Requests -> Nat] /\ future \in [Requests -> Outcomes] /\ arrivals \in Nat
          /\ \A s \in Requests : slot[s] <= arrivals
          /\ \A s, q \in Requests : slot[s] # 0 /\ slot[s] = slot[q] => s = q
          /\ \A s \in Requests : future[s] = Pending => slot[s] # 0
          /\ online' \in [Requests -> BOOLEAN] /\ owner' \in [Workers -> Requests \cup {NoOne}]
      BY <2>1 DEF LeaseTypes, HandlerInv, PlacesDiffer
    <2>8. status \in [Workers -> Pool!Status] /\ dispatched \in [Workers -> BOOLEAN]
      BY DEF LeaseTypes
    <2> HIDE DEF LeaseInv
    <2> QED  BY <2>1, <2>2, <2>3, <2>5, <2>6, <2>7, <2>8, GrantsKeep
  <1> QED  BY <1>1, <1>2, <1>3, <1>4, <1>5, <1>6, ArriveKeeps, HandlerKeeps, ReleaseKeeps
           DEF Next, HandlerStep, RefreshStep

LEMMA LeaseInitially == Init => LeaseInv
  BY OutcomesDistinct DEF Init, Pool!PoolInit, Pool!Status, LeaseInv, LeaseTypes, WaitersListen,
     PlacesDiffer, HeldOnce, OnlyDesertionLeaks, RelayIsPrivate, Holding

LEMMA LeaseInvHolds == Spec => [](HandlerInv /\ LeaseInv)
  BY InitSimulation, HandlerStepKeeps, LeaseInitially, LeaseStepKeeps, PTL DEF Spec

-----------------------------------------------------------------------------
(* What follows *)

\* No handler ever relays to a worker process that runs the session of another,
\* whatever the health checks report, however late, and whoever crashes.
THEOREM RelayCorrect == Spec => []RelayIsPrivate
  <1>1. LeaseInv => RelayIsPrivate
    BY DEF LeaseInv
  <1> QED  BY <1>1, LeaseInvHolds, PTL

\* Every worker the gateway has dispatched to is held by a handler that has not
\* ended, or was lost with a client that left before queue_done: no other path of
\* a handler (a failed connection, a timeout, a cancellation) loses a worker.
THEOREM LeaksCorrect == Spec => []OnlyDesertionLeaks
  <1>1. LeaseInv => OnlyDesertionLeaks
    BY DEF LeaseInv
  <1> QED  BY <1>1, LeaseInvHolds, PTL

=============================================================================
