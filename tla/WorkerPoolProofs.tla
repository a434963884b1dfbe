--------------------------- MODULE WorkerPoolProofs ---------------------------
(***************************************************************************)
(* Proofs of what the worker pool promises, for any set of workers, any    *)
(* finite set of requests and any capacity.                                *)
(*                                                                         *)
(* Nearly every operation ends in a dispatch, so the argument turns on one *)
(* lemma, DispatchEffect, that says what a dispatch does to any state its  *)
(* caller leaves behind; the invariant and the order of grants are read    *)
(* off it, operation by operation.                                         *)
(*                                                                         *)
(* The last part lets registrations move workers: then two requests may    *)
(* hold one worker, but only across a move.                                *)
(***************************************************************************)
EXTENDS WorkerPoolRelocation, FiniteSetTheorems, TLAPS

Outcomes == Workers \cup {Pending, Cancelled, NoFuture}

-----------------------------------------------------------------------------
(* Positions *)

\* A position is a natural number, and a ticket's position does not grow when no
\* ticket comes before it that was not there.
LEMMA RanksType ==
  ASSUME NEW sl \in [Requests -> Nat]
  PROVE  Ranks(sl) \in [Requests -> Nat]
  <1>1. ASSUME NEW r \in Requests
        PROVE  Cardinality({s \in Requests : sl[s] # 0 /\ sl[s] <= sl[r]}) \in Nat
    <2>1. IsFiniteSet({s \in Requests : sl[s] # 0 /\ sl[s] <= sl[r]})
      BY RequestsAssumption, FS_Subset
    <2> QED  BY <2>1, FS_CardinalityType
  <1> QED  BY <1>1 DEF Ranks

LEMMA RanksShrink ==
  ASSUME NEW sl \in [Requests -> Nat], NEW next \in [Requests -> Nat],
         NEW r \in Requests, next[r] # 0, next[r] = sl[r],
         \A s \in Requests : next[s] # 0 /\ next[s] <= next[r] => next[s] = sl[s]
  PROVE  Ranks(next)[r] <= Ranks(sl)[r]
  <1> DEFINE Upto(f) == {s \in Requests : f[s] # 0 /\ f[s] <= f[r]}
  <1>1. Upto(next) \in SUBSET Upto(sl)
    OBVIOUS
  <1>2. IsFiniteSet(Upto(sl))
    BY RequestsAssumption, FS_Subset
  <1>3. Cardinality(Upto(next)) <= Cardinality(Upto(sl))
    BY <1>1, <1>2, FS_Subset
  <1>4. Ranks(next)[r] = Cardinality(Upto(next)) /\ Ranks(sl)[r] = Cardinality(Upto(sl))
    BY DEF Ranks
  <1> QED  BY <1>3, <1>4

-----------------------------------------------------------------------------
(* What a dispatch does *)

\* Slots of the tickets that can be served are distinct.
Distinct(sl) == \A r, s \in Requests : sl[r] # 0 /\ sl[r] = sl[s] => r = s

\* Each served ticket was waiting and takes a worker that was idle and supports
\* it; two tickets take different workers; workers are made busy and dispatched
\* exactly when taken; the tickets that are not served keep their slots, find no
\* idle worker, and do not see a later ticket of their type served.
LEMMA DispatchEffect ==
  ASSUME NEW st \in [Workers -> Status], NEW dp \in [Workers -> BOOLEAN],
         NEW sl \in [Requests -> Nat], NEW fu \in [Requests -> Outcomes],
         Distinct(sl), DispatchNext(st, dp, sl, fu)
  PROVE  /\ status' \in [Workers -> Status]
         /\ dispatched' \in [Workers -> BOOLEAN]
         /\ slot' \in [Requests -> Nat]
         /\ future' \in [Requests -> Outcomes]
         /\ position' = Ranks(slot')
         /\ arrivals' = arrivals
         /\ \A r \in Requests :
              \/ future'[r] = fu[r]
              \/ /\ sl[r] # 0 /\ fu[r] = Pending
                 /\ future'[r] \in Workers
                 /\ st[future'[r]] = "idle"
         /\ \A w \in Workers :
              LET taken == \E r \in Requests : fu[r] = Pending /\ future'[r] = w
              IN  /\ dispatched'[w] <=> taken \/ dp[w]
                  /\ status'[w] = IF taken THEN "busy" ELSE st[w]
         /\ \A r, s \in Requests :
              /\ fu[r] = Pending /\ fu[s] = Pending
              /\ future'[r] \in Workers /\ future'[r] = future'[s]
              => r = s
         /\ \A r \in Requests :
              slot'[r] = IF sl[r] # 0 /\ future'[r] = Pending THEN sl[r] ELSE 0
         /\ \A r \in Requests :
              slot'[r] # 0 => FreeFor(r, With(status', "idle")) = {}
         /\ \A r, s \in Requests :
              /\ sl[s] # 0 /\ fu[s] = Pending /\ sl[s] < sl[r]
              /\ fu[r] = Pending /\ future'[r] \in Workers /\ TypeOf[s] = TypeOf[r]
              => future'[s] # Pending
  <1> DEFINE live == {r \in Requests : sl[r] # 0 /\ fu[r] = Pending}
             idle == With(st, "idle")
  <1>0. PICK served \in SUBSET live : \E give \in [served -> idle] :
          /\ IsDispatch(give, live, st, sl)
          /\ LET granted == {give[r] : r \in served} IN
             /\ status' = [w \in Workers |-> IF w \in granted THEN "busy" ELSE st[w]]
             /\ dispatched' = [w \in Workers |-> w \in granted \/ dp[w]]
          /\ future' = [r \in Requests |-> IF r \in served THEN give[r] ELSE fu[r]]
          /\ slot' = [r \in Requests |-> IF r \in live \ served THEN sl[r] ELSE 0]
          /\ position' = Ranks(slot')
          /\ arrivals' = arrivals
    BY DEF DispatchNext
  <1>1. PICK give \in [served -> idle] :
          /\ IsDispatch(give, live, st, sl)
          /\ status' = [w \in Workers |-> IF w \in {give[r] : r \in served} THEN "busy" ELSE st[w]]
          /\ dispatched' = [w \in Workers |-> w \in {give[r] : r \in served} \/ dp[w]]
          /\ future' = [r \in Requests |-> IF r \in served THEN give[r] ELSE fu[r]]
          /\ slot' = [r \in Requests |-> IF r \in live \ served THEN sl[r] ELSE 0]
          /\ position' = Ranks(slot')
          /\ arrivals' = arrivals
    BY <1>0
  <1>2. idle \subseteq Workers /\ \A w \in idle : st[w] = "idle"
    BY DEF With
  <1>3. \A r \in served : give[r] \in idle /\ r \in Requests /\ sl[r] # 0 /\ fu[r] = Pending
    OBVIOUS
  <1>4. Pending \notin Workers
    BY FutureAssumption
  <1>5. \A r \in Requests : /\ r \in served <=> fu[r] = Pending /\ future'[r] \in Workers
                            /\ r \in served => future'[r] = give[r]
                            /\ r \notin served => future'[r] = fu[r]
    BY <1>1, <1>2, <1>3, <1>4
  <1>6. /\ status' \in [Workers -> Status]
        /\ dispatched' \in [Workers -> BOOLEAN]
        /\ slot' \in [Requests -> Nat]
        /\ future' \in [Requests -> Outcomes]
        /\ position' = Ranks(slot')
        /\ arrivals' = arrivals
    BY <1>1, <1>2 DEF Status, Outcomes
  <1>7. \A r \in Requests : \/ future'[r] = fu[r]
                            \/ /\ sl[r] # 0 /\ fu[r] = Pending
                               /\ future'[r] \in Workers
                               /\ st[future'[r]] = "idle"
    BY <1>2, <1>3, <1>5
  <1>8. \A w \in Workers :
          w \in {give[r] : r \in served} <=> \E r \in Requests : fu[r] = Pending /\ future'[r] = w
    BY <1>3, <1>5
  <1>9. \A w \in Workers :
          LET taken == \E r \in Requests : fu[r] = Pending /\ future'[r] = w
          IN  /\ dispatched'[w] <=> taken \/ dp[w]
              /\ status'[w] = IF taken THEN "busy" ELSE st[w]
    BY <1>1, <1>8
  <1>10. \A r \in served : give[r] \in LeftIdle(r, idle, give, sl)
                           /\ TypeOf[r] \in Supports[give[r]]
    BY <1>1 DEF IsDispatch, IsPick, FreeFor
  <1>11. \A r, s \in served : sl[s] < sl[r] => give[s] # give[r]
    BY <1>10 DEF LeftIdle
  <1>12. \A r, s \in served : give[r] = give[s] => r = s
    <2> SUFFICES ASSUME NEW r \in served, NEW s \in served, give[r] = give[s]
                 PROVE  r = s
      OBVIOUS
    <2>1. sl[r] \in Nat /\ sl[s] \in Nat /\ sl[r] # 0
      BY <1>3
    <2>2. ~(sl[s] < sl[r]) /\ ~(sl[r] < sl[s])
      BY <1>11
    <2> QED  BY <2>1, <2>2, <1>3 DEF Distinct
  <1>13. \A r, s \in Requests :
           /\ fu[r] = Pending /\ fu[s] = Pending
           /\ future'[r] \in Workers /\ future'[r] = future'[s]
           => r = s
    BY <1>5, <1>12
  <1>14. \A r \in Requests :
           slot'[r] = IF sl[r] # 0 /\ future'[r] = Pending THEN sl[r] ELSE 0
    BY <1>1, <1>3, <1>4, <1>5
  <1>15. \A r \in live \ served : FreeFor(r, LeftIdle(r, idle, give, sl)) = {}
    BY <1>1 DEF IsDispatch
  <1>16. \A r \in Requests : slot'[r] # 0 => FreeFor(r, With(status', "idle")) = {}
    <2> SUFFICES ASSUME NEW r \in Requests, slot'[r] # 0, NEW w \in FreeFor(r, With(status', "idle"))
                 PROVE  FALSE
      OBVIOUS
    <2>1. r \in live \ served
      BY <1>1
    <2>2. w \in Workers /\ status'[w] = "idle" /\ TypeOf[r] \in Supports[w]
      BY DEF FreeFor, With
    <2>3. w \in idle /\ \A s \in served : give[s] # w
      BY <1>1, <2>2 DEF With
    <2>4. w \in LeftIdle(r, idle, give, sl)
      BY <2>3 DEF LeftIdle
    <2> QED  BY <1>15, <2>1, <2>2, <2>4 DEF FreeFor
  <1>17. \A r, s \in Requests :
           /\ sl[s] # 0 /\ fu[s] = Pending /\ sl[s] < sl[r]
           /\ fu[r] = Pending /\ future'[r] \in Workers /\ TypeOf[s] = TypeOf[r]
           => future'[s] # Pending
    <2> SUFFICES ASSUME NEW r \in Requests, NEW s \in Requests,
                        sl[s] # 0, fu[s] = Pending, sl[s] < sl[r],
                        fu[r] = Pending, future'[r] \in Workers,
                        TypeOf[s] = TypeOf[r], future'[s] = Pending
                 PROVE  FALSE
      OBVIOUS
    <2>1. r \in served /\ s \in live \ served
      BY <1>4, <1>5
    <2>2. LeftIdle(r, idle, give, sl) \subseteq LeftIdle(s, idle, give, sl)
      <3> SUFFICES ASSUME NEW q \in served, sl[q] < sl[s]
                   PROVE  sl[q] < sl[r]
        BY DEF LeftIdle
      <3> QED  BY <1>3
    <2>3. give[r] \in FreeFor(s, LeftIdle(s, idle, give, sl))
      BY <1>10, <2>1, <2>2 DEF FreeFor
    <2> QED  BY <1>15, <2>1, <2>3
  <1> QED  BY <1>6, <1>7, <1>9, <1>13, <1>14, <1>16, <1>17

-----------------------------------------------------------------------------
(* The inductive invariant.  Exclusive leases rest on the guard against stale *)
(* reports and on distinct slots (two tickets served at once take different  *)
(* workers); positions follow the slots.                                     *)

Ranked == position = Ranks(slot)

PoolInv ==
    /\ ExclusiveLease
    /\ LeaseIsGuarded
    /\ QueueIsWaiters
    /\ SlotsDistinct
    /\ Ranked

IInv == TypeOK /\ PoolInv /\ WorkConserving

\* A queue that loses tickets stays within its capacity.
LEMMA QueueShrinks ==
  ASSUME Cardinality(Queue) <= MaxQueueSize, Queue' \subseteq Queue
  PROVE  Cardinality(Queue)' <= MaxQueueSize
  <1>1. IsFiniteSet(Queue) /\ IsFiniteSet(Queue')
    BY RequestsAssumption, FS_Subset DEF Queue
  <1>2. Cardinality(Queue') <= Cardinality(Queue)
    BY <1>1, FS_Subset
  <1>3. Cardinality(Queue') \in Nat /\ Cardinality(Queue) \in Nat
    BY <1>1, FS_CardinalityType
  <1> QED  BY <1>2, <1>3, QueueAssumption

\* A dispatch, run on a state that has the invariant, re-establishes it and
\* leaves no ticket waiting for an idle worker.
LEMMA DispatchKeeps ==
  ASSUME NEW st \in [Workers -> Status], NEW dp \in [Workers -> BOOLEAN],
         NEW sl \in [Requests -> Nat], NEW fu \in [Requests -> Outcomes],
         arrivals \in Nat,
         Distinct(sl), \A r \in Requests : sl[r] <= arrivals,
         \A r \in Requests : sl[r] # 0 <=> fu[r] = Pending,
         \A r \in Requests : sl[r] # 0 => slot[r] # 0,
         Cardinality(Queue) <= MaxQueueSize,
         \A r \in Requests, w \in Workers : fu[r] = w /\ r \notin finished' => dp[w],
         \A w \in Workers : dp[w] => st[w] # "idle",
         \A r, s \in Requests, w \in Workers :
            fu[r] = w /\ fu[s] = w /\ r \notin finished' /\ s \notin finished' => r = s,
         DispatchNext(st, dp, sl, fu)
  PROVE  PoolTypeOK' /\ PoolInv' /\ WorkConserving'
  <1>1. /\ status' \in [Workers -> Status]
        /\ dispatched' \in [Workers -> BOOLEAN]
        /\ slot' \in [Requests -> Nat]
        /\ future' \in [Requests -> Outcomes]
        /\ position' = Ranks(slot')
        /\ arrivals' = arrivals
    BY DispatchEffect
  <1>2. \A r \in Requests : \/ future'[r] = fu[r]
                            \/ /\ fu[r] = Pending
                               /\ future'[r] \in Workers
                               /\ st[future'[r]] = "idle"
    BY DispatchEffect
  <1>3. \A w \in Workers :
          LET taken == \E r \in Requests : fu[r] = Pending /\ future'[r] = w
          IN  /\ dispatched'[w] <=> taken \/ dp[w]
              /\ status'[w] = IF taken THEN "busy" ELSE st[w]
    BY DispatchEffect
  <1>4. \A r, s \in Requests :
          /\ fu[r] = Pending /\ fu[s] = Pending
          /\ future'[r] \in Workers /\ future'[r] = future'[s]
          => r = s
    BY DispatchEffect
  <1>5. \A r \in Requests :
          slot'[r] = IF sl[r] # 0 /\ future'[r] = Pending THEN sl[r] ELSE 0
    BY DispatchEffect
  <1>6. PoolTypeOK'
    BY <1>1, RanksType DEF PoolTypeOK, Outcomes
  <1>7. ExclusiveLease'
    BY <1>2, <1>4, FutureAssumption DEF ExclusiveLease, Holds
  <1>8. LeaseIsGuarded'
    BY <1>2, <1>3, FutureAssumption DEF LeaseIsGuarded, Holds
  <1>9. QueueIsWaiters'
    <2>1. Queue' = {r \in Requests : future'[r] = Pending}
      BY <1>2, <1>5, FutureAssumption DEF Queue
    <2>2. Queue' \subseteq Queue
      BY <1>5 DEF Queue
    <2> QED  BY <2>1, <2>2, QueueShrinks DEF QueueIsWaiters
  <1>10. SlotsDistinct'
    BY <1>1, <1>5 DEF SlotsDistinct, Queue, Distinct
  <1>11. WorkConserving'
    <2>1. \A r \in Requests : slot'[r] # 0 => FreeFor(r, With(status', "idle")) = {}
      BY DispatchEffect
    <2> QED  BY <2>1 DEF WorkConserving, Queue, With, FreeFor
  <1> QED  BY <1>1, <1>6, <1>7, <1>8, <1>9, <1>10, <1>11 DEF PoolInv, Ranked

LEMMA InitInv == Init => IInv
  <1> SUFFICES ASSUME Init
               PROVE  IInv
    OBVIOUS
  <1> USE DEF Init, PoolInit
  <1>1. TypeOK
    BY DEF TypeOK, PoolTypeOK, Status
  <1>2. ExclusiveLease /\ LeaseIsGuarded
    BY FutureAssumption DEF ExclusiveLease, LeaseIsGuarded, Holds
  <1>3. Queue = {}
    BY DEF Queue
  <1>4. QueueIsWaiters /\ SlotsDistinct /\ WorkConserving
    BY <1>3, FutureAssumption, QueueAssumption, FS_EmptySet
       DEF QueueIsWaiters, SlotsDistinct, WorkConserving
  <1>5. Ranked
    BY DEF Ranked, Ranks
  <1> QED  BY <1>1, <1>2, <1>4, <1>5 DEF IInv, PoolInv

-----------------------------------------------------------------------------
(* Every operation keeps the invariant *)

\* A grant takes a worker that no caller holds.
LEMMA ImmediateKeeps ==
  ASSUME IInv, NEW r \in Requests, r \notin finished, EnqueueImmediate(r),
         UNCHANGED <<finished, owed>>
  PROVE  IInv'
  <1> USE DEF IInv, PoolInv
  <1>1. PICK w \in Workers :
          /\ status[w] = "idle"
          /\ status' = [status EXCEPT ![w] = "busy"]
          /\ dispatched' = [dispatched EXCEPT ![w] = TRUE]
          /\ future' = [future EXCEPT ![r] = w]
    BY DEF EnqueueImmediate, IsPick, FreeFor, With
  <1>2. future[r] = NoFuture /\ UNCHANGED <<slot, arrivals, position, finished, owed>>
    BY DEF EnqueueImmediate
  <1>3. TypeOK'
    BY <1>1, <1>2 DEF TypeOK, PoolTypeOK, Status
  <1>4. \A s \in Requests : ~Holds(s, w)
    BY <1>1 DEF LeaseIsGuarded
  <1>5. \A s \in Requests, v \in Workers :
          Holds(s, v)' => Holds(s, v) \/ (s = r /\ v = w)
    BY <1>1, <1>2 DEF Holds, TypeOK, PoolTypeOK
  <1>6. ExclusiveLease'
    BY <1>4, <1>5 DEF ExclusiveLease
  <1>7. LeaseIsGuarded'
    BY <1>1, <1>5 DEF LeaseIsGuarded, TypeOK, PoolTypeOK
  <1>8. QueueIsWaiters'
    <2>1. Queue' = Queue
      BY <1>2 DEF Queue
    <2>2. \A s \in Requests : future'[s] = Pending <=> future[s] = Pending
      BY <1>1, <1>2, FutureAssumption DEF TypeOK, PoolTypeOK
    <2> QED  BY <2>1, <2>2 DEF QueueIsWaiters
  <1>9. SlotsDistinct' /\ Ranked'
    BY <1>2 DEF SlotsDistinct, Ranked, Queue
  <1>10. WorkConserving'
    BY <1>1, <1>2 DEF WorkConserving, FreeFor, With, Queue, TypeOK, PoolTypeOK
  <1> QED  BY <1>3, <1>6, <1>7, <1>8, <1>9, <1>10

\* A new ticket goes behind all others, and no idle worker could serve it.
LEMMA WaitingKeeps ==
  ASSUME IInv, NEW r \in Requests, r \notin finished, EnqueueWaiting(r),
         UNCHANGED <<finished, owed>>
  PROVE  IInv'
  <1> USE DEF IInv, PoolInv
  <1>1. /\ future[r] = NoFuture
        /\ FreeFor(r, With(status, "idle")) = {}
        /\ Cardinality(Queue) < MaxQueueSize
        /\ arrivals' = arrivals + 1
        /\ slot' = [slot EXCEPT ![r] = arrivals + 1]
        /\ position' = Ranks(slot')
        /\ future' = [future EXCEPT ![r] = Pending]
        /\ UNCHANGED <<status, dispatched, finished, owed>>
    BY DEF EnqueueWaiting
  <1>2. /\ slot \in [Requests -> Nat] /\ arrivals \in Nat
        /\ future \in [Requests -> Outcomes]
    BY DEF TypeOK, PoolTypeOK, Outcomes
  <1>3. TypeOK'
    <2>1. slot' \in [Requests -> Nat]
      BY <1>1, <1>2
    <2>2. position' \in [Requests -> Nat]
      BY <1>1, <2>1, RanksType
    <2>3. future' \in [Requests -> Outcomes]
      BY <1>1, <1>2 DEF Outcomes
    <2> QED  BY <1>1, <1>2, <2>1, <2>2, <2>3 DEF TypeOK, PoolTypeOK, Outcomes
  <1>4. ExclusiveLease' /\ LeaseIsGuarded'
    BY <1>1, <1>2, FutureAssumption DEF ExclusiveLease, LeaseIsGuarded, Holds
  <1>5. Queue' = Queue \cup {r}
    BY <1>1, <1>2 DEF Queue
  <1>6. QueueIsWaiters'
    <2>1. Queue' = {s \in Requests : future'[s] = Pending}
      BY <1>1, <1>2, <1>5 DEF QueueIsWaiters
    <2>2. IsFiniteSet(Queue)
      BY RequestsAssumption, FS_Subset DEF Queue
    <2>3. Cardinality(Queue) \in Nat
      BY <2>2, FS_CardinalityType
    <2>4. Cardinality(Queue') \in {Cardinality(Queue), Cardinality(Queue) + 1}
      BY <1>5, <2>2, FS_AddElement
    <2> QED  BY <1>1, <2>1, <2>3, <2>4, QueueAssumption DEF QueueIsWaiters
  <1>7. SlotsDistinct'
    BY <1>1, <1>2 DEF SlotsDistinct, Queue
  <1>8. WorkConserving'
    BY <1>1, <1>5 DEF WorkConserving, FreeFor, With
  <1> QED  BY <1>1, <1>3, <1>4, <1>6, <1>7, <1>8 DEF Ranked

LEMMA NextKeeps == IInv /\ [Next]_vars => IInv'
  <1> SUFFICES ASSUME IInv, [Next]_vars
               PROVE  IInv'
    OBVIOUS
  <1> USE DEF IInv, PoolInv
  <1>1. /\ status \in [Workers -> Status]
        /\ dispatched \in [Workers -> BOOLEAN]
        /\ slot \in [Requests -> Nat]
        /\ arrivals \in Nat
        /\ future \in [Requests -> Outcomes]
        /\ finished \subseteq Requests /\ owed \in BOOLEAN
    BY DEF TypeOK, PoolTypeOK, Outcomes
  <1>2. Distinct(slot) /\ \A r \in Requests : slot[r] <= arrivals
    BY <1>1 DEF SlotsDistinct, Distinct, Queue
  <1>3. \A r \in Requests : slot[r] # 0 <=> future[r] = Pending
    BY DEF QueueIsWaiters, Queue
  <1>4. Cardinality(Queue) <= MaxQueueSize
    BY DEF QueueIsWaiters
  <1>5. CASE UNCHANGED vars
    BY <1>5 DEF vars, TypeOK, PoolTypeOK, ExclusiveLease, LeaseIsGuarded, Holds,
                QueueIsWaiters, SlotsDistinct, Ranked, WorkConserving, Queue, With, FreeFor
  <1>6. ASSUME NEW r \in Requests, Arrive(r)
        PROVE  IInv'
    BY <1>6, ImmediateKeeps, WaitingKeeps DEF Arrive
  <1>7. ASSUME NEW r \in Requests, Reject(r)
        PROVE  IInv'
    BY <1>7 DEF Reject, QueueFull, poolVars, TypeOK, PoolTypeOK, ExclusiveLease,
                LeaseIsGuarded, Holds, QueueIsWaiters, SlotsDistinct, Ranked,
                WorkConserving, Queue, With, FreeFor
  <1>8. ASSUME NEW r \in Requests, Withdraw(r)
        PROVE  IInv'
    <2> DEFINE sl == [slot EXCEPT ![r] = 0]
               fu == [future EXCEPT ![r] = IF @ = Pending THEN Cancelled ELSE @]
    <2>1. DispatchNext(status, dispatched, sl, fu) /\ slot[r] # 0
      BY <1>8 DEF Withdraw, Cancel
    <2>2. finished' \in {finished, finished \cup {r}}
      BY <1>8 DEF Withdraw
    <2>3. sl \in [Requests -> Nat] /\ fu \in [Requests -> Outcomes]
      BY <1>1 DEF Outcomes
    <2>4. /\ Distinct(sl) /\ \A s \in Requests : sl[s] <= arrivals
          /\ \A s \in Requests : sl[s] # 0 => slot[s] # 0
      BY <1>1, <1>2 DEF Distinct
    <2>5. \A s \in Requests : sl[s] # 0 <=> fu[s] = Pending
      BY <1>1, <1>3, FutureAssumption
    <2>6. \A s \in Requests, w \in Workers : fu[s] = w <=> future[s] = w
      BY <1>1, FutureAssumption
    <2>7. PoolTypeOK' /\ PoolInv' /\ WorkConserving'
      <3> HIDE DEF sl, fu
      <3>1. \A s \in Requests, w \in Workers : fu[s] = w /\ s \notin finished' => Holds(s, w)
        BY <2>2, <2>6 DEF Holds
      <3>2. /\ \A s \in Requests, w \in Workers :
                 fu[s] = w /\ s \notin finished' => dispatched[w]
            /\ \A w \in Workers : dispatched[w] => status[w] # "idle"
            /\ \A s, t \in Requests, w \in Workers :
                 fu[s] = w /\ fu[t] = w /\ s \notin finished' /\ t \notin finished' => s = t
        BY <3>1 DEF ExclusiveLease, LeaseIsGuarded
      <3> QED  BY <1>1, <1>4, <2>1, <2>3, <2>4, <2>5, <3>2, DispatchKeeps
    <2>8. finished' \subseteq Requests /\ owed' \in BOOLEAN
      BY <1>1, <1>8, <2>2 DEF Withdraw
    <2> QED  BY <2>7, <2>8 DEF TypeOK
  <1>9. ASSUME NEW r \in Requests, Confirm(r)
        PROVE  IInv'
    <2>1. PICK w \in Workers : /\ status' = [status EXCEPT ![w] = "busy"]
                               /\ dispatched' = [dispatched EXCEPT ![w] = TRUE]
      BY <1>9 DEF Confirm, MarkBusy
    <2>2. UNCHANGED <<slot, arrivals, position, future, finished, owed>>
      BY <1>9 DEF Confirm, MarkBusy
    <2>3. TypeOK'
      BY <2>1, <2>2 DEF TypeOK, PoolTypeOK, Status
    <2>4. ExclusiveLease' /\ LeaseIsGuarded'
      BY <1>1, <2>1, <2>2 DEF ExclusiveLease, LeaseIsGuarded, Holds
    <2>5. QueueIsWaiters' /\ SlotsDistinct' /\ Ranked'
      BY <2>2 DEF QueueIsWaiters, SlotsDistinct, Ranked, Queue
    <2>6. WorkConserving'
      BY <1>1, <2>1, <2>2 DEF WorkConserving, FreeFor, With, Queue
    <2> QED  BY <2>3, <2>4, <2>5, <2>6
  <1>10. ASSUME NEW r \in Requests, Return(r)
         PROVE  IInv'
    <2>1. PICK w \in Workers : Holds(r, w) /\ ReleaseWorker(w)
      BY <1>10 DEF Return
    <2> DEFINE st == [status EXCEPT ![w] = "idle"]
               dp == [dispatched EXCEPT ![w] = FALSE]
    <2>2. finished' = finished \cup {r} /\ owed' = owed
      BY <1>10 DEF Return
    <2>3. DispatchNext(st, dp, slot, future)
      BY <2>1 DEF ReleaseWorker
    <2>4. st \in [Workers -> Status] /\ dp \in [Workers -> BOOLEAN]
      BY <1>1 DEF Status
    <2>5. \A s \in Requests, v \in Workers : future[s] = v /\ s \notin finished' => dp[v]
      BY <1>1, <2>1, <2>2 DEF ExclusiveLease, LeaseIsGuarded, Holds
    <2>6. \A v \in Workers : dp[v] => st[v] # "idle"
      BY <1>1 DEF LeaseIsGuarded
    <2>7. \A s, t \in Requests, v \in Workers :
            future[s] = v /\ future[t] = v /\ s \notin finished' /\ t \notin finished' => s = t
      BY <2>2 DEF ExclusiveLease, Holds
    <2>8. PoolTypeOK' /\ PoolInv' /\ WorkConserving'
      <3> HIDE DEF st, dp
      <3> QED  BY <1>1, <1>2, <1>3, <1>4, <2>3, <2>4, <2>5, <2>6, <2>7, DispatchKeeps
    <2> QED  BY <1>1, <2>2, <2>8 DEF TypeOK
  <1>11. ASSUME NEW r \in Requests, Forget(r)
         PROVE  IInv'
    BY <1>11 DEF Forget, poolVars, TypeOK, PoolTypeOK, ExclusiveLease, LeaseIsGuarded,
                 Holds, QueueIsWaiters, SlotsDistinct, Ranked, WorkConserving, Queue,
                 With, FreeFor
  <1>12. ASSUME NEW w \in Workers, Refresh(w)
         PROVE  IInv'
    <2>1. PICK report \in Status : RefreshStatus(w, report)
      BY <1>12 DEF Refresh
    <2>2. /\ status' = [status EXCEPT ![w] =
                          IF dispatched[w] /\ report = "idle" THEN @ ELSE report]
          /\ UNCHANGED <<dispatched, slot, arrivals, position, future, finished>>
          /\ owed' = TRUE
      BY <1>12, <2>1 DEF Refresh, RefreshStatus
    <2>3. TypeOK'
      BY <2>2 DEF TypeOK, PoolTypeOK
    <2>4. ExclusiveLease' /\ LeaseIsGuarded'
      BY <1>1, <2>2 DEF ExclusiveLease, LeaseIsGuarded, Holds
    <2>5. QueueIsWaiters' /\ SlotsDistinct' /\ Ranked'
      BY <2>2 DEF QueueIsWaiters, SlotsDistinct, Ranked, Queue
    <2> QED  BY <2>2, <2>3, <2>4, <2>5 DEF WorkConserving
  <1>13. CASE AfterRefresh
    <2>1. /\ DispatchNext(status, dispatched, slot, future)
          /\ owed' \in {FALSE, owed} /\ finished' = finished
      BY <1>13 DEF AfterRefresh
    <2>2. /\ \A s \in Requests, v \in Workers : future[s] = v /\ s \notin finished' => dispatched[v]
          /\ \A v \in Workers : dispatched[v] => status[v] # "idle"
          /\ \A s, t \in Requests, v \in Workers :
               future[s] = v /\ future[t] = v /\ s \notin finished' /\ t \notin finished' => s = t
      BY <2>1 DEF ExclusiveLease, LeaseIsGuarded, Holds
    <2>3. PoolTypeOK' /\ PoolInv' /\ WorkConserving'
      BY <1>1, <1>2, <1>3, <1>4, <2>1, <2>2, DispatchKeeps
    <2> QED  BY <1>1, <2>1, <2>3 DEF TypeOK
  <1> QED  BY <1>5, <1>6, <1>7, <1>8, <1>9, <1>10, <1>11, <1>12, <1>13 DEF Next

-----------------------------------------------------------------------------
(* Theorems *)

\* The pool's state stays well formed: statuses the pool knows, positions and
\* slots in the naturals, futures that are workers or one of the three others.
THEOREM TypeCorrect == Spec => []TypeOK
  BY InitInv, NextKeeps, PTL DEF Spec, IInv

\* Two live requests are never granted the same worker, whatever the reports of
\* the health checks and however callers end.
THEOREM LeaseCorrect == Spec => []ExclusiveLease
  BY InitInv, NextKeeps, PTL DEF Spec, IInv, PoolInv

\* A held worker is dispatched and not idle, so that neither a report nor
\* another grant can take it.
THEOREM GuardCorrect == Spec => []LeaseIsGuarded
  BY InitInv, NextKeeps, PTL DEF Spec, IInv, PoolInv

\* The queue holds the waiting tickets, no others, and at most MaxQueueSize.
THEOREM QueueCorrect == Spec => []QueueIsWaiters
  BY InitInv, NextKeeps, PTL DEF Spec, IInv, PoolInv

\* Insertions have places of their own.
THEOREM SlotsCorrect == Spec => []SlotsDistinct
  BY InitInv, NextKeeps, PTL DEF Spec, IInv, PoolInv

\* When no dispatch is owed, no ticket waits for a worker that is idle.
THEOREM ConservesWork == Spec => []WorkConserving
  BY InitInv, NextKeeps, PTL DEF Spec, IInv

-----------------------------------------------------------------------------
(* The order of grants and positions *)

\* Withdrawals, returns and refreshes amount to a dispatch on the queue as it
\* is, but for tickets that are taken out and cancelled.
Dispatches ==
    \E st \in [Workers -> Status], dp \in [Workers -> BOOLEAN],
       sl \in [Requests -> Nat], fu \in [Requests -> Outcomes] :
      /\ DispatchNext(st, dp, sl, fu)
      /\ \A s \in Requests : sl[s] \in {0, slot[s]}
      /\ \A s \in Requests : fu[s] = future[s] \/ fu[s] = Cancelled
      /\ \A s \in Requests : fu[s] = Pending => sl[s] # 0

LEMMA DispatchingSteps ==
  ASSUME IInv, (\E r \in Requests : Withdraw(r) \/ Return(r)) \/ AfterRefresh
  PROVE  Dispatches
  <1>1. /\ status \in [Workers -> Status]
        /\ dispatched \in [Workers -> BOOLEAN]
        /\ slot \in [Requests -> Nat]
        /\ future \in [Requests -> Outcomes]
        /\ \A s \in Requests : future[s] = Pending => slot[s] # 0
    BY DEF IInv, PoolInv, TypeOK, PoolTypeOK, Outcomes, QueueIsWaiters, Queue
  <1>2. ASSUME NEW r \in Requests, Withdraw(r)
        PROVE  Dispatches
    <2> DEFINE sl == [slot EXCEPT ![r] = 0]
               fu == [future EXCEPT ![r] = IF @ = Pending THEN Cancelled ELSE @]
    <2>1. DispatchNext(status, dispatched, sl, fu)
      BY <1>2 DEF Withdraw, Cancel
    <2>2. sl \in [Requests -> Nat] /\ fu \in [Requests -> Outcomes]
      BY <1>1 DEF Outcomes
    <2>3. /\ \A s \in Requests : sl[s] \in {0, slot[s]}
          /\ \A s \in Requests : fu[s] = future[s] \/ fu[s] = Cancelled
          /\ \A s \in Requests : fu[s] = Pending => sl[s] # 0
      BY <1>1, FutureAssumption
    <2> HIDE DEF sl, fu
    <2> QED  BY <1>1, <2>1, <2>2, <2>3 DEF Dispatches
  <1>3. ASSUME NEW r \in Requests, Return(r)
        PROVE  Dispatches
    <2>1. PICK w \in Workers : ReleaseWorker(w)
      BY <1>3 DEF Return
    <2> DEFINE st == [status EXCEPT ![w] = "idle"]
               dp == [dispatched EXCEPT ![w] = FALSE]
    <2>2. DispatchNext(st, dp, slot, future)
      BY <2>1 DEF ReleaseWorker
    <2>3. st \in [Workers -> Status] /\ dp \in [Workers -> BOOLEAN]
      BY <1>1 DEF Status
    <2> HIDE DEF st, dp
    <2> QED  BY <1>1, <2>2, <2>3 DEF Dispatches
  <1>4. CASE AfterRefresh
    BY <1>1, <1>4 DEF AfterRefresh, Dispatches
  <1> QED  BY <1>2, <1>3, <1>4

\* A dispatch serves tickets of one type in the order of their slots.
LEMMA DispatchInOrder ==
  ASSUME IInv, Dispatches, NEW r \in Requests, NEW s \in Requests,
         GrantedNow(r), Before(s, r)
  PROVE  future'[s] # Pending
  <1>1. PICK st \in [Workers -> Status], dp \in [Workers -> BOOLEAN],
             sl \in [Requests -> Nat], fu \in [Requests -> Outcomes] :
          /\ DispatchNext(st, dp, sl, fu)
          /\ \A q \in Requests : sl[q] \in {0, slot[q]}
          /\ \A q \in Requests : fu[q] = future[q] \/ fu[q] = Cancelled
          /\ \A q \in Requests : fu[q] = Pending => sl[q] # 0
    BY DEF Dispatches
  <1>2. Distinct(sl)
    BY <1>1 DEF IInv, PoolInv, SlotsDistinct, Queue, Distinct
  <1>3. \A q \in Requests : \/ future'[q] = fu[q]
                            \/ sl[q] # 0 /\ fu[q] = Pending /\ future'[q] \in Workers
    BY <1>1, <1>2, DispatchEffect
  <1>4. \A q, t \in Requests :
           /\ sl[t] # 0 /\ fu[t] = Pending /\ sl[t] < sl[q]
           /\ fu[q] = Pending /\ future'[q] \in Workers /\ TypeOf[t] = TypeOf[q]
           => future'[t] # Pending
    BY <1>1, <1>2, DispatchEffect
  <1>5. sl[r] # 0 /\ fu[r] = Pending /\ future'[r] \in Workers
    BY <1>1, <1>3, FutureAssumption DEF GrantedNow
  <1>6. r \in Queue /\ slot[s] < slot[r] /\ TypeOf[s] = TypeOf[r] /\ sl[r] = slot[r]
    BY <1>1, <1>5 DEF Before, Queue
  <1>7. SUFFICES ASSUME future'[s] = Pending
                 PROVE  FALSE
    OBVIOUS
  <1>8. fu[s] = Pending /\ sl[s] # 0 /\ sl[s] = slot[s]
    BY <1>1, <1>3, <1>7, FutureAssumption
  <1> QED  BY <1>4, <1>5, <1>6, <1>7, <1>8

\* A dispatch moves no ticket's slot.
LEMMA DispatchKeepsSlots ==
  ASSUME IInv, Dispatches
  PROVE  \A s \in Requests : slot'[s] \in {0, slot[s]}
  <1>1. PICK st \in [Workers -> Status], dp \in [Workers -> BOOLEAN],
             sl \in [Requests -> Nat], fu \in [Requests -> Outcomes] :
          /\ DispatchNext(st, dp, sl, fu)
          /\ \A q \in Requests : sl[q] \in {0, slot[q]}
    BY DEF Dispatches
  <1>2. Distinct(sl)
    BY <1>1 DEF IInv, PoolInv, SlotsDistinct, Queue, Distinct
  <1> QED  BY <1>1, <1>2, DispatchEffect

LEMMA FifoStep ==
  ASSUME IInv, [Next]_vars, NEW r \in Requests, NEW s \in Requests,
         GrantedNow(r), Before(s, r), future'[s] = Pending
  PROVE  owed /\ r \notin Queue
  <1>1. CASE (\E q \in Requests : Withdraw(q) \/ Return(q)) \/ AfterRefresh
    BY <1>1, DispatchingSteps, DispatchInOrder
  <1>2. ASSUME NEW q \in Requests, Arrive(q)
        PROVE  owed /\ r \notin Queue
    <2>1. EnqueueImmediate(q) \/ EnqueueWaiting(q)
      BY <1>2 DEF Arrive
    <2>2. r = q
      BY <2>1, FutureAssumption
         DEF GrantedNow, EnqueueImmediate, EnqueueWaiting, IInv, TypeOK, PoolTypeOK
    <2>3. EnqueueImmediate(r)
      BY <2>1, <2>2, FutureAssumption
         DEF GrantedNow, EnqueueWaiting, IInv, TypeOK, PoolTypeOK
    <2>4. FreeFor(r, With(status, "idle")) # {}
      BY <2>3 DEF EnqueueImmediate, IsPick
    <2>5. FreeFor(s, With(status, "idle")) # {}
      BY <2>4 DEF FreeFor, Before
    <2>6. owed
      BY <2>5 DEF IInv, WorkConserving, Before
    <2>7. r \notin Queue
      BY <2>3, FutureAssumption DEF EnqueueImmediate, IInv, PoolInv, QueueIsWaiters
    <2> QED  BY <2>6, <2>7
  <1>3. CASE \/ \E q \in Requests : Reject(q) \/ Confirm(q) \/ Forget(q)
             \/ \E w \in Workers : Refresh(w)
             \/ UNCHANGED vars
    BY <1>3 DEF GrantedNow, Reject, QueueFull, Confirm, MarkBusy, Forget, Refresh,
                RefreshStatus, poolVars, vars
  <1> QED  BY <1>1, <1>2, <1>3 DEF Next

LEMMA PositionStep ==
  ASSUME IInv, [Next]_vars, NEW r \in Queue \cap Queue'
  PROVE  position'[r] <= position[r]
  <1>1. slot \in [Requests -> Nat] /\ slot' \in [Requests -> Nat]
    BY NextKeeps DEF IInv, TypeOK, PoolTypeOK
  <1>2. position = Ranks(slot) /\ position' = Ranks(slot')
    BY NextKeeps DEF IInv, PoolInv, Ranked
  <1>3. r \in Requests /\ slot[r] # 0 /\ slot'[r] # 0
    BY DEF Queue
  <1>4. CASE \A q \in Requests : slot'[q] \in {0, slot[q]}
    <2>1. slot'[r] = slot[r]
      BY <1>3, <1>4
    <2>2. \A q \in Requests : slot'[q] # 0 /\ slot'[q] <= slot'[r] => slot'[q] = slot[q]
      BY <1>4
    <2> QED  BY <1>1, <1>2, <1>3, <2>1, <2>2, RanksShrink
  <1>5. CASE \E q \in Requests : EnqueueWaiting(q)
    <2>1. PICK q \in Requests : slot' = [slot EXCEPT ![q] = arrivals + 1] /\ future[q] = NoFuture
      BY <1>5 DEF EnqueueWaiting
    <2>2. q # r
      BY <1>3, <2>1, FutureAssumption DEF IInv, PoolInv, QueueIsWaiters, Queue
    <2>3. arrivals \in Nat /\ slot[r] <= arrivals
      BY <1>3 DEF IInv, PoolInv, SlotsDistinct, TypeOK, PoolTypeOK
    <2>4. slot'[r] = slot[r]
      BY <1>1, <2>1, <2>2
    <2>5. \A t \in Requests : slot'[t] # 0 /\ slot'[t] <= slot'[r] => slot'[t] = slot[t]
      <3>1. \A t \in Requests \ {q} : slot'[t] = slot[t]
        BY <1>1, <2>1
      <3>2. slot'[q] = arrivals + 1
        BY <1>1, <2>1
      <3> QED  BY <1>1, <1>3, <2>3, <2>4, <3>1, <3>2
    <2> QED  BY <1>1, <1>2, <1>3, <2>4, <2>5, RanksShrink
  <1>6. CASE (\E q \in Requests : Withdraw(q) \/ Return(q)) \/ AfterRefresh
    BY <1>4, <1>6, DispatchingSteps, DispatchKeepsSlots
  <1>7. CASE slot' = slot
    BY <1>4, <1>7
  <1>8. ASSUME NEW q \in Requests, Arrive(q)
        PROVE  slot' = slot \/ EnqueueWaiting(q)
    BY <1>8 DEF Arrive, EnqueueImmediate
  <1>9. CASE \/ \E q \in Requests : Reject(q) \/ Confirm(q) \/ Forget(q)
             \/ \E w \in Workers : Refresh(w)
             \/ UNCHANGED vars
    <2>1. slot' = slot
      BY <1>9 DEF Reject, QueueFull, Confirm, MarkBusy, Forget, Refresh,
                  RefreshStatus, poolVars, vars
    <2> QED  BY <1>7, <2>1
  <1> QED  BY <1>5, <1>6, <1>7, <1>8, <1>9 DEF Next

\* Among requests of one type grants follow the order of arrival, but for a new
\* request that comes between a refresh and its dispatch.
THEOREM FifoCorrect == Spec => FifoButForRefresh
  <1>1. IInv /\ [Next]_vars =>
          [\A r, s \in Requests :
             GrantedNow(r) /\ Before(s, r) /\ future'[s] = Pending
               => owed /\ r \notin Queue]_vars
    BY FifoStep
  <1> QED  BY <1>1, InitInv, NextKeeps, PTL DEF Spec, FifoButForRefresh

\* The position told to a waiting client never grows.
THEOREM PositionsCorrect == Spec => PositionNeverGrows
  <1>1. IInv /\ [Next]_vars => [\A r \in Queue \cap Queue' : position'[r] <= position[r]]_vars
    BY PositionStep
  <1> QED  BY <1>1, InitInv, NextKeeps, PTL DEF Spec, PositionNeverGrows

-----------------------------------------------------------------------------
(* Relocation.  A worker that has moved since a holder was granted it may be  *)
(* granted again; of every other worker the pool still knows its one holder.  *)

Moved(w) == \E q \in moved : future[q] = w

Settled(w) == \A r, s \in Requests :
                  Holds(r, w) => dispatched[w] /\ (Holds(s, w) => r = s)

\* No dispatched worker looks idle, not even after a relocation.
DispatchedNotIdle == \A w \in Workers : dispatched[w] => status[w] # "idle"

RelocationInv ==
    /\ TypeOK
    /\ moved \subseteq Requests
    /\ SlotsDistinct
    /\ DispatchedNotIdle
    /\ \A w \in Workers : Moved(w) \/ Settled(w)

\* A dispatch grants a worker nobody is known to hold, so that a worker that has
\* not moved keeps at most one holder.
LEMMA DispatchKeepsSettled ==
  ASSUME NEW st \in [Workers -> Status], NEW dp \in [Workers -> BOOLEAN],
         NEW sl \in [Requests -> Nat], NEW fu \in [Requests -> Outcomes],
         arrivals \in Nat,
         Distinct(sl), \A r \in Requests : sl[r] <= arrivals,
         \A w \in Workers : dp[w] => st[w] # "idle",
         moved \subseteq Requests, moved' = moved,
         finished' \subseteq Requests, owed' \in BOOLEAN,
         \A w \in Workers :
            \/ \E q \in moved : fu[q] = w
            \/ \A r, s \in Requests :
                  fu[r] = w /\ r \notin finished' =>
                    dp[w] /\ (fu[s] = w /\ s \notin finished' => r = s),
         DispatchNext(st, dp, sl, fu)
  PROVE  RelocationInv'
  <1>1. /\ status' \in [Workers -> Status]
        /\ dispatched' \in [Workers -> BOOLEAN]
        /\ slot' \in [Requests -> Nat]
        /\ future' \in [Requests -> Outcomes]
        /\ position' = Ranks(slot')
        /\ arrivals' = arrivals
    BY DispatchEffect
  <1>2. \A r \in Requests : \/ future'[r] = fu[r]
                            \/ /\ fu[r] = Pending
                               /\ future'[r] \in Workers
                               /\ st[future'[r]] = "idle"
    BY DispatchEffect
  <1>3. \A w \in Workers :
          LET taken == \E r \in Requests : fu[r] = Pending /\ future'[r] = w
          IN  /\ dispatched'[w] <=> taken \/ dp[w]
              /\ status'[w] = IF taken THEN "busy" ELSE st[w]
    BY DispatchEffect
  <1>4. \A r, s \in Requests :
          /\ fu[r] = Pending /\ fu[s] = Pending
          /\ future'[r] \in Workers /\ future'[r] = future'[s]
          => r = s
    BY DispatchEffect
  <1>5. \A r \in Requests :
          slot'[r] = IF sl[r] # 0 /\ future'[r] = Pending THEN sl[r] ELSE 0
    BY DispatchEffect
  <1>6. TypeOK'
    BY <1>1, RanksType DEF TypeOK, PoolTypeOK, Outcomes
  <1>7. SlotsDistinct'
    BY <1>1, <1>5 DEF SlotsDistinct, Queue, Distinct
  <1>8. DispatchedNotIdle'
    BY <1>3 DEF DispatchedNotIdle
  <1>9. ASSUME NEW w \in Workers
        PROVE  Moved(w)' \/ Settled(w)'
    <2>1. CASE \E q \in moved : fu[q] = w
      <3>1. Moved(w)'
        BY <1>2, <2>1, FutureAssumption DEF Moved
      <3> QED  BY <3>1
    <2>2. CASE \A r, s \in Requests :
                  fu[r] = w /\ r \notin finished' =>
                    dp[w] /\ (fu[s] = w /\ s \notin finished' => r = s)
      <3>1. \A r \in Requests : Holds(r, w)' =>
              \/ fu[r] = w /\ dp[w]
              \/ fu[r] = Pending /\ st[w] = "idle" /\ dispatched'[w]
        BY <1>2, <1>3, <2>2 DEF Holds
      <3>2. \A r, s \in Requests : Holds(r, w)' /\ Holds(s, w)' => r = s
        BY <1>4, <2>2, <3>1 DEF Holds
      <3>3. \A r \in Requests : Holds(r, w)' => dispatched'[w]
        BY <1>3, <3>1
      <3>4. Settled(w)'
        BY <3>2, <3>3 DEF Settled
      <3> QED  BY <3>4
    <2> QED  BY <2>1, <2>2
  <1> QED  BY <1>6, <1>7, <1>8, <1>9 DEF RelocationInv

LEMMA RelocationInit == InitRelocation => RelocationInv
  <1> SUFFICES ASSUME InitRelocation
               PROVE  RelocationInv
    OBVIOUS
  <1>1. IInv
    BY InitInv DEF InitRelocation
  <1> QED  BY <1>1 DEF IInv, PoolInv, RelocationInv, LeaseIsGuarded, DispatchedNotIdle,
                       ExclusiveLease, Settled, InitRelocation

LEMMA RelocationKeeps == RelocationInv /\ [NextRelocation]_relocationVars => RelocationInv'
  <1> SUFFICES ASSUME RelocationInv, [NextRelocation]_relocationVars
               PROVE  RelocationInv'
    OBVIOUS
  <1>1. /\ status \in [Workers -> Status]
        /\ dispatched \in [Workers -> BOOLEAN]
        /\ slot \in [Requests -> Nat]
        /\ arrivals \in Nat
        /\ position \in [Requests -> Nat]
        /\ future \in [Requests -> Outcomes]
        /\ finished \subseteq Requests /\ owed \in BOOLEAN
        /\ moved \subseteq Requests
    BY DEF RelocationInv, TypeOK, PoolTypeOK, Outcomes
  <1>2. Distinct(slot) /\ \A r \in Requests : slot[r] <= arrivals
    BY <1>1 DEF RelocationInv, SlotsDistinct, Distinct, Queue
  <1>3. \A w \in Workers : dispatched[w] => status[w] # "idle"
    BY DEF RelocationInv, DispatchedNotIdle
  <1>4. \A w \in Workers : Moved(w) \/ Settled(w)
    BY DEF RelocationInv
  <1>5. CASE UNCHANGED relocationVars
    BY <1>5 DEF relocationVars, vars, RelocationInv, TypeOK, PoolTypeOK, SlotsDistinct,
                Queue, DispatchedNotIdle, Moved, Settled, Holds
  <1>6. ASSUME NEW w \in Workers, Relocate(w)
        PROVE  RelocationInv'
    <2>1. /\ status' = [status EXCEPT ![w] = "offline"]
          /\ dispatched' = [dispatched EXCEPT ![w] = FALSE]
          /\ moved' = moved \cup {r \in Requests : Holds(r, w)}
          /\ UNCHANGED <<slot, arrivals, position, future, finished, owed>>
      BY <1>6 DEF Relocate
    <2>2. TypeOK' /\ moved' \subseteq Requests
      BY <1>1, <2>1 DEF TypeOK, PoolTypeOK, Status, Outcomes
    <2>3. SlotsDistinct' /\ DispatchedNotIdle'
      BY <1>1, <1>3, <2>1 DEF RelocationInv, SlotsDistinct, Queue, DispatchedNotIdle
    <2>4. ASSUME NEW v \in Workers
          PROVE  Moved(v)' \/ Settled(v)'
      <3>1. CASE Moved(v)
        BY <2>1, <3>1 DEF Moved
      <3>2. CASE v # w /\ Settled(v)
        BY <1>1, <2>1, <3>2 DEF Settled, Holds
      <3>3. CASE v = w
        BY <2>1, <3>3 DEF Moved, Settled, Holds
      <3> QED  BY <1>4, <3>1, <3>2, <3>3
    <2> QED  BY <2>2, <2>3, <2>4 DEF RelocationInv
  <1>7. ASSUME Next, moved' = moved
        PROVE  RelocationInv'
    <2>1. ASSUME NEW r \in Requests, Arrive(r), EnqueueImmediate(r)
          PROVE  RelocationInv'
      <3>1. PICK w \in Workers :
              /\ status[w] = "idle"
              /\ status' = [status EXCEPT ![w] = "busy"]
              /\ dispatched' = [dispatched EXCEPT ![w] = TRUE]
              /\ future' = [future EXCEPT ![r] = w]
        BY <2>1 DEF EnqueueImmediate, IsPick, FreeFor, With
      <3>2. future[r] = NoFuture /\ UNCHANGED <<slot, arrivals, position, finished, owed>>
        BY <2>1 DEF Arrive, EnqueueImmediate
      <3>3. TypeOK'
        BY <1>1, <3>1, <3>2 DEF TypeOK, PoolTypeOK, Status, Outcomes
      <3>4. SlotsDistinct' /\ DispatchedNotIdle'
        BY <1>1, <1>3, <3>1, <3>2 DEF RelocationInv, SlotsDistinct, Queue, DispatchedNotIdle
      <3>5. ASSUME NEW v \in Workers
            PROVE  Moved(v)' \/ Settled(v)'
        <4>1. CASE Moved(v)
          BY <1>1, <1>7, <3>1, <3>2, <4>1, FutureAssumption DEF Moved
        <4>2. CASE Settled(v) /\ v # w
          BY <1>1, <3>1, <3>2, <4>2 DEF Settled, Holds
        <4>3. CASE Settled(v) /\ v = w
          <5>1. \A s \in Requests : ~Holds(s, w)
            BY <1>3, <3>1, <4>3 DEF Settled
          <5>2. \A s \in Requests : Holds(s, w)' => s = r
            BY <1>1, <3>1, <3>2, <5>1 DEF Holds
          <5>3. dispatched'[w]
            BY <1>1, <3>1
          <5>4. Settled(w)'
            BY <5>2, <5>3 DEF Settled
          <5> QED  BY <4>3, <5>4
        <4> QED  BY <1>4, <4>1, <4>2, <4>3
      <3> QED  BY <1>1, <1>7, <3>3, <3>4, <3>5 DEF RelocationInv
    <2>2. ASSUME NEW r \in Requests, Arrive(r), EnqueueWaiting(r)
          PROVE  RelocationInv'
      <3>1. /\ future[r] = NoFuture
            /\ arrivals' = arrivals + 1
            /\ slot' = [slot EXCEPT ![r] = arrivals + 1]
            /\ position' = Ranks(slot')
            /\ future' = [future EXCEPT ![r] = Pending]
            /\ UNCHANGED <<status, dispatched, finished, owed>>
        BY <2>2 DEF EnqueueWaiting, Arrive
      <3>2. slot' \in [Requests -> Nat] /\ future' \in [Requests -> Outcomes]
        BY <1>1, <3>1 DEF Outcomes
      <3>3. position' \in [Requests -> Nat]
        BY <3>1, <3>2, RanksType
      <3>4. TypeOK'
        BY <1>1, <3>1, <3>2, <3>3 DEF TypeOK, PoolTypeOK, Outcomes
      <3>5. SlotsDistinct' /\ DispatchedNotIdle'
        BY <1>1, <1>2, <1>3, <3>1 DEF SlotsDistinct, Distinct, Queue, DispatchedNotIdle
      <3>6. ASSUME NEW v \in Workers
            PROVE  Moved(v)' \/ Settled(v)'
        <4>1. CASE Moved(v)
          BY <1>1, <1>7, <3>1, <4>1, FutureAssumption DEF Moved
        <4>2. CASE Settled(v)
          BY <1>1, <3>1, <4>2, FutureAssumption DEF Settled, Holds
        <4> QED  BY <1>4, <4>1, <4>2
      <3> QED  BY <1>1, <1>7, <3>4, <3>5, <3>6 DEF RelocationInv
    <2>3. ASSUME NEW r \in Requests, Withdraw(r)
          PROVE  RelocationInv'
      <3> DEFINE sl == [slot EXCEPT ![r] = 0]
                 fu == [future EXCEPT ![r] = IF @ = Pending THEN Cancelled ELSE @]
      <3>1. /\ DispatchNext(status, dispatched, sl, fu)
            /\ finished' \in {finished, finished \cup {r}} /\ owed' = owed
        BY <2>3 DEF Withdraw, Cancel
      <3>2. sl \in [Requests -> Nat] /\ fu \in [Requests -> Outcomes]
        BY <1>1 DEF Outcomes
      <3>3. Distinct(sl) /\ \A s \in Requests : sl[s] <= arrivals
        BY <1>1, <1>2 DEF Distinct
      <3>4. \A s \in Requests, w \in Workers : fu[s] = w <=> future[s] = w
        BY <1>1, FutureAssumption
      <3> HIDE DEF sl, fu
      <3>5. \A w \in Workers :
              \/ \E q \in moved : fu[q] = w
              \/ \A s, t \in Requests :
                   fu[s] = w /\ s \notin finished' =>
                     dispatched[w] /\ (fu[t] = w /\ t \notin finished' => s = t)
        BY <1>1, <1>4, <3>1, <3>4 DEF Moved, Settled, Holds
      <3>6. finished' \subseteq Requests /\ owed' \in BOOLEAN
        BY <1>1, <3>1
      <3> QED  BY <1>1, <1>3, <1>7, <3>1, <3>2, <3>3, <3>5, <3>6, DispatchKeepsSettled
    <2>4. ASSUME NEW r \in Requests, Return(r)
          PROVE  RelocationInv'
      <3>1. PICK w \in Workers : Holds(r, w) /\ ReleaseWorker(w)
        BY <2>4 DEF Return
      <3> DEFINE st == [status EXCEPT ![w] = "idle"]
                 dp == [dispatched EXCEPT ![w] = FALSE]
      <3>2. /\ DispatchNext(st, dp, slot, future)
            /\ finished' = finished \cup {r} /\ owed' = owed
        BY <2>4, <3>1 DEF Return, ReleaseWorker
      <3>3. st \in [Workers -> Status] /\ dp \in [Workers -> BOOLEAN]
        BY <1>1 DEF Status
      <3>4. \A v \in Workers : dp[v] => st[v] # "idle"
        BY <1>1, <1>3
      <3>5. \A v \in Workers \ {w} : dp[v] = dispatched[v]
        BY <1>1
      <3> HIDE DEF st, dp
      <3>6. \A v \in Workers :
              \/ \E q \in moved : future[q] = v
              \/ \A s, t \in Requests :
                   future[s] = v /\ s \notin finished' =>
                     dp[v] /\ (future[t] = v /\ t \notin finished' => s = t)
        BY <1>1, <1>4, <3>1, <3>2, <3>5 DEF Moved, Settled, Holds
      <3>7. finished' \subseteq Requests /\ owed' \in BOOLEAN
        BY <1>1, <3>2
      <3> QED  BY <1>1, <1>2, <1>7, <3>2, <3>3, <3>4, <3>6, <3>7, DispatchKeepsSettled
    <2>5. CASE AfterRefresh
      <3>1. /\ DispatchNext(status, dispatched, slot, future)
            /\ owed' \in {FALSE, owed} /\ finished' = finished
        BY <2>5 DEF AfterRefresh
      <3>2. \A v \in Workers :
              \/ \E q \in moved : future[q] = v
              \/ \A s, t \in Requests :
                   future[s] = v /\ s \notin finished' =>
                     dispatched[v] /\ (future[t] = v /\ t \notin finished' => s = t)
        BY <1>1, <1>4, <3>1 DEF Moved, Settled, Holds
      <3>3. finished' \subseteq Requests /\ owed' \in BOOLEAN
        BY <1>1, <3>1
      <3> QED  BY <1>1, <1>2, <1>3, <1>7, <3>1, <3>2, <3>3, DispatchKeepsSettled
    <2>6. ASSUME NEW r \in Requests, Confirm(r)
          PROVE  RelocationInv'
      <3>1. PICK w \in Workers : /\ status' = [status EXCEPT ![w] = "busy"]
                                 /\ dispatched' = [dispatched EXCEPT ![w] = TRUE]
        BY <2>6 DEF Confirm, MarkBusy
      <3>2. UNCHANGED <<slot, arrivals, position, future, finished, owed>>
        BY <2>6 DEF Confirm, MarkBusy
      <3>3. TypeOK'
        BY <1>1, <3>1, <3>2 DEF TypeOK, PoolTypeOK, Status, Outcomes
      <3>4. SlotsDistinct' /\ DispatchedNotIdle'
        BY <1>1, <1>3, <3>1, <3>2 DEF RelocationInv, SlotsDistinct, Queue, DispatchedNotIdle
      <3>5. \A v \in Workers : Moved(v)' \/ Settled(v)'
        BY <1>1, <1>4, <1>7, <3>1, <3>2 DEF Moved, Settled, Holds
      <3> QED  BY <1>1, <1>7, <3>3, <3>4, <3>5 DEF RelocationInv
    <2>7. ASSUME NEW w \in Workers, Refresh(w)
          PROVE  RelocationInv'
      <3>1. PICK report \in Status : RefreshStatus(w, report)
        BY <2>7 DEF Refresh
      <3>2. /\ status' = [status EXCEPT ![w] =
                            IF dispatched[w] /\ report = "idle" THEN @ ELSE report]
            /\ UNCHANGED <<dispatched, slot, arrivals, position, future, finished>>
            /\ owed' = TRUE
        BY <2>7, <3>1 DEF Refresh, RefreshStatus
      <3>3. TypeOK'
        BY <1>1, <3>2 DEF TypeOK, PoolTypeOK, Outcomes
      <3>4. SlotsDistinct' /\ DispatchedNotIdle'
        BY <1>1, <1>3, <3>2 DEF RelocationInv, SlotsDistinct, Queue, DispatchedNotIdle
      <3>5. \A v \in Workers : Moved(v)' \/ Settled(v)'
        BY <1>4, <1>7, <3>2 DEF Moved, Settled, Holds
      <3> QED  BY <1>1, <1>7, <3>3, <3>4, <3>5 DEF RelocationInv
    <2>8. ASSUME NEW r \in Requests, Reject(r) \/ Forget(r)
          PROVE  RelocationInv'
      <3>1. /\ UNCHANGED <<status, dispatched, slot, arrivals, position, future, owed>>
            /\ finished' = finished \cup {r}
        BY <2>8 DEF Reject, QueueFull, Forget, poolVars
      <3> QED  BY <1>1, <1>7, <3>1 DEF RelocationInv, TypeOK, PoolTypeOK, SlotsDistinct, Queue,
                  DispatchedNotIdle, Moved, Settled, Holds
    <2>9. ASSUME NEW r \in Requests, Arrive(r)
          PROVE  RelocationInv'
      BY <2>1, <2>2, <2>9 DEF Arrive
    <2> QED  BY <1>7, <2>3, <2>4, <2>5, <2>6, <2>7, <2>8, <2>9 DEF Next
  <1> QED  BY <1>5, <1>6, <1>7 DEF NextRelocation

\* With workers that may move while they are held, two requests share a worker
\* only if it has moved while one of the requests it was granted to held it.
THEOREM RelocationCorrect == SpecRelocation => []DoublesHaveMoved
  <1>1. RelocationInv => DoublesHaveMoved
    BY DEF RelocationInv, DoublesHaveMoved, Moved, Settled
  <1> QED  BY <1>1, RelocationInit, RelocationKeeps, PTL DEF SpecRelocation

=============================================================================
