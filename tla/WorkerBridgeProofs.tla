------------------------- MODULE WorkerBridgeProofs -------------------------
(***************************************************************************)
(* What the backend and a worker's bridge to it keep for any number of     *)
(* sessions of either mode: the types of their state, CallsAreSerial,      *)
(* OneLiveUser, NeverStuckBusy, LeaverIsReleased and BackendIsFreed; and   *)
(* that whoever waits waits for somebody who goes (SomebodyGoes), and      *)
(* every step leaves less to do (EveryStepCounts).                         *)
(*                                                                         *)
(* What is inductive is told session by session (SessionOK): a session     *)
(* that is not closed and is served is the active one, and where its       *)
(* handler is says what threads it can have.  An action belongs to one     *)
(* session and leaves the others alone, but that active may become or stop *)
(* being its own (Only).  The next two properties need what else is to be  *)
(* known of a session that is being closed (ReleaseOK); the last two, who  *)
(* waits for the finalize (AwaitsOK) and what a step may bring back.       *)
(***************************************************************************)
EXTENDS WorkerBridge, TLAPS

-----------------------------------------------------------------------------
(* Processes. *)

LEMMA OfSession ==
    ASSUME NEW s \in Sessions
    PROVE  /\ Handler(s) \in Processes /\ Closer(s) \in Processes
           /\ Handler(s)[1] = "ws" /\ Handler(s)[2] = s
           /\ Closer(s)[1] = "http" /\ Closer(s)[2] = s
           /\ Handler(s) # Closer(s)
  BY DEF Handler, Closer, Processes

LEMMA ProcessOf ==
    ASSUME NEW p \in Processes
    PROVE  /\ p[2] \in Sessions
           /\ p = Handler(p[2]) \/ p = Closer(p[2])
           /\ \A s \in Sessions : s # p[2] => p # Handler(s) /\ p # Closer(s)
  BY DEF Handler, Closer, Processes

-----------------------------------------------------------------------------
(* Types. *)

LEMMA StationNames ==
    /\ CloseStations \cup FatalStations \cup PushStations \cup Resting \subseteq Stations
    /\ {"register", "prepare", "receive"} \subseteq Stations
  BY DEF Stations

LEMMA GotoTypes ==
    ASSUME NEW p \in Processes, at \in [Processes -> Stations],
           NEW station \in Stations, Goto(p, station)
    PROVE  at' \in [Processes -> Stations]
  BY DEF Goto

\* What an operation that ends badly says nothing of.
RestTypes ==
    /\ task \in [Sessions -> {"none", "running", "returned", "failed", "cancelled"}]
    /\ zombie \subseteq Sessions
    /\ inbox \in [Sessions -> Nat] /\ \A s \in Sessions : inbox[s] <= MaxInputs[s]

Replies == {"none", "pending", "working", "ok", "error"}

LEMMA FatalTypes ==
    ASSUME BackendTypeOK, NEW s \in Sessions, Fatal(s), RestTypes'
    PROVE  BackendTypeOK'
  <1>1. at' \in [Processes -> Stations]
    <2>1. "fatalStop" \in Stations /\ "forget" \in Stations
      BY DEF Stations, FatalStations, CloseStations
    <2> QED BY <2>1, OfSession, GotoTypes DEF Fatal, BackendTypeOK
  <1> QED BY <1>1 DEF Fatal, BackendTypeOK, RestTypes

LEMMA CloseBeginsTypes ==
    ASSUME BackendTypeOK, NEW p \in Processes, CloseBegins(p), RestTypes',
           reply' \in [Sessions -> Replies]
    PROVE  BackendTypeOK'
  <1>1. at' \in [Processes -> Stations]
    <2>1. "returned" \in Stations /\ "drain" \in Stations
      BY DEF Stations, Resting, CloseStations
    <2> QED BY <2>1, GotoTypes DEF CloseBegins, BackendTypeOK
  <1>2. p[2] \in Sessions
    BY ProcessOf
  <1> QED BY <1>1, <1>2 DEF CloseBegins, BackendTypeOK, RestTypes, Replies

LEMMA SendFailsTypes ==
    ASSUME BackendTypeOK, NEW s \in Sessions, SendFails(s), RestTypes'
    PROVE  BackendTypeOK'
  <1>1. reply \in [Sessions -> Replies]
    BY DEF BackendTypeOK, Replies
  <1> QED BY <1>1, FatalTypes, CloseBeginsTypes, OfSession DEF SendFails

\* The other exits and steps of an operation.
LEMMA MoveTypes ==
    ASSUME BackendTypeOK, NEW p \in Processes, NEW station \in Stations,
           at' = at \/ Goto(p, station),
           UNCHANGED <<closed, created, told, socket, failed, active, drain, reply>>,
           RestTypes'
    PROVE  BackendTypeOK'
  <1>1. at' \in [Processes -> Stations]
    BY GotoTypes DEF BackendTypeOK
  <1> QED BY <1>1 DEF BackendTypeOK, RestTypes

LEMMA RestKept ==
    BackendTypeOK =>
      /\ RestTypes
      /\ UNCHANGED <<task, zombie, inbox>> => RestTypes'
  BY DEF BackendTypeOK, RestTypes

LEMMA NextMessageTypes ==
    ASSUME NEW s \in Sessions, NextMessage(s)
    PROVE  \E station \in Stations : Goto(Handler(s), station)
  BY StationNames DEF NextMessage, Resting

LEMMA RaiseTypes ==
    ASSUME BackendTypeOK, NEW p \in Processes, Raise(p) \/ DrainRaises(p)
    PROVE  /\ at' \in [Processes -> Stations]
           /\ failed' \subseteq Sessions /\ reply' \in [Sessions -> Replies]
  <1>1. "raised" \in Stations /\ "forget" \in Stations /\ p[2] \in Sessions
    BY StationNames, ProcessOf DEF Resting, CloseStations
  <1>2. at' \in [Processes -> Stations]
    BY <1>1, GotoTypes DEF Raise, DrainRaises, BackendTypeOK
  <1> QED BY <1>1, <1>2 DEF Raise, DrainRaises, Answer, BackendTypeOK, Replies

LEMMA HandlerTypes ==
    ASSUME BackendTypeOK, NEW s \in Sessions, HandlerStep(s)
    PROVE  BackendTypeOK'
  <1> USE OfSession, StationNames
  <1>1. CASE Register(s)
    <2>1. RestTypes'
      BY <1>1, RestKept DEF Register
    <2>2. CASE Fatal(s)
      BY <2>1, <2>2, FatalTypes
    <2>3. CASE /\ active' = s /\ Goto(Handler(s), "prepare")
               /\ UNCHANGED <<closed, drain, created, told, socket, reply, failed>>
      <3>1. at' \in [Processes -> Stations]
        BY <2>3, GotoTypes DEF BackendTypeOK
      <3> QED BY <2>1, <2>3, <3>1 DEF BackendTypeOK, RestTypes
    <2> QED BY <1>1, <2>2, <2>3 DEF Register
  <1>2. CASE Prepare(s)
    <2>1. UNCHANGED task => RestTypes'
      BY <1>2, RestKept DEF Prepare
    <2>2. UNCHANGED task
      BY <1>2 DEF Prepare, SendFails, CloseBegins
    <2>3. CASE SendFails(s) \/ Fatal(s)
      BY <2>1, <2>2, <2>3, FatalTypes, SendFailsTypes
    <2>4. CASE /\ created' = created \cup {s} /\ Goto(Handler(s), "receive")
               /\ UNCHANGED <<active, closed, drain, told, socket, reply, failed>>
      <3>1. at' \in [Processes -> Stations]
        BY <2>4, GotoTypes DEF BackendTypeOK
      <3> QED BY <2>1, <2>2, <2>4, <3>1 DEF BackendTypeOK, RestTypes
    <2> QED BY <1>2, <2>3, <2>4 DEF Prepare
  <1>3. CASE Receive(s)
    <2>1. RestTypes'
      <3>1. /\ inbox[s] > 0 /\ inbox' = [inbox EXCEPT ![s] = @ - 1]
            /\ UNCHANGED <<task, zombie>>
        BY <1>3 DEF Receive
      <3>2. inbox \in [Sessions -> Nat] /\ \A t \in Sessions : inbox[t] <= MaxInputs[t]
        BY DEF BackendTypeOK
      <3>3. inbox' \in [Sessions -> Nat] /\ \A t \in Sessions : inbox'[t] <= MaxInputs[t]
        BY <3>1, <3>2, InputsAssumption
      <3> QED BY <3>1, <3>3 DEF BackendTypeOK, RestTypes
    <2>2. CASE Fatal(s)
      BY <2>1, <2>2, FatalTypes
    <2>3. CASE /\ Goto(Handler(s), "wait") \/ Goto(Handler(s), "step")
               /\ UNCHANGED <<active, closed, drain, created, told, socket, reply, failed>>
      BY <2>1, <2>3, MoveTypes DEF PushStations
    <2> QED BY <1>3, <2>2, <2>3 DEF Receive
  <1>4. CASE Disconnected(s)
    <2>1. RestTypes' /\ reply' \in [Sessions -> Replies]
      BY <1>4, RestKept DEF Disconnected, CloseBegins, BackendTypeOK, Replies
    <2> QED BY <1>4, <2>1, CloseBeginsTypes DEF Disconnected
  <1>5. CASE WaitFinalize(s)
    <2>1. RestTypes'
      BY <1>5 DEF WaitFinalize, BackendTypeOK, RestTypes
    <2>2. CASE /\ Raise(Handler(s)) /\ socket' = [socket EXCEPT ![s] = "closed"]
               /\ UNCHANGED <<active, closed, drain, created, told>>
      <3>1. /\ at' \in [Processes -> Stations]
            /\ failed' \subseteq Sessions /\ reply' \in [Sessions -> Replies]
        BY <2>2, RaiseTypes
      <3>2. socket' \in [Sessions -> {"none", "open", "closed"}]
        BY <2>2 DEF BackendTypeOK
      <3> QED BY <2>1, <2>2, <3>1, <3>2 DEF BackendTypeOK, RestTypes, Replies
    <2> QED BY <1>5, <2>1, <2>2, FatalTypes, MoveTypes DEF WaitFinalize, PushStations
  <1>6. CASE DuplexStep(s) \/ TurnStep(s)
    <2>1. RestTypes'
      BY <1>6, RestKept DEF DuplexStep, TurnStep, StepReturns
    <2> QED BY <1>6, <2>1, FatalTypes, MoveTypes
            DEF DuplexStep, TurnStep, StepReturns, PushStations
  <1>7. CASE SendUnit(s)
    <2>1. RestTypes'
      BY <1>7 DEF SendUnit, SendFails, CloseBegins, BackendTypeOK, RestTypes
    <2> QED BY <1>7, <2>1, SendFailsTypes, MoveTypes, NextMessageTypes DEF SendUnit
  <1>8. CASE SendAnswer(s)
    <2>1. RestTypes'
      BY <1>8 DEF SendAnswer, SendFails, CloseBegins, BackendTypeOK, RestTypes
    <2> QED BY <1>8, <2>1, SendFailsTypes, MoveTypes, NextMessageTypes DEF SendAnswer
  <1>9. CASE Stream(s)
    <2>1. RestTypes'
      BY <1>9 DEF Stream, SendFails, CloseBegins, BackendTypeOK, RestTypes
    <2> QED BY <1>9, <2>1, FatalTypes, SendFailsTypes, MoveTypes, NextMessageTypes
            DEF Stream, PushStations
  <1>10. CASE Linger(s)
    <2>1. RestTypes'
      BY <1>10 DEF Linger, SendFails, CloseBegins, BackendTypeOK, RestTypes
    <2> QED BY <1>10, <2>1, SendFailsTypes DEF Linger
  <1> QED BY <1>1, <1>2, <1>3, <1>4, <1>5, <1>6, <1>7, <1>8, <1>9, <1>10 DEF HandlerStep

Drains == {"idle", "waiting", "ok", "failed", "cancelled"}

LEMMA DrainTypes ==
    ASSUME BackendTypeOK, NEW p \in Processes, Drain(p)
    PROVE  BackendTypeOK'
  <1>1. /\ at' \in [Processes -> Stations]
        /\ failed' \subseteq Sessions /\ reply' \in [Sessions -> Replies]
    <2>1. CASE DrainRaises(p) \/ Raise(p)
      BY <2>1, RaiseTypes
    <2>2. CASE Goto(p, AfterDrain(p)) /\ UNCHANGED <<reply, failed>>
      <3>1. AfterDrain(p) \in Stations
        BY DEF AfterDrain, Drain, Stations, CloseStations, FatalStations
      <3> QED BY <2>2, <3>1, GotoTypes DEF BackendTypeOK, Replies
    <2>3. CASE UNCHANGED <<at, reply, failed>>
      BY <2>3 DEF BackendTypeOK, Replies
    <2> QED BY <2>1, <2>2, <2>3 DEF Drain
  <1>2. /\ drain' \in [Processes -> Drains]
        /\ task' \in [Sessions -> {"none", "running", "returned", "failed", "cancelled"}]
        /\ zombie' = zombie
    BY ProcessOf DEF Drain, BackendTypeOK, Drains
  <1>3. UNCHANGED <<active, closed, created, told, socket, inbox>>
    BY DEF Drain
  <1> QED BY <1>1, <1>2, <1>3 DEF BackendTypeOK, Replies, Drains

LEMMA TimeOutTypes ==
    ASSUME BackendTypeOK, NEW p \in Processes, DrainTimesOut(p)
    PROVE  BackendTypeOK'
  <1>1. /\ at' \in [Processes -> Stations]
        /\ failed' \subseteq Sessions /\ reply' \in [Sessions -> Replies]
    BY RaiseTypes DEF DrainTimesOut
  <1>2. drain' \in [Processes -> Drains]
    BY DEF DrainTimesOut, BackendTypeOK, Drains
  <1>3. /\ task' \in [Sessions -> {"none", "running", "returned", "failed", "cancelled"}]
        /\ zombie' \subseteq Sessions
        /\ UNCHANGED <<active, closed, created, told, socket, inbox>>
    BY ProcessOf DEF DrainTimesOut, BackendTypeOK
  <1> QED BY <1>1, <1>2, <1>3 DEF BackendTypeOK, Replies, Drains

LEMMA CloseTypes ==
    ASSUME BackendTypeOK, NEW p \in Processes, CloseStep(p)
    PROVE  BackendTypeOK'
  <1> USE ProcessOf DEF CloseStations, FatalStations, Resting
  <1>1. CASE Drain(p)
    BY <1>1, DrainTypes
  <1>2. CASE Stop(p)
    BY <1>2, StationNames, GotoTypes DEF Stop, BackendTypeOK
  <1>3. CASE Cleanup(p)
    <2>1. /\ at' \in [Processes -> Stations]
          /\ failed' \subseteq Sessions /\ reply' \in [Sessions -> Replies]
      <3>1. CASE Raise(p)
        BY <3>1, RaiseTypes
      <3>2. CASE /\ Goto(p, IF at[p] = "cleanup" THEN "notify" ELSE "forget")
                 /\ UNCHANGED <<reply, failed>>
        BY <3>2, StationNames, GotoTypes DEF BackendTypeOK, Replies
      <3> QED BY <1>3, <3>1, <3>2 DEF Cleanup
    <2> QED BY <1>3, <2>1 DEF Cleanup, BackendTypeOK, Replies
  <1>4. CASE Notify(p)
    <2>1. at' \in [Processes -> Stations]
      BY <1>4, StationNames, GotoTypes DEF Notify, BackendTypeOK
    <2> QED BY <1>4, <2>1 DEF Notify, BackendTypeOK
  <1>5. CASE Forget(p)
    <2>1. at' \in [Processes -> Stations]
      BY <1>5, StationNames, GotoTypes DEF Forget, BackendTypeOK
    <2> QED BY <1>5, <2>1 DEF Forget, Answer, BackendTypeOK
  <1> QED BY <1>1, <1>2, <1>3, <1>4, <1>5 DEF CloseStep

LEMMA ServerTypes ==
    ASSUME BackendTypeOK, ServerStep \/ TimeOut
    PROVE  BackendTypeOK'
  <1>1. ASSUME NEW s \in Sessions, FinalizeEnds(s) PROVE BackendTypeOK'
    <2>1. drain' \in [Processes -> Drains]
      BY <1>1 DEF FinalizeEnds, BackendTypeOK, Drains
    <2> QED BY <1>1, <2>1 DEF FinalizeEnds, BackendTypeOK, Drains
  <1>2. ASSUME NEW s \in Sessions, ZombieEnds(s) PROVE BackendTypeOK'
    BY <1>2 DEF ZombieEnds, BackendTypeOK
  <1>3. ASSUME NEW s \in Sessions, CloseSession(s) PROVE BackendTypeOK'
    <2>1. reply' \in [Sessions -> Replies]
      BY <1>3 DEF CloseSession, BackendTypeOK, Replies
    <2>2. CASE CloseBegins(Closer(s))
      <3>1. RestTypes'
        BY <1>3, <2>2, RestKept DEF CloseSession, CloseBegins
      <3> QED BY <2>1, <2>2, <3>1, CloseBeginsTypes, OfSession
    <2>3. CASE UNCHANGED <<at, closed, failed, active, task, drain, created, told, socket>>
      BY <1>3, <2>1, <2>3 DEF CloseSession, BackendTypeOK, Replies
    <2> QED BY <1>3, <2>2, <2>3 DEF CloseSession
  <1> QED
    BY <1>1, <1>2, <1>3, HandlerTypes, CloseTypes, TimeOutTypes DEF ServerStep, TimeOut

\* The server only takes inputs from its inboxes.
LEMMA InboxShrinks ==
    ASSUME BackendTypeOK, ServerStep \/ TimeOut
    PROVE  \A s \in Sessions : inbox'[s] <= inbox[s]
  <1>1. inbox \in [Sessions -> Nat]
    BY DEF BackendTypeOK
  <1>2. ASSUME NEW s \in Sessions, Receive(s)
        PROVE  \A t \in Sessions : inbox'[t] <= inbox[t]
    BY <1>1, <1>2 DEF Receive
  <1>3. ASSUME NEW s \in Sessions, HandlerStep(s), ~Receive(s) PROVE inbox' = inbox
    BY <1>3 DEF HandlerStep, Register, Prepare, Disconnected, WaitFinalize, DuplexStep,
                TurnStep, StepReturns, SendUnit, SendAnswer, Stream, Linger
  <1>4. ASSUME NEW s \in Sessions, FinalizeEnds(s) \/ ZombieEnds(s) \/ CloseSession(s)
        PROVE  inbox' = inbox
    BY <1>4 DEF FinalizeEnds, ZombieEnds, CloseSession
  <1>5. ASSUME NEW p \in Processes, CloseStep(p) \/ DrainTimesOut(p) PROVE inbox' = inbox
    BY <1>5 DEF CloseStep, Drain, Stop, Cleanup, Notify, Forget, DrainTimesOut
  <1>6. inbox' = inbox => \A s \in Sessions : inbox'[s] <= inbox[s]
    BY <1>1
  <1> QED BY <1>2, <1>3, <1>4, <1>5, <1>6 DEF ServerStep, TimeOut

\* An inbox holds no more than the client has sent, which Leave forgets.
Counted(s) == bridge[s] # "left" => inbox[s] <= pushes[s]

TypeInv == TypeOK /\ \A s \in Sessions : Counted(s)

BridgeTypeOK ==
    /\ status \in {"idle", "busy"}
    /\ bridge \in [Sessions -> {"away", "accepting", "greeting", "init", "relay",
                                "asking", "cleaning", "left"}]
    /\ pushes \in [Sessions -> Nat]
    /\ \A s \in Sessions : pushes[s] <= MaxInputs[s]

LEMMA TypeOKIs == TypeOK <=> BackendTypeOK /\ BridgeTypeOK
  BY DEF TypeOK, BridgeTypeOK

\* Except for Push, a bridge sends no input.
LEMMA BridgeMoves ==
    ASSUME BridgeTypeOK, NEW s \in Sessions,
           \/ BridgeStep(s) \/ Arrive(s) \/ Greet(s) \/ TurnBack(s)
           \/ AskClose(s) \/ ClientLeaves(s)
    PROVE  /\ BridgeTypeOK' /\ inbox' = inbox
           /\ \A t \in Sessions : \/ bridge'[t] = "left"
                                  \/ bridge[t] # "left" /\ pushes'[t] = pushes[t]
  <1>1. CASE Leave(s) /\ inbox' = inbox /\ bridge[s] # "left"
    <2>1. /\ pushes' \in [Sessions -> Nat] /\ pushes'[s] = 0
          /\ \A t \in Sessions \ {s} : pushes'[t] = pushes[t] /\ bridge'[t] = bridge[t]
          /\ bridge'[s] = "left"
      BY <1>1 DEF Leave, To, BridgeTypeOK
    <2>2. MaxInputs[s] \in Nat
      BY InputsAssumption
    <2>3. \A t \in Sessions : pushes'[t] <= MaxInputs[t]
      BY <2>1, <2>2 DEF BridgeTypeOK
    <2> QED BY <1>1, <2>1, <2>3 DEF Leave, To, BridgeTypeOK
  <1>2. CASE /\ \/ To(s, "accepting") \/ To(s, "greeting") \/ To(s, "init")
                \/ To(s, "relay") \/ To(s, "asking") \/ To(s, "cleaning")
             /\ status' \in {status, "busy"}
             /\ inbox' = inbox /\ pushes' = pushes /\ bridge[s] # "left"
    BY <1>2 DEF To, BridgeTypeOK
  <1>3. CASE TurnBack(s) \/ InitFails(s) \/ HearClosed(s) \/ CloseReturns(s)
    BY <1>1, <1>3 DEF TurnBack, InitFails, HearClosed, CloseReturns, server
  <1>4. CASE CloseRaises(s)
    BY <1>1, <1>2, <1>4 DEF CloseRaises, PostClose
  <1>5. CASE AcceptClient(s) \/ Greet(s) \/ Created(s) \/ HearDrop(s)
    BY <1>2, <1>5 DEF AcceptClient, Greet, Accept, Created, HearDrop, PostClose, server
  <1>6. CASE Arrive(s) \/ AskClose(s) \/ ClientLeaves(s)
    BY <1>2, <1>6 DEF Arrive, AskClose, ClientLeaves, PostClose, server
  <1> QED BY <1>3, <1>4, <1>5, <1>6 DEF BridgeStep

LEMMA BridgeTypes ==
    ASSUME BackendTypeOK, NEW s \in Sessions,
           \/ BridgeStep(s) \/ Arrive(s) \/ Greet(s) \/ TurnBack(s)
           \/ AskClose(s) \/ ClientLeaves(s)
           \/ GiveUp(s) \/ Drop(s)
    PROVE  BackendTypeOK'
  <1>1. CASE Greet(s)
    <2>1. at' \in [Processes -> Stations]
      BY <1>1, OfSession, StationNames, GotoTypes DEF Greet, Accept, BackendTypeOK
    <2> QED BY <1>1, <2>1 DEF Greet, Accept, BackendTypeOK
  <1>2. CASE Created(s) \/ InitFails(s) \/ Arrive(s) \/ AcceptClient(s) \/ TurnBack(s)
    BY <1>2
    DEF Created, InitFails, Arrive, AcceptClient, TurnBack, server, BackendTypeOK
  <1>3. CASE PostClose(s)
    BY <1>3 DEF PostClose, BackendTypeOK
  <1>4. CASE HearClosed(s) \/ CloseReturns(s) \/ GiveUp(s) \/ Drop(s)
    BY <1>4 DEF HearClosed, CloseReturns, GiveUp, Drop, BackendTypeOK
  <1>5. CASE CloseRaises(s) /\ ~PostClose(s)
    BY <1>5 DEF CloseRaises, BackendTypeOK
  <1> QED
    BY <1>1, <1>2, <1>3, <1>4, <1>5
    DEF BridgeStep, HearDrop, AskClose, ClientLeaves

LEMMA TypeStep == TypeInv /\ [Next]_vars => TypeInv'
  <1> SUFFICES ASSUME TypeInv, [Next]_vars PROVE TypeInv'
    OBVIOUS
  <1>0. BackendTypeOK /\ BridgeTypeOK /\ \A s \in Sessions : Counted(s)
    BY TypeOKIs DEF TypeInv
  <1>1. /\ inbox \in [Sessions -> Nat] /\ \A s \in Sessions : inbox[s] <= MaxInputs[s]
        /\ pushes \in [Sessions -> Nat] /\ \A s \in Sessions : MaxInputs[s] \in Nat
    BY <1>0, InputsAssumption DEF BackendTypeOK, BridgeTypeOK
  <1>2. ASSUME ServerStep \/ TimeOut, UNCHANGED bridgeVars PROVE TypeInv'
    <2>1. BackendTypeOK'
      BY <1>0, <1>2, ServerTypes
    <2>2. BridgeTypeOK'
      BY <1>0, <1>2 DEF BridgeTypeOK, bridgeVars
    <2>3. \A s \in Sessions : inbox'[s] <= inbox[s] /\ inbox'[s] \in Nat
      BY <1>0, <1>2, <2>1, InboxShrinks DEF BackendTypeOK
    <2>4. \A s \in Sessions : Counted(s)'
      BY <1>0, <1>1, <1>2, <2>3 DEF Counted, bridgeVars
    <2> QED BY <2>1, <2>2, <2>4 DEF TypeInv, TypeOK, BridgeTypeOK
  <1>3. ASSUME NEW s \in Sessions,
               \/ BridgeStep(s) \/ Arrive(s) \/ Greet(s) \/ TurnBack(s)
               \/ AskClose(s) \/ ClientLeaves(s)
        PROVE  TypeInv'
    <2>1. BackendTypeOK'
      BY <1>0, <1>3, BridgeTypes
    <2>2. /\ BridgeTypeOK' /\ inbox' = inbox
          /\ \A t \in Sessions : \/ bridge'[t] = "left"
                                 \/ bridge[t] # "left" /\ pushes'[t] = pushes[t]
      BY <1>0, <1>3, BridgeMoves
    <2>3. \A t \in Sessions : Counted(t)'
      BY <1>0, <2>2 DEF Counted
    <2> QED BY <2>1, <2>2, <2>3 DEF TypeInv, TypeOK, BridgeTypeOK
  <1>4. ASSUME NEW s \in Sessions, GiveUp(s) \/ Drop(s) PROVE TypeInv'
    <2>1. BackendTypeOK'
      BY <1>0, <1>4, BridgeTypes
    <2>2. UNCHANGED <<inbox, bridgeVars>>
      BY <1>4 DEF GiveUp, Drop, bridgeVars
    <2>3. BridgeTypeOK' /\ \A t \in Sessions : Counted(t)'
      BY <1>0, <2>2 DEF BridgeTypeOK, Counted, bridgeVars
    <2> QED BY <2>1, <2>3 DEF TypeInv, TypeOK, BridgeTypeOK
  <1>5. ASSUME NEW s \in Sessions, Push(s) PROVE TypeInv'
    <2>1. /\ bridge[s] = "relay" /\ pushes[s] < MaxInputs[s]
          /\ pushes' = [pushes EXCEPT ![s] = @ + 1] /\ inbox' = [inbox EXCEPT ![s] = @ + 1]
          /\ UNCHANGED <<active, at, closed, task, drain, zombie, created, told, socket,
                         reply, failed, status, bridge>>
      BY <1>5 DEF Push
    <2>2. inbox[s] <= pushes[s]
      BY <1>0, <2>1 DEF Counted
    <2>3. /\ inbox' \in [Sessions -> Nat] /\ pushes' \in [Sessions -> Nat]
          /\ inbox'[s] = inbox[s] + 1 /\ pushes'[s] = pushes[s] + 1
          /\ \A t \in Sessions \ {s} : inbox'[t] = inbox[t] /\ pushes'[t] = pushes[t]
      BY <1>1, <2>1
    <2>4. pushes'[s] <= MaxInputs[s] /\ inbox'[s] <= pushes'[s] /\ inbox'[s] <= MaxInputs[s]
      BY <1>1, <2>1, <2>2, <2>3
    <2>5. BackendTypeOK'
      BY <1>0, <2>1, <2>3, <2>4 DEF BackendTypeOK
    <2>6. BridgeTypeOK'
      BY <1>0, <2>1, <2>3, <2>4 DEF BridgeTypeOK
    <2>7. \A t \in Sessions : Counted(t)'
      BY <1>0, <2>1, <2>3, <2>4 DEF Counted
    <2> QED BY <2>5, <2>6, <2>7 DEF TypeInv, TypeOK, BridgeTypeOK
  <1>6. CASE UNCHANGED vars
    <2>1. BackendTypeOK' /\ BridgeTypeOK'
      BY <1>0, <1>6 DEF vars, server, bridgeVars, BackendTypeOK, BridgeTypeOK
    <2>2. \A t \in Sessions : Counted(t)'
      BY <1>0, <1>6 DEF vars, server, bridgeVars, Counted
    <2> QED BY <2>1, <2>2 DEF TypeInv, TypeOK, BridgeTypeOK
  <1> QED BY <1>2, <1>3, <1>4, <1>5, <1>6 DEF Next, Progress

\* The state of the backend and of the bridges is well formed; an inbox holds no
\* more than the client has sent.  (BackendServer, RemoteBackendSession, worker.state)
THEOREM BridgeTypesCorrect == Spec => []TypeOK
  <1>1. BridgeInit => TypeInv
    <2> SUFFICES ASSUME BridgeInit PROVE TypeInv
      OBVIOUS
    <2>1. BackendTypeOK
      BY InputsAssumption DEF BridgeInit, Init, BackendTypeOK, Stations, Resting
    <2>2. BridgeTypeOK
      BY InputsAssumption DEF BridgeInit, BridgeTypeOK
    <2>3. \A s \in Sessions : Counted(s)
      BY DEF BridgeInit, Init, Counted
    <2> QED BY <2>1, <2>2, <2>3, TypeOKIs DEF TypeInv
  <1>2. TypeInv => TypeOK
    BY DEF TypeInv
  <1> QED BY <1>1, <1>2, TypeStep, PTL DEF Spec

-----------------------------------------------------------------------------
(* What holds of each session. *)

Serving == {"prepare", "receive"} \cup PushStations
DrainStations == {"drain", "drainAgain", "fatalDrain"}

\* A session that is not closed owns the model while it is served; what a thread of
\* it may still do, and where the handler can be meanwhile.
SessionOK(s) ==
    /\ at[Closer(s)] \in CloseStations \cup Resting
    /\ at[Closer(s)] # "none" => s \in closed
    /\ at[Handler(s)] \in {"none", "register"} \cup Serving \/ s \in closed
    /\ s \notin closed /\ (at[Handler(s)] \in Serving \/ task[s] = "running")
         => active = s
    /\ task[s] = "running" =>
         s \in Duplex /\ ~InCall(s) /\ at[Handler(s)] \notin {"none", "register", "send"}
    /\ at[Handler(s)] \in {"stream", "linger"} => s \notin Duplex
    /\ task[s] = "cancelled" => s \in closed
    /\ s \in zombie /\ s \in Duplex =>
         s \in failed \/ at[Handler(s)] \in {"forget", "returned"}
    /\ drain[Handler(s)] # "idle" => at[Handler(s)] \in DrainStations
    /\ drain[Closer(s)] # "idle" => at[Closer(s)] \in DrainStations

SafetyInv == \A s \in Sessions : SessionOK(s)

Same(t) ==
    /\ at'[Handler(t)] = at[Handler(t)] /\ at'[Closer(t)] = at[Closer(t)]
    /\ drain'[Handler(t)] = drain[Handler(t)] /\ drain'[Closer(t)] = drain[Closer(t)]
    /\ task'[t] = task[t]
    /\ t \in closed' <=> t \in closed
    /\ t \in zombie' <=> t \in zombie
    /\ t \in failed' <=> t \in failed

\* The step leaves every session but s alone.
Only(s) ==
    \A t \in Sessions \ {s} : Same(t) /\ (active' = active \/ active # t)

LEMMA SameKept ==
    ASSUME NEW t \in Sessions, SessionOK(t), Same(t), active' = active \/ active # t
    PROVE  SessionOK(t)'
  BY DEF SessionOK, Same, InCall

LEMMA OnlyKept ==
    ASSUME NEW s \in Sessions, SafetyInv, Only(s), SessionOK(s)'
    PROVE  SafetyInv'
  <1>1. ASSUME NEW t \in Sessions, t # s PROVE SessionOK(t)'
    BY <1>1, SameKept DEF SafetyInv, Only
  <1> QED BY <1>1 DEF SafetyInv

LEMMA HandlerGoes ==
    ASSUME BackendTypeOK, NEW s \in Sessions, NEW station, Goto(Handler(s), station)
    PROVE  /\ at'[Handler(s)] = station /\ at'[Closer(s)] = at[Closer(s)]
           /\ \A t \in Sessions \ {s} : /\ at'[Handler(t)] = at[Handler(t)]
                                        /\ at'[Closer(t)] = at[Closer(t)]
  BY DEF BackendTypeOK, Goto, Handler, Closer, Processes

LEMMA CloserGoes ==
    ASSUME BackendTypeOK, NEW s \in Sessions, NEW station, Goto(Closer(s), station)
    PROVE  /\ at'[Closer(s)] = station /\ at'[Handler(s)] = at[Handler(s)]
           /\ \A t \in Sessions \ {s} : /\ at'[Handler(t)] = at[Handler(t)]
                                        /\ at'[Closer(t)] = at[Closer(t)]
  BY DEF BackendTypeOK, Goto, Handler, Closer, Processes

\* An operation of the handler ends badly.
LEMMA EndsOK ==
    ASSUME BackendTypeOK, NEW s \in Sessions, SessionOK(s),
           Fatal(s) \/ CloseBegins(Handler(s)),
           at[Handler(s)] \in {"register"} \cup Serving,
           task' = task,
           zombie' = zombie \/ (zombie' = zombie \cup {s} /\ s \notin Duplex)
    PROVE  Only(s) /\ SessionOK(s)'
  <1>1. /\ at'[Handler(s)] \in {"fatalStop", "forget", "returned", "drain"}
        /\ at'[Closer(s)] = at[Closer(s)]
        /\ \A t \in Sessions \ {s} : /\ at'[Handler(t)] = at[Handler(t)]
                                     /\ at'[Closer(t)] = at[Closer(t)]
    BY HandlerGoes DEF Fatal, CloseBegins
  <1>2. closed' = closed \cup {s} /\ UNCHANGED <<active, drain, failed>>
    BY OfSession DEF Fatal, CloseBegins
  <1>3. drain[Handler(s)] = "idle"
    BY DEF SessionOK, Serving, PushStations, DrainStations
  <1>4. s \in zombie /\ s \in Duplex => s \in failed
    BY DEF SessionOK, Serving, PushStations
  <1>5. Only(s)
    BY <1>1, <1>2 DEF Only, Same
  <1>6. SessionOK(s)'
    BY <1>1, <1>2, <1>3, <1>4 DEF SessionOK, InCall
  <1> QED BY <1>5, <1>6

\* An operation of the handler goes on.
LEMMA GoesOK ==
    ASSUME BackendTypeOK, NEW s \in Sessions, SessionOK(s),
           NEW station, Goto(Handler(s), station),
           at[Handler(s)] \in {"none", "register"} \cup Serving,
           station \in {"register"} \cup Serving \/ (station = "returned" /\ s \in closed),
           station \in Serving /\ s \notin closed => active' = s,
           active' = active \/ active \notin Sessions,
           \A t \in Sessions \ {s} : task'[t] = task[t],
           task'[s] = "running" =>
             /\ s \in Duplex
             /\ station \notin {"register", "prepare", "step", "stream", "linger", "send"},
           task'[s] = "cancelled" => task[s] = "cancelled",
           station \in {"stream", "linger"} => s \notin Duplex,
           UNCHANGED <<closed, drain, zombie, failed>>
    PROVE  Only(s) /\ SessionOK(s)'
  <1>1. /\ at'[Handler(s)] = station /\ at'[Closer(s)] = at[Closer(s)]
        /\ \A t \in Sessions \ {s} : /\ at'[Handler(t)] = at[Handler(t)]
                                     /\ at'[Closer(t)] = at[Closer(t)]
    BY HandlerGoes
  <1>2. drain[Handler(s)] = "idle"
    BY DEF SessionOK, Serving, PushStations, DrainStations
  <1>3. s \in zombie /\ s \in Duplex => s \in failed
    BY DEF SessionOK, Serving, PushStations
  <1>4. Only(s)
    BY <1>1 DEF Only, Same
  <1>5. task'[s] = "running" /\ s \notin closed => active' = s
    BY DEF SessionOK, Serving, PushStations
  <1>6. SessionOK(s)'
    <2>1. s \in closed' <=> s \in closed
      OBVIOUS
    <2>2. at'[Handler(s)] \in {"none", "register"} \cup Serving \/ s \in closed'
      BY <1>1, <2>1
    <2>3. s \notin closed' /\ (at'[Handler(s)] \in Serving \/ task'[s] = "running")
             => active' = s
      BY <1>1, <1>5, <2>1
    <2>4. task'[s] = "running" =>
            /\ s \in Duplex
            /\ at'[Handler(s)] \notin {"none", "register", "prepare", "step", "stream",
                                     "linger", "send"}
      BY <1>1 DEF Serving, PushStations
    <2> QED BY <1>1, <1>2, <1>3, <2>1, <2>2, <2>3, <2>4 DEF SessionOK, InCall
  <1> QED BY <1>4, <1>6

LEMMA HandlerOK ==
    ASSUME BackendTypeOK, NEW s \in Sessions, SessionOK(s), HandlerStep(s)
    PROVE  Only(s) /\ SessionOK(s)'
  <1> USE DEF Serving, PushStations
  <1> DEFINE Here == at[Handler(s)]
  <1>0. /\ task[s] = "running" =>
             /\ s \in Duplex
             /\ at[Handler(s)] \notin {"none", "register", "prepare", "step", "stream",
                                    "linger", "send"}
        /\ Here \in {"stream", "linger"} => s \notin Duplex
        /\ s \notin closed /\ Here \in Serving => active = s
        /\ task \in [Sessions -> {"none", "running", "returned", "failed", "cancelled"}]
    BY DEF SessionOK, InCall, BackendTypeOK
  <1>1. CASE Register(s)
    <2>1. Here = "register" /\ UNCHANGED <<task, zombie>>
      BY <1>1 DEF Register
    <2>2. CASE Fatal(s)
      BY <2>1, <2>2, EndsOK
    <2>3. CASE ~Fatal(s)
      <3>1. /\ active = NoOne /\ active' = s /\ Goto(Handler(s), "prepare")
            /\ UNCHANGED <<closed, drain, zombie, failed>>
        BY <1>1, <2>3 DEF Register
      <3> QED BY <1>0, <2>1, <3>1, NoOneAssumption, GoesOK
    <2> QED BY <2>2, <2>3
  <1>2. CASE Prepare(s)
    <2>1. Here = "prepare" /\ UNCHANGED <<task, zombie>>
      BY <1>2 DEF Prepare, SendFails, CloseBegins
    <2>2. CASE Fatal(s) \/ CloseBegins(Handler(s))
      BY <2>1, <2>2, EndsOK
    <2>3. CASE ~(Fatal(s) \/ CloseBegins(Handler(s)))
      <3>1. /\ Goto(Handler(s), "receive")
            /\ UNCHANGED <<active, closed, drain, zombie, failed>>
        BY <1>2, <2>3 DEF Prepare, SendFails
      <3> QED BY <1>0, <2>1, <3>1, GoesOK
    <2> QED BY <2>2, <2>3
  <1>3. CASE Receive(s)
    <2>1. Here = "receive" /\ UNCHANGED <<task, zombie>>
      BY <1>3 DEF Receive
    <2>2. CASE Fatal(s)
      BY <2>1, <2>2, EndsOK
    <2>3. CASE ~Fatal(s)
      <3>1. /\ s \notin closed
            /\ Goto(Handler(s), IF s \in Duplex THEN "wait" ELSE "step")
            /\ UNCHANGED <<active, closed, drain, failed>>
        BY <1>3, <2>3 DEF Receive
      <3>2. CASE s \in Duplex
        <4>1. Goto(Handler(s), "wait")
          BY <3>1, <3>2
        <4> QED BY <1>0, <2>1, <3>1, <3>2, <4>1, GoesOK
      <3>3. CASE s \notin Duplex
        <4>1. Goto(Handler(s), "step")
          BY <3>1, <3>3
        <4> QED BY <1>0, <2>1, <3>1, <3>3, <4>1, GoesOK
      <3> QED BY <3>2, <3>3
    <2> QED BY <2>2, <2>3
  <1>4. CASE Disconnected(s)
    BY <1>4, EndsOK DEF Disconnected, CloseBegins
  <1>5. CASE WaitFinalize(s)
    <2>1. Here = "wait" /\ task[s] # "running" /\ UNCHANGED zombie
      BY <1>5 DEF WaitFinalize
    <2>2. CASE Fatal(s) /\ UNCHANGED task
      BY <2>1, <2>2, EndsOK
    <2>3. CASE /\ task' = [task EXCEPT ![s] = "none"] /\ Goto(Handler(s), "step")
               /\ UNCHANGED <<active, closed, drain, failed>>
      <3>1. task'[s] = "none" /\ \A t \in Sessions \ {s} : task'[t] = task[t]
        BY <1>0, <2>3
      <3> QED BY <1>0, <2>1, <2>3, <3>1, GoesOK
    <2>4. CASE /\ task[s] = "cancelled" /\ task' = [task EXCEPT ![s] = "none"]
               /\ Goto(Handler(s), "raised") /\ failed' = failed \cup {s}
               /\ UNCHANGED <<active, closed, drain>>
      <3>1. task'[s] = "none" /\ \A t \in Sessions \ {s} : task'[t] = task[t]
        BY <1>0, <2>4
      <3>2. /\ at'[Handler(s)] = "raised" /\ at'[Closer(s)] = at[Closer(s)]
            /\ \A t \in Sessions \ {s} : /\ at'[Handler(t)] = at[Handler(t)]
                                         /\ at'[Closer(t)] = at[Closer(t)]
        BY <2>4, HandlerGoes
      <3>3. drain[Handler(s)] = "idle" /\ s \in closed
        BY <2>1, <2>4 DEF SessionOK, DrainStations
      <3>4. Only(s)
        BY <2>1, <2>4, <3>1, <3>2 DEF Only, Same
      <3>5. SessionOK(s)'
        BY <2>1, <2>4, <3>1, <3>2, <3>3 DEF SessionOK, InCall
      <3> QED BY <3>4, <3>5
    <2> QED BY <1>5, <2>2, <2>3, <2>4, OfSession DEF WaitFinalize, Raise
  <1>6. CASE DuplexStep(s) \/ TurnStep(s)
    <2>1. Here = "step" /\ UNCHANGED <<task, zombie>>
      BY <1>6 DEF DuplexStep, TurnStep, StepReturns
    <2>2. CASE Fatal(s)
      BY <2>1, <2>2, EndsOK
    <2>3. CASE ~Fatal(s)
      <3>1. PICK station \in {"send", "stream"} :
              /\ Goto(Handler(s), station)
              /\ station = "stream" => s \notin Duplex
              /\ UNCHANGED <<active, closed, drain, failed>>
        BY <1>6, <2>3 DEF DuplexStep, TurnStep, StepReturns
      <3> QED BY <1>0, <2>1, <3>1, GoesOK
    <2> QED BY <2>2, <2>3
  <1>7. CASE SendUnit(s)
    <2>1. Here = "send" /\ s \in Duplex /\ UNCHANGED zombie
      BY <1>7 DEF SendUnit
    <2>2. CASE SendFails(s)
      <3>1. task' = task
        BY <2>2 DEF SendFails, CloseBegins
      <3> QED BY <2>1, <2>2, <3>1, EndsOK DEF SendFails
    <2>3. CASE ~SendFails(s)
      <3>1. /\ task' = [task EXCEPT ![s] = "running"] /\ NextMessage(s)
            /\ UNCHANGED <<active, closed, drain, failed>>
        BY <1>7, <2>3 DEF SendUnit
      <3>2. \A t \in Sessions \ {s} : task'[t] = task[t]
        BY <3>1
      <3>3. PICK station \in {"receive", "returned"} :
              Goto(Handler(s), station) /\ (station = "returned" => s \in closed)
        BY <3>1 DEF NextMessage
      <3> QED BY <1>0, <2>1, <3>1, <3>2, <3>3, GoesOK
    <2> QED BY <2>2, <2>3
  <1>8. CASE SendAnswer(s) \/ Stream(s)
    <2>1. Here \in {"send", "stream"} /\ s \notin Duplex /\ UNCHANGED <<task, zombie>>
      BY <1>0, <1>8 DEF SendAnswer, Stream, SendFails, CloseBegins
    <2>2. CASE Fatal(s) \/ CloseBegins(Handler(s))
      BY <2>1, <2>2, EndsOK
    <2>3. CASE ~(Fatal(s) \/ CloseBegins(Handler(s)))
      <3>1. /\ NextMessage(s) \/ Goto(Handler(s), "linger")
            /\ UNCHANGED <<active, closed, drain, failed>>
        BY <1>8, <2>3 DEF SendAnswer, Stream, SendFails
      <3>2. PICK station \in {"receive", "returned", "linger"} :
              Goto(Handler(s), station) /\ (station = "returned" => s \in closed)
        BY <3>1 DEF NextMessage
      <3> QED BY <1>0, <2>1, <3>1, <3>2, GoesOK
    <2> QED BY <2>2, <2>3
  <1>9. CASE Linger(s)
    <2>1. Here = "linger" /\ s \notin Duplex /\ task' = task
      BY <1>0, <1>9 DEF Linger, SendFails, CloseBegins
    <2> QED BY <1>9, <2>1, EndsOK DEF Linger, SendFails
  <1> QED
    BY <1>1, <1>2, <1>3, <1>4, <1>5, <1>6, <1>7, <1>8, <1>9 DEF HandlerStep

Ending == CloseStations \cup FatalStations

\* The other process of the session.
LEMMA ProcessGoes ==
    ASSUME BackendTypeOK, NEW p \in Processes, NEW station, Goto(p, station)
    PROVE  /\ at'[p] = station
           /\ \A q \in Processes : q # p => at'[q] = at[q]
  BY DEF BackendTypeOK, Goto

LEMMA ClosedSession ==
    ASSUME NEW p \in Processes, SessionOK(p[2]), at[p] \in Ending
    PROVE  p[2] \in closed /\ (at[p] \in FatalStations => p = Handler(p[2]))
  BY ProcessOf
  DEF SessionOK, Ending, CloseStations, FatalStations, Serving, PushStations, Resting

\* An operation that ends a session goes on, raises or comes to its end.
LEMMA EndingOK ==
    ASSUME BackendTypeOK, NEW p \in Processes, SessionOK(p[2]), at[p] \in Ending,
           NEW station \in Ending \cup {"returned", "raised"}, Goto(p, station),
           station \in FatalStations => at[p] \in FatalStations,
           at[p] = "forget" => station = "returned",
           active' = active \/ active = p[2],
           task' = task \/ task' = [task EXCEPT ![p[2]] = "none"],
           failed' = failed \/ failed' = failed \cup {p[2]},
           drain'[p] = "idle", \A q \in Processes : q # p => drain'[q] = drain[q],
           UNCHANGED <<closed, zombie>>
    PROVE  Only(p[2]) /\ SessionOK(p[2])'
  <1> DEFINE s == p[2]
  <1>1. /\ s \in Sessions /\ s \in closed /\ s \in closed'
        /\ at[p] \in FatalStations => p = Handler(s)
        /\ SessionOK(s)
        /\ s \in zombie' <=> s \in zombie
        /\ s \in failed => s \in failed'
    BY ProcessOf, ClosedSession
  <1>2. at'[p] = station /\ \A q \in Processes : q # p => at'[q] = at[q]
    BY ProcessGoes
  <1>3. task'[s] = "running" => task[s] = "running"
    BY <1>1 DEF BackendTypeOK
  <1>4. \A t \in Sessions \ {s} : task'[t] = task[t]
    BY DEF BackendTypeOK
  <1>5. Only(s)
    BY <1>1, <1>2, <1>4, OfSession, ProcessOf DEF Only, Same
  <1>6. ASSUME p = Handler(s) PROVE SessionOK(s)'
    <2>1. /\ at'[Handler(s)] = station /\ at'[Closer(s)] = at[Closer(s)]
          /\ drain'[Handler(s)] = "idle" /\ drain'[Closer(s)] = drain[Closer(s)]
      BY <1>1, <1>2, <1>6, OfSession
    <2>2. s \in zombie /\ s \in Duplex =>
            s \in failed' \/ station \in {"forget", "returned"}
      BY <1>6 DEF SessionOK, Ending, CloseStations, FatalStations
    <2>3. station \notin {"none", "register", "prepare", "step", "stream", "linger", "send"}
      BY DEF Ending, CloseStations, FatalStations
    <2> HIDE DEF s
    <2> QED BY <1>1, <1>3, <2>1, <2>2, <2>3 DEF SessionOK, InCall
  <1>7. ASSUME p = Closer(s) PROVE SessionOK(s)'
    <2>1. /\ at'[Closer(s)] = station /\ at'[Handler(s)] = at[Handler(s)]
          /\ drain'[Closer(s)] = "idle" /\ drain'[Handler(s)] = drain[Handler(s)]
      BY <1>1, <1>2, <1>7, OfSession
    <2>2. station \in CloseStations \cup Resting
      BY <1>1, <1>7, OfSession DEF Ending, Resting
    <2> HIDE DEF s
    <2> QED BY <1>1, <1>3, <2>1, <2>2 DEF SessionOK, InCall
  <1> QED BY <1>5, <1>6, <1>7, ProcessOf

\* What an exception in _drain_finalize leads to.
LEMMA RaiseGoes ==
    ASSUME NEW p \in Processes, Raise(p) \/ DrainRaises(p), at[p] \in DrainStations
    PROVE  \E station \in {"forget", "raised"} :
             /\ Goto(p, station)
             /\ station = "raised" => failed' = failed \cup {p[2]}
             /\ station = "forget" => at[p] = "fatalDrain" /\ failed' = failed
  BY DEF Raise, DrainRaises, DrainStations

LEMMA DrainOK ==
    ASSUME BackendTypeOK, NEW p \in Processes, SessionOK(p[2]), Drain(p)
    PROVE  Only(p[2]) /\ SessionOK(p[2])'
  <1> USE DEF Ending, CloseStations, FatalStations
  <1>1. /\ at[p] \in {"drain", "drainAgain", "fatalDrain"}
        /\ UNCHANGED <<active, closed, zombie>>
        /\ drain \in [Processes -> Drains]
    BY DEF Drain, BackendTypeOK, Drains
  <1>2. CASE drain' = [drain EXCEPT ![p] = "waiting"] /\ UNCHANGED <<at, task, failed>>
    <2>1. /\ at' = at /\ task' = task /\ failed' = failed /\ closed' = closed
          /\ zombie' = zombie /\ active' = active
          /\ \A q \in Processes : q # p => drain'[q] = drain[q]
      BY <1>1, <1>2
    <2>2. Only(p[2])
      BY <2>1, OfSession, ProcessOf DEF Only, Same
    <2>3. p = Handler(p[2]) \/ p = Closer(p[2])
      BY ProcessOf
    <2>4. SessionOK(p[2])'
      BY <1>1, <2>1, <2>3, OfSession, ProcessOf DEF SessionOK, InCall, DrainStations
    <2> QED BY <2>2, <2>4
  <1>3. CASE ~(drain' = [drain EXCEPT ![p] = "waiting"] /\ UNCHANGED <<at, task, failed>>)
    <2>1. /\ \/ drain' = drain /\ drain[p] = "idle"
             \/ drain' = [drain EXCEPT ![p] = "idle"]
          /\ task' = task \/ task' = [task EXCEPT ![p[2]] = "none"]
          /\ \/ Goto(p, AfterDrain(p)) /\ UNCHANGED <<reply, failed>>
             \/ DrainRaises(p) \/ Raise(p)
      BY <1>3 DEF Drain
    <2>2. drain'[p] = "idle" /\ \A q \in Processes : q # p => drain'[q] = drain[q]
      BY <1>1, <2>1
    <2>3. CASE Goto(p, AfterDrain(p)) /\ UNCHANGED failed
      <3>1. /\ AfterDrain(p) \in {"stop", "notify", "cleanup", "fatalCleanup"}
            /\ AfterDrain(p) = "fatalCleanup" => at[p] = "fatalDrain"
        BY <1>1 DEF AfterDrain
      <3>2. PICK station \in {"stop", "notify", "cleanup", "fatalCleanup"} :
              Goto(p, station) /\ (station = "fatalCleanup" => at[p] = "fatalDrain")
        BY <2>3, <3>1
      <3> QED BY <1>1, <2>1, <2>2, <2>3, <3>2, EndingOK
    <2>4. CASE DrainRaises(p) \/ Raise(p)
      <3>1. PICK station \in {"forget", "raised"} :
              /\ Goto(p, station)
              /\ station = "raised" => failed' = failed \cup {p[2]}
              /\ station = "forget" => at[p] = "fatalDrain" /\ failed' = failed
        BY <1>1, <2>4, RaiseGoes DEF DrainStations
      <3> QED BY <1>1, <2>1, <2>2, <3>1, EndingOK
    <2> QED BY <2>1, <2>3, <2>4
  <1> QED BY <1>2, <1>3

LEMMA CloseOK ==
    ASSUME BackendTypeOK, NEW p \in Processes, SessionOK(p[2]), CloseStep(p)
    PROVE  Only(p[2]) /\ SessionOK(p[2])'
  <1> USE DEF Ending, CloseStations, FatalStations
  <1>1. CASE Drain(p)
    BY <1>1, DrainOK
  <1>2. CASE ~Drain(p)
    <2>1. PICK station \in {"drainAgain", "fatalDrain", "forget", "notify", "raised",
                           "returned"} :
            /\ Goto(p, station)
            /\ at[p] \in Ending \ DrainStations
            /\ station = "fatalDrain" => at[p] \in FatalStations
            /\ at[p] = "forget" => station = "returned"
            /\ active' = active \/ active = p[2]
            /\ failed' = failed \/ failed' = failed \cup {p[2]}
            /\ UNCHANGED <<task, drain, closed, zombie>>
      <3>1. CASE Stop(p)
        BY <3>1 DEF Stop, DrainStations
      <3>2. CASE Cleanup(p)
        BY <3>2 DEF Cleanup, Raise, DrainStations
      <3>3. CASE Notify(p)
        BY <3>3 DEF Notify, DrainStations
      <3>4. CASE Forget(p)
        BY <3>4 DEF Forget, DrainStations
      <3> QED BY <1>2, <3>1, <3>2, <3>3, <3>4 DEF CloseStep
    <2>2. drain[p] = "idle"
      BY <2>1, ProcessOf DEF SessionOK
    <2> QED BY <2>1, <2>2, EndingOK
  <1> QED BY <1>1, <1>2

\* A timeout cancels the wait of the other process of the session too.
LEMMA TimeOutOK ==
    ASSUME BackendTypeOK, NEW p \in Processes, SessionOK(p[2]), DrainTimesOut(p)
    PROVE  Only(p[2]) /\ SessionOK(p[2])'
  <1> USE DEF Ending, CloseStations, FatalStations
  <1> DEFINE s == p[2]
  <1>1. /\ \E left \in {"none", "cancelled"} : task' = [task EXCEPT ![s] = left]
        /\ zombie' = zombie \cup {s}
        /\ drain[p] = "waiting" /\ DrainRaises(p) /\ UNCHANGED <<active, closed>>
        /\ \A q \in Processes : /\ q = p => drain'[q] = "idle"
                                /\ drain'[q] # "idle" => drain[q] # "idle"
                                /\ q[2] # s => drain'[q] = drain[q]
    BY DEF DrainTimesOut, BackendTypeOK
  <1>2. s \in Sessions /\ (p = Handler(s) \/ p = Closer(s))
    BY ProcessOf
  <1>3. at[p] \in DrainStations
    BY <1>1, <1>2 DEF SessionOK
  <1>4. s \in closed /\ (at[p] = "fatalDrain" => p = Handler(s))
    BY <1>3, ClosedSession DEF DrainStations
  <1>5. PICK station \in {"forget", "raised"} :
          /\ Goto(p, station)
          /\ station = "raised" => failed' = failed \cup {s}
          /\ station = "forget" => at[p] = "fatalDrain" /\ failed' = failed
    BY <1>1, <1>3, RaiseGoes
  <1>6. at'[p] = station /\ \A q \in Processes : q # p => at'[q] = at[q]
    BY <1>5, ProcessGoes
  <1>7. task'[s] # "running" /\ \A t \in Sessions \ {s} : task'[t] = task[t]
    BY <1>1, <1>2 DEF BackendTypeOK
  <1>8. Only(s)
    <2>1. SUFFICES ASSUME NEW t \in Sessions, t # s PROVE Same(t)
      BY <1>1 DEF Only
    <2>2. /\ Handler(t) \in Processes /\ Handler(t) # p /\ Handler(t)[2] = t
          /\ Closer(t) \in Processes /\ Closer(t) # p /\ Closer(t)[2] = t
      BY <2>1, OfSession, ProcessOf
    <2>3. \A q \in Processes : q # p /\ q[2] = t => at'[q] = at[q] /\ drain'[q] = drain[q]
      BY <1>1, <1>6, <2>1
    <2>4. (t \in zombie' <=> t \in zombie) /\ (t \in failed' <=> t \in failed)
      BY <1>1, <1>5, <2>1
    <2> QED BY <1>1, <1>7, <2>1, <2>2, <2>3, <2>4 DEF Same
  <1>9. ASSUME p = Handler(s) PROVE SessionOK(s)'
    <2>1. /\ at'[Handler(s)] = station /\ at'[Closer(s)] = at[Closer(s)]
          /\ drain'[Handler(s)] = "idle"
          /\ drain'[Closer(s)] # "idle" => drain[Closer(s)] # "idle"
          /\ s \in failed' \/ station = "forget"
          /\ s \in closed' /\ task'[s] # "running"
      BY <1>1, <1>2, <1>4, <1>5, <1>6, <1>7, <1>9, OfSession
    <2>2. SessionOK(s)
      OBVIOUS
    <2> HIDE DEF s
    <2> QED BY <2>1, <2>2 DEF SessionOK, InCall
  <1>10. ASSUME p = Closer(s) PROVE SessionOK(s)'
    <2>1. /\ at'[Closer(s)] = "raised" /\ at'[Handler(s)] = at[Handler(s)]
          /\ drain'[Closer(s)] = "idle"
          /\ drain'[Handler(s)] # "idle" => drain[Handler(s)] # "idle"
          /\ s \in failed' /\ s \in closed' /\ task'[s] # "running"
      BY <1>1, <1>2, <1>4, <1>5, <1>6, <1>7, <1>10, OfSession
    <2>2. SessionOK(s)
      OBVIOUS
    <2> HIDE DEF s
    <2> QED BY <2>1, <2>2 DEF SessionOK, InCall, Resting
  <1> QED BY <1>2, <1>8, <1>9, <1>10

LEMMA ThreadOK ==
    ASSUME BackendTypeOK, NEW s \in Sessions, SessionOK(s), FinalizeEnds(s) \/ ZombieEnds(s)
    PROVE  Only(s) /\ SessionOK(s)'
  <1>1. /\ UNCHANGED <<at, closed, active, failed>>
        /\ \A t \in Sessions \ {s} : task'[t] = task[t] /\ (t \in zombie' <=> t \in zombie)
        /\ task'[s] \in {"running", "cancelled"} => task'[s] = task[s]
        /\ s \in zombie' => s \in zombie
    BY DEF FinalizeEnds, ZombieEnds, BackendTypeOK
  <1>2. /\ \A q \in Processes : drain'[q] # "idle" => drain[q] # "idle"
        /\ \A q \in Processes : q[2] # s => drain'[q] = drain[q]
    BY DEF FinalizeEnds, ZombieEnds, BackendTypeOK
  <1>3. Only(s)
    <2>1. \A t \in Sessions \ {s} : /\ drain'[Handler(t)] = drain[Handler(t)]
                                   /\ drain'[Closer(t)] = drain[Closer(t)]
      BY <1>2, OfSession
    <2> QED BY <1>1, <2>1 DEF Only, Same
  <1>4. SessionOK(s)'
    <2>1. /\ drain'[Handler(s)] # "idle" => drain[Handler(s)] # "idle"
          /\ drain'[Closer(s)] # "idle" => drain[Closer(s)] # "idle"
      BY <1>2, OfSession
    <2> QED BY <1>1, <2>1 DEF SessionOK, InCall
  <1> QED BY <1>3, <1>4

LEMMA CloseSessionOK ==
    ASSUME BackendTypeOK, NEW s \in Sessions, SessionOK(s), CloseSession(s)
    PROVE  Only(s) /\ SessionOK(s)'
  <1>1. CASE UNCHANGED <<at, closed, failed, active, task, drain, created, told, socket>>
    <2>1. zombie' = zombie
      BY DEF CloseSession
    <2> QED BY <1>1, <2>1 DEF Only, Same, SessionOK, InCall
  <1>2. CASE CloseBegins(Closer(s)) /\ s \notin closed
    <2>1. /\ Goto(Closer(s), "drain") /\ closed' = closed \cup {s}
          /\ UNCHANGED <<active, task, drain, failed, zombie>>
      BY <1>2, OfSession DEF CloseBegins, CloseSession
    <2>2. /\ at'[Closer(s)] = "drain" /\ at'[Handler(s)] = at[Handler(s)]
          /\ \A t \in Sessions \ {s} : /\ at'[Handler(t)] = at[Handler(t)]
                                       /\ at'[Closer(t)] = at[Closer(t)]
      BY <2>1, CloserGoes
    <2>3. Only(s)
      BY <2>1, <2>2 DEF Only, Same
    <2>4. SessionOK(s)'
      BY <2>1, <2>2 DEF SessionOK, InCall, CloseStations, DrainStations
    <2> QED BY <2>3, <2>4
  <1> QED BY <1>1, <1>2 DEF CloseSession

\* What the bridges do changes nothing that SessionOK speaks of, but for the first
\* step of a handler.
LEMMA BridgeOK ==
    ASSUME BackendTypeOK, NEW s \in Sessions, SafetyInv,
           \/ BridgeStep(s) \/ Arrive(s) \/ Greet(s) \/ TurnBack(s)
           \/ Push(s) \/ AskClose(s) \/ ClientLeaves(s)
           \/ GiveUp(s) \/ Drop(s)
    PROVE  SafetyInv'
  <1>1. CASE Greet(s)
    <2>1. /\ at[Handler(s)] = "none" /\ Goto(Handler(s), "register")
          /\ UNCHANGED <<active, closed, task, drain, zombie, failed>>
      BY <1>1 DEF Greet, Accept
    <2>2. SessionOK(s)
      BY DEF SafetyInv
    <2>3. task[s] # "running"
      BY <2>1, <2>2 DEF SessionOK
    <2>4. Only(s) /\ SessionOK(s)'
      BY <2>1, <2>2, <2>3, GoesOK DEF Serving, PushStations
    <2> QED BY <2>4, OnlyKept
  <1>2. CASE UNCHANGED <<active, at, closed, task, drain, zombie, failed>>
    BY <1>2 DEF SafetyInv, SessionOK, InCall
  <1>3. CASE Created(s) \/ InitFails(s) \/ Arrive(s) \/ AcceptClient(s) \/ TurnBack(s)
    BY <1>2, <1>3 DEF Created, InitFails, Arrive, AcceptClient, TurnBack, server
  <1>4. CASE HearClosed(s) \/ CloseReturns(s) \/ CloseRaises(s)
    BY <1>2, <1>4 DEF HearClosed, CloseReturns, CloseRaises, PostClose
  <1>5. CASE HearDrop(s) \/ AskClose(s) \/ ClientLeaves(s)
    BY <1>2, <1>5 DEF HearDrop, AskClose, ClientLeaves, PostClose
  <1>6. CASE Push(s) \/ GiveUp(s) \/ Drop(s)
    BY <1>2, <1>6 DEF Push, GiveUp, Drop
  <1> QED BY <1>1, <1>3, <1>4, <1>5, <1>6 DEF BridgeStep

LEMMA ServerOK ==
    ASSUME BackendTypeOK, SafetyInv, ServerStep \/ TimeOut
    PROVE  SafetyInv'
  <1>1. ASSUME NEW s \in Sessions,
               HandlerStep(s) \/ FinalizeEnds(s) \/ ZombieEnds(s) \/ CloseSession(s)
        PROVE  SafetyInv'
    <2>1. SessionOK(s)
      BY DEF SafetyInv
    <2>2. Only(s) /\ SessionOK(s)'
      BY <1>1, <2>1, HandlerOK, ThreadOK, CloseSessionOK
    <2> QED BY <2>2, OnlyKept
  <1>2. ASSUME NEW p \in Processes, CloseStep(p) \/ DrainTimesOut(p) PROVE SafetyInv'
    <2>1. p[2] \in Sessions
      BY ProcessOf
    <2>2. SessionOK(p[2])
      BY <2>1 DEF SafetyInv
    <2>3. Only(p[2]) /\ SessionOK(p[2])'
      BY <1>2, <2>2, CloseOK, TimeOutOK
    <2> QED BY <2>1, <2>3, OnlyKept
  <1> QED BY <1>1, <1>2 DEF ServerStep, TimeOut

LEMMA SafetyStep == TypeOK /\ SafetyInv /\ [Next]_vars => SafetyInv'
  <1> SUFFICES ASSUME TypeOK, SafetyInv, [Next]_vars PROVE SafetyInv'
    OBVIOUS
  <1>1. BackendTypeOK
    BY DEF TypeOK
  <1>2. CASE UNCHANGED vars
    BY <1>2 DEF vars, server, SafetyInv, SessionOK, InCall
  <1>3. CASE Next
    BY <1>1, <1>3, ServerOK, BridgeOK DEF Next, Progress
  <1> QED BY <1>2, <1>3

LEMMA SafetyCorrect == Spec => []SafetyInv
  <1>1. BridgeInit => SafetyInv
    <2> SUFFICES ASSUME BridgeInit, NEW s \in Sessions PROVE SessionOK(s)
      BY DEF SafetyInv
    <2>1. /\ at[Handler(s)] = "none" /\ at[Closer(s)] = "none" /\ task[s] = "none"
          /\ drain[Handler(s)] = "idle" /\ drain[Closer(s)] = "idle" /\ s \notin zombie
      BY OfSession DEF BridgeInit, Init
    <2> QED BY <2>1 DEF SessionOK, InCall, Resting, Serving, PushStations
  <1> QED BY <1>1, SafetyStep, BridgeTypesCorrect, PTL DEF Spec

\* The model calls of a session follow one another, for any number of sessions, unless
\* a close of it has raised: then the thread it gave up waiting for may still run.
\* (_op_lock, _wait_finalize and _schedule_finalize of BackendProtocolSession)
THEOREM SerialCorrect == Spec => []CallsAreSerial
  <1>1. SafetyInv => CallsAreSerial
    <2> SUFFICES ASSUME SafetyInv, NEW s \in Sessions
                 PROVE  /\ task[s] = "running" => ~InCall(s) /\ at[Handler(s)] # "send"
                        /\ s \in Duplex /\ s \in zombie /\ InCall(s) => s \in failed
      BY DEF CallsAreSerial
    <2> QED BY DEF SafetyInv, SessionOK, InCall
  <1> QED BY <1>1, SafetyCorrect, PTL

\* Two sessions that are not closed never have the model at work at once: the later
\* one is refused as long as the earlier is registered.  (register and forget)
THEOREM OwnerCorrect == Spec => []OneLiveUser
  <1>1. SafetyInv => OneLiveUser
    <2> SUFFICES ASSUME SafetyInv, NEW s \in Sessions, NEW t \in Sessions,
                        InCall(s) \/ task[s] = "running", InCall(t) \/ task[t] = "running",
                        s \notin closed, t \notin closed
                 PROVE  s = t
      BY DEF OneLiveUser
    <2>1. \A u \in Sessions : InCall(u) => at[Handler(u)] \in Serving
      BY DEF InCall, Serving, PushStations
    <2>2. active = s /\ active = t
      BY <2>1 DEF SafetyInv, SessionOK
    <2> QED BY <2>2
  <1> QED BY <1>1, SafetyCorrect, PTL

-----------------------------------------------------------------------------
(* The worker. *)

\* A worker whose sessions have all ended is idle, for any number of them, although
\* it looks at its status before it accepts a client and sets it after.
\* (the finally clause of _handle_remote_backend_runtime_ws)
THEOREM WorkerReleased == Spec => []NeverStuckBusy
  <1> DEFINE Idle == {"away", "accepting", "left"}
  <1>1. BridgeInit => NeverStuckBusy
    BY DEF BridgeInit, NeverStuckBusy
  <1>2. TypeOK /\ NeverStuckBusy /\ [Next]_vars => NeverStuckBusy'
    <2> SUFFICES ASSUME TypeOK, NeverStuckBusy, [Next]_vars PROVE NeverStuckBusy'
      OBVIOUS
    <2>1. bridge \in [Sessions -> {"away", "accepting", "greeting", "init", "relay",
                                   "asking", "cleaning", "left"}]
      BY DEF TypeOK
    <2>2. CASE UNCHANGED <<status, bridge>>
      BY <2>2 DEF NeverStuckBusy
    <2>3. ASSUME NEW s \in Sessions, Leave(s) PROVE NeverStuckBusy'
      BY <2>3 DEF Leave, NeverStuckBusy
    <2>4. ASSUME NEW s \in Sessions, NEW station, station \notin Idle, To(s, station)
          PROVE  NeverStuckBusy'
      BY <2>1, <2>4 DEF To, NeverStuckBusy
    <2>5. ASSUME NEW s \in Sessions, Arrive(s) \/ Greet(s) \/ TurnBack(s)
          PROVE  NeverStuckBusy'
      <3>1. CASE Arrive(s)
        BY <3>1 DEF Arrive, NeverStuckBusy
      <3>2. CASE Greet(s) \/ TurnBack(s)
        BY <2>3, <2>4, <3>2 DEF Greet, TurnBack
      <3> QED BY <2>5, <3>1, <3>2
    <2>6. ASSUME NEW s \in Sessions, BridgeStep(s) PROVE NeverStuckBusy'
      BY <2>3, <2>4, <2>6
      DEF BridgeStep, AcceptClient, Created, InitFails, HearDrop, HearClosed,
          CloseReturns, CloseRaises
    <2>7. ASSUME NEW s \in Sessions, AskClose(s) \/ ClientLeaves(s) PROVE NeverStuckBusy'
      BY <2>4, <2>7 DEF AskClose, ClientLeaves
    <2>8. ASSUME NEW s \in Sessions, Push(s) \/ GiveUp(s) \/ Drop(s) PROVE NeverStuckBusy'
      BY <2>2, <2>8 DEF Push, GiveUp, Drop, bridgeVars
    <2>9. CASE UNCHANGED bridgeVars \/ UNCHANGED vars
      BY <2>2, <2>9 DEF vars, bridgeVars
    <2> QED BY <2>5, <2>6, <2>7, <2>8, <2>9 DEF Next, Progress
  <1> QED BY <1>1, <1>2, BridgeTypesCorrect, PTL DEF Spec

-----------------------------------------------------------------------------
(* What a session must look like for its worker and the backend to come free.  An
   answer that is waited for is still being worked on (`working'), a session that has
   been left is being closed by somebody, has been forgotten or refused, has never
   begun, or its handler will see the broken connection (`left'), and one that is closed but still
   active has a close at work, unless one has raised. *)

\* Its handler has not yet asked for the model.
Fresh(s) == at[Handler(s)] \in {"none", "register"}

\* The session has been refused, or forgotten.
Gone(s) == ~Fresh(s) /\ active # s

ReleaseOK(s) ==
    /\ Fresh(s) => s \notin closed \cup created \cup told /\ active # s
    /\ s \in told => socket[s] = "closed"
    /\ bridge[s] \in {"away", "accepting", "greeting"} => at[Handler(s)] = "none"
    /\ bridge[s] \in {"relay", "asking", "cleaning"} => s \in created
    /\ bridge[s] \in {"asking", "cleaning"} => reply[s] # "none"
    /\ reply[s] \in {"pending", "working", "error"} => bridge[s] \in {"asking", "cleaning"}
    /\ reply[s] = "working" => s \in closed /\ at[Closer(s)] \in CloseStations
    /\ reply[s] = "error" => s \in closed \/ Gone(s)
    /\ bridge[s] = "left" =>
         socket[s] = "closed" \/ s \in closed \/ Gone(s) \/ at[Handler(s)] = "none"
    /\ active = s /\ s \in closed =>
         \/ s \in failed \/ at[Handler(s)] \in CloseStations \cup FatalStations
         \/ at[Closer(s)] \in CloseStations

ReleaseInv == \A s \in Sessions : ReleaseOK(s)

\* A step that is not of this session.
Alike(t) ==
    /\ at'[Handler(t)] = at[Handler(t)] /\ at'[Closer(t)] = at[Closer(t)]
    /\ socket'[t] = socket[t] /\ reply'[t] = reply[t] /\ bridge'[t] = bridge[t]
    /\ active' = t <=> active = t
    /\ t \in closed' <=> t \in closed
    /\ t \in created' <=> t \in created
    /\ t \in told' <=> t \in told
    /\ t \in failed' <=> t \in failed

Apart(s) == \A t \in Sessions \ {s} : Alike(t)

\* What holds of a session is kept by the steps that are not of it.
LEMMA AlikeKept == ASSUME NEW t \in Sessions, ReleaseOK(t), Alike(t) PROVE ReleaseOK(t)'
  BY DEF ReleaseOK, Alike, Fresh, Gone

LEMMA ApartKept ==
    ASSUME NEW s \in Sessions, ReleaseInv, Apart(s), ReleaseOK(s)' PROVE ReleaseInv'
  <1>1. ASSUME NEW t \in Sessions, t # s PROVE ReleaseOK(t)'
    BY <1>1, AlikeKept DEF ReleaseInv, Apart
  <1> QED BY <1>1 DEF ReleaseInv

\* The ways a step of the handler can end.
Served(s, station) ==
    /\ Goto(Handler(s), station)
    /\ station \in Serving \/ (station = "returned" /\ s \in closed)
    /\ UNCHANGED <<closed, told, socket, reply, failed>>
    /\ created' = created \/ created' = created \cup {s}
    /\ \/ active' = active /\ at[Handler(s)] \in Serving
       \/ active = NoOne /\ active' = s /\ at[Handler(s)] = "register"

\* The finalize the handler waited for has been cancelled.
Dies(s) ==
    /\ at[Handler(s)] = "wait" /\ Raise(Handler(s))
    /\ socket' = [socket EXCEPT ![s] = "closed"]
    /\ UNCHANGED <<active, closed, created, told>>

LEMMA HandlerDoes ==
    ASSUME NEW s \in Sessions, HandlerStep(s)
    PROVE  \/ Fatal(s)
           \/ CloseBegins(Handler(s)) /\ UNCHANGED reply /\ at[Handler(s)] \in Serving
           \/ /\ at[Handler(s)] \in {"register"} \cup Serving
              /\ \E station : Served(s, station)
           \/ Dies(s)
  <1> USE DEF Serving, PushStations
  <1>1. CASE Register(s)
    <2>1. CASE ~Fatal(s)
      <3>1. Served(s, "prepare") /\ at[Handler(s)] = "register"
        BY <1>1, <2>1 DEF Register, Served
      <3> QED BY <3>1
    <2> QED BY <2>1
  <1>2. CASE Prepare(s)
    <2>1. CASE ~Fatal(s) /\ ~CloseBegins(Handler(s))
      <3>1. Served(s, "receive") /\ at[Handler(s)] = "prepare"
        BY <1>2, <2>1 DEF Prepare, SendFails, Served
      <3> QED BY <3>1
    <2> QED BY <1>2, <2>1 DEF Prepare, SendFails
  <1>3. CASE Receive(s)
    <2>1. CASE ~Fatal(s)
      <3>1. /\ Served(s, "wait") \/ Served(s, "step")
            /\ at[Handler(s)] = "receive"
        BY <1>3, <2>1 DEF Receive, Served
      <3> QED BY <3>1
    <2> QED BY <2>1
  <1>4. CASE Disconnected(s)
    BY <1>4 DEF Disconnected
  <1>5. CASE WaitFinalize(s)
    <2>1. CASE ~Fatal(s) /\ ~Dies(s)
      <3>1. Served(s, "step") /\ at[Handler(s)] = "wait"
        BY <1>5, <2>1 DEF WaitFinalize, Dies, Served
      <3> QED BY <3>1
    <2> QED BY <2>1
  <1>6. CASE DuplexStep(s) \/ TurnStep(s)
    <2>1. CASE ~Fatal(s)
      <3>1. /\ Served(s, "send") \/ Served(s, "stream")
            /\ at[Handler(s)] = "step"
        BY <1>6, <2>1 DEF DuplexStep, TurnStep, StepReturns, Served
      <3> QED BY <3>1
    <2> QED BY <2>1
  <1>7. CASE SendUnit(s) \/ SendAnswer(s) \/ Stream(s)
    <2>1. CASE ~Fatal(s) /\ ~CloseBegins(Handler(s))
      <3>1. /\ at[Handler(s)] \in {"send", "stream"}
            /\ NextMessage(s) \/ Goto(Handler(s), "linger")
            /\ UNCHANGED <<active, closed, created, told, socket, reply, failed>>
        BY <1>7, <2>1 DEF SendUnit, SendAnswer, Stream, SendFails
      <3>2. Served(s, "returned") \/ Served(s, "receive") \/ Served(s, "linger")
        BY <3>1 DEF NextMessage, Served
      <3> QED BY <3>1, <3>2
    <2> QED BY <1>7, <2>1 DEF SendUnit, SendAnswer, Stream, SendFails
  <1>8. CASE Linger(s)
    BY <1>8 DEF Linger, SendFails
  <1> QED BY <1>1, <1>2, <1>3, <1>4, <1>5, <1>6, <1>7, <1>8 DEF HandlerStep

LEMMA HandlerReleases ==
    ASSUME BackendTypeOK, NEW s \in Sessions, SessionOK(s), ReleaseOK(s), HandlerStep(s),
           UNCHANGED bridge
    PROVE  Apart(s) /\ ReleaseOK(s)'
  <1> USE DEF Fresh, Gone
  <1>0. at[Handler(s)] # "none"
    BY DEF HandlerStep, Register, Prepare, Receive, Disconnected, WaitFinalize, DuplexStep,
           TurnStep, StepReturns, SendUnit, SendAnswer, Stream, Linger
  <1>1. CASE Fatal(s)
    <2>1. /\ at'[Handler(s)] \in {"fatalStop", "forget"} /\ at'[Closer(s)] = at[Closer(s)]
          /\ \A t \in Sessions \ {s} : /\ at'[Handler(t)] = at[Handler(t)]
                                       /\ at'[Closer(t)] = at[Closer(t)]
      BY <1>1, HandlerGoes DEF Fatal
    <2>2. /\ socket'[s] = "closed" /\ \A t \in Sessions \ {s} : socket'[t] = socket[t]
          /\ closed' = closed \cup {s} /\ told' \in {told, told \cup {s}}
          /\ UNCHANGED <<active, created, reply, failed>>
      BY <1>1 DEF Fatal, BackendTypeOK
    <2>3. Apart(s)
      BY <2>1, <2>2 DEF Apart, Alike
    <2>4. ReleaseOK(s)'
      BY <1>0, <2>1, <2>2 DEF ReleaseOK, CloseStations, FatalStations
    <2> QED BY <2>3, <2>4
  <1>2. CASE CloseBegins(Handler(s)) /\ UNCHANGED reply /\ at[Handler(s)] \in Serving
    <2>1. /\ at'[Handler(s)] = IF s \in closed THEN "returned" ELSE "drain"
          /\ at'[Closer(s)] = at[Closer(s)]
          /\ \A t \in Sessions \ {s} : /\ at'[Handler(t)] = at[Handler(t)]
                                       /\ at'[Closer(t)] = at[Closer(t)]
      BY <1>2, HandlerGoes, OfSession DEF CloseBegins
    <2>2. /\ closed' = closed \cup {s}
          /\ UNCHANGED <<active, created, told, socket, reply, failed>>
      BY <1>2, OfSession DEF CloseBegins
    <2>3. Apart(s)
      BY <2>1, <2>2 DEF Apart, Alike
    <2>4. at[Handler(s)] \notin CloseStations \cup FatalStations \cup {"none", "register"}
      BY <1>2 DEF Serving, PushStations, CloseStations, FatalStations
    <2>5. ReleaseOK(s)'
      BY <2>1, <2>2, <2>4 DEF ReleaseOK, CloseStations
    <2> QED BY <2>3, <2>5
  <1>3. CASE /\ at[Handler(s)] \in {"register"} \cup Serving
             /\ \E station : Served(s, station)
    <2>0. at[Handler(s)] \in {"register"} \cup Serving
      BY <1>3
    <2>1. PICK station : Served(s, station)
      BY <1>3
    <2>2. /\ at'[Handler(s)] = station /\ at'[Closer(s)] = at[Closer(s)]
          /\ \A t \in Sessions \ {s} : /\ at'[Handler(t)] = at[Handler(t)]
                                       /\ at'[Closer(t)] = at[Closer(t)]
      BY <2>1, HandlerGoes DEF Served
    <2>3. /\ station \notin {"none", "register"} /\ (station = "returned" => s \in closed)
          /\ UNCHANGED <<closed, told, socket, reply, failed>>
          /\ created' = created \/ created' = created \cup {s}
          /\ \/ active' = active /\ at[Handler(s)] \notin {"none", "register"}
             \/ active = NoOne /\ active' = s /\ at[Handler(s)] = "register"
      BY <2>1 DEF Served, Serving, PushStations
    <2>4. Apart(s)
      BY <2>2, <2>3, NoOneAssumption DEF Apart, Alike
    <2>5. at[Handler(s)] \notin CloseStations \cup FatalStations
      BY <2>0 DEF Serving, PushStations, CloseStations, FatalStations
    <2>6. ReleaseOK(s)'
      <3>1. CASE active' = active
        BY <2>2, <2>3, <2>5, <3>1 DEF ReleaseOK
      <3>2. CASE active' # active
        BY <2>2, <2>3, <3>2 DEF ReleaseOK
      <3> QED BY <3>1, <3>2
    <2> QED BY <2>4, <2>6
  <1>4. CASE Dies(s)
    <2>1. /\ at'[Handler(s)] = "raised" /\ at'[Closer(s)] = at[Closer(s)]
          /\ \A t \in Sessions \ {s} : /\ at'[Handler(t)] = at[Handler(t)]
                                       /\ at'[Closer(t)] = at[Closer(t)]
      BY <1>4, HandlerGoes DEF Dies, Raise
    <2>2. /\ socket'[s] = "closed" /\ \A t \in Sessions \ {s} : socket'[t] = socket[t]
          /\ failed' = failed \cup {s}
          /\ UNCHANGED <<active, closed, created, told, reply>>
      BY <1>4, OfSession DEF Dies, Raise, Answer, BackendTypeOK
    <2>3. at[Handler(s)] = "wait"
      BY <1>4 DEF Dies
    <2>4. Apart(s)
      BY <2>1, <2>2 DEF Apart, Alike
    <2>5. ReleaseOK(s)'
      BY <2>1, <2>2, <2>3 DEF ReleaseOK
    <2> QED BY <2>4, <2>5
  <1> QED BY <1>1, <1>2, <1>3, <1>4, HandlerDoes

\* The ways a step of a process that ends its session can end.
Ends(p, station) ==
    /\ Goto(p, station)
    /\ \/ /\ \/ station \in CloseStations
             \/ station \in FatalStations /\ at[p] \in FatalStations
          /\ UNCHANGED <<active, reply, failed>>
       \/ station = "raised" /\ active' = active /\ failed' = failed \cup {p[2]}
          /\ Answer(p, "error")
       \/ station = "returned" /\ active' # p[2] /\ failed' = failed /\ Answer(p, "ok")
          /\ (active' = active \/ (active = p[2] /\ active' = NoOne))

LEMMA CloseDoes ==
    ASSUME BackendTypeOK, NEW p \in Processes, SessionOK(p[2]),
           CloseStep(p) \/ DrainTimesOut(p)
    PROVE  /\ at[p] \in CloseStations \cup FatalStations
           /\ UNCHANGED <<closed, created>>
           /\ \/ UNCHANGED <<told, socket>>
              \/ /\ told' \in {told, told \cup {p[2]}}
                 /\ socket' = [socket EXCEPT ![p[2]] = "closed"]
           /\ UNCHANGED <<at, active, reply, failed>> \/ \E station : Ends(p, station)
  <1> USE DEF CloseStations, FatalStations
  <1>1. p[2] \in Sessions /\ (p = Handler(p[2]) \/ p = Closer(p[2]))
    BY ProcessOf
  <1>2. ASSUME DrainRaises(p) \/ Raise(p), active' = active, at[p] \in DrainStations
        PROVE  \E station : Ends(p, station)
    <2>1. Ends(p, "forget") \/ Ends(p, "raised")
      BY <1>2 DEF DrainRaises, Raise, Ends, DrainStations
    <2> QED BY <2>1
  <1>3. CASE Drain(p)
    <2>1. at[p] \in DrainStations /\ UNCHANGED <<closed, created, told, socket, active>>
      BY <1>3 DEF Drain, DrainStations
    <2>2. CASE DrainRaises(p) \/ Raise(p)
      BY <1>2, <2>1, <2>2 DEF DrainStations
    <2>3. CASE ~(DrainRaises(p) \/ Raise(p))
      <3>1. \/ UNCHANGED <<at, reply, failed>>
            \/ Goto(p, AfterDrain(p)) /\ UNCHANGED <<reply, failed>>
        BY <1>3, <2>3 DEF Drain
      <3>2. \/ AfterDrain(p) \in {"stop", "notify", "cleanup"}
            \/ AfterDrain(p) = "fatalCleanup" /\ at[p] = "fatalDrain"
        BY <2>1 DEF AfterDrain, DrainStations
      <3>3. Goto(p, AfterDrain(p)) /\ UNCHANGED <<reply, failed>> => Ends(p, AfterDrain(p))
        BY <2>1, <3>2 DEF Ends
      <3> QED BY <2>1, <3>1, <3>3 DEF DrainStations
    <2> QED BY <2>2, <2>3
  <1>4. CASE DrainTimesOut(p)
    <2>1. at[p] \in DrainStations
      BY <1>1, <1>4 DEF DrainTimesOut, SessionOK
    <2> QED BY <1>2, <1>4, <2>1 DEF DrainTimesOut, DrainStations
  <1>5. CASE Stop(p)
    <2>1. \E station \in {"drainAgain", "fatalDrain", "forget"} : Ends(p, station)
      BY <1>5 DEF Stop, Ends
    <2> QED BY <1>5, <2>1 DEF Stop
  <1>6. CASE Cleanup(p)
    <2>1. \E station \in {"notify", "forget", "raised"} : Ends(p, station)
      BY <1>6 DEF Cleanup, Ends, Raise
    <2> QED BY <1>6, <2>1 DEF Cleanup
  <1>7. CASE Notify(p)
    <2>1. Ends(p, "forget")
      BY <1>7 DEF Notify, Ends
    <2> QED BY <1>7, <2>1 DEF Notify
  <1>8. CASE Forget(p)
    <2>1. Ends(p, "returned")
      BY <1>1, <1>8, NoOneAssumption DEF Forget, Ends
    <2> QED BY <1>8, <2>1 DEF Forget
  <1> QED BY <1>3, <1>4, <1>5, <1>6, <1>7, <1>8 DEF CloseStep

LEMMA CloseReleases ==
    ASSUME BackendTypeOK, NEW p \in Processes, SessionOK(p[2]), ReleaseOK(p[2]),
           CloseStep(p) \/ DrainTimesOut(p), UNCHANGED bridge
    PROVE  Apart(p[2]) /\ ReleaseOK(p[2])'
  <1> DEFINE s == p[2]
  <1>1. s \in Sessions /\ (p = Handler(s) \/ p = Closer(s)) /\ Handler(s) # Closer(s)
    BY ProcessOf, OfSession
  <1>2. /\ at[p] \in CloseStations \cup FatalStations
        /\ UNCHANGED <<closed, created>>
        /\ \/ UNCHANGED <<told, socket>>
           \/ /\ told' \in {told, told \cup {s}}
              /\ socket' = [socket EXCEPT ![s] = "closed"]
        /\ UNCHANGED <<at, active, reply, failed>> \/ \E station : Ends(p, station)
    BY CloseDoes
  <1>3. s \in closed /\ (at[p] \in FatalStations => p = Handler(s))
    BY <1>2, ClosedSession DEF Ending
  <1>4. /\ \A t \in Sessions \ {s} : socket'[t] = socket[t] /\ (t \in told' <=> t \in told)
        /\ s \in told' => s \in told \/ socket'[s] = "closed"
        /\ socket[s] = "closed" => socket'[s] = "closed"
    BY <1>1, <1>2 DEF BackendTypeOK
  <1>5. ~Fresh(s)
    BY <1>3 DEF ReleaseOK
  <1>6. CASE UNCHANGED <<at, active, reply, failed>>
    <2>1. Apart(s)
      BY <1>2, <1>4, <1>6 DEF Apart, Alike
    <2>2. ReleaseOK(s)'
      <3>1. ReleaseOK(s)
        OBVIOUS
      <3> HIDE DEF s
      <3> QED BY <1>2, <1>4, <1>5, <1>6, <3>1 DEF ReleaseOK, Fresh, Gone
    <2> QED BY <2>1, <2>2
  <1>7. CASE \E station : Ends(p, station)
    <2>1. PICK station : Ends(p, station)
      BY <1>7
    <2>2. /\ at'[p] = station /\ \A q \in Processes : q # p => at'[q] = at[q]
          /\ station \in CloseStations \cup FatalStations \cup {"raised", "returned"}
      BY <2>1, ProcessGoes DEF Ends
    <2>3. \A t \in Sessions \ {s} : /\ at'[Handler(t)] = at[Handler(t)]
                                    /\ at'[Closer(t)] = at[Closer(t)]
                                    /\ reply'[t] = reply[t] /\ (active' = t <=> active = t)
                                    /\ (t \in failed' <=> t \in failed)
      <3>1. \A t \in Sessions \ {s} : /\ at'[Handler(t)] = at[Handler(t)]
                                      /\ at'[Closer(t)] = at[Closer(t)]
        BY <2>2, OfSession, ProcessOf
      <3>2. \A t \in Sessions \ {s} : reply'[t] = reply[t]
        BY <2>1 DEF Ends, Answer, BackendTypeOK
      <3>3. \A t \in Sessions \ {s} : (active' = t <=> active = t)
                                    /\ (t \in failed' <=> t \in failed)
        BY <2>1, NoOneAssumption DEF Ends
      <3> QED BY <3>1, <3>2, <3>3
    <2>4. Apart(s)
      BY <1>2, <1>4, <2>3 DEF Apart, Alike
    <2>5. reply'[s] = IF reply[s] # "working" \/ p # Closer(s) THEN reply[s]
                      ELSE IF station = "raised" THEN "error"
                      ELSE IF station = "returned" THEN "ok"
                      ELSE "working"
      <3>1. p = Closer(s) <=> p[1] = "http"
        BY <1>1, OfSession
      <3> QED BY <1>1, <2>1, <3>1 DEF Ends, Answer, BackendTypeOK, CloseStations, FatalStations
    <2>6. /\ station = "raised" => s \in failed'
          /\ active' = s => active = s /\ station # "returned"
          /\ s \in failed => s \in failed'
          /\ station \in FatalStations => at[p] \in FatalStations
      BY <2>1 DEF Ends, CloseStations, FatalStations
    <2>7. station \notin {"none", "register"}
      BY <2>2 DEF CloseStations, FatalStations
    <2>8. ~Fresh(s)'
      BY <1>1, <1>5, <2>2, <2>7, OfSession DEF Fresh
    <2>9. ASSUME p = Handler(s) PROVE ReleaseOK(s)'
      <3>1. at'[Handler(s)] = station /\ at'[Closer(s)] = at[Closer(s)] /\ reply'[s] = reply[s]
        BY <1>1, <2>2, <2>5, <2>9, OfSession
      <3>2. ReleaseOK(s)
        OBVIOUS
      <3> HIDE DEF s
      <3> QED BY <1>2, <1>3, <1>4, <1>5, <2>2, <2>6, <2>8, <2>9, <3>1, <3>2
              DEF ReleaseOK, Fresh, Gone
    <2>10. ASSUME p = Closer(s) PROVE ReleaseOK(s)'
      <3>1. at'[Closer(s)] = station /\ at'[Handler(s)] = at[Handler(s)]
        BY <1>1, <2>2, <2>10, OfSession
      <3>2. station \notin FatalStations
        BY <1>1, <1>3, <2>6, <2>10
      <3>3. reply'[s] = "working" => station \in CloseStations
        BY <2>2, <2>5, <2>10, <3>2
      <3>4. ReleaseOK(s)
        OBVIOUS
      <3> HIDE DEF s
      <3> QED BY <1>2, <1>3, <1>4, <1>5, <2>2, <2>5, <2>6, <2>8, <2>10, <3>1, <3>2, <3>3, <3>4
              DEF ReleaseOK, Fresh, Gone
    <2> QED BY <1>1, <2>4, <2>9, <2>10
  <1> QED BY <1>2, <1>6, <1>7

LEMMA ThreadReleases ==
    ASSUME NEW s \in Sessions, FinalizeEnds(s) \/ ZombieEnds(s), UNCHANGED bridge
    PROVE  \A t \in Sessions : Alike(t)
  BY DEF FinalizeEnds, ZombieEnds, Alike

LEMMA CloseSessionReleases ==
    ASSUME BackendTypeOK, NEW s \in Sessions, SessionOK(s), ReleaseOK(s), CloseSession(s),
           UNCHANGED bridge
    PROVE  Apart(s) /\ ReleaseOK(s)'
  <1>1. /\ reply[s] = "pending" /\ s \in created /\ ~Fresh(s)
        /\ bridge[s] \in {"asking", "cleaning"}
    BY DEF CloseSession, ReleaseOK
  <1>2. CASE UNCHANGED <<at, closed, failed, active, task, drain, created, told, socket>>
    <2>1. /\ (reply'[s] = "error" /\ active # s) \/ reply'[s] = "ok"
          /\ \A t \in Sessions \ {s} : reply'[t] = reply[t]
      BY <1>2, OfSession DEF CloseSession, CloseBegins, BackendTypeOK
    <2>2. Apart(s)
      BY <1>2, <2>1 DEF Apart, Alike
    <2>3. ReleaseOK(s)'
      BY <1>1, <1>2, <2>1 DEF ReleaseOK, Fresh, Gone
    <2> QED BY <2>2, <2>3
  <1>3. CASE /\ CloseBegins(Closer(s)) /\ s \notin closed
             /\ reply' = [reply EXCEPT ![s] = "working"]
    <2>1. /\ Goto(Closer(s), "drain") /\ closed' = closed \cup {s}
          /\ UNCHANGED <<active, created, told, socket, failed>>
      BY <1>3, OfSession DEF CloseBegins
    <2>2. /\ at'[Closer(s)] = "drain" /\ at'[Handler(s)] = at[Handler(s)]
          /\ \A t \in Sessions \ {s} : /\ at'[Handler(t)] = at[Handler(t)]
                                       /\ at'[Closer(t)] = at[Closer(t)]
      BY <2>1, CloserGoes
    <2>3. reply'[s] = "working" /\ \A t \in Sessions \ {s} : reply'[t] = reply[t]
      BY <1>3 DEF BackendTypeOK
    <2>4. Apart(s)
      BY <2>1, <2>2, <2>3 DEF Apart, Alike
    <2>5. ReleaseOK(s)'
      BY <1>1, <2>1, <2>2, <2>3 DEF ReleaseOK, Fresh, Gone, CloseStations
    <2> QED BY <2>4, <2>5
  <1> QED BY <1>2, <1>3 DEF CloseSession

\* The steps of a bridge that only it takes part in.
LEMMA BridgeReleases ==
    ASSUME TypeOK, NEW s \in Sessions, ReleaseOK(s),
           \/ BridgeStep(s) \/ Arrive(s) \/ Greet(s) \/ TurnBack(s)
           \/ Push(s) \/ AskClose(s) \/ ClientLeaves(s)
           \/ GiveUp(s) \/ Drop(s)
    PROVE  Apart(s) /\ ReleaseOK(s)'
  <1>0. /\ bridge \in [Sessions -> {"away", "accepting", "greeting", "init", "relay",
                                    "asking", "cleaning", "left"}]
        /\ socket \in [Sessions -> {"none", "open", "closed"}]
        /\ reply \in [Sessions -> Replies] /\ BackendTypeOK
    BY DEF TypeOK, BackendTypeOK, Replies
  <1>1. CASE Greet(s)
    <2>1. /\ bridge[s] = "greeting" /\ at[Handler(s)] = "none"
          /\ bridge' = [bridge EXCEPT ![s] = "init"] /\ Goto(Handler(s), "register")
          /\ socket' = [socket EXCEPT ![s] = "open"]
          /\ UNCHANGED <<active, closed, created, told, reply, failed>>
      BY <1>1 DEF Greet, Accept, To
    <2>2. /\ at'[Handler(s)] = "register" /\ at'[Closer(s)] = at[Closer(s)]
          /\ \A t \in Sessions \ {s} : /\ at'[Handler(t)] = at[Handler(t)]
                                       /\ at'[Closer(t)] = at[Closer(t)]
      BY <1>0, <2>1, HandlerGoes
    <2>3. /\ bridge'[s] = "init" /\ socket'[s] = "open"
          /\ \A t \in Sessions \ {s} : bridge'[t] = bridge[t] /\ socket'[t] = socket[t]
      BY <1>0, <2>1
    <2>4. Apart(s)
      BY <2>1, <2>2, <2>3 DEF Apart, Alike
    <2>5. ReleaseOK(s)'
      BY <2>1, <2>2, <2>3 DEF ReleaseOK, Fresh, Gone
    <2> QED BY <2>4, <2>5
  <1>2. ASSUME NEW where, NEW answer,
               bridge' = [bridge EXCEPT ![s] = where], reply' = [reply EXCEPT ![s] = answer],
               socket' = socket \/ socket' = [socket EXCEPT ![s] = "closed"],
               UNCHANGED <<active, at, closed, created, told, failed>>
        PROVE  /\ bridge'[s] = where /\ reply'[s] = answer
               /\ socket[s] = "closed" => socket'[s] = "closed"
               /\ Apart(s)
    BY <1>0, <1>2 DEF Apart, Alike
  <1>3. ASSUME reply' = reply PROVE reply' = [reply EXCEPT ![s] = reply[s]]
    BY <1>0, <1>3
  <1>4. ASSUME bridge' = bridge PROVE bridge' = [bridge EXCEPT ![s] = bridge[s]]
    BY <1>0, <1>4
  <1>5. CASE Arrive(s) \/ AcceptClient(s)
    <2>1. PICK where \in {"accepting", "greeting"} :
            /\ bridge[s] \in {"away", "accepting"}
            /\ bridge' = [bridge EXCEPT ![s] = where]
            /\ UNCHANGED <<active, at, closed, created, told, failed, socket, reply>>
      BY <1>5 DEF Arrive, AcceptClient, To, server
    <2>2. bridge'[s] \in {"accepting", "greeting"} /\ Apart(s)
      BY <1>2, <1>3, <2>1
    <2> QED BY <2>1, <2>2 DEF ReleaseOK, Fresh, Gone
  <1>6. CASE Created(s)
    <2>1. /\ bridge[s] = "init" /\ s \in created /\ bridge' = [bridge EXCEPT ![s] = "relay"]
          /\ UNCHANGED <<active, at, closed, created, told, failed, socket, reply>>
      BY <1>6 DEF Created, To, server
    <2>2. bridge'[s] = "relay" /\ Apart(s)
      BY <1>2, <1>3, <2>1
    <2> QED BY <2>1, <2>2 DEF ReleaseOK, Fresh, Gone
  <1>7. CASE InitFails(s) \/ TurnBack(s)
    <2>1. /\ (bridge[s] = "init" /\ socket[s] = "closed") \/ bridge[s] = "greeting"
          /\ bridge' = [bridge EXCEPT ![s] = "left"]
          /\ UNCHANGED <<active, at, closed, created, told, failed, socket, reply>>
      BY <1>7 DEF InitFails, TurnBack, Leave, To, server
    <2>2. bridge'[s] = "left" /\ Apart(s)
      BY <1>2, <1>3, <2>1
    <2> QED BY <2>1, <2>2 DEF ReleaseOK, Fresh, Gone
  <1>8. ASSUME bridge[s] \in {"relay", "asking"}, To(s, "asking") \/ To(s, "cleaning"),
               PostClose(s)
        PROVE  Apart(s) /\ ReleaseOK(s)'
    <2>1. PICK where \in {"asking", "cleaning"} : bridge' = [bridge EXCEPT ![s] = where]
      BY <1>8 DEF To
    <2>2. /\ reply' = [reply EXCEPT ![s] = "pending"]
          /\ UNCHANGED <<active, at, closed, created, told, failed, socket>>
      BY <1>8 DEF PostClose
    <2>3. bridge'[s] \in {"asking", "cleaning"} /\ reply'[s] = "pending" /\ Apart(s)
      BY <1>2, <2>1, <2>2
    <2> QED BY <1>8, <2>2, <2>3 DEF ReleaseOK, Fresh, Gone
  <1>9. CASE HearDrop(s) \/ AskClose(s) \/ ClientLeaves(s)
    BY <1>8, <1>9 DEF HearDrop, AskClose, ClientLeaves
  <1>10. CASE HearClosed(s)
    <2>1. /\ s \in told /\ bridge' = [bridge EXCEPT ![s] = "left"]
          /\ reply' = [reply EXCEPT ![s] = "none"]
          /\ UNCHANGED <<active, at, closed, created, told, failed, socket>>
      BY <1>10 DEF HearClosed, Leave, To
    <2>2. bridge'[s] = "left" /\ reply'[s] = "none" /\ Apart(s)
      BY <1>2, <2>1
    <2> QED BY <2>1, <2>2 DEF ReleaseOK, Fresh, Gone
  <1>11. CASE CloseReturns(s)
    <2>1. /\ reply[s] = "ok" /\ bridge' = [bridge EXCEPT ![s] = "left"]
          /\ socket' = [socket EXCEPT ![s] = "closed"]
          /\ UNCHANGED <<active, at, closed, created, told, failed, reply>>
      BY <1>11 DEF CloseReturns, Leave, To
    <2>2. bridge'[s] = "left" /\ Apart(s)
      BY <1>2, <1>3, <2>1
    <2>3. socket'[s] = "closed"
      BY <1>0, <2>1
    <2> QED BY <2>1, <2>2, <2>3 DEF ReleaseOK, Fresh, Gone
  <1>12. CASE CloseRaises(s)
    <2>1. CASE bridge[s] = "asking" /\ To(s, "cleaning") /\ PostClose(s)
      BY <1>8, <2>1
    <2>2. CASE bridge[s] = "cleaning" /\ Leave(s)
      <3>1. /\ reply[s] = "error" /\ bridge' = [bridge EXCEPT ![s] = "left"]
            /\ reply' = [reply EXCEPT ![s] = "none"]
            /\ UNCHANGED <<active, at, closed, created, told, failed, socket>>
        BY <1>12, <2>2 DEF CloseRaises, Leave, To
      <3>2. bridge'[s] = "left" /\ reply'[s] = "none" /\ Apart(s)
        BY <1>2, <3>1
      <3> QED BY <3>1, <3>2 DEF ReleaseOK, Fresh, Gone
    <2> QED BY <1>12, <2>1, <2>2 DEF CloseRaises
  <1>13. CASE Push(s)
    <2>1. UNCHANGED <<active, at, closed, created, told, failed, socket, reply, bridge>>
      BY <1>13 DEF Push
    <2> QED BY <2>1 DEF ReleaseOK, Fresh, Gone, Apart, Alike
  <1>14. CASE GiveUp(s)
    <2>1. /\ reply[s] = "working" /\ reply' = [reply EXCEPT ![s] = "error"]
          /\ UNCHANGED <<active, at, closed, created, told, failed, socket, bridge>>
      BY <1>14 DEF GiveUp, bridgeVars
    <2>2. reply'[s] = "error" /\ Apart(s)
      BY <1>2, <1>4, <2>1
    <2> QED BY <2>1, <2>2 DEF ReleaseOK, Fresh, Gone
  <1>15. CASE Drop(s)
    <2>1. /\ socket' = [socket EXCEPT ![s] = "closed"]
          /\ UNCHANGED <<active, at, closed, created, told, failed, reply, bridge>>
      BY <1>15 DEF Drop, bridgeVars
    <2>2. socket'[s] = "closed" /\ Apart(s)
      BY <1>0, <1>2, <1>3, <1>4, <2>1
    <2> QED BY <2>1, <2>2 DEF ReleaseOK, Fresh, Gone
  <1> QED
    BY <1>1, <1>5, <1>6, <1>7, <1>9, <1>10, <1>11, <1>12, <1>13, <1>14, <1>15 DEF BridgeStep

LEMMA ReleaseStep == TypeOK /\ SafetyInv /\ ReleaseInv /\ [Next]_vars => ReleaseInv'
  <1> SUFFICES ASSUME TypeOK, SafetyInv, ReleaseInv, [Next]_vars PROVE ReleaseInv'
    OBVIOUS
  <1>0. BackendTypeOK /\ \A s \in Sessions : SessionOK(s) /\ ReleaseOK(s)
    BY DEF TypeOK, SafetyInv, ReleaseInv
  <1>1. CASE UNCHANGED vars
    BY <1>1 DEF vars, server, bridgeVars, ReleaseInv, ReleaseOK, Fresh, Gone
  <1>2. ASSUME NEW s \in Sessions, UNCHANGED bridgeVars, HandlerStep(s) \/ CloseSession(s)
        PROVE  ReleaseInv'
    <2>1. Apart(s) /\ ReleaseOK(s)'
      BY <1>0, <1>2, HandlerReleases, CloseSessionReleases DEF bridgeVars
    <2> QED BY <2>1, ApartKept
  <1>3. ASSUME NEW s \in Sessions, UNCHANGED bridgeVars, FinalizeEnds(s) \/ ZombieEnds(s)
        PROVE  ReleaseInv'
    <2>1. \A t \in Sessions : Alike(t)
      BY <1>3, ThreadReleases DEF bridgeVars
    <2>2. \A t \in Sessions : ReleaseOK(t)'
      BY <1>0, <2>1, AlikeKept
    <2> QED BY <2>2 DEF ReleaseInv
  <1>4. ASSUME NEW p \in Processes, UNCHANGED bridgeVars, CloseStep(p) \/ DrainTimesOut(p)
        PROVE  ReleaseInv'
    <2>1. p[2] \in Sessions
      BY ProcessOf
    <2>2. SessionOK(p[2]) /\ ReleaseOK(p[2])
      BY <1>0, <2>1
    <2>3. Apart(p[2]) /\ ReleaseOK(p[2])'
      BY <1>0, <1>4, <2>2, CloseReleases DEF bridgeVars
    <2> QED BY <2>1, <2>3, ApartKept
  <1>5. ASSUME NEW s \in Sessions,
               \/ BridgeStep(s) \/ Arrive(s) \/ Greet(s) \/ TurnBack(s)
               \/ Push(s) \/ AskClose(s) \/ ClientLeaves(s)
               \/ GiveUp(s) \/ Drop(s)
        PROVE  ReleaseInv'
    <2>1. Apart(s) /\ ReleaseOK(s)'
      BY <1>0, <1>5, BridgeReleases
    <2> QED BY <2>1, ApartKept
  <1> QED
    BY <1>1, <1>2, <1>3, <1>4, <1>5 DEF Next, Progress, ServerStep, TimeOut

LEMMA ReleaseCorrect == Spec => []ReleaseInv
  <1>1. BridgeInit => ReleaseInv
    <2> SUFFICES ASSUME BridgeInit, NEW s \in Sessions PROVE ReleaseOK(s)
      BY DEF ReleaseInv
    <2>1. /\ at[Handler(s)] = "none" /\ reply[s] = "none" /\ bridge[s] = "away"
          /\ closed = {} /\ created = {} /\ told = {} /\ active # s
      BY OfSession, NoOneAssumption DEF BridgeInit, Init
    <2> QED BY <2>1 DEF ReleaseOK, Fresh, Gone
  <1> QED BY <1>1, ReleaseStep, SafetyCorrect, BridgeTypesCorrect, PTL DEF Spec

\* A worker whose client leaves, or asks for a close, is never left in it, for any
\* number of sessions: a close that is being waited for is still at work.
\* (RemoteBackendSession.close, close_session)
THEOREM LeaverCorrect == Spec => []LeaverIsReleased
  <1>1. TypeOK /\ ReleaseInv => LeaverIsReleased
    <2> SUFFICES ASSUME TypeOK, ReleaseInv, AtRest, NEW s \in Sessions,
                        bridge[s] \in {"asking", "cleaning"}
                 PROVE  FALSE
      BY DEF LeaverIsReleased
    <2>1. reply[s] \in {"none", "pending", "working", "ok", "error"} /\ ReleaseOK(s)
      BY DEF TypeOK, BackendTypeOK, ReleaseInv
    <2>2. reply[s] = "working"
      BY <2>1 DEF AtRest, ReleaseOK
    <2>3. at[Closer(s)] \in CloseStations
      BY <2>1, <2>2 DEF ReleaseOK
    <2> QED BY <2>3, OfSession DEF AtRest, CloseStations, Resting
  <1> QED BY <1>1, ReleaseCorrect, BridgeTypesCorrect, PTL

\* Its session is forgotten, for any number of them: whoever has closed the session
\* goes on until then, but for an exception.  (_close and fatal of
\* BackendProtocolSession)
THEOREM FreedCorrect == Spec => []BackendIsFreed
  <1>1. TypeOK /\ SafetyInv /\ ReleaseInv => BackendIsFreed
    <2> SUFFICES ASSUME TypeOK, SafetyInv, ReleaseInv, AtRest, NEW s \in Sessions,
                        bridge[s] = "left", active = s, s \notin failed
                 PROVE  FALSE
      BY DEF BackendIsFreed
    <2>1. SessionOK(s) /\ ReleaseOK(s)
      BY DEF SafetyInv, ReleaseInv
    <2>2. /\ at[Closer(s)] \in Resting \cup {"receive"}
          /\ \/ at[Handler(s)] \in Resting
             \/ at[Handler(s)] = "receive" /\ socket[s] # "closed"
      BY OfSession DEF AtRest
    <2>3. s \notin closed
      BY <2>1, <2>2 DEF ReleaseOK, CloseStations, FatalStations, Resting
    <2>4. ~Fresh(s)
      BY <2>1 DEF ReleaseOK
    <2>5. at[Handler(s)] = "receive" /\ socket[s] # "closed"
      BY <2>1, <2>2, <2>3, <2>4 DEF SessionOK, Fresh, Serving, PushStations, Resting
    <2> QED BY <2>1, <2>3, <2>5 DEF ReleaseOK, Gone
  <1> QED BY <1>1, ReleaseCorrect, SafetyCorrect, BridgeTypesCorrect, PTL

-----------------------------------------------------------------------------
(* Nobody waits in vain.  Who waits for the finalize waits for one that runs, and
   whoever has been woken keeps the thread of the handler from starting another. *)

AwaitsOK(s) ==
    \A p \in {Handler(s), Closer(s)} :
        /\ drain[p] = "waiting" => task[s] = "running"
        /\ drain[p] \notin {"idle", "waiting"} =>
             task[s] # "running" /\ at[Handler(s)] # "send"

AwaitsInv == \A s \in Sessions : AwaitsOK(s)

LEMMA AwaitsKept ==
    ASSUME NEW s \in Sessions, AwaitsInv, Only(s), AwaitsOK(s)' PROVE AwaitsInv'
  <1>1. ASSUME NEW t \in Sessions, t # s PROVE AwaitsOK(t)'
    BY <1>1 DEF AwaitsInv, AwaitsOK, Only, Same
  <1> QED BY <1>1 DEF AwaitsInv

\* The handler sends an output only of a call nobody had been woken before.
LEMMA HandlerAwaits ==
    ASSUME BackendTypeOK, NEW s \in Sessions, SessionOK(s), AwaitsOK(s), HandlerStep(s)
    PROVE  AwaitsOK(s)'
  <1>1. /\ drain' = drain
        /\ \/ task'[s] = "running" <=> task[s] = "running"
           \/ at[Handler(s)] = "send" /\ at'[Handler(s)] # "send"
        /\ at'[Handler(s)] = "send" => Settled(s) \/ at[Handler(s)] = "send"
        /\ at[Handler(s)] \in {"register"} \cup Serving
    <2> USE HandlerGoes DEF Serving, PushStations
    <2>1. ASSUME Fatal(s) \/ CloseBegins(Handler(s))
          PROVE  drain' = drain /\ at'[Handler(s)] # "send"
      BY <2>1, OfSession DEF Fatal, CloseBegins
    <2>2. CASE Register(s)
      BY <2>1, <2>2 DEF Register
    <2>3. CASE Prepare(s)
      BY <2>1, <2>3 DEF Prepare, SendFails, CloseBegins
    <2>4. CASE Receive(s)
      BY <2>1, <2>4 DEF Receive
    <2>5. CASE Disconnected(s)
      BY <2>1, <2>5 DEF Disconnected, CloseBegins
    <2>6. CASE WaitFinalize(s)
      BY <2>1, <2>6 DEF WaitFinalize, Raise, BackendTypeOK
    <2>7. CASE DuplexStep(s) \/ TurnStep(s)
      BY <2>1, <2>7 DEF DuplexStep, TurnStep, StepReturns
    <2>8. CASE SendUnit(s)
      BY <2>1, <2>8 DEF SendUnit, SendFails, NextMessage
    <2>9. CASE SendAnswer(s) \/ Stream(s)
      BY <2>1, <2>9 DEF SendAnswer, Stream, SendFails, CloseBegins, NextMessage
    <2>10. CASE Linger(s)
      BY <2>1, <2>10 DEF Linger, SendFails, CloseBegins
    <2> QED
      BY <2>2, <2>3, <2>4, <2>5, <2>6, <2>7, <2>8, <2>9, <2>10 DEF HandlerStep
  <1>2. drain[Handler(s)] = "idle"
    BY <1>1 DEF SessionOK, Serving, PushStations, DrainStations
  <1>3. Settled(s) => drain[Closer(s)] \in {"idle", "waiting"}
    BY OfSession DEF Settled
  <1>4. task[s] = "running" => at[Handler(s)] # "send"
    BY DEF SessionOK
  <1> QED BY <1>1, <1>2, <1>3, <1>4 DEF AwaitsOK

\* A process that ends its session is none that sends.
LEMMA EndingAwaits ==
    ASSUME BackendTypeOK, NEW p \in Processes, SessionOK(p[2]), AwaitsOK(p[2]),
           CloseStep(p) \/ DrainTimesOut(p)
    PROVE  AwaitsOK(p[2])'
  <1> DEFINE s == p[2]
  <1>1. /\ s \in Sessions /\ Handler(s) \in Processes /\ Closer(s) \in Processes
        /\ p = Handler(s) \/ p = Closer(s)
        /\ Handler(s)[2] = s /\ Closer(s)[2] = s
    BY ProcessOf, OfSession
  <1>2. at'[Handler(s)] = "send" => at[Handler(s)] = "send"
    <2>1. UNCHANGED <<at, active, reply, failed>> \/ \E station : Ends(p, station)
      BY CloseDoes
    <2>2. CASE at' = at
      BY <2>2
    <2>3. CASE \E station : Ends(p, station)
      <3>1. PICK station : Ends(p, station)
        BY <2>3
      <3>2. station # "send" /\ Goto(p, station)
        BY <3>1 DEF Ends, CloseStations, FatalStations
      <3> QED BY <1>1, <3>2, ProcessGoes
    <2> QED BY <2>1, <2>2, <2>3
  <1>3. ASSUME Drain(p) PROVE AwaitsOK(s)'
    <2>1. /\ drain \in [Processes -> Drains]
          /\ task \in [Sessions -> {"none", "running", "returned", "failed", "cancelled"}]
      BY DEF BackendTypeOK, Drains
    <2>2. \A q \in {Handler(s), Closer(s)} :
            /\ drain[q] = "waiting" => task[s] = "running"
            /\ drain[q] \notin {"idle", "waiting"} =>
                 task[s] # "running" /\ at[Handler(s)] # "send"
      BY DEF AwaitsOK
    <2>3. \/ /\ drain[p] = "idle" /\ task[s] = "running" /\ task'[s] = "running"
             /\ drain'[p] = "waiting"
          \/ /\ drain[p] \notin {"idle", "waiting"} \/ task[s] # "running"
             /\ drain'[p] = "idle" /\ task'[s] # "running"
      BY <1>1, <1>3, <2>1 DEF Drain
    <2>4. \A q \in Processes : q # p => drain'[q] = drain[q]
      BY <1>3, <2>1 DEF Drain
    <2> HIDE DEF s
    <2> QED BY <1>1, <1>2, <2>2, <2>3, <2>4 DEF AwaitsOK
  <1>4. ASSUME DrainTimesOut(p) PROVE AwaitsOK(s)'
    <2>1. task[s] = "running" /\ at[Handler(s)] # "send"
      BY <1>4 DEF DrainTimesOut, SessionOK
    <2>2. /\ task'[s] \in {"none", "cancelled"}
          /\ \A q \in {Handler(s), Closer(s)} : drain'[q] # "waiting"
      BY <1>1, <1>4 DEF DrainTimesOut, BackendTypeOK
    <2> HIDE DEF s
    <2> QED BY <1>2, <2>1, <2>2 DEF AwaitsOK
  <1>5. CASE CloseStep(p) /\ ~Drain(p)
    <2>1. UNCHANGED <<task, drain>>
      BY <1>5 DEF CloseStep, Stop, Cleanup, Notify, Forget
    <2> QED BY <1>2, <2>1 DEF AwaitsOK
  <1> QED BY <1>3, <1>4, <1>5

\* The end of a finalize wakes all who wait for it.
LEMMA ThreadAwaits ==
    ASSUME BackendTypeOK, NEW s \in Sessions, SessionOK(s), AwaitsOK(s),
           FinalizeEnds(s) \/ ZombieEnds(s)
    PROVE  AwaitsOK(s)'
  <1>1. CASE FinalizeEnds(s)
    <2>1. /\ task[s] = "running" /\ task'[s] # "running" /\ at' = at
          /\ \A p \in {Handler(s), Closer(s)} : drain'[p] # "waiting"
      BY <1>1, OfSession DEF FinalizeEnds, BackendTypeOK
    <2> QED BY <2>1 DEF AwaitsOK, SessionOK
  <1>2. CASE ZombieEnds(s)
    BY <1>2 DEF ZombieEnds, AwaitsOK
  <1> QED BY <1>1, <1>2

LEMMA CloseSessionAwaits ==
    ASSUME BackendTypeOK, NEW s \in Sessions, AwaitsOK(s), CloseSession(s)
    PROVE  AwaitsOK(s)'
  <1>1. UNCHANGED <<task, drain>> /\ at'[Handler(s)] = at[Handler(s)]
    BY CloserGoes DEF CloseSession, CloseBegins
  <1> QED BY <1>1 DEF AwaitsOK

LEMMA BridgeAwaits ==
    ASSUME BackendTypeOK, NEW s \in Sessions, AwaitsInv,
           \/ BridgeStep(s) \/ Arrive(s) \/ Greet(s) \/ TurnBack(s)
           \/ Push(s) \/ AskClose(s) \/ ClientLeaves(s)
           \/ GiveUp(s) \/ Drop(s)
    PROVE  AwaitsInv'
  <1>1. /\ UNCHANGED <<task, drain>>
        /\ at' = at \/ Goto(Handler(s), "register")
    BY DEF BridgeStep, AcceptClient, Greet, TurnBack, Accept, Leave, To, Created,
           InitFails, HearDrop, HearClosed, CloseReturns, CloseRaises, PostClose, Arrive,
           Push, AskClose, ClientLeaves, GiveUp, Drop, server
  <1>2. \A t \in Sessions : at'[Handler(t)] = "send" => at[Handler(t)] = "send"
    BY <1>1, HandlerGoes
  <1> QED BY <1>1, <1>2 DEF AwaitsInv, AwaitsOK

LEMMA AwaitsStep == TypeOK /\ SafetyInv /\ AwaitsInv /\ [Next]_vars => AwaitsInv'
  <1> SUFFICES ASSUME TypeOK, SafetyInv, AwaitsInv, [Next]_vars PROVE AwaitsInv'
    OBVIOUS
  <1>0. BackendTypeOK /\ \A s \in Sessions : SessionOK(s) /\ AwaitsOK(s)
    BY DEF TypeOK, SafetyInv, AwaitsInv
  <1>1. CASE UNCHANGED vars
    BY <1>1 DEF vars, server, AwaitsInv, AwaitsOK
  <1>2. ASSUME NEW s \in Sessions,
               HandlerStep(s) \/ FinalizeEnds(s) \/ ZombieEnds(s) \/ CloseSession(s)
        PROVE  AwaitsInv'
    <2>1. Only(s)
      BY <1>0, <1>2, HandlerOK, ThreadOK, CloseSessionOK
    <2>2. AwaitsOK(s)'
      BY <1>0, <1>2, HandlerAwaits, ThreadAwaits, CloseSessionAwaits
    <2> QED BY <2>1, <2>2, AwaitsKept
  <1>3. ASSUME NEW p \in Processes, CloseStep(p) \/ DrainTimesOut(p) PROVE AwaitsInv'
    <2>1. p[2] \in Sessions
      BY ProcessOf
    <2>2. SessionOK(p[2]) /\ AwaitsOK(p[2])
      BY <1>0, <2>1
    <2>3. Only(p[2]) /\ AwaitsOK(p[2])'
      BY <1>0, <1>3, <2>2, CloseOK, TimeOutOK, EndingAwaits
    <2> QED BY <2>1, <2>3, AwaitsKept
  <1> QED
    BY <1>0, <1>1, <1>2, <1>3, BridgeAwaits DEF Next, Progress, ServerStep, TimeOut

LEMMA AwaitsCorrect == Spec => []AwaitsInv
  <1>1. BridgeInit => AwaitsInv
    <2> SUFFICES ASSUME BridgeInit, NEW s \in Sessions PROVE AwaitsOK(s)
      BY DEF AwaitsInv
    <2>1. drain[Handler(s)] = "idle" /\ drain[Closer(s)] = "idle"
      BY OfSession DEF BridgeInit, Init
    <2> QED BY <2>1 DEF AwaitsOK
  <1> QED BY <1>1, AwaitsStep, SafetyCorrect, BridgeTypesCorrect, PTL DEF Spec

\* As long as somebody is not at rest somebody goes on by himself, for any number of
\* sessions: a wait for the finalize, for another process of the session or for the
\* answer to a close is a wait for one who goes.  (_drain_finalize, _wait_finalize and
\* _run of BackendProtocolSession)
THEOREM RestCorrect == Spec => []SomebodyGoes
  <1>1. TypeOK /\ SafetyInv /\ AwaitsInv => SomebodyGoes
    <2> SUFFICES ASSUME TypeOK, SafetyInv, AwaitsInv, ~Going PROVE AtRest
      BY DEF SomebodyGoes
    <2>1. ASSUME NEW p \in Processes, at[p] \notin Resting
          PROVE  at[p] = "receive" /\ inbox[p[2]] = 0 /\ socket[p[2]] # "closed"
      <3>1. /\ p[2] \in Sessions /\ (p = Handler(p[2]) \/ p = Closer(p[2]))
            /\ task[p[2]] # "running"
        BY ProcessOf DEF Going
      <3>2. at[p] \notin CloseStations \cup FatalStations
        <4>1. SUFFICES ASSUME drain[p] = "waiting" PROVE FALSE
          BY DEF Going
        <4> QED BY <3>1, <4>1 DEF AwaitsInv, AwaitsOK
      <3>3. at[p] # "step"
        <4>1. SUFFICES ASSUME NEW q \in Processes, q[2] = p[2],
                              drain[q] \notin {"idle", "waiting"}
                       PROVE  FALSE
          BY DEF Going, Settled
        <4>2. at[q] \in DrainStations
          BY <3>1, <4>1, ProcessOf DEF SafetyInv, SessionOK
        <4> QED BY <4>1, <4>2 DEF Going, DrainStations, CloseStations, FatalStations
      <3>4. at[p] = "receive"
        <4>1. at[p] \in Stations
          BY DEF TypeOK, BackendTypeOK
        <4> QED BY <2>1, <3>1, <3>2, <3>3, <4>1 DEF Going, Stations, PushStations
      <3>5. inbox[p[2]] \in Nat
        BY <3>1 DEF TypeOK, BackendTypeOK
      <3> QED BY <3>4, <3>5 DEF Going
    <2>2. ASSUME NEW s \in Sessions
          PROVE  /\ task[s] # "running" /\ s \notin zombie /\ reply[s] # "pending"
                 /\ bridge[s] # "accepting"
                 /\ bridge[s] = "init" => s \notin created /\ socket[s] # "closed"
                 /\ bridge[s] \in {"relay", "asking"} =>
                      s \notin told /\ socket[s] # "closed"
                 /\ bridge[s] \in {"asking", "cleaning"} => reply[s] \notin {"ok", "error"}
      BY DEF Going
    <2> QED BY <2>1, <2>2 DEF AtRest
  <1> QED BY <1>1, AwaitsCorrect, SafetyCorrect, BridgeTypesCorrect, PTL

-----------------------------------------------------------------------------
(* Every step counts. *)

LEMMA StationRanks ==
    /\ StationRank["returned"] = 0 /\ StationRank["raised"] = 0
    /\ StationRank["forget"] = 4 /\ StationRank["notify"] = 8
    /\ StationRank["cleanup"] = 12 /\ StationRank["fatalCleanup"] = 12
    /\ StationRank["drainAgain"] = 16 /\ StationRank["fatalDrain"] = 16
    /\ StationRank["stop"] = 20 /\ StationRank["fatalStop"] = 20
    /\ StationRank["drain"] = 24 /\ StationRank["receive"] = 28
    /\ StationRank["linger"] = 32 /\ StationRank["send"] = 36
    /\ StationRank["stream"] = 36 /\ StationRank["step"] = 40
    /\ StationRank["wait"] = 44 /\ StationRank["prepare"] = 48
    /\ StationRank["register"] = 52 /\ StationRank["none"] = 56
  BY DEF StationRank

LEMMA StationRankType == \A station \in Stations : StationRank[station] \in Nat
  BY StationRanks DEF Stations, CloseStations, FatalStations, PushStations, Resting

LEMMA DrainRanks ==
    /\ DrainRank["idle"] = 2 /\ DrainRank["waiting"] = 1 /\ DrainRank["ok"] = 0
    /\ DrainRank["failed"] = 0 /\ DrainRank["cancelled"] = 0
  BY DEF DrainRank

LEMMA OtherRanks ==
    /\ TaskRank["none"] = 0 /\ TaskRank["returned"] = 1 /\ TaskRank["failed"] = 1
    /\ TaskRank["cancelled"] = 1 /\ TaskRank["running"] = 2
    /\ ReplyRank["none"] = 0 /\ ReplyRank["ok"] = 0 /\ ReplyRank["error"] = 0
    /\ ReplyRank["working"] = 1 /\ ReplyRank["pending"] = 2
    /\ SocketRank["none"] = 2 /\ SocketRank["open"] = 1 /\ SocketRank["closed"] = 0
    /\ BridgeRank["away"] = 21 /\ BridgeRank["accepting"] = 18
    /\ BridgeRank["greeting"] = 15
    /\ BridgeRank["init"] = 12 /\ BridgeRank["relay"] = 9 /\ BridgeRank["asking"] = 6
    /\ BridgeRank["cleaning"] = 3 /\ BridgeRank["left"] = 0
  BY DEF TaskRank, ReplyRank, SocketRank, BridgeRank

\* The terms of a session's rank are numbers.
RankOK(s) ==
    /\ \A p \in {Handler(s), Closer(s)} :
          StationRank[at[p]] \in Nat /\ DrainRank[drain[p]] \in Nat
    /\ ThreadRank(s) \in Nat /\ InputRank(s) \in Nat
    /\ ReplyRank[reply[s]] \in Nat /\ SocketRank[socket[s]] \in Nat
    /\ BridgeRank[bridge[s]] \in Nat

RankInv == \A s \in Sessions : RankOK(s)

LEMMA RankTypes == TypeOK => RankInv
  <1> SUFFICES ASSUME TypeOK, NEW s \in Sessions PROVE RankOK(s)
    BY DEF RankInv
  <1>1. \A p \in Processes : StationRank[at[p]] \in Nat
    BY StationRankType DEF TypeOK, BackendTypeOK
  <1>2. \A p \in Processes : DrainRank[drain[p]] \in Nat
    BY DrainRanks DEF TypeOK, BackendTypeOK
  <1>3. ThreadRank(s) \in Nat
    BY OtherRanks DEF ThreadRank, TypeOK, BackendTypeOK
  <1>4. ReplyRank[reply[s]] \in Nat
    BY OtherRanks DEF TypeOK, BackendTypeOK
  <1>5. SocketRank[socket[s]] \in Nat
    BY OtherRanks DEF TypeOK, BackendTypeOK
  <1>6. BridgeRank[bridge[s]] \in Nat
    BY OtherRanks DEF TypeOK
  <1>7. InputRank(s) \in Nat
    BY InputsAssumption DEF InputRank, ToCome, TypeOK, BackendTypeOK
  <1> QED BY <1>1, <1>2, <1>3, <1>4, <1>5, <1>6, <1>7, OfSession DEF RankOK

\* What a step leaves of a session that it is not of.
LEMMA RankKept ==
    ASSUME NEW t \in Sessions, Same(t),
           socket'[t] = socket[t], reply'[t] = reply[t], bridge'[t] = bridge[t],
           inbox'[t] = inbox[t], pushes'[t] = pushes[t]
    PROVE  Rank(t)' = Rank(t)
  <1>1. /\ ProcessRank(Handler(t))' = ProcessRank(Handler(t))
        /\ ProcessRank(Closer(t))' = ProcessRank(Closer(t))
    BY DEF ProcessRank, Same
  <1>2. ThreadRank(t)' = ThreadRank(t)
    BY DEF ThreadRank, Same
  <1>3. CloseRank(t)' = CloseRank(t) /\ InputRank(t)' = InputRank(t)
    BY DEF CloseRank, InputRank, ToCome
  <1> QED BY <1>1, <1>2, <1>3 DEF Rank

\* The stations at which an operation of the handler ends badly.
BadEnds == {"fatalStop", "forget", "returned", "drain"}

LEMMA EndsBadly ==
    ASSUME BackendTypeOK, NEW s \in Sessions, Fatal(s) \/ CloseBegins(Handler(s))
    PROVE  /\ \E station \in BadEnds : Goto(Handler(s), station)
           /\ drain' = drain /\ SocketRank[socket'[s]] <= SocketRank[socket[s]]
  <1>1. /\ SocketRank["closed"] <= SocketRank[socket[s]]
        /\ SocketRank[socket[s]] <= SocketRank[socket[s]]
    BY OtherRanks DEF BackendTypeOK
  <1>2. socket'[s] = "closed" \/ socket' = socket
    BY DEF Fatal, CloseBegins, BackendTypeOK
  <1> QED BY <1>1, <1>2 DEF Fatal, CloseBegins, BadEnds

\* The threads of a session that a step of its handler leaves behind.
LEMMA HandlerThreads ==
    ASSUME BackendTypeOK, NEW s \in Sessions, HandlerStep(s)
    PROVE  ThreadRank(s)' <= ThreadRank(s) + 2
  <1>1. \/ task' = task /\ zombie' \in {zombie, zombie \cup {s}}
        \/ zombie' = zombie /\ task' = [task EXCEPT ![s] = "none"]
        \/ zombie' = zombie /\ task' = [task EXCEPT ![s] = "running"]
    BY DEF HandlerStep, Register, Prepare, Receive, Disconnected, WaitFinalize, DuplexStep,
           TurnStep, StepReturns, SendUnit, SendAnswer, Stream, Linger, SendFails,
           CloseBegins
  <1>2. task[s] \in {"none", "running", "returned", "failed", "cancelled"}
    BY DEF BackendTypeOK
  <1>3. \/ task'[s] = task[s]
        \/ (s \in zombie' <=> s \in zombie) /\ task'[s] \in {"none", "running"}
    BY <1>1 DEF BackendTypeOK
  <1> QED BY <1>2, <1>3, OtherRanks DEF ThreadRank

\* A step of the handler takes it at least one station down, but for an input, which
\* takes it up from "receive" again.
HandlerDown(s) ==
    \E station \in Stations :
        /\ Goto(Handler(s), station)
        /\ StationRank[station] <= StationRank[at[Handler(s)]] - 4

LEMMA HandlerMoves ==
    ASSUME BackendTypeOK, NEW s \in Sessions, HandlerStep(s), ~Receive(s)
    PROVE  /\ UNCHANGED <<drain, reply, inbox>> /\ HandlerDown(s)
           /\ SocketRank[socket'[s]] <= SocketRank[socket[s]]
  <1> DEFINE Here == at[Handler(s)]
             Moves == /\ UNCHANGED <<drain, reply, inbox>> /\ HandlerDown(s)
                      /\ SocketRank[socket'[s]] <= SocketRank[socket[s]]
  <1> USE StationRanks
  <1>0. Fatal(s) => UNCHANGED reply
    BY DEF Fatal
  <1>1. ASSUME NEW station \in Stations, Goto(Handler(s), station),
               StationRank[station] <= StationRank[Here] - 4,
               UNCHANGED <<drain, reply, inbox, socket>>
        PROVE  Moves
    <2>1. SocketRank[socket[s]] <= SocketRank[socket[s]]
      BY OtherRanks DEF BackendTypeOK
    <2> QED BY <1>1, <2>1 DEF HandlerDown
  <1>2. ASSUME Fatal(s) \/ CloseBegins(Handler(s)), UNCHANGED <<reply, inbox>>,
               Here \in {"register"} \cup Serving
        PROVE  Moves
    <2>1. /\ \E station \in BadEnds : Goto(Handler(s), station)
          /\ drain' = drain /\ SocketRank[socket'[s]] <= SocketRank[socket[s]]
      BY <1>2, EndsBadly
    <2>2. StationRank[Here] >= 28 /\ StationRank[Here] \in Nat
      BY <1>2 DEF Serving, PushStations
    <2>3. PICK station \in BadEnds : Goto(Handler(s), station)
      BY <2>1
    <2>4. station \in Stations /\ StationRank[station] <= StationRank[Here] - 4
      BY <2>2 DEF BadEnds, Stations, CloseStations, FatalStations, Resting
    <2> QED BY <1>2, <2>1, <2>3, <2>4 DEF HandlerDown
  <1>3. {"prepare", "receive", "step", "send", "stream", "linger", "returned"}
          \subseteq Stations
    BY DEF Stations, PushStations, Resting
  <1> HIDE DEF Moves
  <1>4. ASSUME Register(s) PROVE Moves
    BY <1>0, <1>1, <1>2, <1>3, <1>4 DEF Register, Serving
  <1>5. ASSUME Prepare(s) PROVE Moves
    BY <1>0, <1>1, <1>2, <1>3, <1>5 DEF Prepare, SendFails, Serving
  <1>6. ASSUME Disconnected(s) PROVE Moves
    BY <1>2, <1>6 DEF Disconnected, Serving
  <1>7. ASSUME WaitFinalize(s) PROVE Moves
    <2>1. CASE Raise(Handler(s)) /\ Here = "wait" /\ UNCHANGED <<drain, inbox>>
                 /\ socket' = [socket EXCEPT ![s] = "closed"]
      <3>1. Goto(Handler(s), "raised") /\ reply' = reply
        BY <2>1, OfSession DEF Raise, Answer
      <3>2. "raised" \in Stations /\ StationRank["raised"] <= StationRank[Here] - 4
        BY <2>1 DEF Stations, Resting
      <3>3. SocketRank[socket'[s]] <= SocketRank[socket[s]]
        BY <2>1, OtherRanks DEF BackendTypeOK
      <3> QED BY <2>1, <3>1, <3>2, <3>3 DEF HandlerDown, Moves
    <2> QED
      BY <1>0, <1>1, <1>2, <1>3, <1>7, <2>1 DEF WaitFinalize, Serving, PushStations
  <1>8. ASSUME DuplexStep(s) \/ TurnStep(s) PROVE Moves
    BY <1>0, <1>1, <1>2, <1>3, <1>8
    DEF DuplexStep, TurnStep, StepReturns, Serving, PushStations
  <1>9. ASSUME SendUnit(s) \/ SendAnswer(s) \/ Stream(s) PROVE Moves
    <2>1. Here \in {"send", "stream"} /\ inbox' = inbox
      BY <1>9 DEF SendUnit, SendAnswer, Stream
    <2>2. ASSUME Fatal(s) \/ SendFails(s) PROVE Moves
      BY <1>0, <1>2, <2>1, <2>2 DEF SendFails, Serving, PushStations
    <2>3. ASSUME ~(Fatal(s) \/ SendFails(s)) PROVE Moves
      <3>1. /\ \E station \in {"receive", "returned", "linger"} : Goto(Handler(s), station)
            /\ UNCHANGED <<drain, reply, socket>>
        BY <1>9, <2>3 DEF SendUnit, SendAnswer, Stream, NextMessage
      <3> QED BY <1>1, <1>3, <2>1, <3>1
    <2> QED BY <2>2, <2>3
  <1>10. ASSUME Linger(s) PROVE Moves
    BY <1>0, <1>2, <1>10 DEF Linger, SendFails, Serving, PushStations
  <1> QED
    BY <1>4, <1>5, <1>6, <1>7, <1>8, <1>9, <1>10 DEF HandlerStep, Moves

\* The session has less to do than before.
Lower(s) == Rank(s) \in Nat /\ Rank(s)' \in Nat /\ Rank(s)' < Rank(s)

LEMMA HandlerCounts ==
    ASSUME TypeOK, NEW s \in Sessions, RankOK(s), RankOK(s)', HandlerStep(s),
           UNCHANGED bridgeVars
    PROVE  Lower(s)
  <1>0. BackendTypeOK
    BY DEF TypeOK
  <1>1. bridge' = bridge /\ pushes' = pushes
    BY DEF bridgeVars
  <1>2. CASE Receive(s)
    <2>1. /\ at[Handler(s)] = "receive" /\ inbox[s] > 0
          /\ inbox' = [inbox EXCEPT ![s] = @ - 1]
          /\ UNCHANGED <<task, zombie, drain, reply>>
      BY <1>2 DEF Receive, Fatal
    <2>2. inbox \in [Sessions -> Nat] /\ ToCome(s) \in Nat /\ ToCome(s)' = ToCome(s)
      BY <1>1, InputsAssumption DEF TypeOK, BackendTypeOK, ToCome
    <2>3. InputRank(s)' = InputRank(s) - 20
      BY <2>1, <2>2 DEF InputRank
    <2>4. \E station \in {"wait", "step", "fatalStop", "forget"} : Goto(Handler(s), station)
      BY <1>2 DEF Receive, Fatal
    <2>5. /\ StationRank[at'[Handler(s)]] <= StationRank[at[Handler(s)]] + 16
          /\ at'[Closer(s)] = at[Closer(s)]
      BY <1>0, <2>1, <2>4, HandlerGoes, StationRanks
    <2>6. SocketRank[socket'[s]] <= SocketRank[socket[s]]
      <3>1. socket' = socket \/ Fatal(s)
        BY <1>2 DEF Receive
      <3> QED BY <1>0, <3>1, EndsBadly, OtherRanks DEF BackendTypeOK
    <2>7. ThreadRank(s)' = ThreadRank(s)
      BY <2>1 DEF ThreadRank
    <2> QED BY <1>1, <2>1, <2>3, <2>5, <2>6, <2>7
            DEF RankOK, Lower, Rank, ProcessRank, CloseRank
  <1>3. CASE ~Receive(s)
    <2>1. /\ UNCHANGED <<drain, reply, inbox>> /\ HandlerDown(s)
          /\ SocketRank[socket'[s]] <= SocketRank[socket[s]]
          /\ ThreadRank(s)' <= ThreadRank(s) + 2
      BY <1>0, <1>3, HandlerMoves, HandlerThreads
    <2>2. /\ StationRank[at'[Handler(s)]] <= StationRank[at[Handler(s)]] - 4
          /\ at'[Closer(s)] = at[Closer(s)]
      BY <1>0, <2>1, HandlerGoes DEF HandlerDown
    <2>3. InputRank(s)' = InputRank(s)
      BY <1>1, <2>1 DEF InputRank, ToCome
    <2> QED BY <1>1, <2>1, <2>2, <2>3 DEF RankOK, Lower, Rank, ProcessRank, CloseRank
  <1> QED BY <1>2, <1>3

\* A process that ends its session goes at least one station down, or begins to wait.
LEMMA EndingMoves ==
    ASSUME BackendTypeOK, NEW p \in Processes, SessionOK(p[2]),
           CloseStep(p) \/ DrainTimesOut(p)
    PROVE  \/ /\ drain[p] = "idle" /\ drain' = [drain EXCEPT ![p] = "waiting"]
              /\ UNCHANGED <<at, task, zombie, reply, socket, inbox>>
           \/ /\ \E station \in Stations :
                   /\ Goto(p, station)
                   /\ StationRank[station] <= StationRank[at[p]] - 4
              /\ \A q \in Processes : q # p => DrainRank[drain'[q]] <= DrainRank[drain[q]]
              /\ ThreadRank(p[2])' <= ThreadRank(p[2]) + 1
              /\ ReplyRank[reply'[p[2]]] <= ReplyRank[reply[p[2]]]
              /\ SocketRank[socket'[p[2]]] <= SocketRank[socket[p[2]]]
              /\ inbox' = inbox
  <1> DEFINE s == p[2]
             Here == at[p]
             Down == \E station \in Stations :
                       Goto(p, station) /\ StationRank[station] <= StationRank[Here] - 4
  <1>0. s \in Sessions
    BY ProcessOf
  <1>1. {"raised", "forget", "stop", "notify", "cleanup", "fatalCleanup", "drainAgain",
         "fatalDrain", "returned"} \subseteq Stations
    BY DEF Stations, CloseStations, FatalStations, Resting
  <1>2. ASSUME Raise(p) \/ DrainRaises(p),
               Here \in {"drain", "drainAgain", "fatalDrain", "cleanup"}
        PROVE  Down /\ ReplyRank[reply'[s]] <= ReplyRank[reply[s]]
    <2>1. Down
      BY <1>1, <1>2, StationRanks DEF Raise, DrainRaises
    <2>2. reply'[s] = reply[s] \/ reply'[s] = "error"
      BY <1>0, <1>2 DEF Raise, DrainRaises, Answer, BackendTypeOK
    <2>3. /\ ReplyRank["error"] <= ReplyRank[reply[s]]
          /\ ReplyRank[reply[s]] <= ReplyRank[reply[s]]
      BY <1>0, OtherRanks DEF BackendTypeOK
    <2> QED BY <2>1, <2>2, <2>3
  <1>3. \A d \in Drains : DrainRank[d] \in Nat
    BY DrainRanks DEF Drains
  <1>4. /\ drain \in [Processes -> Drains]
        /\ task[s] \in {"none", "running", "returned", "failed", "cancelled"}
    BY <1>0 DEF BackendTypeOK, Drains
  <1>5. /\ \A q \in Processes : DrainRank[drain[q]] <= DrainRank[drain[q]]
        /\ ReplyRank[reply[s]] <= ReplyRank[reply[s]]
        /\ SocketRank[socket[s]] <= SocketRank[socket[s]]
        /\ SocketRank["closed"] <= SocketRank[socket[s]]
        /\ ReplyRank["ok"] <= ReplyRank[reply[s]]
    BY <1>0, <1>3, <1>4, OtherRanks DEF BackendTypeOK
  <1> DEFINE Moves == /\ Down
                      /\ \A q \in Processes :
                           q # p => DrainRank[drain'[q]] <= DrainRank[drain[q]]
                      /\ ThreadRank(s)' <= ThreadRank(s) + 1
                      /\ ReplyRank[reply'[s]] <= ReplyRank[reply[s]]
                      /\ SocketRank[socket'[s]] <= SocketRank[socket[s]]
                      /\ inbox' = inbox
             Waits == /\ drain[p] = "idle" /\ drain' = [drain EXCEPT ![p] = "waiting"]
                      /\ UNCHANGED <<at, task, zombie, reply, socket, inbox>>
  <1>6. ASSUME Drain(p) PROVE Waits \/ Moves
    <2>1. /\ Here \in {"drain", "drainAgain", "fatalDrain"}
          /\ UNCHANGED <<socket, inbox, zombie>>
      BY <1>6 DEF Drain
    <2>2. CASE ~Waits
      <3>1. /\ Raise(p) \/ DrainRaises(p) \/ (Goto(p, AfterDrain(p)) /\ reply' = reply)
            /\ task' = task \/ task' = [task EXCEPT ![s] = "none"]
            /\ drain' = drain \/ drain' = [drain EXCEPT ![p] = "idle"]
        BY <1>6, <2>2 DEF Drain
      <3>2. Down /\ ReplyRank[reply'[s]] <= ReplyRank[reply[s]]
        <4>1. CASE Goto(p, AfterDrain(p)) /\ reply' = reply
          <5>1. /\ AfterDrain(p) \in Stations
                /\ StationRank[AfterDrain(p)] <= StationRank[Here] - 4
            BY <1>1, <2>1, StationRanks DEF AfterDrain
          <5> QED BY <1>5, <4>1, <5>1
        <4> QED BY <1>2, <2>1, <3>1, <4>1
      <3>3. \A q \in Processes : q # p => DrainRank[drain'[q]] <= DrainRank[drain[q]]
        BY <1>4, <1>5, <3>1
      <3>4. ThreadRank(s)' <= ThreadRank(s) + 1
        <4>1. task'[s] \in {task[s], "none"}
          BY <1>0, <3>1 DEF BackendTypeOK
        <4> QED BY <1>4, <2>1, <4>1, OtherRanks DEF ThreadRank
      <3> HIDE DEF Down
      <3> QED BY <1>5, <2>1, <3>2, <3>3, <3>4
    <2> QED BY <2>2
  <1>7. ASSUME DrainTimesOut(p) PROVE Moves
    <2>1. /\ drain[p] = "waiting" /\ DrainRaises(p) /\ UNCHANGED <<socket, inbox>>
          /\ task[s] = "running" /\ task'[s] \in {"none", "cancelled"}
          /\ \A q \in Processes : q # p => drain'[q] \in {drain[q], "cancelled"}
      BY <1>0, <1>7 DEF DrainTimesOut, BackendTypeOK
    <2>2. Here \in {"drain", "drainAgain", "fatalDrain"}
      BY <2>1, ProcessOf DEF SessionOK, DrainStations
    <2>3. Down /\ ReplyRank[reply'[s]] <= ReplyRank[reply[s]]
      BY <1>2, <2>1, <2>2
    <2>4. \A q \in Processes : q # p => DrainRank[drain'[q]] <= DrainRank[drain[q]]
      BY <1>3, <1>4, <1>5, <2>1, DrainRanks
    <2>5. ThreadRank(s)' <= ThreadRank(s) + 1
      BY <2>1, OtherRanks DEF ThreadRank
    <2> HIDE DEF Down
    <2> QED BY <1>5, <2>1, <2>3, <2>4, <2>5
  <1>8. ASSUME CloseStep(p), ~Drain(p) PROVE Moves
    <2>1. UNCHANGED <<task, drain, zombie, inbox>>
      BY <1>8 DEF CloseStep, Stop, Cleanup, Notify, Forget
    <2>2. Down /\ ReplyRank[reply'[s]] <= ReplyRank[reply[s]]
      <3>2. CASE Stop(p)
        BY <1>1, <1>5, <3>2, StationRanks DEF Stop
      <3>3. CASE Cleanup(p)
        <4>1. CASE Raise(p) /\ Here = "cleanup"
          BY <1>2, <4>1
        <4>2. CASE ~(Raise(p) /\ Here = "cleanup")
          BY <1>1, <1>5, <3>3, <4>2, StationRanks DEF Cleanup
        <4> QED BY <4>1, <4>2
      <3>4. CASE Notify(p)
        BY <1>1, <1>5, <3>4, StationRanks DEF Notify
      <3>5. CASE Forget(p)
        <4>1. reply'[s] \in {reply[s], "ok"}
          BY <1>0, <3>5 DEF Forget, Answer, BackendTypeOK
        <4>2. Down
          BY <1>1, <3>5, StationRanks DEF Forget
        <4> QED BY <1>5, <4>1, <4>2
      <3> QED BY <1>8, <3>2, <3>3, <3>4, <3>5 DEF CloseStep
    <2>3. socket'[s] \in {socket[s], "closed"}
      BY <1>0, <1>8 DEF CloseStep, Stop, Cleanup, Notify, Forget, BackendTypeOK
    <2>4. ThreadRank(s)' <= ThreadRank(s) + 1
      BY <1>4, <2>1, OtherRanks DEF ThreadRank
    <2> HIDE DEF Down
    <2> QED BY <1>5, <2>1, <2>2, <2>3, <2>4
  <1> QED BY <1>6, <1>7, <1>8

LEMMA EndingCounts ==
    ASSUME TypeOK, NEW p \in Processes, SessionOK(p[2]), RankOK(p[2]), RankOK(p[2])',
           CloseStep(p) \/ DrainTimesOut(p), UNCHANGED bridgeVars
    PROVE  Lower(p[2])
  <1> DEFINE s == p[2]
  <1>0. /\ BackendTypeOK /\ drain \in [Processes -> Drains] /\ s \in Sessions
        /\ bridge' = bridge /\ pushes' = pushes
    BY ProcessOf DEF TypeOK, BackendTypeOK, Drains, bridgeVars
  <1>1. /\ Handler(s) \in Processes /\ Closer(s) \in Processes /\ Handler(s) # Closer(s)
        /\ p = Handler(s) \/ p = Closer(s)
    BY ProcessOf, OfSession
  <1>2. ASSUME drain[p] = "idle", drain' = [drain EXCEPT ![p] = "waiting"],
               UNCHANGED <<at, task, zombie, reply, socket, inbox>>
        PROVE  Lower(s)
    <2>1. /\ DrainRank[drain'[p]] = DrainRank[drain[p]] - 1
          /\ \A q \in Processes : q # p => drain'[q] = drain[q]
      BY <1>0, <1>2, DrainRanks
    <2>2. ThreadRank(s)' = ThreadRank(s) /\ InputRank(s)' = InputRank(s)
      BY <1>0, <1>2 DEF ThreadRank, InputRank, ToCome
    <2>3. RankOK(s) /\ RankOK(s)'
      OBVIOUS
    <2> HIDE DEF s
    <2> QED BY <1>0, <1>1, <1>2, <2>1, <2>2, <2>3
            DEF RankOK, Lower, Rank, ProcessRank, CloseRank
  <1>3. ASSUME \E station \in Stations :
                 /\ Goto(p, station)
                 /\ StationRank[station] <= StationRank[at[p]] - 4,
               \A q \in Processes : q # p => DrainRank[drain'[q]] <= DrainRank[drain[q]],
               ThreadRank(s)' <= ThreadRank(s) + 1,
               ReplyRank[reply'[s]] <= ReplyRank[reply[s]],
               SocketRank[socket'[s]] <= SocketRank[socket[s]], inbox' = inbox
        PROVE  Lower(s)
    <2>1. /\ StationRank[at'[p]] <= StationRank[at[p]] - 4
          /\ \A q \in Processes : q # p => at'[q] = at[q]
      BY <1>0, <1>3, ProcessGoes
    <2>2. DrainRank[drain[p]] >= 0 /\ DrainRank[drain'[p]] <= 2
      <3>1. drain'[p] \in Drains
        BY CloseTypes, TimeOutTypes DEF TypeOK, BackendTypeOK, Drains
      <3> QED BY <1>0, <3>1, DrainRanks DEF Drains
    <2>3. InputRank(s)' = InputRank(s)
      BY <1>0, <1>3 DEF InputRank, ToCome
    <2>4. RankOK(s) /\ RankOK(s)'
      OBVIOUS
    <2> HIDE DEF s
    <2> QED BY <1>0, <1>1, <1>3, <2>1, <2>2, <2>3, <2>4
            DEF RankOK, Lower, Rank, ProcessRank, CloseRank
  <1> HIDE DEF s
  <1> QED BY <1>0, <1>2, <1>3, EndingMoves DEF s

LEMMA ThreadCounts ==
    ASSUME TypeOK, NEW s \in Sessions, RankOK(s), RankOK(s)',
           FinalizeEnds(s) \/ ZombieEnds(s), UNCHANGED bridgeVars
    PROVE  Lower(s)
  <1>1. UNCHANGED <<at, reply, socket, bridge, inbox, pushes>>
    BY DEF FinalizeEnds, ZombieEnds, bridgeVars
  <1>2. InputRank(s)' = InputRank(s)
    BY <1>1 DEF InputRank, ToCome
  <1>3. ThreadRank(s)' <= ThreadRank(s) - 1
    <2>1. CASE FinalizeEnds(s)
      BY <2>1, OtherRanks DEF FinalizeEnds, ThreadRank, TypeOK, BackendTypeOK
    <2>2. CASE ZombieEnds(s)
      BY <2>2, OtherRanks DEF ZombieEnds, ThreadRank, TypeOK, BackendTypeOK
    <2> QED BY <2>1, <2>2
  <1>4. \A p \in {Handler(s), Closer(s)} : DrainRank[drain'[p]] <= DrainRank[drain[p]]
    <2>1. \A p \in {Handler(s), Closer(s)} :
            \/ drain'[p] = drain[p]
            \/ drain[p] = "waiting" /\ drain'[p] \in {"ok", "failed"}
      BY OfSession DEF FinalizeEnds, ZombieEnds, TypeOK, BackendTypeOK
    <2> QED BY <2>1, DrainRanks DEF RankOK
  <1> QED BY <1>1, <1>2, <1>3, <1>4 DEF RankOK, Lower, Rank, ProcessRank, CloseRank

\* A close that is answered at once, or takes a process that has not run before.
LEMMA CloseSessionCounts ==
    ASSUME TypeOK, NEW s \in Sessions, SessionOK(s), RankOK(s), RankOK(s)',
           CloseSession(s), UNCHANGED bridgeVars
    PROVE  Lower(s)
  <1>1. /\ reply[s] = "pending" /\ UNCHANGED <<task, zombie, drain, socket, inbox>>
        /\ UNCHANGED <<bridge, pushes>>
    BY DEF CloseSession, CloseBegins, bridgeVars
  <1>2. reply'[s] \in {"error", "ok", "working"}
    BY DEF CloseSession, TypeOK, BackendTypeOK
  <1>3. ReplyRank[reply'[s]] <= ReplyRank[reply[s]] - 1
    BY <1>1, <1>2, OtherRanks
  <1>4. InputRank(s)' = InputRank(s) /\ ThreadRank(s)' = ThreadRank(s)
    BY <1>1 DEF InputRank, ToCome, ThreadRank
  <1>5. /\ at'[Handler(s)] = at[Handler(s)]
        /\ StationRank[at'[Closer(s)]] <= StationRank[at[Closer(s)]]
    <2>1. CASE at' = at
      BY <2>1 DEF RankOK
    <2>2. CASE CloseBegins(Closer(s)) /\ s \notin closed
      <3>1. Goto(Closer(s), "drain") /\ at[Closer(s)] = "none"
        BY <2>2, OfSession DEF CloseBegins, SessionOK
      <3> QED BY <3>1, CloserGoes, StationRanks DEF TypeOK
    <2> QED BY <2>1, <2>2 DEF CloseSession
  <1> QED BY <1>1, <1>3, <1>4, <1>5 DEF RankOK, Lower, Rank, ProcessRank, CloseRank

\* A session that is left has no inputs to come.
LEMMA BridgeCounts ==
    ASSUME TypeOK, NEW s \in Sessions, RankOK(s), RankOK(s)',
           \/ BridgeStep(s) \/ Arrive(s) \/ Greet(s) \/ TurnBack(s)
           \/ Push(s) \/ AskClose(s) \/ ClientLeaves(s)
           \/ GiveUp(s) \/ Drop(s)
    PROVE  Lower(s)
  <1> DEFINE Here == bridge[s]
  <1>0. /\ bridge \in [Sessions -> {"away", "accepting", "greeting", "init", "relay",
                                    "asking", "cleaning", "left"}]
        /\ socket \in [Sessions -> {"none", "open", "closed"}]
        /\ reply \in [Sessions -> Replies] /\ BackendTypeOK
        /\ inbox \in [Sessions -> Nat] /\ pushes \in [Sessions -> Nat]
        /\ MaxInputs[s] \in Nat /\ pushes[s] <= MaxInputs[s]
    BY InputsAssumption DEF TypeOK, BackendTypeOK, Replies
  <1>1. ASSUME NEW where \in {"accepting", "greeting", "init", "relay", "asking",
                             "cleaning", "left"},
               To(s, where), BridgeRank[where] <= BridgeRank[Here] - 3,
               pushes' = pushes \/ where = "left", inbox' = inbox,
               UNCHANGED <<at, task, drain, zombie>>,
               ReplyRank[reply'[s]] <= ReplyRank[reply[s]] + 2,
               SocketRank[socket'[s]] <= SocketRank[socket[s]]
        PROVE  Lower(s)
    <2>1. bridge'[s] = where
      BY <1>0, <1>1 DEF To
    <2>2. ThreadRank(s)' = ThreadRank(s)
      BY <1>1 DEF ThreadRank
    <2>3. InputRank(s)' <= InputRank(s)
      <3>1. ToCome(s) \in Nat
        BY <1>0 DEF ToCome
      <3>2. ToCome(s)' \in Nat /\ ToCome(s)' <= ToCome(s)
        <4>1. CASE where \in {"asking", "cleaning", "left"}
          BY <2>1, <3>1, <4>1 DEF ToCome
        <4>2. CASE where \notin {"asking", "cleaning", "left"}
          <5>1. Here \notin {"asking", "cleaning", "left"}
            BY <1>1, <4>2, OtherRanks
          <5> QED BY <1>0, <1>1, <2>1, <4>2, <5>1 DEF ToCome
        <4> QED BY <4>1, <4>2
      <3> QED BY <1>0, <1>1, <3>1, <3>2 DEF InputRank
    <2> QED BY <1>1, <2>1, <2>2, <2>3 DEF RankOK, Lower, Rank, ProcessRank, CloseRank
  <1>2. ReplyRank[reply[s]] \in 0..2 /\ SocketRank[socket[s]] \in 0..2
    BY <1>0, OtherRanks DEF Replies
  <1>3. CASE Greet(s)
    <2>1. /\ Here = "greeting" /\ at[Handler(s)] = "none"
          /\ To(s, "init") /\ Goto(Handler(s), "register")
          /\ socket' = [socket EXCEPT ![s] = "open"]
          /\ UNCHANGED <<task, drain, zombie, inbox, reply, pushes>>
      BY <1>3 DEF Greet, Accept
    <2>2. bridge'[s] = "init" /\ socket'[s] = "open"
      BY <1>0, <2>1 DEF To
    <2>3. at'[Handler(s)] = "register" /\ at'[Closer(s)] = at[Closer(s)]
      BY <1>0, <2>1, HandlerGoes
    <2>4. ThreadRank(s)' = ThreadRank(s) /\ InputRank(s)' = InputRank(s)
      BY <2>1, <2>2 DEF ThreadRank, InputRank, ToCome
    <2>5. /\ StationRank[at'[Handler(s)]] = StationRank[at[Handler(s)]] - 4
          /\ BridgeRank[bridge'[s]] = BridgeRank[bridge[s]] - 3
          /\ SocketRank[socket'[s]] <= SocketRank[socket[s]] + 1
      BY <1>2, <2>1, <2>2, <2>3, StationRanks, OtherRanks
    <2> QED BY <2>1, <2>3, <2>4, <2>5 DEF RankOK, Lower, Rank, ProcessRank, CloseRank
  <1>4. ASSUME Leave(s), Here \in {"greeting", "init", "relay", "asking", "cleaning"},
               inbox' = inbox,
               UNCHANGED <<at, task, drain, zombie>>,
               socket' = socket \/ socket' = [socket EXCEPT ![s] = "closed"],
               reply' = reply \/ reply' = [reply EXCEPT ![s] = "none"]
        PROVE  Lower(s)
    <2>1. BridgeRank["left"] <= BridgeRank[Here] - 3
      BY <1>4, OtherRanks
    <2>2. /\ ReplyRank[reply'[s]] <= ReplyRank[reply[s]] + 2
          /\ SocketRank[socket'[s]] <= SocketRank[socket[s]]
      <3>1. reply'[s] \in {reply[s], "none"} /\ socket'[s] \in {socket[s], "closed"}
        BY <1>0, <1>4
      <3> QED BY <1>2, <3>1, OtherRanks
    <2> QED BY <1>1, <1>4, <2>1, <2>2 DEF Leave
  <1>5. ASSUME PostClose(s),
               \/ Here = "relay" /\ (To(s, "asking") \/ To(s, "cleaning"))
               \/ Here = "asking" /\ To(s, "cleaning")
        PROVE  Lower(s)
    <2>1. /\ UNCHANGED <<at, task, drain, zombie, inbox, socket, pushes>>
          /\ reply'[s] = "pending"
      BY <1>0, <1>5 DEF PostClose
    <2>2. PICK where \in {"asking", "cleaning"} :
            To(s, where) /\ BridgeRank[where] <= BridgeRank[Here] - 3
      BY <1>5, OtherRanks
    <2>3. /\ ReplyRank[reply'[s]] <= ReplyRank[reply[s]] + 2
          /\ SocketRank[socket'[s]] <= SocketRank[socket[s]]
      BY <1>2, <2>1, OtherRanks
    <2> QED BY <1>1, <2>1, <2>2, <2>3
  <1>6. CASE Created(s) \/ Arrive(s) \/ AcceptClient(s)
    <2>1. /\ UNCHANGED <<at, task, drain, zombie, inbox, socket, reply, pushes>>
          /\ \/ Here = "init" /\ To(s, "relay")
             \/ Here = "away" /\ To(s, "accepting")
             \/ Here = "accepting" /\ To(s, "greeting")
      BY <1>6 DEF Created, Arrive, AcceptClient, server
    <2>2. PICK where \in {"relay", "accepting", "greeting"} :
            To(s, where) /\ BridgeRank[where] <= BridgeRank[Here] - 3
      BY <2>1, OtherRanks
    <2>3. /\ ReplyRank[reply'[s]] <= ReplyRank[reply[s]] + 2
          /\ SocketRank[socket'[s]] <= SocketRank[socket[s]]
      BY <1>2, <2>1
    <2> QED BY <1>1, <2>1, <2>2, <2>3
  <1>7. CASE TurnBack(s) \/ InitFails(s) \/ HearClosed(s) \/ CloseReturns(s)
    BY <1>4, <1>7 DEF TurnBack, InitFails, HearClosed, CloseReturns, server
  <1>8. CASE CloseRaises(s)
    BY <1>4, <1>5, <1>8 DEF CloseRaises
  <1>9. CASE HearDrop(s) \/ AskClose(s) \/ ClientLeaves(s)
    <2>1. CASE Here = "asking" /\ HearDrop(s)
      BY <1>5, <2>1 DEF HearDrop
    <2>2. CASE Here = "relay"
      BY <1>5, <1>9, <2>2 DEF HearDrop, AskClose, ClientLeaves
    <2> QED BY <1>9, <2>1, <2>2 DEF HearDrop, AskClose, ClientLeaves
  <1>10. CASE Push(s)
    <2>1. /\ Here = "relay" /\ pushes[s] < MaxInputs[s]
          /\ pushes' = [pushes EXCEPT ![s] = @ + 1] /\ inbox' = [inbox EXCEPT ![s] = @ + 1]
          /\ UNCHANGED <<at, task, drain, zombie, socket, reply, bridge>>
      BY <1>10 DEF Push
    <2>2. pushes'[s] = pushes[s] + 1 /\ inbox'[s] = inbox[s] + 1
      BY <1>0, <2>1
    <2>3. /\ ToCome(s) = MaxInputs[s] - pushes[s]
          /\ ToCome(s)' = MaxInputs[s] - pushes[s] - 1
      BY <1>0, <2>1, <2>2 DEF ToCome
    <2>4. InputRank(s)' = InputRank(s) - 1
      BY <1>0, <2>2, <2>3 DEF InputRank
    <2>5. ThreadRank(s)' = ThreadRank(s)
      BY <2>1 DEF ThreadRank
    <2> QED BY <2>1, <2>4, <2>5 DEF RankOK, Lower, Rank, ProcessRank, CloseRank
  <1>11. CASE GiveUp(s) \/ Drop(s)
    <2>1. /\ UNCHANGED <<at, task, drain, zombie, inbox, bridge, pushes>>
          /\ \/ reply[s] = "working" /\ reply'[s] = "error" /\ socket' = socket
             \/ socket[s] = "open" /\ socket'[s] = "closed" /\ reply' = reply
      BY <1>0, <1>11 DEF GiveUp, Drop, bridgeVars
    <2>2. ThreadRank(s)' = ThreadRank(s) /\ InputRank(s)' = InputRank(s)
      BY <2>1 DEF ThreadRank, InputRank, ToCome
    <2>3. ReplyRank[reply'[s]] + SocketRank[socket'[s]]
            = ReplyRank[reply[s]] + SocketRank[socket[s]] - 1
      BY <1>2, <2>1, OtherRanks
    <2> QED BY <2>1, <2>2, <2>3 DEF RankOK, Lower, Rank, ProcessRank, CloseRank
  <1> QED
    BY <1>3, <1>6, <1>7, <1>8, <1>9, <1>10, <1>11 DEF BridgeStep

\* What a step changes of the inputs is its session's.
LEMMA ServerInputs ==
    ASSUME BackendTypeOK, NEW s \in Sessions,
           HandlerStep(s) \/ FinalizeEnds(s) \/ ZombieEnds(s) \/ CloseSession(s)
    PROVE  \A t \in Sessions \ {s} : inbox'[t] = inbox[t]
  <1>1. CASE HandlerStep(s) /\ ~Receive(s)
    BY <1>1, HandlerMoves
  <1>2. CASE Receive(s)
    BY <1>2 DEF Receive
  <1>3. CASE FinalizeEnds(s) \/ ZombieEnds(s) \/ CloseSession(s)
    BY <1>3 DEF FinalizeEnds, ZombieEnds, CloseSession
  <1> QED BY <1>1, <1>2, <1>3

LEMMA EndingInputs ==
    ASSUME NEW p \in Processes, CloseStep(p) \/ DrainTimesOut(p) PROVE inbox' = inbox
  BY DEF CloseStep, Drain, Stop, Cleanup, Notify, Forget, DrainTimesOut

\* The step that is of s leaves the others with as much to do.
LEMMA OthersKept ==
    ASSUME NEW s \in Sessions, Apart(s), \A t \in Sessions \ {s} : Same(t),
           \A t \in Sessions \ {s} : inbox'[t] = inbox[t] /\ pushes'[t] = pushes[t]
    PROVE  \A t \in Sessions \ {s} : Rank(t)' = Rank(t)
  <1> SUFFICES ASSUME NEW t \in Sessions, t # s PROVE Rank(t)' = Rank(t)
    OBVIOUS
  <1> QED BY RankKept DEF Apart, Alike

LEMMA BridgeOthers ==
    ASSUME TypeOK, NEW s \in Sessions, Apart(s),
           \/ BridgeStep(s) \/ Arrive(s) \/ Greet(s) \/ TurnBack(s)
           \/ Push(s) \/ AskClose(s) \/ ClientLeaves(s)
           \/ GiveUp(s) \/ Drop(s)
    PROVE  /\ \A t \in Sessions \ {s} : Same(t)
           /\ \A t \in Sessions \ {s} : inbox'[t] = inbox[t] /\ pushes'[t] = pushes[t]
  <1>1. UNCHANGED <<task, drain, zombie>>
    BY DEF BridgeStep, AcceptClient, Greet, TurnBack, Accept, Leave, To, Created,
           InitFails, HearDrop, HearClosed, CloseReturns, CloseRaises, PostClose, Arrive,
           Push, AskClose, ClientLeaves, GiveUp, Drop, server
  <1>2. \A t \in Sessions \ {s} : Same(t)
    BY <1>1 DEF Apart, Alike, Same
  <1>3. /\ \/ inbox' = inbox
           \/ inbox' = [inbox EXCEPT ![s] = @ + 1]
        /\ \/ pushes' = pushes
           \/ pushes' = [pushes EXCEPT ![s] = 0]
           \/ pushes' = [pushes EXCEPT ![s] = @ + 1]
    BY DEF BridgeStep, AcceptClient, Greet, TurnBack, Accept, Leave, To, Created,
           InitFails, HearDrop, HearClosed, CloseReturns, CloseRaises, PostClose, Arrive,
           Push, AskClose, ClientLeaves, GiveUp, Drop, server, bridgeVars
  <1>4. \A t \in Sessions \ {s} : inbox'[t] = inbox[t] /\ pushes'[t] = pushes[t]
    BY <1>3 DEF TypeOK, BackendTypeOK
  <1> QED BY <1>2, <1>4

\* Every step leaves one session with less to do and the others with as much, for any
\* number of sessions and of inputs: a client's session, however often it times out,
\* breaks or is closed, comes to an end.  (the retry of RemoteBackendSession.close, the
\* loop of backend_ws, the drains of close and fatal)
THEOREM CountsCorrect == Spec => EveryStepCounts
  <1> DEFINE Counts == \E s \in Sessions :
                         /\ Rank(s) \in Nat /\ Rank(s)' \in Nat /\ Rank(s)' < Rank(s)
                         /\ \A t \in Sessions \ {s} : Rank(t)' = Rank(t)
  <1>1. TypeOK /\ SafetyInv /\ ReleaseInv /\ RankInv /\ RankInv' /\ [Next]_vars
          => [Counts]_vars
    <2> SUFFICES ASSUME TypeOK, SafetyInv, ReleaseInv, RankInv, RankInv', Next
                 PROVE  Counts
      OBVIOUS
    <2>0. /\ BackendTypeOK
          /\ \A s \in Sessions : SessionOK(s) /\ ReleaseOK(s) /\ RankOK(s) /\ RankOK(s)'
      BY DEF TypeOK, SafetyInv, ReleaseInv, RankInv
    <2>1. ASSUME NEW s \in Sessions, Lower(s), Apart(s), \A t \in Sessions \ {s} : Same(t),
                 \A t \in Sessions \ {s} : inbox'[t] = inbox[t] /\ pushes'[t] = pushes[t]
          PROVE  Counts
      <3>1. \A t \in Sessions \ {s} : Rank(t)' = Rank(t)
        BY <2>1, OthersKept
      <3> QED BY <2>1, <3>1 DEF Lower
    <2> HIDE DEF Counts
    <2>2. ASSUME NEW s \in Sessions, UNCHANGED bridgeVars, HandlerStep(s) \/ CloseSession(s)
          PROVE  Counts
      <3>1. Lower(s)
        BY <2>0, <2>2, HandlerCounts, CloseSessionCounts
      <3>2. Apart(s) /\ Only(s)
        BY <2>0, <2>2, HandlerReleases, CloseSessionReleases, HandlerOK, CloseSessionOK
           DEF bridgeVars
      <3>3. \A t \in Sessions \ {s} : inbox'[t] = inbox[t] /\ pushes'[t] = pushes[t]
        BY <2>0, <2>2, ServerInputs DEF bridgeVars
      <3> QED BY <2>1, <3>1, <3>2, <3>3 DEF Only
    <2>3. ASSUME NEW s \in Sessions, UNCHANGED bridgeVars, FinalizeEnds(s) \/ ZombieEnds(s)
          PROVE  Counts
      <3>1. Lower(s)
        BY <2>0, <2>3, ThreadCounts
      <3>2. Apart(s) /\ Only(s)
        BY <2>0, <2>3, ThreadReleases, ThreadOK DEF bridgeVars, Apart
      <3>3. \A t \in Sessions \ {s} : inbox'[t] = inbox[t] /\ pushes'[t] = pushes[t]
        BY <2>0, <2>3, ServerInputs DEF bridgeVars
      <3> QED BY <2>1, <3>1, <3>2, <3>3 DEF Only
    <2>4. ASSUME NEW p \in Processes, UNCHANGED bridgeVars, CloseStep(p) \/ DrainTimesOut(p)
          PROVE  Counts
      <3>1. p[2] \in Sessions
        BY ProcessOf
      <3>2. SessionOK(p[2]) /\ ReleaseOK(p[2]) /\ RankOK(p[2]) /\ RankOK(p[2])'
        BY <2>0, <3>1
      <3>3. Lower(p[2])
        BY <2>4, <3>2, EndingCounts
      <3>4. Apart(p[2]) /\ Only(p[2])
        BY <2>0, <2>4, <3>2, CloseReleases, CloseOK, TimeOutOK DEF bridgeVars
      <3>5. UNCHANGED <<inbox, pushes>>
        BY <2>4, EndingInputs DEF bridgeVars
      <3> QED BY <2>1, <3>1, <3>3, <3>4, <3>5 DEF Only
    <2>5. ASSUME NEW s \in Sessions,
                 \/ BridgeStep(s) \/ Arrive(s) \/ Greet(s) \/ TurnBack(s)
                 \/ Push(s) \/ AskClose(s) \/ ClientLeaves(s)
                 \/ GiveUp(s) \/ Drop(s)
          PROVE  Counts
      <3>1. Lower(s)
        BY <2>0, <2>5, BridgeCounts
      <3>2. Apart(s)
        BY <2>0, <2>5, BridgeReleases
      <3> QED BY <2>1, <2>5, <3>1, <3>2, BridgeOthers
    <2> QED
      BY <2>2, <2>3, <2>4, <2>5 DEF Next, Progress, ServerStep, TimeOut
  <1> QED
    BY <1>1, RankTypes, ReleaseCorrect, SafetyCorrect, BridgeTypesCorrect, PTL
    DEF Spec, EveryStepCounts

\* What a session takes at the most, its bridge, its handler, its close, its threads and
\* its connection together.
Short == \A s \in Sessions : Rank(s) <= 139 + 21 * MaxInputs[s]

\* So a session of n inputs is over in 139 + 21 n steps of its own, whatever the others
\* do.  (a handler of backend_ws and of _handle_remote_backend_runtime_ws)
THEOREM SessionsAreShort == Spec => []Short
  <1>1. BridgeInit => Short
    <2> SUFFICES ASSUME BridgeInit, NEW s \in Sessions
                 PROVE  Rank(s) <= 139 + 21 * MaxInputs[s]
      BY DEF Short
    <2>1. /\ at[Handler(s)] = "none" /\ at[Closer(s)] = "none"
          /\ drain[Handler(s)] = "idle" /\ drain[Closer(s)] = "idle"
          /\ task[s] = "none" /\ zombie = {} /\ reply[s] = "none" /\ socket[s] = "none"
          /\ bridge[s] = "away" /\ inbox[s] = 0 /\ pushes[s] = 0
      BY OfSession DEF BridgeInit, Init
    <2>2. ProcessRank(Handler(s)) = 58 /\ ProcessRank(Closer(s)) = 58
      BY <2>1, StationRanks, DrainRanks DEF ProcessRank
    <2>3. ThreadRank(s) = 0 /\ CloseRank(s) = 23
      BY <2>1, OtherRanks DEF ThreadRank, CloseRank
    <2>4. MaxInputs[s] \in Nat /\ InputRank(s) = 21 * MaxInputs[s]
      BY <2>1, InputsAssumption DEF InputRank, ToCome
    <2> QED BY <2>2, <2>3, <2>4 DEF Rank
  <1> DEFINE Counts == \E s \in Sessions :
                         /\ Rank(s) \in Nat /\ Rank(s)' \in Nat /\ Rank(s)' < Rank(s)
                         /\ \A t \in Sessions \ {s} : Rank(t)' = Rank(t)
  <1>2. Short /\ [Counts]_vars => Short'
    <2>1. Short /\ Counts => Short'
      <3> SUFFICES ASSUME Short, Counts, NEW t \in Sessions
                   PROVE  Rank(t)' <= 139 + 21 * MaxInputs[t]
        BY DEF Short
      <3>1. Rank(t) <= 139 + 21 * MaxInputs[t] /\ MaxInputs[t] \in Nat
        BY InputsAssumption DEF Short
      <3>2. PICK s \in Sessions :
              /\ Rank(s) \in Nat /\ Rank(s)' \in Nat /\ Rank(s)' < Rank(s)
              /\ \A u \in Sessions \ {s} : Rank(u)' = Rank(u)
        OBVIOUS
      <3> QED BY <3>1, <3>2
    <2>2. Short /\ UNCHANGED vars => Short'
      <3> SUFFICES ASSUME Short, UNCHANGED vars, NEW t \in Sessions PROVE Rank(t)' = Rank(t)
        BY DEF Short
      <3>1. Same(t)
        BY DEF vars, server, Same
      <3>2. /\ socket'[t] = socket[t] /\ reply'[t] = reply[t] /\ bridge'[t] = bridge[t]
            /\ inbox'[t] = inbox[t] /\ pushes'[t] = pushes[t]
        BY DEF vars, server, bridgeVars
      <3> QED BY <3>1, <3>2, RankKept
    <2> QED BY <2>1, <2>2
  <1> QED BY <1>1, <1>2, CountsCorrect, PTL DEF Spec, EveryStepCounts
=============================================================================
