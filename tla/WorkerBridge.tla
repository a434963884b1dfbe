---------------------------- MODULE WorkerBridge ----------------------------
(***************************************************************************)
(* A worker's bridge between its clients and the backend server            *)
(* (_handle_remote_backend_runtime_ws of worker.py, over runtime/session.py*)
(* and runtime/backend_client.py).  Each session is one handler; two tasks *)
(* relay the two directions, and the first to end ends the session.        *)
(***************************************************************************)
EXTENDS BackendServer

VARIABLES
    status,      \* worker.state.status
    bridge,      \* where the handler of each session is
    pushes       \* inputs the client has sent

bridgeVars == <<status, bridge, pushes>>
vars == <<server, bridgeVars>>

BridgeInit ==
    /\ Init
    /\ status = "idle"
    /\ bridge = [s \in Sessions |-> "away"]
    /\ pushes = [s \in Sessions |-> 0]

To(s, station) == bridge' = [bridge EXCEPT ![s] = station]

\* The finally clause, after the unary close if there is one.
Leave(s) ==
    /\ To(s, "left") /\ status' = "idle"
    /\ pushes' = [pushes EXCEPT ![s] = 0]

\* A client connects; the worker looks whether it is idle ...
Arrive(s) ==
    /\ bridge[s] = "away" /\ status = "idle"
    /\ To(s, "accepting")
    /\ UNCHANGED <<server, status, pushes>>

\* ... accepts the WebSocket, and only then is busy.
AcceptClient(s) ==
    /\ bridge[s] = "accepting"
    /\ To(s, "greeting") /\ status' = "busy"
    /\ UNCHANGED <<server, pushes>>

\* The client's first message has come, and the backend is connected to.
Greet(s) ==
    /\ bridge[s] = "greeting" /\ To(s, "init")
    /\ Accept(s)
    /\ UNCHANGED <<status, pushes>>

\* The client leaves before it has said anything or says something else, or the
\* backend cannot be reached: there is no session to close.
TurnBack(s) ==
    /\ bridge[s] = "greeting" /\ Leave(s)
    /\ UNCHANGED server

\* runtime.init returns the session that the backend has created.
Created(s) ==
    /\ bridge[s] = "init" /\ s \in created
    /\ To(s, "relay")
    /\ UNCHANGED <<server, status, pushes>>

\* The backend has refused the session: there is nothing to close.
InitFails(s) ==
    /\ bridge[s] = "init" /\ s \notin created /\ socket[s] = "closed"
    /\ Leave(s)
    /\ UNCHANGED server

\* Fault: it is sent once more.
PushTwice(s) ==
    /\ bridge[s] = "relay" /\ socket[s] = "open" /\ pushes[s] < MaxInputs[s]
    /\ pushes' = [pushes EXCEPT ![s] = @ + 1]
    /\ inbox' = [inbox EXCEPT ![s] = @ + 2]
    /\ UNCHANGED <<active, at, closed, task, drain, zombie, created, told, socket,
                   reply, failed, status, bridge>>

\* An input of the client goes to the backend.
Push(s) ==
    /\ bridge[s] = "relay" /\ socket[s] = "open" /\ pushes[s] < MaxInputs[s]
    /\ pushes' = [pushes EXCEPT ![s] = @ + 1]
    /\ inbox' = [inbox EXCEPT ![s] = @ + 1]
    /\ UNCHANGED <<active, at, closed, task, drain, zombie, created, told, socket,
                   reply, failed, status, bridge>>

PostClose(s) ==
    /\ reply' = [reply EXCEPT ![s] = "pending"]
    /\ UNCHANGED <<active, at, closed, task, drain, zombie, created, told, socket,
                   inbox, failed, status, pushes>>

\* The client asks for a close, which is relayed.
AskClose(s) == bridge[s] = "relay" /\ To(s, "asking") /\ PostClose(s)

\* The client disconnects, or the connection to the backend breaks: the session is
\* closed from the finally clause.
ClientLeaves(s) == bridge[s] = "relay" /\ To(s, "cleaning") /\ PostClose(s)

HearDrop(s) ==
    /\ bridge[s] \in {"relay", "asking"} /\ socket[s] = "closed" /\ s \notin told
    /\ To(s, "cleaning") /\ PostClose(s)

\* The relay of the backend's events meets session.closed: no close is needed, and
\* one under way is not waited for.
HearClosed(s) ==
    /\ bridge[s] \in {"relay", "asking"} /\ s \in told
    /\ Leave(s)
    /\ reply' = [reply EXCEPT ![s] = "none"]
    /\ UNCHANGED <<active, at, closed, task, drain, zombie, created, told, socket,
                   inbox, failed>>

\* RemoteBackendSession.close has returned: the WebSocket is closed too.
CloseReturns(s) ==
    /\ bridge[s] \in {"asking", "cleaning"} /\ reply[s] = "ok"
    /\ Leave(s)
    /\ socket' = [socket EXCEPT ![s] = "closed"]
    /\ UNCHANGED <<active, at, closed, task, drain, zombie, created, told, inbox,
                   reply, failed>>

\* It has raised: a close that was asked for is tried once more, one of the finally
\* clause is given up, and the WebSocket is left as it is.
CloseRaises(s) ==
    /\ reply[s] = "error"
    /\ \/ bridge[s] = "asking" /\ To(s, "cleaning") /\ PostClose(s)
       \/ /\ bridge[s] = "cleaning" /\ Leave(s)
          /\ reply' = [reply EXCEPT ![s] = "none"]
          /\ UNCHANGED <<active, at, closed, task, drain, zombie, created, told,
                         socket, inbox, failed>>

\* The HTTP client's timeout, while the backend goes on with the close.
GiveUp(s) ==
    /\ reply[s] = "working"
    /\ reply' = [reply EXCEPT ![s] = "error"]
    /\ UNCHANGED <<active, at, closed, task, drain, zombie, created, told, socket,
                   inbox, failed, bridgeVars>>

\* The connection between the worker and the backend breaks.
Drop(s) ==
    /\ socket[s] = "open" /\ socket' = [socket EXCEPT ![s] = "closed"]
    /\ UNCHANGED <<active, at, closed, task, drain, zombie, created, told, inbox,
                   reply, failed, bridgeVars>>

BridgeStep(s) ==
    \/ AcceptClient(s) \/ Created(s) \/ InitFails(s)
    \/ HearDrop(s) \/ HearClosed(s) \/ CloseReturns(s) \/ CloseRaises(s)

\* The steps that neither a client nor a clock nor the network decides on.
Progress ==
    \/ ServerStep /\ UNCHANGED bridgeVars
    \/ \E s \in Sessions : BridgeStep(s)

Next ==
    \/ Progress
    \/ TimeOut /\ UNCHANGED bridgeVars
    \/ \E s \in Sessions :
        \/ Arrive(s) \/ Greet(s) \/ TurnBack(s)
        \/ Push(s) \/ AskClose(s) \/ ClientLeaves(s) \/ GiveUp(s) \/ Drop(s)

\* The coroutines and threads go on; clients, clocks and the network do as they
\* like.  A behaviour has finitely many steps (each session is opened once), so that
\* fairness to Progress is fairness to every process.
Spec == BridgeInit /\ [][Next]_vars /\ WF_vars(Progress)

-----------------------------------------------------------------------------
TypeOK ==
    /\ BackendTypeOK
    /\ status \in {"idle", "busy"}
    /\ bridge \in [Sessions -> {"away", "accepting", "greeting", "init", "relay",
                                "asking", "cleaning", "left"}]
    /\ pushes \in [Sessions -> Nat]
    /\ \A s \in Sessions : pushes[s] <= MaxInputs[s]

\* The worker is idle again when none of the sessions it has accepted is left,
\* however they ended.  (every path into the finally clause)
NeverStuckBusy ==
    (\A s \in Sessions : bridge[s] \in {"away", "accepting", "left"}) => status = "idle"

\* Whoever is here goes on by himself only when something comes from outside: the
\* processes have ended or wait for a message on a connection that is open, no thread
\* runs, no close has been posted, and the bridges wait for either side.
AtRest ==
    /\ \A p \in Processes :
          \/ at[p] \in Resting
          \/ at[p] = "receive" /\ inbox[p[2]] = 0 /\ socket[p[2]] # "closed"
    /\ \A s \in Sessions :
          /\ task[s] # "running" /\ s \notin zombie /\ reply[s] # "pending"
          /\ bridge[s] # "accepting"
          /\ bridge[s] = "init" => s \notin created /\ socket[s] # "closed"
          /\ bridge[s] \in {"relay", "asking"} => s \notin told /\ socket[s] # "closed"
          /\ bridge[s] \in {"asking", "cleaning"} => reply[s] \notin {"ok", "error"}

\* Somebody can go on by himself: the guards of Progress.
Going ==
    \/ \E p \in Processes :
          \/ at[p] \in {"register", "prepare", "send", "stream", "linger"}
          \/ at[p] = "receive" /\ (inbox[p[2]] > 0 \/ socket[p[2]] = "closed")
          \/ at[p] = "wait" /\ task[p[2]] # "running"
          \/ at[p] = "step" /\ Settled(p[2])
          \/ at[p] \in CloseStations \cup FatalStations /\ drain[p] # "waiting"
    \/ \E s \in Sessions :
          \/ task[s] = "running" \/ s \in zombie \/ reply[s] = "pending"
          \/ bridge[s] = "accepting"
          \/ bridge[s] = "init" /\ (s \in created \/ socket[s] = "closed")
          \/ bridge[s] \in {"relay", "asking"} /\ (s \in told \/ socket[s] = "closed")
          \/ bridge[s] \in {"asking", "cleaning"} /\ reply[s] \in {"ok", "error"}

\* What a process waits for, the finalize, another process of its session or the
\* answer to a close, comes: whoever has not come to rest goes on or waits for
\* somebody who does.  (_drain_finalize, _wait_finalize and _run of
\* BackendProtocolSession)
SomebodyGoes == Going \/ AtRest
NobodyWaitsInVain == SomebodyGoes /\ (Going <=> ENABLED Progress)

\* A client that leaves, or asks for a close, does not occupy the worker for ever,
\* whatever becomes of the close in the backend: it is released before all is at rest.
LeaverIsReleased ==
    AtRest => \A s \in Sessions : bridge[s] \notin {"asking", "cleaning"}

\* And the backend is free for another session some time after it, unless the close
\* has raised.
BackendIsFreed ==
    AtRest => \A s \in Sessions : bridge[s] = "left" => active # s \/ s \in failed

-----------------------------------------------------------------------------
(* How much is left to do.  The stations of a process are ranked so that it only  *)
(* goes down, but for an input that is served; what a step down may bring back    *)
(* (a drain that starts anew, a thread nobody awaits) weighs less than it.        *)

StationRank ==
    [none |-> 56, register |-> 52, prepare |-> 48, wait |-> 44, step |-> 40,
     send |-> 36, stream |-> 36, linger |-> 32, receive |-> 28, drain |-> 24,
     stop |-> 20, fatalStop |-> 20, drainAgain |-> 16, fatalDrain |-> 16,
     cleanup |-> 12, fatalCleanup |-> 12, notify |-> 8, forget |-> 4,
     returned |-> 0, raised |-> 0]

DrainRank  == [idle |-> 2, waiting |-> 1, ok |-> 0, failed |-> 0, cancelled |-> 0]
TaskRank   == [none |-> 0, returned |-> 1, failed |-> 1, cancelled |-> 1, running |-> 2]
ReplyRank  == [none |-> 0, ok |-> 0, error |-> 0, working |-> 1, pending |-> 2]
SocketRank == [none |-> 2, open |-> 1, closed |-> 0]
BridgeRank == [away |-> 21, accepting |-> 18, greeting |-> 15, init |-> 12, relay |-> 9,
               asking |-> 6, cleaning |-> 3, left |-> 0]

ProcessRank(p) == StationRank[at[p]] + DrainRank[drain[p]]
ThreadRank(s)  == TaskRank[task[s]] + IF s \in zombie THEN 1 ELSE 0
CloseRank(s)   == ReplyRank[reply[s]] + SocketRank[socket[s]] + BridgeRank[bridge[s]]

\* An input that has been sent takes the handler once around its loop.
ToCome(s)    == IF bridge[s] \in {"asking", "cleaning", "left"} THEN 0
                                                               ELSE MaxInputs[s] - pushes[s]
InputRank(s) == 20 * inbox[s] + 21 * ToCome(s)

Rank(s) == ProcessRank(Handler(s)) + ProcessRank(Closer(s)) + ThreadRank(s)
             + CloseRank(s) + InputRank(s)

\* Nothing goes round in circles, not even by timeouts, breaks and retries: every step
\* leaves one session with less to do, and the others with as much.  (the retry of
\* RemoteBackendSession.close, the loops of backend_ws, the drains of close and fatal)
EveryStepCounts ==
    [][\E s \in Sessions :
          /\ Rank(s) \in Nat /\ Rank(s)' \in Nat /\ Rank(s)' < Rank(s)
          /\ \A t \in Sessions \ {s} : Rank(t)' = Rank(t)]_vars
=============================================================================
