---------------------------- MODULE BackendServer ----------------------------
(***************************************************************************)
(* The Python inference backend (py_backend/server.py): one model, at most *)
(* one active session, a WebSocket handler per session and an HTTP close   *)
(* that runs beside it.  Coroutines switch at their awaits; model calls    *)
(* run in threads, and the finalize of a duplex unit is a task that        *)
(* outlives the push that started it.                                      *)
(*                                                                         *)
(* A process is <<"ws", s>>, the handler of session s, or <<"http", s>>,   *)
(* its HTTP close.  A step runs from one await to the next.  What the      *)
(* model computes and the contents of messages are left out; every model   *)
(* call may raise, and every bounded wait may time out.                    *)
(***************************************************************************)
EXTENDS Integers

CONSTANTS
    Sessions,     \* the sessions that may be opened, each once
    Duplex,       \* those of mode full_duplex; the others are turn_based
    NoOne,        \* active_session_id = None
    MaxInputs     \* bound on the inputs a client sends in each session

ASSUME DuplexAssumption == Duplex \subseteq Sessions
ASSUME NoOneAssumption  == NoOne \notin Sessions
ASSUME InputsAssumption == MaxInputs \in [Sessions -> Nat]

VARIABLES
    active,       \* active_session_id; sessions holds just this one
    at,           \* where each process is
    closed,       \* sessions whose closed is set
    task,         \* _finalize_task; _finalize_done is clear while it runs
    drain,        \* what a process waiting in _drain_finalize has come to
    zombie,       \* sessions with a thread in the model that nobody awaits
    created,      \* sessions that have been sent session.created
    told,         \* sessions that have been sent session.closed
    socket,       \* the WebSocket of each session
    inbox,        \* inputs sent and not yet received
    reply,        \* the HTTP close, as its caller sees it
    failed        \* history: sessions a close or handler of which has raised

server == <<active, at, closed, task, drain, zombie, created, told, socket,
            inbox, reply, failed>>

Processes == {"ws", "http"} \X Sessions
Handler(s) == <<"ws", s>>
Closer(s)  == <<"http", s>>

CloseStations == {"drain", "stop", "drainAgain", "cleanup", "notify", "forget"}
FatalStations == {"fatalStop", "fatalDrain", "fatalCleanup"}
PushStations  == {"wait", "step", "stream", "linger", "send"}
Resting       == {"none", "returned", "raised"}
Stations == {"register", "prepare", "receive"}
              \cup CloseStations \cup FatalStations \cup PushStations \cup Resting

Init ==
    /\ active = NoOne /\ at = [p \in Processes |-> "none"]
    /\ closed = {} /\ zombie = {} /\ created = {} /\ told = {} /\ failed = {}
    /\ task = [s \in Sessions |-> "none"]
    /\ drain = [p \in Processes |-> "idle"]
    /\ socket = [s \in Sessions |-> "none"]
    /\ inbox = [s \in Sessions |-> 0]
    /\ reply = [s \in Sessions |-> "none"]

Goto(p, station) == at' = [at EXCEPT ![p] = station]

\* The caller of an HTTP close that is still waiting for it is answered.
Answer(p, result) ==
    reply' = IF p[1] = "http" /\ reply[p[2]] = "working"
               THEN [reply EXCEPT ![p[2]] = result] ELSE reply

-----------------------------------------------------------------------------
(* How an operation ends badly. *)

\* fatal, up to its first model call.
Fatal(s) ==
    /\ closed' = closed \cup {s}
    /\ told' = IF socket[s] = "open" THEN told \cup {s} ELSE told
    /\ socket' = [socket EXCEPT ![s] = "closed"]
    /\ Goto(Handler(s), IF s \in Duplex THEN "fatalStop" ELSE "forget")
    /\ UNCHANGED <<active, drain, created, reply, failed>>

\* close, up to its first await.
CloseBegins(p) ==
    /\ closed' = closed \cup {p[2]}
    /\ Goto(p, IF p[2] \in closed THEN "returned" ELSE "drain")
    /\ UNCHANGED <<active, task, drain, created, told, socket, failed>>

\* A send on a socket that has gone: a disconnect or any other error.
SendFails(s) ==
    \/ Fatal(s) /\ UNCHANGED task
    \/ CloseBegins(Handler(s)) /\ UNCHANGED reply

\* Fault: the caller of the close is not told of the exception.
RaiseUnheard(p) ==
    /\ Goto(p, "raised")
    /\ failed' = failed \cup {p[2]}
    /\ UNCHANGED reply

\* An exception leaves the process; nothing forgets the session.
Raise(p) ==
    /\ Goto(p, "raised")
    /\ failed' = failed \cup {p[2]}
    /\ Answer(p, "error")

-----------------------------------------------------------------------------
(* The WebSocket handler. *)

\* The connection is made and session.init is on its way.
Accept(s) ==
    /\ at[Handler(s)] = "none"
    /\ socket' = [socket EXCEPT ![s] = "open"]
    /\ Goto(Handler(s), "register")
    /\ UNCHANGED <<active, closed, task, drain, zombie, created, told, inbox,
                   reply, failed>>

\* Fault: nobody looks whether a session is active.
RegisterAnyway(s) ==
    /\ at[Handler(s)] = "register"
    /\ active' = s /\ Goto(Handler(s), "prepare")
    /\ UNCHANGED <<closed, task, drain, zombie, created, told, socket, inbox,
                   reply, failed>>

\* A second session is refused, and ends as one whose model has failed.
Register(s) ==
    /\ at[Handler(s)] = "register"
    /\ \/ /\ active = NoOne
          /\ active' = s /\ Goto(Handler(s), "prepare")
          /\ UNCHANGED <<closed, task, drain, zombie, created, told, socket, inbox,
                         reply, failed>>
       \/ /\ active # NoOne
          /\ Fatal(s) /\ UNCHANGED <<task, zombie, inbox>>

Prepare(s) ==
    /\ at[Handler(s)] = "prepare"
    /\ \/ /\ socket[s] = "open"
          /\ created' = created \cup {s}
          /\ Goto(Handler(s), "receive")
          /\ UNCHANGED <<active, closed, task, drain, told, socket, reply, failed>>
       \/ socket[s] = "closed" /\ SendFails(s)
       \/ s \in Duplex /\ Fatal(s) /\ UNCHANGED task
    /\ UNCHANGED <<zombie, inbox>>

Receive(s) ==
    /\ at[Handler(s)] = "receive" /\ inbox[s] > 0
    /\ inbox' = [inbox EXCEPT ![s] = @ - 1]
    /\ \/ /\ s \notin closed
          /\ Goto(Handler(s), IF s \in Duplex THEN "wait" ELSE "step")
          /\ UNCHANGED <<active, closed, drain, created, told, socket, reply, failed>>
       \/ s \in closed /\ Fatal(s)
    /\ UNCHANGED <<task, zombie>>

\* The WebSocket has gone while the handler waits for a message.
Disconnected(s) ==
    /\ at[Handler(s)] = "receive" /\ socket[s] = "closed"
    /\ CloseBegins(Handler(s))
    /\ UNCHANGED <<zombie, inbox, reply>>

\* Fault: a unit does not wait for the finalize of the one before it.
DoNotWaitFinalize(s) ==
    /\ at[Handler(s)] = "wait"
    /\ Goto(Handler(s), "step")
    /\ UNCHANGED <<active, closed, task, drain, zombie, created, told, socket,
                   inbox, reply, failed>>

\* _wait_finalize at the start of a duplex push.  A task that has been cancelled
\* meanwhile raises what backend_ws does not catch, and the connection breaks.
WaitFinalize(s) ==
    /\ at[Handler(s)] = "wait" /\ task[s] # "running"
    /\ \/ /\ task[s] \in {"none", "returned"}
          /\ task' = [task EXCEPT ![s] = "none"]
          /\ Goto(Handler(s), "step")
          /\ UNCHANGED <<active, closed, drain, created, told, socket, reply, failed>>
       \/ task[s] = "failed" /\ Fatal(s) /\ UNCHANGED task
       \/ /\ task[s] = "cancelled"
          /\ task' = [task EXCEPT ![s] = "none"]
          /\ Raise(Handler(s))
          /\ socket' = [socket EXCEPT ![s] = "closed"]
          /\ UNCHANGED <<active, closed, drain, created, told>>
    /\ UNCHANGED <<zombie, inbox>>

\* Whoever _run has woken runs before a thread has had the time to return.
Settled(s) == \A p \in Processes : p[2] = s => drain[p] \in {"idle", "waiting"}

\* The model call of a push returns and hands on to the next station, or raises.
StepReturns(s, stations) ==
    /\ at[Handler(s)] = "step" /\ Settled(s)
    /\ \/ /\ \E station \in stations : Goto(Handler(s), station)
          /\ UNCHANGED <<active, closed, task, drain, created, told, socket, reply,
                         failed>>
       \/ Fatal(s) /\ UNCHANGED task
    /\ UNCHANGED <<zombie, inbox>>

\* Prefill and generate of a duplex unit, in one thread.
DuplexStep(s) == s \in Duplex /\ StepReturns(s, {"send"})

\* The prefill of a turn and, unless it will be streamed, its generate.
TurnStep(s) == s \notin Duplex /\ StepReturns(s, {"send", "stream"})

\* The loop of backend_ws ends when the session has been closed meanwhile.
NextMessage(s) == Goto(Handler(s), IF s \in closed THEN "returned" ELSE "receive")

\* The outputs of a unit are sent, if there are any, and its finalize is scheduled.
\* (The one before it has ended, so that the error of _schedule_finalize cannot
\* occur: see CallsAreSerial.)
SendUnit(s) ==
    /\ s \in Duplex /\ at[Handler(s)] = "send"
    /\ \/ /\ task' = [task EXCEPT ![s] = "running"]
          /\ NextMessage(s)
          /\ UNCHANGED <<active, closed, drain, created, told, socket, reply, failed>>
       \/ socket[s] = "closed" /\ SendFails(s)
    /\ UNCHANGED <<zombie, inbox>>

\* The answer to a turn is sent in one message.
SendAnswer(s) ==
    /\ s \notin Duplex /\ at[Handler(s)] = "send"
    /\ \/ /\ socket[s] = "open" /\ NextMessage(s)
          /\ UNCHANGED <<active, closed, task, drain, created, told, socket, reply,
                         failed>>
       \/ socket[s] = "closed" /\ SendFails(s)
    /\ UNCHANGED <<zombie, inbox>>

\* _stream_turn_based: the generator's thread ends, fails, or goes on while a
\* chunk cannot be sent.
Stream(s) ==
    /\ at[Handler(s)] = "stream"
    /\ \/ /\ socket[s] = "open" /\ NextMessage(s)
          /\ UNCHANGED <<active, closed, task, drain, created, told, socket, reply,
                         failed>>
       \/ socket[s] = "closed" /\ SendFails(s)
       \/ Fatal(s) /\ UNCHANGED task
       \/ /\ socket[s] = "closed" /\ Goto(Handler(s), "linger")
          /\ UNCHANGED <<active, closed, task, drain, created, told, socket, reply,
                         failed>>
    /\ UNCHANGED <<zombie, inbox>>

\* Its finally waits for the thread, up to a timeout.
Linger(s) ==
    /\ at[Handler(s)] = "linger" /\ SendFails(s)
    /\ zombie' \in {zombie, zombie \cup {s}}
    /\ UNCHANGED inbox

-----------------------------------------------------------------------------
(* The finalize of a duplex unit. *)

\* Fault: whoever waits for it is not woken.
FinalizeWakesNobody(s) ==
    /\ task[s] = "running"
    /\ task' \in {[task EXCEPT ![s] = "returned"], [task EXCEPT ![s] = "failed"]}
    /\ UNCHANGED <<active, at, closed, drain, zombie, created, told, socket, inbox,
                   reply, failed>>

FinalizeEnds(s) ==
    /\ task[s] = "running"
    /\ \E outcome \in {"returned", "failed"} :
        /\ task' = [task EXCEPT ![s] = outcome]
        /\ drain' = [p \in Processes |->
                       IF p[2] = s /\ drain[p] = "waiting"
                         THEN IF outcome = "returned" THEN "ok" ELSE "failed"
                         ELSE drain[p]]
    /\ UNCHANGED <<active, at, closed, zombie, created, told, socket, inbox, reply,
                   failed>>

\* A thread that outlived the timeout of its waiter returns.
ZombieEnds(s) ==
    /\ s \in zombie /\ zombie' = zombie \ {s}
    /\ UNCHANGED <<active, at, closed, task, drain, created, told, socket, inbox,
                   reply, failed>>

AfterDrain(p) ==
    CASE at[p] = "drain"      -> IF p[2] \in Duplex THEN "stop" ELSE "notify"
      [] at[p] = "drainAgain" -> "cleanup"
      [] at[p] = "fatalDrain" -> "fatalCleanup"

\* Fault: forget is among the calls of fatal whose errors are suppressed.
DrainSkipsForget(p) ==
    IF at[p] = "fatalDrain"
      THEN Goto(p, "returned") /\ UNCHANGED <<reply, failed>>
      ELSE Raise(p)

\* An exception in fatal is suppressed, but only if it is an Exception.
DrainRaises(p) ==
    IF at[p] = "fatalDrain"
      THEN Goto(p, "forget") /\ UNCHANGED <<reply, failed>>
      ELSE Raise(p)

\* _drain_finalize, in close and in fatal.
Drain(p) ==
    LET s == p[2] IN
    /\ at[p] \in {"drain", "drainAgain", "fatalDrain"}
    /\ \/ /\ drain[p] = "ok" \/ (drain[p] = "idle" /\ task[s] \in {"none", "returned"})
          /\ task' = [task EXCEPT ![s] = "none"]
          /\ drain' = [drain EXCEPT ![p] = "idle"]
          /\ Goto(p, AfterDrain(p)) /\ UNCHANGED <<zombie, reply, failed>>
       \/ /\ drain[p] = "idle" /\ task[s] = "running"
          /\ drain' = [drain EXCEPT ![p] = "waiting"]
          /\ UNCHANGED <<at, task, zombie, reply, failed>>
       \/ /\ drain[p] = "idle" /\ task[s] = "failed"
          /\ DrainRaises(p) /\ UNCHANGED <<task, drain, zombie>>
       \/ /\ drain[p] = "failed"
          /\ task' = [task EXCEPT ![s] = "none"]
          /\ drain' = [drain EXCEPT ![p] = "idle"]
          /\ DrainRaises(p) /\ UNCHANGED zombie
       \/ /\ drain[p] = "cancelled"
          /\ task' = [task EXCEPT ![s] = "none"]
          /\ drain' = [drain EXCEPT ![p] = "idle"]
          /\ Raise(p) /\ UNCHANGED zombie
    /\ UNCHANGED <<active, closed, created, told, socket, inbox>>

\* wait_for gives up: it cancels the task, but not the thread.  A handler that waits
\* for the task sees it before the drain has forgotten it.
DrainTimesOut(p) ==
    LET s == p[2] IN
    /\ drain[p] = "waiting" /\ task[s] = "running"
    /\ task' = [task EXCEPT ![s] = IF at[Handler(s)] = "wait" THEN "cancelled" ELSE "none"]
    /\ drain' = [q \in Processes |->
                   IF q = p THEN "idle"
                   ELSE IF q[2] = s /\ drain[q] = "waiting" THEN "cancelled"
                   ELSE drain[q]]
    /\ zombie' = zombie \cup {s}
    /\ DrainRaises(p)
    /\ UNCHANGED <<active, closed, created, told, socket, inbox>>

-----------------------------------------------------------------------------
(* The rest of close and of fatal. *)

\* duplex_stop returns or raises; close suppresses that, fatal skips to its end.
Stop(p) ==
    /\ \/ at[p] = "stop" /\ Goto(p, "drainAgain")
       \/ at[p] = "fatalStop" /\ Goto(p, "fatalDrain")
       \/ at[p] = "fatalStop" /\ Goto(p, "forget")
    /\ UNCHANGED <<active, closed, task, drain, zombie, created, told, socket, inbox,
                   reply, failed>>

Cleanup(p) ==
    /\ \/ /\ at[p] \in {"cleanup", "fatalCleanup"}
          /\ Goto(p, IF at[p] = "cleanup" THEN "notify" ELSE "forget")
          /\ UNCHANGED <<reply, failed>>
       \/ at[p] = "cleanup" /\ Raise(p)
    /\ UNCHANGED <<active, closed, task, drain, zombie, created, told, socket, inbox>>

\* The client is told, if the close is not due to its leaving, and disconnected.
Notify(p) ==
    LET s == p[2] IN
    /\ at[p] = "notify"
    /\ told' = IF p = Closer(s) /\ socket[s] = "open" THEN told \cup {s} ELSE told
    /\ socket' = [socket EXCEPT ![s] = "closed"]
    /\ Goto(p, "forget")
    /\ UNCHANGED <<active, closed, task, drain, zombie, created, inbox, reply, failed>>

Forget(p) ==
    LET s == p[2] IN
    /\ at[p] = "forget"
    /\ active' = IF active = s THEN NoOne ELSE active
    /\ Goto(p, "returned")
    /\ Answer(p, "ok")
    /\ UNCHANGED <<closed, task, drain, zombie, created, told, socket, inbox, failed>>

\* close_session: a session that is not known is an error, and one that is already
\* closed is a success at once, whether or not its close has come to an end.
CloseSession(s) ==
    /\ reply[s] = "pending"
    /\ \/ /\ active # s
          /\ reply' = [reply EXCEPT ![s] = "error"]
          /\ UNCHANGED <<at, closed, failed, active, task, drain, created, told, socket>>
       \/ /\ active = s /\ s \in closed
          /\ reply' = [reply EXCEPT ![s] = "ok"]
          /\ UNCHANGED <<at, closed, failed, active, task, drain, created, told, socket>>
       \/ /\ active = s /\ s \notin closed
          /\ reply' = [reply EXCEPT ![s] = "working"]
          /\ CloseBegins(Closer(s))
    /\ UNCHANGED <<zombie, inbox>>

HandlerStep(s) ==
    \/ Register(s) \/ Prepare(s) \/ Receive(s) \/ Disconnected(s) \/ WaitFinalize(s)
    \/ DuplexStep(s) \/ SendUnit(s)
    \/ TurnStep(s) \/ SendAnswer(s) \/ Stream(s) \/ Linger(s)

CloseStep(p) == Drain(p) \/ Stop(p) \/ Cleanup(p) \/ Notify(p) \/ Forget(p)

\* What happens by itself: every await and every model call comes to an end.
ServerStep ==
    \/ \E s \in Sessions : \/ HandlerStep(s) \/ FinalizeEnds(s) \/ ZombieEnds(s)
                           \/ CloseSession(s)
    \/ \E p \in Processes : CloseStep(p)

TimeOut == \E p \in Processes : DrainTimesOut(p)

-----------------------------------------------------------------------------
(* Properties. *)

BackendTypeOK ==
    /\ active \in Sessions \cup {NoOne}
    /\ at \in [Processes -> Stations]
    /\ closed \subseteq Sessions /\ zombie \subseteq Sessions
    /\ created \subseteq Sessions /\ told \subseteq Sessions /\ failed \subseteq Sessions
    /\ task \in [Sessions -> {"none", "running", "returned", "failed", "cancelled"}]
    /\ drain \in [Processes -> {"idle", "waiting", "ok", "failed", "cancelled"}]
    /\ socket \in [Sessions -> {"none", "open", "closed"}]
    /\ inbox \in [Sessions -> Nat] /\ \A s \in Sessions : inbox[s] <= MaxInputs[s]
    /\ reply \in [Sessions -> {"none", "pending", "working", "ok", "error"}]

\* The handler is in a call that reads or extends the session's context.
InCall(s) == at[Handler(s)] \in {"prepare", "step", "stream", "linger"}

\* The calls of one session that serve it follow one another: no prefill or
\* generate starts before the finalize of the unit before has returned, nor a
\* second finalize, unless a close has given up waiting for it.  (_op_lock,
\* _wait_finalize and _schedule_finalize of BackendProtocolSession)
CallsAreSerial ==
    \A s \in Sessions :
        /\ task[s] = "running" => ~InCall(s) /\ at[Handler(s)] # "send"
        /\ s \in Duplex /\ s \in zombie /\ InCall(s) => s \in failed

\* Of two sessions that have the model at work, one has been closed: a session
\* that is alive shares the model with nobody else that is.  (register and forget)
OneLiveUser ==
    \A s, t \in Sessions :
        /\ InCall(s) \/ task[s] = "running"
        /\ InCall(t) \/ task[t] = "running"
        /\ s \notin closed /\ t \notin closed
        => s = t

\* A close that has been answered with success has released the session and the
\* model: "unary must not return success unless the close and the release of the
\* resources have been completed" (docs/backend-protocol/network.md).
CloseIsComplete ==
    \A s \in Sessions : reply[s] = "ok" =>
        /\ active # s
        /\ ~InCall(s) /\ task[s] # "running" /\ s \notin zombie
=============================================================================
