---------------------------- MODULE OmniSessions ----------------------------
(***************************************************************************)
(* The C++ backend server: a handler thread per WebSocket (ws_handler.cpp, *)
(* handle_ws_backend), the manager of the single session (session.cpp),    *)
(* HTTP requests that close a session (server-omni.cpp), and the inference *)
(* context they share, whose threads prefill and decode (omni.cpp).        *)
(*                                                                         *)
(* The manager has a lock of its own, so each of its operations is one     *)
(* step.  octx_mutex protects most uses of the context but not a decode;   *)
(* only an HTTP close keeps it over several steps, which is where other    *)
(* threads can tell.  A handler's session is named by the handler.         *)
(***************************************************************************)
EXTENDS Naturals

CONSTANTS
    Handlers,     \* WebSocket connections
    Closers,      \* HTTP close requests
    Mode,         \* the mode each connection's session.init asks for
    MaxAppends,   \* bound: messages a client sends
    NoOne         \* no session, no holder

Modes == {"full_duplex", "turn_based"}

ASSUME ModeAssumption == Mode \in [Handlers -> Modes]
ASSUME NoOneAssumption == NoOne \notin Handlers \cup Closers

VARIABLES
    session,      \* active_: the manager's session, its id and state
    mutex,        \* the closer that holds octx_mutex
    shared,       \* the server's omni_context; 0 is nullptr
    made,         \* number of contexts made so far
    pipe,         \* what the shared context holds
    prefillDone,  \* the process-wide flag between LLM and decode threads
    pc,           \* where each handler is
    open,         \* the handler's WebSocket is open
    octx,         \* the context each handler points to
    appends,      \* messages read by each handler
    decode,       \* what the handler's decode thread does
    cpc,          \* where each closer is
    target        \* the session it closes

handlerVars == <<pc, open, octx, appends, decode>>
closerVars  == <<cpc, target>>
contextVars == <<shared, made, pipe, prefillDone>>
vars == <<session, mutex, contextVars, handlerVars, closerVars>>

Starting  == {"allocated", "created", "primed"}
Announced == {"reading", "appending", "launching", "polling", "joining",
              "leaving", "cleanup", "done"}
Stages    == {"start", "activated"} \cup Starting \cup Announced

\* A decode thread waits for the prefill (simplex) or has posted its request
\* to the duplex LLM thread, which then serves it; "stranded" is a wait on a
\* condition variable that has been destroyed.
Decoding == {"starting", "waiting", "generating", "posted", "serving", "stranded"}

CloseStages == {"idle", "found", "asking", "entering", "stopping", "forgetting",
                "closed", "refused"}

Threads == {"llm", "tail"}     \* tail: TTS and token-to-wave

NoSession == [id |-> NoOne, state |-> "CLOSED"]
Session(h, state) == [id |-> h, state |-> state]

\* Fault: a reset leaves the cache as it is.
FreshButCache(h) ==
    [mode |-> Mode[h], owner |-> h, primed |-> FALSE, threads |-> {},
     queue |-> {}, cache |-> pipe.cache, need |-> FALSE, textDone |-> FALSE]

\* What a context holds when it has just been made or reset for h: owner
\* remembers for whom, queue and cache whose units they contain.
FreshPipe(h) ==
    [mode |-> Mode[h], owner |-> h, primed |-> FALSE, threads |-> {},
     queue |-> {}, cache |-> {}, need |-> FALSE, textDone |-> FALSE]

Pipes ==
    [mode : Modes, owner : Handlers \cup {NoOne}, primed : BOOLEAN,
     threads : SUBSET Threads, queue : SUBSET Handlers, cache : SUBSET Handlers,
     need : BOOLEAN, textDone : BOOLEAN]

TypeOK ==
    /\ session \in [id : Handlers \cup {NoOne},
                    state : {"UNINITIALIZED", "ACTIVE", "CLOSED"}]
    /\ mutex \in Closers \cup {NoOne}
    /\ shared \in Nat /\ made \in Nat
    /\ pipe \in Pipes
    /\ prefillDone \in BOOLEAN
    /\ pc \in [Handlers -> Stages]
    /\ open \in [Handlers -> BOOLEAN]
    /\ octx \in [Handlers -> Nat]
    /\ appends \in [Handlers -> Nat]
    /\ decode \in [Handlers -> {"none", "finished"} \cup Decoding]
    /\ cpc \in [Closers -> CloseStages]
    /\ target \in [Closers -> Handlers \cup {NoOne}]

Init ==
    /\ session = NoSession
    /\ mutex = NoOne
    /\ shared = 0 /\ made = 0
    /\ pipe = [mode |-> "full_duplex", owner |-> NoOne, primed |-> FALSE,
               threads |-> {}, queue |-> {}, cache |-> {}, need |-> FALSE,
               textDone |-> FALSE]
    /\ prefillDone = TRUE
    /\ pc = [h \in Handlers |-> "start"]
    /\ open = [h \in Handlers |-> TRUE]
    /\ octx = [h \in Handlers |-> 0]
    /\ appends = [h \in Handlers |-> 0]
    /\ decode = [h \in Handlers |-> "none"]
    /\ cpc = [c \in Closers |-> "idle"]
    /\ target = [c \in Closers |-> NoOne]

-----------------------------------------------------------------------------
(* The session manager and the shared context *)

ForgetSession(h) ==
    session' = IF session.id = h THEN NoSession ELSE session

\* Fault: fail_fast closes the socket and keeps the session.
FailKeepingSession(h) ==
    /\ UNCHANGED session
    /\ pc' = [pc EXCEPT ![h] = "done"]
    /\ open' = [open EXCEPT ![h] = FALSE]

\* fail_fast: forget the session and close the socket.  The context and its
\* threads are left as they are.
FailFast(h) ==
    /\ ForgetSession(h)
    /\ pc' = [pc EXCEPT ![h] = "done"]
    /\ open' = [open EXCEPT ![h] = FALSE]

Live(h) == octx[h] = shared /\ shared # 0

\* The duplex LLM thread has been joined: requests that it serves or should
\* serve are released, unless the wake-up came too late for one that waits.
ReleasedDecodes ==
    LET hit == {x \in Handlers : Live(x) /\ decode[x] \in {"posted", "serving"}}
    IN  {[x \in Handlers |-> IF x \in hit THEN f[x] ELSE decode[x]] :
           f \in [hit -> {"finished", "stranded"}]}

\* omni_prepare_for_reuse after break_event and text_done_flag have been set.
StopPipe ==
    /\ pipe' = [pipe EXCEPT !.threads = {}, !.queue = {}, !.textDone = TRUE]
    /\ decode' \in ReleasedDecodes

\* stream_prefill with index 0: the system prompt and the threads, once.
Prime(p, h) ==
    IF p.primed THEN p
    ELSE [p EXCEPT !.primed = TRUE, !.threads = Threads, !.cache = @ \cup {h}]

\* stream_prefill of a unit.  Without its pipeline a duplex context puts the
\* unit into the simplex queue, which no duplex thread reads.
Push(p, h) ==
    IF p.mode = "full_duplex" /\ "llm" \notin p.threads THEN p
    ELSE [p EXCEPT !.queue = @ \cup {h}]

\* Turn-based sessions prime the context with their first message.
Prompted(h) == IF Mode[h] = "turn_based" THEN Prime(pipe, h) ELSE pipe

-----------------------------------------------------------------------------
(* A handler until its session is announced *)

Goto(h, from, to) == pc[h] = from /\ pc' = [pc EXCEPT ![h] = to]

\* Fault: allocate does not set the state.
AllocateUnset(h) ==
    /\ session = NoSession
    /\ Goto(h, "start", "allocated")
    /\ session' = Session(h, "")
    /\ UNCHANGED <<mutex, contextVars, open, octx, appends, decode, closerVars>>

\* Fault: a session that is not active yet does not count.
AllocateOverInit(h) ==
    /\ session.state # "ACTIVE"
    /\ Goto(h, "start", "allocated")
    /\ session' = Session(h, "UNINITIALIZED")
    /\ UNCHANGED <<mutex, contextVars, open, octx, appends, decode, closerVars>>

\* Fault: a new session takes the place of the old one.
AllocateAlways(h) ==
    /\ Goto(h, "start", "allocated")
    /\ session' = Session(h, "UNINITIALIZED")
    /\ UNCHANGED <<mutex, contextVars, open, octx, appends, decode, closerVars>>

Allocate(h) ==
    /\ session = NoSession
    /\ Goto(h, "start", "allocated")
    /\ session' = Session(h, "UNINITIALIZED")
    /\ UNCHANGED <<mutex, contextVars, open, octx, appends, decode, closerVars>>

\* No valid session.init, or there is a session already.
TurnAway(h) ==
    /\ Goto(h, "start", "done")
    /\ open' = [open EXCEPT ![h] = FALSE]
    /\ UNCHANGED <<session, mutex, contextVars, octx, appends, decode, closerVars>>

Fits(h) == shared # 0 /\ pipe.mode = Mode[h]

\* create_session_octx: the shared context is reset when it fits, and freed
\* and made again when it does not.  One of the same mode does not fit either
\* if it was made with another use_tts.
ReuseContext(h) ==
    /\ mutex = NoOne
    /\ Fits(h)
    /\ Goto(h, "allocated", "created")
    /\ pipe' = FreshPipe(h)
    /\ decode' \in ReleasedDecodes
    /\ octx' = [octx EXCEPT ![h] = shared]
    /\ UNCHANGED <<session, mutex, shared, made, prefillDone, open, appends, closerVars>>

RebuildContext(h) ==
    /\ mutex = NoOne
    /\ Goto(h, "allocated", "created")
    /\ made' = made + 1
    /\ shared' = made + 1
    /\ pipe' = FreshPipe(h)
    /\ decode' \in ReleasedDecodes
    /\ octx' = [octx EXCEPT ![h] = made + 1]
    /\ UNCHANGED <<session, mutex, prefillDone, open, appends, closerVars>>

\* omni_init returns nullptr after the old context has been freed.
RebuildFailed(h) ==
    /\ mutex = NoOne
    /\ pc[h] = "allocated"
    /\ shared' = 0
    /\ pipe' = [pipe EXCEPT !.threads = {}, !.queue = {}]
    /\ decode' \in ReleasedDecodes
    /\ FailFast(h)
    /\ UNCHANGED <<mutex, made, prefillDone, octx, appends, closerVars>>

\* The prefill with index 0: always for full duplex, and for a turn-based
\* session that brings a voice.  If an older handler has primed the context
\* since it was reset, the call queues a unit instead.
PrimeAtInit(h) ==
    /\ mutex = NoOne
    /\ Goto(h, "created", "primed")
    /\ pipe' = IF pipe.primed THEN Push(pipe, h) ELSE Prime(pipe, h)
    /\ UNCHANGED <<session, mutex, shared, made, prefillDone, open, octx, appends,
                   decode, closerVars>>

SkipPrime(h) ==
    /\ Mode[h] = "turn_based"
    /\ Goto(h, "created", "primed")
    /\ UNCHANGED <<session, mutex, contextVars, open, octx, appends, decode, closerVars>>

\* The voice cannot be decoded.
PrimeFailed(h) ==
    /\ pc[h] = "created"
    /\ FailFast(h)
    /\ UNCHANGED <<mutex, contextVars, octx, appends, decode, closerVars>>

\* activate and the close callback, under octx_mutex.
Activate(h) ==
    /\ mutex = NoOne
    /\ pc[h] = "primed"
    /\ IF session = Session(h, "UNINITIALIZED")
         THEN /\ session' = Session(h, "ACTIVE")
              /\ pc' = [pc EXCEPT ![h] = "activated"]
              /\ UNCHANGED open
         ELSE FailFast(h)
    /\ UNCHANGED <<mutex, contextVars, octx, appends, decode, closerVars>>

\* session.created is sent: from now on the client knows the session's name.
Announce(h) ==
    /\ Goto(h, "activated", "reading")
    /\ UNCHANGED <<session, mutex, contextVars, open, octx, appends, decode, closerVars>>

-----------------------------------------------------------------------------
(* The read loop *)

ReadAppend(h) ==
    /\ open[h] /\ appends[h] < MaxAppends
    /\ Goto(h, "reading", "appending")
    /\ appends' = [appends EXCEPT ![h] = @ + 1]
    /\ UNCHANGED <<session, mutex, contextVars, open, octx, decode, closerVars>>

\* A message that is no valid input.append for the mode.
ReadInvalid(h) ==
    /\ open[h] /\ pc[h] = "reading"
    /\ FailFast(h)
    /\ UNCHANGED <<mutex, contextVars, octx, appends, decode, closerVars>>

\* Fault: a read that fails is tried again.
ReadAgain(h) ==
    /\ ~open[h] /\ pc[h] = "reading"
    /\ UNCHANGED vars

ReadClosed(h) ==
    /\ ~open[h]
    /\ Goto(h, "reading", "cleanup")
    /\ UNCHANGED <<session, mutex, contextVars, open, octx, appends, decode, closerVars>>

\* The prefill asks nothing of the session.  On a context that has been freed
\* its effect is unknown; here it has none.
Prefill(h) ==
    /\ mutex = NoOne
    /\ Goto(h, "appending", "launching")
    /\ pipe' = IF Live(h) THEN Push(Prompted(h), h) ELSE pipe
    /\ UNCHANGED <<session, mutex, shared, made, prefillDone, open, octx, appends,
                   decode, closerVars>>

\* An image cannot be encoded, which a running duplex pipeline finds out later.
PrefillFailed(h) ==
    /\ mutex = NoOne
    /\ pc[h] = "appending"
    /\ Mode[h] = "turn_based" \/ ~Live(h) \/ "llm" \notin pipe.threads
    /\ pipe' = IF Live(h) THEN Prompted(h) ELSE pipe
    /\ FailFast(h)
    /\ UNCHANGED <<mutex, shared, made, prefillDone, octx, appends, decode, closerVars>>

\* force_listen: no decode for this message.
ForceListen(h) ==
    /\ Mode[h] = "full_duplex"
    /\ Goto(h, "launching", "reading")
    /\ UNCHANGED <<session, mutex, contextVars, open, octx, appends, decode, closerVars>>

\* The decode thread is started without octx_mutex.
Launch(h) ==
    /\ Goto(h, "launching", "polling")
    /\ decode' = [decode EXCEPT ![h] = "starting"]
    /\ pipe' = IF Live(h) THEN [pipe EXCEPT !.textDone = FALSE] ELSE pipe
    /\ UNCHANGED <<session, mutex, shared, made, prefillDone, open, octx, appends,
                   closerVars>>

\* The end of the text, or a listen fragment, ends the poll.
PollText(h) ==
    /\ Live(h) => pipe.textDone \/ decode[h] \in {"generating", "serving"}
    /\ Goto(h, "polling", "joining")
    /\ UNCHANGED <<session, mutex, contextVars, open, octx, appends, decode, closerVars>>

\* So does the discovery that the session has been closed.
PollGone(h) ==
    /\ session.id # h
    /\ Goto(h, "polling", "leaving")
    /\ UNCHANGED <<session, mutex, contextVars, open, octx, appends, decode, closerVars>>

Join(h) ==
    /\ decode[h] = "finished"
    /\ \/ Goto(h, "joining", "reading")
       \/ Goto(h, "leaving", "cleanup")
    /\ decode' = [decode EXCEPT ![h] = "none"]
    /\ UNCHANGED <<session, mutex, contextVars, open, octx, appends, closerVars>>

\* Fault: inference is stopped without asking whose it is.
CleanupUnasked(h) ==
    /\ mutex = NoOne
    /\ Goto(h, "cleanup", "done")
    /\ open' = [open EXCEPT ![h] = FALSE]
    /\ StopPipe
    /\ ForgetSession(h)
    /\ UNCHANGED <<mutex, shared, made, prefillDone, octx, appends, closerVars>>

\* The end of every handler that has not failed: inference is stopped if the
\* session is still there.
Cleanup(h) ==
    /\ mutex = NoOne
    /\ Goto(h, "cleanup", "done")
    /\ open' = [open EXCEPT ![h] = FALSE]
    /\ IF session.id = h THEN StopPipe ELSE UNCHANGED <<pipe, decode>>
    /\ ForgetSession(h)
    /\ UNCHANGED <<mutex, shared, made, prefillDone, octx, appends, closerVars>>

\* The client goes away.
Disconnect(h) ==
    /\ pc[h] \notin {"start", "done"}
    /\ open[h]
    /\ open' = [open EXCEPT ![h] = FALSE]
    /\ UNCHANGED <<session, mutex, contextVars, pc, octx, appends, decode, closerVars>>

-----------------------------------------------------------------------------
(* Decode threads and the LLM thread *)

\* stream_decode takes the duplex route if there is a pipeline; otherwise it
\* starts the TTS threads if need be, asks for the prefill and waits.
Enter(h) ==
    /\ decode[h] = "starting"
    /\ IF ~Live(h)
         THEN /\ decode' \in {[decode EXCEPT ![h] = d] : d \in {"waiting", "finished"}}
              /\ UNCHANGED pipe
         ELSE IF pipe.mode = "full_duplex" /\ pipe.primed /\ "llm" \in pipe.threads
         THEN decode' = [decode EXCEPT ![h] = "posted"] /\ UNCHANGED pipe
         ELSE /\ decode' = [decode EXCEPT ![h] = "waiting"]
              /\ pipe' = [pipe EXCEPT !.threads = @ \cup {"tail"}, !.need = TRUE,
                                      !.textDone = FALSE]
    /\ UNCHANGED <<session, mutex, shared, made, prefillDone, pc, open, octx, appends,
                   closerVars>>

Proceed(h) ==
    /\ decode[h] = "waiting" /\ prefillDone
    /\ decode' = [decode EXCEPT ![h] = "generating"]
    /\ prefillDone' = FALSE
    /\ UNCHANGED <<session, mutex, shared, made, pipe, pc, open, octx, appends, closerVars>>

Serve(h) ==
    /\ decode[h] = "posted" /\ Live(h)
    /\ "llm" \in pipe.threads /\ pipe.queue = {}
    /\ decode' = [decode EXCEPT ![h] = "serving"]
    /\ pipe' = [pipe EXCEPT !.textDone = FALSE]
    /\ UNCHANGED <<session, mutex, shared, made, prefillDone, pc, open, octx, appends,
                   closerVars>>

\* The response is complete, or broken off by break_event.
Generated(h) ==
    /\ decode[h] \in {"generating", "serving"}
    /\ decode' = [decode EXCEPT ![h] = "finished"]
    /\ pipe' = IF Live(h) THEN [pipe EXCEPT !.textDone = TRUE, !.cache = @ \cup {h}]
               ELSE pipe
    /\ UNCHANGED <<session, mutex, shared, made, prefillDone, pc, open, octx, appends,
                   closerVars>>

\* The LLM thread writes what is queued into the cache.
LlmPrefill ==
    /\ "llm" \in pipe.threads /\ pipe.queue # {}
    /\ pipe' = [pipe EXCEPT !.cache = @ \cup pipe.queue, !.queue = {}]
    /\ prefillDone' = IF pipe.mode = "turn_based" THEN FALSE ELSE prefillDone
    /\ UNCHANGED <<session, mutex, shared, made, handlerVars, closerVars>>

\* With an empty queue it answers the decode thread that has asked.
LlmReady ==
    /\ pipe.mode = "turn_based"
    /\ "llm" \in pipe.threads /\ pipe.queue = {} /\ pipe.need
    /\ pipe' = [pipe EXCEPT !.need = FALSE]
    /\ prefillDone' = TRUE
    /\ UNCHANGED <<session, mutex, shared, made, handlerVars, closerVars>>

-----------------------------------------------------------------------------
(* POST /sessions/:session_id/close *)

CloserGoto(c, from, to) == cpc[c] = from /\ cpc' = [cpc EXCEPT ![c] = to]

\* get: the manager hands out a pointer.
RequestClose(c, h) ==
    /\ pc[h] \in Announced
    /\ CloserGoto(c, "idle", IF session.id = h THEN "found" ELSE "refused")
    /\ target' = [target EXCEPT ![c] = h]
    /\ UNCHANGED <<session, mutex, contextVars, handlerVars>>

\* The state is read through the pointer, without the manager's lock: if the
\* session has been freed since, anything is read.
CheckActive(c) ==
    /\ \/ CloserGoto(c, "found", "asking")
       \/ CloserGoto(c, "found", "refused") /\ session.id # target[c]
    /\ UNCHANGED <<session, mutex, contextVars, handlerVars, target>>

\* request_transport_close: the callback closes the WebSocket.
AskTransport(c) ==
    /\ CloserGoto(c, "asking", "entering")
    /\ open' = IF session.id = target[c] THEN [open EXCEPT ![target[c]] = FALSE] ELSE open
    /\ UNCHANGED <<session, mutex, contextVars, pc, octx, appends, decode, target>>

\* octx_mutex is taken and the session looked up again.
EnterClose(c) ==
    /\ mutex = NoOne
    /\ CloserGoto(c, "entering", IF session.id = target[c] THEN "stopping" ELSE "forgetting")
    /\ mutex' = c
    /\ UNCHANGED <<session, contextVars, handlerVars, target>>

StopInference(c) ==
    /\ CloserGoto(c, "stopping", "forgetting")
    /\ StopPipe
    /\ UNCHANGED <<session, mutex, shared, made, prefillDone, pc, open, octx, appends, target>>

ForgetClosed(c) ==
    /\ CloserGoto(c, "forgetting", "closed")
    /\ ForgetSession(target[c])
    /\ mutex' = NoOne
    /\ UNCHANGED <<contextVars, handlerVars, target>>

-----------------------------------------------------------------------------

\* Every connection has been served; the server listens for the next one.
Quiet ==
    /\ \A h \in Handlers : pc[h] = "done"
    /\ UNCHANGED vars

HandlerStep(h) ==
    \/ Allocate(h) \/ TurnAway(h)
    \/ ReuseContext(h) \/ RebuildContext(h) \/ RebuildFailed(h)
    \/ PrimeAtInit(h) \/ SkipPrime(h) \/ PrimeFailed(h)
    \/ Activate(h) \/ Announce(h)
    \/ ReadClosed(h) \/ Prefill(h) \/ PrefillFailed(h) \/ ForceListen(h) \/ Launch(h)
    \/ PollText(h) \/ PollGone(h) \/ Join(h) \/ Cleanup(h)

ClientStep(h) == ReadAppend(h) \/ ReadInvalid(h) \/ Disconnect(h)

DecodeStep(h) == Enter(h) \/ Proceed(h) \/ Serve(h) \/ Generated(h)

LlmStep == LlmPrefill \/ LlmReady

CloserStep(c) ==
    \/ CheckActive(c) \/ AskTransport(c) \/ EnterClose(c)
    \/ StopInference(c) \/ ForgetClosed(c)

Next ==
    \/ \E h \in Handlers : HandlerStep(h) \/ ClientStep(h) \/ DecodeStep(h)
    \/ LlmStep
    \/ \E c \in Closers : CloserStep(c) \/ \E h \in Handlers : RequestClose(c, h)
    \/ Quiet

Spec == Init /\ [][Next]_vars

\* Threads that can run do run.  Clients need do nothing.
Fairness ==
    /\ \A h \in Handlers : WF_vars(HandlerStep(h)) /\ WF_vars(DecodeStep(h))
    /\ WF_vars(LlmStep)
    /\ \A c \in Closers : WF_vars(CloserStep(c))

FairSpec == Spec /\ Fairness

-----------------------------------------------------------------------------
(* Properties *)

\* The session that is served runs on the server's context, which was set up
\* for it and is in its mode: whatever older handlers and closes do, nobody
\* resets or frees the context of an active session (ws_handler.cpp,
\* create_session_octx under the session that allocate has granted).
ServedFromOwnContext ==
    session.state = "ACTIVE" =>
        /\ Live(session.id)
        /\ pipe.owner = session.id /\ pipe.mode = Mode[session.id]

\* A handler thread that has returned leaves no session behind, by whichever
\* of its many exits: it would lock every later client out (session.cpp,
\* allocate is fail-fast).
NoSessionLeak ==
    \A h \in Handlers : pc[h] \in {"start", "done"} => session.id # h

\* The inference threads of an active session are stopped only by its own
\* handler or by a request that closes it: the clean-up of a handler whose
\* session has been closed does not stop its successor (ws_handler.cpp:1258).
StopsOnlyItsOwn ==
    [][\A h \in Handlers :
          /\ session = Session(h, "ACTIVE")
          /\ pipe.threads # {} /\ pipe'.threads = {}
          => \/ pc[h] = "cleanup" /\ pc'[h] = "done"
             \/ \E c \in Closers : /\ target[c] = h
                                    /\ cpc[c] = "stopping" /\ cpc'[c] # "stopping"]_vars

\* The sessions that an HTTP request has closed and forgotten.  Their handlers
\* and decode threads are not told and may go on for a while.
ClosedOverHttp == {target[c] : c \in {x \in Closers : cpc[x] = "closed"}}

\* Whatever the cache and the queue of the context hold besides the units of
\* the session it was set up for is of sessions closed over HTTP: their
\* handlers prefill and decode without asking whether they are still the
\* server's session (ws_handler.cpp:892-928, 1106).  No other way of ending
\* a session leaves such units ("so the next session starts clean",
\* ws_handler.cpp:172).
OwnUnitsOnly == pipe.queue \cup pipe.cache \subseteq {pipe.owner} \cup ClosedOverHttp

\* A handler that will touch its context again has not lost it to a rebuild,
\* unless its session has been closed over HTTP.
UsesLiveContext ==
    \A h \in Handlers :
        pc[h] \in {"activated", "appending", "launching", "polling", "joining"}
            => Live(h) \/ h \in ClosedOverHttp

\* A session whose client has gone is forgotten: its decode comes to an end,
\* the handler joins it and returns (ws_handler.cpp:1242-1277).
GoneClientIsForgotten ==
    \A h \in Handlers : ~open[h] ~> pc[h] = "done"

=============================================================================
