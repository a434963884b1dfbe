---------------------------- MODULE DuplexSession ----------------------------
(***************************************************************************)
(* The high-level duplex session (omni_duplex_* in tools/omni/omni.cpp) on *)
(* top of DuplexPipeline.  One thread pushes frames; a prefill worker      *)
(* submits them to the pipeline and hands them to a decode worker, which   *)
(* waits for each answer; the main thread collects the answers, ends the   *)
(* session when it has drained, and then stops the pipeline.               *)
(*                                                                         *)
(* The two workers are the callers of the pipeline: their calls start its  *)
(* steps and end when the pipeline is through with them.  Nobody breaks.   *)
(*                                                                         *)
(* Names as in DuplexPipeline, vars and frame for instance, are those of   *)
(* the pipeline; what the session has of the same kind is called Session...*)
(***************************************************************************)
EXTENDS DuplexPipeline

CONSTANT PendingMax    \* PENDING_MAX

ASSUME PendingAssumption == PendingMax \in Nat \ {0}

VARIABLES
    open,             \* DuplexSession::running
    pendingFrames,    \* push_frame -> prefill worker
    decodePending,    \* prefill worker -> decode worker
    doneResults,      \* decode worker -> wait_next_frame
    outstanding,      \* DuplexSession::in_flight
    station, wait,    \* where the threads of the session are (see Monitor)
    pushed,           \* history: frames pushed
    delivered,        \* history: results that have been collected
    late              \* history: session threads that a notification has missed

queues == <<pendingFrames, decodePending>>
resultVars == <<doneResults, delivered>>
sessionVars == <<open, queues, resultVars, outstanding, station, wait, pushed, late>>
allVars == <<vars, sessionVars>>

SessionThreads == {"producer", "prefiller", "decoder", "main"}
SessionWaits   == {"push", "pending", "handed"}
SessionCv == [p \in SessionWaits |->
                IF p = "handed" THEN "decode_cv" ELSE "pending_cv"]
SessionMutex == [p \in SessionWaits |->
                   IF p = "handed" THEN "decode_mtx" ELSE "pending_mtx"]

M == INSTANCE Monitor WITH at <- station, cond <- wait,
                           Cv <- SessionCv, Mutex <- SessionMutex

\* omni_duplex_session_begin, after the system prompt.
SessionInit ==
    /\ Init
    /\ open = TRUE /\ pendingFrames = <<>> /\ decodePending = <<>>
    /\ doneResults = <<>> /\ outstanding = 0
    /\ station = [producer |-> "push", prefiller |-> "pending",
                  decoder |-> "handed", main |-> "collect"]
    /\ wait = [t \in SessionThreads |-> "awake"]
    /\ pushed = 0 /\ delivered = <<>> /\ late = {}

SessionWanted(t) ==
    CASE station[t] = "push"    -> Len(pendingFrames) < PendingMax
      [] station[t] = "pending" -> pendingFrames # <<>> \/ ~open
      [] station[t] = "handed"  -> decodePending # <<>> \/ ~open
      [] OTHER                  -> FALSE

SessionNotify(cvs) ==
    /\ M!NotifyAll(cvs)
    /\ late' = late \cup {t \in M!Deaf(cvs) : SessionWanted(t)'}

SessionQuietly == UNCHANGED <<wait, late>>

SessionWait(t) ==
    /\ (\E p \in SessionWaits : M!Blocks(t, p) /\ ~SessionWanted(t)) \/ M!Sleeps(t)
    /\ UNCHANGED <<vars, open, queues, resultVars, outstanding, pushed, late>>

-----------------------------------------------------------------------------
(* omni_duplex_push_frame.  The frame is counted after it has been queued. *)

PushFrame ==
    /\ M!Enters("producer", "push") /\ SessionWanted("producer") /\ pushed < MaxFrames
    /\ pushed' = pushed + 1
    /\ pendingFrames' = Append(pendingFrames, pushed + 1)
    /\ M!Goto("producer", "count") /\ SessionQuietly
    /\ UNCHANGED <<vars, open, decodePending, resultVars, outstanding>>

CountFrame ==
    /\ station["producer"] = "count"
    /\ outstanding' = outstanding + 1
    /\ M!Goto("producer", "push")
    /\ UNCHANGED <<vars, open, queues, resultVars, pushed>>
    /\ SessionNotify({"pending_cv"})

\* The stream has ended or has been interrupted.
LastFrame ==
    /\ station["producer"] = "push" /\ wait["producer"] = "awake"
    /\ M!Goto("producer", "exited") /\ SessionQuietly
    /\ UNCHANGED <<vars, open, queues, resultVars, outstanding, pushed>>

-----------------------------------------------------------------------------
(* The prefill worker. *)

TakePending ==
    /\ M!Enters("prefiller", "pending") /\ pendingFrames # <<>>
    /\ PrefillCall(Head(pendingFrames))
    /\ pendingFrames' = Tail(pendingFrames)
    /\ M!Goto("prefiller", "submitting")
    /\ UNCHANGED <<open, decodePending, resultVars, outstanding, pushed>>
    /\ SessionNotify({"pending_cv"})

\* Fault: the decode worker is not told.
HandOverQuietly ==
    /\ station["prefiller"] = "submitting" /\ at["prefiller"] = "out"
    /\ M!Free("decode_mtx")
    /\ decodePending' = Append(decodePending, frame["prefiller"])
    /\ M!Goto("prefiller", "pending") /\ SessionQuietly
    /\ UNCHANGED <<vars, open, pendingFrames, resultVars, outstanding, pushed>>

\* stream_prefill has returned.
HandOver ==
    /\ station["prefiller"] = "submitting" /\ at["prefiller"] = "out"
    /\ M!Free("decode_mtx")
    /\ decodePending' = Append(decodePending, frame["prefiller"])
    /\ M!Goto("prefiller", "pending")
    /\ UNCHANGED <<vars, open, pendingFrames, resultVars, outstanding, pushed>>
    /\ SessionNotify({"decode_cv"})

PrefillerExit ==
    /\ M!Enters("prefiller", "pending") /\ ~open /\ pendingFrames = <<>>
    /\ M!Goto("prefiller", "exited") /\ SessionQuietly
    /\ UNCHANGED <<vars, open, queues, resultVars, outstanding, pushed>>

-----------------------------------------------------------------------------
(* The decode worker. *)

TakeHanded ==
    /\ M!Enters("decoder", "handed") /\ decodePending # <<>>
    /\ DecodeCall(Head(decodePending))
    /\ decodePending' = Tail(decodePending)
    /\ M!Goto("decoder", "decoding") /\ SessionQuietly
    /\ UNCHANGED <<open, pendingFrames, resultVars, outstanding, pushed>>

\* stream_decode has returned: the text and n_past are read only now.
Report ==
    /\ station["decoder"] = "decoding" /\ at["decoder"] = "out"
    /\ doneResults' = Append(doneResults,
                             [frame |-> frame["decoder"], seen |-> Cardinality(Prefills)])
    /\ M!Goto("decoder", "reported") /\ SessionQuietly
    /\ UNCHANGED <<vars, open, queues, delivered, outstanding, pushed>>

Settle ==
    /\ station["decoder"] = "reported"
    /\ outstanding' = outstanding - 1
    /\ M!Goto("decoder", "handed") /\ SessionQuietly
    /\ UNCHANGED <<vars, open, queues, resultVars, pushed>>

DecoderExit ==
    /\ M!Enters("decoder", "handed") /\ ~open /\ decodePending = <<>>
    /\ M!Goto("decoder", "exited") /\ SessionQuietly
    /\ UNCHANGED <<vars, open, queues, resultVars, outstanding, pushed>>

-----------------------------------------------------------------------------
(* The main thread. *)

\* omni_duplex_wait_next_frame
WaitNextFrame ==
    /\ station["main"] = "collect" /\ doneResults # <<>>
    /\ delivered' = Append(delivered, Head(doneResults))
    /\ doneResults' = Tail(doneResults)
    /\ UNCHANGED <<vars, open, queues, outstanding, station, pushed>> /\ SessionQuietly

\* It stops collecting, at the latest when a wait times out, and joins the
\* thread that pushes.
Leave ==
    /\ station["main"] = "collect" /\ station["producer"] = "exited"
    /\ M!Goto("main", "drain") /\ SessionQuietly
    /\ UNCHANGED <<vars, open, queues, resultVars, outstanding, pushed>>

\* Fault: the session ends once nothing waits to be prefilled or decoded.
DrainQueuesOnly ==
    /\ station["main"] = "drain" /\ pendingFrames = <<>> /\ decodePending = <<>>
    /\ open' = FALSE
    /\ M!Goto("main", "joining")
    /\ UNCHANGED <<vars, queues, resultVars, outstanding, pushed>>
    /\ SessionNotify({"pending_cv", "decode_cv"})

\* Fault: the decode worker is not told.
DrainQuietly ==
    /\ station["main"] = "drain" /\ outstanding <= 0
    /\ open' = FALSE
    /\ M!Goto("main", "joining")
    /\ UNCHANGED <<vars, queues, resultVars, outstanding, pushed>>
    /\ SessionNotify({"pending_cv"})

\* omni_duplex_session_end polls in_flight, then tells the workers to exit,
\* without the mutexes they wait with.
Drained ==
    /\ station["main"] = "drain" /\ outstanding <= 0
    /\ open' = FALSE
    /\ M!Goto("main", "joining")
    /\ UNCHANGED <<vars, queues, resultVars, outstanding, pushed>>
    /\ SessionNotify({"pending_cv", "decode_cv"})

Ended ==
    /\ station["main"] = "joining"
    /\ station["prefiller"] = "exited" /\ station["decoder"] = "exited"
    /\ M!Goto("main", "ended") /\ SessionQuietly
    /\ UNCHANGED <<vars, open, queues, resultVars, outstanding, pushed>>

-----------------------------------------------------------------------------
Producer  == PushFrame \/ CountFrame \/ LastFrame \/ SessionWait("producer")
Prefiller == TakePending \/ HandOver \/ PrefillerExit \/ SessionWait("prefiller")
Decoder   == TakeHanded \/ Report \/ Settle \/ DecoderExit \/ SessionWait("decoder")
Main      == WaitNextFrame \/ Leave \/ Drained \/ Ended

\* The pipeline at work, and stopped by omni_free once the session has ended.
PipePrefill == PrefillStep /\ UNCHANGED sessionVars
PipeDecode  == DecodeStep /\ UNCHANGED sessionVars
PipeEncoder == EncoderStep /\ UNCHANGED sessionVars
PipeLlm     == LlmStep /\ UNCHANGED sessionVars
StopPipe ==
    /\ station["main"] = "ended" /\ Stop(FALSE) /\ UNCHANGED sessionVars
PipeStopped == Stopped /\ UNCHANGED sessionVars

SessionNext ==
    \/ Producer \/ Prefiller \/ Decoder \/ Main
    \/ PipePrefill \/ PipeDecode \/ PipeEncoder \/ PipeLlm \/ StopPipe \/ PipeStopped

\* Every thread runs while it can.  Whether more frames come, and when the main
\* thread gives up waiting for results, is up to the caller.
SessionSpec ==
    /\ SessionInit /\ [][SessionNext]_allVars
    /\ WF_allVars(CountFrame \/ SessionWait("producer"))
    /\ WF_allVars(Prefiller) /\ WF_allVars(Decoder) /\ WF_allVars(Drained \/ Ended)
    /\ WF_allVars(PipePrefill) /\ WF_allVars(PipeDecode) /\ WF_allVars(PipeEncoder)
    /\ WF_allVars(PipeLlm) /\ WF_allVars(PipeStopped)

-----------------------------------------------------------------------------
(* Properties *)

\* Through all the queues and threads the session is the service of omni.h: one
\* answer to a frame, in order, in its own context, and all of them by the end.
Promised == INSTANCE FrameService WITH results <- delivered \o doneResults
ImplementsFrameService == Promised!Spec

\* Every frame that has been pushed is answered, unless the LLM thread reported
\* an answer while the worker was about to sleep.
FramesAnswered ==
    \A k \in 1..MaxFrames :
        pushed >= k ~> (Len(delivered) + Len(doneResults) >= k \/ "decoder" \in missed)

\* session_end returns, unless a worker was about to sleep when it was told.
EndReturns ==
    station["main"] = "drain"
        ~> (station["main"] = "ended" \/ late # {} \/ "decoder" \in missed)
=============================================================================
