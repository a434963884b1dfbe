--------------------------- MODULE DuplexPipeline ---------------------------
(***************************************************************************)
(* The duplex pipeline of the C++ engine (tools/omni/omni.cpp): the        *)
(* encoder thread and the LLM thread, the queues between them, and the     *)
(* calls that drive them: duplex_prefill submits a frame, duplex_decode    *)
(* asks for the answer to it, a break drops what is under way, and         *)
(* duplex_stop_threads ends it all.                                        *)
(*                                                                         *)
(* The engine promises that each decode consumes exactly one frame, its    *)
(* own.  The request names no frame: the pairing rests on the order of the *)
(* queues and on in_flight_prefill, an atomic that is neither changed nor  *)
(* read under the mutex of the queues it counts.                           *)
(*                                                                         *)
(* A change made under a mutex and the notification after it are one step. *)
(* The mutexes themselves are not variables: a critical section is one     *)
(* step, except while a thread blocks and where the LLM thread tests twice.*)
(***************************************************************************)
EXTENDS Integers, Sequences, FiniteSets

CONSTANTS
    EncoderCap,    \* ENCODER_QUEUE_CAP
    PrefillCap,    \* PREFILL_QUEUE_CAP
    MaxFrames      \* bound of the model: frames of a session

ASSUME CapsAssumption ==
    EncoderCap \in Nat \ {0} /\ PrefillCap \in Nat \ {0} /\ MaxFrames \in Nat

VARIABLES
    running,        \* DuplexPipeline::running
    breakEvent,     \* break_event
    encoderQueue, prefillQueue,
    inFlight,       \* in_flight_prefill
    pendingDecode,  \* pending_decode
    reqDone,        \* DuplexDecodeReq::done of the decode that is waited for
    kv,             \* what the LLM thread has done to the context, in order
    frame,          \* the frame each thread works on
    packet,         \* the packet the LLM thread has taken
    at, cond,       \* where the threads are (see Monitor)
    broken,         \* history: there has been a break
    missed          \* history: threads that a notification has missed

queueVars == <<encoderQueue, prefillQueue, inFlight>>
reqVars   == <<pendingDecode, reqDone>>
vars == <<running, breakEvent, queueVars, reqVars, kv, frame, packet, at, cond,
          broken, missed>>

Threads == {"prefiller", "decoder", "encoder", "llm", "closer"}
None    == -1
Frames  == 0..MaxFrames     \* 0 is the system prompt

\* The condition variables and the mutexes, by the place of the wait.
Waits == {"submit", "await", "take", "push", "idle", "fetch"}
Cv == [p \in Waits |->
         CASE p \in {"submit", "take"}        -> "encoder_cv"
           [] p \in {"push", "idle", "fetch"} -> "llm_cv"
           [] p = "await"                     -> "decode_done_cv"]
Mutex == [p \in Waits |->
            IF p \in {"submit", "take"} THEN "encoder_mtx" ELSE "llm_mtx"]

INSTANCE Monitor

\* Between its two tests in Phase 1 the LLM thread keeps llm_mtx.
LlmMutexFree == at["llm"] # "pick" /\ Free("llm_mtx")

Init ==
    /\ running = TRUE /\ breakEvent = FALSE
    /\ encoderQueue = <<>> /\ prefillQueue = <<>> /\ inFlight = 0
    /\ pendingDecode = None /\ reqDone = FALSE
    /\ kv = <<>> /\ packet = None
    /\ frame = [t \in Threads |-> IF t = "decoder" THEN None ELSE 0]
    /\ at = [prefiller |-> "out", decoder |-> "out", encoder |-> "take",
             llm |-> "idle", closer |-> "out"]
    /\ cond = [t \in Threads |-> "awake"]
    /\ broken = FALSE /\ missed = {}

\* What a thread waits for, where it is.
Wanted(t) ==
    CASE at[t] = "submit" -> Len(encoderQueue) < EncoderCap \/ ~running
      [] at[t] = "take"   -> encoderQueue # <<>> \/ ~running
      [] at[t] = "push"   -> Len(prefillQueue) < PrefillCap \/ ~running
      [] at[t] = "idle"   -> pendingDecode # None \/ ~running \/ breakEvent
      [] at[t] = "fetch"  -> prefillQueue # <<>> \/ ~running \/ breakEvent
      [] at[t] = "await"  -> reqDone \/ ~running
      [] OTHER            -> FALSE

\* A notification, and whom it fails to wake although it concerns them.
Notify(cvs) ==
    /\ NotifyAll(cvs)
    /\ missed' = missed \cup {t \in Deaf(cvs) : Wanted(t)'}

Quietly == UNCHANGED <<cond, missed>>

\* A thread finds nothing to do, or falls asleep after that.
Wait(t) ==
    /\ \/ \E p \in Waits : /\ Blocks(t, p) /\ ~Wanted(t)
                           /\ Mutex[p] = "llm_mtx" => LlmMutexFree
       \/ Sleeps(t)
    /\ UNCHANGED <<running, breakEvent, queueVars, reqVars, kv, frame, packet,
                   broken, missed>>

-----------------------------------------------------------------------------
(* duplex_prefill.  It is called under octx_mutex, which a stop needs too: no *)
(* stop comes between.                                                       *)

PrefillCall(k) ==
    /\ at["prefiller"] = "out" /\ at["closer"] = "out"
    /\ frame' = [frame EXCEPT !["prefiller"] = k]
    /\ Goto("prefiller", "submit") /\ Quietly
    /\ UNCHANGED <<running, breakEvent, queueVars, reqVars, kv, packet, broken>>

Submit ==
    /\ Enters("prefiller", "submit") /\ Wanted("prefiller")
    /\ encoderQueue' = Append(encoderQueue, frame["prefiller"])
    /\ Goto("prefiller", "count") /\ Quietly
    /\ UNCHANGED <<running, breakEvent, prefillQueue, inFlight, reqVars, kv, frame,
                   packet, broken>>

\* The frame is counted, and the encoder notified, after it has been queued.
Count ==
    /\ at["prefiller"] = "count"
    /\ inFlight' = inFlight + 1
    /\ Goto("prefiller", "out")
    /\ UNCHANGED <<running, breakEvent, encoderQueue, prefillQueue, reqVars, kv,
                   frame, packet, broken>>
    /\ Notify({"encoder_cv"})

-----------------------------------------------------------------------------
(* duplex_decode.  One at a time; the request is on the stack of the caller. *)

DecodeCall(k) ==
    /\ at["decoder"] = "out" /\ running
    /\ frame' = [frame EXCEPT !["decoder"] = k]
    /\ Goto("decoder", "post") /\ Quietly
    /\ UNCHANGED <<running, breakEvent, queueVars, reqVars, kv, packet, broken>>

Post ==
    /\ at["decoder"] = "post" /\ LlmMutexFree
    /\ running /\ pendingDecode = None
    /\ pendingDecode' = frame["decoder"] /\ reqDone' = FALSE
    /\ Goto("decoder", "await")
    /\ UNCHANGED <<running, breakEvent, queueVars, kv, frame, packet, broken>>
    /\ Notify({"llm_cv"})

PostRefused ==
    /\ at["decoder"] = "post" /\ LlmMutexFree /\ ~running
    /\ Goto("decoder", "out") /\ Quietly
    /\ UNCHANGED <<running, breakEvent, queueVars, reqVars, kv, frame, packet, broken>>

DecodeReturn ==
    /\ Enters("decoder", "await") /\ LlmMutexFree /\ Wanted("decoder")
    /\ Goto("decoder", "out") /\ Quietly
    /\ UNCHANGED <<running, breakEvent, queueVars, reqVars, kv, frame, packet, broken>>

-----------------------------------------------------------------------------
(* The encoder thread. *)

Take ==
    /\ Enters("encoder", "take") /\ running /\ encoderQueue # <<>>
    /\ frame' = [frame EXCEPT !["encoder"] = Head(encoderQueue)]
    /\ encoderQueue' = Tail(encoderQueue)
    /\ Goto("encoder", "push")
    /\ UNCHANGED <<running, breakEvent, prefillQueue, inFlight, reqVars, kv, packet,
                   broken>>
    /\ Notify({"encoder_cv"})

\* Fault: the encoder does not wait for room.
DeliverUnbounded ==
    /\ Enters("encoder", "push") /\ LlmMutexFree /\ running
    /\ prefillQueue' = Append(prefillQueue, frame["encoder"])
    /\ Goto("encoder", "take")
    /\ UNCHANGED <<running, breakEvent, encoderQueue, inFlight, reqVars, kv, frame,
                   packet, broken>>
    /\ Notify({"llm_cv"})

Deliver ==
    /\ Enters("encoder", "push") /\ LlmMutexFree
    /\ running /\ Len(prefillQueue) < PrefillCap
    /\ prefillQueue' = Append(prefillQueue, frame["encoder"])
    /\ Goto("encoder", "take")
    /\ UNCHANGED <<running, breakEvent, encoderQueue, inFlight, reqVars, kv, frame,
                   packet, broken>>
    /\ Notify({"llm_cv"})

\* Told to stop, it deletes the packet it may hold.
EncoderExit ==
    /\ \/ Enters("encoder", "take")
       \/ Enters("encoder", "push") /\ LlmMutexFree
    /\ ~running
    /\ Goto("encoder", "exited") /\ Quietly
    /\ UNCHANGED <<running, breakEvent, queueVars, reqVars, kv, frame, packet, broken>>

-----------------------------------------------------------------------------
(* The LLM thread. *)

\* Fault: a break drops the request without failing it.
DropSilently ==
    /\ Enters("llm", "idle") /\ running /\ breakEvent
    /\ inFlight' = inFlight - Len(prefillQueue) /\ prefillQueue' = <<>>
    /\ pendingDecode' = None
    /\ UNCHANGED at
    /\ UNCHANGED <<running, breakEvent, encoderQueue, reqDone, kv, frame, packet, broken>>
    /\ Notify({"llm_cv"})

\* Fault: a break drops packets but does not count them.
DropUncounted ==
    /\ Enters("llm", "idle") /\ running /\ breakEvent
    /\ prefillQueue' = <<>> /\ pendingDecode' = None
    /\ reqDone' = (reqDone \/ pendingDecode # None)
    /\ UNCHANGED at
    /\ UNCHANGED <<running, breakEvent, encoderQueue, inFlight, kv, frame, packet,
                   broken>>
    /\ Notify({"llm_cv", "decode_done_cv"})

\* A break drops the encoded frames and fails the request.  The thread repeats
\* this until somebody else clears break_event.
Drop ==
    /\ Enters("llm", "idle") /\ running /\ breakEvent
    /\ inFlight' = inFlight - Len(prefillQueue) /\ prefillQueue' = <<>>
    /\ pendingDecode' = None /\ reqDone' = (reqDone \/ pendingDecode # None)
    /\ UNCHANGED at
    /\ UNCHANGED <<running, breakEvent, encoderQueue, kv, frame, packet, broken>>
    /\ Notify(IF pendingDecode # None THEN {"llm_cv", "decode_done_cv"}
                                      ELSE {"llm_cv"})

\* Phase 0: a request.
Accept ==
    /\ Enters("llm", "idle") /\ running /\ ~breakEvent /\ pendingDecode # None
    /\ frame' = [frame EXCEPT !["llm"] = pendingDecode]
    /\ pendingDecode' = None
    /\ Goto("llm", "check")
    /\ UNCHANGED <<running, breakEvent, queueVars, reqDone, kv, packet, broken>>
    /\ Notify({"llm_cv"})

\* Phase 1: is a frame under way?
Check ==
    /\ at["llm"] = "check"
    /\ Goto("llm", IF inFlight > 0 THEN "fetch" ELSE "decide") /\ Quietly
    /\ UNCHANGED <<running, breakEvent, queueVars, reqVars, kv, frame, packet, broken>>

Fetch ==
    /\ Enters("llm", "fetch") /\ running /\ Wanted("llm")
    /\ Goto("llm", "pick") /\ Quietly
    /\ UNCHANGED <<running, breakEvent, queueVars, reqVars, kv, frame, packet, broken>>

\* Fault: the packet stays in the queue.
PickKept ==
    /\ at["llm"] = "pick"
    /\ IF breakEvent \/ prefillQueue = <<>>
       THEN Goto("llm", "decide") /\ UNCHANGED packet
       ELSE Goto("llm", "prefill") /\ packet' = Head(prefillQueue)
    /\ UNCHANGED <<running, breakEvent, queueVars, reqVars, kv, frame, broken>>
    /\ Notify({"llm_cv"})

\* break_event may have changed since the wait ended.
Pick ==
    /\ at["llm"] = "pick"
    /\ \/ /\ ~breakEvent /\ prefillQueue # <<>>
          /\ packet' = Head(prefillQueue) /\ prefillQueue' = Tail(prefillQueue)
          /\ Goto("llm", "prefill")
       \/ /\ breakEvent \/ prefillQueue = <<>>
          /\ Goto("llm", "decide")
          /\ UNCHANGED <<packet, prefillQueue>>
    /\ UNCHANGED <<running, breakEvent, encoderQueue, inFlight, reqVars, kv, frame,
                   broken>>
    /\ Notify({"llm_cv"})

\* Fault: everything that is under way is prefilled before the decode.
PrefillAll ==
    /\ at["llm"] = "prefill"
    /\ kv' = Append(kv, <<"prefill", packet>>)
    /\ packet' = None /\ inFlight' = inFlight - 1
    /\ Goto("llm", "check") /\ Quietly
    /\ UNCHANGED <<running, breakEvent, encoderQueue, prefillQueue, reqVars, frame,
                   broken>>

Prefill ==
    /\ at["llm"] = "prefill"
    /\ kv' = Append(kv, <<"prefill", packet>>)
    /\ packet' = None /\ inFlight' = inFlight - 1
    /\ Goto("llm", "decide") /\ Quietly
    /\ UNCHANGED <<running, breakEvent, encoderQueue, prefillQueue, reqVars, frame,
                   broken>>

\* Phase 2: the decode, unless there has been a break.
Decide ==
    /\ at["llm"] = "decide"
    /\ Goto("llm", IF breakEvent THEN "finish" ELSE "decode") /\ Quietly
    /\ UNCHANGED <<running, breakEvent, queueVars, reqVars, kv, frame, packet, broken>>

\* duplex_do_decode, which forgets a break that comes before its first token.
Decode ==
    /\ at["llm"] = "decode"
    /\ kv' = Append(kv, <<"decode", frame["llm"]>>) /\ breakEvent' = FALSE
    /\ Goto("llm", "finish") /\ Quietly
    /\ UNCHANGED <<running, queueVars, reqVars, frame, packet, broken>>

\* done is stored, and its condition variable notified, without llm_mtx.
Finish ==
    /\ at["llm"] = "finish"
    /\ reqDone' = (reqDone \/ at["decoder"] = "await")
    /\ Goto("llm", "idle")
    /\ UNCHANGED <<running, breakEvent, queueVars, pendingDecode, kv, frame, packet,
                   broken>>
    /\ Notify({"decode_done_cv"})

LlmExit ==
    /\ Enters("llm", "idle") \/ Enters("llm", "fetch")
    /\ ~running
    /\ Goto("llm", "exited") /\ Quietly
    /\ UNCHANGED <<running, breakEvent, queueVars, reqVars, kv, frame, packet, broken>>

-----------------------------------------------------------------------------
(* Interruption. *)

\* POST /v1/stream/break takes octx_mutex, like prefill and decode, and wakes
\* nobody; the thread that turns tokens to sound clears the event.
Break ==
    /\ at["prefiller"] = "out" /\ at["decoder"] = "out" /\ at["closer"] = "out"
    /\ ~breakEvent
    /\ breakEvent' = TRUE /\ broken' = TRUE
    /\ UNCHANGED <<running, queueVars, reqVars, kv, frame, packet, at>> /\ Quietly

ClearBreak ==
    /\ breakEvent /\ breakEvent' = FALSE
    /\ UNCHANGED <<running, queueVars, reqVars, kv, frame, packet, at, broken>>
    /\ Quietly

\* duplex_stop_threads up to the joins; the close of a session sets break_event
\* before.  A decode may be under way: the handler runs it without octx_mutex.
Stop(byClose) ==
    /\ at["closer"] = "out" /\ at["prefiller"] = "out"
    /\ running' = FALSE
    /\ breakEvent' = (breakEvent \/ byClose) /\ broken' = (broken \/ byClose)
    /\ Goto("closer", "joining")
    /\ UNCHANGED <<queueVars, reqVars, kv, frame, packet>>
    /\ Notify({"encoder_cv", "llm_cv", "decode_done_cv"})

\* The rest of it, once both threads have been joined.
Stopped ==
    /\ at["closer"] = "joining" /\ at["encoder"] = "exited" /\ at["llm"] = "exited"
    /\ encoderQueue' = <<>> /\ prefillQueue' = <<>>
    /\ pendingDecode' = None /\ reqDone' = (reqDone \/ pendingDecode # None)
    /\ Goto("closer", "done")
    /\ UNCHANGED <<running, breakEvent, inFlight, kv, frame, packet, broken>>
    /\ Notify(IF pendingDecode # None THEN {"decode_done_cv"} ELSE {})

-----------------------------------------------------------------------------
(* The callers: frames are submitted in order, and a decode asks for the next *)
(* frame that has been submitted.  The first one may ask for an answer to the *)
(* system prompt, before any frame.                                           *)

Submitted == frame["prefiller"] - (IF at["prefiller"] = "out" THEN 0 ELSE 1)

NextPrefill ==
    /\ frame["prefiller"] < MaxFrames
    /\ frame["decoder"] = 0 => at["decoder"] = "out"
    /\ PrefillCall(frame["prefiller"] + 1)

NextDecode ==
    \E k \in Frames :
        /\ k = frame["decoder"] + 1 \/ (k = 1 /\ frame["decoder"] = None)
        /\ k = 0 => frame["prefiller"] = 0
        /\ k <= Submitted
        /\ DecodeCall(k)

EncoderStep == Take \/ Deliver \/ EncoderExit \/ Wait("encoder")
LlmStep ==
    \/ Drop \/ Accept \/ Check \/ Fetch \/ Pick \/ Prefill \/ Decide \/ Decode
    \/ Finish \/ LlmExit \/ Wait("llm")
PrefillStep == Submit \/ Count \/ Wait("prefiller")
DecodeStep  == Post \/ PostRefused \/ DecodeReturn \/ Wait("decoder")

Next ==
    \/ NextPrefill \/ NextDecode
    \/ PrefillStep \/ DecodeStep \/ EncoderStep \/ LlmStep
    \/ Break \/ ClearBreak
    \/ \E byClose \in BOOLEAN : Stop(byClose)
    \/ Stopped

\* The threads run whenever they can; nobody has to call, to break or to stop.
Spec ==
    /\ Init /\ [][Next]_vars
    /\ WF_vars(PrefillStep) /\ WF_vars(DecodeStep)
    /\ WF_vars(EncoderStep) /\ WF_vars(LlmStep) /\ WF_vars(Stopped)

-----------------------------------------------------------------------------
(* Properties *)

Places == Waits \cup {"out", "count", "post", "check", "pick", "prefill", "decide",
                      "decode", "finish", "exited", "joining", "done"}

TypeOK ==
    /\ running \in BOOLEAN /\ breakEvent \in BOOLEAN
    /\ encoderQueue \in Seq(Frames) /\ Len(encoderQueue) <= EncoderCap
    /\ prefillQueue \in Seq(Frames) /\ Len(prefillQueue) <= PrefillCap
    /\ inFlight \in Int
    /\ pendingDecode \in Frames \cup {None} /\ reqDone \in BOOLEAN
    /\ kv \in Seq({"prefill", "decode"} \X Frames)
    /\ frame \in [Threads -> Frames \cup {None}] /\ packet \in Frames \cup {None}
    /\ at \in [Threads -> Places] /\ cond \in [Threads -> Conditions]
    /\ broken \in BOOLEAN /\ missed \subseteq Threads

\* in_flight_prefill, which the LLM thread trusts without a lock, counts the
\* frames on their way through both queues and both threads, less one while
\* duplex_prefill has queued a frame that it has not counted yet.
One(condition) == IF condition THEN 1 ELSE 0
InFlightCounts ==
    running =>
        inFlight = Len(encoderQueue) + One(at["encoder"] = "push")
                   + Len(prefillQueue) + One(at["llm"] = "prefill")
                   - One(at["prefiller"] = "count")

\* Whatever is dropped, no frame enters the context twice or after a later one.
Prefills == {i \in DOMAIN kv : kv[i][1] = "prefill"}
FramesInOrder == \A i, j \in Prefills : i < j => kv[i][2] < kv[j][2]

\* The strict 1:1 pairing of the LLM thread: a decode follows the prefill of the
\* frame it was asked for and of no other.  A break ends this: the frame that
\* the encoder holds outlives the request for it.
PairsStrictly ==
    ~broken =>
        \A i \in DOMAIN kv :
            /\ kv[i][1] = "decode" /\ kv[i][2] # 0 =>
                 i > 1 /\ kv[i - 1] = <<"prefill", kv[i][2]>>
            /\ kv[i][1] = "prefill" /\ i > 1 => kv[i - 1][1] = "decode"

\* A decode returns, whatever is broken or stopped, unless the notification came
\* between its test of done and its sleep.
DecodesReturn ==
    at["decoder"] \in {"post", "await"}
        ~> (at["decoder"] = "out" \/ "decoder" \in missed)

\* A stop joins both threads, wherever they were, with the same reservation.
StopReturns ==
    at["closer"] = "joining"
        ~> (at["closer"] = "done" \/ missed \cap {"encoder", "llm"} # {})

\* No caller stays in duplex_decode or in duplex_stop_threads for ever, however the
\* two, breaks and drops fall together, with these reservations.
CallsReturn == DecodesReturn /\ StopReturns
=============================================================================
