---------------------------- MODULE DuplexProofs ----------------------------
(***************************************************************************)
(* What the duplex pipeline and the session on top of it keep, for any     *)
(* number of frames and any capacities.                                    *)
(*                                                                         *)
(* Of the pipeline: the types of its state, InFlightCounts, PairsStrictly, *)
(* that each decode consumes its own frame, and FramesInOrder.  A request  *)
(* names no frame, so the argument for the pairing numbers the frames.     *)
(* Until a break the frames submitted and not yet picked are consecutive   *)
(* and lie, the oldest first, in prefillQueue, in the encoder's hands and  *)
(* in encoderQueue, and the decode under way is for the next of them       *)
(* (PairInv).  FramesInOrder needs less and holds with breaks: every place *)
(* has frames older than those of the places before it, and the cache has  *)
(* the oldest (WatermarkInv).                                              *)
(*                                                                         *)
(* Of the session, that it implements FrameService.  Its workers call the  *)
(* pipeline as its module expects (every step of the session is one of the *)
(* pipeline's or leaves it alone), so what has been shown of the pipeline  *)
(* holds.  To it come two invariants: SeenInv, how many frames the context *)
(* has seen, and SessionInv, in whose hands each frame is and what the     *)
(* counter of outstanding frames says of them.                             *)
(***************************************************************************)
EXTENDS DuplexSession, FiniteSetTheorems, SequenceTheorems, TLAPS

-----------------------------------------------------------------------------
(* Types. *)

LEMMA NoneIsNoFrame == None \notin Frames
  BY CapsAssumption DEF None, Frames

\* Every step but a wait moves at most one thread, and notifies others or nobody.
ThreadTypes ==
    /\ at \in [Threads -> Places] /\ cond \in [Threads -> Conditions]
    /\ missed \subseteq Threads

Moves ==
    /\ UNCHANGED at \/ \E t \in Threads, place \in Places : Goto(t, place)
    /\ Quietly \/ \E cvs : Notify(cvs)

LEMMA MovesTypes == ASSUME ThreadTypes, Moves PROVE ThreadTypes'
  <1>1. at' \in [Threads -> Places]
    BY DEF ThreadTypes, Moves, Goto
  <1>2. cond' \in [Threads -> Conditions] /\ missed' \subseteq Threads
    <2>1. CASE Quietly
      BY <2>1 DEF Quietly, ThreadTypes
    <2>2. CASE \E cvs : Notify(cvs)
      BY <2>2 DEF Notify, NotifyAll, Deaf, ThreadTypes, Conditions
    <2> QED BY <2>1, <2>2 DEF Moves
  <1> QED BY <1>1, <1>2 DEF ThreadTypes

LEMMA WaitTypes ==
    ASSUME NEW t \in Threads, ThreadTypes, Wait(t)
    PROVE  ThreadTypes' /\ at' = at
  BY DEF Wait, Blocks, Sleeps, ThreadTypes, Conditions

LEMMA CallsMove == NextPrefill \/ NextDecode => Moves
  <1>1. {"submit", "post"} \subseteq Places /\ {"prefiller", "decoder"} \subseteq Threads
    BY DEF Places, Waits, Threads
  <1> QED
    BY <1>1 DEF NextPrefill, NextDecode, PrefillCall, DecodeCall, Moves

LEMMA CallersMove == Submit \/ Count \/ Post \/ PostRefused \/ DecodeReturn => Moves
  <1>1. /\ {"out", "count", "await"} \subseteq Places
        /\ {"prefiller", "decoder"} \subseteq Threads
    BY DEF Places, Waits, Threads
  <1> QED
    BY <1>1 DEF Submit, Count, Post, PostRefused, DecodeReturn, Moves

LEMMA EncoderMoves == Take \/ Deliver \/ EncoderExit => Moves
  <1>1. {"take", "push", "exited"} \subseteq Places /\ "encoder" \in Threads
    BY DEF Places, Waits, Threads
  <1> QED
    BY <1>1 DEF Take, Deliver, EncoderExit, Moves

LEMMA LlmMoves ==
    Drop \/ Accept \/ Check \/ Fetch \/ Pick \/ Prefill \/ Decide \/ Decode \/ Finish
      \/ LlmExit => Moves
  <1>1. /\ {"idle", "check", "fetch", "pick", "prefill", "decide", "decode", "finish",
            "exited"} \subseteq Places
        /\ "llm" \in Threads
    BY DEF Places, Waits, Threads
  <1>2. Drop \/ Accept \/ Check \/ Fetch => Moves
    BY <1>1 DEF Drop, Accept, Check, Fetch, Moves
  <1>3. Pick \/ Prefill \/ Decide \/ Decode \/ Finish \/ LlmExit => Moves
    BY <1>1 DEF Pick, Prefill, Decide, Decode, Finish, LlmExit, Moves
  <1> QED BY <1>2, <1>3

LEMMA StopsMove ==
    Break \/ ClearBreak \/ (\E byClose \in BOOLEAN : Stop(byClose)) \/ Stopped => Moves
  <1>1. {"joining", "done"} \subseteq Places /\ "closer" \in Threads
    BY DEF Places, Threads
  <1> QED
    BY <1>1 DEF Break, ClearBreak, Stop, Stopped, Moves

LEMMA ThreadStep == ThreadTypes /\ [Next]_vars => ThreadTypes'
  <1> SUFFICES ASSUME ThreadTypes, [Next]_vars PROVE ThreadTypes'
    OBVIOUS
  <1>1. CASE Moves
    BY <1>1, MovesTypes
  <1>2. ASSUME NEW t \in Threads, Wait(t) PROVE ThreadTypes'
    BY <1>2, WaitTypes
  <1>3. CASE UNCHANGED vars
    BY <1>3 DEF vars, ThreadTypes
  <1> QED
    BY <1>1, <1>2, <1>3, CallsMove, CallersMove, EncoderMoves, LlmMoves, StopsMove
    DEF Next, PrefillStep, DecodeStep, EncoderStep, LlmStep, Threads

Flags ==
    /\ running \in BOOLEAN /\ breakEvent \in BOOLEAN
    /\ reqDone \in BOOLEAN /\ broken \in BOOLEAN

LEMMA FlagStep == Flags /\ [Next]_vars => Flags'
  <1> SUFFICES ASSUME Flags, [Next]_vars PROVE Flags'
    OBVIOUS
  <1> USE DEF Flags
  <1>1. CASE UNCHANGED vars
    BY <1>1, Zenon DEF vars, reqVars
  <1>2. ASSUME NEW t \in Threads, Wait(t) PROVE Flags'
    BY <1>2, Zenon DEF Wait, reqVars
  <1>3. CASE NextPrefill \/ NextDecode
    BY <1>3, Zenon DEF NextPrefill, NextDecode, PrefillCall, DecodeCall, reqVars
  <1>4. CASE Submit \/ Count \/ Post \/ PostRefused \/ DecodeReturn
    BY <1>4, Zenon DEF Submit, Count, Post, PostRefused, DecodeReturn, reqVars
  <1>5. CASE Take \/ Deliver \/ EncoderExit
    BY <1>5, Zenon DEF Take, Deliver, EncoderExit, reqVars
  <1>6. CASE Drop \/ Accept \/ Check \/ Fetch \/ Pick
    BY <1>6, Zenon DEF Drop, Accept, Check, Fetch, Pick, reqVars
  <1>7. CASE Prefill \/ Decide \/ Decode \/ Finish \/ LlmExit
    BY <1>7, Zenon DEF Prefill, Decide, Decode, Finish, LlmExit, reqVars
  <1>8. CASE Break \/ ClearBreak \/ Stopped
    BY <1>8, Zenon DEF Break, ClearBreak, Stopped, reqVars
  <1>9. ASSUME NEW byClose \in BOOLEAN, Stop(byClose) PROVE Flags'
    BY <1>9, Zenon DEF Stop, reqVars
  <1> QED
    BY <1>1, <1>2, <1>3, <1>4, <1>5, <1>6, <1>7, <1>8, <1>9
    DEF Next, PrefillStep, DecodeStep, EncoderStep, LlmStep, Threads

LEMMA GotoMoves ==
    ASSUME at \in [Threads -> Places], NEW t \in Threads, NEW place, Goto(t, place)
    PROVE  at'[t] = place /\ \A u \in Threads \ {t} : at'[u] = at[u]
  BY DEF Goto

\* Stops and calls of duplex_prefill exclude each other.
Order ==
    /\ at["closer"] = "out" <=> running
    /\ ~running => at["prefiller"] = "out"

LEMMA OrderStep ==
    ASSUME ThreadTypes, Order, [Next]_vars
    PROVE  Order'
  <1>0. /\ at \in [Threads -> Places]
        /\ Threads = {"prefiller", "decoder", "encoder", "llm", "closer"}
    BY DEF ThreadTypes, Threads
  <1> USE DEF Order
  <1>1. CASE UNCHANGED vars
    BY <1>1 DEF vars
  <1>2. ASSUME NEW t \in Threads, Wait(t) PROVE Order'
    BY <1>2, WaitTypes DEF Wait
  <1>3. CASE NextPrefill \/ NextDecode
    BY <1>0, <1>3, GotoMoves DEF NextPrefill, NextDecode, PrefillCall, DecodeCall
  <1>4. CASE Submit \/ Count \/ Post \/ PostRefused \/ DecodeReturn
    <2>1. CASE Submit
      BY <1>0, <2>1, GotoMoves DEF Submit, Enters
    <2>2. CASE Count \/ Post \/ PostRefused \/ DecodeReturn
      BY <1>0, <2>2, GotoMoves DEF Count, Post, PostRefused, DecodeReturn
    <2> QED BY <1>4, <2>1, <2>2
  <1>5. CASE Take \/ Deliver \/ EncoderExit
    BY <1>0, <1>5, GotoMoves DEF Take, Deliver, EncoderExit
  <1>6. CASE Drop \/ Accept \/ Check \/ Fetch \/ Pick
    <2>1. CASE Drop
      BY <1>0, <2>1 DEF Drop
    <2>2. CASE Pick
      <3>1. UNCHANGED running /\ \E place : Goto("llm", place)
        BY <2>2 DEF Pick
      <3> QED BY <1>0, <3>1, GotoMoves
    <2>3. CASE Accept \/ Check \/ Fetch
      BY <1>0, <2>3, GotoMoves DEF Accept, Check, Fetch
    <2> QED BY <1>6, <2>1, <2>2, <2>3
  <1>7. CASE Prefill \/ Decide \/ Decode \/ Finish \/ LlmExit
    BY <1>0, <1>7, GotoMoves DEF Prefill, Decide, Decode, Finish, LlmExit
  <1>8. CASE Break \/ ClearBreak
    BY <1>8 DEF Break, ClearBreak
  <1>9. ASSUME NEW byClose \in BOOLEAN, Stop(byClose) PROVE Order'
    BY <1>0, <1>9, GotoMoves DEF Stop
  <1>10. CASE Stopped
    BY <1>0, <1>10, GotoMoves DEF Stopped
  <1> QED
    BY <1>1, <1>2, <1>3, <1>4, <1>5, <1>6, <1>7, <1>8, <1>9, <1>10
    DEF Next, PrefillStep, DecodeStep, EncoderStep, LlmStep, Threads

\* The data of the pipeline.  A frame number is missing only from the decoder before
\* its first call, and the LLM thread prefills only with a packet in hand.
DataTypes ==
    /\ encoderQueue \in Seq(Frames) /\ Len(encoderQueue) <= EncoderCap
    /\ prefillQueue \in Seq(Frames) /\ Len(prefillQueue) <= PrefillCap
    /\ inFlight \in Int
    /\ pendingDecode \in Frames \cup {None}
    /\ kv \in Seq({"prefill", "decode"} \X Frames)
    /\ frame \in [Threads -> Frames \cup {None}] /\ packet \in Frames \cup {None}
    /\ \A t \in Threads \ {"decoder"} : frame[t] # None
    /\ at["llm"] = "prefill" => packet # None

\* A step that changes none of it.
LEMMA DataKept ==
    ASSUME DataTypes, at \in [Threads -> Places],
           UNCHANGED <<encoderQueue, prefillQueue, inFlight, pendingDecode, kv, frame,
                       packet>>,
           at'["llm"] = "prefill" => at["llm"] = "prefill"
    PROVE  DataTypes'
  BY DEF DataTypes

LEMMA CallsKeepData ==
    ASSUME DataTypes, at \in [Threads -> Places], NextPrefill \/ NextDecode
    PROVE  DataTypes'
  <1>1. ASSUME NEW t \in {"prefiller", "decoder"}, NEW k \in Frames,
               frame' = [frame EXCEPT ![t] = k],
               UNCHANGED <<encoderQueue, prefillQueue, inFlight, pendingDecode, kv,
                           packet>>,
               at'["llm"] = at["llm"]
        PROVE  DataTypes'
    <2>1. k # None /\ {"prefiller", "decoder"} \subseteq Threads
      BY NoneIsNoFrame DEF Threads
    <2>2. /\ frame' \in [Threads -> Frames \cup {None}]
          /\ \A u \in Threads \ {"decoder"} : frame'[u] # None
      BY <1>1, <2>1 DEF DataTypes
    <2> QED BY <1>1, <2>2 DEF DataTypes
  <1>2. CASE NextPrefill
    <2>1. frame["prefiller"] + 1 \in Frames
      BY <1>2, CapsAssumption DEF NextPrefill, DataTypes, Threads, Frames, None
    <2> QED
      BY <1>1, <1>2, <2>1, GotoMoves
      DEF NextPrefill, PrefillCall, queueVars, reqVars, Threads
  <1>3. CASE NextDecode
    <2>1. PICK k \in Frames : DecodeCall(k)
      BY <1>3 DEF NextDecode
    <2> QED
      BY <1>1, <2>1, GotoMoves DEF DecodeCall, queueVars, reqVars, Threads
  <1> QED BY <1>2, <1>3

LEMMA CallersKeepData ==
    ASSUME DataTypes, Order, at \in [Threads -> Places],
           Submit \/ Count \/ Post \/ PostRefused \/ DecodeReturn
    PROVE  DataTypes'
  <1>1. frame["prefiller"] \in Frames /\ frame["decoder"] \in Frames \cup {None}
    BY DEF DataTypes, Threads
  <1>2. at'["llm"] = at["llm"]
    BY GotoMoves DEF Submit, Count, Post, PostRefused, DecodeReturn, Threads
  <1>3. CASE Submit
    <2>1. Len(encoderQueue) < EncoderCap
      BY <1>3 DEF Submit, Wanted, Enters, Order
    <2> QED
      BY <1>1, <1>2, <1>3, <2>1, CapsAssumption DEF Submit, DataTypes, reqVars, Threads
  <1>4. CASE Count
    BY <1>2, <1>4 DEF Count, DataTypes, reqVars
  <1>5. CASE Post
    BY <1>1, <1>2, <1>5 DEF Post, DataTypes, queueVars
  <1>6. CASE PostRefused \/ DecodeReturn
    BY <1>2, <1>6, DataKept DEF PostRefused, DecodeReturn, queueVars, reqVars
  <1> QED BY <1>3, <1>4, <1>5, <1>6

LEMMA EncoderKeepsData ==
    ASSUME DataTypes, at \in [Threads -> Places], Take \/ Deliver \/ EncoderExit
    PROVE  DataTypes'
  <1>1. at'["llm"] = at["llm"] /\ "encoder" \in Threads
    BY GotoMoves DEF Take, Deliver, EncoderExit, Threads
  <1>2. CASE Take
    <2>1. /\ Head(encoderQueue) \in Frames /\ Tail(encoderQueue) \in Seq(Frames)
          /\ Len(Tail(encoderQueue)) <= Len(encoderQueue)
      BY <1>2 DEF Take, DataTypes
    <2>2. /\ frame' \in [Threads -> Frames \cup {None}]
          /\ \A t \in Threads \ {"decoder"} : frame'[t] # None
      BY <1>1, <1>2, <2>1, NoneIsNoFrame DEF Take, DataTypes
    <2>3. encoderQueue' \in Seq(Frames) /\ Len(encoderQueue') <= EncoderCap
      BY <1>2, <2>1, CapsAssumption DEF Take, DataTypes
    <2> QED BY <1>1, <1>2, <2>2, <2>3 DEF Take, DataTypes, reqVars
  <1>3. CASE Deliver
    <2>1. frame["encoder"] \in Frames
      BY <1>1 DEF DataTypes
    <2>2. prefillQueue' \in Seq(Frames) /\ Len(prefillQueue') <= PrefillCap
      BY <1>3, <2>1, CapsAssumption DEF Deliver, DataTypes
    <2> QED BY <1>1, <1>3, <2>2 DEF Deliver, DataTypes, reqVars
  <1>4. CASE EncoderExit
    BY <1>1, <1>4, DataKept DEF EncoderExit, queueVars, reqVars
  <1> QED BY <1>2, <1>3, <1>4

LEMMA LlmKeepsData ==
    ASSUME DataTypes, at \in [Threads -> Places],
           Drop \/ Accept \/ Check \/ Fetch \/ Pick \/ Prefill \/ Decide \/ Decode
             \/ Finish \/ LlmExit
    PROVE  DataTypes'
  <1>0. "llm" \in Threads /\ "llm" # "decoder"
    BY DEF Threads
  <1>1. CASE Drop
    <2>1. prefillQueue' \in Seq(Frames) /\ Len(prefillQueue') <= PrefillCap
      BY <1>1, CapsAssumption DEF Drop
    <2>2. inFlight' \in Int
      BY <1>1 DEF Drop, DataTypes
    <2> QED BY <1>1, <2>1, <2>2 DEF Drop, DataTypes
  <1>2. CASE Accept
    <2>1. /\ frame' \in [Threads -> Frames \cup {None}]
          /\ \A t \in Threads \ {"decoder"} : frame'[t] # None
      BY <1>0, <1>2 DEF Accept, DataTypes
    <2>2. at'["llm"] # "prefill"
      BY <1>0, <1>2, GotoMoves DEF Accept
    <2> QED BY <1>2, <2>1, <2>2 DEF Accept, DataTypes, queueVars
  <1>3. CASE Check \/ Fetch \/ Decide \/ LlmExit
    <2>1. at'["llm"] # "prefill"
      BY <1>0, <1>3, GotoMoves DEF Check, Fetch, Decide, LlmExit
    <2> QED
      BY <1>3, <2>1, DataKept DEF Check, Fetch, Decide, LlmExit, queueVars, reqVars
  <1>4. CASE Pick
    <2>1. CASE /\ prefillQueue # <<>> /\ packet' = Head(prefillQueue)
               /\ prefillQueue' = Tail(prefillQueue)
      <3>1. /\ Head(prefillQueue) \in Frames /\ Tail(prefillQueue) \in Seq(Frames)
            /\ Len(Tail(prefillQueue)) <= Len(prefillQueue)
        BY <2>1 DEF DataTypes
      <3>2. prefillQueue' \in Seq(Frames) /\ Len(prefillQueue') <= PrefillCap
        BY <2>1, <3>1, CapsAssumption DEF DataTypes
      <3> QED
        BY <1>4, <2>1, <3>1, <3>2, NoneIsNoFrame DEF Pick, DataTypes, reqVars
    <2>2. CASE Goto("llm", "decide") /\ UNCHANGED <<packet, prefillQueue>>
      <3>1. at'["llm"] # "prefill"
        BY <1>0, <2>2, GotoMoves
      <3> QED BY <1>4, <2>2, <3>1, DataKept DEF Pick, reqVars
    <2> QED BY <1>4, <2>1, <2>2 DEF Pick
  <1>5. CASE Prefill
    <2>1. at'["llm"] # "prefill" /\ packet \in Frames
      BY <1>0, <1>5, GotoMoves DEF Prefill, DataTypes
    <2>2. kv' \in Seq({"prefill", "decode"} \X Frames)
      BY <1>5, <2>1 DEF Prefill, DataTypes
    <2> QED BY <1>5, <2>1, <2>2 DEF Prefill, DataTypes, reqVars
  <1>6. CASE Decode
    <2>1. at'["llm"] # "prefill" /\ frame["llm"] \in Frames
      BY <1>0, <1>6, GotoMoves DEF Decode, DataTypes
    <2>2. kv' \in Seq({"prefill", "decode"} \X Frames)
      BY <1>6, <2>1 DEF Decode, DataTypes
    <2> QED BY <1>6, <2>1, <2>2 DEF Decode, DataTypes, queueVars, reqVars
  <1>7. CASE Finish
    <2>1. at'["llm"] # "prefill"
      BY <1>0, <1>7, GotoMoves DEF Finish
    <2> QED BY <1>7, <2>1, DataKept DEF Finish, queueVars
  <1> QED BY <1>1, <1>2, <1>3, <1>4, <1>5, <1>6, <1>7

LEMMA StopsKeepData ==
    ASSUME DataTypes, at \in [Threads -> Places],
           Break \/ ClearBreak \/ (\E byClose \in BOOLEAN : Stop(byClose)) \/ Stopped
    PROVE  DataTypes'
  <1>1. at'["llm"] = at["llm"]
    BY GotoMoves DEF Break, ClearBreak, Stop, Stopped, Threads
  <1>2. CASE Break \/ ClearBreak \/ (\E byClose \in BOOLEAN : Stop(byClose))
    BY <1>1, <1>2, DataKept DEF Break, ClearBreak, Stop, queueVars, reqVars
  <1>3. CASE Stopped
    <2>1. /\ encoderQueue' \in Seq(Frames) /\ Len(encoderQueue') <= EncoderCap
          /\ prefillQueue' \in Seq(Frames) /\ Len(prefillQueue') <= PrefillCap
      BY <1>3, CapsAssumption DEF Stopped
    <2> QED BY <1>1, <1>3, <2>1 DEF Stopped, DataTypes
  <1> QED BY <1>2, <1>3

-----------------------------------------------------------------------------

\* The types, and what they rest on.
StateInv == ThreadTypes /\ Flags /\ Order /\ DataTypes

LEMMA StateInit == Init => StateInv
  <1> SUFFICES ASSUME Init PROVE StateInv
    OBVIOUS
  <1>1. at \in [Threads -> Places] /\ cond \in [Threads -> Conditions]
    BY DEF Init, Threads, Places, Waits, Conditions
  <1>2. frame \in [Threads -> Frames \cup {None}]
    BY CapsAssumption DEF Init, Threads, Frames
  <1>3. /\ \A t \in Threads \ {"decoder"} : frame[t] # None
        /\ at["llm"] = "idle"
    BY DEF Init, Threads, None
  <1>4. /\ encoderQueue \in Seq(Frames) /\ Len(encoderQueue) <= EncoderCap
        /\ prefillQueue \in Seq(Frames) /\ Len(prefillQueue) <= PrefillCap
        /\ kv \in Seq({"prefill", "decode"} \X Frames)
    BY CapsAssumption DEF Init
  <1>5. /\ running \in BOOLEAN /\ breakEvent \in BOOLEAN /\ reqDone \in BOOLEAN
        /\ broken \in BOOLEAN
    BY Zenon DEF Init
  <1>6. /\ inFlight \in Int /\ missed \subseteq Threads
        /\ pendingDecode \in Frames \cup {None} /\ packet \in Frames \cup {None}
    BY DEF Init
  <1>7. Order
    BY DEF Init, Order
  <1> QED
    BY <1>1, <1>2, <1>3, <1>4, <1>5, <1>6, <1>7, Zenon
    DEF StateInv, ThreadTypes, Flags, DataTypes

LEMMA StateStep == ASSUME StateInv, [Next]_vars PROVE StateInv'
  <1> USE DEF StateInv
  <1>1. ThreadTypes' /\ Flags' /\ Order'
    BY ThreadStep, FlagStep, OrderStep
  <1>2. DataTypes'
    <2>0. at \in [Threads -> Places]
      BY DEF ThreadTypes
    <2>1. CASE UNCHANGED vars
      BY <2>1 DEF vars, queueVars, reqVars, DataTypes
    <2>2. ASSUME NEW t \in Threads, Wait(t) PROVE DataTypes'
      BY <2>0, <2>2, WaitTypes, DataKept DEF Wait, queueVars, reqVars
    <2> QED
      BY <2>0, <2>1, <2>2, CallsKeepData, CallersKeepData, EncoderKeepsData,
         LlmKeepsData, StopsKeepData
      DEF Next, PrefillStep, DecodeStep, EncoderStep, LlmStep, Threads
  <1> QED BY <1>1, <1>2

LEMMA StateCorrect == Spec => []StateInv
  <1>1. Init => StateInv
    BY StateInit
  <1>2. StateInv /\ [Next]_vars => StateInv'
    BY StateStep
  <1> QED BY <1>1, <1>2, PTL DEF Spec

\* In every state the pipeline's data is well formed and its queues are within their
\* capacities, for any capacities and any number of frames.  (duplex_prefill, the
\* encoder's wait for room)
THEOREM PipelineTypes == Spec => []TypeOK
  <1>1. StateInv => TypeOK
    BY Zenon DEF StateInv, ThreadTypes, Flags, DataTypes, TypeOK
  <1> QED BY <1>1, StateCorrect, PTL

-----------------------------------------------------------------------------
(* in_flight_prefill. *)

\* The queues grow by dE and dP and the counter by dF, and the counter agrees with
\* them and with the moves of the three threads.
Balanced(dE, dP, dF) ==
    /\ Len(encoderQueue') = Len(encoderQueue) + dE
    /\ Len(prefillQueue') = Len(prefillQueue) + dP
    /\ inFlight' = inFlight + dF
    /\ dF = dE + One(at'["encoder"] = "push") - One(at["encoder"] = "push")
            + dP + One(at'["llm"] = "prefill") - One(at["llm"] = "prefill")
            - One(at'["prefiller"] = "count") + One(at["prefiller"] = "count")

LEMMA CountsMove ==
    ASSUME InFlightCounts, running' => running,
           encoderQueue \in Seq(Frames), prefillQueue \in Seq(Frames), inFlight \in Int,
           NEW dE \in Int, NEW dP \in Int, NEW dF \in Int, Balanced(dE, dP, dF)
    PROVE  InFlightCounts'
  <1> DEFINE e == One(at["encoder"] = "push")
             l == One(at["llm"] = "prefill")
             c == One(at["prefiller"] = "count")
             E == Len(encoderQueue)
             P == Len(prefillQueue)
  <1>0. inFlight \in Int /\ dE \in Int /\ dP \in Int /\ dF \in Int
    OBVIOUS
  <1>1. e \in Int /\ l \in Int /\ c \in Int /\ e' \in Int /\ l' \in Int /\ c' \in Int
    BY DEF One
  <1>2. E \in Int /\ P \in Int
    OBVIOUS
  <1>3. /\ E' = E + dE /\ P' = P + dP /\ dF = dE + e' - e + dP + l' - l - c' + c
        /\ inFlight' = inFlight + dF
    BY DEF Balanced
  <1>4. ASSUME running' PROVE inFlight' = E' + e' + P' + l' - c'
    <2>1. inFlight = E + e + P + l - c
      BY <1>4 DEF InFlightCounts
    <2> HIDE DEF e, l, c, E, P
    <2>2. inFlight + dF = (E + dE) + e' + (P + dP) + l' - c'
      BY ONLY <1>0, <1>1, <1>2, <1>3, <2>1
    <2> QED BY <1>3, <2>2
  <1> QED BY <1>4, Zenon DEF InFlightCounts

LEMMA CountsKept ==
    ASSUME InFlightCounts, running' => running, UNCHANGED queueVars,
           at'["encoder"] = "push" <=> at["encoder"] = "push",
           at'["llm"] = "prefill" <=> at["llm"] = "prefill",
           at'["prefiller"] = "count" <=> at["prefiller"] = "count"
    PROVE  InFlightCounts'
  BY DEF InFlightCounts, One, queueVars

LEMMA CountsStep ==
    ASSUME StateInv, InFlightCounts, [Next]_vars
    PROVE  InFlightCounts'
  <1>0. /\ at \in [Threads -> Places]
        /\ Threads = {"prefiller", "decoder", "encoder", "llm", "closer"}
        /\ encoderQueue \in Seq(Frames) /\ prefillQueue \in Seq(Frames)
        /\ inFlight \in Int
    BY DEF StateInv, ThreadTypes, DataTypes, Threads
  <1>1. CASE UNCHANGED vars
    BY <1>1, CountsKept DEF vars
  <1>2. ASSUME NEW t \in Threads, Wait(t) PROVE InFlightCounts'
    BY <1>2, WaitTypes, CountsKept DEF Wait, StateInv
  <1>3. CASE NextPrefill \/ NextDecode
    BY <1>0, <1>3, GotoMoves, CountsKept
    DEF NextPrefill, NextDecode, PrefillCall, DecodeCall
  <1>4. CASE Submit
    <2>1. /\ at["prefiller"] = "submit" /\ at'["prefiller"] = "count"
          /\ at'["encoder"] = at["encoder"] /\ at'["llm"] = at["llm"]
      BY <1>0, <1>4, GotoMoves DEF Submit, Enters
    <2>2. /\ Len(encoderQueue') = Len(encoderQueue) + 1
          /\ UNCHANGED <<prefillQueue, inFlight, running>>
      BY <1>0, <1>4 DEF Submit, StateInv, DataTypes
    <2>3. 0 = 1 + One(at'["encoder"] = "push") - One(at["encoder"] = "push")
                + (0) + One(at'["llm"] = "prefill") - One(at["llm"] = "prefill")
                - One(at'["prefiller"] = "count") + One(at["prefiller"] = "count")
      BY ONLY <2>1 DEF One
    <2>4. Balanced(1, 0, 0)
      BY <1>0, <2>2, <2>3 DEF Balanced
    <2>5. {0, 1} \subseteq Int /\ running' => running
      BY <1>0, <2>1, <2>2
    <2> QED BY <1>0, <2>4, <2>5, CountsMove
  <1>5. CASE Count
    <2>1. /\ at["prefiller"] = "count" /\ at'["prefiller"] = "out"
          /\ at'["encoder"] = at["encoder"] /\ at'["llm"] = at["llm"]
      BY <1>0, <1>5, GotoMoves DEF Count
    <2>2. inFlight' = inFlight + 1 /\ UNCHANGED <<encoderQueue, prefillQueue, running>>
      BY <1>5 DEF Count
    <2>3. 1 = 0 + One(at'["encoder"] = "push") - One(at["encoder"] = "push")
                + (0) + One(at'["llm"] = "prefill") - One(at["llm"] = "prefill")
                - One(at'["prefiller"] = "count") + One(at["prefiller"] = "count")
      BY ONLY <2>1 DEF One
    <2>4. Balanced(0, 0, 1)
      BY <1>0, <2>2, <2>3 DEF Balanced
    <2>5. {0, 1} \subseteq Int /\ running' => running
      BY <1>0, <2>1, <2>2
    <2> QED BY <1>0, <2>4, <2>5, CountsMove
  <1>6. CASE Post \/ PostRefused \/ DecodeReturn
    BY <1>0, <1>6, GotoMoves, CountsKept DEF Post, PostRefused, DecodeReturn
  <1>7. CASE Take
    <2>1. /\ at["encoder"] = "take" /\ at'["encoder"] = "push"
          /\ at'["prefiller"] = at["prefiller"] /\ at'["llm"] = at["llm"]
      BY <1>0, <1>7, GotoMoves DEF Take, Enters
    <2>2. /\ Len(encoderQueue') = Len(encoderQueue) - 1
          /\ UNCHANGED <<prefillQueue, inFlight, running>>
      BY <1>0, <1>7 DEF Take
    <2> QED BY <1>0, <2>1, <2>2 DEF InFlightCounts, One
  <1>8. CASE Deliver
    <2>1. /\ at["encoder"] = "push" /\ at'["encoder"] = "take"
          /\ at'["prefiller"] = at["prefiller"] /\ at'["llm"] = at["llm"]
      BY <1>0, <1>8, GotoMoves DEF Deliver, Enters
    <2>2. /\ Len(prefillQueue') = Len(prefillQueue) + 1
          /\ UNCHANGED <<encoderQueue, inFlight, running>>
      BY <1>0, <1>8 DEF Deliver, StateInv, DataTypes
    <2> QED BY <1>0, <2>1, <2>2 DEF InFlightCounts, One
  <1>9. CASE EncoderExit \/ LlmExit
    BY <1>9 DEF EncoderExit, LlmExit, InFlightCounts
  <1>10. CASE Drop
    <2>1. UNCHANGED <<running, encoderQueue, at>> /\ prefillQueue' = <<>>
          /\ inFlight' = inFlight - Len(prefillQueue)
      BY <1>10 DEF Drop
    <2>2. Len(prefillQueue') = 0
      BY <2>1
    <2>3. -Len(prefillQueue) = 0 + One(at'["encoder"] = "push") - One(at["encoder"] = "push")
                + (-Len(prefillQueue)) + One(at'["llm"] = "prefill") - One(at["llm"] = "prefill")
                - One(at'["prefiller"] = "count") + One(at["prefiller"] = "count")
      BY ONLY <2>1, <1>0 DEF One
    <2>4. Balanced(0, -Len(prefillQueue), -Len(prefillQueue))
      BY <1>0, <2>1, <2>2, <2>3 DEF Balanced
    <2>5. {-Len(prefillQueue), 0} \subseteq Int /\ running' => running
      BY <1>0, <2>1, <2>2
    <2> QED BY <1>0, <2>4, <2>5, CountsMove
  <1>11. CASE Accept \/ Check \/ Fetch \/ Decide \/ Decode \/ Finish
    <2>1. /\ at["llm"] # "prefill" /\ at'["llm"] # "prefill"
          /\ at'["encoder"] = at["encoder"] /\ at'["prefiller"] = at["prefiller"]
      BY <1>0, <1>11, GotoMoves DEF Accept, Check, Fetch, Decide, Decode, Finish, Enters
    <2> QED
      BY <1>11, <2>1, CountsKept DEF Accept, Check, Fetch, Decide, Decode, Finish
  <1>12. CASE Pick
    <2>1. CASE /\ prefillQueue # <<>> /\ prefillQueue' = Tail(prefillQueue)
               /\ Goto("llm", "prefill")
      <3>1. /\ at["llm"] = "pick" /\ at'["llm"] = "prefill"
            /\ at'["prefiller"] = at["prefiller"] /\ at'["encoder"] = at["encoder"]
        BY <1>0, <1>12, <2>1, GotoMoves DEF Pick
      <3>2. Len(prefillQueue') = Len(prefillQueue) - 1
        BY <1>0, <2>1
      <3>3. UNCHANGED <<encoderQueue, inFlight, running>>
        BY <1>12 DEF Pick
      <3> QED BY <1>0, <3>1, <3>2, <3>3 DEF InFlightCounts, One
    <2>2. CASE Goto("llm", "decide") /\ UNCHANGED prefillQueue
      <3>1. /\ at["llm"] = "pick" /\ at'["llm"] = "decide"
            /\ at'["prefiller"] = at["prefiller"] /\ at'["encoder"] = at["encoder"]
        BY <1>0, <1>12, <2>2, GotoMoves DEF Pick
      <3> QED BY <1>12, <2>2, <3>1, CountsKept DEF Pick, queueVars
    <2> QED BY <1>12, <2>1, <2>2 DEF Pick
  <1>13. CASE Prefill
    <2>1. /\ at["llm"] = "prefill" /\ at'["llm"] = "decide"
          /\ at'["prefiller"] = at["prefiller"] /\ at'["encoder"] = at["encoder"]
      BY <1>0, <1>13, GotoMoves DEF Prefill
    <2>2. inFlight' = inFlight - 1 /\ UNCHANGED <<encoderQueue, prefillQueue, running>>
      BY <1>13 DEF Prefill
    <2>3. -1 = 0 + One(at'["encoder"] = "push") - One(at["encoder"] = "push")
                + (0) + One(at'["llm"] = "prefill") - One(at["llm"] = "prefill")
                - One(at'["prefiller"] = "count") + One(at["prefiller"] = "count")
      BY ONLY <2>1 DEF One
    <2>4. Balanced(0, 0, -1)
      BY <1>0, <2>2, <2>3 DEF Balanced
    <2>5. {-1, 0} \subseteq Int /\ running' => running
      BY <1>0, <2>1, <2>2
    <2> QED BY <1>0, <2>4, <2>5, CountsMove
  <1>14. CASE Break \/ ClearBreak
    BY <1>14, CountsKept DEF Break, ClearBreak
  <1>15. CASE \E byClose \in BOOLEAN : Stop(byClose)
    BY <1>15 DEF Stop, InFlightCounts
  <1>16. CASE Stopped
    BY <1>16 DEF Stopped, StateInv, Order, InFlightCounts
  <1> QED
    BY <1>1, <1>2, <1>3, <1>4, <1>5, <1>6, <1>7, <1>8, <1>9, <1>10, <1>11, <1>12, <1>13,
       <1>14, <1>15, <1>16
    DEF Next, PrefillStep, DecodeStep, EncoderStep, LlmStep, Threads

\* The atomic counter that the LLM thread trusts counts the frames on their way,
\* whatever is broken or stopped and in whatever order it is raised and lowered.
THEOREM CounterCorrect == Spec => []InFlightCounts
  <1>1. Init => InFlightCounts
    BY DEF Init, InFlightCounts, One
  <1>2. StateInv /\ InFlightCounts /\ [Next]_vars => InFlightCounts'
    BY CountsStep
  <1> QED BY <1>1, <1>2, StateCorrect, PTL DEF Spec
-----------------------------------------------------------------------------
(* The pairing.  A request names no frame, so what has to be shown is that the  *)
(* frames are where the counts of frames say they are: numbered in order        *)
(* through both queues and the encoder's hand, with the LLM thread's request    *)
(* for the very next of them.                                                   *)

\* The frames that the LLM thread has taken from its queue.
Picked == IF at["llm"] \in {"check", "fetch", "pick"} /\ frame["llm"] > 0
            THEN frame["llm"] - 1 ELSE frame["llm"]
Held   == One(at["encoder"] = "push")
Queued == frame["prefiller"] - One(at["prefiller"] = "submit")

Numbered(queue, n) == \A i \in DOMAIN queue : queue[i] = n + i

QueuesInv ==
    /\ at["prefiller"] # "out" => frame["prefiller"] > 0
    /\ Numbered(prefillQueue, Picked)
    /\ at["encoder"] = "push" => frame["encoder"] = Picked + Len(prefillQueue) + 1
    /\ Numbered(encoderQueue, Picked + Len(prefillQueue) + Held)
    /\ Queued = Picked + Len(prefillQueue) + Held + Len(encoderQueue)
    /\ inFlight = Submitted - Picked + One(at["llm"] = "prefill")

\* The request is for the frame after the last, or for the prompt before all frames.
Due == frame["decoder"] = frame["llm"] + 1 \/ (frame["decoder"] = 0 /\ frame["llm"] = 0)

Working == at["llm"] \notin {"idle", "exited"}

DecoderInv ==
    /\ at["decoder"] \in {"out", "post", "await"}
    /\ at["decoder"] = "out" =>
         /\ pendingDecode = None /\ at["llm"] = "idle"
         /\ frame["decoder"] = frame["llm"] \/ (frame["decoder"] = None /\ frame["llm"] = 0)
    /\ at["decoder"] = "post" => pendingDecode = None /\ at["llm"] = "idle" /\ Due
    /\ at["decoder"] = "await" =>
         \/ pendingDecode = frame["decoder"] /\ at["llm"] = "idle" /\ ~reqDone /\ Due
         \/ pendingDecode = None /\ Working /\ ~reqDone /\ frame["decoder"] = frame["llm"]
         \/ pendingDecode = None /\ at["llm"] = "idle" /\ reqDone
              /\ frame["decoder"] = frame["llm"]
    /\ at["decoder"] # "out" =>
         /\ frame["decoder"] \in 0..Submitted
         /\ frame["decoder"] = 0 => frame["prefiller"] = 0

\* The last frame to enter the context has been answered.
Answered == kv # <<>> => kv[Len(kv)][1] = "decode"

LlmInv ==
    /\ at["llm"] = "check" => (inFlight > 0 <=> frame["llm"] > 0)
    /\ at["llm"] = "fetch" => frame["llm"] > 0
    /\ at["llm"] = "pick" => /\ frame["llm"] > 0
                             /\ prefillQueue # <<>> /\ Head(prefillQueue) = frame["llm"]
    /\ at["llm"] = "prefill" => packet = frame["llm"] /\ frame["llm"] > 0
    /\ IF at["llm"] \in {"decide", "decode"} /\ frame["llm"] # 0
         THEN kv # <<>> /\ kv[Len(kv)] = <<"prefill", frame["llm"]>>
         ELSE Answered

PairAt(s, i) ==
    /\ s[i][1] = "decode" /\ s[i][2] # 0 =>
         i > 1 /\ s[i - 1] = <<"prefill", s[i][2]>>
    /\ s[i][1] = "prefill" /\ i > 1 => s[i - 1][1] = "decode"

Paired == \A i \in DOMAIN kv : PairAt(kv, i)

PairInv ==
    ~broken => /\ ~breakEvent /\ Paired /\ LlmInv
               /\ running => QueuesInv /\ DecoderInv

LEMMA AppendNumbered ==
    ASSUME NEW s \in Seq(Frames), NEW n \in Int, NEW k \in Frames,
           Numbered(s, n), k = n + Len(s) + 1
    PROVE  Numbered(Append(s, k), n)
  BY DEF Numbered

LEMMA TailNumbered ==
    ASSUME NEW s \in Seq(Frames), NEW n \in Int, Numbered(s, n), s # <<>>
    PROVE  /\ Head(s) = n + 1 /\ Numbered(Tail(s), n + 1)
           /\ Tail(s) \in Seq(Frames) /\ Len(Tail(s)) = Len(s) - 1
  <1>1. /\ Len(s) > 0 /\ Tail(s) \in Seq(Frames) /\ Len(Tail(s)) = Len(s) - 1
        /\ \A i \in 1..Len(Tail(s)) : Tail(s)[i] = s[i + 1]
        /\ Head(s) = s[1]
    OBVIOUS
  <1> QED BY <1>1 DEF Numbered, Frames

LEMMA HeadStays ==
    ASSUME NEW s \in Seq(Frames), NEW k \in Frames, s # <<>>
    PROVE  Append(s, k) # <<>> /\ Head(Append(s, k)) = Head(s)
  OBVIOUS

\* What the numbers are.
LEMMA Numbers ==
    ASSUME StateInv
    PROVE  /\ at \in [Threads -> Places]
           /\ Threads = {"prefiller", "decoder", "encoder", "llm", "closer"}
           /\ encoderQueue \in Seq(Frames) /\ prefillQueue \in Seq(Frames)
           /\ Len(encoderQueue) \in Nat /\ Len(prefillQueue) \in Nat
           /\ inFlight \in Int /\ Frames \subseteq Int
           /\ frame["llm"] \in Frames /\ frame["llm"] >= 0
           /\ frame["prefiller"] \in Frames /\ frame["encoder"] \in Frames
           /\ frame["decoder"] \in Frames \cup {None}
           /\ frame \in [Threads -> Frames \cup {None}]
           /\ Picked \in Int /\ Held \in Int /\ Queued \in Int /\ Submitted \in Int
  <1>1. /\ at \in [Threads -> Places]
        /\ Threads = {"prefiller", "decoder", "encoder", "llm", "closer"}
        /\ encoderQueue \in Seq(Frames) /\ prefillQueue \in Seq(Frames)
        /\ inFlight \in Int
        /\ frame \in [Threads -> Frames \cup {None}]
        /\ \A t \in Threads \ {"decoder"} : frame[t] # None
    BY DEF StateInv, ThreadTypes, DataTypes, Threads
  <1>2. /\ frame["llm"] \in Frames /\ frame["prefiller"] \in Frames
        /\ frame["encoder"] \in Frames /\ frame["decoder"] \in Frames \cup {None}
    BY <1>1
  <1>3. Frames \subseteq Int /\ frame["llm"] >= 0
    BY <1>2, CapsAssumption DEF Frames
  <1>4. Picked \in Int /\ Held \in Int /\ Queued \in Int /\ Submitted \in Int
    <2>1. frame["llm"] \in Int /\ frame["prefiller"] \in Int
      BY <1>2, <1>3
    <2>2. Picked \in Int
      BY <2>1 DEF Picked
    <2>4. Held \in {0, 1} /\ One(at["prefiller"] = "submit") \in {0, 1}
      BY DEF Held, One
    <2>5. Queued \in Int /\ Submitted \in Int
      BY <2>1, <2>4 DEF Queued, Submitted
    <2> QED BY <2>2, <2>4, <2>5
  <1> QED BY <1>1, <1>2, <1>3, <1>4

(* What a step does not touch. *)

LEMMA LlmKept ==
    ASSUME LlmInv, UNCHANGED <<kv, packet>>,
           at'["llm"] = at["llm"], frame'["llm"] = frame["llm"],
           at["llm"] = "check" => (inFlight' > 0 <=> inFlight > 0),
           at["llm"] = "pick" => /\ prefillQueue' # <<>>
                                 /\ Head(prefillQueue') = Head(prefillQueue)
    PROVE  LlmInv'
  BY DEF LlmInv, Answered

LEMMA LlmSame ==
    ASSUME LlmInv, UNCHANGED <<kv, packet, inFlight, prefillQueue>>,
           at'["llm"] = at["llm"], frame'["llm"] = frame["llm"]
    PROVE  LlmInv'
  BY DEF LlmInv, Answered

LEMMA QueuesKept ==
    ASSUME QueuesInv, UNCHANGED queueVars, Picked' = Picked,
           at'["prefiller"] = at["prefiller"], at'["encoder"] = at["encoder"],
           at'["llm"] = "prefill" <=> at["llm"] = "prefill",
           frame'["prefiller"] = frame["prefiller"], frame'["encoder"] = frame["encoder"]
    PROVE  QueuesInv'
  <1>1. Held' = Held /\ Queued' = Queued /\ Submitted' = Submitted
    BY DEF Held, Queued, Submitted, One
  <1>2. One(at["llm"] = "prefill")' = One(at["llm"] = "prefill")
    BY DEF One
  <1> QED BY <1>1, <1>2 DEF QueuesInv, Numbered, queueVars

LEMMA DecoderKept ==
    ASSUME DecoderInv, UNCHANGED reqVars,
           at'["decoder"] = at["decoder"], at'["llm"] = at["llm"],
           frame'["decoder"] = frame["decoder"], frame'["llm"] = frame["llm"],
           Submitted \in Int, Submitted' \in Int, Submitted' >= Submitted,
           at["decoder"] # "out" /\ frame["decoder"] = 0
             => frame'["prefiller"] = frame["prefiller"]
    PROVE  DecoderInv'
  <1>1. Due' = Due /\ Working' = Working
    BY DEF Due, Working
  <1>2. at["decoder"] # "out" => /\ frame'["decoder"] \in 0..Submitted'
                                 /\ frame'["decoder"] = 0 => frame'["prefiller"] = 0
    BY DEF DecoderInv
  <1>3. pendingDecode' = pendingDecode /\ reqDone' = reqDone
    BY DEF reqVars
  <1> HIDE DEF Due, Working
  <1> QED BY <1>1, <1>2, <1>3 DEF DecoderInv

(* The steps of the callers. *)

LEMMA PairKept ==
    ASSUME StateInv, PairInv, ~broken, UNCHANGED <<breakEvent, kv>>, LlmInv',
           running' => QueuesInv' /\ DecoderInv'
    PROVE  PairInv'
  BY DEF PairInv, Paired

LEMMA PrefillCallPairs ==
    ASSUME StateInv, PairInv, ~broken, NextPrefill
    PROVE  PairInv'
  <1> DEFINE k == frame["prefiller"] + 1
  <1>1. /\ at["prefiller"] = "out" /\ at["closer"] = "out"
        /\ frame["decoder"] = 0 => at["decoder"] = "out"
        /\ frame' = [frame EXCEPT !["prefiller"] = k]
        /\ Goto("prefiller", "submit")
        /\ UNCHANGED <<running, breakEvent, queueVars, reqVars, kv, packet>>
    BY DEF NextPrefill, PrefillCall
  <1>2. /\ at'["prefiller"] = "submit"
        /\ \A u \in {"decoder", "encoder", "llm"} :
             at'[u] = at[u] /\ frame'[u] = frame[u]
        /\ frame'["prefiller"] = k
    BY <1>1, Numbers, GotoMoves
  <1>3. running /\ LlmInv /\ QueuesInv /\ DecoderInv
    BY <1>1 DEF StateInv, Order, PairInv
  <1>4. Queued' = Queued /\ Submitted' = Submitted /\ Picked' = Picked /\ Held' = Held
    BY <1>1, <1>2, Numbers DEF Queued, Submitted, Picked, Held, One
  <1>5. LlmInv'
    BY <1>1, <1>2, <1>3, LlmSame DEF queueVars
  <1>6. QueuesInv'
    <2>1. k > 0
      BY <1>1, Numbers, CapsAssumption DEF Frames
    <2>2. One(at["llm"] = "prefill")' = One(at["llm"] = "prefill")
      BY <1>2
    <2> QED BY <1>1, <1>2, <1>3, <1>4, <2>1, <2>2 DEF QueuesInv, Numbered, queueVars
  <1>7. DecoderInv'
    BY <1>1, <1>2, <1>3, <1>4, Numbers, DecoderKept
  <1> QED BY <1>1, <1>5, <1>6, <1>7, PairKept

LEMMA DecodeCallPairs ==
    ASSUME StateInv, PairInv, ~broken, NextDecode
    PROVE  PairInv'
  <1>0. PICK k \in Frames :
          /\ k = frame["decoder"] + 1 \/ (k = 1 /\ frame["decoder"] = None)
          /\ k = 0 => frame["prefiller"] = 0
          /\ k <= Submitted
          /\ DecodeCall(k)
    BY DEF NextDecode
  <1>1. /\ at["decoder"] = "out" /\ running
        /\ frame' = [frame EXCEPT !["decoder"] = k]
        /\ Goto("decoder", "post")
        /\ UNCHANGED <<running, breakEvent, queueVars, reqVars, kv, packet>>
    BY <1>0 DEF DecodeCall
  <1>2. /\ at'["decoder"] = "post" /\ frame'["decoder"] = k
        /\ \A u \in {"prefiller", "encoder", "llm"} :
             at'[u] = at[u] /\ frame'[u] = frame[u]
    BY <1>1, Numbers, GotoMoves
  <1>3. running /\ LlmInv /\ QueuesInv /\ DecoderInv
    BY <1>1 DEF PairInv
  <1>4. Submitted' = Submitted /\ Picked' = Picked
    BY <1>2 DEF Submitted, Picked
  <1>5. LlmInv'
    BY <1>1, <1>2, <1>3, LlmSame DEF queueVars
  <1>6. QueuesInv'
    BY <1>1, <1>2, <1>3, <1>4, QueuesKept
  <1>7. DecoderInv'
    <2>1. Due'
      BY <1>0, <1>1, <1>2, <1>3, Numbers, CapsAssumption
      DEF DecoderInv, Due, None, Frames
    <2>2. k \in 0..Submitted
      BY <1>0, Numbers, CapsAssumption DEF Frames
    <2> QED
      BY <1>0, <1>1, <1>2, <1>3, <1>4, <2>1, <2>2 DEF DecoderInv, reqVars
  <1> QED BY <1>1, <1>5, <1>6, <1>7, PairKept

LEMMA SubmitPairs ==
    ASSUME StateInv, PairInv, ~broken, Submit
    PROVE  PairInv'
  <1> DEFINE k == frame["prefiller"]
             base == Picked + Len(prefillQueue) + Held
  <1>1. /\ at["prefiller"] = "submit"
        /\ encoderQueue' = Append(encoderQueue, k)
        /\ Goto("prefiller", "count")
        /\ UNCHANGED <<running, breakEvent, prefillQueue, inFlight, reqVars, kv, frame,
                       packet>>
    BY DEF Submit, Enters
  <1>2. /\ at'["prefiller"] = "count"
        /\ \A u \in {"decoder", "encoder", "llm"} : at'[u] = at[u]
    BY <1>1, Numbers, GotoMoves
  <1>3. running /\ LlmInv /\ QueuesInv /\ DecoderInv
    BY <1>1 DEF StateInv, Order, PairInv
  <1>4. /\ Submitted' = Submitted /\ Picked' = Picked /\ Held' = Held
        /\ Queued' = k /\ Queued = k - 1
    BY <1>1, <1>2, Numbers DEF Queued, Submitted, Picked, Held, One
  <1>5. LlmInv'
    BY <1>1, <1>2, <1>3, LlmSame
  <1>6. QueuesInv'
    <2>1. base \in Int /\ Numbered(encoderQueue, base) /\ k = base + Len(encoderQueue) + 1
      <3>1. base \in Int /\ k \in Int
        BY Numbers
      <3>2. Numbered(encoderQueue, base) /\ Queued = base + Len(encoderQueue)
        BY <1>3 DEF QueuesInv
      <3> HIDE DEF base, k
      <3> QED BY <1>4, <3>1, <3>2, Numbers
    <2>2. Len(encoderQueue') = Len(encoderQueue) + 1
      BY <1>1, Numbers
    <2>3. base' = base
      BY <1>1, <1>4
    <2> HIDE DEF base
    <2>4. Numbered(encoderQueue', base)
      BY <1>1, <2>1, Numbers, AppendNumbered
    <2>5. Numbered(encoderQueue, base)' /\ Queued' = base' + Len(encoderQueue')
      BY <1>4, <2>1, <2>2, <2>3, <2>4, Numbers DEF Numbered
    <2>6. One(at["llm"] = "prefill")' = One(at["llm"] = "prefill")
      BY <1>2
    <2> QED
      BY <1>1, <1>2, <1>3, <1>4, <2>5, <2>6 DEF QueuesInv, Numbered, base
  <1>7. DecoderInv'
    BY <1>1, <1>2, <1>3, <1>4, Numbers, DecoderKept
  <1> QED BY <1>1, <1>5, <1>6, <1>7, PairKept

LEMMA CountPairs ==
    ASSUME StateInv, PairInv, ~broken, Count
    PROVE  PairInv'
  <1>1. /\ at["prefiller"] = "count"
        /\ inFlight' = inFlight + 1
        /\ Goto("prefiller", "out")
        /\ UNCHANGED <<running, breakEvent, encoderQueue, prefillQueue, reqVars, kv,
                       frame, packet>>
    BY DEF Count
  <1>2. /\ at'["prefiller"] = "out"
        /\ \A u \in {"decoder", "encoder", "llm"} : at'[u] = at[u]
    BY <1>1, Numbers, GotoMoves
  <1>3. running /\ LlmInv /\ QueuesInv /\ DecoderInv
    BY <1>1 DEF StateInv, Order, PairInv
  <1>4. /\ Picked' = Picked /\ Held' = Held /\ Queued' = Queued
        /\ Submitted' = Submitted + 1
    BY <1>1, <1>2, Numbers DEF Queued, Submitted, Picked, Held, One
  <1>5. LlmInv'
    <2>1. at["llm"] = "check" => frame["llm"] > 0
      <3>1. at["llm"] = "check" => at["decoder"] = "await" /\ frame["decoder"] = frame["llm"]
        BY <1>3 DEF DecoderInv
      <3>2. frame["prefiller"] > 0
        BY <1>1, <1>3 DEF QueuesInv
      <3> QED BY <1>3, <3>1, <3>2, Numbers DEF DecoderInv
    <2>2. at["llm"] = "check" => inFlight > 0 /\ inFlight' > 0
      BY <1>1, <1>3, <2>1, Numbers DEF LlmInv
    <2>3. /\ at["llm"] = "check" => (inFlight' > 0 <=> inFlight > 0)
          /\ at["llm"] = "pick" => /\ prefillQueue' # <<>>
                                   /\ Head(prefillQueue') = Head(prefillQueue)
      BY <1>1, <1>3, <2>2 DEF LlmInv
    <2> QED BY <1>1, <1>2, <1>3, <2>3, LlmKept
  <1>6. QueuesInv'
    <2>1. One(at["llm"] = "prefill")' = One(at["llm"] = "prefill")
      BY <1>2
    <2>2. inFlight' = Submitted' - Picked' + One(at["llm"] = "prefill")'
      <3>1. One(at["llm"] = "prefill") \in Int
        BY DEF One
      <3>2. inFlight = Submitted - Picked + One(at["llm"] = "prefill")
        BY <1>3 DEF QueuesInv
      <3>3. inFlight' = inFlight + 1 /\ Picked' = Picked /\ Submitted' = Submitted + 1
        BY <1>1, <1>4
      <3>4. inFlight \in Int /\ Submitted \in Int /\ Picked \in Int
        BY Numbers
      <3> QED BY ONLY <2>1, <3>1, <3>2, <3>3, <3>4
    <2> QED BY <1>1, <1>2, <1>3, <1>4, <2>2 DEF QueuesInv, Numbered
  <1>7. DecoderInv'
    BY <1>1, <1>2, <1>3, <1>4, Numbers, DecoderKept
  <1> QED BY <1>1, <1>5, <1>6, <1>7, PairKept

LEMMA PostPairs ==
    ASSUME StateInv, PairInv, ~broken, Post
    PROVE  PairInv'
  <1>1. /\ at["decoder"] = "post" /\ running
        /\ pendingDecode' = frame["decoder"] /\ reqDone' = FALSE
        /\ Goto("decoder", "await")
        /\ UNCHANGED <<running, breakEvent, queueVars, kv, frame, packet>>
    BY DEF Post
  <1>2. /\ at'["decoder"] = "await"
        /\ \A u \in {"prefiller", "encoder", "llm"} : at'[u] = at[u]
    BY <1>1, Numbers, GotoMoves
  <1>3. LlmInv /\ QueuesInv /\ DecoderInv
    BY <1>1 DEF PairInv
  <1>4. Submitted' = Submitted /\ Picked' = Picked
    BY <1>1, <1>2 DEF Submitted, Picked
  <1>5. LlmInv' /\ QueuesInv'
    BY <1>1, <1>2, <1>3, <1>4, LlmSame, QueuesKept DEF queueVars
  <1>6. DecoderInv'
    <2>1. Due' = Due
      BY <1>1 DEF Due
    <2> QED BY <1>1, <1>2, <1>3, <1>4, <2>1 DEF DecoderInv
  <1> QED BY <1>1, <1>5, <1>6, PairKept

LEMMA ReturnPairs ==
    ASSUME StateInv, PairInv, ~broken, PostRefused \/ DecodeReturn
    PROVE  PairInv'
  <1>1. /\ Goto("decoder", "out")
        /\ UNCHANGED <<running, breakEvent, queueVars, reqVars, kv, frame, packet>>
        /\ running => at["decoder"] = "await" /\ reqDone
    BY DEF PostRefused, DecodeReturn, Enters, Wanted
  <1>2. /\ at'["decoder"] = "out"
        /\ \A u \in {"prefiller", "encoder", "llm"} : at'[u] = at[u]
    BY <1>1, Numbers, GotoMoves
  <1>3. LlmInv /\ (running => QueuesInv /\ DecoderInv)
    BY DEF PairInv
  <1>4. Submitted' = Submitted /\ Picked' = Picked
    BY <1>1, <1>2 DEF Submitted, Picked
  <1>5. LlmInv'
    BY <1>1, <1>2, <1>3, LlmSame DEF queueVars
  <1>6. ASSUME running PROVE QueuesInv' /\ DecoderInv'
    <2>1. QueuesInv'
      BY <1>1, <1>2, <1>3, <1>4, <1>6, QueuesKept
    <2>2. pendingDecode = None /\ at["llm"] = "idle" /\ frame["decoder"] = frame["llm"]
      BY <1>1, <1>3, <1>6 DEF DecoderInv
    <2> QED BY <1>1, <1>2, <2>1, <2>2 DEF DecoderInv, reqVars
  <1> QED BY <1>1, <1>5, <1>6, PairKept

-----------------------------------------------------------------------------
(* The steps of the encoder. *)

LEMMA TakePairs ==
    ASSUME StateInv, PairInv, ~broken, Take
    PROVE  PairInv'
  <1> DEFINE base == Picked + Len(prefillQueue)
  <1>1. /\ at["encoder"] = "take" /\ running /\ encoderQueue # <<>>
        /\ frame' = [frame EXCEPT !["encoder"] = Head(encoderQueue)]
        /\ encoderQueue' = Tail(encoderQueue)
        /\ Goto("encoder", "push")
        /\ UNCHANGED <<running, breakEvent, prefillQueue, inFlight, reqVars, kv, packet>>
    BY DEF Take, Enters
  <1>2. /\ at'["encoder"] = "push" /\ frame'["encoder"] = Head(encoderQueue)
        /\ \A u \in {"prefiller", "decoder", "llm"} :
             at'[u] = at[u] /\ frame'[u] = frame[u]
    BY <1>1, Numbers, GotoMoves
  <1>3. LlmInv /\ QueuesInv /\ DecoderInv
    BY <1>1 DEF PairInv
  <1>4. /\ Submitted' = Submitted /\ Picked' = Picked /\ Queued' = Queued
        /\ Held = 0 /\ Held' = 1
    BY <1>1, <1>2 DEF Submitted, Picked, Queued, Held, One
  <1>5. LlmInv'
    BY <1>1, <1>2, <1>3, LlmSame
  <1>6. QueuesInv'
    <2>1. base \in Int /\ Numbered(encoderQueue, base) /\ Queued = base + Len(encoderQueue)
      BY <1>3, <1>4, Numbers DEF QueuesInv
    <2>2. base' = base
      BY <1>1, <1>4
    <2> HIDE DEF base
    <2>3. /\ Head(encoderQueue) = base + 1 /\ Numbered(Tail(encoderQueue), base + 1)
          /\ Len(Tail(encoderQueue)) = Len(encoderQueue) - 1
      BY <1>1, <2>1, Numbers, TailNumbered
    <2>4. /\ Numbered(encoderQueue', base' + Held')
          /\ Queued' = base' + Held' + Len(encoderQueue')
          /\ frame'["encoder"] = base' + 1
      BY <1>1, <1>2, <1>4, <2>1, <2>2, <2>3, Numbers
    <2>5. One(at["llm"] = "prefill")' = One(at["llm"] = "prefill")
      BY <1>2
    <2> QED
      BY <1>1, <1>2, <1>3, <1>4, <2>4, <2>5 DEF QueuesInv, Numbered, base
  <1>7. DecoderInv'
    BY <1>1, <1>2, <1>3, <1>4, Numbers, DecoderKept
  <1> QED BY <1>1, <1>5, <1>6, <1>7, PairKept

LEMMA DeliverPairs ==
    ASSUME StateInv, PairInv, ~broken, Deliver
    PROVE  PairInv'
  <1>1. /\ at["encoder"] = "push" /\ running
        /\ prefillQueue' = Append(prefillQueue, frame["encoder"])
        /\ Goto("encoder", "take")
        /\ UNCHANGED <<running, breakEvent, encoderQueue, inFlight, reqVars, kv, frame,
                       packet>>
    BY DEF Deliver, Enters
  <1>2. /\ at'["encoder"] = "take"
        /\ \A u \in {"prefiller", "decoder", "llm"} : at'[u] = at[u]
    BY <1>1, Numbers, GotoMoves
  <1>3. LlmInv /\ QueuesInv /\ DecoderInv
    BY <1>1 DEF PairInv
  <1>4. /\ Submitted' = Submitted /\ Picked' = Picked /\ Queued' = Queued
        /\ Held = 1 /\ Held' = 0
    BY <1>1, <1>2 DEF Submitted, Picked, Queued, Held, One
  <1>5. LlmInv'
    <2>1. prefillQueue # <<>> => /\ prefillQueue' # <<>>
                                 /\ Head(prefillQueue') = Head(prefillQueue)
      BY <1>1, Numbers, HeadStays
    <2>2. at["llm"] = "pick" => prefillQueue # <<>>
      BY <1>3 DEF LlmInv
    <2> QED BY <1>1, <1>2, <1>3, <2>1, <2>2, LlmKept
  <1>6. QueuesInv'
    <2>1. /\ Numbered(prefillQueue, Picked)
          /\ frame["encoder"] = Picked + Len(prefillQueue) + 1
      BY <1>1, <1>3 DEF QueuesInv
    <2>2. Numbered(prefillQueue', Picked')
      BY <1>1, <1>4, <2>1, Numbers, AppendNumbered
    <2>3. Len(prefillQueue') = Len(prefillQueue) + 1
      BY <1>1, Numbers
    <2>4. Picked' + Len(prefillQueue') + Held' = Picked + Len(prefillQueue) + Held
      BY <1>4, <2>3, Numbers
    <2>5. One(at["llm"] = "prefill")' = One(at["llm"] = "prefill")
      BY <1>2
    <2> QED
      BY <1>1, <1>2, <1>3, <1>4, <2>2, <2>4, <2>5 DEF QueuesInv, Numbered
  <1>7. DecoderInv'
    BY <1>1, <1>2, <1>3, <1>4, Numbers, DecoderKept
  <1> QED BY <1>1, <1>5, <1>6, <1>7, PairKept

LEMMA EncoderExitPairs ==
    ASSUME StateInv, PairInv, ~broken, EncoderExit
    PROVE  PairInv'
  <1>1. /\ ~running /\ Goto("encoder", "exited")
        /\ UNCHANGED <<running, breakEvent, queueVars, reqVars, kv, frame, packet>>
    BY DEF EncoderExit
  <1>2. at'["llm"] = at["llm"]
    BY <1>1, Numbers, GotoMoves
  <1>3. LlmInv'
    BY <1>1, <1>2, LlmSame DEF PairInv, queueVars
  <1> QED BY <1>1, <1>3, PairKept

-----------------------------------------------------------------------------
(* The steps of the LLM thread. *)

LEMMA AcceptPairs ==
    ASSUME StateInv, PairInv, ~broken, Accept
    PROVE  PairInv'
  <1>1. /\ at["llm"] = "idle" /\ running /\ pendingDecode # None
        /\ frame' = [frame EXCEPT !["llm"] = pendingDecode]
        /\ pendingDecode' = None
        /\ Goto("llm", "check")
        /\ UNCHANGED <<running, breakEvent, queueVars, reqDone, kv, packet>>
    BY DEF Accept, Enters
  <1>2. /\ at'["llm"] = "check" /\ frame'["llm"] = pendingDecode
        /\ \A u \in {"prefiller", "decoder", "encoder"} :
             at'[u] = at[u] /\ frame'[u] = frame[u]
    BY <1>1, Numbers, GotoMoves
  <1>3. LlmInv /\ QueuesInv /\ DecoderInv
    BY <1>1 DEF PairInv
  <1>4. /\ at["decoder"] = "await" /\ pendingDecode = frame["decoder"] /\ ~reqDone /\ Due
        /\ frame["decoder"] \in 0..Submitted
        /\ frame["decoder"] = 0 => frame["prefiller"] = 0 /\ at["prefiller"] = "out"
    BY <1>1, <1>3 DEF DecoderInv, QueuesInv
  <1>5. Submitted' = Submitted /\ Picked' = Picked /\ Picked = frame["llm"]
    <2>1. Submitted' = Submitted /\ Picked = frame["llm"]
      BY <1>1, <1>2 DEF Submitted, Picked
    <2>2. Picked' = frame["llm"]
      BY <1>2, <1>4, Numbers DEF Due, Picked
    <2> QED BY <2>1, <2>2
  <1>6. LlmInv'
    <2>1. inFlight = Submitted - frame["llm"]
      BY <1>1, <1>3, <1>5, Numbers DEF QueuesInv, One
    <2>2. CASE frame["decoder"] = 0
      <3>1. Submitted = 0 /\ frame["llm"] = 0
        BY <1>4, <2>2, Numbers DEF Submitted, Due
      <3> QED
        BY <1>1, <1>2, <1>3, <1>4, <2>1, <2>2, <3>1 DEF LlmInv, Answered, queueVars
    <2>3. CASE frame["decoder"] # 0
      <3>1. inFlight > 0 /\ frame["decoder"] > 0
        BY <1>4, <2>1, <2>3, Numbers DEF Due
      <3> QED
        BY <1>1, <1>2, <1>3, <1>4, <2>3, <3>1 DEF LlmInv, Answered, queueVars
    <2> QED BY <2>2, <2>3
  <1>7. QueuesInv'
    BY <1>1, <1>2, <1>3, <1>5, QueuesKept
  <1>8. DecoderInv'
    BY <1>1, <1>2, <1>3, <1>4, <1>5 DEF DecoderInv, Working
  <1> QED BY <1>1, <1>6, <1>7, <1>8, PairKept

LEMMA CheckPairs ==
    ASSUME StateInv, PairInv, ~broken, Check
    PROVE  PairInv'
  <1>1. /\ at["llm"] = "check"
        /\ Goto("llm", IF inFlight > 0 THEN "fetch" ELSE "decide")
        /\ UNCHANGED <<running, breakEvent, queueVars, reqVars, kv, frame, packet>>
    BY DEF Check
  <1>2. /\ at'["llm"] = IF inFlight > 0 THEN "fetch" ELSE "decide"
        /\ \A u \in {"prefiller", "decoder", "encoder"} : at'[u] = at[u]
    BY <1>1, Numbers, GotoMoves
  <1>3. LlmInv /\ (running => QueuesInv /\ DecoderInv)
    BY DEF PairInv
  <1>4. /\ inFlight > 0 => frame["llm"] > 0
        /\ ~(inFlight > 0) => frame["llm"] = 0
    BY <1>1, <1>3, Numbers DEF LlmInv
  <1>5. LlmInv'
    BY <1>1, <1>2, <1>3, <1>4 DEF LlmInv, Answered
  <1>6. Submitted' = Submitted /\ Picked' = Picked
    BY <1>1, <1>2, <1>4 DEF Submitted, Picked
  <1>7. ASSUME running PROVE QueuesInv' /\ DecoderInv'
    <2>1. QueuesInv'
      BY <1>1, <1>2, <1>3, <1>6, <1>7, QueuesKept
    <2>2. DecoderInv'
      BY <1>1, <1>2, <1>3, <1>6, <1>7 DEF DecoderInv, Working, reqVars
    <2> QED BY <2>1, <2>2
  <1> QED BY <1>1, <1>5, <1>7, PairKept

LEMMA FetchPairs ==
    ASSUME StateInv, PairInv, ~broken, Fetch
    PROVE  PairInv'
  <1>1. /\ at["llm"] = "fetch" /\ running /\ (prefillQueue # <<>> \/ breakEvent)
        /\ Goto("llm", "pick")
        /\ UNCHANGED <<running, breakEvent, queueVars, reqVars, kv, frame, packet>>
    BY DEF Fetch, Enters, Wanted
  <1>2. /\ at'["llm"] = "pick"
        /\ \A u \in {"prefiller", "decoder", "encoder"} : at'[u] = at[u]
    BY <1>1, Numbers, GotoMoves
  <1>3. LlmInv /\ QueuesInv /\ DecoderInv /\ prefillQueue # <<>> /\ frame["llm"] > 0
    BY <1>1 DEF PairInv, LlmInv
  <1>4. Submitted' = Submitted /\ Picked' = Picked /\ Picked = frame["llm"] - 1
    BY <1>1, <1>2, <1>3 DEF Submitted, Picked
  <1>5. Head(prefillQueue) = frame["llm"]
    <2>1. Head(prefillQueue) = Picked + 1
      BY <1>3, Numbers, TailNumbered DEF QueuesInv
    <2> QED BY <1>4, <2>1, Numbers
  <1>6. LlmInv'
    BY <1>1, <1>2, <1>3, <1>5 DEF LlmInv, Answered, queueVars
  <1>7. QueuesInv'
    BY <1>1, <1>2, <1>3, <1>4, QueuesKept
  <1>8. DecoderInv'
    BY <1>1, <1>2, <1>3, <1>4 DEF DecoderInv, Working, Due, reqVars
  <1> QED BY <1>1, <1>6, <1>7, <1>8, PairKept

LEMMA PickPairs ==
    ASSUME StateInv, PairInv, ~broken, Pick
    PROVE  PairInv'
  <1>1. /\ at["llm"] = "pick"
        /\ packet' = Head(prefillQueue) /\ prefillQueue' = Tail(prefillQueue)
        /\ Goto("llm", "prefill")
        /\ UNCHANGED <<running, breakEvent, encoderQueue, inFlight, reqVars, kv, frame>>
    BY DEF Pick, PairInv, LlmInv
  <1>2. /\ at'["llm"] = "prefill"
        /\ \A u \in {"prefiller", "decoder", "encoder"} : at'[u] = at[u]
    BY <1>1, Numbers, GotoMoves
  <1>3. /\ LlmInv /\ (running => QueuesInv /\ DecoderInv)
        /\ prefillQueue # <<>> /\ Head(prefillQueue) = frame["llm"] /\ frame["llm"] > 0
    BY <1>1 DEF PairInv, LlmInv
  <1>4. LlmInv'
    BY <1>1, <1>2, <1>3 DEF LlmInv, Answered
  <1>5. /\ Submitted' = Submitted /\ Queued' = Queued /\ Held' = Held
        /\ Picked = frame["llm"] - 1 /\ Picked' = frame["llm"]
    BY <1>1, <1>2, <1>3 DEF Submitted, Queued, Held, Picked, One
  <1>6. ASSUME running PROVE QueuesInv' /\ DecoderInv'
    <2>1. /\ Numbered(prefillQueue', Picked + 1)
          /\ Len(prefillQueue') = Len(prefillQueue) - 1
      BY <1>1, <1>3, <1>6, Numbers, TailNumbered DEF QueuesInv
    <2>2. /\ Picked' = Picked + 1 /\ Picked' + Len(prefillQueue') = Picked + Len(prefillQueue)
      BY <1>5, <2>1, Numbers
    <2>3. /\ One(at["llm"] = "prefill") = 0 /\ One(at["llm"] = "prefill")' = 1
      BY <1>1, <1>2 DEF One
    <2>4. inFlight' = Submitted' - Picked' + 1
      BY <1>1, <1>3, <1>5, <1>6, <2>2, <2>3, Numbers DEF QueuesInv
    <2>5. QueuesInv'
      BY <1>1, <1>2, <1>3, <1>5, <1>6, <2>1, <2>2, <2>3, <2>4 DEF QueuesInv, Numbered
    <2>6. DecoderInv'
      BY <1>1, <1>2, <1>3, <1>5, <1>6 DEF DecoderInv, Working, Due, reqVars
    <2> QED BY <2>5, <2>6
  <1> QED BY <1>1, <1>4, <1>6, PairKept

LEMMA AppendLast ==
    ASSUME NEW S, NEW s \in Seq(S), NEW e \in S
    PROVE  /\ Append(s, e) \in Seq(S) /\ Append(s, e) # <<>>
           /\ Len(s) \in Nat /\ Len(Append(s, e)) = Len(s) + 1
           /\ DOMAIN Append(s, e) = 1..(Len(s) + 1) /\ DOMAIN s = 1..Len(s)
           /\ Append(s, e)[Len(s) + 1] = e
           /\ \A i \in 1..Len(s) : Append(s, e)[i] = s[i]
           /\ s # <<>> <=> Len(s) > 0
  OBVIOUS

\* What may follow a sequence of pairs: the prefill of a frame after an answer,
\* the decode of a frame after its prefill, and a decode without a frame.
Follows(s, e) ==
    \/ e[1] = "prefill" /\ (s # <<>> => s[Len(s)][1] = "decode")
    \/ /\ e[1] = "decode"
       /\ e[2] # 0 => s # <<>> /\ s[Len(s)] = <<"prefill", e[2]>>

LEMMA AppendPair ==
    ASSUME NEW S, NEW s \in Seq(S), NEW e \in S,
           \A i \in DOMAIN s : PairAt(s, i), Follows(s, e)
    PROVE  \A i \in DOMAIN Append(s, e) : PairAt(Append(s, e), i)
  <1> DEFINE n == Len(s)
             r == Append(s, e)
  <1>1. /\ n \in Nat /\ DOMAIN r = 1..(n + 1) /\ DOMAIN s = 1..n
        /\ r[n + 1] = e /\ \A i \in 1..n : r[i] = s[i]
        /\ s # <<>> <=> n > 0
    BY AppendLast
  <1>2. Follows(s, e) <=>
           \/ e[1] = "prefill" /\ (n > 0 => s[n][1] = "decode")
           \/ e[1] = "decode" /\ (e[2] # 0 => n > 0 /\ s[n] = <<"prefill", e[2]>>)
    BY <1>1 DEF Follows
  <1> HIDE DEF n, r
  <1>3. ASSUME NEW i \in 1..n PROVE PairAt(r, i)
    <2>1. r[i] = s[i] /\ (i > 1 => r[i - 1] = s[i - 1])
      BY <1>1
    <2>2. PairAt(s, i)
      BY <1>1
    <2> QED BY <2>1, <2>2 DEF PairAt
  <1>4. PairAt(r, n + 1)
    <2>1. r[n + 1] = e /\ (n > 0 => r[n] = s[n])
      BY <1>1
    <2>2. (n + 1 > 1 <=> n > 0) /\ (n + 1) - 1 = n
      BY <1>1
    <2>3. CASE e[1] = "prefill" /\ (n > 0 => s[n][1] = "decode")
      BY <2>1, <2>2, <2>3 DEF PairAt
    <2>4. CASE e[1] = "decode" /\ (e[2] # 0 => n > 0 /\ s[n] = <<"prefill", e[2]>>)
      BY <2>1, <2>2, <2>4 DEF PairAt
    <2> QED BY <1>2, <2>3, <2>4
  <1>5. ASSUME NEW i \in 1..(n + 1) PROVE PairAt(r, i)
    <2>1. i \in 1..n \/ i = n + 1
      BY <1>1
    <2> QED BY <2>1, <1>3, <1>4
  <1>6. \A i \in DOMAIN r : PairAt(r, i)
    BY <1>1, <1>5
  <1> QED BY <1>6 DEF r

\* What the LLM thread appends keeps the pairs.
LEMMA AppendPaired ==
    ASSUME StateInv, Paired, NEW e, kv' = Append(kv, e),
           \/ e = <<"prefill", frame["llm"]>> /\ Answered
           \/ /\ e = <<"decode", frame["llm"]>>
              /\ IF frame["llm"] # 0
                   THEN kv # <<>> /\ kv[Len(kv)] = <<"prefill", frame["llm"]>>
                   ELSE Answered
    PROVE  Paired' /\ kv' # <<>> /\ kv'[Len(kv')] = e
  <1>1. e \in {"prefill", "decode"} \X Frames
    BY Numbers
  <1>2. kv \in Seq({"prefill", "decode"} \X Frames)
    BY DEF StateInv, DataTypes
  <1>3. kv' # <<>> /\ kv'[Len(kv')] = e
    BY <1>1, <1>2, AppendLast
  <1>4. Follows(kv, e)
    BY DEF Follows, Answered
  <1>5. \A i \in DOMAIN kv : PairAt(kv, i)
    BY DEF Paired
  <1>6. \A i \in DOMAIN kv' : PairAt(kv', i)
    BY <1>1, <1>2, <1>4, <1>5, AppendPair
  <1> QED BY <1>3, <1>6 DEF Paired

LEMMA PrefillPairs ==
    ASSUME StateInv, PairInv, ~broken, Prefill
    PROVE  PairInv'
  <1>1. /\ at["llm"] = "prefill"
        /\ kv' = Append(kv, <<"prefill", packet>>)
        /\ inFlight' = inFlight - 1
        /\ Goto("llm", "decide")
        /\ UNCHANGED <<running, breakEvent, encoderQueue, prefillQueue, reqVars, frame>>
    BY DEF Prefill
  <1>2. /\ at'["llm"] = "decide"
        /\ \A u \in {"prefiller", "decoder", "encoder"} : at'[u] = at[u]
    BY <1>1, Numbers, GotoMoves
  <1>3. /\ LlmInv /\ (running => QueuesInv /\ DecoderInv) /\ Paired /\ ~breakEvent
        /\ packet = frame["llm"] /\ frame["llm"] > 0 /\ Answered
    BY <1>1 DEF PairInv, LlmInv
  <1>4. Paired' /\ kv' # <<>> /\ kv'[Len(kv')] = <<"prefill", frame["llm"]>>
    BY <1>1, <1>3, AppendPaired
  <1>5. LlmInv'
    BY <1>1, <1>2, <1>3, <1>4 DEF LlmInv
  <1>6. /\ Submitted' = Submitted /\ Queued' = Queued /\ Held' = Held /\ Picked' = Picked
    BY <1>1, <1>2 DEF Submitted, Queued, Held, Picked, One
  <1>7. ASSUME running PROVE QueuesInv' /\ DecoderInv'
    <2>1. One(at["llm"] = "prefill") = 1 /\ One(at["llm"] = "prefill")' = 0
      BY <1>1, <1>2 DEF One
    <2>2. inFlight' = Submitted' - Picked' + 0
      BY <1>1, <1>3, <1>6, <1>7, <2>1, Numbers DEF QueuesInv
    <2>3. QueuesInv'
      BY <1>1, <1>2, <1>3, <1>6, <1>7, <2>1, <2>2 DEF QueuesInv, Numbered
    <2>4. DecoderInv'
      BY <1>1, <1>2, <1>3, <1>6, <1>7 DEF DecoderInv, Working, Due, reqVars
    <2> QED BY <2>3, <2>4
  <1> QED BY <1>1, <1>3, <1>4, <1>5, <1>7 DEF PairInv

\* The decode and what surrounds it take no frame.
LEMMA QuietLlm ==
    ASSUME StateInv, QueuesInv, DecoderInv,
           at["llm"] \in {"decide", "decode"}, at'["llm"] \in {"decode", "finish"},
           \A u \in {"prefiller", "decoder", "encoder"} : at'[u] = at[u],
           UNCHANGED <<queueVars, reqVars, frame>>
    PROVE  QueuesInv' /\ DecoderInv'
  <1>1. Submitted' = Submitted /\ Picked' = Picked
    BY DEF Submitted, Picked
  <1>2. QueuesInv'
    BY <1>1, QueuesKept
  <1>3. DecoderInv'
    BY <1>1 DEF DecoderInv, Working, Due, reqVars
  <1> QED BY <1>2, <1>3

LEMMA DecidePairs ==
    ASSUME StateInv, PairInv, ~broken, Decide
    PROVE  PairInv'
  <1>1. /\ at["llm"] = "decide"
        /\ Goto("llm", "decode")
        /\ UNCHANGED <<running, breakEvent, queueVars, reqVars, kv, frame, packet>>
    BY DEF Decide, PairInv
  <1>2. /\ at'["llm"] = "decode"
        /\ \A u \in {"prefiller", "decoder", "encoder"} : at'[u] = at[u]
    BY <1>1, Numbers, GotoMoves
  <1>3. LlmInv /\ (running => QueuesInv /\ DecoderInv)
    BY DEF PairInv
  <1>4. LlmInv'
    BY <1>1, <1>2, <1>3 DEF LlmInv, Answered
  <1>5. running => QueuesInv' /\ DecoderInv'
    BY <1>1, <1>2, <1>3, QuietLlm
  <1> QED BY <1>1, <1>4, <1>5, PairKept

LEMMA DecodePairs ==
    ASSUME StateInv, PairInv, ~broken, Decode
    PROVE  PairInv'
  <1>1. /\ at["llm"] = "decode"
        /\ kv' = Append(kv, <<"decode", frame["llm"]>>) /\ breakEvent' = FALSE
        /\ Goto("llm", "finish")
        /\ UNCHANGED <<running, queueVars, reqVars, frame, packet>>
    BY DEF Decode
  <1>2. /\ at'["llm"] = "finish"
        /\ \A u \in {"prefiller", "decoder", "encoder"} : at'[u] = at[u]
    BY <1>1, Numbers, GotoMoves
  <1>3. /\ LlmInv /\ (running => QueuesInv /\ DecoderInv) /\ Paired
        /\ IF frame["llm"] # 0 THEN kv # <<>> /\ kv[Len(kv)] = <<"prefill", frame["llm"]>>
                               ELSE Answered
    BY <1>1 DEF PairInv, LlmInv
  <1>4. Paired' /\ kv' # <<>> /\ kv'[Len(kv')] = <<"decode", frame["llm"]>>
    BY <1>1, <1>3, AppendPaired
  <1>5. LlmInv'
    BY <1>2, <1>4 DEF LlmInv, Answered
  <1>6. running => QueuesInv' /\ DecoderInv'
    BY <1>1, <1>2, <1>3, QuietLlm
  <1> QED BY <1>1, <1>4, <1>5, <1>6 DEF PairInv

LEMMA FinishPairs ==
    ASSUME StateInv, PairInv, ~broken, Finish
    PROVE  PairInv'
  <1>1. /\ at["llm"] = "finish"
        /\ reqDone' = (reqDone \/ at["decoder"] = "await")
        /\ Goto("llm", "idle")
        /\ UNCHANGED <<running, breakEvent, queueVars, pendingDecode, kv, frame, packet>>
    BY DEF Finish
  <1>2. /\ at'["llm"] = "idle"
        /\ \A u \in {"prefiller", "decoder", "encoder"} : at'[u] = at[u]
    BY <1>1, Numbers, GotoMoves
  <1>3. LlmInv /\ (running => QueuesInv /\ DecoderInv)
    BY DEF PairInv
  <1>4. LlmInv'
    BY <1>1, <1>2, <1>3 DEF LlmInv, Answered
  <1>5. Submitted' = Submitted /\ Picked' = Picked
    BY <1>1, <1>2 DEF Submitted, Picked
  <1>6. ASSUME running PROVE QueuesInv' /\ DecoderInv'
    <2>1. QueuesInv'
      BY <1>1, <1>2, <1>3, <1>5, <1>6, QueuesKept
    <2>2. at["decoder"] = "await" /\ pendingDecode = None /\ frame["decoder"] = frame["llm"]
      BY <1>1, <1>3, <1>6 DEF DecoderInv
    <2>3. DecoderInv'
      BY <1>1, <1>2, <1>3, <1>5, <1>6, <2>2 DEF DecoderInv
    <2> QED BY <2>1, <2>3
  <1> QED BY <1>1, <1>4, <1>6, PairKept

LEMMA LlmExitPairs ==
    ASSUME StateInv, PairInv, ~broken, LlmExit
    PROVE  PairInv'
  <1>1. /\ at["llm"] \in {"idle", "fetch"} /\ ~running
        /\ Goto("llm", "exited")
        /\ UNCHANGED <<running, breakEvent, queueVars, reqVars, kv, frame, packet>>
    BY DEF LlmExit, Enters
  <1>2. at'["llm"] = "exited"
    BY <1>1, Numbers, GotoMoves
  <1>3. LlmInv'
    BY <1>1, <1>2 DEF PairInv, LlmInv, Answered
  <1> QED BY <1>1, <1>3, PairKept

-----------------------------------------------------------------------------
(* Waits and stops; and the pairing. *)

LEMMA WaitPairs ==
    ASSUME StateInv, PairInv, ~broken, NEW t \in Threads, Wait(t)
    PROVE  PairInv'
  <1>1. at' = at /\ UNCHANGED <<running, breakEvent, queueVars, reqVars, kv, frame, packet>>
    BY WaitTypes DEF Wait, StateInv
  <1> QED
    BY <1>1
    DEF PairInv, Paired, LlmInv, Answered, QueuesInv, DecoderInv, Picked, Held, Queued,
        Submitted, Numbered, Due, Working, queueVars, reqVars

LEMMA StopPairs ==
    ASSUME StateInv, PairInv, ~broken, ~broken',
           (\E byClose \in BOOLEAN : Stop(byClose)) \/ Stopped
    PROVE  PairInv'
  <1>1. /\ at'["llm"] = at["llm"] /\ UNCHANGED <<kv, frame, packet, inFlight>>
        /\ ~breakEvent' /\ ~running'
    BY Numbers, GotoMoves DEF Stop, Stopped, StateInv, Order, PairInv, queueVars
  <1>2. UNCHANGED prefillQueue \/ at["llm"] = "exited"
    BY DEF Stop, Stopped, queueVars
  <1>3. LlmInv'
    BY <1>1, <1>2 DEF PairInv, LlmInv, Answered
  <1> QED BY <1>1, <1>3 DEF PairInv, Paired

LEMMA PairStep == ASSUME StateInv, PairInv, [Next]_vars PROVE PairInv'
  <1> SUFFICES ASSUME ~broken' PROVE PairInv'
    BY DEF PairInv
  <1>1. CASE UNCHANGED vars
    BY <1>1
    DEF PairInv, Paired, LlmInv, Answered, QueuesInv, DecoderInv, Picked, Held, Queued,
        Submitted, Numbered, Due, Working, vars, queueVars, reqVars
  <1>2. CASE Next
    <2>1. ~broken
      BY <1>2
      DEF Next, NextPrefill, PrefillCall, NextDecode, DecodeCall, PrefillStep, Submit, Count,
          DecodeStep, Post, PostRefused, DecodeReturn, EncoderStep, Take, Deliver,
          EncoderExit, LlmStep, Drop, Accept, Check, Fetch, Pick, Prefill, Decide, Decode,
          Finish, LlmExit, Wait, Break, ClearBreak, Stop, Stopped
    <2>2. ~Drop /\ ~Break /\ ~ClearBreak
      BY <2>1 DEF PairInv, Drop, Break, ClearBreak
    <2> QED
      BY <1>2, <2>1, <2>2, PrefillCallPairs, DecodeCallPairs, SubmitPairs, CountPairs,
         PostPairs, ReturnPairs, TakePairs, DeliverPairs, EncoderExitPairs, AcceptPairs,
         CheckPairs, FetchPairs, PickPairs, PrefillPairs, DecidePairs, DecodePairs,
         FinishPairs, LlmExitPairs, WaitPairs, StopPairs
      DEF Next, PrefillStep, DecodeStep, EncoderStep, LlmStep, Threads
  <1> QED BY <1>1, <1>2

LEMMA PairInit == Init => PairInv
  <1> SUFFICES ASSUME Init PROVE PairInv
    OBVIOUS
  <1>1. Paired /\ LlmInv /\ ~breakEvent
    BY DEF Init, Paired, LlmInv, Answered
  <1>2. Picked = 0 /\ Held = 0 /\ Queued = 0 /\ Submitted = 0
    BY DEF Init, Picked, Held, Queued, Submitted, One, Threads
  <1>3. QueuesInv
    BY <1>2 DEF Init, QueuesInv, Numbered, One
  <1>4. DecoderInv
    BY <1>2 DEF Init, DecoderInv, Threads
  <1> QED BY <1>1, <1>3, <1>4 DEF PairInv

\* Without a break, each decode follows the prefill of the frame it was asked for and
\* of no other, for any number of frames and any capacities: the requests, which name
\* no frame, cannot get out of step with the queues.  (duplex_llm_thread_func)
THEOREM PairingCorrect == Spec => []PairsStrictly
  <1>1. Init => PairInv
    BY PairInit
  <1>2. StateInv /\ PairInv /\ [Next]_vars => PairInv'
    BY PairStep
  <1>3. PairInv => PairsStrictly
    BY DEF PairInv, Paired, PairAt, PairsStrictly
  <1> QED BY <1>1, <1>2, <1>3, StateCorrect, PTL DEF Spec

-----------------------------------------------------------------------------
(* The order of frames, breaks and stops included.  Watermarks separate the    *)
(* places that frames pass through: whatever lies in one place is above its    *)
(* watermark and at most the next one, so that a frame that is dropped leaves  *)
(* a gap and disturbs nobody.                                                  *)

Within(queue, low, high) ==
    /\ \A i \in DOMAIN queue : low < queue[i] /\ queue[i] <= high
    /\ \A i, j \in DOMAIN queue : i < j => queue[i] < queue[j]

\* The frames submitted to the encoder's queue are those up to Queued; a has been
\* reached by the context, b by the LLM thread, c by its queue, d by the encoder.
Ordered(a, b, c, d) ==
    /\ a <= b /\ b <= c /\ c <= d /\ d <= Queued
    /\ \A i \in Prefills : kv[i][2] <= a
    /\ at["llm"] = "prefill" => a < packet /\ packet <= b
    /\ Within(prefillQueue, b, c)
    /\ at["encoder"] = "push" => c < frame["encoder"] /\ frame["encoder"] <= d
    /\ Within(encoderQueue, d, Queued)

WatermarkInv ==
    /\ FramesInOrder
    /\ \E a, b, c, d \in Int : Ordered(a, b, c, d)

\* What TLA+ says of a queue of frames.
LEMMA QueueOfInts ==
    ASSUME NEW s \in Seq(Frames)
    PROVE  /\ Frames \subseteq Int /\ Len(s) \in Nat /\ DOMAIN s = 1..Len(s)
           /\ \A i \in 1..Len(s) : s[i] \in Int
  <1>1. Frames \subseteq Int
    BY CapsAssumption DEF Frames
  <1>2. \A i \in 1..Len(s) : s[i] \in Frames
    OBVIOUS
  <1>3. Len(s) \in Nat /\ DOMAIN s = 1..Len(s)
    OBVIOUS
  <1>4. \A i \in 1..Len(s) : s[i] \in Int
    BY <1>1, <1>2
  <1> QED BY <1>1, <1>3, <1>4

LEMMA AppendWithin ==
    ASSUME NEW s \in Seq(Frames), NEW low \in Int, NEW high \in Int, NEW next \in Int,
           NEW k \in Frames, Within(s, low, high), low <= high, high < k, k <= next
    PROVE  Within(Append(s, k), low, next)
  <1>1. /\ Len(s) \in Nat /\ k \in Int /\ DOMAIN s = 1..Len(s)
        /\ \A i \in 1..Len(s) : s[i] \in Int
    BY QueueOfInts
  <1>2. /\ DOMAIN Append(s, k) = 1..(Len(s) + 1) /\ Append(s, k)[Len(s) + 1] = k
        /\ \A i \in 1..Len(s) : Append(s, k)[i] = s[i]
    OBVIOUS
  <1>3. \A i \in 1..(Len(s) + 1) : i \in 1..Len(s) \/ i = Len(s) + 1
    BY <1>1
  <1>4. \A i \in 1..Len(s) : low < s[i] /\ s[i] <= high
    BY <1>1 DEF Within
  <1>5. \A i \in DOMAIN Append(s, k) : low < Append(s, k)[i] /\ Append(s, k)[i] <= next
    BY <1>1, <1>2, <1>3, <1>4
  <1>6. \A i, j \in DOMAIN Append(s, k) : i < j => Append(s, k)[i] < Append(s, k)[j]
    <2> SUFFICES ASSUME NEW i \in 1..(Len(s) + 1), NEW j \in 1..(Len(s) + 1), i < j
                 PROVE  Append(s, k)[i] < Append(s, k)[j]
      BY <1>2
    <2>1. i \in 1..Len(s)
      BY <1>1
    <2>2. CASE j = Len(s) + 1
      BY <1>1, <1>2, <1>4, <2>1, <2>2
    <2>3. CASE j \in 1..Len(s)
      BY <1>1, <1>2, <2>1, <2>3 DEF Within
    <2> QED BY <1>3, <2>2, <2>3
  <1> QED BY <1>5, <1>6 DEF Within

LEMMA TailWithin ==
    ASSUME NEW s \in Seq(Frames), NEW low \in Int, NEW high \in Int,
           Within(s, low, high), s # <<>>
    PROVE  /\ Head(s) \in Int /\ low < Head(s) /\ Head(s) <= high
           /\ Within(Tail(s), Head(s), high)
  <1> DEFINE n == Len(s)
  <1>1. n \in Nat /\ DOMAIN s = 1..n /\ \A i \in 1..n : s[i] \in Int
    BY QueueOfInts
  <1>2. /\ n > 0 /\ Head(s) = s[1] /\ DOMAIN Tail(s) = 1..(n - 1)
        /\ \A i \in 1..(n - 1) : Tail(s)[i] = s[i + 1]
    BY <1>1
  <1>3. /\ \A i \in 1..n : low < s[i] /\ s[i] <= high
        /\ \A i, j \in 1..n : i < j => s[i] < s[j]
    BY <1>1 DEF Within
  <1> HIDE DEF n
  <1>4. 1 \in 1..n /\ \A i \in 1..(n - 1) : i + 1 \in 1..n /\ 1 < i + 1
    BY <1>1, <1>2
  <1>5. Head(s) \in Int /\ low < Head(s) /\ Head(s) <= high
    BY <1>1, <1>2, <1>3, <1>4
  <1>6. \A i \in 1..(n - 1) : Head(s) < Tail(s)[i] /\ Tail(s)[i] <= high
    BY <1>2, <1>3, <1>4
  <1>7. \A i, j \in 1..(n - 1) : i < j => Tail(s)[i] < Tail(s)[j]
    <2> TAKE i, j \in 1..(n - 1)
    <2>1. i < j => i + 1 < j + 1
      BY <1>1
    <2> QED BY <1>2, <1>3, <1>4, <2>1
  <1> QED BY <1>2, <1>5, <1>6, <1>7 DEF Within

LEMMA EmptyWithin == ASSUME NEW low, NEW high PROVE Within(<<>>, low, high)
  BY DEF Within

\* The watermarks that show the invariant after a step.
LEMMA Watermarks ==
    ASSUME NEW a \in Int, NEW b \in Int, NEW c \in Int, NEW d \in Int,
           FramesInOrder', \A i \in Prefills' : kv'[i][2] <= a,
           a <= b, b <= c, c <= d, d <= Queued',
           at'["llm"] = "prefill" => a < packet' /\ packet' <= b,
           Within(prefillQueue', b, c),
           at'["encoder"] = "push" => c < frame'["encoder"] /\ frame'["encoder"] <= d,
           Within(encoderQueue', d, Queued')
    PROVE  WatermarkInv'
  <1>1. Ordered(a, b, c, d)'
    BY Zenon DEF Ordered
  <1>2. (\E p, q, r, s \in Int : Ordered(p, q, r, s))'
    BY <1>1, Zenon
  <1> QED BY <1>2, Zenon DEF WatermarkInv

LEMMA SameContext ==
    ASSUME FramesInOrder, kv' = kv, NEW a \in Int, \A i \in Prefills : kv[i][2] <= a
    PROVE  FramesInOrder' /\ \A i \in Prefills' : kv'[i][2] <= a
  <1>1. Prefills' = Prefills
    BY DEF Prefills
  <1> QED BY <1>1 DEF FramesInOrder

\* A call of duplex_prefill that goes on as before has submitted the same frames.
LEMMA SameQueued ==
    ASSUME at'["prefiller"] = "submit" <=> at["prefiller"] = "submit",
           frame'["prefiller"] = frame["prefiller"]
    PROVE  Queued' = Queued
  BY DEF Queued, One

\* A step that moves no frame.
LEMMA WatermarkKept ==
    ASSUME WatermarkInv, UNCHANGED <<kv, encoderQueue, prefillQueue, packet>>,
           Queued' = Queued, frame'["encoder"] = frame["encoder"],
           at'["llm"] = "prefill" => at["llm"] = "prefill",
           at'["encoder"] = "push" => at["encoder"] = "push"
    PROVE  WatermarkInv'
  <1>1. PICK a \in Int, b \in Int, c \in Int, d \in Int : Ordered(a, b, c, d)
    BY DEF WatermarkInv
  <1>2. FramesInOrder' /\ \A i \in Prefills' : kv'[i][2] <= a
    BY <1>1, SameContext DEF WatermarkInv, Ordered
  <1> QED BY <1>1, <1>2, Watermarks DEF Ordered

\* What an entry of the context leaves of the order.
LEMMA ContextOrder ==
    ASSUME StateInv, FramesInOrder, NEW a \in Int, NEW e \in {"prefill", "decode"} \X Frames,
           \A i \in Prefills : kv[i][2] <= a,
           e[1] = "prefill" => a < e[2],
           kv' = Append(kv, e)
    PROVE  /\ FramesInOrder'
           /\ \A i \in Prefills' : kv'[i][2] <= IF e[1] = "prefill" THEN e[2] ELSE a
  <1>0. kv \in Seq({"prefill", "decode"} \X Frames) /\ Frames \subseteq Int
    BY CapsAssumption DEF StateInv, DataTypes, Frames
  <1> DEFINE n == Len(kv)
  <1>1. /\ n \in Nat /\ DOMAIN kv = 1..n /\ DOMAIN kv' = 1..(n + 1)
        /\ kv'[n + 1] = e /\ \A i \in 1..n : kv'[i] = kv[i]
    BY <1>0, AppendLast
  <1>2. \A i \in 1..n : kv[i][2] \in Int
    <2>1. \A i \in 1..n : kv[i] \in {"prefill", "decode"} \X Frames
      BY <1>0
    <2> QED BY <1>0, <2>1
  <1>3. e[2] \in Int
    BY <1>0
  <1> HIDE DEF n
  <1>4. Prefills' = Prefills \cup (IF e[1] = "prefill" THEN {n + 1} ELSE {})
    BY <1>1 DEF Prefills
  <1>5. \A i \in Prefills : /\ i \in Int /\ i < n + 1 /\ kv'[i] = kv[i]
                            /\ kv[i][2] \in Int /\ kv[i][2] <= a
    BY <1>1, <1>2 DEF Prefills
  <1> DEFINE v(i) == kv[i][2]   w(i) == kv'[i][2]
  <1>6. /\ \A i \in Prefills : w(i) = v(i) /\ v(i) \in Int /\ v(i) <= a
        /\ \A i, j \in Prefills : i < j => v(i) < v(j)
        /\ w(n + 1) = e[2]
    BY <1>1, <1>5 DEF FramesInOrder
  <1>7. (FramesInOrder' <=> \A i, j \in Prefills' : i < j => w(i) < w(j))
        /\ (\A i \in Prefills' : kv'[i][2] <= IF e[1] = "prefill" THEN e[2] ELSE a)
           = (\A i \in Prefills' : w(i) <= IF e[1] = "prefill" THEN e[2] ELSE a)
    BY DEF FramesInOrder
  <1> HIDE DEF v, w
  <1>8. CASE e[1] = "prefill"
    <2>1. Prefills' = Prefills \cup {n + 1} /\ a < e[2]
      BY <1>4, <1>8
    <2>2. \A i, j \in Prefills : i < j => w(i) < w(j)
      BY <1>6
    <2>3. \A i \in Prefills : w(i) < w(n + 1) /\ w(i) <= e[2]
      BY <1>3, <1>6, <2>1
    <2>4. \A i \in Prefills : ~(n + 1 < i)
      BY <1>1, <1>5
    <2>5. ~(n + 1 < n + 1) /\ w(n + 1) <= e[2]
      BY <1>1, <1>3, <1>6
    <2>6. \A i, j \in Prefills' : i < j => w(i) < w(j)
      BY <2>1, <2>2, <2>3, <2>4, <2>5
    <2>7. \A i \in Prefills' : w(i) <= e[2]
      BY <2>1, <2>3, <2>5
    <2> QED BY <1>7, <1>8, <2>6, <2>7
  <1>9. CASE e[1] # "prefill"
    <2>1. Prefills' = Prefills
      BY <1>4, <1>9
    <2> QED BY <1>6, <1>7, <1>9, <2>1
  <1> QED BY <1>8, <1>9

LEMMA WatermarkInit == Init => WatermarkInv
  <1> SUFFICES ASSUME Init PROVE WatermarkInv
    OBVIOUS
  <1>1. Prefills = {} /\ FramesInOrder
    BY DEF Init, Prefills, FramesInOrder
  <1>2. Queued = 0
    BY DEF Init, Queued, One, Threads
  <1>3. Ordered(0, 0, 0, 0)
    BY <1>1, <1>2, EmptyWithin DEF Init, Ordered
  <1> QED BY <1>1, <1>3 DEF WatermarkInv

LEMMA SubmitWatermarks == ASSUME StateInv, WatermarkInv, Submit PROVE WatermarkInv'
  <1>1. PICK a \in Int, b \in Int, c \in Int, d \in Int : Ordered(a, b, c, d)
    BY DEF WatermarkInv
  <1>2. /\ at["prefiller"] = "submit" /\ at'["prefiller"] = "count"
        /\ at'["llm"] = at["llm"] /\ at'["encoder"] = at["encoder"]
        /\ encoderQueue' = Append(encoderQueue, frame["prefiller"])
        /\ UNCHANGED <<kv, prefillQueue, packet, frame>>
    BY Numbers, GotoMoves DEF Submit, Enters
  <1>3. Queued = frame["prefiller"] - 1 /\ Queued' = frame["prefiller"]
    BY <1>2, Numbers DEF Queued, One
  <1>4. /\ encoderQueue \in Seq(Frames) /\ frame["prefiller"] \in Frames
        /\ frame["prefiller"] \in Int /\ Queued \in Int
    BY Numbers
  <1>5. Within(encoderQueue, d, Queued) /\ d <= Queued
    BY <1>1 DEF Ordered
  <1>6. Within(encoderQueue', d, Queued') /\ d <= Queued'
    BY <1>2, <1>3, <1>4, <1>5, AppendWithin
  <1>7. FramesInOrder' /\ \A i \in Prefills' : kv'[i][2] <= a
    BY <1>1, <1>2, SameContext DEF WatermarkInv, Ordered
  <1> QED BY <1>1, <1>2, <1>6, <1>7, Watermarks DEF Ordered

LEMMA TakeWatermarks == ASSUME StateInv, WatermarkInv, Take PROVE WatermarkInv'
  <1>1. PICK a \in Int, b \in Int, c \in Int, d \in Int : Ordered(a, b, c, d)
    BY DEF WatermarkInv
  <1> DEFINE k == Head(encoderQueue)
  <1>2. /\ at'["llm"] = at["llm"] /\ at'["prefiller"] = at["prefiller"]
        /\ encoderQueue # <<>> /\ encoderQueue' = Tail(encoderQueue)
        /\ frame'["encoder"] = k /\ frame'["prefiller"] = frame["prefiller"]
        /\ UNCHANGED <<kv, prefillQueue, packet>>
    BY Numbers, GotoMoves DEF Take, Enters
  <1>3. encoderQueue \in Seq(Frames) /\ Queued \in Int /\ Within(encoderQueue, d, Queued)
    BY <1>1, Numbers DEF Ordered
  <1>4. k \in Int /\ d < k /\ k <= Queued /\ Within(encoderQueue', k, Queued)
    BY <1>2, <1>3, TailWithin
  <1>5. Queued' = Queued
    BY <1>2, SameQueued
  <1> HIDE DEF k
  <1>6. FramesInOrder' /\ \A i \in Prefills' : kv'[i][2] <= a
    BY <1>1, <1>2, SameContext DEF WatermarkInv, Ordered
  <1>7. c <= k /\ c < frame'["encoder"] /\ frame'["encoder"] <= k /\ k <= Queued'
    BY <1>1, <1>2, <1>3, <1>4, <1>5 DEF Ordered
  <1>8. /\ a <= b /\ b <= c /\ Within(prefillQueue', b, c)
        /\ at'["llm"] = "prefill" => a < packet' /\ packet' <= b
    BY <1>1, <1>2 DEF Ordered
  <1> QED BY <1>4, <1>5, <1>6, <1>7, <1>8, Watermarks

LEMMA DeliverWatermarks == ASSUME StateInv, WatermarkInv, Deliver PROVE WatermarkInv'
  <1>1. PICK a \in Int, b \in Int, c \in Int, d \in Int : Ordered(a, b, c, d)
    BY DEF WatermarkInv
  <1>2. /\ at["encoder"] = "push" /\ at'["encoder"] = "take"
        /\ at'["llm"] = at["llm"] /\ at'["prefiller"] = at["prefiller"]
        /\ prefillQueue' = Append(prefillQueue, frame["encoder"])
        /\ UNCHANGED <<kv, encoderQueue, packet, frame>>
    BY Numbers, GotoMoves DEF Deliver, Enters
  <1>3. Queued' = Queued
    BY <1>2, SameQueued
  <1>4. /\ prefillQueue \in Seq(Frames) /\ frame["encoder"] \in Frames
        /\ frame["encoder"] \in Int /\ Queued \in Int
    BY Numbers
  <1>5. /\ a <= b /\ b <= c /\ c <= d /\ d <= Queued
        /\ Within(prefillQueue, b, c) /\ Within(encoderQueue, d, Queued)
        /\ c < frame["encoder"] /\ frame["encoder"] <= d
        /\ at["llm"] = "prefill" => a < packet /\ packet <= b
    BY <1>1, <1>2 DEF Ordered
  <1>6. Within(prefillQueue', b, d) /\ b <= d
    BY <1>2, <1>4, <1>5, AppendWithin
  <1>7. FramesInOrder' /\ \A i \in Prefills' : kv'[i][2] <= a
    BY <1>1, <1>2, SameContext DEF WatermarkInv, Ordered
  <1>8. d <= d
    OBVIOUS
  <1> QED BY <1>2, <1>3, <1>5, <1>6, <1>7, <1>8, Watermarks

LEMMA PickWatermarks == ASSUME StateInv, WatermarkInv, Pick PROVE WatermarkInv'
  <1>1. PICK a \in Int, b \in Int, c \in Int, d \in Int : Ordered(a, b, c, d)
    BY DEF WatermarkInv
  <1>2. /\ at'["encoder"] = at["encoder"] /\ at'["prefiller"] = at["prefiller"]
        /\ UNCHANGED <<kv, encoderQueue, frame>>
    BY Numbers, GotoMoves DEF Pick
  <1>3. Queued' = Queued
    BY <1>2, SameQueued
  <1>4. CASE /\ prefillQueue # <<>> /\ packet' = Head(prefillQueue)
             /\ prefillQueue' = Tail(prefillQueue)
    <2> DEFINE k == Head(prefillQueue)
    <2>1. prefillQueue \in Seq(Frames) /\ Within(prefillQueue, b, c) /\ Queued \in Int
      BY <1>1, Numbers DEF Ordered
    <2>2. k \in Int /\ b < k /\ k <= c /\ Within(prefillQueue', k, c)
      BY <1>4, <2>1, TailWithin
    <2> HIDE DEF k
    <2>3. packet' = k
      BY <1>4 DEF k
    <2>4. a <= k /\ a < packet' /\ packet' <= k
      BY <1>1, <2>2, <2>3 DEF Ordered
    <2>5. FramesInOrder' /\ \A i \in Prefills' : kv'[i][2] <= a
      BY <1>1, <1>2, SameContext DEF WatermarkInv, Ordered
    <2>6. /\ c <= d /\ d <= Queued' /\ Within(encoderQueue', d, Queued')
          /\ at'["encoder"] = "push" => c < frame'["encoder"] /\ frame'["encoder"] <= d
      BY <1>1, <1>2, <1>3 DEF Ordered
    <2> QED BY <2>2, <2>4, <2>5, <2>6, Watermarks
  <1>5. CASE Goto("llm", "decide") /\ UNCHANGED <<packet, prefillQueue>>
    <2>1. at'["llm"] # "prefill"
      BY <1>5, Numbers, GotoMoves
    <2> QED BY <1>2, <1>3, <1>5, <2>1, WatermarkKept
  <1> QED BY <1>4, <1>5 DEF Pick

LEMMA DropWatermarks ==
    ASSUME StateInv, WatermarkInv, Drop \/ Stopped
    PROVE  WatermarkInv'
  <1>1. PICK a \in Int, b \in Int, c \in Int, d \in Int : Ordered(a, b, c, d)
    BY DEF WatermarkInv
  <1>2. /\ at'["llm"] = at["llm"] /\ at'["encoder"] = at["encoder"]
        /\ at'["prefiller"] = at["prefiller"]
        /\ UNCHANGED <<kv, packet, frame>> /\ prefillQueue' = <<>>
        /\ encoderQueue' = encoderQueue \/ encoderQueue' = <<>>
    BY Numbers, GotoMoves DEF Drop, Stopped
  <1>3. Queued' = Queued
    BY <1>2, SameQueued
  <1>4. Within(prefillQueue', b, c) /\ Within(encoderQueue', d, Queued')
    <2>1. Within(<<>>, b, c) /\ Within(<<>>, d, Queued)
      BY EmptyWithin
    <2> QED BY <1>1, <1>2, <1>3, <2>1 DEF Ordered
  <1>5. FramesInOrder' /\ \A i \in Prefills' : kv'[i][2] <= a
    BY <1>1, <1>2, SameContext DEF WatermarkInv, Ordered
  <1> QED BY <1>1, <1>2, <1>3, <1>4, <1>5, Watermarks DEF Ordered

LEMMA PrefillWatermarks ==
    ASSUME StateInv, WatermarkInv, Prefill \/ Decode
    PROVE  WatermarkInv'
  <1>1. PICK a \in Int, b \in Int, c \in Int, d \in Int : Ordered(a, b, c, d)
    BY DEF WatermarkInv
  <1>2. /\ at'["llm"] # "prefill" /\ at'["encoder"] = at["encoder"]
        /\ at'["prefiller"] = at["prefiller"]
        /\ UNCHANGED <<encoderQueue, prefillQueue, frame>>
    BY Numbers, GotoMoves DEF Prefill, Decode, queueVars
  <1>3. Queued' = Queued
    BY <1>2, SameQueued
  <1>4. FramesInOrder /\ \A i \in Prefills : kv[i][2] <= a
    BY <1>1 DEF WatermarkInv, Ordered
  <1>5. /\ a <= b /\ b <= c /\ c <= d /\ d <= Queued'
        /\ Within(prefillQueue', b, c) /\ Within(encoderQueue', d, Queued')
        /\ at'["encoder"] = "push" => c < frame'["encoder"] /\ frame'["encoder"] <= d
    BY <1>1, <1>2, <1>3 DEF Ordered
  <1>6. CASE Prefill
    <2>1. at["llm"] = "prefill" /\ kv' = Append(kv, <<"prefill", packet>>)
      BY <1>6 DEF Prefill
    <2>2. packet \in Frames /\ packet \in Int /\ a < packet /\ packet <= b
      <3>1. packet \in Frames /\ Frames \subseteq Int
        BY <2>1, Numbers DEF StateInv, DataTypes
      <3> QED BY <1>1, <2>1, <3>1 DEF Ordered
    <2>3. FramesInOrder' /\ \A i \in Prefills' : kv'[i][2] <= packet
      <3> DEFINE e == <<"prefill", packet>>
      <3>1. e \in {"prefill", "decode"} \X Frames /\ e[1] = "prefill" /\ e[2] = packet
        BY <2>2
      <3> HIDE DEF e
      <3>2. kv' = Append(kv, e)
        BY <2>1 DEF e
      <3>3. e[1] = "prefill" => a < e[2]
        BY <2>2, <3>1
      <3>4. FramesInOrder'
            /\ \A i \in Prefills' : kv'[i][2] <= IF e[1] = "prefill" THEN e[2] ELSE a
        BY <1>4, <3>1, <3>2, <3>3, ContextOrder
      <3> QED BY <3>1, <3>4
    <2> QED BY <1>2, <1>5, <2>2, <2>3, Watermarks
  <1>7. CASE Decode
    <2>1. kv' = Append(kv, <<"decode", frame["llm"]>>)
      BY <1>7 DEF Decode
    <2>2. FramesInOrder' /\ \A i \in Prefills' : kv'[i][2] <= a
      <3> DEFINE e == <<"decode", frame["llm"]>>
      <3>1. e \in {"prefill", "decode"} \X Frames /\ e[1] # "prefill"
        BY Numbers
      <3> HIDE DEF e
      <3>2. kv' = Append(kv, e)
        BY <2>1 DEF e
      <3>3. FramesInOrder'
            /\ \A i \in Prefills' : kv'[i][2] <= IF e[1] = "prefill" THEN e[2] ELSE a
        BY <1>4, <3>1, <3>2, ContextOrder
      <3> QED BY <3>1, <3>3
    <2> QED BY <1>2, <1>5, <2>2, Watermarks
  <1> QED BY <1>6, <1>7

LEMMA WatermarkStep == ASSUME StateInv, WatermarkInv, [Next]_vars PROVE WatermarkInv'
  <1>0. at \in [Threads -> Places] /\ frame \in [Threads -> Frames \cup {None}]
        /\ Threads = {"prefiller", "decoder", "encoder", "llm", "closer"}
    BY Numbers
  <1>1. CASE UNCHANGED vars
    <2>1. UNCHANGED <<kv, encoderQueue, prefillQueue, packet, frame, at>>
      BY <1>1 DEF vars, queueVars
    <2> QED BY <2>1, SameQueued, WatermarkKept
  <1>2. ASSUME NEW t \in Threads, Wait(t) PROVE WatermarkInv'
    <2>1. UNCHANGED <<kv, encoderQueue, prefillQueue, packet, frame, at>>
      BY <1>2 DEF Wait, queueVars, Blocks, Sleeps
    <2> QED BY <2>1, SameQueued, WatermarkKept
  <1>3. CASE NextPrefill
    <2>1. /\ at["prefiller"] = "out" /\ at'["prefiller"] = "submit"
          /\ frame'["prefiller"] = frame["prefiller"] + 1
          /\ frame'["encoder"] = frame["encoder"]
          /\ at'["llm"] = at["llm"] /\ at'["encoder"] = at["encoder"]
          /\ UNCHANGED <<kv, encoderQueue, prefillQueue, packet>>
      BY <1>0, <1>3, GotoMoves DEF NextPrefill, PrefillCall, queueVars
    <2>2. Queued' = Queued
      BY <2>1, Numbers DEF Queued, One
    <2> QED BY <2>1, <2>2, WatermarkKept
  <1>4. CASE NextDecode \/ Count \/ Post \/ PostRefused \/ DecodeReturn \/ Accept
    <2>1. /\ at'["encoder"] = at["encoder"]
          /\ at'["llm"] = "prefill" => at["llm"] = "prefill"
          /\ at'["prefiller"] = "submit" <=> at["prefiller"] = "submit"
          /\ frame'["encoder"] = frame["encoder"] /\ frame'["prefiller"] = frame["prefiller"]
          /\ UNCHANGED <<kv, encoderQueue, prefillQueue, packet>>
      BY <1>0, <1>4, GotoMoves
      DEF NextDecode, DecodeCall, Count, Post, PostRefused, DecodeReturn, Accept, queueVars
    <2> QED BY <2>1, SameQueued, WatermarkKept
  <1>5. CASE EncoderExit \/ Check \/ Fetch \/ Decide \/ Finish \/ LlmExit
    <2>1. /\ at'["encoder"] = "push" => at["encoder"] = "push"
          /\ at'["llm"] = "prefill" => at["llm"] = "prefill"
          /\ at'["prefiller"] = at["prefiller"]
          /\ UNCHANGED <<kv, encoderQueue, prefillQueue, packet, frame>>
      BY <1>0, <1>5, GotoMoves DEF EncoderExit, Check, Fetch, Decide, Finish, LlmExit, queueVars
    <2> QED BY <2>1, SameQueued, WatermarkKept
  <1>6. CASE Break \/ ClearBreak \/ \E byClose \in BOOLEAN : Stop(byClose)
    <2>1. /\ at'["encoder"] = at["encoder"] /\ at'["llm"] = at["llm"]
          /\ at'["prefiller"] = at["prefiller"]
          /\ UNCHANGED <<kv, encoderQueue, prefillQueue, packet, frame>>
      BY <1>0, <1>6, GotoMoves DEF Break, ClearBreak, Stop, queueVars
    <2> QED BY <2>1, SameQueued, WatermarkKept
  <1> QED
    BY <1>0, <1>1, <1>2, <1>3, <1>4, <1>5, <1>6, SubmitWatermarks, TakeWatermarks,
       DeliverWatermarks, PickWatermarks, DropWatermarks, PrefillWatermarks
    DEF Next, PrefillStep, DecodeStep, EncoderStep, LlmStep

\* Whatever is broken off, dropped or stopped, no frame enters the context twice or
\* after a later one, for any number of frames and any capacities.
\* (duplex_llm_thread_func)
THEOREM OrderCorrect == Spec => []FramesInOrder
  <1>1. StateInv /\ WatermarkInv /\ [Next]_vars => WatermarkInv'
    BY WatermarkStep
  <1>2. WatermarkInv => FramesInOrder
    BY DEF WatermarkInv
  <1> QED BY <1>1, <1>2, WatermarkInit, StateCorrect, PTL DEF Spec

-----------------------------------------------------------------------------
(* How many frames the context has seen. *)

\* The frames up to here are in the context.
Entered ==
    IF at["llm"] \in {"check", "fetch", "pick", "prefill"} /\ frame["llm"] > 0
      THEN frame["llm"] - 1 ELSE frame["llm"]

SeenInv == ~broken /\ at["llm"] # "exited" => Cardinality(Prefills) = Entered

LEMMA PrefillsFinite == ASSUME StateInv PROVE IsFiniteSet(Prefills)
  <1>1. DOMAIN kv = 1..Len(kv) /\ Len(kv) \in Nat
    BY DEF StateInv, DataTypes
  <1>2. IsFiniteSet(1..Len(kv))
    BY <1>1, FS_Interval
  <1> QED BY <1>1, <1>2, FS_Subset DEF Prefills

\* An entry of the context that is no frame, and one that is.
LEMMA PrefillsAppend ==
    ASSUME StateInv, NEW e \in {"prefill", "decode"} \X Frames, kv' = Append(kv, e)
    PROVE  IF e[1] = "prefill"
             THEN Cardinality(Prefills') = Cardinality(Prefills) + 1
             ELSE Prefills' = Prefills
  <1>0. kv \in Seq({"prefill", "decode"} \X Frames)
    BY DEF StateInv, DataTypes
  <1> DEFINE n == Len(kv)
  <1>1. /\ n \in Nat /\ DOMAIN kv = 1..n /\ DOMAIN kv' = 1..(n + 1)
        /\ kv'[n + 1] = e /\ \A i \in 1..n : kv'[i] = kv[i]
    BY <1>0, AppendLast
  <1> HIDE DEF n
  <1>2. Prefills' = Prefills \cup (IF e[1] = "prefill" THEN {n + 1} ELSE {})
    BY <1>1 DEF Prefills
  <1>3. n + 1 \notin Prefills
    BY <1>1 DEF Prefills
  <1> QED BY <1>2, <1>3, PrefillsFinite, FS_AddElement

LEMMA SeenKept ==
    ASSUME SeenInv, kv' = kv, broken' \/ ~broken,
           at'["llm"] # "exited" => at["llm"] # "exited" /\ Entered' = Entered
    PROVE  SeenInv'
  <1>1. Prefills' = Prefills
    BY DEF Prefills
  <1> QED BY <1>1 DEF SeenInv

LEMMA BrokenStays == ASSUME broken, [Next]_vars PROVE broken'
  <1>1. CASE UNCHANGED vars
    BY <1>1 DEF vars
  <1>2. CASE Next
    BY <1>2, Zenon
    DEF Next, NextPrefill, PrefillCall, NextDecode, DecodeCall, PrefillStep, Submit, Count,
        DecodeStep, Post, PostRefused, DecodeReturn, EncoderStep, Take, Deliver,
        EncoderExit, LlmStep, Drop, Accept, Check, Fetch, Pick, Prefill, Decide, Decode,
        Finish, LlmExit, Wait, Break, ClearBreak, Stop, Stopped
  <1> QED BY <1>1, <1>2

\* The steps that are not the LLM thread's leave the context and its frame alone.
LEMMA OthersSee ==
    ASSUME StateInv,
           \/ UNCHANGED vars \/ \E t \in Threads : Wait(t)
           \/ NextPrefill \/ NextDecode \/ Submit \/ Count \/ Post \/ PostRefused
           \/ DecodeReturn \/ Take \/ Deliver \/ EncoderExit \/ Drop \/ Break \/ ClearBreak
           \/ (\E byClose \in BOOLEAN : Stop(byClose)) \/ Stopped
    PROVE  kv' = kv /\ at'["llm"] = at["llm"] /\ frame'["llm"] = frame["llm"]
  <1>0. at \in [Threads -> Places] /\ frame \in [Threads -> Frames \cup {None}]
        /\ Threads = {"prefiller", "decoder", "encoder", "llm", "closer"}
    BY Numbers
  <1>1. CASE UNCHANGED vars \/ \E t \in Threads : Wait(t)
    BY <1>1, WaitTypes DEF vars, Wait, StateInv
  <1>2. CASE NextPrefill \/ NextDecode
    BY <1>0, <1>2, GotoMoves DEF NextPrefill, PrefillCall, NextDecode, DecodeCall
  <1>3. CASE Submit \/ Count \/ Post \/ PostRefused \/ DecodeReturn
    BY <1>0, <1>3, GotoMoves DEF Submit, Count, Post, PostRefused, DecodeReturn
  <1>4. CASE Take \/ Deliver \/ EncoderExit
    BY <1>0, <1>4, GotoMoves DEF Take, Deliver, EncoderExit
  <1>5. CASE Drop \/ Break \/ ClearBreak
    BY <1>5 DEF Drop, Break, ClearBreak
  <1>6. CASE (\E byClose \in BOOLEAN : Stop(byClose)) \/ Stopped
    BY <1>0, <1>6, GotoMoves DEF Stop, Stopped
  <1> QED BY <1>1, <1>2, <1>3, <1>4, <1>5, <1>6

LEMMA SeenStep ==
    ASSUME StateInv, PairInv, SeenInv, [Next]_vars, ~broken'
    PROVE  SeenInv'
  <1>0. /\ at \in [Threads -> Places] /\ "llm" \in Threads /\ ~broken
        /\ frame["llm"] \in Int /\ frame["llm"] >= 0
        /\ frame \in [Threads -> Frames \cup {None}]
    BY Numbers, BrokenStays
  <1>1. ~breakEvent /\ LlmInv /\ (running => DecoderInv)
    BY <1>0 DEF PairInv
  <1>2. CASE \/ UNCHANGED vars \/ \E t \in Threads : Wait(t)
             \/ NextPrefill \/ NextDecode \/ Submit \/ Count \/ Post \/ PostRefused
             \/ DecodeReturn \/ Take \/ Deliver \/ EncoderExit \/ Drop \/ Break \/ ClearBreak
             \/ (\E byClose \in BOOLEAN : Stop(byClose)) \/ Stopped
    <2>1. kv' = kv /\ at'["llm"] = at["llm"] /\ frame'["llm"] = frame["llm"]
      BY <1>2, OthersSee
    <2> QED BY <1>0, <2>1, SeenKept DEF Entered
  <1>3. CASE Accept
    <2>1. /\ at["llm"] = "idle" /\ at'["llm"] = "check" /\ kv' = kv
          /\ frame'["llm"] = pendingDecode /\ running /\ pendingDecode # None
      BY <1>0, <1>3, GotoMoves DEF Accept, Enters
    <2>2. pendingDecode = frame["llm"] + 1 \/ (pendingDecode = 0 /\ frame["llm"] = 0)
      BY <1>1, <2>1 DEF DecoderInv, Due
    <2>3. Entered' = Entered
      BY <1>0, <2>1, <2>2 DEF Entered
    <2> QED BY <1>0, <2>1, <2>3, SeenKept
  <1>4. CASE Check
    <2>1. /\ at["llm"] = "check" /\ kv' = kv /\ frame'["llm"] = frame["llm"]
          /\ at'["llm"] = IF inFlight > 0 THEN "fetch" ELSE "decide"
      BY <1>0, <1>4, GotoMoves DEF Check
    <2>2. Entered' = Entered
      BY <1>0, <1>1, <2>1 DEF Entered, LlmInv
    <2> QED BY <1>0, <2>1, <2>2, SeenKept
  <1>5. CASE Fetch
    <2>1. /\ at["llm"] = "fetch" /\ at'["llm"] = "pick" /\ kv' = kv
          /\ frame'["llm"] = frame["llm"]
      BY <1>0, <1>5, GotoMoves DEF Fetch, Enters
    <2> QED BY <1>0, <2>1, SeenKept DEF Entered
  <1>6. CASE Pick
    <2>1. /\ at["llm"] = "pick" /\ at'["llm"] = "prefill" /\ kv' = kv
          /\ frame'["llm"] = frame["llm"]
      BY <1>0, <1>1, <1>6, GotoMoves DEF Pick, LlmInv
    <2> QED BY <1>0, <2>1, SeenKept DEF Entered
  <1>7. CASE Prefill
    <2>1. /\ at["llm"] = "prefill" /\ at'["llm"] = "decide" /\ frame'["llm"] = frame["llm"]
          /\ kv' = Append(kv, <<"prefill", packet>>)
      BY <1>0, <1>7, GotoMoves DEF Prefill
    <2>2. packet \in Frames /\ frame["llm"] > 0
      BY <1>1, <2>1 DEF StateInv, DataTypes, LlmInv
    <2>3. Cardinality(Prefills') = Cardinality(Prefills) + 1
      <3> DEFINE e == <<"prefill", packet>>
      <3>1. e \in {"prefill", "decode"} \X Frames /\ e[1] = "prefill"
        BY <2>2
      <3> HIDE DEF e
      <3>2. kv' = Append(kv, e)
        BY <2>1 DEF e
      <3> QED BY <3>1, <3>2, PrefillsAppend
    <2>4. Cardinality(Prefills) = frame["llm"] - 1
      BY <1>0, <2>1, <2>2 DEF SeenInv, Entered
    <2>5. Cardinality(Prefills') = frame["llm"]
      BY <1>0, <2>3, <2>4
    <2> QED BY <2>1, <2>5 DEF SeenInv, Entered
  <1>8. CASE Decode
    <2>1. /\ at["llm"] = "decode" /\ at'["llm"] = "finish" /\ frame'["llm"] = frame["llm"]
          /\ kv' = Append(kv, <<"decode", frame["llm"]>>)
      BY <1>0, <1>8, GotoMoves DEF Decode
    <2>2. Prefills' = Prefills
      <3> DEFINE e == <<"decode", frame["llm"]>>
      <3>1. e \in {"prefill", "decode"} \X Frames /\ e[1] # "prefill"
        BY Numbers
      <3> HIDE DEF e
      <3>2. kv' = Append(kv, e)
        BY <2>1 DEF e
      <3> QED BY <3>1, <3>2, PrefillsAppend
    <2>3. Entered' = Entered /\ at["llm"] # "exited"
      BY <2>1 DEF Entered
    <2> QED BY <1>0, <2>2, <2>3 DEF SeenInv
  <1>9. CASE Decide \/ Finish
    <2>1. /\ at["llm"] \in {"decide", "finish"} /\ at'["llm"] \in {"finish", "decode", "idle"}
          /\ frame'["llm"] = frame["llm"] /\ kv' = kv
      BY <1>0, <1>9, GotoMoves DEF Decide, Finish
    <2> QED BY <1>0, <2>1, SeenKept DEF Entered
  <1>10. CASE LlmExit
    BY <1>0, <1>10, GotoMoves DEF LlmExit, SeenInv
  <1> QED
    BY <1>2, <1>3, <1>4, <1>5, <1>6, <1>7, <1>8, <1>9, <1>10
    DEF Next, PrefillStep, DecodeStep, EncoderStep, LlmStep, Threads

-----------------------------------------------------------------------------
(* Who holds which frame. *)

Results == [frame : Int, seen : Nat]

Stations == {"push", "count", "exited", "pending", "submitting", "handed", "decoding",
            "reported", "collect", "drain", "joining", "ended"}

SessionTypes ==
    /\ station \in [SessionThreads -> Stations]
    /\ pendingFrames \in Seq(Frames) /\ decodePending \in Seq(Frames)
    /\ doneResults \in Seq(Results) /\ delivered \in Seq(Results)
    /\ outstanding \in Int /\ pushed \in Frames

\* The session outlives its producer, and the pipeline the session; the pipeline works
\* for a worker only while that is in its call.
Phases ==
    /\ open \in BOOLEAN /\ (open <=> station["main"] \in {"collect", "drain"})
    /\ station["main"] # "collect" => station["producer"] = "exited"
    /\ station["main"] = "ended" => station["decoder"] = "exited"
    /\ ~running => station["main"] = "ended"
    /\ at["prefiller"] # "out" => station["prefiller"] = "submitting"
    /\ at["decoder"] # "out" => station["decoder"] = "decoding"
    /\ ~broken

\* The frames that have been answered, and those that a decode has been asked for.
Served == Len(delivered) + Len(doneResults)
Asked  == Served + One(station["decoder"] = "decoding")

\* Behind these come the frames handed to the decode worker, the one that is being
\* submitted, and those that wait to be.
Ledger ==
    /\ frame["decoder"] = Asked \/ (frame["decoder"] = None /\ Asked = 0)
    /\ Numbered(decodePending, Asked)
    /\ frame["prefiller"] = Asked + Len(decodePending)
                              + One(station["prefiller"] = "submitting")
    /\ Numbered(pendingFrames, frame["prefiller"])
    /\ pushed = frame["prefiller"] + Len(pendingFrames)
    /\ outstanding = pushed - Served + One(station["decoder"] = "reported")
                       - One(station["producer"] = "count")

SessionInv == SessionTypes /\ Phases /\ Ledger

\* What the numbers of the session are.
LEMMA SessionNumbers ==
    ASSUME StateInv, SessionTypes
    PROVE  /\ Frames \subseteq Int /\ frame["prefiller"] \in Frames
           /\ Len(pendingFrames) \in Nat /\ Len(decodePending) \in Nat
           /\ Served \in Nat /\ Asked \in Nat /\ pushed \in Int /\ outstanding \in Int
           /\ frame["prefiller"] \in Int /\ None \notin Nat
           /\ SessionThreads = {"producer", "prefiller", "decoder", "main"}
           /\ \A condition : One(condition) \in {0, 1}
  BY Numbers DEF SessionTypes, Served, Asked, One, None, SessionThreads

LEMMA SessionGoto ==
    ASSUME station \in [SessionThreads -> Stations], NEW t \in SessionThreads,
           NEW place \in Stations, M!Goto(t, place)
    PROVE  /\ station' \in [SessionThreads -> Stations] /\ station'[t] = place
           /\ \A u \in SessionThreads \ {t} : station'[u] = station[u]
  BY DEF M!Goto

\* A step that moves no frame and reports no answer.
LEMMA LedgerKept ==
    ASSUME Ledger, UNCHANGED <<pendingFrames, decodePending, doneResults, delivered,
                               outstanding, pushed>>,
           frame'["prefiller"] = frame["prefiller"], frame'["decoder"] = frame["decoder"],
           station'["prefiller"] = "submitting" <=> station["prefiller"] = "submitting",
           station'["decoder"] = "decoding" <=> station["decoder"] = "decoding",
           station'["decoder"] = "reported" <=> station["decoder"] = "reported",
           station'["producer"] = "count" <=> station["producer"] = "count"
    PROVE  Ledger'
  <1>1. Served' = Served /\ Asked' = Asked
    BY DEF Served, Asked, One
  <1>2. /\ One(station["prefiller"] = "submitting")' = One(station["prefiller"] = "submitting")
        /\ One(station["decoder"] = "reported")' = One(station["decoder"] = "reported")
        /\ One(station["producer"] = "count")' = One(station["producer"] = "count")
    BY DEF One
  <1> QED BY <1>1, <1>2 DEF Ledger, Numbered

(* The steps of the session that leave the pipeline alone. *)

\* Exits, and the main thread on its way out.
LEMMA ExitSteps ==
    ASSUME StateInv, SessionInv,
           LastFrame \/ PrefillerExit \/ DecoderExit \/ Leave \/ Drained \/ Ended
    PROVE  SessionInv' /\ UNCHANGED vars
  <1>0. /\ station \in [SessionThreads -> Stations]
        /\ SessionThreads = {"producer", "prefiller", "decoder", "main"}
    BY SessionNumbers DEF SessionInv, SessionTypes
  <1>1. UNCHANGED <<vars, queues, resultVars, outstanding, pushed>>
    BY DEF LastFrame, PrefillerExit, DecoderExit, Leave, Drained, Ended
  <1>2. UNCHANGED <<pendingFrames, decodePending, doneResults, delivered, outstanding,
                    pushed, frame, at, running, broken>>
    BY <1>1 DEF vars, queues, resultVars
  <1>3. CASE LastFrame
    <2>1. /\ station' \in [SessionThreads -> Stations] /\ station'["producer"] = "exited"
          /\ station["producer"] = "push" /\ open' = open
          /\ \A u \in SessionThreads \ {"producer"} : station'[u] = station[u]
      BY <1>0, <1>3, SessionGoto DEF LastFrame, Stations
    <2> QED
      BY <1>0, <1>1, <1>2, <2>1, LedgerKept DEF SessionInv, SessionTypes, Phases
  <1>4. CASE PrefillerExit
    <2>1. /\ station' \in [SessionThreads -> Stations] /\ station'["prefiller"] = "exited"
          /\ station["prefiller"] = "pending" /\ open' = open
          /\ \A u \in SessionThreads \ {"prefiller"} : station'[u] = station[u]
      BY <1>0, <1>4, SessionGoto DEF PrefillerExit, Stations, M!Enters
    <2> QED
      BY <1>0, <1>1, <1>2, <2>1, LedgerKept DEF SessionInv, SessionTypes, Phases
  <1>5. CASE DecoderExit
    <2>1. /\ station' \in [SessionThreads -> Stations] /\ station'["decoder"] = "exited"
          /\ station["decoder"] = "handed" /\ open' = open
          /\ \A u \in SessionThreads \ {"decoder"} : station'[u] = station[u]
      BY <1>0, <1>5, SessionGoto DEF DecoderExit, Stations, M!Enters
    <2> QED
      BY <1>0, <1>1, <1>2, <2>1, LedgerKept DEF SessionInv, SessionTypes, Phases
  <1>6. CASE Leave \/ Drained \/ Ended
    <2>1. /\ station' \in [SessionThreads -> Stations]
          /\ \/ /\ station["main"] = "collect" /\ station'["main"] = "drain"
                /\ station["producer"] = "exited" /\ open' = open
             \/ station["main"] = "drain" /\ station'["main"] = "joining" /\ open' = FALSE
             \/ /\ station["main"] = "joining" /\ station'["main"] = "ended" /\ open' = open
                /\ station["decoder"] = "exited"
          /\ \A u \in SessionThreads \ {"main"} : station'[u] = station[u]
      BY <1>0, <1>6, SessionGoto DEF Leave, Drained, Ended, Stations
    <2>2. open' \in BOOLEAN /\ (open' <=> station'["main"] \in {"collect", "drain"})
      <3>1. CASE open' = open
        BY <2>1, <3>1 DEF SessionInv, Phases
      <3>2. CASE open' = FALSE
        BY <2>1, <3>2 DEF SessionInv, Phases
      <3> QED BY <2>1, <3>1, <3>2
    <2>3. Phases'
      BY <1>0, <1>2, <2>1, <2>2 DEF SessionInv, Phases
    <2>4. Ledger'
      BY <1>0, <1>2, <2>1, LedgerKept DEF SessionInv
    <2> QED BY <1>1, <1>2, <2>1, <2>3, <2>4 DEF SessionInv, SessionTypes
  <1> QED BY <1>3, <1>4, <1>5, <1>6

LEMMA PushSteps ==
    ASSUME StateInv, SessionInv, PushFrame
    PROVE  SessionInv' /\ UNCHANGED vars /\ Promised!Push
  <1>0. /\ station \in [SessionThreads -> Stations]
        /\ SessionThreads = {"producer", "prefiller", "decoder", "main"}
    BY SessionNumbers DEF SessionInv, SessionTypes
  <1>1. /\ UNCHANGED <<vars, open, decodePending, resultVars, outstanding>>
        /\ pushed < MaxFrames /\ pushed' = pushed + 1
        /\ pendingFrames' = Append(pendingFrames, pushed + 1)
        /\ station["producer"] = "push" /\ M!Goto("producer", "count")
    BY DEF PushFrame, M!Enters
  <1>2. UNCHANGED <<decodePending, doneResults, delivered, outstanding, open, frame, at,
                    running, broken>>
    BY <1>1 DEF vars, resultVars
  <1>3. /\ station' \in [SessionThreads -> Stations] /\ station'["producer"] = "count"
        /\ \A u \in SessionThreads \ {"producer"} : station'[u] = station[u]
    BY <1>0, <1>1, SessionGoto DEF Stations
  <1>4. open /\ station["main"] = "collect"
    BY <1>1 DEF SessionInv, Phases
  <1>5. pushed + 1 \in Frames
    BY <1>1, SessionNumbers, CapsAssumption DEF SessionInv, SessionTypes, Frames
  <1>6. SessionTypes'
    BY <1>1, <1>2, <1>3, <1>5 DEF SessionInv, SessionTypes
  <1>7. Phases'
    BY <1>0, <1>2, <1>3, <1>4 DEF SessionInv, Phases
  <1>8. Ledger'
    <2>1. Served' = Served /\ Asked' = Asked /\ frame'["prefiller"] = frame["prefiller"]
      BY <1>0, <1>2, <1>3 DEF Served, Asked
    <2>2. /\ Numbered(pendingFrames, frame["prefiller"])
          /\ pushed = frame["prefiller"] + Len(pendingFrames)
      BY DEF SessionInv, Ledger
    <2>3. Numbered(pendingFrames', frame["prefiller"])
      BY <1>1, <1>5, <2>2, SessionNumbers, AppendNumbered DEF SessionInv, SessionTypes
    <2>4. Len(pendingFrames') = Len(pendingFrames) + 1
      BY <1>1, <1>5 DEF SessionInv, SessionTypes
    <2>5. pushed' = frame'["prefiller"] + Len(pendingFrames')
      <3>1. frame["prefiller"] \in Int /\ Len(pendingFrames) \in Nat
        BY SessionNumbers DEF SessionInv
      <3> QED BY <1>1, <2>1, <2>2, <2>4, <3>1
    <2>6. /\ One(station["prefiller"] = "submitting")' = One(station["prefiller"] = "submitting")
          /\ One(station["decoder"] = "reported")' = One(station["decoder"] = "reported")
          /\ One(station["producer"] = "count") = 0 /\ One(station["producer"] = "count")' = 1
      BY <1>0, <1>1, <1>3 DEF One
    <2>7. outstanding' = pushed' - Served' + One(station["decoder"] = "reported")'
                           - One(station["producer"] = "count")'
      BY <1>1, <1>2, <2>1, <2>6, SessionNumbers DEF SessionInv, Ledger
    <2>8. Numbered(pendingFrames, frame["prefiller"])'
      BY <2>1, <2>3 DEF Numbered
    <2> QED BY <1>2, <2>1, <2>5, <2>6, <2>7, <2>8 DEF SessionInv, Ledger, Numbered
  <1>9. Promised!Push
    BY <1>1, <1>2, <1>4 DEF Promised!Push
  <1> QED BY <1>1, <1>6, <1>7, <1>8, <1>9 DEF SessionInv

LEMMA CountSteps ==
    ASSUME StateInv, SessionInv, CountFrame \/ Settle
    PROVE  SessionInv' /\ UNCHANGED vars
  <1>0. /\ station \in [SessionThreads -> Stations]
        /\ SessionThreads = {"producer", "prefiller", "decoder", "main"}
    BY SessionNumbers DEF SessionInv, SessionTypes
  <1>1. UNCHANGED <<vars, open, queues, resultVars, pushed>>
    BY DEF CountFrame, Settle
  <1>2. UNCHANGED <<pendingFrames, decodePending, doneResults, delivered, open, frame, at,
                    running, broken, pushed>>
    BY <1>1 DEF vars, queues, resultVars
  <1>3. Served' = Served /\ UNCHANGED frame["prefiller"] /\ UNCHANGED frame["decoder"]
    BY <1>2 DEF Served
  <1>4. CASE CountFrame
    <2>1. /\ station' \in [SessionThreads -> Stations] /\ station["producer"] = "count"
          /\ station'["producer"] = "push" /\ outstanding' = outstanding + 1
          /\ \A u \in SessionThreads \ {"producer"} : station'[u] = station[u]
      BY <1>0, <1>4, SessionGoto DEF CountFrame, Stations
    <2>2. Asked' = Asked
      BY <1>0, <1>3, <2>1 DEF Asked
    <2>3. /\ One(station["prefiller"] = "submitting")' = One(station["prefiller"] = "submitting")
          /\ One(station["decoder"] = "reported")' = One(station["decoder"] = "reported")
          /\ One(station["producer"] = "count") = 1 /\ One(station["producer"] = "count")' = 0
      BY <1>0, <2>1 DEF One
    <2>4. outstanding' = pushed' - Served' + One(station["decoder"] = "reported")'
                           - One(station["producer"] = "count")'
      BY <1>2, <1>3, <2>1, <2>3, SessionNumbers DEF SessionInv, Ledger
    <2>5. Ledger'
      BY <1>2, <1>3, <2>2, <2>3, <2>4 DEF SessionInv, Ledger, Numbered
    <2>6. Phases'
      BY <1>0, <1>2, <2>1 DEF SessionInv, Phases
    <2>7. SessionTypes'
      BY <1>2, <2>1 DEF SessionInv, SessionTypes
    <2> QED BY <1>1, <2>5, <2>6, <2>7 DEF SessionInv
  <1>5. CASE Settle
    <2>1. /\ station' \in [SessionThreads -> Stations] /\ station["decoder"] = "reported"
          /\ station'["decoder"] = "handed" /\ outstanding' = outstanding - 1
          /\ \A u \in SessionThreads \ {"decoder"} : station'[u] = station[u]
      BY <1>0, <1>5, SessionGoto DEF Settle, Stations
    <2>2. Asked' = Asked
      BY <1>0, <1>3, <2>1 DEF Asked, One
    <2>3. /\ One(station["prefiller"] = "submitting")' = One(station["prefiller"] = "submitting")
          /\ One(station["decoder"] = "reported") = 1 /\ One(station["decoder"] = "reported")' = 0
          /\ One(station["producer"] = "count")' = One(station["producer"] = "count")
      BY <1>0, <2>1 DEF One
    <2>4. outstanding' = pushed' - Served' + One(station["decoder"] = "reported")'
                           - One(station["producer"] = "count")'
      BY <1>2, <1>3, <2>1, <2>3, SessionNumbers DEF SessionInv, Ledger
    <2>5. Ledger'
      BY <1>2, <1>3, <2>2, <2>3, <2>4 DEF SessionInv, Ledger, Numbered
    <2>6. Phases'
      BY <1>0, <1>2, <2>1 DEF SessionInv, Phases
    <2>7. SessionTypes'
      BY <1>2, <2>1 DEF SessionInv, SessionTypes
    <2> QED BY <1>1, <2>5, <2>6, <2>7 DEF SessionInv
  <1> QED BY <1>4, <1>5

\* A frame goes from the prefill worker to the decode worker.
LEMMA HandOverSteps ==
    ASSUME StateInv, SessionInv, HandOver
    PROVE  SessionInv' /\ UNCHANGED vars
  <1>0. /\ station \in [SessionThreads -> Stations]
        /\ SessionThreads = {"producer", "prefiller", "decoder", "main"}
    BY SessionNumbers DEF SessionInv, SessionTypes
  <1> DEFINE k == frame["prefiller"]
  <1>1. /\ station["prefiller"] = "submitting" /\ at["prefiller"] = "out"
        /\ decodePending' = Append(decodePending, k)
        /\ M!Goto("prefiller", "pending")
        /\ UNCHANGED <<vars, open, pendingFrames, resultVars, outstanding, pushed>>
    BY DEF HandOver
  <1>2. UNCHANGED <<pendingFrames, doneResults, delivered, outstanding, open, frame, at,
                    running, broken, pushed>>
    BY <1>1 DEF vars, resultVars
  <1>3. /\ station' \in [SessionThreads -> Stations] /\ station'["prefiller"] = "pending"
        /\ \A u \in SessionThreads \ {"prefiller"} : station'[u] = station[u]
    BY <1>0, <1>1, SessionGoto DEF Stations
  <1>4. /\ k \in Frames /\ k \in Int /\ Asked \in Int /\ Len(decodePending) \in Nat
        /\ decodePending \in Seq(Frames)
    BY SessionNumbers DEF SessionInv, SessionTypes
  <1>5. SessionTypes'
    BY <1>1, <1>2, <1>3, <1>4 DEF SessionInv, SessionTypes
  <1>6. Phases'
    BY <1>0, <1>1, <1>2, <1>3 DEF SessionInv, Phases
  <1>7. Served' = Served /\ Asked' = Asked
    BY <1>0, <1>2, <1>3 DEF Served, Asked
  <1>8. k = Asked + Len(decodePending) + 1 /\ Numbered(decodePending, Asked)
    BY <1>1, <1>4 DEF SessionInv, Ledger, One
  <1>9. Numbered(decodePending', Asked) /\ Len(decodePending') = Len(decodePending) + 1
    BY <1>1, <1>4, <1>8, AppendNumbered
  <1>10. /\ One(station["prefiller"] = "submitting")' = 0
         /\ One(station["decoder"] = "reported")' = One(station["decoder"] = "reported")
         /\ One(station["producer"] = "count")' = One(station["producer"] = "count")
    BY <1>0, <1>3 DEF One
  <1>11. k = Asked + Len(decodePending') + 0
    BY <1>4, <1>8, <1>9
  <1>12. frame'["prefiller"] = k /\ frame' = frame
    BY <1>2
  <1> HIDE DEF k
  <1>13. /\ Numbered(decodePending, Asked)'
         /\ frame'["prefiller"] = Asked' + Len(decodePending')
                                    + One(station["prefiller"] = "submitting")'
    BY <1>7, <1>9, <1>10, <1>11, <1>12 DEF Numbered
  <1>14. Ledger'
    BY <1>2, <1>7, <1>10, <1>13 DEF SessionInv, Ledger, Numbered
  <1> QED BY <1>1, <1>5, <1>6, <1>14 DEF SessionInv

\* The prefill worker calls duplex_prefill with the frame that is next.
LEMMA TakePendingSteps ==
    ASSUME StateInv, SessionInv, TakePending
    PROVE  SessionInv' /\ NextPrefill
  <1>0. /\ station \in [SessionThreads -> Stations]
        /\ SessionThreads = {"producer", "prefiller", "decoder", "main"}
    BY SessionNumbers DEF SessionInv, SessionTypes
  <1> DEFINE k == Head(pendingFrames)
  <1>1. /\ station["prefiller"] = "pending" /\ pendingFrames # <<>>
        /\ PrefillCall(k)
        /\ pendingFrames' = Tail(pendingFrames)
        /\ M!Goto("prefiller", "submitting")
        /\ UNCHANGED <<open, decodePending, resultVars, outstanding, pushed>>
    BY DEF TakePending, M!Enters
  <1>2. /\ pendingFrames \in Seq(Frames) /\ pushed \in Frames /\ Frames \subseteq Int
        /\ frame["prefiller"] \in Int /\ Len(pendingFrames) \in Nat /\ Asked \in Nat
        /\ Len(decodePending) \in Nat /\ Served \in Nat
    BY SessionNumbers DEF SessionInv, SessionTypes
  <1>3. /\ Numbered(pendingFrames, frame["prefiller"])
        /\ pushed = frame["prefiller"] + Len(pendingFrames)
    BY DEF SessionInv, Ledger
  <1>4. /\ k = frame["prefiller"] + 1 /\ Numbered(Tail(pendingFrames), k)
        /\ Tail(pendingFrames) \in Seq(Frames)
        /\ Len(Tail(pendingFrames)) = Len(pendingFrames) - 1
    BY <1>1, <1>2, <1>3, TailNumbered
  <1>5. Len(pendingFrames) > 0
    BY <1>1, <1>2
  <1> HIDE DEF k
  <1>6. NextPrefill
    <2>1. frame["prefiller"] < MaxFrames
      BY <1>2, <1>3, <1>5, CapsAssumption DEF Frames
    <2>2. frame["decoder"] = 0 => at["decoder"] = "out"
      <3>1. SUFFICES ASSUME frame["decoder"] = 0 PROVE at["decoder"] = "out"
        OBVIOUS
      <3>2. Asked = 0
        BY <3>1 DEF SessionInv, Ledger, None
      <3>3. station["decoder"] # "decoding"
        BY <1>2, <3>2 DEF Asked, One
      <3> QED BY <3>3 DEF SessionInv, Phases
    <2> QED BY <1>1, <1>4, <2>1, <2>2 DEF NextPrefill
  <1>7. /\ UNCHANGED <<running, broken>>
        /\ at'["prefiller"] = "submit" /\ at'["decoder"] = at["decoder"]
        /\ frame'["prefiller"] = k /\ frame'["decoder"] = frame["decoder"]
    BY <1>1, Numbers, GotoMoves DEF PrefillCall
  <1>8. UNCHANGED <<decodePending, doneResults, delivered, outstanding, open, pushed>>
    BY <1>1 DEF resultVars
  <1>9. /\ station' \in [SessionThreads -> Stations] /\ station'["prefiller"] = "submitting"
        /\ \A u \in SessionThreads \ {"prefiller"} : station'[u] = station[u]
    BY <1>0, <1>1, SessionGoto DEF Stations
  <1>10. SessionTypes'
    BY <1>1, <1>4, <1>8, <1>9 DEF SessionInv, SessionTypes
  <1>11. Phases'
    BY <1>0, <1>7, <1>8, <1>9 DEF SessionInv, Phases
  <1>12. Served' = Served /\ Asked' = Asked
    BY <1>0, <1>8, <1>9 DEF Served, Asked
  <1>13. /\ One(station["prefiller"] = "submitting") = 0
         /\ One(station["prefiller"] = "submitting")' = 1
         /\ One(station["decoder"] = "reported")' = One(station["decoder"] = "reported")
         /\ One(station["producer"] = "count")' = One(station["producer"] = "count")
    BY <1>0, <1>1, <1>9 DEF One
  <1>14. frame["prefiller"] = Asked + Len(decodePending)
    BY <1>2, <1>13 DEF SessionInv, Ledger
  <1>15. frame'["prefiller"] = Asked' + Len(decodePending')
                                 + One(station["prefiller"] = "submitting")'
    BY <1>2, <1>4, <1>7, <1>8, <1>12, <1>13, <1>14
  <1>16. /\ Numbered(pendingFrames, frame["prefiller"])'
         /\ pushed' = frame'["prefiller"] + Len(pendingFrames')
    <2>1. Numbered(pendingFrames', frame'["prefiller"])
      BY <1>1, <1>4, <1>7
    <2>2. pushed' = frame'["prefiller"] + Len(pendingFrames')
      BY <1>1, <1>2, <1>3, <1>4, <1>7, <1>8
    <2> QED BY <2>1, <2>2 DEF Numbered
  <1>17. Ledger'
    BY <1>7, <1>8, <1>12, <1>13, <1>15, <1>16 DEF SessionInv, Ledger, Numbered
  <1> QED BY <1>6, <1>10, <1>11, <1>17 DEF SessionInv

\* The decode worker calls duplex_decode for the frame that is next, which has been
\* submitted.
LEMMA TakeHandedSteps ==
    ASSUME StateInv, SessionInv, TakeHanded
    PROVE  SessionInv' /\ NextDecode
  <1>0. /\ station \in [SessionThreads -> Stations]
        /\ SessionThreads = {"producer", "prefiller", "decoder", "main"}
    BY SessionNumbers DEF SessionInv, SessionTypes
  <1> DEFINE k == Head(decodePending)
  <1>1. /\ station["decoder"] = "handed" /\ decodePending # <<>>
        /\ DecodeCall(k)
        /\ decodePending' = Tail(decodePending)
        /\ M!Goto("decoder", "decoding")
        /\ UNCHANGED <<open, pendingFrames, resultVars, outstanding, pushed>>
    BY DEF TakeHanded, M!Enters
  <1>2. /\ decodePending \in Seq(Frames) /\ Frames \subseteq Int
        /\ frame["prefiller"] \in Int /\ Asked \in Nat /\ Served \in Nat
        /\ Len(decodePending) \in Nat /\ Len(pendingFrames) \in Nat
    BY SessionNumbers DEF SessionInv, SessionTypes
  <1>3. /\ Numbered(decodePending, Asked)
        /\ frame["prefiller"] = Asked + Len(decodePending)
                                  + One(station["prefiller"] = "submitting")
    BY DEF SessionInv, Ledger
  <1>4. /\ k = Asked + 1 /\ Numbered(Tail(decodePending), k) /\ k \in Frames
        /\ Tail(decodePending) \in Seq(Frames)
        /\ Len(Tail(decodePending)) = Len(decodePending) - 1
    BY <1>1, <1>2, <1>3, TailNumbered
  <1>5. Len(decodePending) > 0
    BY <1>1, <1>2
  <1> HIDE DEF k
  <1>6. NextDecode
    <2>1. k = frame["decoder"] + 1 \/ (k = 1 /\ frame["decoder"] = None)
      BY <1>2, <1>4 DEF SessionInv, Ledger
    <2>2. k # 0
      BY <1>2, <1>4
    <2>3. k <= Submitted
      <3>1. CASE at["prefiller"] = "out"
        <4>1. One(station["prefiller"] = "submitting") \in {0, 1}
          BY DEF One
        <4> QED BY <1>2, <1>3, <1>4, <1>5, <3>1, <4>1 DEF Submitted
      <3>2. CASE at["prefiller"] # "out"
        <4>1. One(station["prefiller"] = "submitting") = 1
          BY <3>2 DEF SessionInv, Phases, One
        <4> QED BY <1>2, <1>3, <1>4, <1>5, <3>2, <4>1 DEF Submitted
      <3> QED BY <3>1, <3>2
    <2> QED BY <1>1, <1>4, <2>1, <2>2, <2>3 DEF NextDecode
  <1>7. /\ UNCHANGED <<running, broken>>
        /\ at'["decoder"] = "post" /\ at'["prefiller"] = at["prefiller"]
        /\ frame'["decoder"] = k /\ frame'["prefiller"] = frame["prefiller"]
        /\ at["decoder"] = "out" /\ running
    BY <1>1, Numbers, GotoMoves DEF DecodeCall
  <1>8. UNCHANGED <<pendingFrames, doneResults, delivered, outstanding, open, pushed>>
    BY <1>1 DEF resultVars
  <1>9. /\ station' \in [SessionThreads -> Stations] /\ station'["decoder"] = "decoding"
        /\ \A u \in SessionThreads \ {"decoder"} : station'[u] = station[u]
    BY <1>0, <1>1, SessionGoto DEF Stations
  <1>10. SessionTypes'
    BY <1>1, <1>4, <1>8, <1>9 DEF SessionInv, SessionTypes
  <1>11. Phases'
    BY <1>0, <1>1, <1>7, <1>8, <1>9 DEF SessionInv, Phases
  <1>12. Served' = Served /\ Asked = Served /\ Asked' = k
    <2>1. Served' = Served
      BY <1>8 DEF Served
    <2>2. Asked = Served
      BY <1>1, <1>2 DEF Asked, One
    <2> QED BY <1>4, <1>9, <2>1, <2>2 DEF Asked, One
  <1>13. /\ One(station["prefiller"] = "submitting")' = One(station["prefiller"] = "submitting")
         /\ One(station["decoder"] = "reported")' = One(station["decoder"] = "reported")
         /\ One(station["producer"] = "count")' = One(station["producer"] = "count")
    BY <1>0, <1>1, <1>9 DEF One
  <1>14. frame'["prefiller"] = Asked' + Len(decodePending')
                                 + One(station["prefiller"] = "submitting")'
    <2>1. One(station["prefiller"] = "submitting") \in Int
      BY DEF One
    <2> HIDE DEF Asked
    <2> QED BY <1>1, <1>2, <1>3, <1>4, <1>7, <1>12, <1>13, <2>1
  <1>15. Numbered(decodePending, Asked)'
    <2>1. Numbered(decodePending', Asked')
      BY <1>1, <1>4, <1>12
    <2> QED BY <2>1 DEF Numbered
  <1>16. frame'["decoder"] = Asked'
    BY <1>7, <1>12
  <1>17. Ledger'
    BY <1>7, <1>8, <1>12, <1>13, <1>14, <1>15, <1>16 DEF SessionInv, Ledger, Numbered
  <1> QED BY <1>6, <1>10, <1>11, <1>17 DEF SessionInv

-----------------------------------------------------------------------------
(* The answers. *)

LEMMA ConcatAppend ==
    ASSUME NEW S, NEW s \in Seq(S), NEW t \in Seq(S), NEW e \in S
    PROVE  s \o Append(t, e) = Append(s \o t, e)
  <1>1. /\ Append(t, e) = t \o <<e>> /\ <<e>> \in Seq(S)
        /\ s \o t \in Seq(S) /\ Append(s \o t, e) = (s \o t) \o <<e>>
    BY AppendIsConcat, ConcatProperties
  <1>2. (s \o t) \o <<e>> = s \o (t \o <<e>>)
    BY <1>1, ConcatAssociative
  <1> QED BY <1>1, <1>2

\* Collecting an answer does not change what has been answered.
LEMMA ConcatMove ==
    ASSUME NEW S, NEW s \in Seq(S), NEW t \in Seq(S), t # <<>>
    PROVE  Append(s, Head(t)) \o Tail(t) = s \o t
  <1> DEFINE h == <<Head(t)>>   r == Tail(t)   n == Len(t)
  <1>1. /\ Head(t) \in S /\ h \in Seq(S) /\ r \in Seq(S)
        /\ n \in Nat /\ n > 0 /\ Len(h) = 1 /\ Len(r) = n - 1
        /\ h[1] = t[1] /\ \A i \in 1..(n - 1) : r[i] = t[i + 1]
    OBVIOUS
  <1>2. Append(s, Head(t)) = s \o h
    BY <1>1, AppendIsConcat
  <1> HIDE DEF h, r
  <1>3. h \o r \in Seq(S) /\ Len(h \o r) = Len(h) + Len(r)
        /\ \A i \in 1..(Len(h) + Len(r)) :
             (h \o r)[i] = IF i <= Len(h) THEN h[i] ELSE r[i - Len(h)]
    <2>1. h \in Seq(S) /\ r \in Seq(S)
      BY <1>1
    <2> QED BY ONLY <2>1, ConcatProperties, Zenon
  <1>4. Len(h \o r) = n
    BY <1>1, <1>3
  <1>5. \A i \in 1..n : (h \o r)[i] = t[i]
    <2> TAKE i \in 1..n
    <2>1. (h \o r)[i] = IF i <= 1 THEN h[i] ELSE r[i - 1]
      BY <1>1, <1>3
    <2>2. CASE i = 1
      BY <1>1, <2>1, <2>2
    <2>3. CASE i # 1
      <3>1. i - 1 \in 1..(n - 1) /\ (i - 1) + 1 = i /\ ~(i <= 1)
        BY <1>1, <2>3
      <3> QED BY <1>1, <2>1, <3>1
    <2> QED BY <2>2, <2>3
  <1>6. h \o r = t
    BY <1>3, <1>4, <1>5, SeqEqual
  <1>7. (s \o h) \o r = s \o (h \o r)
    <2>1. s \in Seq(S) /\ h \in Seq(S) /\ r \in Seq(S)
      BY <1>1
    <2> QED BY ONLY <2>1, ConcatAssociative
  <1> QED BY <1>2, <1>6, <1>7 DEF r

\* The decode worker reports the answer of the frame that is next, and the context has
\* seen that frame and its predecessors.
LEMMA ReportSteps ==
    ASSUME StateInv, PairInv, SeenInv, SessionInv, Report
    PROVE  SessionInv' /\ UNCHANGED vars /\ Promised!Serve
  <1>0. /\ station \in [SessionThreads -> Stations]
        /\ SessionThreads = {"producer", "prefiller", "decoder", "main"}
        /\ doneResults \in Seq(Results) /\ delivered \in Seq(Results)
    BY SessionNumbers DEF SessionInv, SessionTypes
  <1> DEFINE n == Served + 1
             answer == [frame |-> frame["decoder"], seen |-> Cardinality(Prefills)]
  <1>1. /\ station["decoder"] = "decoding" /\ at["decoder"] = "out"
        /\ doneResults' = Append(doneResults, answer)
        /\ M!Goto("decoder", "reported")
        /\ UNCHANGED <<vars, open, queues, delivered, outstanding, pushed>>
    BY DEF Report
  <1>2. UNCHANGED <<pendingFrames, decodePending, delivered, outstanding, open, frame, at,
                    running, broken, pushed>>
    BY <1>1 DEF vars, queues
  <1>3. /\ station' \in [SessionThreads -> Stations] /\ station'["decoder"] = "reported"
        /\ \A u \in SessionThreads \ {"decoder"} : station'[u] = station[u]
    BY <1>0, <1>1, SessionGoto DEF Stations
  <1>4. /\ Served \in Nat /\ pushed \in Int /\ outstanding \in Int
        /\ frame["prefiller"] \in Int /\ Len(pendingFrames) \in Nat
        /\ Len(decodePending) \in Nat
    BY SessionNumbers DEF SessionInv
  <1>5. Asked = n /\ frame["decoder"] = n
    <2>1. Asked = n
      BY <1>1 DEF Asked, One
    <2> QED BY <1>4, <2>1 DEF SessionInv, Ledger
  <1>6. Cardinality(Prefills) = n
    <2>1. running /\ ~broken
      BY <1>1 DEF SessionInv, Phases
    <2>2. at["llm"] = "idle" /\ frame["llm"] = n
      BY <1>1, <1>4, <1>5, <2>1 DEF PairInv, DecoderInv, None
    <2> QED BY <2>1, <2>2 DEF SeenInv, Entered
  <1>7. answer = Promised!Answer(n) /\ answer \in Results
    BY <1>4, <1>5, <1>6 DEF Promised!Answer, Results
  <1> HIDE DEF answer
  <1>8. SessionTypes'
    <2>1. doneResults' \in Seq(Results)
      BY <1>0, <1>1, <1>7
    <2> QED BY <1>2, <1>3, <2>1 DEF SessionInv, SessionTypes
  <1>9. Phases'
    BY <1>0, <1>1, <1>2, <1>3 DEF SessionInv, Phases
  <1>10. Served' = n
    <2>1. Len(doneResults') = Len(doneResults) + 1
      BY <1>0, <1>1, <1>7
    <2> QED BY <1>0, <1>2, <2>1 DEF Served
  <1>11. Asked' = Asked
    BY <1>0, <1>3, <1>4, <1>5, <1>10 DEF Asked, One
  <1>12. /\ One(station["prefiller"] = "submitting")' = One(station["prefiller"] = "submitting")
         /\ One(station["decoder"] = "reported") = 0
         /\ One(station["decoder"] = "reported")' = 1
         /\ One(station["producer"] = "count")' = One(station["producer"] = "count")
         /\ One(station["producer"] = "count") \in Int
         /\ One(station["prefiller"] = "submitting") \in Nat
    BY <1>0, <1>1, <1>3 DEF One
  <1>13. outstanding' = pushed' - Served' + One(station["decoder"] = "reported")'
                          - One(station["producer"] = "count")'
    <2>1. outstanding = pushed - Served - One(station["producer"] = "count")
      BY <1>4, <1>12 DEF SessionInv, Ledger
    <2> HIDE DEF Served
    <2> QED BY <1>2, <1>4, <1>10, <1>12, <2>1
  <1>14. Ledger'
    <2>1. frame'["prefiller"] = frame["prefiller"] /\ frame'["decoder"] = frame["decoder"]
      BY <1>2
    <2> QED BY <1>2, <1>11, <1>12, <1>13, <2>1 DEF SessionInv, Ledger, Numbered
  <1>15. Promised!Serve
    <2>1. Len(delivered \o doneResults) = Served
      BY <1>0, ConcatProperties DEF Served
    <2>2. Served < pushed
      <3>1. pushed = n + Len(decodePending) + One(station["prefiller"] = "submitting")
                       + Len(pendingFrames)
        BY <1>5 DEF SessionInv, Ledger
      <3> HIDE DEF Served
      <3> QED BY <1>4, <1>12, <3>1
    <2>3. (delivered \o doneResults)' = Append(delivered \o doneResults, answer)
      <3>1. delivered \o Append(doneResults, answer)
              = Append(delivered \o doneResults, answer)
        BY <1>0, <1>7, ConcatAppend
      <3> QED BY <1>1, <1>2, <3>1
    <2> QED BY <1>2, <1>7, <2>1, <2>2, <2>3 DEF Promised!Serve
  <1> QED BY <1>1, <1>8, <1>9, <1>14, <1>15 DEF SessionInv

LEMMA CollectSteps ==
    ASSUME StateInv, SessionInv, WaitNextFrame
    PROVE  /\ SessionInv' /\ UNCHANGED <<vars, pushed, open>>
           /\ (delivered \o doneResults)' = delivered \o doneResults
  <1>0. /\ doneResults \in Seq(Results) /\ delivered \in Seq(Results)
        /\ doneResults # <<>> /\ delivered' = Append(delivered, Head(doneResults))
        /\ doneResults' = Tail(doneResults)
        /\ UNCHANGED <<vars, open, queues, outstanding, station, pushed>>
    BY DEF SessionInv, SessionTypes, WaitNextFrame
  <1>1. UNCHANGED <<pendingFrames, decodePending, outstanding, open, frame, at, running,
                    broken, pushed, station>>
    BY <1>0 DEF vars, queues
  <1>2. /\ Head(doneResults) \in Results /\ delivered' \in Seq(Results)
        /\ doneResults' \in Seq(Results)
        /\ Len(delivered') = Len(delivered) + 1 /\ Len(doneResults') = Len(doneResults) - 1
    BY <1>0
  <1>3. Served' = Served /\ Asked' = Asked
    BY <1>0, <1>1, <1>2 DEF Served, Asked
  <1>4. SessionTypes' /\ Phases'
    BY <1>1, <1>2 DEF SessionInv, SessionTypes, Phases
  <1>5. Ledger'
    BY <1>1, <1>3 DEF SessionInv, Ledger, Numbered
  <1>6. (delivered \o doneResults)' = delivered \o doneResults
    BY <1>0, ConcatMove
  <1> QED BY <1>0, <1>4, <1>5, <1>6 DEF SessionInv

-----------------------------------------------------------------------------
(* The steps of the pipeline, and all steps. *)

\* What the session relies on while the pipeline works.
LEMMA PipeSteps ==
    ASSUME StateInv, PairInv, ~broken,
           PrefillStep \/ DecodeStep \/ EncoderStep \/ LlmStep \/ Stopped
    PROVE  /\ frame'["prefiller"] = frame["prefiller"]
           /\ frame'["decoder"] = frame["decoder"]
           /\ at'["prefiller"] # "out" => at["prefiller"] # "out"
           /\ at'["decoder"] # "out" => at["decoder"] # "out"
           /\ broken' = broken /\ running' = running
           /\ Next
  <1>0. /\ at \in [Threads -> Places] /\ frame \in [Threads -> Frames \cup {None}]
        /\ Threads = {"prefiller", "decoder", "encoder", "llm", "closer"}
    BY Numbers
  <1>1. ASSUME NEW t \in Threads, Wait(t)
        PROVE  UNCHANGED <<frame, at, broken, running>>
    BY <1>1, WaitTypes DEF Wait, StateInv
  <1>2. CASE Submit \/ Count \/ Post \/ PostRefused \/ DecodeReturn
    BY <1>0, <1>2, GotoMoves
    DEF Next, PrefillStep, DecodeStep, Submit, Count, Post, PostRefused, DecodeReturn, Enters
  <1>3. CASE Take \/ Deliver \/ EncoderExit
    BY <1>0, <1>3, GotoMoves DEF Next, EncoderStep, Take, Deliver, EncoderExit
  <1>4. CASE Drop
    BY <1>4 DEF PairInv, Drop
  <1>5. CASE Accept \/ Check \/ Fetch \/ Prefill \/ Decide \/ Decode \/ Finish \/ LlmExit
    BY <1>0, <1>5, GotoMoves
    DEF Next, LlmStep, Accept, Check, Fetch, Prefill, Decide, Decode, Finish, LlmExit
  <1>6. CASE Pick
    <2>1. (\E place : Goto("llm", place)) /\ UNCHANGED <<frame, broken, running>>
      BY <1>6 DEF Pick
    <2> QED BY <1>0, <1>6, <2>1, GotoMoves DEF Next, LlmStep
  <1>7. CASE Stopped
    BY <1>0, <1>7, GotoMoves DEF Next, Stopped
  <1>8. CASE \E t \in {"prefiller", "decoder", "encoder", "llm"} : Wait(t)
    BY <1>0, <1>1, <1>8 DEF Next, PrefillStep, DecodeStep, EncoderStep, LlmStep
  <1> QED
    BY <1>2, <1>3, <1>4, <1>5, <1>6, <1>7, <1>8
    DEF PrefillStep, DecodeStep, EncoderStep, LlmStep

\* A step that the session takes no part in, or that only puts a thread to sleep.
LEMMA SessionKept ==
    ASSUME SessionInv,
           UNCHANGED <<open, queues, resultVars, outstanding, station, pushed>>,
           frame'["prefiller"] = frame["prefiller"], frame'["decoder"] = frame["decoder"],
           at'["prefiller"] # "out" => at["prefiller"] # "out",
           at'["decoder"] # "out" => at["decoder"] # "out",
           broken' = broken, running' = running \/ station["main"] = "ended"
    PROVE  SessionInv'
  <1>1. UNCHANGED <<open, pendingFrames, decodePending, doneResults, delivered, outstanding,
                    station, pushed>>
    BY DEF queues, resultVars
  <1>2. SessionTypes'
    BY <1>1 DEF SessionInv, SessionTypes
  <1>3. Phases'
    BY <1>1 DEF SessionInv, Phases
  <1>4. Ledger'
    BY <1>1, LedgerKept DEF SessionInv
  <1> QED BY <1>2, <1>3, <1>4 DEF SessionInv

served == <<pushed, delivered \o doneResults, open>>

ServiceInv == StateInv /\ PairInv /\ SeenInv /\ SessionInv

\* Once the count of outstanding frames has fallen to zero and no frame is on its way to
\* be counted, all have been answered.
LEMMA DrainedSteps ==
    ASSUME StateInv, SessionInv, Drained
    PROVE  Promised!End
  <1>1. /\ station["main"] = "drain" /\ outstanding <= 0 /\ open' = FALSE
        /\ UNCHANGED <<doneResults, delivered, pushed>>
    BY DEF Drained, resultVars
  <1>2. open /\ station["producer"] = "exited"
    BY <1>1 DEF SessionInv, Phases
  <1>3. /\ Served \in Nat /\ Asked \in Nat /\ pushed \in Int
        /\ Len(pendingFrames) \in Nat /\ Len(decodePending) \in Nat
        /\ doneResults \in Seq(Results) /\ delivered \in Seq(Results)
    BY SessionNumbers DEF SessionInv, SessionTypes
  <1>4. One(station["producer"] = "count") = 0
    BY <1>2 DEF One
  <1>5. One(station["decoder"] = "reported") \in Nat /\ One(station["decoder"] = "decoding") \in Nat
        /\ One(station["prefiller"] = "submitting") \in Nat
    BY DEF One
  <1>6. /\ outstanding = pushed - Served + One(station["decoder"] = "reported") - 0
        /\ pushed = Served + One(station["decoder"] = "decoding") + Len(decodePending)
                      + One(station["prefiller"] = "submitting") + Len(pendingFrames)
    BY <1>4 DEF SessionInv, Ledger, Asked
  <1>7. Served = pushed
    <2> DEFINE a == One(station["decoder"] = "reported")
               b == One(station["decoder"] = "decoding")
               c == One(station["prefiller"] = "submitting")
               d == Len(decodePending)   e == Len(pendingFrames)
    <2>1. /\ Served \in Nat /\ pushed \in Int /\ a \in Nat /\ b \in Nat /\ c \in Nat
          /\ d \in Nat /\ e \in Nat
      BY <1>3, <1>5
    <2>2. pushed - Served + a <= 0 /\ pushed = Served + b + d + c + e
      BY <1>1, <1>6, <2>1
    <2> HIDE DEF Served, a, b, c, d, e
    <2>3. pushed >= Served /\ pushed - Served <= 0
      BY ONLY <2>1, <2>2
    <2> QED BY <2>1, <2>3
  <1>8. Len(delivered \o doneResults) = Served
    BY <1>3, ConcatProperties DEF Served
  <1> QED BY <1>1, <1>2, <1>7, <1>8 DEF Promised!End

LEMMA SessionStep ==
    ASSUME ServiceInv, [SessionNext]_allVars
    PROVE  SessionInv' /\ [Next]_vars /\ [Promised!Next]_served
  <1> USE DEF ServiceInv
  <1>1. CASE UNCHANGED allVars
    <2>1. UNCHANGED <<vars, open, queues, resultVars, outstanding, station, pushed>>
      BY <1>1 DEF allVars, sessionVars
    <2>2. UNCHANGED <<frame, at, broken, running, open, pushed, delivered, doneResults>>
      BY <2>1 DEF vars, resultVars
    <2> QED BY <2>1, <2>2, SessionKept DEF served
  <1>2. ASSUME NEW t \in SessionThreads, SessionWait(t)
        PROVE  SessionInv' /\ [Next]_vars /\ [Promised!Next]_served
    <2>1. UNCHANGED <<vars, open, queues, resultVars, outstanding, station, pushed>>
      BY <1>2 DEF SessionWait, M!Blocks, M!Sleeps
    <2>2. UNCHANGED <<frame, at, broken, running, open, pushed, delivered, doneResults>>
      BY <2>1 DEF vars, resultVars
    <2> QED BY <2>1, <2>2, SessionKept DEF served
  <1>3. CASE PushFrame
    BY <1>3, PushSteps DEF Promised!Next
  <1>4. CASE CountFrame \/ Settle
    <2>1. UNCHANGED served
      BY <1>4 DEF CountFrame, Settle, served, resultVars
    <2> QED BY <1>4, <2>1, CountSteps
  <1>5. CASE LastFrame \/ PrefillerExit \/ DecoderExit \/ Leave \/ Ended
    <2>1. UNCHANGED served
      BY <1>5 DEF LastFrame, PrefillerExit, DecoderExit, Leave, Ended, served, resultVars
    <2> QED BY <1>5, <2>1, ExitSteps
  <1>6. CASE Drained
    BY <1>6, ExitSteps, DrainedSteps DEF Promised!Next
  <1>7. CASE HandOver
    <2>1. UNCHANGED served
      BY <1>7 DEF HandOver, served, resultVars
    <2> QED BY <1>7, <2>1, HandOverSteps
  <1>8. CASE TakePending
    <2>1. UNCHANGED served
      BY <1>8 DEF TakePending, served, resultVars
    <2> QED BY <1>8, <2>1, TakePendingSteps DEF Next
  <1>9. CASE TakeHanded
    <2>1. UNCHANGED served
      BY <1>9 DEF TakeHanded, served, resultVars
    <2> QED BY <1>9, <2>1, TakeHandedSteps DEF Next
  <1>10. CASE Report
    BY <1>10, ReportSteps DEF Promised!Next
  <1>11. CASE WaitNextFrame
    <2>1. SessionInv' /\ UNCHANGED vars /\ UNCHANGED served
      BY <1>11, CollectSteps DEF served
    <2> QED BY <2>1
  <1>12. CASE PipePrefill \/ PipeDecode \/ PipeEncoder \/ PipeLlm \/ PipeStopped
    <2>1. /\ UNCHANGED <<open, queues, resultVars, outstanding, station, pushed>>
          /\ PrefillStep \/ DecodeStep \/ EncoderStep \/ LlmStep \/ Stopped
      BY <1>12 DEF PipePrefill, PipeDecode, PipeEncoder, PipeLlm, PipeStopped, sessionVars
    <2>2. ~broken /\ UNCHANGED served
      BY <2>1 DEF SessionInv, Phases, served, resultVars
    <2> QED BY <2>1, <2>2, PipeSteps, SessionKept
  <1>13. CASE StopPipe
    <2>1. /\ UNCHANGED <<open, queues, resultVars, outstanding, station, pushed>>
          /\ station["main"] = "ended" /\ Stop(FALSE)
      BY <1>13 DEF StopPipe, sessionVars
    <2>2. UNCHANGED served
      BY <2>1 DEF served, resultVars
    <2>3. Next
      <3>1. FALSE \in BOOLEAN
        OBVIOUS
      <3> QED BY <2>1, <3>1 DEF Next
    <2>4. /\ UNCHANGED frame /\ broken' = broken
          /\ at'["prefiller"] = at["prefiller"] /\ at'["decoder"] = at["decoder"]
      <3>1. broken' = (broken \/ FALSE) /\ UNCHANGED frame /\ Goto("closer", "joining")
        BY <2>1 DEF Stop
      <3>2. broken' = broken
        BY <3>1 DEF StateInv, Flags
      <3> QED BY <3>1, <3>2, Numbers, GotoMoves
    <2> QED BY <2>1, <2>2, <2>3, <2>4, SessionKept
  <1> QED
    BY <1>1, <1>2, <1>3, <1>4, <1>5, <1>6, <1>7, <1>8, <1>9, <1>10, <1>11, <1>12,
       <1>13
    DEF SessionNext, Producer, Prefiller, Decoder, Main, SessionThreads

LEMMA ServiceInit == SessionInit => ServiceInv /\ Promised!Init
  <1> SUFFICES ASSUME SessionInit PROVE ServiceInv /\ Promised!Init
    OBVIOUS
  <1>1. Init
    BY DEF SessionInit
  <1>2. StateInv /\ PairInv
    BY <1>1, StateInit, PairInit
  <1>3. SeenInv
    <2>1. Prefills = {} /\ Cardinality({}) = 0
      BY <1>1, FS_EmptySet DEF Init, Prefills
    <2>2. at["llm"] = "idle" /\ frame["llm"] = 0
      BY <1>1 DEF Init, Threads
    <2> QED BY <2>1, <2>2 DEF SeenInv, Entered
  <1>4. /\ open = TRUE /\ pendingFrames = <<>> /\ decodePending = <<>>
        /\ doneResults = <<>> /\ outstanding = 0 /\ pushed = 0 /\ delivered = <<>>
        /\ station = [producer |-> "push", prefiller |-> "pending",
                      decoder |-> "handed", main |-> "collect"]
    BY DEF SessionInit
  <1>5. /\ running = TRUE /\ broken = FALSE /\ at["prefiller"] = "out" /\ at["decoder"] = "out"
        /\ frame["prefiller"] = 0 /\ frame["decoder"] = None
    BY <1>1 DEF Init, Threads
  <1>6. SessionTypes
    BY <1>4, CapsAssumption DEF SessionTypes, SessionThreads, Stations, Frames
  <1>7. Phases
    BY <1>4, <1>5 DEF Phases
  <1>8. Served = 0 /\ Asked = 0
    BY <1>4 DEF Served, Asked, One
  <1>9. Ledger
    BY <1>4, <1>5, <1>8 DEF Ledger, Numbered, One
  <1>10. Promised!Init
    BY <1>4 DEF Promised!Init
  <1> QED BY <1>2, <1>3, <1>6, <1>7, <1>9, <1>10 DEF ServiceInv, SessionInv

LEMMA ServiceStep == ASSUME ServiceInv, [SessionNext]_allVars PROVE ServiceInv'
  <1>1. SessionInv' /\ [Next]_vars
    BY SessionStep
  <1>2. ~broken'
    BY <1>1 DEF SessionInv, Phases
  <1> QED BY <1>1, <1>2, StateStep, PairStep, SeenStep DEF ServiceInv

\* Through all its queues, threads and condition variables the session does what omni.h
\* promises, for any number of frames and any capacities: one answer to a frame, in the
\* order of the pushes, made when the context has seen that frame and its predecessors
\* alone, and all of them before the session ends.  (omni_duplex_*)
THEOREM SessionImplements == SessionSpec => ImplementsFrameService
  <1>1. SessionInit => ServiceInv /\ Promised!Init
    BY ServiceInit
  <1>2. ServiceInv /\ [SessionNext]_allVars => ServiceInv'
    BY ServiceStep
  <1>3. ServiceInv /\ [SessionNext]_allVars
          => [Promised!Next]_<<pushed, delivered \o doneResults, open>>
    BY SessionStep DEF served
  <1> QED BY <1>1, <1>2, <1>3, PTL DEF SessionSpec, ImplementsFrameService, Promised!Spec

=============================================================================
