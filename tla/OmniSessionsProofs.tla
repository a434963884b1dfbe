------------------------- MODULE OmniSessionsProofs -------------------------
(***************************************************************************)
(* Theorems about OmniSessions, for any set of connections and of close    *)
(* requests, any modes and any number of messages.  The last two say what  *)
(* a close over HTTP leaves behind and that nothing else does.             *)
(***************************************************************************)
EXTENDS OmniSessions, TLAPS

\* Between allocate and activate the session is the handler's own.
StartingHolds ==
    \A h \in Handlers :
        pc[h] \in Starting <=> session = Session(h, "UNINITIALIZED")

\* An active session has a handler that has been through activate and has
\* not returned.
ActiveIsHandled ==
    /\ session.state = "CLOSED" <=> session.id = NoOne
    /\ session.state = "ACTIVE" =>
          pc[session.id] \notin {"start", "done"} \cup Starting

\* Whose session has got a context owns the server's.
Owns(h) == Live(h) /\ pipe.owner = h /\ pipe.mode = Mode[h]

ContextOwned ==
    \A h \in Handlers :
        pc[h] \in {"created", "primed"} \/ session = Session(h, "ACTIVE") => Owns(h)

\* The closer in the critical section holds octx_mutex, and while it is about
\* to stop inference no session but its target can be active.  A session that
\* is to be closed has been announced.
CloserHolds ==
    \A c \in Closers :
        /\ cpc[c] \in {"stopping", "forgetting"} <=> mutex = c
        /\ cpc[c] = "stopping" => session.id = target[c] \/ session.state # "ACTIVE"
        /\ cpc[c] # "idle" => target[c] \in Handlers /\ pc[target[c]] \in Announced

IInv == TypeOK /\ StartingHolds /\ ActiveIsHandled /\ ContextOwned /\ CloserHolds

-----------------------------------------------------------------------------

\* Releasing the decodes of a stopped pipeline keeps them decode states.
LEMMA ReleasedType ==
    ASSUME TypeOK, NEW d \in ReleasedDecodes
    PROVE  d \in [Handlers -> {"none", "finished"} \cup Decoding]
<1> DEFINE hit == {x \in Handlers : Live(x) /\ decode[x] \in {"posted", "serving"}}
<1>1. PICK f \in [hit -> {"finished", "stranded"}] :
        d = [x \in Handlers |-> IF x \in hit THEN f[x] ELSE decode[x]]
  BY DEF ReleasedDecodes
<1> HIDE DEF hit
<1>2. \A x \in Handlers :
        (IF x \in hit THEN f[x] ELSE decode[x]) \in {"none", "finished"} \cup Decoding
  BY DEF TypeOK, Decoding
<1> QED
  BY <1>1, <1>2

LEMMA FreshType ==
    ASSUME NEW h \in Handlers
    PROVE  /\ FreshPipe(h) \in Pipes
           /\ FreshPipe(h).owner = h /\ FreshPipe(h).mode = Mode[h]
           /\ FreshPipe(h).threads = {}
  BY ModeAssumption DEF FreshPipe, Pipes

\* Prefills change neither whose context it is nor its mode, and stop nothing.
LEMMA PrimeEffect ==
    ASSUME NEW h \in Handlers, NEW p \in Pipes
    PROVE  /\ Prime(p, h) \in Pipes
           /\ Prime(p, h).owner = p.owner /\ Prime(p, h).mode = p.mode
           /\ p.threads \subseteq Prime(p, h).threads
  BY DEF Prime, Pipes, Threads

LEMMA PushEffect ==
    ASSUME NEW h \in Handlers, NEW p \in Pipes
    PROVE  /\ Push(p, h) \in Pipes
           /\ Push(p, h).owner = p.owner /\ Push(p, h).mode = p.mode
           /\ Push(p, h).threads = p.threads
  BY DEF Push, Pipes

LEMMA PromptedEffect ==
    ASSUME NEW h \in Handlers, pipe \in Pipes
    PROVE  /\ Prompted(h) \in Pipes
           /\ Prompted(h).owner = pipe.owner /\ Prompted(h).mode = pipe.mode
           /\ pipe.threads \subseteq Prompted(h).threads
  BY PrimeEffect DEF Prompted

LEMMA ForgetEffect ==
    ASSUME TypeOK, NEW h \in Handlers, ForgetSession(h)
    PROVE  /\ session' \in [id : Handlers \cup {NoOne},
                           state : {"UNINITIALIZED", "ACTIVE", "CLOSED"}]
           /\ session.id = h => session' = NoSession
           /\ session.id # h => session' = session
  BY NoOneAssumption DEF ForgetSession, NoSession, TypeOK

LEMMA FailEffect ==
    ASSUME TypeOK, NEW h \in Handlers, FailFast(h)
    PROVE  /\ ForgetSession(h)
           /\ pc' \in [Handlers -> Stages] /\ open' \in [Handlers -> BOOLEAN]
           /\ pc'[h] = "done"
           /\ \A x \in Handlers \ {h} : pc'[x] = pc[x]
  BY DEF FailFast, TypeOK, Stages, Announced

LEMMA StopEffect ==
    ASSUME TypeOK, StopPipe
    PROVE  /\ pipe' \in Pipes
           /\ pipe'.owner = pipe.owner /\ pipe'.mode = pipe.mode
           /\ decode' \in [Handlers -> {"none", "finished"} \cup Decoding]
  BY ReleasedType DEF StopPipe, TypeOK, Pipes

THEOREM InitIInv == Init => IInv
  BY NoOneAssumption
  DEF Init, IInv, TypeOK, StartingHolds, ActiveIsHandled, ContextOwned, CloserHolds,
      NoSession, Session, Pipes, Modes, Threads, Stages, Starting, Announced, CloseStages

-----------------------------------------------------------------------------
(* Type correctness *)

\* The updates of a context that change several fields keep it well formed.
LEMMA PipeUpdates ==
    ASSUME NEW p \in Pipes, NEW t \in SUBSET Threads, NEW u \in SUBSET Handlers
    PROVE  /\ [p EXCEPT !.threads = t, !.need = TRUE, !.textDone = FALSE] \in Pipes
           /\ [p EXCEPT !.textDone = TRUE, !.cache = u] \in Pipes
<1> HIDE DEF Threads, Modes
<1>1. \A q \in Pipes : /\ [q EXCEPT !.threads = t] \in Pipes
                       /\ [q EXCEPT !.need = TRUE] \in Pipes
                       /\ [q EXCEPT !.textDone = FALSE] \in Pipes
                       /\ [q EXCEPT !.textDone = TRUE] \in Pipes
                       /\ [q EXCEPT !.cache = u] \in Pipes
  BY DEF Pipes
<1> HIDE DEF Pipes
<1>2. [p EXCEPT !.threads = t, !.need = TRUE, !.textDone = FALSE] \in Pipes
  <2>1. [p EXCEPT !.threads = t] \in Pipes
    BY <1>1
  <2>2. [p EXCEPT !.threads = t, !.need = TRUE] \in Pipes
    BY <1>1, <2>1
  <2> QED
    BY <1>1, <2>2
<1>3. [p EXCEPT !.textDone = TRUE, !.cache = u] \in Pipes
  <2>1. [p EXCEPT !.textDone = TRUE] \in Pipes
    BY <1>1
  <2> QED
    BY <1>1, <2>1
<1> QED
  BY <1>2, <1>3

LEMMA StepType == TypeOK /\ [Next]_vars => TypeOK'
<1> SUFFICES ASSUME TypeOK, [Next]_vars PROVE TypeOK'
  OBVIOUS
<1> USE ModeAssumption, NoOneAssumption
<1>1. ASSUME NEW h \in Handlers, Allocate(h) PROVE TypeOK'
  BY <1>1
  DEF Allocate, Goto, TypeOK, Stages, Starting, Announced, Decoding, CloseStages, Threads,
      Modes, NoSession, Session, handlerVars, closerVars, contextVars
<1>2. ASSUME NEW h \in Handlers, TurnAway(h) PROVE TypeOK'
  BY <1>2
  DEF TurnAway, Goto, TypeOK, Stages, Starting, Announced, Decoding, CloseStages, Threads,
      Modes, NoSession, Session, handlerVars, closerVars, contextVars
<1>3. ASSUME NEW h \in Handlers, ReuseContext(h) PROVE TypeOK'
  BY <1>3, ReleasedType, FreshType
  DEF ReuseContext, Goto, TypeOK, Stages, Starting, Announced, Decoding, CloseStages,
      Threads, Modes, NoSession, Session, handlerVars, closerVars, contextVars
<1>4. ASSUME NEW h \in Handlers, RebuildContext(h) PROVE TypeOK'
  BY <1>4, ReleasedType, FreshType
  DEF RebuildContext, Goto, TypeOK, Stages, Starting, Announced, Decoding, CloseStages,
      Threads, Modes, NoSession, Session, handlerVars, closerVars, contextVars
<1>5. ASSUME NEW h \in Handlers, RebuildFailed(h) PROVE TypeOK'
  BY <1>5, ReleasedType
  DEF Pipes, RebuildFailed, Goto, FailFast, ForgetSession, TypeOK, Stages, Starting,
      Announced, Decoding, CloseStages, Threads, Modes, NoSession, Session, handlerVars,
      closerVars, contextVars
<1>6. ASSUME NEW h \in Handlers, PrimeAtInit(h) PROVE TypeOK'
  BY <1>6, PrimeEffect, PushEffect
  DEF PrimeAtInit, Goto, TypeOK, Stages, Starting, Announced, Decoding, CloseStages,
      Threads, Modes, NoSession, Session, handlerVars, closerVars, contextVars
<1>7. ASSUME NEW h \in Handlers, SkipPrime(h) PROVE TypeOK'
  BY <1>7
  DEF SkipPrime, Goto, TypeOK, Stages, Starting, Announced, Decoding, CloseStages, Threads,
      Modes, NoSession, Session, handlerVars, closerVars, contextVars
<1>8. ASSUME NEW h \in Handlers, PrimeFailed(h) PROVE TypeOK'
  BY <1>8
  DEF PrimeFailed, Goto, FailFast, ForgetSession, TypeOK, Stages, Starting, Announced,
      Decoding, CloseStages, Threads, Modes, NoSession, Session, handlerVars, closerVars,
      contextVars
<1>9. ASSUME NEW h \in Handlers, Activate(h) PROVE TypeOK'
  <2>1. CASE session = Session(h, "UNINITIALIZED")
    <3>1. session' = Session(h, "ACTIVE") /\ pc' = [pc EXCEPT ![h] = "activated"]
      BY <1>9, <2>1 DEF Activate
    <3> QED
      BY <1>9, <2>1, <3>1 DEF Activate, TypeOK, Session, Stages, contextVars, closerVars
  <2>2. CASE session # Session(h, "UNINITIALIZED")
    <3>1. FailFast(h)
      BY <1>9, <2>2 DEF Activate
    <3> QED
      BY <1>9, <3>1, FailEffect, ForgetEffect DEF Activate, TypeOK, contextVars, closerVars
  <2> QED
    BY <2>1, <2>2
<1>10. ASSUME NEW h \in Handlers, Announce(h) PROVE TypeOK'
  BY <1>10
  DEF Announce, Goto, TypeOK, Stages, Starting, Announced, Decoding, CloseStages, Threads,
      Modes, NoSession, Session, handlerVars, closerVars, contextVars
<1>11. ASSUME NEW h \in Handlers, ReadClosed(h) PROVE TypeOK'
  BY <1>11
  DEF ReadClosed, Goto, TypeOK, Stages, Starting, Announced, Decoding, CloseStages,
      Threads, Modes, NoSession, Session, handlerVars, closerVars, contextVars
<1>12. ASSUME NEW h \in Handlers, Prefill(h) PROVE TypeOK'
  BY <1>12, PromptedEffect, PushEffect
  DEF Prefill, Goto, TypeOK, Stages, Starting, Announced, Decoding, CloseStages, Threads,
      Modes, NoSession, Session, handlerVars, closerVars, contextVars
<1>13. ASSUME NEW h \in Handlers, PrefillFailed(h) PROVE TypeOK'
  BY <1>13, PromptedEffect
  DEF PrefillFailed, Goto, FailFast, ForgetSession, TypeOK, Stages, Starting, Announced,
      Decoding, CloseStages, Threads, Modes, NoSession, Session, handlerVars, closerVars,
      contextVars
<1>14. ASSUME NEW h \in Handlers, ForceListen(h) PROVE TypeOK'
  BY <1>14
  DEF ForceListen, Goto, TypeOK, Stages, Starting, Announced, Decoding, CloseStages,
      Threads, Modes, NoSession, Session, handlerVars, closerVars, contextVars
<1>15. ASSUME NEW h \in Handlers, Launch(h) PROVE TypeOK'
  BY <1>15
  DEF Pipes, Launch, Goto, TypeOK, Stages, Starting, Announced, Decoding, CloseStages,
      Threads, Modes, NoSession, Session, handlerVars, closerVars, contextVars
<1>16. ASSUME NEW h \in Handlers, PollText(h) PROVE TypeOK'
  BY <1>16
  DEF PollText, Goto, TypeOK, Stages, Starting, Announced, Decoding, CloseStages, Threads,
      Modes, NoSession, Session, handlerVars, closerVars, contextVars
<1>17. ASSUME NEW h \in Handlers, PollGone(h) PROVE TypeOK'
  BY <1>17
  DEF PollGone, Goto, TypeOK, Stages, Starting, Announced, Decoding, CloseStages, Threads,
      Modes, NoSession, Session, handlerVars, closerVars, contextVars
<1>18. ASSUME NEW h \in Handlers, Join(h) PROVE TypeOK'
  BY <1>18
  DEF Join, Goto, TypeOK, Stages, Starting, Announced, Decoding, CloseStages, Threads,
      Modes, NoSession, Session, handlerVars, closerVars, contextVars
<1>19. ASSUME NEW h \in Handlers, Cleanup(h) PROVE TypeOK'
  <2>1. pipe' \in Pipes /\ decode' \in [Handlers -> {"none", "finished"} \cup Decoding]
    BY <1>19, StopEffect DEF Cleanup, TypeOK
  <2>2. ForgetSession(h) /\ pc' = [pc EXCEPT ![h] = "done"]
    BY <1>19 DEF Cleanup, Goto
  <2> QED
    BY <1>19, <2>1, <2>2, ForgetEffect DEF Cleanup, TypeOK, Stages, Announced, closerVars
<1>20. ASSUME NEW h \in Handlers, ReadAppend(h) PROVE TypeOK'
  BY <1>20
  DEF ReadAppend, Goto, TypeOK, Stages, Starting, Announced, Decoding, CloseStages,
      Threads, Modes, NoSession, Session, handlerVars, closerVars, contextVars
<1>21. ASSUME NEW h \in Handlers, ReadInvalid(h) PROVE TypeOK'
  BY <1>21
  DEF ReadInvalid, Goto, FailFast, ForgetSession, TypeOK, Stages, Starting, Announced,
      Decoding, CloseStages, Threads, Modes, NoSession, Session, handlerVars, closerVars,
      contextVars
<1>22. ASSUME NEW h \in Handlers, Disconnect(h) PROVE TypeOK'
  BY <1>22
  DEF Disconnect, Goto, TypeOK, Stages, Starting, Announced, Decoding, CloseStages,
      Threads, Modes, NoSession, Session, handlerVars, closerVars, contextVars
<1>23. ASSUME NEW h \in Handlers, Enter(h) PROVE TypeOK'
  <2>1. decode' \in [Handlers -> {"none", "finished"} \cup Decoding]
    <3>1. \E d \in Decoding \cup {"finished"} : decode' = [decode EXCEPT ![h] = d]
      <4>1. CASE ~Live(h)
        <5>1. decode' \in {[decode EXCEPT ![h] = d] : d \in {"waiting", "finished"}}
          BY <1>23, <4>1 DEF Enter
        <5> QED
          BY <5>1 DEF Decoding
      <4>2. CASE Live(h)
        <5>1. \/ decode' = [decode EXCEPT ![h] = "posted"]
              \/ decode' = [decode EXCEPT ![h] = "waiting"]
          BY <1>23, <4>2 DEF Enter
        <5> QED
          BY <5>1 DEF Decoding
      <4> QED
        BY <4>1, <4>2
    <3>2. PICK d \in Decoding \cup {"finished"} : decode' = [decode EXCEPT ![h] = d]
      BY <3>1
    <3> QED
      BY <3>2 DEF TypeOK
  <2>2. \/ pipe' = pipe
        \/ pipe' = [pipe EXCEPT !.threads = @ \cup {"tail"}, !.need = TRUE,
                                !.textDone = FALSE]
    BY <1>23 DEF Enter
  <2>3. pipe' \in Pipes
    <3>1. pipe.threads \cup {"tail"} \in SUBSET Threads
      BY DEF TypeOK, Pipes, Threads
    <3> DEFINE threads == pipe.threads \cup {"tail"}
    <3> HIDE DEF threads
    <3>2. \/ pipe' = pipe
          \/ pipe' = [pipe EXCEPT !.threads = threads, !.need = TRUE, !.textDone = FALSE]
      BY <2>2 DEF threads
    <3>3. threads \in SUBSET Threads /\ pipe \in Pipes
      BY <3>1 DEF threads, TypeOK
    <3> QED
      BY <3>2, <3>3, PipeUpdates
  <2> QED
    BY <1>23, <2>1, <2>3 DEF Enter, TypeOK, closerVars
<1>24. ASSUME NEW h \in Handlers, Proceed(h) PROVE TypeOK'
  BY <1>24
  DEF Proceed, Goto, TypeOK, Stages, Starting, Announced, Decoding, CloseStages, Threads,
      Modes, NoSession, Session, handlerVars, closerVars, contextVars
<1>25. ASSUME NEW h \in Handlers, Serve(h) PROVE TypeOK'
  BY <1>25
  DEF Pipes, Serve, Goto, TypeOK, Stages, Starting, Announced, Decoding, CloseStages,
      Threads, Modes, NoSession, Session, handlerVars, closerVars, contextVars
<1>26. ASSUME NEW h \in Handlers, Generated(h) PROVE TypeOK'
  <2>1. decode' \in [Handlers -> {"none", "finished"} \cup Decoding]
    BY <1>26 DEF Generated, TypeOK
  <2>2. pipe' \in Pipes
    <3>1. pipe.cache \cup {h} \in SUBSET Handlers
      BY DEF TypeOK, Pipes
    <3>2. \/ pipe' = pipe
          \/ pipe' = [pipe EXCEPT !.textDone = TRUE, !.cache = @ \cup {h}]
      BY <1>26 DEF Generated
    <3> DEFINE cache == pipe.cache \cup {h}
    <3> HIDE DEF cache
    <3>3. \/ pipe' = pipe
          \/ pipe' = [pipe EXCEPT !.textDone = TRUE, !.cache = cache]
      BY <3>2 DEF cache
    <3>4. cache \in SUBSET Handlers /\ pipe \in Pipes
      BY <3>1 DEF cache, TypeOK
    <3> QED
      BY <3>3, <3>4, PipeUpdates
  <2> QED
    BY <1>26, <2>1, <2>2 DEF Generated, TypeOK, closerVars
<1>27. CASE LlmPrefill
  BY <1>27 DEF Pipes, LlmPrefill, TypeOK, Stages, Starting, Announced, Decoding,
      CloseStages, Threads, Modes, NoSession, Session, handlerVars, closerVars, contextVars
<1>28. CASE LlmReady
  BY <1>28 DEF Pipes, LlmReady, TypeOK, Stages, Starting, Announced, Decoding, CloseStages,
      Threads, Modes, NoSession, Session, handlerVars, closerVars, contextVars
<1>29. ASSUME NEW c \in Closers, NEW h \in Handlers, RequestClose(c, h) PROVE TypeOK'
  BY <1>29 DEF RequestClose, CloserGoto, TypeOK, Stages, Starting, Announced, Decoding,
      CloseStages, Threads, Modes, NoSession, Session, handlerVars, closerVars, contextVars
<1>30. ASSUME NEW c \in Closers, CheckActive(c) PROVE TypeOK'
  BY <1>30 DEF CheckActive, CloserGoto, TypeOK, Stages, Starting, Announced, Decoding,
      CloseStages, Threads, Modes, NoSession, Session, handlerVars, closerVars, contextVars
<1>31. ASSUME NEW c \in Closers, AskTransport(c) PROVE TypeOK'
  BY <1>31 DEF AskTransport, CloserGoto, TypeOK, Stages, Starting, Announced, Decoding,
      CloseStages, Threads, Modes, NoSession, Session, handlerVars, closerVars, contextVars
<1>32. ASSUME NEW c \in Closers, EnterClose(c) PROVE TypeOK'
  BY <1>32 DEF EnterClose, CloserGoto, TypeOK, Stages, Starting, Announced, Decoding,
      CloseStages, Threads, Modes, NoSession, Session, handlerVars, closerVars, contextVars
<1>33. ASSUME NEW c \in Closers, StopInference(c) PROVE TypeOK'
  BY <1>33, ReleasedType DEF Pipes, StopInference, CloserGoto, StopPipe, TypeOK, Stages,
      Starting, Announced, Decoding, CloseStages, Threads, Modes, NoSession, Session,
      handlerVars, closerVars, contextVars
<1>34. ASSUME NEW c \in Closers, ForgetClosed(c) PROVE TypeOK'
  BY <1>34 DEF ForgetClosed, CloserGoto, ForgetSession, TypeOK, Stages, Starting,
      Announced, Decoding, CloseStages, Threads, Modes, NoSession, Session, handlerVars,
      closerVars, contextVars
<1>35. CASE UNCHANGED vars
  BY <1>35 DEF vars, TypeOK, Stages, Starting, Announced, Decoding, CloseStages, Threads,
      Modes, NoSession, Session, handlerVars, closerVars, contextVars
<1> QED
  BY <1>1, <1>2, <1>3, <1>4, <1>5, <1>6, <1>7, <1>8, <1>9, <1>10, <1>11, <1>12, <1>13,
      <1>14, <1>15, <1>16, <1>17, <1>18, <1>19, <1>20, <1>21, <1>22, <1>23, <1>24, <1>25,
      <1>26, <1>27, <1>28, <1>29, <1>30, <1>31, <1>32, <1>33, <1>34, <1>35
  DEF Next, HandlerStep, ClientStep, DecodeStep, LlmStep, CloserStep, Quiet

-----------------------------------------------------------------------------
(* The inductive invariant *)

Rest == StartingHolds /\ ActiveIsHandled /\ ContextOwned /\ CloserHolds

\* A step that leaves sessions, contexts and closers alone, and at most moves
\* one handler past activate on to another stage short of its end.
LEMMA QuietStep ==
    ASSUME IInv, TypeOK', NEW h \in Handlers,
           UNCHANGED <<session, mutex, shared, octx, closerVars>>,
           pipe'.owner = pipe.owner, pipe'.mode = pipe.mode,
           \A x \in Handlers \ {h} : pc'[x] = pc[x],
           \/ pc'[h] = pc[h]
           \/ /\ pc[h] \notin {"start", "done"} \cup Starting
              /\ pc'[h] \in Announced \ {"done"}
    PROVE  Rest'
  BY NoOneAssumption
  DEF Rest, IInv, TypeOK, StartingHolds, ActiveIsHandled, ContextOwned, Owns, Live,
      CloserHolds, Starting, Announced, Session, closerVars

\* A handler that fails.
LEMMA FailStep ==
    ASSUME IInv, TypeOK', NEW h \in Handlers, FailFast(h), pc[h] # "start",
           UNCHANGED <<mutex, octx, closerVars>>,
           \/ pc[h] = "allocated"
           \/ /\ shared' = shared
              /\ pipe'.owner = pipe.owner /\ pipe'.mode = pipe.mode
    PROVE  Rest'
<1>1. /\ pc'[h] = "done" /\ \A x \in Handlers \ {h} : pc'[x] = pc[x]
      /\ session.id = h => session' = NoSession
      /\ session.id # h => session' = session
  BY FailEffect, ForgetEffect DEF IInv
<1>2. StartingHolds' /\ ActiveIsHandled'
  BY <1>1, NoOneAssumption
  DEF IInv, TypeOK, StartingHolds, ActiveIsHandled, Starting, Session, NoSession
<1>3. ContextOwned'
  BY <1>1, NoOneAssumption
  DEF IInv, TypeOK, StartingHolds, ActiveIsHandled, ContextOwned, Owns, Live, Starting,
      Session, NoSession
<1>4. CloserHolds'
  BY <1>1 DEF IInv, TypeOK, CloserHolds, NoSession, Announced, closerVars
<1> QED
  BY <1>2, <1>3, <1>4 DEF Rest

\* A handler that gets the server's context, reset or made anew.
LEMMA ContextStep ==
    ASSUME IInv, TypeOK', NEW h \in Handlers,
           pc[h] = "allocated", pc' = [pc EXCEPT ![h] = "created"],
           shared' # 0, octx' = [octx EXCEPT ![h] = shared'],
           pipe'.owner = h, pipe'.mode = Mode[h],
           UNCHANGED <<session, mutex, closerVars>>
    PROVE  Rest'
<1>1. session = Session(h, "UNINITIALIZED") /\ session' = session
  BY DEF IInv, StartingHolds, Starting
<1>2. \A x \in Handlers : IF x = h THEN pc'[x] = "created" ELSE pc'[x] = pc[x]
  BY DEF IInv, TypeOK
<1>3. StartingHolds' /\ ActiveIsHandled'
  BY <1>1, <1>2 DEF IInv, StartingHolds, ActiveIsHandled, Starting, Session
<1>4. Owns(h)'
  BY DEF Owns, Live, IInv, TypeOK
<1>5. \A x \in Handlers \ {h} : pc[x] \notin Starting
  BY <1>1 DEF IInv, StartingHolds, Session
<1>6. ContextOwned'
  BY <1>1, <1>2, <1>4, <1>5 DEF ContextOwned, Session, Starting
<1>7. CloserHolds'
  BY <1>2 DEF IInv, CloserHolds, closerVars, Announced
<1> QED
  BY <1>3, <1>6, <1>7 DEF Rest

LEMMA StepRest == IInv /\ [Next]_vars => Rest'
<1> SUFFICES ASSUME IInv, [Next]_vars PROVE Rest'
  OBVIOUS
<1>0. TypeOK /\ TypeOK'
  BY StepType DEF IInv
<1>1. ASSUME NEW h \in Handlers, Allocate(h) PROVE Rest'
  BY <1>0, <1>1, NoOneAssumption
  DEF Allocate, Goto, contextVars, Rest, IInv, TypeOK, StartingHolds, ActiveIsHandled,
      ContextOwned, Owns, Live, CloserHolds, Starting,
      Announced, Session, NoSession, closerVars
<1>2. ASSUME NEW h \in Handlers, TurnAway(h) PROVE Rest'
  BY <1>0, <1>2, NoOneAssumption
  DEF TurnAway, Goto, contextVars, Rest, IInv, TypeOK, StartingHolds, ActiveIsHandled,
      ContextOwned, Owns, Live, CloserHolds, Starting,
      Announced, Session, NoSession, closerVars
<1>3. ASSUME NEW h \in Handlers, ReuseContext(h) PROVE Rest'
  BY <1>0, <1>3, FreshType, ContextStep DEF ReuseContext, Fits, Goto, TypeOK
<1>4. ASSUME NEW h \in Handlers, RebuildContext(h) PROVE Rest'
  <2>1. made + 1 # 0
    BY DEF IInv, TypeOK
  <2>2. /\ pipe'.owner = h /\ pipe'.mode = Mode[h]
        /\ shared' = made + 1 /\ octx' = [octx EXCEPT ![h] = shared']
    BY <1>4, FreshType DEF RebuildContext
  <2> QED
    BY <1>0, <1>4, <2>1, <2>2, ContextStep DEF RebuildContext, Goto
<1>5. ASSUME NEW h \in Handlers, RebuildFailed(h) PROVE Rest'
  BY <1>0, <1>5, FailStep DEF RebuildFailed
<1>6. ASSUME NEW h \in Handlers, PrimeAtInit(h) PROVE Rest'
  <2>1. pipe'.owner = pipe.owner /\ pipe'.mode = pipe.mode
    BY <1>0, <1>6, PrimeEffect, PushEffect DEF PrimeAtInit, TypeOK
  <2> QED
    BY <1>0, <1>6, <2>1
    DEF PrimeAtInit, Goto, Rest, IInv, TypeOK, StartingHolds, ActiveIsHandled,
        ContextOwned, Owns, Live, CloserHolds, Starting,
      Announced, Session, NoSession, closerVars
<1>7. ASSUME NEW h \in Handlers, SkipPrime(h) PROVE Rest'
  BY <1>0, <1>7
  DEF SkipPrime, Goto, contextVars, Rest, IInv, TypeOK, StartingHolds, ActiveIsHandled,
      ContextOwned, Owns, Live, CloserHolds, Starting,
      Announced, Session, NoSession, closerVars
<1>8. ASSUME NEW h \in Handlers, PrimeFailed(h) PROVE Rest'
  BY <1>0, <1>8, FailStep DEF PrimeFailed, contextVars
<1>9. ASSUME NEW h \in Handlers, Activate(h) PROVE Rest'
  <2>1. session = Session(h, "UNINITIALIZED")
    BY <1>9 DEF Activate, IInv, StartingHolds, Starting
  <2>2. session' = Session(h, "ACTIVE") /\ pc' = [pc EXCEPT ![h] = "activated"]
    BY <1>9, <2>1 DEF Activate
  <2> QED
    BY <1>0, <1>9, <2>1, <2>2, NoOneAssumption
    DEF Activate, contextVars, Rest, IInv, TypeOK, StartingHolds, ActiveIsHandled,
        ContextOwned, Owns, Live, CloserHolds, Starting,
      Announced, Session, NoSession, closerVars
<1>10. ASSUME NEW h \in Handlers, Announce(h) PROVE Rest'
  BY <1>0, <1>10, QuietStep DEF Announce, Goto, IInv, TypeOK, Starting, Announced,
      contextVars
<1>11. ASSUME NEW h \in Handlers, ReadClosed(h) PROVE Rest'
  BY <1>0, <1>11, QuietStep DEF ReadClosed, Goto, IInv, TypeOK, Starting, Announced,
      contextVars
<1>12. ASSUME NEW h \in Handlers, ForceListen(h) PROVE Rest'
  BY <1>0, <1>12, QuietStep DEF ForceListen, Goto, IInv, TypeOK, Starting, Announced,
      contextVars
<1>13. ASSUME NEW h \in Handlers, PollText(h) PROVE Rest'
  BY <1>0, <1>13, QuietStep DEF PollText, Goto, IInv, TypeOK, Starting, Announced,
      contextVars
<1>14. ASSUME NEW h \in Handlers, PollGone(h) PROVE Rest'
  BY <1>0, <1>14, QuietStep DEF PollGone, Goto, IInv, TypeOK, Starting, Announced,
      contextVars
<1>15. ASSUME NEW h \in Handlers, Join(h) PROVE Rest'
  BY <1>0, <1>15, QuietStep DEF Join, Goto, IInv, TypeOK, Starting, Announced, contextVars
<1>16. ASSUME NEW h \in Handlers, ReadAppend(h) PROVE Rest'
  BY <1>0, <1>16, QuietStep DEF ReadAppend, Goto, IInv, TypeOK, Starting, Announced,
      contextVars
<1>17. ASSUME NEW h \in Handlers, Disconnect(h) PROVE Rest'
  BY <1>0, <1>17, QuietStep DEF Disconnect, Goto, IInv, TypeOK, Starting, Announced,
      contextVars
<1>18. ASSUME NEW h \in Handlers, Prefill(h) PROVE Rest'
  <2>1. pipe'.owner = pipe.owner /\ pipe'.mode = pipe.mode
    BY <1>0, <1>18, PromptedEffect, PushEffect DEF Prefill, TypeOK
  <2> QED
    BY <1>0, <1>18, <2>1, QuietStep DEF Prefill, Goto, TypeOK, Starting, Announced
<1>19. ASSUME NEW h \in Handlers, PrefillFailed(h) PROVE Rest'
  <2>1. pipe'.owner = pipe.owner /\ pipe'.mode = pipe.mode
    BY <1>0, <1>19, PromptedEffect DEF PrefillFailed, TypeOK
  <2> QED
    BY <1>0, <1>19, <2>1, FailStep DEF PrefillFailed
<1>20. ASSUME NEW h \in Handlers, Launch(h) PROVE Rest'
  <2>1. pipe'.owner = pipe.owner /\ pipe'.mode = pipe.mode
    BY <1>0, <1>20 DEF Launch, TypeOK, Pipes
  <2> QED
    BY <1>0, <1>20, <2>1, QuietStep DEF Launch, Goto, TypeOK, Starting, Announced
<1>21. ASSUME NEW h \in Handlers, ReadInvalid(h) PROVE Rest'
  BY <1>0, <1>21, FailStep DEF ReadInvalid, contextVars
<1>22. ASSUME NEW h \in Handlers, Cleanup(h) PROVE Rest'
  <2>1. pipe'.owner = pipe.owner /\ pipe'.mode = pipe.mode
    BY <1>0, <1>22, StopEffect DEF Cleanup
  <2>2. FailFast(h)
    BY <1>22 DEF Cleanup, Goto, FailFast
  <2> QED
    BY <1>0, <1>22, <2>1, <2>2, FailStep DEF Cleanup, Goto
<1>23. ASSUME NEW h \in Handlers, Enter(h) PROVE Rest'
  <2>1. pipe'.owner = pipe.owner /\ pipe'.mode = pipe.mode
    <3>1. \/ pipe' = pipe
          \/ pipe' = [pipe EXCEPT !.threads = @ \cup {"tail"}, !.need = TRUE,
                                  !.textDone = FALSE]
      BY <1>23 DEF Enter
    <3>2. pipe \in Pipes
      BY <1>0 DEF TypeOK
    <3> QED
      BY <3>1, <3>2 DEF Pipes
  <2> QED
    BY <1>0, <1>23, <2>1, QuietStep DEF Enter
<1>24. ASSUME NEW h \in Handlers, Serve(h) PROVE Rest'
  <2>1. pipe'.owner = pipe.owner /\ pipe'.mode = pipe.mode
    BY <1>0, <1>24 DEF Serve, TypeOK, Pipes
  <2> QED
    BY <1>0, <1>24, <2>1, QuietStep DEF Serve
<1>25. ASSUME NEW h \in Handlers, Generated(h) PROVE Rest'
  <2>1. pipe'.owner = pipe.owner /\ pipe'.mode = pipe.mode
    BY <1>0, <1>25 DEF Generated, TypeOK, Pipes
  <2> QED
    BY <1>0, <1>25, <2>1, QuietStep DEF Generated
<1>26. ASSUME NEW h \in Handlers, Proceed(h) PROVE Rest'
  BY <1>0, <1>26, QuietStep DEF Proceed
<1>27. CASE LlmPrefill
  <2>1. pipe'.owner = pipe.owner /\ pipe'.mode = pipe.mode
    BY <1>0, <1>27 DEF LlmPrefill, TypeOK, Pipes
  <2> QED
    BY <1>0, <1>27, <2>1
    DEF LlmPrefill, handlerVars, Rest, IInv, TypeOK, StartingHolds, ActiveIsHandled,
        ContextOwned, Owns, Live, CloserHolds, Starting,
      Announced, Session, NoSession, closerVars
<1>28. CASE LlmReady
  <2>1. pipe'.owner = pipe.owner /\ pipe'.mode = pipe.mode
    BY <1>0, <1>28 DEF LlmReady, TypeOK, Pipes
  <2> QED
    BY <1>0, <1>28, <2>1
    DEF LlmReady, handlerVars, Rest, IInv, TypeOK, StartingHolds, ActiveIsHandled,
        ContextOwned, Owns, Live, CloserHolds, Starting,
      Announced, Session, NoSession, closerVars
<1>29. ASSUME NEW c \in Closers, NEW h \in Handlers, RequestClose(c, h) PROVE Rest'
  BY <1>0, <1>29, NoOneAssumption
  DEF RequestClose, CloserGoto, contextVars, handlerVars, Rest, IInv, TypeOK,
      StartingHolds, ActiveIsHandled, ContextOwned, Owns, Live, CloserHolds, Starting,
      Announced, Session, NoSession, closerVars
<1>30. ASSUME NEW c \in Closers, CheckActive(c) PROVE Rest'
  BY <1>0, <1>30, NoOneAssumption
  DEF CheckActive, CloserGoto, contextVars, handlerVars, Rest, IInv, TypeOK, StartingHolds,
      ActiveIsHandled, ContextOwned, Owns, Live, CloserHolds, Starting,
      Announced, Session, NoSession, closerVars
<1>31. ASSUME NEW c \in Closers, AskTransport(c) PROVE Rest'
  BY <1>0, <1>31, NoOneAssumption
  DEF AskTransport, CloserGoto, contextVars, handlerVars, Rest, IInv, TypeOK,
      StartingHolds, ActiveIsHandled, ContextOwned, Owns, Live, CloserHolds, Starting,
      Announced, Session, NoSession, closerVars
<1>32. ASSUME NEW c \in Closers, EnterClose(c) PROVE Rest'
  BY <1>0, <1>32, NoOneAssumption
  DEF EnterClose, CloserGoto, contextVars, handlerVars, Rest, IInv, TypeOK, StartingHolds,
      ActiveIsHandled, ContextOwned, Owns, Live, CloserHolds, Starting,
      Announced, Session, NoSession, closerVars
<1>33. ASSUME NEW c \in Closers, StopInference(c) PROVE Rest'
  <2>1. pipe'.owner = pipe.owner /\ pipe'.mode = pipe.mode
    BY <1>0, <1>33, StopEffect DEF StopInference
  <2> QED
    BY <1>0, <1>33, <2>1, NoOneAssumption
    DEF StopInference, CloserGoto, Rest, IInv, TypeOK, StartingHolds, ActiveIsHandled,
        ContextOwned, Owns, Live, CloserHolds, Starting,
      Announced, Session, NoSession, closerVars
<1>34. ASSUME NEW c \in Closers, ForgetClosed(c) PROVE Rest'
  BY <1>0, <1>34, NoOneAssumption
  DEF ForgetClosed, ForgetSession, CloserGoto, contextVars, handlerVars, Rest, IInv,
      TypeOK, StartingHolds, ActiveIsHandled, ContextOwned, Owns, Live, CloserHolds,
      Starting,
      Announced, Session, NoSession, closerVars
<1>35. CASE UNCHANGED vars
  BY <1>0, <1>35
  DEF vars, contextVars, handlerVars, Rest, IInv, TypeOK, StartingHolds, ActiveIsHandled,
      ContextOwned, Owns, Live, CloserHolds, Starting,
      Announced, Session, NoSession, closerVars
<1> QED
  BY <1>1, <1>2, <1>3, <1>4, <1>5, <1>6, <1>7, <1>8, <1>9, <1>10, <1>11, <1>12, <1>13,
      <1>14, <1>15, <1>16, <1>17, <1>18, <1>19, <1>20, <1>21, <1>22, <1>23, <1>24, <1>25,
      <1>26, <1>27, <1>28, <1>29, <1>30, <1>31, <1>32, <1>33, <1>34, <1>35
  DEF Next, HandlerStep, ClientStep, DecodeStep, LlmStep, CloserStep, Quiet

THEOREM Inductive == Spec => []IInv
<1>1. IInv /\ [Next]_vars => IInv'
  BY StepType, StepRest DEF IInv, Rest
<1> QED
  BY <1>1, InitIInv, PTL DEF Spec

-----------------------------------------------------------------------------
(* Theorems *)

\* Every variable keeps its type.
THEOREM SessionTypes == Spec => []TypeOK
  BY Inductive, PTL DEF IInv

\* The active session has the server's context, set up for it: no older
\* handler and no close resets or frees it (create_session_octx).
THEOREM SessionsOwnContext == Spec => []ServedFromOwnContext
<1>1. IInv => ServedFromOwnContext
  BY NoOneAssumption
  DEF IInv, TypeOK, ActiveIsHandled, ContextOwned, Owns, Session, ServedFromOwnContext
<1> QED
  BY <1>1, Inductive, PTL

\* By whichever exit a handler returns, its session is forgotten
\* (handle_ws_backend).
THEOREM HandlersForget == Spec => []NoSessionLeak
<1>1. IInv => NoSessionLeak
  BY NoOneAssumption
  DEF IInv, TypeOK, StartingHolds, ActiveIsHandled, Session, Starting, NoSessionLeak
<1> QED
  BY <1>1, Inductive, PTL

\* The inference threads of an active session are stopped only by its own
\* handler or by a request that closes it (omni_prepare_for_reuse).
THEOREM NobodyStopsAnother == Spec => StopsOnlyItsOwn
<1> DEFINE Own(h) ==
      \/ pc[h] = "cleanup" /\ pc'[h] = "done"
      \/ \E c \in Closers : target[c] = h /\ cpc[c] = "stopping" /\ cpc'[c] # "stopping"
<1>1. ASSUME IInv, [Next]_vars, NEW h \in Handlers, session = Session(h, "ACTIVE"),
             pipe.threads # {}, pipe'.threads = {}
      PROVE  Own(h)
  <2> USE <1>1
  <2>1. TypeOK /\ pc[h] \notin Starting /\ session.id = h /\ h # NoOne
    BY NoOneAssumption DEF IInv, ActiveIsHandled, Session
  <2>2. \A x \in Handlers : pc[x] \notin Starting
    BY DEF IInv, StartingHolds, Session
  <2>3. ASSUME NEW x \in Handlers, HandlerStep(x) PROVE Own(h)
    <3>1. CASE Cleanup(x)
      <4>1. session.id = x
        BY <3>1 DEF Cleanup
      <4> QED
        BY <2>1, <3>1, <4>1 DEF Cleanup, Goto, TypeOK
    <3>2. CASE Prefill(x)
      BY <2>1, <3>2, PromptedEffect, PushEffect DEF Prefill, TypeOK
    <3>3. CASE PrefillFailed(x)
      BY <2>1, <3>3, PromptedEffect DEF PrefillFailed, TypeOK
    <3>4. CASE Launch(x)
      BY <2>1, <3>4 DEF Launch, TypeOK, Pipes
    <3> QED
      BY <2>2, <2>3, <3>1, <3>2, <3>3, <3>4
      DEF HandlerStep, Allocate, TurnAway, ReuseContext, RebuildContext, RebuildFailed,
          PrimeAtInit, SkipPrime, PrimeFailed, Activate, Announce, ReadClosed, ForceListen,
          PollText, PollGone, Join, Goto, Starting, contextVars
  <2>4. ASSUME NEW x \in Handlers, ClientStep(x) PROVE Own(h)
    BY <2>4 DEF ClientStep, ReadAppend, ReadInvalid, Disconnect, contextVars
  <2>5. ASSUME NEW x \in Handlers, DecodeStep(x) PROVE Own(h)
    <3>1. CASE Enter(x)
      <4>1. \/ pipe' = pipe
            \/ pipe' = [pipe EXCEPT !.threads = @ \cup {"tail"}, !.need = TRUE,
                                    !.textDone = FALSE]
        BY <3>1 DEF Enter
      <4>2. pipe'.threads = pipe.threads \/ pipe'.threads = pipe.threads \cup {"tail"}
        BY <2>1, <4>1 DEF TypeOK, Pipes
      <4> QED
        BY <4>2
    <3>2. CASE Proceed(x)
      BY <3>2 DEF Proceed
    <3>3. CASE Serve(x)
      BY <2>1, <3>3 DEF Serve, TypeOK, Pipes
    <3>4. CASE Generated(x)
      <4>1. \/ pipe' = pipe
            \/ pipe' = [pipe EXCEPT !.textDone = TRUE, !.cache = @ \cup {x}]
        BY <3>4 DEF Generated
      <4> QED
        BY <2>1, <4>1 DEF TypeOK, Pipes
    <3> QED
      BY <2>5, <3>1, <3>2, <3>3, <3>4 DEF DecodeStep
  <2>6. CASE LlmStep
    BY <2>1, <2>6 DEF LlmStep, LlmPrefill, LlmReady, TypeOK, Pipes
  <2>7. ASSUME NEW c \in Closers, CloserStep(c) PROVE Own(h)
    <3>1. CASE StopInference(c)
      <4>1. cpc[c] = "stopping" /\ cpc'[c] # "stopping"
        BY <2>1, <3>1 DEF StopInference, CloserGoto, TypeOK
      <4>2. target[c] = h
        BY <2>1, <4>1 DEF IInv, CloserHolds, Session
      <4> QED
        BY <4>1, <4>2
    <3> QED
      BY <2>7, <3>1
      DEF CloserStep, CheckActive, AskTransport, EnterClose, ForgetClosed, contextVars
  <2>8. ASSUME NEW c \in Closers, NEW x \in Handlers, RequestClose(c, x) PROVE Own(h)
    BY <2>8 DEF RequestClose, contextVars
  <2>9. CASE UNCHANGED vars
    BY <2>9 DEF vars, contextVars
  <2> QED
    BY <2>3, <2>4, <2>5, <2>6, <2>7, <2>8, <2>9 DEF Next, Quiet
<1>2. IInv /\ [Next]_vars =>
        [\A h \in Handlers :
            /\ session = Session(h, "ACTIVE")
            /\ pipe.threads # {} /\ pipe'.threads = {}
            => \/ pc[h] = "cleanup" /\ pc'[h] = "done"
               \/ \E c \in Closers : /\ target[c] = h
                                      /\ cpc[c] = "stopping" /\ cpc'[c] # "stopping"]_vars
  BY <1>1
<1> QED
  BY <1>2, Inductive, PTL DEF Spec, StopsOnlyItsOwn

-----------------------------------------------------------------------------
(* The manager's session is the handler's from activate to its end, unless an *)
(* HTTP close forgets it first.  So every decode that runs is the active      *)
(* session's or that of a session closed over HTTP, and whatever reaches the  *)
(* context is of one of the two.                                              *)

\* A handler that has been through activate has the session until it is done.
ActiveUntilDone ==
    \A h \in Handlers :
        pc[h] \in {"activated"} \cup (Announced \ {"done"})
            => session = Session(h, "ACTIVE") \/ h \in ClosedOverHttp

\* A handler joins its decode before it does anything else.
DecodeIsJoined ==
    \A h \in Handlers : decode[h] # "none" => pc[h] \in {"polling", "joining", "leaving"}

ServedInv == ActiveUntilDone /\ DecodeIsJoined /\ OwnUnitsOnly

\* A request that has closed a session stays as it is.
LEMMA ClosedStaysClosed ==
    ASSUME TypeOK, [Next]_vars
    PROVE  ClosedOverHttp \subseteq ClosedOverHttp'
<1> SUFFICES ASSUME NEW x \in Closers, cpc[x] = "closed"
             PROVE  cpc'[x] = "closed" /\ target'[x] = target[x]
  BY DEF ClosedOverHttp
<1>1. ASSUME UNCHANGED closerVars PROVE cpc'[x] = "closed" /\ target'[x] = target[x]
  BY <1>1 DEF closerVars
<1>2. ASSUME NEW c \in Closers, CloserStep(c)
      PROVE  cpc'[x] = "closed" /\ target'[x] = target[x]
  BY <1>2 DEF CloserStep, CheckActive, AskTransport, EnterClose, StopInference,
              ForgetClosed, CloserGoto, TypeOK
<1>3. ASSUME NEW c \in Closers, NEW h \in Handlers, RequestClose(c, h)
      PROVE  cpc'[x] = "closed" /\ target'[x] = target[x]
  BY <1>3 DEF RequestClose, CloserGoto, TypeOK
<1>4. ASSUME NEW h \in Handlers, HandlerStep(h) PROVE UNCHANGED closerVars
  BY <1>4 DEF HandlerStep, Allocate, TurnAway, ReuseContext, RebuildContext, RebuildFailed,
              PrimeAtInit, SkipPrime, PrimeFailed, Activate, Announce, ReadClosed, Prefill,
              PrefillFailed, ForceListen, Launch, PollText, PollGone, Join, Cleanup
<1>5. ASSUME NEW h \in Handlers, ClientStep(h) \/ DecodeStep(h) PROVE UNCHANGED closerVars
  BY <1>5 DEF ClientStep, ReadAppend, ReadInvalid, Disconnect, DecodeStep, Enter, Proceed,
              Serve, Generated
<1>6. ASSUME LlmStep PROVE UNCHANGED closerVars
  BY <1>6 DEF LlmStep, LlmPrefill, LlmReady
<1>7. ASSUME UNCHANGED vars PROVE UNCHANGED closerVars
  BY <1>7 DEF vars
<1> QED
  BY <1>1, <1>2, <1>3, <1>4, <1>5, <1>6, <1>7 DEF Next, Quiet

\* Stopping the pipeline starts no decode.
LEMMA ReleasedStartsNone ==
    ASSUME TypeOK, NEW d \in ReleasedDecodes
    PROVE  \A x \in Handlers : d[x] # "none" => decode[x] # "none"
<1> DEFINE hit == {x \in Handlers : Live(x) /\ decode[x] \in {"posted", "serving"}}
<1>1. PICK f \in [hit -> {"finished", "stranded"}] :
        d = [x \in Handlers |-> IF x \in hit THEN f[x] ELSE decode[x]]
  BY DEF ReleasedDecodes
<1>2. \A x \in Handlers : x \in hit => decode[x] # "none"
  OBVIOUS
<1> HIDE DEF hit
<1> QED
  BY <1>1, <1>2

\* A handler prefills units of its own and no other.
LEMMA OwnPrefills ==
    ASSUME NEW S, NEW h \in S, NEW p \in Pipes, p.queue \cup p.cache \subseteq S
    PROVE  /\ Prime(p, h).queue \cup Prime(p, h).cache \subseteq S
           /\ Push(p, h).queue \cup Push(p, h).cache \subseteq S
  BY DEF Prime, Push, Pipes

LEMMA ServedInit == Init => ServedInv
  BY DEF Init, ServedInv, ActiveUntilDone, DecodeIsJoined, OwnUnitsOnly, Announced

\* A step of a handler that moves it by Goto among the stages of one session
\* and leaves the session, decodes and contexts alone.
LEMMA ServedMoves ==
    ASSUME IInv, ServedInv, NEW h \in Handlers, NEW from, NEW to,
           Goto(h, from, to), UNCHANGED <<session, decode, pipe>>,
           \/ to \in {"done", "allocated", "created", "primed"}
           \/ from \in {"activated"} \cup (Announced \ {"done"}),
           from \in {"polling", "joining"} =>
              to \in {"polling", "joining"} \/ decode[h] = "none",
           from # "leaving", ClosedOverHttp \subseteq ClosedOverHttp'
    PROVE  ServedInv'
  BY DEF IInv, TypeOK, ServedInv, ActiveUntilDone, DecodeIsJoined, OwnUnitsOnly, Goto,
         Announced, Starting

\* A handler fails before it has a decode, or after it has joined the last one.
LEMMA ServedFails ==
    ASSUME IInv, ServedInv, NEW h \in Handlers, FailFast(h),
           \A x \in Handlers : decode'[x] # "none" => decode[x] # "none",
           pc[h] \in Starting \cup {"reading", "appending"},
           OwnUnitsOnly', ClosedOverHttp \subseteq ClosedOverHttp'
    PROVE  ServedInv'
<1>1. /\ pc'[h] = "done" /\ \A x \in Handlers \ {h} : pc'[x] = pc[x]
      /\ session.id # h => session' = session
  BY FailEffect, ForgetEffect DEF IInv
<1>2. ActiveUntilDone'
  <2>1. \A x \in Handlers \ {h} : session = Session(x, "ACTIVE") => session' = session
    BY <1>1 DEF Session
  <2> QED
    BY <1>1, <2>1 DEF ServedInv, ActiveUntilDone, Announced
<1>3. DecodeIsJoined'
  BY <1>1 DEF ServedInv, DecodeIsJoined, Starting
<1> QED
  BY <1>2, <1>3 DEF ServedInv

LEMMA ServedStep == ASSUME IInv, ServedInv, [Next]_vars PROVE ServedInv'
<1>0. TypeOK
  BY DEF IInv
<1> DEFINE Mine == {pipe.owner} \cup ClosedOverHttp
<1>1. \A h \in Handlers :
        pc[h] \in {"activated"} \cup (Announced \ {"done"}) \/ decode[h] # "none"
            => h \in Mine
  BY DEF ServedInv, ActiveUntilDone, DecodeIsJoined, IInv, ContextOwned, Owns, Announced
<1>2. \A h \in Handlers : pc[h] = "created" => Owns(h)
  BY DEF IInv, ContextOwned
<1>3. OwnUnitsOnly /\ pipe \in Pipes
  BY DEF ServedInv, IInv, TypeOK
<1>c. ClosedOverHttp \subseteq ClosedOverHttp'
  BY <1>0, ClosedStaysClosed
<1>4. ASSUME NEW h \in Handlers, Allocate(h) PROVE ServedInv'
  BY <1>c, <1>4, NoOneAssumption
  DEF Allocate, Goto, IInv, TypeOK, ServedInv, ActiveUntilDone, DecodeIsJoined, OwnUnitsOnly,
      contextVars, Announced, NoSession, Session
<1>5. ASSUME NEW h \in Handlers, TurnAway(h) PROVE ServedInv'
  BY <1>c, <1>5, ServedMoves DEF TurnAway, contextVars
<1>6. ASSUME NEW h \in Handlers, ReuseContext(h) \/ RebuildContext(h) PROVE ServedInv'
  <2>1. /\ Goto(h, "allocated", "created") /\ session' = session
        /\ pipe' = FreshPipe(h) /\ decode' \in ReleasedDecodes
    BY <1>6 DEF ReuseContext, RebuildContext
  <2>2. OwnUnitsOnly'
    BY <2>1 DEF OwnUnitsOnly, FreshPipe
  <2>3. DecodeIsJoined'
    BY <1>0, <1>c, <2>1, ReleasedStartsNone DEF ServedInv, DecodeIsJoined, Goto, TypeOK
  <2>4. ActiveUntilDone'
    BY <1>0, <1>c, <2>1 DEF ServedInv, ActiveUntilDone, Goto, TypeOK, Announced
  <2> QED
    BY <2>2, <2>3, <2>4 DEF ServedInv
<1>7. ASSUME NEW h \in Handlers, RebuildFailed(h) PROVE ServedInv'
  <2>1. /\ FailFast(h) /\ pc[h] = "allocated" /\ decode' \in ReleasedDecodes
        /\ pipe' = [pipe EXCEPT !.threads = {}, !.queue = {}]
    BY <1>7 DEF RebuildFailed
  <2>2. OwnUnitsOnly'
    BY <1>3, <1>c, <2>1 DEF OwnUnitsOnly, Pipes
  <2> QED
    BY <1>0, <1>c, <2>1, <2>2, ServedFails, ReleasedStartsNone DEF Starting
<1>8. ASSUME NEW h \in Handlers, PrimeAtInit(h) PROVE ServedInv'
  <2>1. /\ Goto(h, "created", "primed") /\ session' = session /\ decode' = decode
        /\ pipe' = IF pipe.primed THEN Push(pipe, h) ELSE Prime(pipe, h)
        /\ pipe.owner = h
    BY <1>2, <1>8 DEF PrimeAtInit, Goto, Owns
  <2>2. OwnUnitsOnly'
    <3>1. pipe'.owner = h
      BY <1>3, <1>c, <2>1, PrimeEffect, PushEffect
    <3>2. h \in Mine /\ pipe.queue \cup pipe.cache \subseteq Mine
      BY <1>3, <1>c, <2>1 DEF OwnUnitsOnly
    <3>3. pipe'.queue \cup pipe'.cache \subseteq Mine
      BY <1>3, <1>c, <2>1, <3>2, OwnPrefills
    <3> QED
      BY <1>c, <2>1, <3>1, <3>3 DEF OwnUnitsOnly
  <2> QED
    BY <1>0, <1>c, <2>1, <2>2 DEF ServedInv, ActiveUntilDone, DecodeIsJoined, Goto, TypeOK, Announced
<1>9. ASSUME NEW h \in Handlers, SkipPrime(h) PROVE ServedInv'
  BY <1>c, <1>9, ServedMoves DEF SkipPrime, contextVars
<1>10. ASSUME NEW h \in Handlers, PrimeFailed(h) PROVE ServedInv'
  <2>1. OwnUnitsOnly'
    BY <1>3, <1>c, <1>10 DEF PrimeFailed, OwnUnitsOnly, contextVars
  <2> QED
    BY <1>c, <1>10, <2>1, ServedFails DEF PrimeFailed, Starting
<1>11. ASSUME NEW h \in Handlers, Activate(h) PROVE ServedInv'
  <2>1. session = Session(h, "UNINITIALIZED")
    BY <1>11 DEF Activate, IInv, StartingHolds, Starting
  <2>2. /\ session' = Session(h, "ACTIVE") /\ pc' = [pc EXCEPT ![h] = "activated"]
        /\ pc[h] = "primed" /\ decode' = decode /\ pipe' = pipe
    BY <1>11, <2>1 DEF Activate, contextVars
  <2>3. \A x \in Handlers : pc[x] \in {"activated"} \cup (Announced \ {"done"})
                                => x \in ClosedOverHttp
    BY <2>1 DEF ServedInv, ActiveUntilDone, Session
  <2> QED
    BY <1>0, <1>c, <2>2, <2>3 DEF ServedInv, ActiveUntilDone, DecodeIsJoined, OwnUnitsOnly, TypeOK
<1>12. ASSUME NEW h \in Handlers,
              Announce(h) \/ ReadClosed(h) \/ ForceListen(h) \/ PollText(h) \/ ReadAppend(h)
       PROVE  ServedInv'
  BY <1>c, <1>12, ServedMoves
  DEF Announce, ReadClosed, ForceListen, PollText, ReadAppend, Announced, contextVars
<1>13. ASSUME NEW h \in Handlers, Prefill(h) PROVE ServedInv'
  <2>1. /\ Goto(h, "appending", "launching") /\ session' = session /\ decode' = decode
        /\ pipe' = IF Live(h) THEN Push(Prompted(h), h) ELSE pipe
        /\ h \in Mine
    BY <1>1, <1>13 DEF Prefill, Goto, Announced
  <2>2. OwnUnitsOnly'
    <3>1. Prompted(h) \in Pipes /\ Prompted(h).owner = pipe.owner
      BY <1>3, PromptedEffect
    <3>2. Prompted(h).queue \cup Prompted(h).cache \subseteq Mine
      BY <1>3, <1>c, <2>1, OwnPrefills DEF Prompted, OwnUnitsOnly
    <3>3. Push(Prompted(h), h).queue \cup Push(Prompted(h), h).cache \subseteq Mine
      BY <2>1, <3>1, <3>2, OwnPrefills
    <3>4. Push(Prompted(h), h).owner = pipe.owner
      BY <3>1, PushEffect
    <3> QED
      BY <1>3, <1>c, <2>1, <3>3, <3>4 DEF OwnUnitsOnly
  <2> QED
    BY <1>0, <1>c, <2>1, <2>2 DEF ServedInv, ActiveUntilDone, DecodeIsJoined, Goto, TypeOK, Announced
<1>14. ASSUME NEW h \in Handlers, PrefillFailed(h) PROVE ServedInv'
  <2>1. /\ pc[h] = "appending" /\ FailFast(h) /\ decode' = decode
        /\ pipe' = IF Live(h) THEN Prompted(h) ELSE pipe
        /\ h \in Mine
    BY <1>1, <1>14 DEF PrefillFailed, Announced, contextVars
  <2>2. OwnUnitsOnly'
    <3>1. Prompted(h).owner = pipe.owner
      BY <1>3, PromptedEffect
    <3>2. Prompted(h).queue \cup Prompted(h).cache \subseteq Mine
      BY <1>3, <1>c, <2>1, OwnPrefills DEF Prompted, OwnUnitsOnly
    <3> QED
      BY <1>3, <1>c, <2>1, <3>1, <3>2 DEF OwnUnitsOnly
  <2> QED
    BY <1>c, <2>1, <2>2, ServedFails
<1>15. ASSUME NEW h \in Handlers, Launch(h) PROVE ServedInv'
  <2>1. /\ Goto(h, "launching", "polling") /\ session' = session
        /\ decode' = [decode EXCEPT ![h] = "starting"]
        /\ pipe' = IF Live(h) THEN [pipe EXCEPT !.textDone = FALSE] ELSE pipe
    BY <1>15 DEF Launch
  <2>2. OwnUnitsOnly'
    BY <1>3, <1>c, <2>1 DEF OwnUnitsOnly, Pipes
  <2>3. DecodeIsJoined'
    BY <1>0, <1>c, <2>1 DEF ServedInv, DecodeIsJoined, Goto, TypeOK
  <2> QED
    BY <1>0, <1>c, <2>1, <2>2, <2>3 DEF ServedInv, ActiveUntilDone, Goto, TypeOK, Announced
<1>16. ASSUME NEW h \in Handlers, PollGone(h) PROVE ServedInv'
  <2>1. /\ Goto(h, "polling", "leaving") /\ UNCHANGED <<session, decode, pipe>>
    BY <1>16 DEF PollGone, contextVars
  <2>2. ActiveUntilDone'
    BY <1>0, <1>c, <2>1 DEF ServedInv, ActiveUntilDone, Goto, TypeOK, Announced
  <2>3. DecodeIsJoined'
    BY <1>0, <2>1 DEF ServedInv, DecodeIsJoined, Goto, TypeOK
  <2>4. OwnUnitsOnly'
    BY <1>3, <1>c, <2>1 DEF OwnUnitsOnly
  <2> QED
    BY <2>2, <2>3, <2>4 DEF ServedInv
<1>17. ASSUME NEW h \in Handlers, Join(h) PROVE ServedInv'
  <2>1. /\ Goto(h, "joining", "reading") \/ Goto(h, "leaving", "cleanup")
        /\ decode' = [decode EXCEPT ![h] = "none"]
        /\ session' = session /\ pipe' = pipe
    BY <1>17 DEF Join, contextVars
  <2> QED
    BY <1>0, <1>c, <2>1 DEF ServedInv, ActiveUntilDone, DecodeIsJoined, OwnUnitsOnly, Goto, TypeOK,
                      Announced
<1>18. ASSUME NEW h \in Handlers, Cleanup(h) PROVE ServedInv'
  <2>1. /\ Goto(h, "cleanup", "done") /\ ForgetSession(h)
        /\ IF session.id = h THEN StopPipe ELSE UNCHANGED <<pipe, decode>>
    BY <1>18 DEF Cleanup
  <2>2. OwnUnitsOnly'
    BY <1>3, <1>c, <2>1 DEF OwnUnitsOnly, StopPipe, Pipes
  <2>3. \A x \in Handlers : decode'[x] # "none" => decode[x] # "none"
    BY <1>0, <1>c, <2>1, ReleasedStartsNone DEF StopPipe
  <2>4. DecodeIsJoined'
    BY <1>0, <1>c, <2>1, <2>3 DEF ServedInv, DecodeIsJoined, Goto, TypeOK
  <2>5. ActiveUntilDone'
    <3>1. \A x \in Handlers \ {h} : pc'[x] = pc[x]
      BY <1>0, <1>c, <2>1 DEF Goto, TypeOK
    <3>2. \A x \in Handlers \ {h} : session = Session(x, "ACTIVE") => session' = session
      BY <2>1 DEF ForgetSession, Session
    <3>3. pc'[h] = "done"
      BY <1>0, <1>c, <2>1 DEF Goto, TypeOK
    <3> QED
      BY <1>c, <3>1, <3>2, <3>3 DEF ServedInv, ActiveUntilDone, Announced
  <2> QED
    BY <2>2, <2>4, <2>5 DEF ServedInv
<1>19. ASSUME NEW h \in Handlers, ReadInvalid(h) PROVE ServedInv'
  <2>1. OwnUnitsOnly'
    BY <1>3, <1>c, <1>19 DEF ReadInvalid, OwnUnitsOnly, contextVars
  <2> QED
    BY <1>c, <1>19, <2>1, ServedFails DEF ReadInvalid
<1>20. ASSUME NEW h \in Handlers, Disconnect(h) PROVE ServedInv'
  BY <1>c, <1>20 DEF Disconnect, ServedInv, ActiveUntilDone, DecodeIsJoined, OwnUnitsOnly, contextVars
<1>21. ASSUME NEW h \in Handlers, DecodeStep(h) PROVE ServedInv'
  <2>1. /\ UNCHANGED <<session, pc>>
        /\ decode[h] # "none" /\ \A x \in Handlers \ {h} : decode'[x] = decode[x]
    BY <1>0, <1>21 DEF DecodeStep, Enter, Proceed, Serve, Generated, TypeOK
  <2>2. h \in Mine
    BY <1>1, <2>1
  <2>3. pipe'.owner = pipe.owner /\ pipe'.queue = pipe.queue
        /\ pipe'.cache \in {pipe.cache, pipe.cache \cup {h}}
    BY <1>3, <1>c, <1>21 DEF DecodeStep, Enter, Proceed, Serve, Generated, Pipes
  <2>4. OwnUnitsOnly'
    BY <1>3, <1>c, <2>2, <2>3 DEF OwnUnitsOnly
  <2>5. DecodeIsJoined'
    BY <2>1 DEF ServedInv, DecodeIsJoined
  <2> QED
    BY <1>c, <2>1, <2>4, <2>5 DEF ServedInv, ActiveUntilDone
<1>22. CASE LlmStep
  <2>1. /\ UNCHANGED <<session, pc, decode>> /\ pipe'.owner = pipe.owner
        /\ pipe'.queue \cup pipe'.cache \subseteq pipe.queue \cup pipe.cache
    BY <1>3, <1>c, <1>22 DEF LlmStep, LlmPrefill, LlmReady, Pipes, handlerVars
  <2> QED
    BY <1>3, <1>c, <2>1 DEF ServedInv, ActiveUntilDone, DecodeIsJoined, OwnUnitsOnly
<1>23. CASE UNCHANGED vars
  BY <1>c, <1>23 DEF vars, contextVars, handlerVars, ServedInv, ActiveUntilDone, DecodeIsJoined,
               OwnUnitsOnly
<1>23a. ASSUME NEW c \in Closers,
              \/ CheckActive(c) \/ AskTransport(c) \/ EnterClose(c)
              \/ \E h \in Handlers : RequestClose(c, h)
       PROVE  ServedInv'
  <2>1. UNCHANGED <<session, pc, decode, pipe>>
    BY <1>23a DEF CheckActive, AskTransport, EnterClose, RequestClose, contextVars,
                  handlerVars
  <2> QED
    BY <1>c, <2>1 DEF ServedInv, ActiveUntilDone, DecodeIsJoined, OwnUnitsOnly
<1>23b. ASSUME NEW c \in Closers, StopInference(c) PROVE ServedInv'
  <2>1. UNCHANGED <<session, pc>> /\ StopPipe
    BY <1>23b DEF StopInference
  <2>2. OwnUnitsOnly'
    BY <1>3, <1>c, <2>1 DEF OwnUnitsOnly, StopPipe, Pipes
  <2>3. DecodeIsJoined'
    BY <1>0, <2>1, ReleasedStartsNone DEF ServedInv, DecodeIsJoined, StopPipe
  <2> QED
    BY <1>c, <2>1, <2>2, <2>3 DEF ServedInv, ActiveUntilDone
<1>23c. ASSUME NEW c \in Closers, ForgetClosed(c) PROVE ServedInv'
  <2>1. /\ ForgetSession(target[c]) /\ target' = target /\ cpc'[c] = "closed"
        /\ UNCHANGED <<pc, decode, pipe>>
    BY <1>0, <1>23c DEF ForgetClosed, CloserGoto, TypeOK, contextVars, handlerVars
  <2>2. target[c] \in ClosedOverHttp'
    BY <2>1 DEF ClosedOverHttp
  <2>3. \A h \in Handlers : session = Session(h, "ACTIVE") =>
            session' = Session(h, "ACTIVE") \/ h = target[c]
    BY <2>1 DEF ForgetSession, Session
  <2> QED
    BY <1>c, <2>1, <2>2, <2>3 DEF ServedInv, ActiveUntilDone, DecodeIsJoined, OwnUnitsOnly
<1>24. ASSUME NEW h \in Handlers, HandlerStep(h) PROVE ServedInv'
  BY <1>4, <1>5, <1>6, <1>7, <1>8, <1>9, <1>10, <1>11, <1>12, <1>13, <1>14, <1>15, <1>16,
     <1>17, <1>18, <1>24 DEF HandlerStep
<1>25. ASSUME NEW h \in Handlers, ClientStep(h) PROVE ServedInv'
  BY <1>12, <1>19, <1>20, <1>25 DEF ClientStep
<1>26. ASSUME NEW c \in Closers, CloserStep(c) \/ \E h \in Handlers : RequestClose(c, h)
       PROVE  ServedInv'
  BY <1>23a, <1>23b, <1>23c, <1>26 DEF CloserStep
<1> QED
  BY <1>21, <1>22, <1>23, <1>24, <1>25, <1>26 DEF Next, Quiet

\* The cache and the queue of the server's context hold units of the session it
\* was set up for and of sessions closed over HTTP, and of no other, over any
\* number of connections, closes, failures and rebuilds.
THEOREM NoForeignUnits == Spec => []OwnUnitsOnly
<1>1. IInv /\ ServedInv /\ [Next]_vars => ServedInv'
  BY ServedStep
<1>2. ServedInv => OwnUnitsOnly
  BY DEF ServedInv
<1> QED
  BY <1>1, <1>2, ServedInit, Inductive, PTL DEF Spec

\* No handler is left with a context that another one has freed or replaced,
\* unless its session has been closed over HTTP.
THEOREM ContextStaysLive == Spec => []UsesLiveContext
<1>1. IInv /\ ServedInv /\ [Next]_vars => ServedInv'
  BY ServedStep
<1>2. IInv /\ ServedInv => UsesLiveContext
  BY DEF ServedInv, ActiveUntilDone, IInv, ContextOwned, Owns, UsesLiveContext, Announced
<1> QED
  BY <1>1, <1>2, ServedInit, Inductive, PTL DEF Spec

=============================================================================
