------------------------- MODULE SimplexTurnsProofs -------------------------
(***************************************************************************)
(* What holds of spoken turns for any number of turns, frames, chunks and  *)
(* breaks, and any capacity of the queue of text.                          *)
(*                                                                         *)
(* A calm turn is written whole, in order and to its own round.  StoryInv  *)
(* follows what has been said from the decode to the file: what has been   *)
(* filed, what sounds, what is in the TTS thread's hand, what is queued    *)
(* and what the call holds are, one behind the other, what has been said;  *)
(* and as long as the turn is calm nothing of another turn is on its way.  *)
(*                                                                         *)
(* The threads come to rest only when all has been said, and written but   *)
(* for what is kept of an answer that ran out.  RestInv says of each wait  *)
(* that whoever sleeps has nothing to do, or that a wake-up has been lost. *)
(*                                                                         *)
(* A decode overtakes the frames of its turn only if the first decode of   *)
(* all has.  prefill_done says nothing of whom it is for: as long as the   *)
(* first decode has not run ahead, the flag is set only before the LLM     *)
(* thread has taken its first frame, or for the decode that waits, with    *)
(* nothing left to prefill.                                                *)
(***************************************************************************)
EXTENDS SimplexTurns, SequenceLemmas, TLAPS

-----------------------------------------------------------------------------
(* Types. *)

\* Text that is on its way: it belongs to a turn and has a number.
Texts == {c \in Chunks : c.turn \in Turns /\ c.no >= 1 /\ (c.kind = "empty" => c.last)}
Hands == {"speak", "flush", "file", "done"}
Items == [tokens : Seq(Tokens), round : Nat, final : BOOLEAN, turn : Turns \cup {-1}]

Placed     == at \in [Threads -> Places] /\ cond \in [Threads -> Conditions]
LlmTypes   == frames \in Seq(Turns) /\ batch \in Seq(Turns)
FlagTypes  == {prefillDone, needSpeek, speekDone, warmupDone, breakEvent} \subseteq BOOLEAN
TextTypes  ==
    /\ ttsQueue \in Seq(Texts) /\ Len(ttsQueue) <= TtsCap
    /\ tts \in [hand : Chunks, finish : BOOLEAN, first : BOOLEAN, buffer : Seq(Tokens)]
    /\ at["tts"] \in Hands => tts.hand \in Texts
SoundTypes ==
    /\ round \in Nat /\ t2wQueue \in Seq(Items)
    /\ t2w \in [buffer : Seq(Tokens), round : Nat \cup {-1}]
\* A call that has begun belongs to a turn, and one that goes on may make a chunk.
CallShape  ==
    /\ turn \in 0..MaxTurns /\ pushed \in 0..MaxFrames
    /\ chunk \in Chunks /\ made \in 0..MaxChunks
    /\ at["client"] \in {"silence", "push"} => turn \in Turns /\ pushed < MaxFrames
    /\ at["client"] \in {"await", "generate", "room"} => turn \in Turns
    /\ at["client"] # "room" => made < MaxChunks
    /\ at["client"] = "room" => chunk \in Texts /\ (chunk.last \/ made < MaxChunks)
PastTypes  ==
    /\ early \subseteq Turns /\ breaks \in 0..MaxBreaks
    /\ lost \subseteq {"missed", "erased", "room"}

TypeInv == /\ Placed /\ LlmTypes /\ FlagTypes /\ TextTypes /\ SoundTypes
           /\ CallShape /\ PastTypes

\* The invariant has more than the types: where the threads are when they hold what.
LEMMA TypesFollow == TypeInv => TypeOK
  <1> SUFFICES ASSUME TypeInv PROVE TypeOK
    OBVIOUS
  <1>1. ttsQueue \in Seq(Chunks)
    <2>1. Texts \subseteq Chunks
      BY DEF Texts
    <2>2. ttsQueue \in Seq(Texts)
      BY DEF TypeInv, TextTypes
    <2> HIDE DEF Texts
    <2> QED BY <2>1, <2>2
  <1> QED
    BY <1>1 DEF TypeInv, TypeOK, Placed, LlmTypes, FlagTypes, TextTypes, SoundTypes, CallShape,
           PastTypes, Items

\* The names of threads and places.
LEMMA ThreadPlaces ==
    /\ "client" \in Threads /\ "llm" \in Threads /\ "tts" \in Threads /\ "t2w" \in Threads
    /\ {"out", "push", "silence", "await", "generate", "room", "input", "prefill",
        "answer", "answered", "text", "tokens", "clear", "cleared", "again", "speak",
        "flush", "done", "file", "drop"} \subseteq Places
  BY DEF Threads, Places, Waits

\* Nothing is on its way at the start.
LEMMA InitTypes == Init => TypeInv
  <1> SUFFICES ASSUME Init PROVE TypeInv
    OBVIOUS
  <1>1. Placed
    BY DEF Init, Placed, Threads, Places, Waits, Conditions
  <1>2. LlmTypes /\ PastTypes
    BY BoundsAssumption DEF Init, LlmTypes, PastTypes
  <1>7. FlagTypes
    BY DEF Init, FlagTypes
  <1>3. NoChunk \in Chunks
    BY BoundsAssumption DEF NoChunk, Chunks, Kinds
  <1>4. TextTypes
    BY <1>3, BoundsAssumption DEF Init, TextTypes, Hands
  <1>5. SoundTypes
    BY DEF Init, SoundTypes
  <1>6. CallShape
    BY <1>3, BoundsAssumption DEF Init, CallShape
  <1> QED BY <1>1, <1>2, <1>4, <1>5, <1>6, <1>7 DEF TypeInv

\* A thread that goes somewhere leaves the others where they are.
LEMMA GoneTo ==
    ASSUME Placed, NEW t \in Threads, NEW place \in Places, Goto(t, place)
    PROVE  /\ at' \in [Threads -> Places] /\ at'[t] = place
           /\ \A u \in Threads \ {t} : at'[u] = at[u]
  BY DEF Placed, Goto

\* A notification leaves the conditions well-formed.
LEMMA Notified ==
    ASSUME Placed, NEW cvs, NotifyAll(cvs) PROVE cond' \in [Threads -> Conditions]
  BY DEF Placed, NotifyAll, Conditions

\* A notification, and none, leave the history of what was lost well-formed.
LEMMA Noticed ==
    ASSUME Placed, PastTypes, \/ Quietly \/ \E cvs : Notify(cvs)
    PROVE  cond' \in [Threads -> Conditions] /\ lost' \subseteq {"missed", "erased", "room"}
  <1>1. CASE Quietly
    BY <1>1 DEF Quietly, Placed, PastTypes
  <1>2. CASE \E cvs : Notify(cvs)
    <2>1. PICK cvs : Notify(cvs)
      BY <1>2
    <2>2. NotifyAll(cvs) /\ lost' \subseteq lost \cup {"missed"}
      BY <2>1 DEF Notify
    <2> QED BY <2>2, Notified DEF PastTypes
  <1> QED BY <1>1, <1>2

\* A wait changes nothing but the condition of the thread.
LEMMA WaitTypes ==
    ASSUME TypeInv, (\E t \in Threads : Wait(t)) \/ UNCHANGED vars PROVE TypeInv'
  <1>1. /\ UNCHANGED <<llmVars, flagVars, voiceVars, callVars, history, lost, at>>
        /\ \/ UNCHANGED cond
           \/ \E t \in Threads, c \in Conditions : cond' = [cond EXCEPT ![t] = c]
    BY DEF Wait, Blocks, Sleeps, vars, Conditions
  <1>2. Placed'
    BY <1>1 DEF TypeInv, Placed
  <1>3. LlmTypes' /\ FlagTypes' /\ TextTypes' /\ SoundTypes' /\ CallShape' /\ PastTypes'
    BY <1>1 DEF TypeInv, LlmTypes, FlagTypes, TextTypes, SoundTypes, CallShape, PastTypes,
                llmVars, flagVars, voiceVars, callVars, history
  <1> QED BY <1>2, <1>3 DEF TypeInv

\* The client calls.
LEMMA PrefillTypes ==
    ASSUME TypeInv, FirstPrefillCall \/ ColdPrefillCall \/ SpeechOver \/ SpeechTimeout
    PROVE  TypeInv'
  <1>1. /\ UNCHANGED <<llmVars, warmupDone, round, tts, t2wQueue, t2w, callVars, early,
                       breaks, lost>>
        /\ ttsQueue' \in {ttsQueue, <<>>}
        /\ \E place \in {"silence", "push"} : Goto("client", place)
        /\ cond' \in {cond, [cond EXCEPT !["client"] = "awake"]}
    BY DEF FirstPrefillCall, ColdPrefillCall, SpeechOver, SpeechTimeout, StartRound,
           Quietly, voiceVars, history
  <1>2. turn \in Turns /\ pushed < MaxFrames /\ at["client"] # "room"
    BY BoundsAssumption DEF FirstPrefillCall, ColdPrefillCall, SpeechOver, SpeechTimeout, MayPrefill,
           Enters, TypeInv, CallShape, Turns
  <1>3. at' \in [Threads -> Places] /\ at'["client"] \in {"silence", "push"}
        /\ at'["tts"] = at["tts"]
    BY <1>1, GoneTo, ThreadPlaces DEF TypeInv
  <1>4. Placed'
    BY <1>1, <1>3 DEF TypeInv, Placed, Conditions
  <1>5. FlagTypes'
    BY <1>1 DEF TypeInv, FlagTypes, FirstPrefillCall, ColdPrefillCall, SpeechOver,
                SpeechTimeout, StartRound, llmVars, flagVars
  <1>6. TextTypes'
    <2>1. ttsQueue' \in Seq(Texts) /\ Len(ttsQueue') <= TtsCap
      <3>1. <<>> \in Seq(Texts) /\ Len(<<>>) <= TtsCap
        BY BoundsAssumption
      <3> QED BY <1>1, <3>1 DEF TypeInv, TextTypes
    <2> QED BY <1>1, <1>3, <2>1 DEF TypeInv, TextTypes
  <1>7. LlmTypes' /\ SoundTypes' /\ CallShape' /\ PastTypes'
    BY <1>1, <1>2, <1>3 DEF TypeInv, LlmTypes, SoundTypes, CallShape, PastTypes, llmVars,
                            callVars
  <1> QED BY <1>4, <1>5, <1>6, <1>7 DEF TypeInv

LEMMA PushTypes ==
    ASSUME TypeInv, PrefillCall \/ Push PROVE TypeInv'
  <1>1. PushFrame
    BY DEF PrefillCall, Push
  <1>2. turn \in Turns /\ pushed < MaxFrames /\ at["client"] # "room"
    BY BoundsAssumption DEF PrefillCall, Push, MayPrefill, TypeInv, CallShape, Turns
  <1>3. /\ at' \in [Threads -> Places] /\ at'["client"] = "out"
        /\ at'["tts"] = at["tts"]
    BY <1>1, GoneTo, ThreadPlaces DEF TypeInv, PushFrame
  <1>4. cond' \in [Threads -> Conditions] /\ lost' \subseteq {"missed", "erased", "room"}
    BY <1>1, Noticed DEF TypeInv, PushFrame
  <1>5. frames' \in Seq(Turns)
    BY <1>1, <1>2 DEF TypeInv, PushFrame, LlmTypes
  <1>6. LlmTypes' /\ FlagTypes' /\ TextTypes' /\ SoundTypes'
    BY <1>1, <1>3, <1>5 DEF TypeInv, PushFrame, LlmTypes, FlagTypes, TextTypes, SoundTypes,
                      flagVars, voiceVars
  <1>7. CallShape'
    BY <1>1, <1>2, <1>3, BoundsAssumption DEF TypeInv, PushFrame, CallShape
  <1>8. Placed' /\ PastTypes'
    BY <1>1, <1>3, <1>4 DEF TypeInv, PushFrame, Placed, PastTypes, history
  <1> QED BY <1>6, <1>7, <1>8 DEF TypeInv

LEMMA DecodeCallTypes == ASSUME TypeInv, DecodeCall PROVE TypeInv'
  <1>1. /\ at' \in [Threads -> Places] /\ at'["client"] = "await"
        /\ at'["tts"] = at["tts"]
    BY GoneTo, ThreadPlaces DEF TypeInv, DecodeCall
  <1>2. cond' \in [Threads -> Conditions] /\ lost' \subseteq {"missed", "erased", "room"}
    BY Noticed DEF TypeInv, DecodeCall
  <1>3. round' \in Nat
    BY DEF TypeInv, SoundTypes, CallShape, DecodeCall
  <1>4. LlmTypes' /\ FlagTypes' /\ TextTypes' /\ SoundTypes'
    BY <1>1, <1>3 DEF TypeInv, DecodeCall, LlmTypes, FlagTypes, TextTypes, SoundTypes,
                      flagVars
  <1>5. CallShape'
    BY <1>1, BoundsAssumption DEF TypeInv, DecodeCall, CallShape, Turns, callVars
  <1>6. Placed' /\ PastTypes'
    BY <1>1, <1>2 DEF TypeInv, DecodeCall, Placed, PastTypes
  <1> QED BY <1>4, <1>5, <1>6 DEF TypeInv

LEMMA BeginTypes == ASSUME TypeInv, Begin \/ Break PROVE TypeInv'
  <1>1. /\ at' \in [Threads -> Places]
        /\ at'["client"] \in {"out", "generate"}
        /\ at'["client"] = "generate" => turn \in Turns
        /\ at["client"] # "room"
        /\ at'["tts"] = at["tts"]
    <2>1. CASE Begin
      <3>1. Goto("client", "generate") /\ at["client"] = "await"
        BY <2>1 DEF Begin, Enters
      <3> QED BY <3>1, GoneTo, ThreadPlaces DEF TypeInv, CallShape
    <2>2. CASE Break
      BY <2>2 DEF Break, TypeInv, Placed
    <2> QED BY <2>1, <2>2
  <1>2. /\ UNCHANGED <<frames, batch, voiceVars, callVars, cond, lost>>
    BY DEF Begin, Break, Quietly, llmVars
  <1>3. FlagTypes'
    BY DEF TypeInv, FlagTypes, Begin, Break, llmVars
  <1>4. LlmTypes' /\ TextTypes' /\ SoundTypes' /\ Placed'
    BY <1>1, <1>2 DEF TypeInv, LlmTypes, TextTypes, SoundTypes, Placed, voiceVars
  <1>5. CallShape'
    BY <1>1, <1>2 DEF TypeInv, CallShape, callVars
  <1>6. early' \subseteq Turns
    <2>1. at["client"] = "await" \/ UNCHANGED early
      BY DEF Begin, Break, Enters
    <2> QED BY <2>1 DEF Begin, Break, TypeInv, PastTypes, CallShape
  <1>7. breaks' \in 0..MaxBreaks
    BY BoundsAssumption DEF Begin, Break, TypeInv, PastTypes
  <1>8. PastTypes'
    BY <1>2, <1>6, <1>7 DEF TypeInv, PastTypes
  <1> QED BY <1>3, <1>4, <1>5, <1>8 DEF TypeInv

LEMMA GenerateTypes == ASSUME TypeInv, Generate PROVE TypeInv'
  <1>1. /\ at' \in [Threads -> Places] /\ at'["client"] = "room"
        /\ at'["tts"] = at["tts"] /\ at["client"] = "generate"
    BY GoneTo, ThreadPlaces DEF TypeInv, Generate
  <1>2. PICK last \in BOOLEAN, kind \in Kinds :
           /\ last \/ made + 1 < MaxChunks
           /\ kind = "empty" => last
           /\ chunk' = [turn |-> turn, no |-> made + 1, kind |-> kind, last |-> last]
    BY DEF Generate
  <1>3. turn \in Turns /\ made \in Nat /\ made < MaxChunks /\ MaxChunks \in Nat
    BY <1>1, BoundsAssumption DEF TypeInv, CallShape
  <1>4. chunk' \in Texts /\ (chunk'.last <=> last)
    BY <1>2, <1>3 DEF Texts, Chunks
  <1>5. made' = made + 1 /\ UNCHANGED <<turn, pushed>>
    BY DEF Generate
  <1>6. CallShape'
    BY <1>1, <1>2, <1>3, <1>4, <1>5 DEF TypeInv, CallShape, Texts
  <1>7. LlmTypes' /\ FlagTypes' /\ TextTypes' /\ SoundTypes' /\ Placed' /\ PastTypes'
    BY <1>1 DEF TypeInv, Generate, Quietly, LlmTypes, FlagTypes, TextTypes, SoundTypes,
                Placed, PastTypes, llmVars, flagVars, voiceVars
  <1> QED BY <1>6, <1>7 DEF TypeInv

LEMMA SpeakTypes == ASSUME TypeInv, GiveUp \/ RunOut \/ Speak PROVE TypeInv'
  <1>1. /\ at' \in [Threads -> Places] /\ at'["tts"] = at["tts"]
        /\ \/ at'["client"] = "out" /\ turn' = turn + 1 /\ pushed' = 0 /\ made' = 0
           \/ /\ at'["client"] = "generate" /\ UNCHANGED <<turn, pushed, made>>
              /\ made < MaxChunks
    <2>1. \/ Goto("client", "out") /\ turn' = turn + 1 /\ pushed' = 0 /\ made' = 0
          \/ /\ Goto("client", "generate") /\ UNCHANGED <<turn, pushed, made>>
             /\ made < MaxChunks
      BY DEF GiveUp, RunOut, Speak, Return, TypeInv, CallShape, Enters
    <2> QED BY <2>1, GoneTo, ThreadPlaces DEF TypeInv
  <1>2. turn \in Turns
    BY DEF GiveUp, RunOut, Speak, Enters, TypeInv, CallShape
  <1>3. chunk' \in Chunks
    <2>1. NoChunk \in Chunks
      BY BoundsAssumption DEF NoChunk, Chunks, Kinds
    <2> QED BY <2>1 DEF GiveUp, RunOut, Speak, TypeInv, CallShape
  <1>4. CallShape'
    BY <1>1, <1>2, <1>3, BoundsAssumption DEF TypeInv, CallShape, Turns
  <1>5. cond' \in [Threads -> Conditions] /\ lost' \subseteq {"missed", "erased", "room"}
    <2>1. Quietly \/ Notify({"tts_cv"})
      BY DEF GiveUp, RunOut, Speak
    <2> QED BY <2>1, Noticed DEF TypeInv
  <1>6. ttsQueue' \in Seq(Texts) /\ Len(ttsQueue') <= TtsCap
    <2>1. ttsQueue \in Seq(Texts) /\ Len(ttsQueue) <= TtsCap
      BY DEF TypeInv, TextTypes
    <2>2. \/ UNCHANGED ttsQueue
          \/ /\ ttsQueue' = Append(ttsQueue, chunk) /\ Len(ttsQueue) < TtsCap
             /\ chunk \in Texts
      BY DEF GiveUp, RunOut, Speak, voiceVars, Wanted, Enters, TypeInv, CallShape
    <2> HIDE DEF Texts
    <2> QED BY <2>1, <2>2, BoundsAssumption
  <1>7. LlmTypes' /\ FlagTypes' /\ TextTypes' /\ SoundTypes' /\ Placed' /\ PastTypes'
    BY <1>1, <1>5, <1>6 DEF TypeInv, GiveUp, RunOut, Speak, LlmTypes, FlagTypes, TextTypes,
       SoundTypes, Placed, PastTypes, llmVars, flagVars, voiceVars, history
  <1> QED BY <1>4, <1>7 DEF TypeInv

LEMMA LlmStepTypes ==
    ASSUME TypeInv, TakeBatch \/ Prefill \/ Answer \/ Answered \/ AnswerAtOnce
    PROVE  TypeInv'
  <1>1. UNCHANGED <<warmupDone, breakEvent, voiceVars, callVars, history>>
    BY DEF TakeBatch, Prefill, Answer, Answered, AnswerAtOnce, flagVars
  <1>2. /\ at' \in [Threads -> Places] /\ at'["client"] = at["client"]
        /\ at'["tts"] = at["tts"]
    <2>1. UNCHANGED at \/ \E place \in {"prefill", "answer", "input", "answered"} :
                             Goto("llm", place)
      BY DEF TakeBatch, Prefill, Answer, Answered, AnswerAtOnce
    <2> QED BY <2>1, GoneTo, ThreadPlaces DEF TypeInv, Placed, Threads
  <1>3. cond' \in [Threads -> Conditions] /\ lost' \subseteq {"missed", "erased", "room"}
    <2>1. CASE TakeBatch \/ Prefill \/ Answer \/ AnswerAtOnce
      <3>1. Quietly \/ \E cvs : Notify(cvs)
        BY <2>1 DEF TakeBatch, Prefill, Answer, AnswerAtOnce
      <3> QED BY <3>1, Noticed DEF TypeInv
    <2>2. CASE Answered
      BY <2>2, Notified DEF Answered, TypeInv, PastTypes
    <2> QED BY <2>1, <2>2
  <1>4. frames' \in Seq(Turns) /\ batch' \in Seq(Turns)
    <2>1. {frames', batch'} \subseteq {frames, batch, <<>>}
      BY DEF TakeBatch, Prefill, Answer, Answered, AnswerAtOnce
    <2>2. {frames, batch, <<>>} \subseteq Seq(Turns)
      BY DEF TypeInv, LlmTypes
    <2> QED BY <2>1, <2>2
  <1>5. FlagTypes'
    BY <1>1 DEF TypeInv, FlagTypes, TakeBatch, Prefill, Answer, Answered, AnswerAtOnce,
                flagVars
  <1>6. LlmTypes' /\ TextTypes' /\ SoundTypes' /\ CallShape' /\ Placed' /\ PastTypes'
    BY <1>1, <1>2, <1>3, <1>4 DEF TypeInv, LlmTypes, TextTypes, SoundTypes, CallShape,
       Placed, PastTypes, voiceVars, callVars, history
  <1> QED BY <1>5, <1>6 DEF TypeInv

-----------------------------------------------------------------------------
(* The TTS thread. *)

\* What its steps leave alone.
LEMMA TtsLeaves ==
    ASSUME \/ TtsInterrupted \/ TtsClear \/ TtsCleared \/ TakeText \/ TtsSpeak \/ TtsFlush
           \/ TtsDone \/ TtsFile
    PROVE  UNCHANGED <<llmVars, breakEvent, t2w, callVars, early, breaks>>
  BY DEF TtsInterrupted, TtsClear, TtsCleared, TakeText, TtsSpeak, TtsFlush, TtsDone, TtsFile,
         flagVars, voiceVars, history

\* The types of the voice, and what the thread may take with it, are all there is to show.
LEMMA TtsTypes ==
    ASSUME TypeInv, UNCHANGED <<llmVars, breakEvent, t2w, callVars, early, breaks>>,
           NEW place \in Places, Goto("tts", place),
           cond' \in [Threads -> Conditions], lost' \subseteq {"missed", "erased", "room"},
           speekDone' \in BOOLEAN, warmupDone' \in BOOLEAN, round' \in Nat,
           ttsQueue' \in Seq(Texts), Len(ttsQueue') <= TtsCap,
           tts' \in [hand : Chunks, finish : BOOLEAN, first : BOOLEAN, buffer : Seq(Tokens)],
           place \in Hands => tts'.hand \in Texts,
           t2wQueue' \in Seq(Items)
    PROVE  TypeInv'
  <1>1. /\ at' \in [Threads -> Places] /\ at'["client"] = at["client"]
        /\ at'["tts"] = place
    BY GoneTo, ThreadPlaces DEF TypeInv, Threads
  <1>2. Placed' /\ LlmTypes' /\ TextTypes' /\ SoundTypes' /\ CallShape' /\ PastTypes'
    BY <1>1 DEF TypeInv, Placed, LlmTypes, TextTypes, SoundTypes, CallShape, PastTypes,
                llmVars, callVars
  <1>3. FlagTypes'
    BY DEF TypeInv, FlagTypes, llmVars
  <1> QED BY <1>2, <1>3 DEF TypeInv

LEMMA TtsPauseTypes ==
    ASSUME TypeInv, TtsInterrupted \/ TtsClear \/ TtsCleared PROVE TypeInv'
  <1>1. UNCHANGED <<llmVars, breakEvent, t2w, callVars, early, breaks>>
    BY TtsLeaves
  <1>2. PICK place \in {"clear", "cleared", "again", "text"} : Goto("tts", place)
    BY DEF TtsInterrupted, TtsClear, TtsCleared
  <1>3. place \in Places /\ place \notin Hands
    BY <1>2, ThreadPlaces DEF Hands
  <1>4. cond' \in [Threads -> Conditions] /\ lost' \subseteq {"missed", "erased", "room"}
    <2>1. cond' = cond /\ lost' \subseteq lost \cup {"room"}
      BY DEF TtsInterrupted, TtsClear, TtsCleared, Quietly
    <2> QED BY <2>1 DEF TypeInv, Placed, PastTypes
  <1>5. UNCHANGED <<flagVars, t2wQueue>>
    BY DEF TtsInterrupted, TtsClear, TtsCleared, voiceVars
  <1>6. round' \in Nat
    <2>1. round' = round \/ round' = round + 1
      BY DEF TtsInterrupted, TtsClear, TtsCleared, voiceVars
    <2> QED BY <2>1 DEF TypeInv, SoundTypes
  <1>7. ttsQueue' \in Seq(Texts) /\ Len(ttsQueue') <= TtsCap
    <2>1. ttsQueue' = ttsQueue \/ ttsQueue' = <<>>
      BY DEF TtsInterrupted, TtsClear, TtsCleared, voiceVars
    <2>2. <<>> \in Seq(Texts) /\ Len(<<>>) <= TtsCap
      BY BoundsAssumption
    <2> QED BY <2>1, <2>2 DEF TypeInv, TextTypes
  <1>8. tts' \in [hand : Chunks, finish : BOOLEAN, first : BOOLEAN, buffer : Seq(Tokens)]
    <2>1. tts' = tts \/ tts' = [tts EXCEPT !.finish = FALSE, !.first = TRUE]
      BY DEF TtsInterrupted, TtsClear, TtsCleared, voiceVars
    <2> QED BY <2>1 DEF TypeInv, TextTypes
  <1>9. speekDone' \in BOOLEAN /\ warmupDone' \in BOOLEAN /\ t2wQueue' \in Seq(Items)
    BY <1>5 DEF TypeInv, FlagTypes, SoundTypes, flagVars
  <1> QED BY <1>1, <1>2, <1>3, <1>4, <1>6, <1>7, <1>8, <1>9, TtsTypes

LEMMA TakeTextTypes == ASSUME TypeInv, TakeText PROVE TypeInv'
  <1>1. UNCHANGED <<llmVars, breakEvent, t2w, callVars, early, breaks>>
    BY TtsLeaves
  <1> DEFINE c    == Head(ttsQueue)
             skip == speekDone \/ c.kind = "silent"
  <1>2. /\ ttsQueue # <<>> /\ ttsQueue' = Tail(ttsQueue)
        /\ tts' = [tts EXCEPT !.hand   = IF skip THEN NoChunk ELSE c,
                              !.finish = (tts.finish \/ c.last) /\ ~speekDone,
                              !.first  = @ \/ speekDone]
        /\ Goto("tts", IF skip THEN "text"
                       ELSE IF c.kind = "empty" THEN "flush" ELSE "speak")
        /\ UNCHANGED <<flagVars, round, t2wQueue>> /\ Notify({"tts_cv"})
    BY DEF TakeText, TakenText
  <1>3. c \in Texts /\ Tail(ttsQueue) \in Seq(Texts) /\ Len(Tail(ttsQueue)) <= TtsCap
    <2>1. ttsQueue \in Seq(Texts) /\ Len(ttsQueue) <= TtsCap /\ ttsQueue # <<>>
      BY <1>2 DEF TypeInv, TextTypes
    <2> QED BY <2>1, BoundsAssumption
  <1>4. c \in Chunks /\ NoChunk \in Chunks /\ c.last \in BOOLEAN
    BY <1>3, BoundsAssumption DEF Texts, NoChunk, Chunks, Kinds
  <1> HIDE DEF c
  <1>5. tts' \in [hand : Chunks, finish : BOOLEAN, first : BOOLEAN, buffer : Seq(Tokens)]
    BY <1>2, <1>4 DEF TypeInv, TextTypes, FlagTypes
  <1>6. PICK place \in {"text", "flush", "speak"} :
           Goto("tts", place) /\ (place # "text" => ~skip)
    <2> HIDE DEF skip
    <2>1. CASE skip
      BY <1>2, <2>1
    <2>2. CASE ~skip
      BY <1>2, <2>2
    <2> QED BY <2>1, <2>2
  <1>7. place \in Hands => tts'.hand \in Texts
    BY <1>2, <1>3, <1>6 DEF TypeInv, TextTypes, Hands
  <1>8. cond' \in [Threads -> Conditions] /\ lost' \subseteq {"missed", "erased", "room"}
    BY <1>2, Noticed DEF TypeInv
  <1>9. /\ speekDone' \in BOOLEAN /\ warmupDone' \in BOOLEAN /\ t2wQueue' \in Seq(Items)
        /\ round' \in Nat /\ ttsQueue' \in Seq(Texts) /\ Len(ttsQueue') <= TtsCap
    BY <1>2, <1>3 DEF TypeInv, FlagTypes, SoundTypes, flagVars
  <1>10. place \in Places
    BY <1>6, ThreadPlaces
  <1> QED BY <1>1, <1>5, <1>6, <1>7, <1>8, <1>9, <1>10, TtsTypes

\* Tokens that are queued make the queue longer.
LEMMA EmitTypes ==
    ASSUME TypeInv, NEW tokens \in Seq(Tokens), Emit(tokens)
    PROVE  /\ t2wQueue' \in Seq(Items)
           /\ cond' \in [Threads -> Conditions]
           /\ lost' \subseteq {"missed", "erased", "room"}
  <1>1. CASE tokens = <<>>
    BY <1>1, Noticed DEF Emit, TypeInv, SoundTypes
  <1>2. CASE tokens # <<>>
    <2> DEFINE item == [tokens |-> tokens, round |-> round, final |-> FALSE, turn |-> -1]
    <2>1. t2wQueue' = Append(t2wQueue, item) /\ Notify({"t2w_cv"})
      BY <1>2 DEF Emit
    <2>2. item \in Items
      BY DEF TypeInv, SoundTypes, Items
    <2> HIDE DEF item, Items
    <2>3. t2wQueue' \in Seq(Items)
      BY <2>1, <2>2 DEF TypeInv, SoundTypes
    <2> QED BY <2>1, <2>3, Noticed DEF TypeInv
  <1> QED BY <1>1, <1>2

LEMMA TtsSpeakTypes == ASSUME TypeInv, TtsSpeak PROVE TypeInv'
  <1>1. UNCHANGED <<llmVars, breakEvent, t2w, callVars, early, breaks>>
    BY TtsLeaves
  <1>2. at["tts"] = "speak" /\ UNCHANGED <<flagVars, round, ttsQueue>>
    BY DEF TtsSpeak
  <1>3. PICK spoken \in BOOLEAN, fresh \in BOOLEAN, k \in 0..MaxChunks :
          LET kept   == IF tts.first /\ fresh THEN <<>> ELSE tts.buffer
              tokens == IF spoken THEN Append(kept, Token(tts.hand)) ELSE kept
          IN  /\ k <= Len(tokens)
              /\ Goto("tts", IF tts.finish THEN "flush" ELSE "text")
              /\ tts' = [tts EXCEPT !.first  = FALSE,
                                    !.hand   = IF tts.finish THEN @ ELSE NoChunk,
                                    !.buffer = SubSeq(tokens, k + 1, Len(tokens))]
              /\ story' = IF spoken THEN story ELSE Disturbed({tts.hand.turn})
              /\ Emit(SubSeq(tokens, 1, k))
    BY DEF TtsSpeak
  <1> DEFINE kept   == IF tts.first /\ fresh THEN <<>> ELSE tts.buffer
             tokens == IF spoken THEN Append(kept, Token(tts.hand)) ELSE kept
  <1>4. tts \in [hand : Chunks, finish : BOOLEAN, first : BOOLEAN, buffer : Seq(Tokens)]
    BY DEF TypeInv, TextTypes
  <1>5. tokens \in Seq(Tokens)
    <2>1. Token(tts.hand) \in Tokens
      <3>1. tts.hand \in Texts
        BY <1>2 DEF TypeInv, TextTypes, Hands
      <3> QED BY <3>1, BoundsAssumption DEF Texts, Chunks, Token, Tokens
    <2>2. kept \in Seq(Tokens)
      BY <1>4
    <2> HIDE DEF kept, Tokens
    <2> QED BY <2>1, <2>2
  <1>6. /\ k \in 0..Len(tokens) /\ Goto("tts", IF tts.finish THEN "flush" ELSE "text")
        /\ tts' = [tts EXCEPT !.first  = FALSE,
                              !.hand   = IF tts.finish THEN @ ELSE NoChunk,
                              !.buffer = SubSeq(tokens, k + 1, Len(tokens))]
        /\ Emit(SubSeq(tokens, 1, k))
    <2>1. Len(tokens) \in Nat
      BY <1>5
    <2> QED BY <1>3, <2>1, BoundsAssumption
  <1> HIDE DEF tokens, kept, Tokens
  <1>7. SubSeq(tokens, k + 1, Len(tokens)) \in Seq(Tokens)
        /\ SubSeq(tokens, 1, k) \in Seq(Tokens)
    BY <1>5, <1>6, SplitAt
  <1>8. NoChunk \in Chunks
    BY BoundsAssumption DEF NoChunk, Chunks, Kinds
  <1>9. tts' \in [hand : Chunks, finish : BOOLEAN, first : BOOLEAN, buffer : Seq(Tokens)]
    BY <1>4, <1>6, <1>7, <1>8
  <1>10. /\ t2wQueue' \in Seq(Items) /\ cond' \in [Threads -> Conditions]
         /\ lost' \subseteq {"missed", "erased", "room"}
    BY <1>6, <1>7, EmitTypes
  <1>11. PICK place \in {"flush", "text"} :
            Goto("tts", place) /\ (place = "flush" => tts.finish)
    BY <1>6
  <1>12. place \in Places
    BY <1>11, ThreadPlaces
  <1>14. place \in Hands => tts'.hand \in Texts
    BY <1>2, <1>4, <1>6, <1>11 DEF TypeInv, TextTypes, Hands
  <1>13. /\ speekDone' \in BOOLEAN /\ warmupDone' \in BOOLEAN /\ round' \in Nat
         /\ ttsQueue' \in Seq(Texts) /\ Len(ttsQueue') <= TtsCap
    BY <1>2 DEF TypeInv, FlagTypes, SoundTypes, TextTypes, flagVars
  <1> QED BY <1>1, <1>9, <1>10, <1>11, <1>12, <1>13, <1>14, TtsTypes

LEMMA TtsEndTypes == ASSUME TypeInv, TtsFlush \/ TtsDone \/ TtsFile PROVE TypeInv'
  <1>1. UNCHANGED <<llmVars, breakEvent, t2w, callVars, early, breaks>>
    BY TtsLeaves
  <1>2. tts \in [hand : Chunks, finish : BOOLEAN, first : BOOLEAN, buffer : Seq(Tokens)]
    BY DEF TypeInv, TextTypes
  <1>3. PICK place \in {"file", "done", "text"} :
           Goto("tts", place) /\ (place = "text" \/ tts'.hand = tts.hand)
    BY <1>2 DEF TtsFlush, TtsDone, TtsFile
  <1>4. place \in Places
    BY <1>3, ThreadPlaces
  <1>9. place \in Hands => tts'.hand \in Texts
    <2>1. at["tts"] \in Hands
      BY DEF TtsFlush, TtsDone, TtsFile, Hands
    <2> QED BY <1>3, <2>1 DEF TypeInv, TextTypes, Hands
  <1>5. NoChunk \in Chunks
    BY BoundsAssumption DEF NoChunk, Chunks, Kinds
  <1>6. tts' \in [hand : Chunks, finish : BOOLEAN, first : BOOLEAN, buffer : Seq(Tokens)]
    <2>1. \/ tts' = [tts EXCEPT !.buffer = <<>>] \/ tts' = tts
          \/ tts' = [tts EXCEPT !.hand = NoChunk, !.finish = FALSE, !.first = TRUE]
      BY DEF TtsFlush, TtsDone, TtsFile, NewTurn
    <2>2. <<>> \in Seq(Tokens)
      OBVIOUS
    <2>3. CASE tts' = [tts EXCEPT !.buffer = <<>>] \/ tts' = tts
      BY <1>2, <2>2, <2>3
    <2>4. CASE tts' = [tts EXCEPT !.hand = NoChunk, !.finish = FALSE, !.first = TRUE]
      BY <1>2, <1>5, <2>4
    <2> QED BY <2>1, <2>3, <2>4
  <1>7. /\ t2wQueue' \in Seq(Items) /\ cond' \in [Threads -> Conditions]
        /\ lost' \subseteq {"missed", "erased", "room"}
    <2>1. CASE TtsFlush
      BY <1>2, <2>1, EmitTypes DEF TtsFlush
    <2>2. CASE TtsDone
      BY <2>2, Noticed DEF TtsDone, TypeInv, SoundTypes
    <2>3. CASE TtsFile
      <3> DEFINE item == [tokens |-> <<>>, round |-> round, final |-> TRUE,
                          turn |-> tts.hand.turn]
      <3>1. t2wQueue' = Append(t2wQueue, item) /\ Notify({"t2w_cv"})
        BY <2>3 DEF TtsFile
      <3>2. item \in Items
        BY <1>2 DEF TypeInv, SoundTypes, Items, Chunks
      <3> HIDE DEF item, Items
      <3> QED BY <3>1, <3>2, Noticed DEF TypeInv, SoundTypes
    <2> QED BY <2>1, <2>2, <2>3
  <1>8. /\ speekDone' \in BOOLEAN /\ warmupDone' \in BOOLEAN /\ round' \in Nat
        /\ ttsQueue' \in Seq(Texts) /\ Len(ttsQueue') <= TtsCap
    <2>1. UNCHANGED ttsQueue /\ (round' = round \/ round' = round + 1)
      BY DEF TtsFlush, TtsDone, TtsFile
    <2>2. UNCHANGED <<speekDone, warmupDone>> \/ (speekDone' = TRUE /\ warmupDone' = TRUE)
      BY DEF TtsFlush, TtsDone, TtsFile, flagVars
    <2>3. speekDone' \in BOOLEAN /\ warmupDone' \in BOOLEAN
      BY <2>2 DEF TypeInv, FlagTypes
    <2>4. round' \in Nat /\ ttsQueue' \in Seq(Texts) /\ Len(ttsQueue') <= TtsCap
      BY <2>1 DEF TypeInv, SoundTypes, TextTypes
    <2> QED BY <2>3, <2>4
  <1> QED BY <1>1, <1>3, <1>4, <1>6, <1>7, <1>8, <1>9, TtsTypes

-----------------------------------------------------------------------------
(* The T2W thread. *)

LEMMA T2wTypes ==
    ASSUME TypeInv, T2wInterrupted \/ T2wDrop \/ Write PROVE TypeInv'
  <1>1. UNCHANGED <<llmVars, speekDone, warmupDone, round, ttsQueue, tts, callVars, early,
                    breaks, cond, lost>>
    BY DEF T2wInterrupted, T2wDrop, Write, Quietly, flagVars, voiceVars, history
  <1>2. /\ at' \in [Threads -> Places] /\ at'["client"] = at["client"]
        /\ at'["tts"] = at["tts"]
    <2>1. UNCHANGED at \/ \E place \in {"drop", "tokens"} : Goto("t2w", place)
      BY DEF T2wInterrupted, T2wDrop, Write
    <2> QED BY <2>1, GoneTo, ThreadPlaces DEF TypeInv, Placed, Threads
  <1>3. FlagTypes'
    BY <1>1 DEF TypeInv, FlagTypes, llmVars, T2wInterrupted, T2wDrop, Write, flagVars
  <1>4. t2wQueue' \in Seq(Items) /\ t2w' \in [buffer : Seq(Tokens), round : Nat \cup {-1}]
    <2>1. t2wQueue \in Seq(Items) /\ t2w \in [buffer : Seq(Tokens), round : Nat \cup {-1}]
          /\ round \in Nat
      BY DEF TypeInv, SoundTypes
    <2>2. CASE T2wInterrupted
      BY <2>1, <2>2 DEF T2wInterrupted, voiceVars
    <2>3. CASE T2wDrop
      BY <2>1, <2>3 DEF T2wDrop
    <2>4. CASE Write
      <3> DEFINE items  == DOMAIN t2wQueue
                 label  == Last(t2wQueue).round
                 kept   == IF label = t2w.round THEN t2w.buffer ELSE <<>>
                 tokens == kept \o FlattenSeq([i \in items |-> t2wQueue[i].tokens])
                 ended  == {t2wQueue[i].turn : i \in {j \in items : t2wQueue[j].final}}
      <3>1. t2wQueue # <<>> /\ t2wQueue' = <<>>
            /\ \E k \in 0..Len(tokens) :
                  t2w' = [buffer |-> SubSeq(tokens, k + 1, Len(tokens)),
                          round  |-> IF ended # {} THEN round ELSE label]
        BY <2>4 DEF Write
      <3>2. label \in Nat
        <4>1. t2wQueue[Len(t2wQueue)] \in Items
          <5> HIDE DEF Items
          <5> QED BY <2>1, <3>1
        <4> QED BY <4>1 DEF Last, Items
      <3>3. [i \in items |-> t2wQueue[i].tokens] \in Seq(Seq(Tokens))
        <4>1. \A i \in items : t2wQueue[i] \in Items
          <5> HIDE DEF Items
          <5> QED BY <2>1
        <4>2. \A i \in items : t2wQueue[i].tokens \in Seq(Tokens)
          BY <4>1 DEF Items
        <4>3. items = 1..Len(t2wQueue) /\ Len(t2wQueue) \in Nat
          BY <2>1
        <4> HIDE DEF Tokens, items
        <4> QED BY <4>2, <4>3
      <3>4. tokens \in Seq(Tokens)
        <4> DEFINE flat == FlattenSeq([i \in items |-> t2wQueue[i].tokens])
        <4>1. flat \in Seq(Tokens)
          BY <3>3, FlattenType
        <4>2. kept \in Seq(Tokens)
          BY <2>1
        <4> HIDE DEF kept, flat, Tokens
        <4>3. kept \o flat \in Seq(Tokens)
          BY <4>1, <4>2
        <4> QED BY <4>3 DEF flat
      <3>5. PICK k \in 0..Len(tokens) :
                  t2w' = [buffer |-> SubSeq(tokens, k + 1, Len(tokens)),
                          round  |-> IF ended # {} THEN round ELSE label]
        BY <3>1
      <3> HIDE DEF tokens, label, ended, Tokens
      <3>6. SubSeq(tokens, k + 1, Len(tokens)) \in Seq(Tokens)
        BY <3>4, SplitAt
      <3>7. t2w' \in [buffer : Seq(Tokens), round : Nat \cup {-1}]
        BY <2>1, <3>2, <3>5, <3>6
      <3> QED BY <3>1, <3>7
    <2> QED BY <2>2, <2>3, <2>4
  <1>5. SoundTypes'
    BY <1>1, <1>4 DEF TypeInv, SoundTypes
  <1>6. LlmTypes' /\ TextTypes' /\ CallShape' /\ Placed' /\ PastTypes'
    BY <1>1, <1>2 DEF TypeInv, LlmTypes, TextTypes, CallShape, Placed, PastTypes,
       llmVars, callVars
  <1> QED BY <1>3, <1>5, <1>6 DEF TypeInv

\* All steps keep the types.
LEMMA NextKeepsTypes == TypeInv /\ [Next]_vars => TypeInv'
  <1> SUFFICES ASSUME TypeInv, [Next]_vars PROVE TypeInv'
    OBVIOUS
  <1>1. CASE FirstPrefillCall \/ ColdPrefillCall \/ SpeechOver \/ SpeechTimeout
    BY <1>1, PrefillTypes
  <1>2. CASE PrefillCall \/ Push
    BY <1>2, PushTypes
  <1>3. CASE DecodeCall
    BY <1>3, DecodeCallTypes
  <1>4. CASE Begin \/ Break
    BY <1>4, BeginTypes
  <1>5. CASE Generate
    BY <1>5, GenerateTypes
  <1>6. CASE GiveUp \/ RunOut \/ Speak
    BY <1>6, SpeakTypes
  <1>7. CASE TakeBatch \/ Prefill \/ Answer \/ Answered \/ AnswerAtOnce
    BY <1>7, LlmStepTypes
  <1>8. CASE TtsInterrupted \/ TtsClear \/ TtsCleared
    BY <1>8, TtsPauseTypes
  <1>9. CASE TakeText
    BY <1>9, TakeTextTypes
  <1>10. CASE TtsSpeak
    BY <1>10, TtsSpeakTypes
  <1>11. CASE TtsFlush \/ TtsDone \/ TtsFile
    BY <1>11, TtsEndTypes
  <1>12. CASE T2wInterrupted \/ T2wDrop \/ Write
    BY <1>12, T2wTypes
  <1>13. CASE (\E t \in Threads : Wait(t)) \/ UNCHANGED vars
    BY <1>13, WaitTypes
  <1> QED
    BY <1>1, <1>2, <1>3, <1>4, <1>5, <1>6, <1>7, <1>8, <1>9, <1>10, <1>11, <1>12, <1>13
    DEF Next, Client, Call, Llm, Tts, T2w, Threads

\* The queue of text never exceeds its capacity, whatever the threads do, and what is
\* spoken, kept or filed are chunks and tokens of turns (stream_decode, tts_thread_func).
THEOREM TypeCorrect == Spec => []TypeOK
  BY InitTypes, NextKeepsTypes, TypesFollow, PTL DEF Spec

-----------------------------------------------------------------------------
(* Whose text and sound is on its way: of the turns in T only. *)

\* Tokens, text and queued tokens of the turns in T.
TokensOf(T) == {t \in Tokens : t.turn \in T}
TextsOf(T)  == {c \in Texts : c.turn \in T}
ItemsOf(T)  == {i \in Items : /\ i.tokens \in Seq(TokensOf(T))
                              /\ i.final => i.turn \in T}

\* The chunk in the thread's hands is still to be spoken or to be marked as the end.
Holding ==
    \/ at["tts"] \in {"speak", "flush", "file"}
    \/ at["tts"] = "done" /\ tts.hand.kind # "empty"

\* All that is on its way to be heard belongs to the turns in T.
Carry(T) ==
    /\ t2w.buffer \in Seq(TokensOf(T)) /\ tts.buffer \in Seq(TokensOf(T))
    /\ t2wQueue \in Seq(ItemsOf(T)) /\ ttsQueue \in Seq(TextsOf(T))
    /\ Holding => tts.hand.turn \in T
    /\ at["client"] = "room" => chunk.turn \in T

\* A step that brings no text or sound along.
LEMMA CarryAside ==
    ASSUME NEW T, Carry(T), UNCHANGED <<t2wQueue, t2w>>, tts'.buffer = tts.buffer,
           ttsQueue' = ttsQueue \/ ttsQueue' = <<>>,
           Holding' => Holding /\ tts'.hand = tts.hand,
           at'["client"] = "room" => at["client"] = "room" /\ chunk' = chunk
    PROVE  Carry(T)'
  <1>1. <<>> \in Seq(TextsOf(T))
    OBVIOUS
  <1>2. ttsQueue' \in Seq(TextsOf(T))
    BY <1>1 DEF Carry
  <1> HIDE DEF Holding
  <1> QED BY <1>2 DEF Carry

\* Who is where after a step of one thread.
LEMMA TtsGone ==
    ASSUME TypeInv, NEW place \in Places, Goto("tts", place)
    PROVE  /\ at'["tts"] = place /\ at'["client"] = at["client"]
           /\ at'["llm"] = at["llm"] /\ at'["t2w"] = at["t2w"]
  BY GoneTo, ThreadPlaces DEF TypeInv, Threads

LEMMA ClientGone ==
    ASSUME TypeInv, NEW place \in Places, Goto("client", place)
    PROVE  /\ at'["client"] = place /\ at'["tts"] = at["tts"]
           /\ at'["llm"] = at["llm"] /\ at'["t2w"] = at["t2w"]
  BY GoneTo, ThreadPlaces DEF TypeInv, Threads

LEMMA LlmGone ==
    ASSUME TypeInv, NEW place \in Places, Goto("llm", place)
    PROVE  /\ at'["llm"] = place /\ at'["tts"] = at["tts"]
           /\ at'["client"] = at["client"] /\ at'["t2w"] = at["t2w"]
  BY GoneTo, ThreadPlaces DEF TypeInv, Threads

LEMMA T2wGone ==
    ASSUME TypeInv, NEW place \in Places, Goto("t2w", place)
    PROVE  /\ at'["t2w"] = place /\ at'["tts"] = at["tts"]
           /\ at'["client"] = at["client"] /\ at'["llm"] = at["llm"]
  BY GoneTo, ThreadPlaces DEF TypeInv, Threads

-----------------------------------------------------------------------------
(* What the steps do, as far as the voice is concerned. *)

\* Steps that have nothing to do with what is said.
Besides ==
    \/ FirstPrefillCall \/ PrefillCall \/ Push \/ Begin
    \/ TakeBatch \/ Prefill \/ Answer \/ Answered \/ AnswerAtOnce
    \/ (\E t \in Threads : Wait(t)) \/ UNCHANGED vars

\* They leave the voice alone.
LEMMA BesidesDoes ==
    ASSUME TypeInv, Besides
    PROVE  /\ UNCHANGED <<story, voiceVars, turn, chunk>>
           /\ breakEvent' = breakEvent \/ breakEvent' = FALSE
           /\ at'["tts"] = at["tts"] /\ at'["t2w"] = at["t2w"]
           /\ \/ at'["client"] = at["client"]
              \/ at["client"] = "await" /\ at'["client"] = "generate" /\ speekDone' = FALSE
              \/ at["client"] \in {"out", "push"} /\ at'["client"] \in {"out", "silence"}
           /\ speekDone' = FALSE \/ speekDone' = speekDone \/ breakEvent
  <1>1. CASE FirstPrefillCall
    <2>1. Goto("client", "silence") /\ at["client"] = "out"
      BY <1>1 DEF FirstPrefillCall, MayPrefill
    <2>2. at'["client"] = "silence" /\ at'["tts"] = at["tts"] /\ at'["t2w"] = at["t2w"]
      BY <2>1, ClientGone, ThreadPlaces
    <2>3. speekDone' = speekDone \/ breakEvent
      <3>1. speekDone' = (speekDone \/ breakEvent) /\ speekDone \in BOOLEAN
        BY <1>1 DEF FirstPrefillCall, TypeInv, FlagTypes
      <3> QED BY <3>1
    <2> QED BY <1>1, <2>1, <2>2, <2>3 DEF FirstPrefillCall, callVars, history
  <1>2. CASE PrefillCall \/ Push
    <2>1. Goto("client", "out") /\ at["client"] \in {"out", "push"}
      BY <1>2 DEF PrefillCall, Push, MayPrefill, PushFrame
    <2>2. at'["client"] = "out" /\ at'["tts"] = at["tts"] /\ at'["t2w"] = at["t2w"]
      BY <2>1, ClientGone, ThreadPlaces
    <2> QED BY <1>2, <2>1, <2>2 DEF PrefillCall, Push, PushFrame, history, flagVars
  <1>3. CASE Begin
    <2>1. Goto("client", "generate") /\ at["client"] = "await"
      BY <1>3 DEF Begin, Enters
    <2>2. at'["client"] = "generate" /\ at'["tts"] = at["tts"] /\ at'["t2w"] = at["t2w"]
      BY <2>1, ClientGone, ThreadPlaces
    <2> QED BY <1>3, <2>1, <2>2 DEF Begin, callVars
  <1>4. CASE TakeBatch \/ Prefill \/ Answer \/ Answered \/ AnswerAtOnce
    <2>1. UNCHANGED at \/ \E place \in {"prefill", "answer", "input", "answered"} :
                             Goto("llm", place)
      BY <1>4 DEF TakeBatch, Prefill, Answer, Answered, AnswerAtOnce
    <2>2. at'["client"] = at["client"] /\ at'["tts"] = at["tts"] /\ at'["t2w"] = at["t2w"]
      BY <2>1, LlmGone, ThreadPlaces
    <2> QED BY <1>4, <2>2 DEF TakeBatch, Prefill, Answer, Answered, AnswerAtOnce, callVars,
                              history, flagVars
  <1>5. CASE (\E t \in Threads : Wait(t)) \/ UNCHANGED vars
    BY <1>5 DEF Wait, Blocks, Sleeps, vars, callVars, history, flagVars
  <1> QED BY <1>1, <1>2, <1>3, <1>4, <1>5 DEF Besides

\* The steps, as to whose text and sound they move.
LEMMA BesidesCarry == ASSUME TypeInv, NEW T, Carry(T), Besides PROVE Carry(T)'
  <1>1. /\ UNCHANGED <<voiceVars, chunk>> /\ at'["tts"] = at["tts"]
        /\ at'["client"] = "room" => at["client"] = "room"
    BY BesidesDoes
  <1>2. Holding' => Holding
    BY <1>1 DEF Holding, voiceVars
  <1> HIDE DEF Holding
  <1> QED BY <1>1, <1>2, CarryAside DEF voiceVars

LEMMA StartCarry ==
    ASSUME TypeInv, NEW T, Carry(T), ColdPrefillCall \/ SpeechOver \/ SpeechTimeout
    PROVE  Carry(T)'
  <1>1. Goto("client", "push") /\ ttsQueue' = <<>>
        /\ UNCHANGED <<tts, t2wQueue, t2w>>
    BY DEF ColdPrefillCall, SpeechOver, SpeechTimeout, StartRound
  <1>2. at'["client"] = "push" /\ at'["tts"] = at["tts"]
    BY <1>1, ClientGone, ThreadPlaces
  <1>3. Holding' => Holding
    BY <1>1, <1>2 DEF Holding
  <1> QED BY <1>1, <1>2, <1>3, CarryAside

LEMMA DecodeCarry ==
    ASSUME TypeInv, NEW T, Carry(T), DecodeCall \/ GiveUp \/ RunOut \/ Break PROVE Carry(T)'
  <1>1. /\ UNCHANGED <<tts, ttsQueue, t2wQueue, t2w>>
        /\ Goto("client", "await") \/ Goto("client", "out") \/ UNCHANGED at
        /\ UNCHANGED at => at["client"] # "room"
    BY DEF DecodeCall, GiveUp, RunOut, Break, Return, voiceVars
  <1>2. at'["client"] # "room" /\ at'["tts"] = at["tts"]
    BY <1>1, ClientGone, ThreadPlaces
  <1>3. Holding' => Holding
    BY <1>1, <1>2 DEF Holding
  <1> QED BY <1>1, <1>2, <1>3, CarryAside

LEMMA GenerateCarry ==
    ASSUME TypeInv, NEW T, Carry(T), Generate, turn \in T PROVE Carry(T)'
  <1>1. /\ UNCHANGED <<tts, ttsQueue, t2wQueue, t2w>> /\ Goto("client", "room")
        /\ chunk'.turn = turn
    BY DEF Generate, voiceVars
  <1>2. at'["tts"] = at["tts"]
    BY <1>1, ClientGone, ThreadPlaces
  <1>3. Holding' <=> Holding
    BY <1>1, <1>2 DEF Holding
  <1> QED BY <1>1, <1>2, <1>3 DEF Carry

LEMMA SpeakCarry == ASSUME TypeInv, NEW T, Carry(T), Speak PROVE Carry(T)'
  <1>1. /\ UNCHANGED <<tts, t2wQueue, t2w>> /\ at["client"] = "room"
        /\ ttsQueue' = Append(ttsQueue, chunk) \/ ttsQueue' = ttsQueue
        /\ Goto("client", "out") \/ Goto("client", "generate")
    BY DEF Speak, Return, Enters
  <1>2. at'["client"] # "room" /\ at'["tts"] = at["tts"]
    BY <1>1, ClientGone, ThreadPlaces
  <1>3. Holding' <=> Holding
    BY <1>1, <1>2 DEF Holding
  <1>4. chunk \in TextsOf(T)
    BY <1>1 DEF Carry, TextsOf, TypeInv, CallShape
  <1>5. ttsQueue' \in Seq(TextsOf(T))
    <2> HIDE DEF TextsOf
    <2> QED BY <1>1, <1>4 DEF Carry
  <1> QED BY <1>1, <1>2, <1>3, <1>5 DEF Carry

LEMMA PauseCarry ==
    ASSUME TypeInv, NEW T, Carry(T), TtsInterrupted \/ TtsClear \/ TtsCleared \/ TtsDone
    PROVE  Carry(T)'
  <1>1. /\ UNCHANGED <<t2wQueue, t2w, chunk>>
        /\ ttsQueue' = ttsQueue \/ ttsQueue' = <<>>
    BY DEF TtsInterrupted, TtsClear, TtsCleared, TtsDone, voiceVars, callVars
  <1>2. tts'.buffer = tts.buffer
    BY DEF TtsInterrupted, TtsClear, TtsCleared, TtsDone, NewTurn, voiceVars, TypeInv, TextTypes
  <1>3. \/ \E place \in {"clear", "again", "cleared", "text"} : Goto("tts", place)
        \/ /\ Goto("tts", "file") /\ UNCHANGED tts
           /\ at["tts"] = "done" /\ tts.hand.kind # "empty"
    BY DEF TtsInterrupted, TtsClear, TtsCleared, TtsDone
  <1>4. /\ at'["client"] = at["client"]
        /\ \/ at'["tts"] \in {"clear", "again", "cleared", "text"}
           \/ UNCHANGED tts /\ at["tts"] = "done" /\ tts.hand.kind # "empty"
    BY <1>3, TtsGone, ThreadPlaces
  <1>5. Holding' => Holding /\ tts' = tts
    BY <1>4 DEF Holding
  <1> QED BY <1>1, <1>2, <1>4, <1>5, CarryAside

LEMMA TakeCarry == ASSUME TypeInv, NEW T, Carry(T), TakeText PROVE Carry(T)'
  <1> DEFINE c    == Head(ttsQueue)
             skip == speekDone \/ c.kind = "silent"
  <1>1. /\ ttsQueue # <<>> /\ ttsQueue' = Tail(ttsQueue)
        /\ tts' = [tts EXCEPT !.hand   = IF skip THEN NoChunk ELSE c,
                              !.finish = (tts.finish \/ c.last) /\ ~speekDone,
                              !.first  = @ \/ speekDone]
        /\ Goto("tts", IF skip THEN "text" ELSE IF c.kind = "empty" THEN "flush" ELSE "speak")
        /\ UNCHANGED <<t2w, t2wQueue, callVars>>
    BY DEF TakeText, TakenText
  <1>2. c \in TextsOf(T) /\ Tail(ttsQueue) \in Seq(TextsOf(T))
    <2>1. ttsQueue \in Seq(TextsOf(T)) /\ ttsQueue # <<>>
      BY <1>1 DEF Carry
    <2> HIDE DEF TextsOf
    <2> QED BY <2>1
  <1> HIDE DEF c
  <1>3. /\ at'["client"] = at["client"]
        /\ at'["tts"] = IF skip THEN "text" ELSE IF c.kind = "empty" THEN "flush" ELSE "speak"
    <2> HIDE DEF skip
    <2> QED BY <1>1, TtsGone, ThreadPlaces
  <1>4. Holding' => ~skip
    BY <1>3 DEF Holding
  <1>5. Holding' => tts'.hand.turn \in T
    BY <1>1, <1>2, <1>4 DEF TypeInv, TextTypes, TextsOf
  <1>6. tts'.buffer = tts.buffer
    BY <1>1 DEF TypeInv, TextTypes
  <1> HIDE DEF Holding
  <1> QED BY <1>1, <1>2, <1>3, <1>5, <1>6 DEF Carry, callVars

\* What is handed on to the T2W thread is one more member of its queue.
Batch(tokens) == [tokens |-> tokens, round |-> round, final |-> FALSE, turn |-> -1]
EndMark       == [tokens |-> <<>>, round |-> round, final |-> TRUE, turn |-> tts.hand.turn]

\* Tokens are handed on as one item, or not at all.
LEMMA EmitDoes ==
    ASSUME NEW tokens, Emit(tokens)
    PROVE  IF tokens = <<>> THEN t2wQueue' = t2wQueue
           ELSE t2wQueue' = Append(t2wQueue, Batch(tokens))
  BY DEF Emit, Batch

LEMMA BatchType ==
    ASSUME TypeInv, NEW T, NEW tokens \in Seq(TokensOf(T))
    PROVE  Batch(tokens) \in ItemsOf(T)
  <1>1. tokens \in Seq(Tokens)
    <2>1. TokensOf(T) \subseteq Tokens
      BY DEF TokensOf
    <2> HIDE DEF TokensOf, Tokens
    <2> QED BY <2>1
  <1> HIDE DEF Tokens, TokensOf
  <1> QED BY <1>1 DEF Batch, ItemsOf, Items, TypeInv, SoundTypes

LEMMA EmitCarry ==
    ASSUME TypeInv, NEW T, Carry(T), NEW tokens \in Seq(TokensOf(T)), Emit(tokens)
    PROVE  t2wQueue' \in Seq(ItemsOf(T))
  <1>1. t2wQueue \in Seq(ItemsOf(T))
    BY DEF Carry
  <1>2. Batch(tokens) \in ItemsOf(T)
    BY BatchType
  <1>3. t2wQueue' = t2wQueue \/ t2wQueue' = Append(t2wQueue, Batch(tokens))
    BY EmitDoes
  <1> HIDE DEF Batch, ItemsOf
  <1> QED BY <1>1, <1>2, <1>3

\* What there is of a chunk: k of the tokens go on, and the others are kept.
SpokenAs(tokens, k) ==
    /\ k \in 0..Len(tokens)
    /\ at["tts"] = "speak"
    /\ Goto("tts", IF tts.finish THEN "flush" ELSE "text")
    /\ tts' = [tts EXCEPT !.first  = FALSE,
                          !.hand   = IF tts.finish THEN @ ELSE NoChunk,
                          !.buffer = SubSeq(tokens, k + 1, Len(tokens))]
    /\ Emit(SubSeq(tokens, 1, k))
    /\ UNCHANGED <<llmVars, flagVars, round, ttsQueue, t2w, callVars, early, breaks>>

\* Either the chunk is spoken, or the TTS model fails and the turn is disturbed.
LEMMA TtsSpeakDoes ==
    ASSUME TypeInv, NEW T, Carry(T), TtsSpeak
    PROVE  \E tokens \in Seq(TokensOf(T)), k \in Nat :
              /\ SpokenAs(tokens, k)
              /\ \/ story' = Disturbed({tts.hand.turn})
                 \/ /\ UNCHANGED story
                    /\ (tts.first => tts.buffer = <<>>)
                          => tokens = Append(tts.buffer, Token(tts.hand))
  <1>1. PICK spoken \in BOOLEAN, fresh \in BOOLEAN, k \in 0..MaxChunks :
          LET kept   == IF tts.first /\ fresh THEN <<>> ELSE tts.buffer
              tokens == IF spoken THEN Append(kept, Token(tts.hand)) ELSE kept
          IN  /\ k <= Len(tokens)
              /\ Goto("tts", IF tts.finish THEN "flush" ELSE "text")
              /\ tts' = [tts EXCEPT !.first  = FALSE,
                                    !.hand   = IF tts.finish THEN @ ELSE NoChunk,
                                    !.buffer = SubSeq(tokens, k + 1, Len(tokens))]
              /\ story' = IF spoken THEN story ELSE Disturbed({tts.hand.turn})
              /\ Emit(SubSeq(tokens, 1, k))
    BY DEF TtsSpeak
  <1> DEFINE kept   == IF tts.first /\ fresh THEN <<>> ELSE tts.buffer
             tokens == IF spoken THEN Append(kept, Token(tts.hand)) ELSE kept
  <1>2. /\ at["tts"] = "speak"
        /\ UNCHANGED <<llmVars, flagVars, round, ttsQueue, t2w, callVars, early, breaks>>
    BY DEF TtsSpeak
  <1>3. tokens \in Seq(TokensOf(T))
    <2>1. Token(tts.hand) \in TokensOf(T)
      <3>1. tts.hand \in Texts /\ tts.hand.turn \in T
        BY <1>2 DEF TypeInv, TextTypes, Hands, Carry, Holding
      <3> QED BY <3>1, BoundsAssumption DEF Texts, Chunks, Token, Tokens, TokensOf
    <2>2. kept \in Seq(TokensOf(T))
      BY DEF Carry
    <2> HIDE DEF kept, TokensOf
    <2> QED BY <2>1, <2>2
  <1>4. \/ story' = Disturbed({tts.hand.turn})
        \/ /\ UNCHANGED story
           /\ (tts.first => tts.buffer = <<>>)
                 => tokens = Append(tts.buffer, Token(tts.hand))
    <2>1. CASE spoken
      BY <1>1, <2>1
    <2>2. CASE ~spoken
      BY <1>1, <2>2
    <2> QED BY <2>1, <2>2
  <1>5. k \in 0..Len(tokens)
    <2>1. Len(tokens) \in Nat
      BY <1>3
    <2> QED BY <1>1, <2>1, BoundsAssumption
  <1>6. SpokenAs(tokens, k)
    BY <1>1, <1>2, <1>5 DEF SpokenAs
  <1>7. k \in Nat
    BY BoundsAssumption
  <1> HIDE DEF tokens, TokensOf, SpokenAs
  <1> QED BY <1>3, <1>4, <1>6, <1>7

LEMMA TtsSpeakCarry == ASSUME TypeInv, NEW T, Carry(T), TtsSpeak PROVE Carry(T)'
  <1>1. PICK tokens \in Seq(TokensOf(T)), k \in Nat : SpokenAs(tokens, k)
    BY TtsSpeakDoes
  <1>2. k \in 0..Len(tokens)
    BY <1>1 DEF SpokenAs
  <1>3. /\ SubSeq(tokens, 1, k) \in Seq(TokensOf(T))
        /\ SubSeq(tokens, k + 1, Len(tokens)) \in Seq(TokensOf(T))
    <2> HIDE DEF TokensOf
    <2> QED BY <1>2, SplitAt
  <1>4. t2wQueue' \in Seq(ItemsOf(T))
    <2>1. Emit(SubSeq(tokens, 1, k))
      BY <1>1 DEF SpokenAs
    <2> QED BY <1>3, <2>1, EmitCarry
  <1>5. tts \in [hand : Chunks, finish : BOOLEAN, first : BOOLEAN, buffer : Seq(Tokens)]
    BY DEF TypeInv, TextTypes
  <1>6. tts'.buffer \in Seq(TokensOf(T)) /\ (tts.finish => tts'.hand = tts.hand)
    <2> HIDE DEF TokensOf
    <2> QED BY <1>1, <1>3, <1>5 DEF SpokenAs
  <1>7. at["tts"] = "speak" /\ Goto("tts", IF tts.finish THEN "flush" ELSE "text")
        /\ UNCHANGED <<ttsQueue, t2w, chunk>>
    BY <1>1 DEF SpokenAs, callVars
  <1>8. /\ at'["client"] = at["client"]
        /\ at'["tts"] = IF tts.finish THEN "flush" ELSE "text"
    BY <1>7, TtsGone, ThreadPlaces
  <1>9. Holding' => tts'.hand.turn \in T
    BY <1>6, <1>7, <1>8 DEF Holding, Carry
  <1> HIDE DEF Holding
  <1> QED BY <1>4, <1>6, <1>7, <1>8, <1>9 DEF Carry

\* The end of a turn, step by step.
LEMMA TtsFlushDoes ==
    ASSUME TypeInv, TtsFlush
    PROVE  /\ at["tts"] = "flush" /\ Emit(tts.buffer)
           /\ tts' = [tts EXCEPT !.buffer = <<>>] /\ tts'.hand = tts.hand
           /\ tts'.buffer = <<>> /\ tts'.finish = tts.finish
           /\ at'["client"] = at["client"] /\ at'["t2w"] = at["t2w"]
           /\ at'["tts"] = IF tts.hand.kind = "empty" THEN "file" ELSE "done"
           /\ UNCHANGED <<llmVars, flagVars, round, ttsQueue, t2w, callVars, history>>
  <1>1. Goto("tts", IF tts.hand.kind = "empty" THEN "file" ELSE "done")
    BY DEF TtsFlush
  <1>2. /\ at'["client"] = at["client"] /\ at'["t2w"] = at["t2w"]
        /\ at'["tts"] = IF tts.hand.kind = "empty" THEN "file" ELSE "done"
    BY <1>1, TtsGone, ThreadPlaces
  <1> QED BY <1>2 DEF TtsFlush, TypeInv, TextTypes

LEMMA TtsFileDoes ==
    ASSUME TypeInv, TtsFile
    PROVE  /\ at["tts"] = "file" /\ round' = round + 1
           /\ t2wQueue' = Append(t2wQueue, EndMark)
           /\ tts'.buffer = tts.buffer
           /\ at'["client"] = at["client"] /\ at'["t2w"] = at["t2w"]
           /\ \/ at'["tts"] = "text" /\ tts'.hand = NoChunk
              \/ tts.hand.kind = "empty" /\ at'["tts"] = "done" /\ UNCHANGED tts
           /\ UNCHANGED <<llmVars, flagVars, ttsQueue, t2w, callVars, history>>
  <1>1. \/ Goto("tts", "text") /\ NewTurn
        \/ tts.hand.kind = "empty" /\ Goto("tts", "done") /\ UNCHANGED tts
    BY DEF TtsFile
  <1>2. /\ at'["client"] = at["client"] /\ at'["t2w"] = at["t2w"]
        /\ \/ at'["tts"] = "text" /\ NewTurn
           \/ tts.hand.kind = "empty" /\ at'["tts"] = "done" /\ UNCHANGED tts
    BY <1>1, TtsGone, ThreadPlaces
  <1> QED BY <1>2 DEF TtsFile, EndMark, NewTurn, TypeInv, TextTypes

LEMMA TtsEndCarry ==
    ASSUME TypeInv, NEW T, Carry(T), TtsFlush \/ TtsFile PROVE Carry(T)'
  <1>1. CASE TtsFlush
    <2>1. tts.buffer \in Seq(TokensOf(T)) /\ <<>> \in Seq(TokensOf(T)) /\ Emit(tts.buffer)
      BY <1>1, TtsFlushDoes DEF Carry
    <2>2. t2wQueue' \in Seq(ItemsOf(T))
      BY <2>1, EmitCarry
    <2>3. tts'.hand = tts.hand /\ tts'.buffer = <<>> /\ at["tts"] = "flush"
          /\ at'["client"] = at["client"] /\ UNCHANGED <<ttsQueue, t2w, chunk>>
      BY <1>1, TtsFlushDoes DEF callVars
    <2>4. tts'.hand.turn \in T
      BY <2>3 DEF Carry, Holding
    <2> QED BY <2>1, <2>2, <2>3, <2>4 DEF Carry
  <1>2. CASE TtsFile
    <2>1. EndMark \in ItemsOf(T)
      <3>1. tts.hand.turn \in T /\ tts.hand.turn \in Turns \cup {-1}
        BY <1>2, TtsFileDoes DEF Carry, Holding, TypeInv, TextTypes, Chunks
      <3>2. <<>> \in Seq(TokensOf(T)) /\ <<>> \in Seq(Tokens)
        OBVIOUS
      <3> HIDE DEF Tokens, TokensOf
      <3> QED BY <3>1, <3>2 DEF EndMark, ItemsOf, Items, TypeInv, SoundTypes
    <2>2. t2wQueue' \in Seq(ItemsOf(T))
      <3>1. t2wQueue' = Append(t2wQueue, EndMark)
        BY <1>2, TtsFileDoes
      <3>2. t2wQueue \in Seq(ItemsOf(T))
        BY DEF Carry
      <3> HIDE DEF EndMark, ItemsOf
      <3> QED BY <2>1, <3>1, <3>2
    <2>3. /\ tts'.buffer = tts.buffer /\ at'["client"] = at["client"]
          /\ UNCHANGED <<ttsQueue, t2w, chunk>>
          /\ \/ at'["tts"] = "text"
             \/ tts.hand.kind = "empty" /\ at'["tts"] = "done" /\ UNCHANGED tts
      BY <1>2, TtsFileDoes DEF callVars
    <2>4. ~Holding'
      BY <2>3 DEF Holding
    <2> HIDE DEF Holding
    <2> QED BY <2>2, <2>3, <2>4 DEF Carry
  <1> QED BY <1>1, <1>2

-----------------------------------------------------------------------------
\* What Write takes: the tokens that were kept for the round, and all that are queued.
Label  == Last(t2wQueue).round
Inside == [i \in Items |-> i.tokens]
Kept   == IF Label = t2w.round THEN t2w.buffer ELSE <<>>
Taken  == Kept \o FlattenSeq(Mapped(Inside, t2wQueue))
Ended  == {t2wQueue[i].turn : i \in {j \in DOMAIN t2wQueue : t2wQueue[j].final}}

\* What the items of the queue contain, and how Write takes it.
LEMMA InsideIs ==
    ASSUME TypeInv
    PROVE  [i \in DOMAIN t2wQueue |-> t2wQueue[i].tokens] = Mapped(Inside, t2wQueue)
  <1>1. \A i \in DOMAIN t2wQueue : t2wQueue[i] \in Items
    <2> HIDE DEF Items
    <2> QED BY DEF TypeInv, SoundTypes
  <1>2. \A i \in DOMAIN t2wQueue : t2wQueue[i].tokens = Inside[t2wQueue[i]]
    BY <1>1 DEF Inside
  <1> HIDE DEF Inside
  <1> QED BY <1>2 DEF Mapped

LEMMA WriteDoes ==
    ASSUME TypeInv, Write
    PROVE  /\ at["t2w"] = "tokens" /\ ~breakEvent /\ t2wQueue # <<>> /\ t2wQueue' = <<>>
           /\ UNCHANGED <<at, llmVars, flagVars, round, ttsQueue, tts, callVars>>
           /\ \E k \in 0..Len(Taken) :
                 /\ Ended # {} => k = Len(Taken)
                 /\ story' = Written(SubSeq(Taken, 1, k), Ended, Label)
                 /\ t2w'.buffer = SubSeq(Taken, k + 1, Len(Taken))
                 /\ t2w'.round = IF Ended # {} THEN round ELSE Label
  <1>1. Taken = Kept \o FlattenSeq([i \in DOMAIN t2wQueue |-> t2wQueue[i].tokens])
    BY InsideIs DEF Taken
  <1>2. \E k \in 0..Len(Taken) :
                 /\ Ended # {} => k = Len(Taken)
                 /\ story' = Written(SubSeq(Taken, 1, k), Ended, Label)
                 /\ t2w' = [buffer |-> SubSeq(Taken, k + 1, Len(Taken)),
                            round  |-> IF Ended # {} THEN round ELSE Label]
    BY <1>1 DEF Write, Ended, Label, Kept
  <1>3. \E k \in 0..Len(Taken) :
                 /\ Ended # {} => k = Len(Taken)
                 /\ story' = Written(SubSeq(Taken, 1, k), Ended, Label)
                 /\ t2w'.buffer = SubSeq(Taken, k + 1, Len(Taken))
                 /\ t2w'.round = IF Ended # {} THEN round ELSE Label
    <2> HIDE DEF Taken, Ended, Label
    <2> QED BY <1>2
  <1> QED BY <1>3 DEF Write, Enters, flagVars

LEMMA ItemsInside ==
    ASSUME NEW T, NEW queue \in Seq(ItemsOf(T))
    PROVE  FlattenSeq(Mapped(Inside, queue)) \in Seq(TokensOf(T))
  <1> DEFINE f == [i \in ItemsOf(T) |-> i.tokens]
  <1>1. f \in Maps(ItemsOf(T), Seq(TokensOf(T)))
    BY DEF ItemsOf, Maps
  <1>2. \A i \in ItemsOf(T) : i \in Items /\ f[i] = Inside[i]
    BY DEF Inside, ItemsOf
  <1>3. Mapped(Inside, queue) = Mapped(f, queue)
    <2>1. \A j \in DOMAIN queue : queue[j] \in ItemsOf(T)
      <3> HIDE DEF ItemsOf
      <3> QED OBVIOUS
    <2>2. \A j \in DOMAIN queue : Inside[queue[j]] = f[queue[j]]
      BY <1>2, <2>1
    <2> HIDE DEF Inside, f
    <2> QED BY <2>2 DEF Mapped
  <1> HIDE DEF f, Inside, ItemsOf, TokensOf
  <1>4. FlattenSeq(Mapped(f, queue)) \in Seq(TokensOf(T))
    <2>1. <<>> \in Seq(ItemsOf(T))
      OBVIOUS
    <2> QED BY <1>1, <2>1, FlattenMapConcat
  <1> QED BY <1>3, <1>4

LEMMA TakenOf == ASSUME NEW T, Carry(T) PROVE Taken \in Seq(TokensOf(T))
  <1>1. FlattenSeq(Mapped(Inside, t2wQueue)) \in Seq(TokensOf(T))
    BY ItemsInside DEF Carry
  <1>2. Kept \in Seq(TokensOf(T))
    BY DEF Carry, Kept
  <1> HIDE DEF Kept, TokensOf, Inside
  <1> QED BY <1>1, <1>2, ConcatType DEF Taken

LEMMA T2wCarry ==
    ASSUME TypeInv, NEW T, Carry(T), T2wInterrupted \/ T2wDrop \/ Write PROVE Carry(T)'
  <1>1. UNCHANGED <<ttsQueue, tts, chunk>>
        /\ (UNCHANGED at \/ Goto("t2w", "drop") \/ Goto("t2w", "tokens"))
    BY DEF T2wInterrupted, T2wDrop, Write, voiceVars, callVars
  <1>2. at'["client"] = at["client"] /\ at'["tts"] = at["tts"]
    BY <1>1, T2wGone, ThreadPlaces
  <1>3. Holding' <=> Holding
    BY <1>1, <1>2 DEF Holding
  <1>4. t2w'.buffer \in Seq(TokensOf(T)) /\ t2wQueue' \in Seq(ItemsOf(T))
    <2>1. CASE T2wInterrupted
      BY <2>1 DEF T2wInterrupted, voiceVars, Carry
    <2>2. CASE T2wDrop
      <3>1. <<>> \in Seq(TokensOf(T)) /\ <<>> \in Seq(ItemsOf(T))
        OBVIOUS
      <3> HIDE DEF TokensOf, ItemsOf
      <3> QED BY <2>2, <3>1 DEF T2wDrop
    <2>3. CASE Write
      <3>1. PICK k \in 0..Len(Taken) : t2w'.buffer = SubSeq(Taken, k + 1, Len(Taken))
        BY <2>3, WriteDoes
      <3>2. Taken \in Seq(TokensOf(T))
        BY TakenOf
      <3>3. t2wQueue' = <<>> /\ <<>> \in Seq(ItemsOf(T))
        BY <2>3, WriteDoes
      <3> HIDE DEF Taken, TokensOf, ItemsOf
      <3> QED BY <3>1, <3>2, <3>3, SplitAt
    <2> QED BY <2>1, <2>2, <2>3
  <1> HIDE DEF Holding
  <1> QED BY <1>1, <1>2, <1>3, <1>4 DEF Carry

\* Turns enter the pipeline in the decode, and nowhere else.
LEMMA CarryStep ==
    ASSUME TypeInv, NEW T, Carry(T), [Next]_vars, Generate => turn \in T
    PROVE  Carry(T)'
  <1>1. CASE Besides
    BY <1>1, BesidesCarry
  <1>2. CASE ColdPrefillCall \/ SpeechOver \/ SpeechTimeout
    BY <1>2, StartCarry
  <1>3. CASE DecodeCall \/ GiveUp \/ RunOut \/ Break
    BY <1>3, DecodeCarry
  <1>4. CASE Generate
    BY <1>4, GenerateCarry
  <1>5. CASE Speak
    BY <1>5, SpeakCarry
  <1>6. CASE TtsInterrupted \/ TtsClear \/ TtsCleared \/ TtsDone
    BY <1>6, PauseCarry
  <1>7. CASE TakeText
    BY <1>7, TakeCarry
  <1>8. CASE TtsSpeak
    BY <1>8, TtsSpeakCarry
  <1>9. CASE TtsFlush \/ TtsFile
    BY <1>9, TtsEndCarry
  <1>10. CASE T2wInterrupted \/ T2wDrop \/ Write
    BY <1>10, T2wCarry
  <1> QED
    BY <1>1, <1>2, <1>3, <1>4, <1>5, <1>6, <1>7, <1>8, <1>9, <1>10
    DEF Next, Client, Call, Llm, Tts, T2w, Threads, Besides

-----------------------------------------------------------------------------
(* What text and sound say. *)

Numbers == 1..MaxChunks
Pairs   == Numbers \X Nat

\* What tokens, text and filed sound say: numbers of chunks.
NoOf    == [t \in Tokens |-> t.no]
FirstOf == [p \in Pairs |-> p[1]]
Voiced  == [c \in Texts |-> IF c.kind = "speech" THEN <<c.no>> ELSE <<>>]
Nos(tokens)   == Mapped(NoOf, tokens)
Firsts(pairs) == Mapped(FirstOf, pairs)
Spoken(text)  == FlattenSeq(Mapped(Voiced, text))
Queued        == FlattenSeq(Mapped(Inside, t2wQueue))

\* They are numbers of chunks, and a concatenation says what its parts say.
LEMMA NosAre ==
    ASSUME NEW s \in Seq(Tokens), NEW t \in Seq(Tokens)
    PROVE  /\ Nos(s) \in Seq(Numbers) /\ Nos(t) \in Seq(Numbers)
           /\ Nos(s \o t) = Nos(s) \o Nos(t)
  <1>1. NoOf \in Maps(Tokens, Numbers)
    BY DEF NoOf, Maps, Tokens, Numbers
  <1> HIDE DEF NoOf, Tokens, Numbers
  <1> QED BY <1>1, MapType, MapConcat DEF Nos

LEMMA NosOne == ASSUME NEW t \in Tokens PROVE Nos(<<t>>) = <<t.no>> /\ t.no \in Numbers
  <1>1. NoOf \in Maps(Tokens, Numbers) /\ NoOf[t] = t.no
    BY DEF NoOf, Maps, Tokens, Numbers
  <1>2. t.no \in Numbers
    BY DEF Tokens, Numbers
  <1> HIDE DEF NoOf, Tokens, Numbers
  <1> QED BY <1>1, <1>2, MapOne DEF Nos

LEMMA NosNone == Nos(<<>>) = <<>>
  BY MapEmpty DEF Nos

LEMMA FirstsAre ==
    ASSUME NEW s \in Seq(Pairs), NEW t \in Seq(Pairs)
    PROVE  /\ Firsts(s) \in Seq(Numbers) /\ Firsts(t) \in Seq(Numbers)
           /\ Firsts(s \o t) = Firsts(s) \o Firsts(t)
  <1>1. FirstOf \in Maps(Pairs, Numbers)
    BY DEF FirstOf, Maps, Pairs
  <1> HIDE DEF FirstOf, Pairs, Numbers
  <1> QED BY <1>1, MapType, MapConcat DEF Firsts

LEMMA SpokenAre ==
    ASSUME NEW s \in Seq(Texts), NEW t \in Seq(Texts)
    PROVE  /\ Spoken(s) \in Seq(Numbers) /\ Spoken(t) \in Seq(Numbers)
           /\ Spoken(s \o t) = Spoken(s) \o Spoken(t)
  <1>1. Voiced \in Maps(Texts, Seq(Numbers))
    <2>1. \A c \in Texts : c.no \in Numbers
      BY BoundsAssumption DEF Texts, Chunks, Numbers
    <2>2. <<>> \in Seq(Numbers) /\ \A n \in Numbers : <<n>> \in Seq(Numbers)
      OBVIOUS
    <2> HIDE DEF Texts, Numbers
    <2> QED BY <2>1, <2>2 DEF Voiced, Maps
  <1> HIDE DEF Voiced, Texts, Numbers
  <1> QED BY <1>1, FlattenMapConcat DEF Spoken

LEMMA SpokenOne ==
    ASSUME NEW c \in Texts
    PROVE  /\ Spoken(<<c>>) = IF c.kind = "speech" THEN <<c.no>> ELSE <<>>
           /\ Spoken(<<c>>) \in Seq(Numbers) /\ c.no \in Numbers
  <1>0. \A x \in Texts : x.no \in Numbers
    BY BoundsAssumption DEF Texts, Chunks, Numbers
  <1>1. Voiced \in Maps(Texts, Seq(Numbers))
    <2>2. <<>> \in Seq(Numbers) /\ \A n \in Numbers : <<n>> \in Seq(Numbers)
      OBVIOUS
    <2> HIDE DEF Texts, Numbers
    <2> QED BY <1>0, <2>2 DEF Voiced, Maps
  <1>2. Voiced[c] = IF c.kind = "speech" THEN <<c.no>> ELSE <<>>
    BY DEF Voiced
  <1>3. Spoken(<<c>>) = Voiced[c]
    <2> HIDE DEF Voiced, Texts, Numbers
    <2> QED BY <1>1, FlattenMapOne DEF Spoken
  <1>4. Voiced[c] \in Seq(Numbers)
    <2> HIDE DEF Voiced, Texts, Numbers
    <2> QED BY <1>1 DEF Maps
  <1> HIDE DEF Voiced, Texts, Numbers
  <1> QED BY <1>0, <1>2, <1>3, <1>4

LEMMA SpokenNone == Spoken(<<>>) = <<>>
  BY MapEmpty, FlattenEmpty DEF Spoken

-----------------------------------------------------------------------------
(* The rules of concatenation that the steps need. *)

\* Nothing before or behind.
LEMMA Nothing == ASSUME NEW S, NEW a \in Seq(S) PROVE a \o <<>> = a /\ <<>> \o a = a
  OBVIOUS

LEMMA Regroup ==
    ASSUME NEW S, NEW a \in Seq(S), NEW b \in Seq(S), NEW c \in Seq(S)
    PROVE  (a \o b) \o c = a \o (b \o c)
  OBVIOUS

\* What a turn has said, from what has been filed to what is in the call.
LineOf(f, s, h, q, c) == (f \o s) \o ((h \o q) \o c)
SoundOf(w, d, b)      == (w \o d) \o b

LEMMA LineType ==
    ASSUME NEW S, NEW f \in Seq(S), NEW s \in Seq(S), NEW h \in Seq(S), NEW q \in Seq(S),
           NEW c \in Seq(S)
    PROVE  LineOf(f, s, h, q, c) \in Seq(S)
  <1> DEFINE fs == f \o s
             hq == h \o q
  <1>1. fs \in Seq(S) /\ hq \in Seq(S)
    BY ConcatType
  <1> HIDE DEF fs, hq
  <1>2. hq \o c \in Seq(S)
    BY <1>1, ConcatType
  <1> QED BY <1>1, <1>2, ConcatType DEF LineOf, fs, hq

\* A chunk goes from the call into the queue, or from the queue into the hand.
LEMMA LineQueued ==
    ASSUME NEW S, NEW f \in Seq(S), NEW s \in Seq(S), NEW h \in Seq(S), NEW q \in Seq(S),
           NEW v \in Seq(S)
    PROVE  LineOf(f, s, h, q \o v, <<>>) = LineOf(f, s, h, q, v)
  <1> DEFINE hq == h \o q
             qv == q \o v
  <1>1. h \o qv = hq \o v
    OBVIOUS
  <1>2. qv \in Seq(S)
    BY ConcatType
  <1> HIDE DEF qv
  <1>3. h \o qv \in Seq(S)
    BY <1>2, ConcatType
  <1>4. (h \o qv) \o <<>> = h \o qv
    BY <1>3, Nothing
  <1> QED BY <1>1, <1>4 DEF LineOf, qv

LEMMA LineTaken ==
    ASSUME NEW S, NEW f \in Seq(S), NEW s \in Seq(S), NEW v \in Seq(S), NEW q \in Seq(S),
           NEW c \in Seq(S)
    PROVE  LineOf(f, s, <<>>, v \o q, c) = LineOf(f, s, v, q, c)
  <1> DEFINE vq == v \o q
  <1>1. vq \in Seq(S)
    BY ConcatType
  <1>2. <<>> \o vq = vq
    BY <1>1, Nothing
  <1> QED BY <1>2 DEF LineOf

\* A chunk is made.
Followed(said, v) == said \o v

LEMMA LineLonger ==
    ASSUME NEW S, NEW f \in Seq(S), NEW s \in Seq(S), NEW h \in Seq(S), NEW q \in Seq(S),
           NEW v \in Seq(S), NEW said, LineOf(f, s, h, q, <<>>) = said
    PROVE  LineOf(f, s, h, q, v) = Followed(said, v)
  <1> DEFINE fs == f \o s
             hq == h \o q
  <1>1. fs \in Seq(S) /\ hq \in Seq(S)
    BY ConcatType
  <1> HIDE DEF fs, hq
  <1>2. hq \o <<>> = hq
    BY <1>1, Nothing
  <1>3. fs \o (hq \o v) = (fs \o hq) \o v
    BY <1>1
  <1> QED BY <1>2, <1>3 DEF LineOf, Followed, fs, hq

\* What was in the hand becomes sound.
LEMMA LineSounds ==
    ASSUME NEW S, NEW f \in Seq(S), NEW s \in Seq(S), NEW h \in Seq(S), NEW q \in Seq(S),
           NEW c \in Seq(S)
    PROVE  LineOf(f, s \o h, <<>>, q, c) = LineOf(f, s, h, q, c)
  <1> DEFINE fs == f \o s
             qc == q \o c
  <1>1. fs \in Seq(S) /\ qc \in Seq(S)
    BY ConcatType
  <1>2. f \o (s \o h) = fs \o h
    OBVIOUS
  <1>3. (h \o q) \o c = h \o qc
    OBVIOUS
  <1>4. <<>> \o q = q
    BY Nothing
  <1> HIDE DEF fs, qc
  <1>5. (fs \o h) \o qc = fs \o (h \o qc)
    BY <1>1
  <1> QED BY <1>2, <1>3, <1>4, <1>5 DEF fs, qc, LineOf

\* Sound is filed.
LEMMA LineFiled ==
    ASSUME NEW S, NEW f \in Seq(S), NEW a \in Seq(S), NEW s \in Seq(S), NEW h \in Seq(S),
           NEW q \in Seq(S), NEW c \in Seq(S)
    PROVE  LineOf(Followed(f, a), s, h, q, c) = LineOf(f, Followed(a, s), h, q, c)
  <1>1. (f \o a) \o s = f \o (a \o s)
    OBVIOUS
  <1> QED BY <1>1 DEF LineOf, Followed

LEMMA SoundType ==
    ASSUME NEW S, NEW w \in Seq(S), NEW d \in Seq(S), NEW b \in Seq(S)
    PROVE  SoundOf(w, d, b) \in Seq(S)
  <1>1. w \o d \in Seq(S)
    BY ConcatType
  <1> QED BY <1>1 DEF SoundOf

\* Tokens are handed on: e goes into the queue and r is kept.
LEMMA SoundHandedOn ==
    ASSUME NEW S, NEW w \in Seq(S), NEW d \in Seq(S), NEW b \in Seq(S), NEW t \in Seq(S),
           NEW e \in Seq(S), NEW r \in Seq(S)
    PROVE  Followed(e, r) = Followed(b, t)
             => SoundOf(w, Followed(d, e), r) = Followed(SoundOf(w, d, b), t)
  <1> DEFINE wd == w \o d
  <1>1. wd \in Seq(S)
    BY ConcatType
  <1>2. w \o (d \o e) = wd \o e
    OBVIOUS
  <1> HIDE DEF wd
  <1>3. (wd \o e) \o r = wd \o (e \o r)
    BY <1>1
  <1>4. (wd \o b) \o t = wd \o (b \o t)
    BY <1>1
  <1> QED BY <1>2, <1>3, <1>4 DEF wd, SoundOf, Followed

\* Tokens are written: a is, and r is kept.
LEMMA SoundWritten ==
    ASSUME NEW S, NEW w \in Seq(S), NEW d \in Seq(S), NEW b \in Seq(S), NEW a \in Seq(S),
           NEW r \in Seq(S)
    PROVE  Followed(w, d) = Followed(a, r)
             => SoundOf(w, d, b) = Followed(a, SoundOf(r, <<>>, b))
  <1>1. r \o <<>> = r
    BY Nothing
  <1>2. (a \o r) \o b = a \o (r \o b)
    OBVIOUS
  <1> QED BY <1>1, <1>2 DEF SoundOf, Followed

-----------------------------------------------------------------------------
(* The story of a turn that goes on, or has been heard. *)

Stories == [calm : BOOLEAN, round : Nat, said : Seq(Numbers), filed : Seq(Pairs),
            ended : SUBSET Nat, cut : BOOLEAN]

InHand   == IF at["tts"] = "speak" THEN <<tts.hand.no>> ELSE <<>>
InCall   == IF at["client"] = "room" THEN Spoken(<<chunk>>) ELSE <<>>
Sounding == SoundOf(t2w.buffer, Queued, tts.buffer)
Line(m)  == LineOf(Firsts(story[m].filed), Nos(Sounding), InHand, Spoken(ttsQueue), InCall)

Labelled(m) == story[m].filed \in Seq(Numbers \X {story[m].round})

\* A turn that has been heard: all of it is filed, and nothing of it is on its way.
Over(m) ==
    /\ m < turn /\ Carry(Turns \ {m})
    /\ Firsts(story[m].filed) = story[m].said /\ Labelled(m)
    /\ story[m].ended = {story[m].round}

\* The call of the turn has returned, and the next one has not been answered.
Left(m) == turn = m + 1 /\ at["client"] \in {"out", "silence", "push"}

Unfinal == {i \in Items : ~i.final}
Labels(r) == {i \in Items : i.round = r}

\* No end has been marked.
Unmarked(m) == round = story[m].round /\ t2wQueue \in Seq(Unfinal)

\* The last chunk of the turn has not been taken, nor anything unspoken been dropped.
\* If the answer ran out, there is none.
Open(m) ==
    /\ ~tts.finish
    /\ at["tts"] = "text" \/ (at["tts"] = "speak" /\ tts.hand.kind = "speech")
    /\ \/ /\ turn = m /\ at["client"] \in {"await", "generate", "room"}
          /\ \A i \in DOMAIN ttsQueue : ~ttsQueue[i].last
       \/ /\ Left(m) /\ ttsQueue # <<>>
          /\ \A i \in DOMAIN ttsQueue : ttsQueue[i].last <=> i = Len(ttsQueue)
       \/ /\ Left(m) /\ story[m].cut
          /\ \A i \in DOMAIN ttsQueue : ~ttsQueue[i].last
    /\ IF at["client"] = "await" THEN ttsQueue = <<>> /\ at["tts"] = "text" ELSE ~speekDone

\* It has, and the thread is on its way to mark the end.
Closing(m) ==
    /\ tts.finish /\ Left(m) /\ ttsQueue = <<>>
    /\ \/ at["tts"] = "speak" /\ tts.hand.kind = "speech"
       \/ at["tts"] = "flush"
       \/ at["tts"] = "done" /\ tts.buffer = <<>> /\ tts.hand.kind # "empty"
       \/ at["tts"] = "file" /\ tts.buffer = <<>>

\* The mark waits to be heard.
Closed(m) ==
    /\ Left(m) /\ ttsQueue = <<>> /\ tts.buffer = <<>>
    /\ at["tts"] = "text" \/ (at["tts"] = "done" /\ tts.hand.kind = "empty")
    /\ t2wQueue # <<>> /\ t2wQueue[Len(t2wQueue)].final

Labelling(m) ==
    /\ t2wQueue \in Seq(Labels(story[m].round))
    /\ t2w.buffer # <<>> => t2w.round = story[m].round

Stage(m) == (Unmarked(m) /\ (Open(m) \/ Closing(m))) \/ Closed(m)

\* A calm turn that has not been heard to its end.
Going(m) ==
    /\ ~breakEvent /\ at["t2w"] = "tokens" /\ Carry({m}) /\ Labelling(m)
    /\ tts.first => tts.buffer = <<>>
    /\ Labelled(m) /\ Line(m) = story[m].said
    /\ Stage(m)

Told(m) == story[m].calm => IF Heard(m) THEN Over(m) ELSE Going(m)

StoryInv == story \in [Turns -> Stories] /\ \A m \in Turns : Told(m)

\* Types of the parts of a line.
LEMMA LineParts ==
    ASSUME TypeInv, story \in [Turns -> Stories], NEW m \in Turns
    PROVE  /\ Firsts(story[m].filed) \in Seq(Numbers)
           /\ Sounding \in Seq(Tokens) /\ Nos(Sounding) \in Seq(Numbers)
           /\ t2w.buffer \in Seq(Tokens) /\ Queued \in Seq(Tokens) /\ tts.buffer \in Seq(Tokens)
           /\ InHand \in Seq(Numbers) /\ Spoken(ttsQueue) \in Seq(Numbers)
           /\ InCall \in Seq(Numbers)
  <1>1. t2w.buffer \in Seq(Tokens) /\ tts.buffer \in Seq(Tokens)
    BY DEF TypeInv, TextTypes, SoundTypes
  <1>2. Queued \in Seq(Tokens)
    <2>1. Inside \in Maps(Items, Seq(Tokens))
      BY DEF Inside, Maps, Items
    <2>2. t2wQueue \in Seq(Items)
      BY DEF TypeInv, SoundTypes
    <2> HIDE DEF Inside, Items, Tokens
    <2> QED BY <2>1, <2>2, FlattenMapConcat DEF Queued
  <1>3. Sounding \in Seq(Tokens)
    <2> HIDE DEF Tokens, Queued
    <2> QED BY <1>1, <1>2, SoundType DEF Sounding
  <1>4. Nos(Sounding) \in Seq(Numbers)
    <2> HIDE DEF Tokens, Numbers, Nos, Sounding
    <2> QED BY <1>3, NosAre
  <1>5. Firsts(story[m].filed) \in Seq(Numbers)
    <2>1. story[m].filed \in Seq(Pairs)
      <3> HIDE DEF Pairs, Numbers
      <3> QED BY DEF Stories
    <2> HIDE DEF Pairs, Numbers, Firsts
    <2> QED BY <2>1, FirstsAre
  <1>6. Spoken(ttsQueue) \in Seq(Numbers)
    <2>1. ttsQueue \in Seq(Texts)
      BY DEF TypeInv, TextTypes
    <2> HIDE DEF Texts, Numbers, Spoken
    <2> QED BY <2>1, SpokenAre
  <1>7. InCall \in Seq(Numbers)
    <2>1. at["client"] = "room" => chunk \in Texts
      BY DEF TypeInv, CallShape
    <2>2. <<>> \in Seq(Numbers)
      OBVIOUS
    <2> HIDE DEF Texts, Numbers, Spoken
    <2> QED BY <2>1, <2>2, SpokenOne DEF InCall
  <1>8. InHand \in Seq(Numbers)
    <2>1. at["tts"] = "speak" => tts.hand \in Texts
      BY DEF TypeInv, TextTypes, Hands
    <2>2. at["tts"] = "speak" => tts.hand.no \in Numbers
      <3> HIDE DEF Texts, Numbers
      <3> QED BY <2>1, SpokenOne
    <2> HIDE DEF Numbers
    <2> QED BY <2>2 DEF InHand
  <1> QED BY <1>1, <1>2, <1>3, <1>4, <1>5, <1>6, <1>7, <1>8

\* A turn that has been heard stays as it is.
LEMMA OverStep ==
    ASSUME TypeInv, NEW m \in Turns, Over(m), [Next]_vars, story'[m] = story[m]
    PROVE  Over(m)'
  <1>1. Generate => turn \in Turns \ {m}
    BY DEF Over, Generate, TypeInv, CallShape, Turns
  <1>2. Carry(Turns \ {m})'
    BY <1>1, CarryStep DEF Over
  <1>3. turn' = turn \/ turn' = turn + 1
    BY DEF Next, Client, Call, Llm, Tts, T2w, PrefillCall, FirstPrefillCall, ColdPrefillCall,
           DecodeCall, Break, SpeechOver, SpeechTimeout, Push, PushFrame, StartRound, Begin,
           Generate, GiveUp, RunOut, Speak, Return, Wait, TakeBatch, Prefill, Answer, Answered, AnswerAtOnce, TtsInterrupted,
           TtsClear, TtsCleared, TakeText, TtsSpeak, TtsFlush, TtsDone, TtsFile, T2wInterrupted,
           T2wDrop, Write, callVars, vars
  <1>4. m < turn'
    BY <1>3 DEF Over, TypeInv, CallShape, Turns
  <1>5. Labelled(m)'
    BY DEF Over, Labelled
  <1> QED BY <1>2, <1>4, <1>5 DEF Over

\* Whatever is disturbed, or begins anew, had not been heard.
LEMMA DisturbedIs ==
    ASSUME NEW S, NEW m \in Turns
    PROVE  Disturbed(S)[m] = IF m \in S THEN Blank ELSE story[m]
  BY DEF Disturbed

\* Steps that disturb a turn that goes on.
LEMMA DisturbStep ==
    ASSUME TypeInv, StoryInv, NEW m \in Turns,
           ColdPrefillCall \/ SpeechTimeout \/ Break \/ (DecodeCall /\ m # turn)
    PROVE  Told(m)'
  <1>1. story'[m] = IF Heard(m) THEN story[m] ELSE Blank
    <2>1. m \in Unheard <=> ~Heard(m)
      BY DEF Unheard
    <2>2. story'[m] = Disturbed(Unheard)[m]
      BY DEF ColdPrefillCall, SpeechTimeout, Break, DecodeCall, Disturbed
    <2> QED BY <2>1, <2>2, DisturbedIs
  <1>2. CASE Heard(m)
    <2>1. Heard(m)' <=> Heard(m)
      BY <1>1, <1>2 DEF Heard
    <2>2. [Next]_vars
      BY DEF Next, Client, Call
    <2>3. story[m].calm => Over(m)
      BY <1>2 DEF StoryInv, Told
    <2>4. story'[m] = story[m]
      BY <1>1, <1>2
    <2> HIDE DEF Heard, Over
    <2> QED BY <1>2, <2>1, <2>2, <2>3, <2>4, OverStep DEF Told
  <1>3. CASE ~Heard(m)
    BY <1>1, <1>3 DEF Told, Blank
  <1> QED BY <1>2, <1>3

-----------------------------------------------------------------------------
(* A turn that goes on, step by step: the calls. *)

\* A step that leaves the sound alone.
LEMMA SoundStays ==
    ASSUME NEW m \in Turns, UNCHANGED <<story, t2wQueue, t2w>>, tts'.buffer = tts.buffer
    PROVE  /\ Firsts(story'[m].filed) = Firsts(story[m].filed)
           /\ Sounding' = Sounding /\ Nos(Sounding)' = Nos(Sounding)
           /\ Labelled(m)' <=> Labelled(m)
  <1>1. Queued' = Queued
    BY DEF Queued, Mapped, Inside
  <1>2. Sounding' = Sounding
    BY <1>1 DEF Sounding, SoundOf
  <1>3. Nos(Sounding)' = Nos(Sounding)
    BY <1>2 DEF Nos, Mapped, NoOf
  <1>4. Labelled(m)' <=> Labelled(m)
    BY DEF Labelled
  <1> QED BY <1>2, <1>3, <1>4

\* A step that has nothing to do with the voice.
LEMMA GoingBesides ==
    ASSUME TypeInv, NEW m \in Turns, Going(m), Besides PROVE Going(m)'
  <1>1. ~breakEvent /\ at["t2w"] = "tokens" /\ Carry({m}) /\ Labelling(m)
        /\ (tts.first => tts.buffer = <<>>) /\ Labelled(m) /\ Line(m) = story[m].said
        /\ Stage(m)
    BY DEF Going
  <1>2. /\ UNCHANGED <<story, round, ttsQueue, tts, t2wQueue, t2w, turn, chunk>>
        /\ ~breakEvent' /\ at'["tts"] = at["tts"] /\ at'["t2w"] = at["t2w"]
        /\ \/ at'["client"] = at["client"]
           \/ at["client"] = "await" /\ at'["client"] = "generate" /\ speekDone' = FALSE
           \/ at["client"] \in {"out", "push"} /\ at'["client"] \in {"out", "silence"}
        /\ speekDone' = FALSE \/ speekDone' = speekDone
    <2>1. breakEvent' = breakEvent \/ breakEvent' = FALSE
      BY BesidesDoes
    <2>2. ~breakEvent'
      BY <1>1, <2>1
    <2>3. speekDone' = FALSE \/ speekDone' = speekDone
      BY <1>1, BesidesDoes
    <2>4. UNCHANGED <<story, round, ttsQueue, tts, t2wQueue, t2w, turn, chunk>>
      BY BesidesDoes DEF voiceVars
    <2> QED BY <2>2, <2>3, <2>4, BesidesDoes
  <1>3. Carry({m})'
    BY <1>1, BesidesCarry
  <1>4. Line(m)' = Line(m)
    <2>1. InHand' = InHand /\ InCall' = InCall /\ Spoken(ttsQueue)' = Spoken(ttsQueue)
      BY <1>2 DEF InHand, InCall, Spoken, Mapped, Voiced
    <2>2. Firsts(story'[m].filed) = Firsts(story[m].filed) /\ Nos(Sounding)' = Nos(Sounding)
      BY <1>2, SoundStays
    <2>3. Firsts(story[m].filed)' = Firsts(story'[m].filed)
      OBVIOUS
    <2> HIDE DEF InHand, InCall, Spoken, Firsts, Nos, Sounding
    <2> QED BY <2>1, <2>2, <2>3 DEF Line
  <1>5. Labelled(m)' /\ Labelling(m)'
    BY <1>1, <1>2 DEF Labelled, Labelling, Labels
  <1>6. Stage(m)'
    <2>1. Unmarked(m)' <=> Unmarked(m)
      BY <1>2 DEF Unmarked, Unfinal
    <2>2. Left(m) => Left(m)'
      BY <1>2 DEF Left
    <2>3. Closing(m) => Closing(m)'
      BY <1>2, <2>2 DEF Closing
    <2>4. Closed(m) => Closed(m)'
      BY <1>2, <2>2 DEF Closed
    <2>5. Open(m) => Open(m)'
      <3>1. turn = m /\ at["client"] \in {"await", "generate", "room"}
              => turn' = m /\ at'["client"] \in {"await", "generate", "room"}
        BY <1>2
      <3>2. Open(m) => (IF at'["client"] = "await" THEN ttsQueue = <<>> /\ at["tts"] = "text"
                        ELSE ~speekDone')
        BY <1>2 DEF Open
      <3> HIDE DEF Left
      <3> QED BY <1>2, <2>2, <3>1, <3>2 DEF Open
    <2> QED BY <1>1, <2>1, <2>3, <2>4, <2>5 DEF Stage
  <1> QED BY <1>1, <1>2, <1>3, <1>4, <1>5, <1>6 DEF Going

\* The next call waits for the speech to be over; the queue of text is then empty.
LEMMA GoingSpeechOver ==
    ASSUME TypeInv, NEW m \in Turns, Going(m), SpeechOver PROVE Going(m)'
  <1>1. ~breakEvent /\ at["t2w"] = "tokens" /\ Carry({m}) /\ Labelling(m)
        /\ (tts.first => tts.buffer = <<>>) /\ Labelled(m) /\ Line(m) = story[m].said
        /\ Stage(m)
    BY DEF Going
  <1>2. at["client"] = "silence" /\ speekDone
    BY <1>1 DEF SpeechOver, Enters, Wanted
  <1>3. Closing(m) \/ Closed(m)
    BY <1>1, <1>2 DEF Stage, Open
  <1>4. Goto("client", "push") /\ ttsQueue' = <<>>
        /\ UNCHANGED <<story, round, tts, t2wQueue, t2w, turn, chunk, breakEvent>>
    BY DEF SpeechOver, StartRound, callVars
  <1>5. at'["client"] = "push" /\ at'["tts"] = at["tts"] /\ at'["t2w"] = at["t2w"]
    BY <1>4, ClientGone, ThreadPlaces
  <1>6. ttsQueue' = ttsQueue
    BY <1>3, <1>4 DEF Closing, Closed
  <1>7. Carry({m})'
    BY <1>1, StartCarry
  <1>8. Line(m)' = Line(m)
    <2>1. InHand' = InHand /\ InCall' = InCall /\ Spoken(ttsQueue)' = Spoken(ttsQueue)
      BY <1>2, <1>4, <1>5, <1>6 DEF InHand, InCall, Spoken, Mapped, Voiced
    <2>2. Firsts(story'[m].filed) = Firsts(story[m].filed) /\ Nos(Sounding)' = Nos(Sounding)
      BY <1>4, SoundStays
    <2>3. Firsts(story[m].filed)' = Firsts(story'[m].filed)
      OBVIOUS
    <2> HIDE DEF InHand, InCall, Spoken, Firsts, Nos, Sounding
    <2> QED BY <2>1, <2>2, <2>3 DEF Line
  <1>9. Labelled(m)' /\ Labelling(m)'
    BY <1>1, <1>4 DEF Labelled, Labelling, Labels
  <1>10. Stage(m)'
    BY <1>1, <1>2, <1>3, <1>4, <1>5, <1>6 DEF Stage, Open, Unmarked, Unfinal, Closing, Closed, Left
  <1> QED BY <1>1, <1>4, <1>5, <1>7, <1>8, <1>9, <1>10 DEF Going

\* A turn begins when all was done.
LEMMA GoingBegins ==
    ASSUME TypeInv, DecodeCall, NEW m \in Turns, m = turn, story \in [Turns -> Stories]
    PROVE  Told(m)'
  <1>1. /\ Goto("client", "await") /\ turn' = turn
        /\ UNCHANGED <<ttsQueue, tts, t2wQueue, t2w, breakEvent, chunk>>
        /\ story'[m] = IF AllDone THEN [Blank EXCEPT !.calm = TRUE, !.round = round']
                       ELSE Blank
    <2>1. story' = [Disturbed(Unheard) EXCEPT ![turn] =
                    IF AllDone THEN [Blank EXCEPT !.calm = TRUE, !.round = round']
                    ELSE Blank]
      BY DEF DecodeCall
    <2> DEFINE began == IF AllDone THEN [Blank EXCEPT !.calm = TRUE, !.round = round']
                        ELSE Blank
    <2>2. story' = [Disturbed(Unheard) EXCEPT ![m] = began]
      BY <2>1
    <2> HIDE DEF began
    <2>3. story'[m] = began
      BY <2>2 DEF Disturbed
    <2> QED BY <2>3 DEF DecodeCall, callVars, flagVars, began
  <1>2. CASE ~AllDone
    BY <1>1, <1>2 DEF Told, Blank
  <1>3. CASE AllDone
    <2>1. /\ ~breakEvent' /\ ttsQueue' = <<>> /\ ~tts'.finish /\ tts'.first
          /\ tts'.buffer = <<>> /\ t2wQueue' = <<>> /\ t2w'.buffer = <<>>
          /\ at["tts"] = "text" /\ at["t2w"] = "tokens"
      BY <1>1, <1>3 DEF AllDone
    <2>2. at'["client"] = "await" /\ at'["tts"] = "text" /\ at'["t2w"] = "tokens"
      BY <1>1, <2>1, ClientGone, ThreadPlaces
    <2>3. story'[m].filed = <<>> /\ story'[m].said = <<>> /\ story'[m].ended = {}
          /\ story'[m].round = round'
      BY <1>1, <1>3 DEF Blank
    <2>4. Carry({m})'
      <3>1. /\ <<>> \in Seq(TokensOf({m})) /\ <<>> \in Seq(ItemsOf({m}))
            /\ <<>> \in Seq(TextsOf({m}))
        OBVIOUS
      <3>2. ~Holding'
        BY <2>2 DEF Holding
      <3> HIDE DEF Holding
      <3> QED BY <2>1, <2>2, <3>1, <3>2 DEF Carry
    <2>5. Labelling(m)' /\ Labelled(m)' /\ Unmarked(m)'
      <3>1. <<>> \in Seq(Labels(round')) /\ <<>> \in Seq(Numbers \X {round'})
            /\ <<>> \in Seq(Unfinal)
        OBVIOUS
      <3>2. t2wQueue' \in Seq(Unfinal)' /\ t2wQueue' \in Seq(Labels(story[m].round))'
        BY <2>1, <3>1
      <3>3. story'[m].filed \in Seq(Numbers \X {story'[m].round})
        BY <2>3, <3>1
      <3> QED BY <2>1, <2>3, <3>2, <3>3 DEF Labelling, Labelled, Unmarked
    <2>6. Line(m)' = <<>>
      <3>1. Queued' = <<>>
        BY <2>1, MapEmpty, FlattenEmpty DEF Queued
      <3>2. Sounding' = <<>>
        <4>1. <<>> \o <<>> = <<>>
          OBVIOUS
        <4> QED BY <2>1, <3>1, <4>1 DEF Sounding, SoundOf
      <3>3. Nos(Sounding)' = <<>>
        BY <3>2, NosNone
      <3>4. Firsts(story[m].filed)' = <<>>
        BY <2>3, MapEmpty DEF Firsts
      <3>5. InHand' = <<>> /\ InCall' = <<>>
        BY <2>2 DEF InHand, InCall
      <3>6. Spoken(ttsQueue)' = <<>>
        BY <2>1, SpokenNone
      <3> HIDE DEF Nos, Sounding, Firsts, InHand, InCall, Spoken
      <3> QED BY <3>3, <3>4, <3>5, <3>6 DEF Line, LineOf
    <2>7. Open(m)'
      <3>1. turn' = m
        BY <1>1
      <3> QED BY <2>1, <2>2, <3>1 DEF Open
    <2>8. Going(m)'
      BY <2>1, <2>2, <2>3, <2>4, <2>5, <2>6, <2>7 DEF Going, Stage
    <2> QED BY <2>3, <2>8 DEF Told, Heard
  <1> QED BY <1>2, <1>3

\* A chunk that can be spoken has been said.
LEMMA GenerateStory ==
    ASSUME TypeInv, story \in [Turns -> Stories], Generate, NEW m \in Turns
    PROVE  IF m = turn /\ story[m].calm /\ chunk'.kind = "speech"
           THEN /\ story'[m].said = Append(story[m].said, chunk'.no)
                /\ story'[m].filed = story[m].filed /\ story'[m].ended = story[m].ended
                /\ story'[m].round = story[m].round /\ story'[m].calm = story[m].calm
           ELSE story'[m] = story[m]
  <1>1. made' = made + 1 /\ chunk'.no = made + 1
        /\ story' = IF story[turn].calm /\ chunk'.kind = "speech"
                    THEN [story EXCEPT ![turn].said = Append(@, made')] ELSE story
    BY DEF Generate
  <1>2. turn \in Turns
    BY DEF Generate, TypeInv, CallShape
  <1>3. CASE m = turn
    BY <1>1, <1>2, <1>3 DEF Stories
  <1>4. CASE m # turn
    BY <1>1, <1>2, <1>4
  <1> QED BY <1>3, <1>4

\* It is then in the call, behind all that is on its way.
LEMMA GoingGenerates ==
    ASSUME TypeInv, TypeInv', StoryInv, NEW m \in Turns, story[m].calm, Going(m), Generate
    PROVE  Going(m)'
  <1>1. ~breakEvent /\ at["t2w"] = "tokens" /\ Carry({m}) /\ Labelling(m)
        /\ (tts.first => tts.buffer = <<>>) /\ Labelled(m) /\ Line(m) = story[m].said
        /\ Stage(m)
    BY DEF Going
  <1>2. /\ at["client"] = "generate" /\ Goto("client", "room")
        /\ UNCHANGED <<breakEvent, speekDone, round, ttsQueue, tts, t2wQueue, t2w, turn>>
    BY DEF Generate, flagVars, voiceVars
  <1>3. at'["client"] = "room" /\ at'["tts"] = at["tts"] /\ at'["t2w"] = at["t2w"]
    BY <1>2, ClientGone, ThreadPlaces
  <1>4. Unmarked(m) /\ Open(m) /\ turn = m
    BY <1>1, <1>2 DEF Stage, Open, Closing, Closed, Left
  <1>5. Open(m)' /\ Unmarked(m)'
    <2>1. story'[m].round = story[m].round
      BY GenerateStory DEF StoryInv
    <2>2. Unmarked(m)'
      BY <1>2, <1>4, <2>1 DEF Unmarked, Unfinal
    <2> QED BY <1>2, <1>3, <1>4, <2>2 DEF Open, Left
  <1>6. Carry({m})'
    BY <1>1, <1>4, GenerateCarry
  <1>7. story \in [Turns -> Stories]
    BY DEF StoryInv
  <1>8. story'[m].filed = story[m].filed /\ story'[m].round = story[m].round
    BY <1>7, GenerateStory
  <1>9. Labelled(m)' /\ Labelling(m)'
    BY <1>1, <1>2, <1>8 DEF Labelled, Labelling, Labels
  <1>10. Line(m)' = story'[m].said
    <2> DEFINE f == Firsts(story[m].filed)
               s == Nos(Sounding)
               h == InHand
               q == Spoken(ttsQueue)
               v == Spoken(<<chunk'>>)
    <2>1. /\ f \in Seq(Numbers) /\ s \in Seq(Numbers) /\ h \in Seq(Numbers)
          /\ q \in Seq(Numbers)
      <3> HIDE DEF Firsts, Nos, Sounding, InHand, Spoken
      <3> QED BY <1>7, LineParts
    <2>2. chunk' \in Texts
      BY <1>3 DEF TypeInv, CallShape
    <2>3. v \in Seq(Numbers) /\ v = IF chunk'.kind = "speech" THEN <<chunk'.no>> ELSE <<>>
      <3> HIDE DEF Texts, Spoken, Numbers
      <3> QED BY <2>2, SpokenOne
    <2>4. Line(m)' = LineOf(f, s, h, q, v)
      <3>1. InHand' = h /\ Spoken(ttsQueue)' = q
        BY <1>2, <1>3 DEF InHand, Spoken, Mapped, Voiced
      <3>2. InCall' = v
        BY <1>3 DEF InCall, Spoken, Mapped, Voiced
      <3>3. Firsts(story[m].filed)' = f
        BY <1>8 DEF Firsts, Mapped, FirstOf
      <3>4. Nos(Sounding)' = s
        <4>1. Sounding' = Sounding
          BY <1>2 DEF Sounding, SoundOf, Queued, Mapped, Inside
        <4> QED BY <4>1 DEF Nos, Mapped, NoOf
      <3> HIDE DEF InHand, InCall, Spoken, Firsts, Nos, Sounding
      <3> QED BY <3>1, <3>2, <3>3, <3>4 DEF Line
    <2>5. Line(m) = LineOf(f, s, h, q, <<>>)
      <3>1. InCall = <<>>
        BY <1>2 DEF InCall
      <3> HIDE DEF InHand, InCall, Spoken, Firsts, Nos, Sounding
      <3> QED BY <3>1 DEF Line
    <2>6. Line(m)' = Line(m) \o v
      <3>1. v \in Seq(Numbers)
        BY <2>3
      <3> HIDE DEF f, s, h, q, v, Numbers
      <3>2. LineOf(f, s, h, q, <<>>) = Line(m)
        BY <2>5
      <3> HIDE DEF Line
      <3>3. LineOf(f, s, h, q, v) = Followed(Line(m), v)
        BY <2>1, <3>1, <3>2, LineLonger
      <3> QED BY <2>4, <3>3 DEF Followed
    <2>7. story[m].said \in Seq(Numbers)
      BY <1>7 DEF Stories
    <2>8. story'[m].said = story[m].said \o v
      <3>1. CASE chunk'.kind = "speech"
        <4>1. story'[m].said = Append(story[m].said, chunk'.no) /\ v = <<chunk'.no>>
          BY <1>4, <1>7, <2>3, <3>1, GenerateStory
        <4> HIDE DEF v, Numbers
        <4> QED BY <2>7, <4>1
      <3>2. CASE chunk'.kind # "speech"
        <4>1. story'[m] = story[m] /\ v = <<>>
          BY <1>7, <2>3, <3>2, GenerateStory
        <4> HIDE DEF v, Numbers
        <4> QED BY <2>7, <4>1
      <3> QED BY <3>1, <3>2
    <2> QED BY <1>1, <2>6, <2>8
  <1> QED BY <1>1, <1>2, <1>3, <1>5, <1>6, <1>9, <1>10 DEF Going, Stage

\* A chunk enters the queue: it was the last thing in the call.
LEMMA GoingSpeaks ==
    ASSUME TypeInv, TypeInv', StoryInv, NEW m \in Turns, Going(m), Speak
    PROVE  Going(m)'
  <1>1. ~breakEvent /\ at["t2w"] = "tokens" /\ Carry({m}) /\ Labelling(m)
        /\ (tts.first => tts.buffer = <<>>) /\ Labelled(m) /\ Line(m) = story[m].said
        /\ Stage(m)
    BY DEF Going
  <1>2. at["client"] = "room"
    BY DEF Speak, Enters
  <1>3. Unmarked(m) /\ Open(m) /\ turn = m /\ ~speekDone
    BY <1>1, <1>2 DEF Stage, Open, Closing, Closed, Left
  <1>4. /\ ttsQueue' = Append(ttsQueue, chunk)
        /\ \/ chunk.last /\ Goto("client", "out") /\ turn' = turn + 1
           \/ ~chunk.last /\ Goto("client", "generate") /\ turn' = turn
        /\ UNCHANGED <<story, breakEvent, speekDone, round, tts, t2wQueue, t2w>>
    BY <1>3 DEF Speak, Return, flagVars, history
  <1>5. /\ \/ chunk.last /\ at'["client"] = "out" /\ turn' = m + 1
           \/ ~chunk.last /\ at'["client"] = "generate" /\ turn' = m
        /\ at'["tts"] = at["tts"] /\ at'["t2w"] = at["t2w"]
    BY <1>3, <1>4, ClientGone, ThreadPlaces
  <1>6. Carry({m})'
    BY <1>1, SpeakCarry
  <1>7. story \in [Turns -> Stories] /\ ttsQueue \in Seq(Texts) /\ chunk \in Texts
    BY <1>2 DEF StoryInv, TypeInv, TextTypes, CallShape
  <1>8. Labelled(m)' /\ Labelling(m)' /\ Unmarked(m)'
    BY <1>1, <1>3, <1>4 DEF Labelled, Labelling, Labels, Unmarked, Unfinal
  <1>9. /\ Len(ttsQueue') = Len(ttsQueue) + 1 /\ Len(ttsQueue) \in Nat
        /\ DOMAIN ttsQueue = 1..Len(ttsQueue) /\ DOMAIN ttsQueue' = 1..Len(ttsQueue')
        /\ ttsQueue'[Len(ttsQueue')] = chunk
        /\ \A i \in 1..Len(ttsQueue) : ttsQueue'[i] = ttsQueue[i]
    <2> HIDE DEF Texts
    <2> QED BY <1>4, <1>7
  <1>10. Open(m)'
    <2>1. \A i \in 1..Len(ttsQueue) : ~ttsQueue'[i].last
      BY <1>2, <1>3, <1>9 DEF Open, Left
    <2>2. CASE chunk.last
      <3>1. Left(m)' /\ ttsQueue' # <<>>
        BY <1>5, <1>9, <2>2 DEF Left
      <3>2. \A i \in DOMAIN ttsQueue' : ttsQueue'[i].last <=> i = Len(ttsQueue')
        BY <1>9, <2>1, <2>2
      <3>3. at'["client"] # "await"
        BY <1>5
      <3> HIDE DEF Left
      <3> QED BY <1>3, <1>4, <1>5, <3>1, <3>2, <3>3 DEF Open
    <2>3. CASE ~chunk.last
      <3>1. \A i \in DOMAIN ttsQueue' : ~ttsQueue'[i].last
        BY <1>9, <2>1, <2>3
      <3>2. at'["client"] = "generate" /\ turn' = m
        BY <1>5, <2>3
      <3> QED BY <1>3, <1>4, <1>5, <3>1, <3>2 DEF Open
    <2> QED BY <2>2, <2>3
  <1>11. Line(m)' = Line(m)
    <2> DEFINE f == Firsts(story[m].filed)
               s == Nos(Sounding)
               h == InHand
               q == Spoken(ttsQueue)
               v == Spoken(<<chunk>>)
    <2>1. /\ f \in Seq(Numbers) /\ s \in Seq(Numbers) /\ h \in Seq(Numbers)
          /\ q \in Seq(Numbers)
      <3> HIDE DEF Firsts, Nos, Sounding, InHand, Spoken
      <3> QED BY <1>7, LineParts
    <2>2. v \in Seq(Numbers) /\ Spoken(ttsQueue') = q \o v
      <3> DEFINE one == <<chunk>>
      <3>1. one \in Seq(Texts) /\ ttsQueue' = ttsQueue \o one
        <4> HIDE DEF Texts
        <4> QED BY <1>4, <1>7
      <3> HIDE DEF one, Texts, Spoken, Numbers
      <3>2. Spoken(one) \in Seq(Numbers) /\ Spoken(ttsQueue \o one) = q \o Spoken(one)
        BY <1>7, <3>1, SpokenAre
      <3> QED BY <3>1, <3>2 DEF one
    <2>3. Line(m)' = LineOf(f, s, h, q \o v, <<>>)
      <3>1. InHand' = h /\ InCall' = <<>> /\ Spoken(ttsQueue)' = Spoken(ttsQueue')
        BY <1>4, <1>5 DEF InHand, InCall
      <3>2. Firsts(story'[m].filed) = f /\ Nos(Sounding)' = s
        BY <1>4, SoundStays
      <3>3. Firsts(story[m].filed)' = Firsts(story'[m].filed)
        OBVIOUS
      <3> HIDE DEF InHand, InCall, Spoken, Firsts, Nos, Sounding
      <3> QED BY <2>2, <3>1, <3>2, <3>3 DEF Line
    <2>4. Line(m) = LineOf(f, s, h, q, v)
      <3>1. InCall = v
        BY <1>2 DEF InCall
      <3> HIDE DEF InHand, InCall, Spoken, Firsts, Nos, Sounding
      <3> QED BY <3>1 DEF Line
    <2> HIDE DEF f, s, h, q, v, Numbers
    <2> QED BY <2>1, <2>2, <2>3, <2>4, LineQueued
  <1> QED BY <1>1, <1>4, <1>5, <1>6, <1>8, <1>10, <1>11 DEF Going, Stage

\* An answer that runs out: the call returns, and no last chunk will come.
LEMMA RunOutDoes ==
    ASSUME TypeInv, story \in [Turns -> Stories], RunOut, NEW m \in Turns
    PROVE  /\ at["client"] = "generate" /\ at'["client"] = "out" /\ turn' = turn + 1
           /\ at'["tts"] = at["tts"] /\ at'["t2w"] = at["t2w"]
           /\ UNCHANGED <<llmVars, flagVars, voiceVars, chunk, early, breaks>>
           /\ story' \in [Turns -> Stories]
           /\ story'[m].filed = story[m].filed /\ story'[m].ended = story[m].ended
           /\ story'[m].round = story[m].round /\ story'[m].calm = story[m].calm
           /\ story'[m].said = story[m].said
           /\ m # turn => story'[m] = story[m]
           /\ m = turn /\ story[m].calm => story'[m].cut
  <1>1. /\ at["client"] = "generate" /\ Goto("client", "out") /\ turn' = turn + 1
        /\ UNCHANGED <<llmVars, flagVars, voiceVars, chunk, early, breaks>>
        /\ story' = IF story[turn].calm THEN [story EXCEPT ![turn].cut = TRUE] ELSE story
    BY DEF RunOut, Return
  <1>2. at'["client"] = "out" /\ at'["tts"] = at["tts"] /\ at'["t2w"] = at["t2w"]
    BY <1>1, ClientGone, ThreadPlaces
  <1>3. turn \in Turns
    BY <1>1 DEF TypeInv, CallShape
  <1>4. story[turn] \in Stories
    BY <1>3
  <1>5. [story[turn] EXCEPT !.cut = TRUE] \in Stories
    BY <1>4 DEF Stories
  <1>6. story' \in [Turns -> Stories]
    <2> HIDE DEF Stories
    <2> QED BY <1>1, <1>3, <1>5
  <1>7. CASE m = turn
    BY <1>1, <1>2, <1>3, <1>4, <1>6, <1>7 DEF Stories
  <1>8. CASE m # turn
    BY <1>1, <1>2, <1>3, <1>6, <1>8
  <1> QED BY <1>7, <1>8

LEMMA GoingRunsOut ==
    ASSUME TypeInv, StoryInv, NEW m \in Turns, story[m].calm, Going(m), RunOut
    PROVE  Going(m)'
  <1>1. ~breakEvent /\ at["t2w"] = "tokens" /\ Carry({m}) /\ Labelling(m)
        /\ (tts.first => tts.buffer = <<>>) /\ Labelled(m) /\ Line(m) = story[m].said
        /\ Stage(m)
    BY DEF Going
  <1>2. story \in [Turns -> Stories]
    BY DEF StoryInv
  <1>3. /\ at["client"] = "generate" /\ at'["client"] = "out" /\ turn' = turn + 1
        /\ at'["tts"] = at["tts"] /\ at'["t2w"] = at["t2w"]
        /\ UNCHANGED <<breakEvent, speekDone, round, ttsQueue, tts, t2wQueue, t2w, chunk>>
        /\ story'[m].filed = story[m].filed /\ story'[m].round = story[m].round
        /\ story'[m].said = story[m].said
        /\ m = turn => story'[m].cut
    BY <1>2, RunOutDoes DEF flagVars, voiceVars
  <1>4. Unmarked(m) /\ Open(m) /\ turn = m
    BY <1>1, <1>3 DEF Stage, Open, Closing, Closed, Left
  <1>5. Unmarked(m)'
    BY <1>3, <1>4 DEF Unmarked, Unfinal
  <1>6. Open(m)'
    <2>1. Left(m)' /\ story'[m].cut
      BY <1>3, <1>4 DEF Left
    <2>2. \A i \in DOMAIN ttsQueue : ~ttsQueue[i].last
      BY <1>3, <1>4 DEF Open, Left
    <2>3. ~speekDone
      BY <1>3, <1>4 DEF Open
    <2> HIDE DEF Left
    <2> QED BY <1>3, <1>4, <2>1, <2>2, <2>3 DEF Open
  <1>7. Carry({m})'
    BY <1>1, DecodeCarry
  <1>8. Labelled(m)' /\ Labelling(m)'
    BY <1>1, <1>3 DEF Labelled, Labelling, Labels
  <1>9. Line(m)' = Line(m)
    <2>1. InHand' = InHand /\ InCall' = InCall /\ Spoken(ttsQueue)' = Spoken(ttsQueue)
      BY <1>3 DEF InHand, InCall, Spoken, Mapped, Voiced
    <2>2. Nos(Sounding)' = Nos(Sounding)
      <3>1. Sounding' = Sounding
        BY <1>3 DEF Sounding, SoundOf, Queued, Mapped, Inside
      <3> QED BY <3>1 DEF Nos, Mapped, NoOf
    <2>3. Firsts(story[m].filed)' = Firsts(story[m].filed)
      BY <1>3 DEF Firsts, Mapped, FirstOf
    <2> HIDE DEF InHand, InCall, Spoken, Firsts, Nos, Sounding
    <2> QED BY <2>1, <2>2, <2>3 DEF Line
  <1> QED BY <1>1, <1>3, <1>5, <1>6, <1>7, <1>8, <1>9 DEF Going, Stage

-----------------------------------------------------------------------------
(* The TTS thread. *)

\* The first of the chunks is taken out.
LEMMA FirstTaken ==
    ASSUME NEW S, NEW q \in Seq(S), q # <<>>
    PROVE  /\ Head(q) \in S /\ Tail(q) \in Seq(S) /\ q = <<Head(q)>> \o Tail(q)
           /\ Len(q) \in Nat \ {0} /\ DOMAIN q = 1..Len(q) /\ q[1] = Head(q)
           /\ Len(Tail(q)) = Len(q) - 1 /\ DOMAIN Tail(q) = 1..Len(q) - 1
           /\ \A i \in 1..Len(q) - 1 : Tail(q)[i] = q[i + 1]
           /\ Tail(q) = <<>> <=> Len(q) = 1
           /\ <<Head(q)>> \in Seq(S)
  <1>1. /\ Head(q) \in S /\ Tail(q) \in Seq(S)
        /\ Len(q) \in Nat \ {0} /\ DOMAIN q = 1..Len(q) /\ q[1] = Head(q)
        /\ Len(Tail(q)) = Len(q) - 1 /\ DOMAIN Tail(q) = 1..Len(q) - 1
        /\ \A i \in 1..Len(q) - 1 : Tail(q)[i] = q[i + 1]
        /\ <<Head(q)>> \in Seq(S)
    OBVIOUS
  <1>2. Tail(q) = <<>> <=> Len(q) = 1
    BY <1>1
  <1>3. q = <<Head(q)>> \o Tail(q)
    BY <1>1
  <1> QED BY <1>1, <1>2, <1>3

\* What was first in the queue is now in the hand, or cannot be spoken.
LEMMA GoingTakes ==
    ASSUME TypeInv, StoryInv, NEW m \in Turns, Going(m), TakeText, story'[m].calm
    PROVE  story'[m] = story[m] /\ Going(m)'
  <1> DEFINE c    == Head(ttsQueue)
             rest == Tail(ttsQueue)
             skip == speekDone \/ c.kind = "silent"
  <1>1. ~breakEvent /\ at["t2w"] = "tokens" /\ Carry({m}) /\ Labelling(m)
        /\ (tts.first => tts.buffer = <<>>) /\ Labelled(m) /\ Line(m) = story[m].said
        /\ Stage(m)
    BY DEF Going
  <1>2. /\ ttsQueue # <<>> /\ ttsQueue' = rest
        /\ tts' = [tts EXCEPT !.hand   = IF skip THEN NoChunk ELSE c,
                              !.finish = (tts.finish \/ c.last) /\ ~speekDone,
                              !.first  = @ \/ speekDone]
        /\ Goto("tts", IF skip THEN "text" ELSE IF c.kind = "empty" THEN "flush" ELSE "speak")
        /\ UNCHANGED <<t2w, t2wQueue, turn, chunk, round, speekDone, breakEvent>>
        /\ story' = IF (tts.finish \/ c.last) /\ skip THEN Disturbed({c.turn}) ELSE story
        /\ at["tts"] = "text"
    BY DEF TakeText, TakenText, Enters, callVars, flagVars
  <1>3. /\ ttsQueue \in Seq(Texts) /\ c \in Texts /\ rest \in Seq(Texts)
        /\ Len(ttsQueue) \in Nat \ {0} /\ DOMAIN ttsQueue = 1..Len(ttsQueue)
        /\ ttsQueue[1] = c /\ DOMAIN rest = 1..Len(ttsQueue) - 1
        /\ Len(rest) = Len(ttsQueue) - 1
        /\ \A i \in 1..Len(ttsQueue) - 1 : rest[i] = ttsQueue[i + 1]
        /\ rest = <<>> <=> Len(ttsQueue) = 1
    <2>1. ttsQueue \in Seq(Texts)
      BY DEF TypeInv, TextTypes
    <2> HIDE DEF Texts
    <2> QED BY <1>2, <2>1, FirstTaken
  <1>4. c.turn = m
    <2>1. ttsQueue \in Seq(TextsOf({m}))
      BY <1>1 DEF Carry
    <2>2. c \in TextsOf({m})
      <3> HIDE DEF TextsOf
      <3> QED BY <1>2, <2>1, FirstTaken
    <2> QED BY <2>2 DEF TextsOf
  <1>5. Unmarked(m) /\ Open(m) /\ ~speekDone /\ ~tts.finish
    BY <1>1, <1>2 DEF Stage, Open, Closing, Closed
  <1> HIDE DEF c, rest
  <1>6. story'[m] = story[m] /\ ~(c.last /\ c.kind = "silent")
    <2>1. CASE (tts.finish \/ c.last) /\ skip
      <3>1. story'[m] = Blank
        BY <1>2, <1>4, <2>1, DisturbedIs
      <3> QED BY <3>1 DEF Blank
    <2>2. CASE ~((tts.finish \/ c.last) /\ skip)
      BY <1>2, <2>2
    <2> QED BY <2>1, <2>2
  <1>7. /\ at'["client"] = at["client"] /\ at'["t2w"] = at["t2w"]
        /\ at'["tts"] = IF c.kind = "silent" THEN "text"
                        ELSE IF c.kind = "empty" THEN "flush" ELSE "speak"
    <2>1. Goto("tts", IF c.kind = "silent" THEN "text"
                      ELSE IF c.kind = "empty" THEN "flush" ELSE "speak")
      BY <1>2, <1>5
    <2> QED BY <2>1, TtsGone, ThreadPlaces
  <1>8. /\ tts'.buffer = tts.buffer /\ tts'.finish = c.last /\ tts'.first = tts.first
        /\ tts'.hand = IF c.kind = "silent" THEN NoChunk ELSE c
    <2>1. tts \in [hand : Chunks, finish : BOOLEAN, first : BOOLEAN, buffer : Seq(Tokens)]
      BY DEF TypeInv, TextTypes
    <2>2. c.last \in BOOLEAN
      BY <1>3 DEF Texts, Chunks
    <2> QED BY <1>2, <1>5, <2>1, <2>2
  <1>9. Carry({m})'
    BY <1>1, TakeCarry
  <1>10. Labelled(m)' /\ Labelling(m)' /\ Unmarked(m)'
    BY <1>1, <1>2, <1>5, <1>6 DEF Labelled, Labelling, Labels, Unmarked, Unfinal
  <1>11. c.kind \in Kinds /\ (c.kind = "empty" => c.last)
    BY <1>3 DEF Texts, Chunks
  <1>12. ASSUME c.last PROVE Closing(m)'
    <2>1. Left(m) /\ Len(ttsQueue) = 1
      <3>1. ttsQueue[1].last /\ 1 \in DOMAIN ttsQueue
        BY <1>3, <1>12
      <3>2. ttsQueue[1].last <=> 1 = Len(ttsQueue)
        BY <1>5, <3>1 DEF Open
      <3> QED BY <1>5, <3>1, <3>2 DEF Open
    <2>2. Left(m)' /\ ttsQueue' = <<>>
      BY <1>2, <1>3, <1>7, <2>1 DEF Left
    <2>3. at'["tts"] = "flush" \/ (at'["tts"] = "speak" /\ tts'.hand.kind = "speech")
      BY <1>6, <1>7, <1>8, <1>11, <1>12 DEF Kinds
    <2> QED BY <1>8, <1>12, <2>2, <2>3 DEF Closing
  <1>13. ASSUME ~c.last PROVE Open(m)'
    <2>1. at'["tts"] = "text" \/ (at'["tts"] = "speak" /\ tts'.hand.kind = "speech")
      BY <1>7, <1>8, <1>11, <1>13 DEF Kinds
    <2>2. at["client"] # "await"
      BY <1>2, <1>5 DEF Open
    <2>3. CASE turn = m /\ at["client"] \in {"await", "generate", "room"}
      <3>1. \A i \in DOMAIN ttsQueue' : ~ttsQueue'[i].last
        BY <1>2, <1>3, <1>5, <2>3 DEF Open, Left
      <3> QED BY <1>2, <1>5, <1>7, <1>8, <1>13, <2>1, <2>2, <2>3, <3>1 DEF Open
    <2>5. CASE Left(m) /\ story[m].cut /\ \A i \in DOMAIN ttsQueue : ~ttsQueue[i].last
      <3>1. \A i \in DOMAIN ttsQueue' : ~ttsQueue'[i].last
        BY <1>2, <1>3, <2>5
      <3>2. Left(m)' /\ story'[m].cut
        BY <1>2, <1>6, <1>7, <2>5 DEF Left
      <3> HIDE DEF Left
      <3> QED BY <1>2, <1>5, <1>7, <1>8, <1>13, <2>1, <2>2, <3>1, <3>2 DEF Open
    <2>4. CASE Left(m) /\ \A i \in DOMAIN ttsQueue : ttsQueue[i].last <=> i = Len(ttsQueue)
      <3>1. Left(m) /\ \A i \in DOMAIN ttsQueue : ttsQueue[i].last <=> i = Len(ttsQueue)
        BY <2>4
      <3>2. ttsQueue' # <<>>
        BY <1>2, <1>3, <1>13, <3>1
      <3>3. \A i \in DOMAIN ttsQueue' : ttsQueue'[i].last <=> i = Len(ttsQueue')
        BY <1>2, <1>3, <3>1
      <3>4. Left(m)'
        BY <1>2, <1>7, <3>1 DEF Left
      <3> HIDE DEF Left
      <3> QED BY <1>2, <1>5, <1>7, <1>8, <1>13, <2>1, <2>2, <3>2, <3>3, <3>4 DEF Open
    <2> QED BY <1>5, <2>3, <2>4, <2>5 DEF Open
  <1>14. Stage(m)'
    BY <1>10, <1>12, <1>13 DEF Stage
  <1>15. Line(m)' = Line(m)
    <2> DEFINE f == Firsts(story[m].filed)
               s == Nos(Sounding)
               q == Spoken(rest)
               v == Spoken(<<c>>)
               call == InCall
    <2>1. story \in [Turns -> Stories]
      BY DEF StoryInv
    <2>2. f \in Seq(Numbers) /\ s \in Seq(Numbers) /\ call \in Seq(Numbers)
      <3> HIDE DEF Firsts, Nos, Sounding, InCall, Spoken
      <3> QED BY <2>1, LineParts
    <2>3. v \in Seq(Numbers) /\ q \in Seq(Numbers) /\ Spoken(ttsQueue) = v \o q
      <3> DEFINE one == <<c>>
      <3>1. one \in Seq(Texts) /\ ttsQueue = one \o rest
        <4> HIDE DEF Texts
        <4> QED BY <1>2, <1>3, FirstTaken DEF c, rest
      <3> HIDE DEF one, Texts, Spoken, Numbers
      <3>2. Spoken(one) \in Seq(Numbers) /\ Spoken(rest) \in Seq(Numbers)
            /\ Spoken(one \o rest) = Spoken(one) \o Spoken(rest)
        BY <1>3, <3>1, SpokenAre
      <3> QED BY <3>1, <3>2 DEF one
    <2>4. v = IF c.kind = "speech" THEN <<c.no>> ELSE <<>>
      <3> HIDE DEF Texts, Spoken
      <3> QED BY <1>3, SpokenOne
    <2>5. InHand' = v
      <3>1. c.kind = "speech" => at'["tts"] = "speak" /\ tts'.hand = c
        BY <1>7, <1>8
      <3>2. c.kind # "speech" => at'["tts"] # "speak"
        BY <1>7, <1>11 DEF Kinds
      <3> HIDE DEF v
      <3> QED BY <2>4, <3>1, <3>2 DEF InHand
    <2>6. Line(m)' = LineOf(f, s, v, q, call)
      <3>1. InCall' = call /\ Spoken(ttsQueue)' = Spoken(ttsQueue')
        BY <1>2, <1>7 DEF InCall, Spoken, Mapped, Voiced
      <3>2. Spoken(ttsQueue') = q
        BY <1>2
      <3>3. Firsts(story[m].filed)' = f
        BY <1>6 DEF Firsts, Mapped, FirstOf
      <3>4. Nos(Sounding)' = s
        <4>1. Sounding' = Sounding
          <5>1. t2w' = t2w /\ t2wQueue' = t2wQueue /\ tts'.buffer = tts.buffer
            BY <1>2, <1>8
          <5> QED BY <5>1 DEF Sounding, SoundOf, Queued, Mapped, Inside
        <4> QED BY <4>1 DEF Nos, Mapped, NoOf
      <3> HIDE DEF InHand, InCall, Spoken, Firsts, Nos, Sounding
      <3> QED BY <2>5, <3>1, <3>2, <3>3, <3>4 DEF Line
    <2>7. Line(m) = LineOf(f, s, <<>>, v \o q, call)
      <3>1. InHand = <<>>
        BY <1>2 DEF InHand
      <3> HIDE DEF InHand, InCall, Spoken, Firsts, Nos, Sounding
      <3> QED BY <2>3, <3>1 DEF Line
    <2> HIDE DEF f, s, q, v, call, Numbers
    <2> QED BY <2>2, <2>3, <2>6, <2>7, LineTaken
  <1> QED BY <1>1, <1>2, <1>6, <1>7, <1>8, <1>9, <1>10, <1>14, <1>15 DEF Going

\* The queue of tokens grows by what is handed on.
LEMMA QueuedMore ==
    ASSUME TypeInv, NEW x \in Items, t2wQueue' = Append(t2wQueue, x)
    PROVE  Queued' = Queued \o x.tokens
  <1> DEFINE one == <<x>>
  <1>1. t2wQueue \in Seq(Items)
    BY DEF TypeInv, SoundTypes
  <1>2. one \in Seq(Items) /\ t2wQueue' = t2wQueue \o one
    <2> HIDE DEF Items
    <2> QED BY <1>1
  <1>3. Inside \in Maps(Items, Seq(Tokens)) /\ Inside[x] = x.tokens
    BY DEF Inside, Maps, Items
  <1>4. Queued' = FlattenSeq(Mapped(Inside, t2wQueue'))
    BY DEF Queued, Mapped, Inside
  <1>5. FlattenSeq(Mapped(Inside, one)) = x.tokens
    <2> HIDE DEF Inside, Items, Tokens
    <2> QED BY <1>3, FlattenMapOne
  <1> HIDE DEF one, Inside, Items, Tokens
  <1>6. FlattenSeq(Mapped(Inside, t2wQueue \o one))
          = FlattenSeq(Mapped(Inside, t2wQueue)) \o FlattenSeq(Mapped(Inside, one))
    BY <1>1, <1>2, <1>3, FlattenMapConcat
  <1> QED BY <1>2, <1>4, <1>5, <1>6 DEF Queued

LEMMA QueuedEmitted ==
    ASSUME TypeInv, NEW tokens \in Seq(Tokens), Emit(tokens)
    PROVE  Queued' = Queued \o tokens
  <1>1. Queued \in Seq(Tokens)
    <2>1. Inside \in Maps(Items, Seq(Tokens)) /\ t2wQueue \in Seq(Items)
      BY DEF Inside, Maps, Items, TypeInv, SoundTypes
    <2> HIDE DEF Inside, Items, Tokens
    <2> QED BY <2>1, FlattenMapConcat DEF Queued
  <1>2. CASE tokens = <<>>
    <2>0. t2wQueue' = t2wQueue
      BY <1>2, EmitDoes
    <2>1. Queued' = Queued
      BY <2>0 DEF Queued, Mapped, Inside
    <2> HIDE DEF Queued, Tokens
    <2> QED BY <1>1, <1>2, <2>1, Nothing
  <1>3. CASE tokens # <<>>
    <2>1. t2wQueue' = Append(t2wQueue, Batch(tokens))
      BY <1>3, EmitDoes
    <2>2. Batch(tokens) \in Items /\ Batch(tokens).tokens = tokens
      <3> HIDE DEF Tokens
      <3> QED BY DEF Batch, Items, TypeInv, SoundTypes
    <2> HIDE DEF Batch, Items, Queued
    <2> QED BY <2>1, <2>2, QueuedMore
  <1> QED BY <1>2, <1>3

\* A batch carries the round of the turn, and is no end.
LEMMA EmitLabels ==
    ASSUME TypeInv, NEW m \in Turns, Labelling(m), Unmarked(m), story' = story,
           round' = round, t2w' = t2w, NEW tokens \in Seq(Tokens), Emit(tokens)
    PROVE  Labelling(m)' /\ Unmarked(m)'
  <1>1. Batch(tokens) \in Labels(story[m].round) /\ Batch(tokens) \in Unfinal
    <2>1. Batch(tokens) \in Items
      <3> HIDE DEF Tokens
      <3> QED BY DEF Batch, Items, TypeInv, SoundTypes
    <2> QED BY <2>1 DEF Batch, Labels, Unfinal, Unmarked
  <1>2. t2wQueue' = t2wQueue \/ t2wQueue' = Append(t2wQueue, Batch(tokens))
    BY EmitDoes
  <1>3. t2wQueue \in Seq(Labels(story[m].round)) /\ t2wQueue \in Seq(Unfinal)
    BY DEF Labelling, Unmarked
  <1>4. t2wQueue' \in Seq(Labels(story[m].round)) /\ t2wQueue' \in Seq(Unfinal)
    <2> HIDE DEF Labels, Unfinal, Batch
    <2> QED BY <1>1, <1>2, <1>3
  <1>5. Labels(story[m].round)' = Labels(story[m].round) /\ Unfinal' = Unfinal
    BY DEF Labels, Unfinal
  <1> HIDE DEF Labels, Unfinal
  <1> QED BY <1>4, <1>5 DEF Labelling, Unmarked

\* The chunk in the hand becomes a token.
LEMMA GoingSounds ==
    ASSUME TypeInv, StoryInv, NEW m \in Turns, Going(m), TtsSpeak, story'[m].calm
    PROVE  story' = story /\ Going(m)'
  <1>1. ~breakEvent /\ at["t2w"] = "tokens" /\ Carry({m}) /\ Labelling(m)
        /\ (tts.first => tts.buffer = <<>>) /\ Labelled(m) /\ Line(m) = story[m].said
        /\ Stage(m)
    BY DEF Going
  <1>2. PICK tokens \in Seq(TokensOf({m})), k \in Nat :
              /\ SpokenAs(tokens, k)
              /\ \/ story' = Disturbed({tts.hand.turn})
                 \/ /\ UNCHANGED story
                    /\ (tts.first => tts.buffer = <<>>)
                          => tokens = Append(tts.buffer, Token(tts.hand))
    BY <1>1, TtsSpeakDoes
  <1>3. story' = story /\ tokens = Append(tts.buffer, Token(tts.hand))
    <2>1. tts.hand.turn = m
      BY <1>1, <1>2 DEF Carry, Holding, SpokenAs
    <2>2. story' # Disturbed({tts.hand.turn})
      <3>1. Disturbed({tts.hand.turn})[m] = Blank
        BY <2>1, DisturbedIs
      <3> QED BY <3>1 DEF Blank
    <2> QED BY <1>1, <1>2, <2>2
  <1>4. tokens \in Seq(Tokens)
    <2> DEFINE V == TokensOf({m})
    <2>1. V \subseteq Tokens /\ tokens \in Seq(V)
      BY DEF TokensOf
    <2> HIDE DEF V, Tokens
    <2> QED BY <2>1
  <1>5. at["tts"] = "speak" /\ k \in 0..Len(tokens)
    BY <1>2 DEF SpokenAs
  <1>6. (Open(m) \/ Closing(m)) /\ Unmarked(m) /\ tts.hand.kind = "speech"
    BY <1>1, <1>5 DEF Stage, Open, Closing, Closed
  <1> DEFINE e == SubSeq(tokens, 1, k)
             r == SubSeq(tokens, k + 1, Len(tokens))
  <1>7. e \in Seq(Tokens) /\ r \in Seq(Tokens) /\ e \o r = tokens
    <2> HIDE DEF Tokens
    <2> QED BY <1>4, <1>5, SplitAt
  <1>8. /\ Emit(e) /\ Goto("tts", IF tts.finish THEN "flush" ELSE "text")
        /\ tts' = [tts EXCEPT !.first  = FALSE,
                              !.hand   = IF tts.finish THEN @ ELSE NoChunk,
                              !.buffer = r]
        /\ UNCHANGED <<story, breakEvent, speekDone, round, ttsQueue, t2w, turn, chunk>>
    BY <1>2, <1>3 DEF SpokenAs, flagVars, callVars
  <1> HIDE DEF e, r
  <1>9. /\ at'["client"] = at["client"] /\ at'["t2w"] = at["t2w"]
        /\ at'["tts"] = IF tts.finish THEN "flush" ELSE "text"
    BY <1>8, TtsGone, ThreadPlaces
  <1>10. tts'.buffer = r /\ ~tts'.first /\ tts'.finish = tts.finish
    BY <1>8 DEF TypeInv, TextTypes
  <1>11. Carry({m})'
    BY <1>1, TtsSpeakCarry
  <1>12. Labelling(m)' /\ Unmarked(m)'
    BY <1>1, <1>6, <1>7, <1>8, EmitLabels
  <1>13. Labelled(m)'
    BY <1>1, <1>8 DEF Labelled
  <1>14. Stage(m)'
    <2>1. Left(m)' <=> Left(m)
      BY <1>8, <1>9 DEF Left
    <2>2. Open(m) => Open(m)'
      BY <1>5, <1>8, <1>9, <1>10, <2>1 DEF Open
    <2>3. Closing(m) => Closing(m)'
      BY <1>5, <1>8, <1>9, <1>10, <2>1 DEF Closing
    <2> QED BY <1>6, <1>12, <2>2, <2>3 DEF Stage
  <1>15. Line(m)' = Line(m)
    <2> DEFINE f == Firsts(story[m].filed)
               s == Nos(Sounding)
               h == InHand
               q == Spoken(ttsQueue)
               call == InCall
               one == <<Token(tts.hand)>>
    <2>1. story \in [Turns -> Stories]
      BY DEF StoryInv
    <2>2. /\ f \in Seq(Numbers) /\ s \in Seq(Numbers) /\ h \in Seq(Numbers)
          /\ q \in Seq(Numbers) /\ call \in Seq(Numbers)
          /\ t2w.buffer \in Seq(Tokens) /\ Queued \in Seq(Tokens)
          /\ tts.buffer \in Seq(Tokens) /\ Sounding \in Seq(Tokens)
      <3> HIDE DEF Firsts, Nos, Sounding, InCall, InHand, Spoken, Queued, Tokens
      <3> QED BY <2>1, LineParts
    <2>3. Token(tts.hand) \in Tokens /\ Token(tts.hand).no = tts.hand.no
      <3>1. tts.hand \in Texts
        BY <1>5 DEF TypeInv, TextTypes, Hands
      <3> QED BY <3>1, BoundsAssumption DEF Texts, Chunks, Token, Tokens
    <2>4. one \in Seq(Tokens) /\ tokens = tts.buffer \o one
      <3> HIDE DEF Tokens, Token
      <3> QED BY <1>3, <2>2, <2>3
    <2>5. Nos(one) = h
      <3>1. Nos(one) = <<tts.hand.no>>
        <4> HIDE DEF Tokens, Token, Nos
        <4> QED BY <2>3, NosOne
      <3> QED BY <1>5, <3>1 DEF InHand
    <2>6. Sounding' = Sounding \o one
      <3> DEFINE w == t2w.buffer
                 d == Queued
                 b == tts.buffer
      <3>1. Queued' = d \o e
        BY <1>7, <1>8, QueuedEmitted
      <3>2. Sounding' = SoundOf(w, d \o e, r)
        <4> HIDE DEF Queued
        <4> QED BY <1>8, <1>10, <3>1 DEF Sounding
      <3>3. Sounding = SoundOf(w, d, b)
        BY DEF Sounding
      <3>4. Followed(e, r) = Followed(b, one)
        BY <1>7, <2>4 DEF Followed
      <3> HIDE DEF w, d, b, one, Tokens, Sounding
      <3>5. w \in Seq(Tokens) /\ d \in Seq(Tokens) /\ b \in Seq(Tokens) /\ one \in Seq(Tokens)
        BY <2>2, <2>4 DEF w, d, b
      <3>6. SoundOf(w, Followed(d, e), r) = Followed(SoundOf(w, d, b), one)
        BY <1>7, <3>4, <3>5, SoundHandedOn
      <3> QED BY <3>2, <3>3, <3>6 DEF Followed
    <2>7. Nos(Sounding)' = s \o h
      <3>1. Nos(Sounding)' = Nos(Sounding')
        BY DEF Nos, Mapped, NoOf
      <3> HIDE DEF Nos, Sounding, one, Tokens, InHand
      <3>2. Nos(Sounding \o one) = Nos(Sounding) \o Nos(one)
        BY <2>2, <2>4, NosAre
      <3> QED BY <2>5, <2>6, <3>1, <3>2
    <2>8. Line(m)' = LineOf(f, s \o h, <<>>, q, call)
      <3>1. InHand' = <<>>
        BY <1>9 DEF InHand
      <3>2. InCall' = call /\ Spoken(ttsQueue)' = q
        BY <1>8, <1>9 DEF InCall, Spoken, Mapped, Voiced
      <3>3. Firsts(story[m].filed)' = f
        BY <1>8 DEF Firsts, Mapped, FirstOf
      <3> HIDE DEF InHand, InCall, Spoken, Firsts, Nos, Sounding
      <3> QED BY <2>7, <3>1, <3>2, <3>3 DEF Line
    <2>9. Line(m) = LineOf(f, s, h, q, call)
      BY DEF Line
    <2> HIDE DEF f, s, q, h, call, Numbers, Line
    <2> QED BY <2>2, <2>8, <2>9, LineSounds
  <1> QED BY <1>1, <1>3, <1>8, <1>9, <1>10, <1>11, <1>12, <1>13, <1>14, <1>15 DEF Going

\* What was kept is handed on.
LEMMA GoingFlushes ==
    ASSUME TypeInv, StoryInv, NEW m \in Turns, Going(m), TtsFlush PROVE Going(m)'
  <1>1. ~breakEvent /\ at["t2w"] = "tokens" /\ Carry({m}) /\ Labelling(m)
        /\ (tts.first => tts.buffer = <<>>) /\ Labelled(m) /\ Line(m) = story[m].said
        /\ Stage(m)
    BY DEF Going
  <1>2. /\ at["tts"] = "flush" /\ Emit(tts.buffer)
        /\ tts'.hand = tts.hand
        /\ tts'.buffer = <<>> /\ tts'.finish = tts.finish
        /\ at'["client"] = at["client"] /\ at'["t2w"] = at["t2w"]
        /\ at'["tts"] = IF tts.hand.kind = "empty" THEN "file" ELSE "done"
        /\ UNCHANGED <<story, breakEvent, round, ttsQueue, t2w, turn, chunk>>
    BY TtsFlushDoes DEF flagVars, callVars, history
  <1>3. Closing(m) /\ Unmarked(m)
    BY <1>1, <1>2 DEF Stage, Open, Closed
  <1>4. story \in [Turns -> Stories]
    BY DEF StoryInv
  <1>5. /\ t2w.buffer \in Seq(Tokens) /\ Queued \in Seq(Tokens)
        /\ tts.buffer \in Seq(Tokens)
    <2> HIDE DEF Queued, Tokens
    <2> QED BY <1>4, LineParts
  <1>6. Labelling(m)' /\ Unmarked(m)'
    BY <1>1, <1>2, <1>3, <1>5, EmitLabels
  <1>7. Carry({m})'
    BY <1>1, TtsEndCarry
  <1>8. Labelled(m)'
    BY <1>1, <1>2 DEF Labelled
  <1>9. Closing(m)'
    BY <1>2, <1>3 DEF Closing, Left
  <1>10. Sounding' = Sounding
    <2> DEFINE w == t2w.buffer
               d == Queued
               b == tts.buffer
    <2>1. Queued' = d \o b
      BY <1>2, <1>5, QueuedEmitted
    <2>2. Sounding' = SoundOf(w, Followed(d, b), <<>>)
      <3> HIDE DEF Queued
      <3> QED BY <1>2, <2>1 DEF Sounding, Followed
    <2>3. Sounding = SoundOf(w, d, b)
      BY DEF Sounding
    <2> HIDE DEF w, d, b, Tokens, Sounding
    <2>4. w \in Seq(Tokens) /\ d \in Seq(Tokens) /\ b \in Seq(Tokens) /\ <<>> \in Seq(Tokens)
      BY <1>5 DEF w, d, b
    <2>5. Followed(SoundOf(w, d, b), <<>>) = SoundOf(w, d, b)
      <3> DEFINE x == SoundOf(w, d, b)
      <3>1. x \in Seq(Tokens)
        BY <2>4, SoundType
      <3> HIDE DEF x
      <3>2. x \o <<>> = x
        BY <3>1, Nothing
      <3> QED BY <3>2 DEF Followed, x
    <2>6. SoundOf(w, Followed(d, b), <<>>) = Followed(SoundOf(w, d, b), <<>>)
      <3> DEFINE none == <<>>
      <3>1. none \in Seq(Tokens)
        BY <2>4
      <3> HIDE DEF none
      <3>2. Followed(b, none) = Followed(b, none)
              => SoundOf(w, Followed(d, b), none) = Followed(SoundOf(w, d, b), none)
        BY <2>4, <3>1, SoundHandedOn
      <3> QED BY <3>2 DEF none
    <2> QED BY <2>2, <2>3, <2>5, <2>6
  <1>11. Line(m)' = Line(m)
    <2>1. InHand' = InHand /\ InCall' = InCall /\ Spoken(ttsQueue)' = Spoken(ttsQueue)
      BY <1>2 DEF InHand, InCall, Spoken, Mapped, Voiced
    <2>2. Nos(Sounding)' = Nos(Sounding)
      BY <1>10 DEF Nos, Mapped, NoOf
    <2>3. Firsts(story[m].filed)' = Firsts(story[m].filed)
      BY <1>2 DEF Firsts, Mapped, FirstOf
    <2> HIDE DEF InHand, InCall, Spoken, Firsts, Nos, Sounding
    <2> QED BY <2>1, <2>2, <2>3 DEF Line
  <1> QED BY <1>1, <1>2, <1>6, <1>7, <1>8, <1>9, <1>11 DEF Going, Stage

LEMMA DoneDoes ==
    ASSUME TypeInv, TtsDone
    PROVE  /\ at["tts"] = "done"
           /\ \/ tts.hand.kind = "empty" /\ at'["tts"] = "text"
              \/ tts.hand.kind # "empty" /\ at'["tts"] = "file" /\ tts' = tts
           /\ tts'.buffer = tts.buffer
           /\ at'["client"] = at["client"] /\ at'["t2w"] = at["t2w"]
           /\ UNCHANGED <<story, breakEvent, round, ttsQueue, t2wQueue, t2w, turn, chunk>>
  <1>1. \/ tts.hand.kind = "empty" /\ Goto("tts", "text") /\ NewTurn
        \/ tts.hand.kind # "empty" /\ Goto("tts", "file") /\ UNCHANGED tts
    BY DEF TtsDone
  <1>2. /\ at'["client"] = at["client"] /\ at'["t2w"] = at["t2w"]
        /\ \/ tts.hand.kind = "empty" /\ at'["tts"] = "text" /\ NewTurn
           \/ tts.hand.kind # "empty" /\ at'["tts"] = "file" /\ tts' = tts
    BY <1>1, TtsGone, ThreadPlaces
  <1> QED BY <1>2 DEF TtsDone, NewTurn, TypeInv, TextTypes, callVars, history

LEMMA GoingDone ==
    ASSUME TypeInv, StoryInv, NEW m \in Turns, Going(m), TtsDone PROVE Going(m)'
  <1>1. ~breakEvent /\ at["t2w"] = "tokens" /\ Carry({m}) /\ Labelling(m)
        /\ (tts.first => tts.buffer = <<>>) /\ Labelled(m) /\ Line(m) = story[m].said
        /\ Stage(m)
    BY DEF Going
  <1>2. /\ at["tts"] = "done"
        /\ \/ tts.hand.kind = "empty" /\ at'["tts"] = "text"
           \/ tts.hand.kind # "empty" /\ at'["tts"] = "file" /\ tts' = tts
        /\ tts'.buffer = tts.buffer
        /\ at'["client"] = at["client"] /\ at'["t2w"] = at["t2w"]
        /\ UNCHANGED <<story, breakEvent, round, ttsQueue, t2wQueue, t2w, turn, chunk>>
    BY DoneDoes
  <1>3. tts.buffer = <<>>
    BY <1>1, <1>2 DEF Stage, Open, Closing, Closed
  <1>4. Carry({m})'
    BY <1>1, PauseCarry
  <1>5. Labelled(m)' /\ Labelling(m)'
    BY <1>1, <1>2 DEF Labelled, Labelling, Labels
  <1>6. Stage(m)'
    <2>1. Left(m)' <=> Left(m)
      BY <1>2 DEF Left
    <2>2. Closing(m) => Closing(m)'
      BY <1>2, <1>3, <2>1 DEF Closing
    <2>3. Closed(m) => Closed(m)'
      BY <1>2, <1>3, <2>1 DEF Closed
    <2>4. Unmarked(m) => Unmarked(m)'
      BY <1>2 DEF Unmarked, Unfinal
    <2>5. ~Open(m)
      BY <1>2 DEF Open
    <2> QED BY <1>1, <2>2, <2>3, <2>4, <2>5 DEF Stage
  <1>7. Line(m)' = Line(m)
    <2>1. InHand' = InHand /\ InCall' = InCall /\ Spoken(ttsQueue)' = Spoken(ttsQueue)
      BY <1>2 DEF InHand, InCall, Spoken, Mapped, Voiced
    <2>2. Firsts(story'[m].filed) = Firsts(story[m].filed) /\ Nos(Sounding)' = Nos(Sounding)
      BY <1>2, SoundStays
    <2>3. Firsts(story[m].filed)' = Firsts(story'[m].filed)
      OBVIOUS
    <2> HIDE DEF InHand, InCall, Spoken, Firsts, Nos, Sounding
    <2> QED BY <2>1, <2>2, <2>3 DEF Line
  <1> QED BY <1>1, <1>2, <1>3, <1>4, <1>5, <1>6, <1>7 DEF Going

\* The end of the turn is marked: with its round, and after all that was said.
LEMMA GoingMarked ==
    ASSUME TypeInv, StoryInv, NEW m \in Turns, Going(m), TtsFile PROVE Going(m)'
  <1>1. ~breakEvent /\ at["t2w"] = "tokens" /\ Carry({m}) /\ Labelling(m)
        /\ (tts.first => tts.buffer = <<>>) /\ Labelled(m) /\ Line(m) = story[m].said
        /\ Stage(m)
    BY DEF Going
  <1>2. /\ at["tts"] = "file"
        /\ t2wQueue' = Append(t2wQueue, EndMark)
        /\ tts'.buffer = tts.buffer
        /\ at'["client"] = at["client"] /\ at'["t2w"] = at["t2w"]
        /\ \/ at'["tts"] = "text"
           \/ tts.hand.kind = "empty" /\ at'["tts"] = "done" /\ tts' = tts
        /\ UNCHANGED <<story, breakEvent, ttsQueue, t2w, turn, chunk>>
    BY TtsFileDoes DEF flagVars, callVars, history
  <1>3. Closing(m) /\ Unmarked(m) /\ tts.buffer = <<>> /\ round = story[m].round
    BY <1>1, <1>2 DEF Stage, Open, Closing, Closed, Unmarked
  <1>4. EndMark \in Items /\ EndMark.round = story[m].round /\ EndMark.final
        /\ EndMark.tokens = <<>>
    <2>1. tts.hand.turn \in Turns \cup {-1}
      BY DEF TypeInv, TextTypes, Chunks
    <2>2. <<>> \in Seq(Tokens)
      OBVIOUS
    <2> HIDE DEF Tokens
    <2> QED BY <1>3, <2>1, <2>2 DEF EndMark, Items, TypeInv, SoundTypes
  <1>5. Carry({m})'
    BY <1>1, TtsEndCarry
  <1>6. Labelled(m)'
    BY <1>1, <1>2 DEF Labelled
  <1>7. Labelling(m)'
    <2>1. EndMark \in Labels(story[m].round) /\ t2wQueue \in Seq(Labels(story[m].round))
      BY <1>1, <1>4 DEF Labels, Labelling
    <2>2. t2wQueue' \in Seq(Labels(story[m].round))
      <3> HIDE DEF Labels, EndMark
      <3> QED BY <1>2, <2>1
    <2>3. Labels(story[m].round)' = Labels(story[m].round)
      BY <1>2 DEF Labels
    <2> HIDE DEF Labels
    <2> QED BY <1>1, <1>2, <2>2, <2>3 DEF Labelling
  <1>8. Closed(m)'
    <2>1. t2wQueue' # <<>> /\ t2wQueue'[Len(t2wQueue')] = EndMark
      <3>1. t2wQueue \in Seq(Items)
        BY DEF TypeInv, SoundTypes
      <3> HIDE DEF Items, EndMark
      <3> QED BY <1>2, <1>4, <3>1
    <2>2. Left(m)' /\ ttsQueue' = <<>>
      BY <1>2, <1>3 DEF Left, Closing
    <2> HIDE DEF Left, EndMark
    <2> QED BY <1>2, <1>3, <1>4, <2>1, <2>2 DEF Closed
  <1>9. Line(m)' = Line(m)
    <2>1. InHand' = InHand /\ InCall' = InCall /\ Spoken(ttsQueue)' = Spoken(ttsQueue)
      BY <1>2 DEF InHand, InCall, Spoken, Mapped, Voiced
    <2>2. Queued' = Queued
      <3>1. Queued' = Queued \o <<>>
        <4> HIDE DEF Items, EndMark, Queued
        <4> QED BY <1>2, <1>4, QueuedMore
      <3>2. story \in [Turns -> Stories]
        BY DEF StoryInv
      <3>3. Queued \in Seq(Tokens)
        <4> HIDE DEF Queued, Tokens
        <4> QED BY <3>2, LineParts
      <3> HIDE DEF Queued, Tokens
      <3> QED BY <3>1, <3>3, Nothing
    <2>3. Sounding' = Sounding
      <3> HIDE DEF Queued
      <3> QED BY <1>2, <2>2 DEF Sounding, SoundOf
    <2>4. Nos(Sounding)' = Nos(Sounding)
      BY <2>3 DEF Nos, Mapped, NoOf
    <2>5. Firsts(story[m].filed)' = Firsts(story[m].filed)
      BY <1>2 DEF Firsts, Mapped, FirstOf
    <2> HIDE DEF InHand, InCall, Spoken, Firsts, Nos, Sounding
    <2> QED BY <2>1, <2>4, <2>5 DEF Line
  <1> QED BY <1>1, <1>2, <1>3, <1>5, <1>6, <1>7, <1>8, <1>9 DEF Going, Stage

-----------------------------------------------------------------------------
(* The T2W thread. *)

\* What the tokens of a turn add to its story.
Notes(m, label) == [t \in Tokens |-> IF t.turn = m THEN << <<t.no, label>> >> ELSE <<>>]
Noted(m, tokens, label) == FlattenSeq(Mapped(Notes(m, label), tokens))

\* Notes of a turn, those of its own tokens and those of others.
LEMMA NotesType ==
    ASSUME NEW m \in Turns, NEW label \in Nat
    PROVE  Notes(m, label) \in Maps(Tokens, Seq(Numbers \X {label}))
  <1>1. <<>> \in Seq(Numbers \X {label})
    OBVIOUS
  <1>2. \A t \in Tokens : << <<t.no, label>> >> \in Seq(Numbers \X {label})
    <2>1. \A t \in Tokens : <<t.no, label>> \in Numbers \X {label}
      BY DEF Tokens, Numbers
    <2> HIDE DEF Numbers
    <2> QED BY <2>1
  <1> HIDE DEF Tokens, Numbers
  <1> QED BY <1>1, <1>2 DEF Notes, Maps

\* The notes of a turn's own tokens, and of those of others.
LEMMA NotedMine ==
    ASSUME NEW m \in Turns, NEW label \in Nat, NEW tokens \in Seq(TokensOf({m}))
    PROVE  /\ Noted(m, tokens, label) \in Seq(Numbers \X {label})
           /\ Firsts(Noted(m, tokens, label)) = Nos(tokens)
  <1> DEFINE V == TokensOf({m})
             P == Numbers \X {label}
             f == [t \in V |-> << <<t.no, label>> >>]
             g == [t \in V |-> <<t.no, label>>]
  <1>1. /\ V \subseteq Tokens /\ tokens \in Seq(V)
        /\ \A t \in V : t.turn = m /\ t.no \in Numbers
    BY DEF TokensOf, Tokens, Numbers
  <1>2. g \in Maps(V, P) /\ \A t \in V : f[t] = <<g[t]>>
    <2> HIDE DEF V, Numbers
    <2> QED BY <1>1 DEF Maps
  <1>3. f \in Maps(V, Seq(P))
    <2>1. \A t \in V : g[t] \in P
      BY <1>2 DEF Maps
    <2>2. \A t \in V : <<g[t]>> \in Seq(P)
      <3> HIDE DEF V, P, g
      <3> QED BY <2>1
    <2>3. \A t \in V : f[t] \in Seq(P)
      BY <1>2, <2>2
    <2> HIDE DEF V, P, g
    <2> QED BY <2>3 DEF Maps
  <1>4. Mapped(Notes(m, label), tokens) = Mapped(f, tokens)
    <2>1. \A i \in DOMAIN tokens : tokens[i] \in V
      <3> HIDE DEF V
      <3> QED BY <1>1
    <2>2. \A i \in DOMAIN tokens : Notes(m, label)[tokens[i]] = f[tokens[i]]
      <3>1. \A t \in V : Notes(m, label)[t] = f[t]
        <4> HIDE DEF V, Tokens
        <4> QED BY <1>1 DEF Notes
      <3> QED BY <2>1, <3>1
    <2> HIDE DEF V, f
    <2> QED BY <2>2 DEF Mapped
  <1>5. Noted(m, tokens, label) = Mapped(g, tokens)
    <2> HIDE DEF V, P, f, g
    <2> QED BY <1>1, <1>2, <1>3, <1>4, FlattenSingles DEF Noted
  <1>6. /\ Mapped(g, tokens) \in Seq(P) /\ DOMAIN Mapped(g, tokens) = DOMAIN tokens
        /\ \A i \in DOMAIN tokens : Mapped(g, tokens)[i] = g[tokens[i]]
    <2>1. Mapped(g, tokens) \in Seq(P)
      <3> HIDE DEF V, P, g
      <3> QED BY <1>1, <1>2, MapType
    <2> HIDE DEF g, P
    <2> QED BY <2>1 DEF Mapped
  <1>7. Firsts(Mapped(g, tokens)) = Nos(tokens)
    <2>1. \A i \in DOMAIN tokens : tokens[i] \in V
      <3> HIDE DEF V
      <3> QED BY <1>1
    <2>2. \A t \in V : FirstOf[g[t]] = NoOf[t]
      <3>1. \A t \in V : g[t] = <<t.no, label>> /\ g[t] \in Pairs /\ t \in Tokens
        <4> HIDE DEF V, Tokens, Numbers
        <4> QED BY <1>1 DEF Pairs
      <3> HIDE DEF V, g, Tokens, Pairs
      <3> QED BY <3>1 DEF FirstOf, NoOf
    <2>3. \A i \in DOMAIN tokens : FirstOf[Mapped(g, tokens)[i]] = NoOf[tokens[i]]
      <3> HIDE DEF V, g, FirstOf, NoOf
      <3> QED BY <1>6, <2>1, <2>2
    <2> DEFINE mapped == Mapped(g, tokens)
    <2> HIDE DEF mapped, FirstOf, NoOf
    <2>4. Firsts(mapped) = Nos(tokens)
      <3>1. DOMAIN mapped = DOMAIN tokens
            /\ \A i \in DOMAIN tokens : FirstOf[mapped[i]] = NoOf[tokens[i]]
        BY <1>6, <2>3 DEF mapped
      <3> QED BY <3>1 DEF Firsts, Nos, Mapped
    <2> QED BY <2>4 DEF mapped
  <1> HIDE DEF g
  <1> QED BY <1>5, <1>6, <1>7

LEMMA NotedOthers ==
    ASSUME NEW m \in Turns, NEW label \in Nat, NEW tokens \in Seq(TokensOf(Turns \ {m}))
    PROVE  Noted(m, tokens, label) = <<>>
  <1> DEFINE V == TokensOf(Turns \ {m})
             f == [t \in V |-> <<>>]
  <1>1. /\ V \subseteq Tokens /\ tokens \in Seq(V) /\ \A t \in V : t.turn # m
    BY DEF TokensOf
  <1>2. f \in Maps(V, Seq(Nat)) /\ \A t \in V : f[t] = <<>>
    <2>1. <<>> \in Seq(Nat)
      OBVIOUS
    <2> HIDE DEF V
    <2> QED BY <2>1 DEF Maps
  <1>3. Mapped(Notes(m, label), tokens) = Mapped(f, tokens)
    <2>1. \A i \in DOMAIN tokens : tokens[i] \in V
      <3> HIDE DEF V
      <3> QED BY <1>1
    <2>2. \A i \in DOMAIN tokens : Notes(m, label)[tokens[i]] = f[tokens[i]]
      <3>1. \A t \in V : Notes(m, label)[t] = f[t]
        <4> HIDE DEF V, Tokens
        <4> QED BY <1>1 DEF Notes
      <3> QED BY <2>1, <3>1
    <2> HIDE DEF V, f
    <2> QED BY <2>2 DEF Mapped
  <1> HIDE DEF V, f
  <1> QED BY <1>1, <1>2, <1>3, FlattenNothing DEF Noted

Renoted(m, tokens, ended, label) ==
    [story[m] EXCEPT
       !.filed = Followed(@, Noted(m, tokens, label)),
       !.ended = IF m \in ended THEN @ \cup {label} ELSE @]

LEMMA WrittenIs ==
    ASSUME NEW tokens \in Seq(Tokens), NEW ended, NEW label \in Nat, NEW m \in Turns,
           story \in [Turns -> Stories]
    PROVE  /\ ~story[m].calm => Written(tokens, ended, label)[m] = story[m]
           /\ story[m].calm =>
                Written(tokens, ended, label)[m] = Renoted(m, tokens, ended, label)
  <1>1. [i \in DOMAIN tokens |-> IF tokens[i].turn = m THEN << <<tokens[i].no, label>> >>
                                 ELSE <<>>]
          = Mapped(Notes(m, label), tokens)
    <2>1. \A i \in DOMAIN tokens : tokens[i] \in Tokens
      <3> HIDE DEF Tokens
      <3> QED OBVIOUS
    <2>2. \A i \in DOMAIN tokens :
             Notes(m, label)[tokens[i]]
               = IF tokens[i].turn = m THEN << <<tokens[i].no, label>> >> ELSE <<>>
      <3> HIDE DEF Tokens
      <3> QED BY <2>1 DEF Notes
    <2> HIDE DEF Notes
    <2> QED BY <2>2 DEF Mapped
  <1> HIDE DEF Notes, Mapped
  <1>2. Noted(m, tokens, label)
          = FlattenSeq([i \in DOMAIN tokens |->
                           IF tokens[i].turn = m THEN << <<tokens[i].no, label>> >>
                           ELSE <<>>])
    BY <1>1 DEF Noted
  <1> QED BY <1>2 DEF Written, Followed, Renoted

\* Of what is taken, a is written and r is kept.
Wrote(a, r) ==
    /\ Followed(a, r) = Taken
    /\ Ended # {} => a = Taken /\ r = <<>>
    /\ story' = Written(a, Ended, Label)
    /\ t2w'.buffer = r
    /\ t2w'.round = IF Ended # {} THEN round ELSE Label

\* All that is taken is written or kept.
LEMMA TakenType ==
    ASSUME TypeInv, t2wQueue # <<>>
    PROVE  /\ Taken \in Seq(Tokens) /\ Kept \in Seq(Tokens) /\ Queued \in Seq(Tokens)
           /\ Taken = Kept \o Queued /\ Label \in Nat
           /\ t2wQueue[Len(t2wQueue)] \in Items /\ Label = t2wQueue[Len(t2wQueue)].round
  <1>1. Queued \in Seq(Tokens)
    <2>1. Inside \in Maps(Items, Seq(Tokens)) /\ t2wQueue \in Seq(Items)
      BY DEF Inside, Maps, Items, TypeInv, SoundTypes
    <2> HIDE DEF Inside, Items, Tokens
    <2> QED BY <2>1, FlattenMapConcat DEF Queued
  <1>2. Kept \in Seq(Tokens)
    BY DEF Kept, TypeInv, SoundTypes
  <1>3. Taken = Kept \o Queued
    BY DEF Taken, Queued
  <1>4. Taken \in Seq(Tokens)
    <2> HIDE DEF Kept, Queued, Tokens, Taken
    <2> QED BY <1>1, <1>2, <1>3, ConcatType
  <1>5. t2wQueue[Len(t2wQueue)] \in Items
    <2> HIDE DEF Items
    <2> QED BY DEF TypeInv, SoundTypes
  <1>6. Label \in Nat /\ Label = t2wQueue[Len(t2wQueue)].round
    BY <1>5 DEF Label, Last, Items
  <1> HIDE DEF Kept, Queued, Tokens, Taken, Label, Items
  <1> QED BY <1>1, <1>2, <1>3, <1>4, <1>5, <1>6

LEMMA WriteSplits ==
    ASSUME TypeInv, Write, NEW V, Taken \in Seq(V)
    PROVE  \E a, r \in Seq(V) : Wrote(a, r)
  <1>1. PICK k \in 0..Len(Taken) :
                 /\ Ended # {} => k = Len(Taken)
                 /\ story' = Written(SubSeq(Taken, 1, k), Ended, Label)
                 /\ t2w'.buffer = SubSeq(Taken, k + 1, Len(Taken))
                 /\ t2w'.round = IF Ended # {} THEN round ELSE Label
    BY WriteDoes
  <1> DEFINE a == SubSeq(Taken, 1, k)
             r == SubSeq(Taken, k + 1, Len(Taken))
  <1>2. a \in Seq(V) /\ r \in Seq(V) /\ Followed(a, r) = Taken
        /\ Len(a) = k /\ Len(r) = Len(Taken) - k
    <2> HIDE DEF Taken
    <2>1. a \in Seq(V) /\ r \in Seq(V) /\ Len(a) = k /\ Len(r) = Len(Taken) - k
      BY <1>1, SplitAt
    <2>2. a \o r = Taken
      BY <1>1, SplitAt
    <2> QED BY <2>1, <2>2 DEF Followed
  <1>3. Ended # {} => a = Taken /\ r = <<>>
    <2> SUFFICES ASSUME Ended # {} PROVE a = Taken /\ r = <<>>
      OBVIOUS
    <2>1. k = Len(Taken) /\ Len(Taken) \in Nat
      BY <1>1
    <2> HIDE DEF a, r, Taken
    <2>2. Len(r) = 0
      BY <1>2, <2>1
    <2>3. r = <<>>
      BY <1>2, <2>2
    <2>4. a \o <<>> = a
      BY <1>2
    <2> QED BY <1>2, <2>3, <2>4 DEF Followed
  <1>4. Wrote(a, r)
    BY <1>1, <1>2, <1>3 DEF Wrote
  <1> HIDE DEF a, r, Wrote
  <1> QED BY <1>2, <1>4

\* What is written belongs to a turn that goes on.
LEMMA GoingWrites ==
    ASSUME TypeInv, StoryInv, NEW m \in Turns, story[m].calm, ~Heard(m), Going(m), Write,
           Unmarked(m)
    PROVE  Going(m)' /\ ~Heard(m)'
  <1>1. ~breakEvent /\ at["t2w"] = "tokens" /\ Carry({m}) /\ Labelling(m)
        /\ (tts.first => tts.buffer = <<>>) /\ Labelled(m) /\ Line(m) = story[m].said
        /\ Stage(m)
    BY DEF Going
  <1> DEFINE V == TokensOf({m})
  <1>2. t2wQueue # <<>> /\ t2wQueue' = <<>>
        /\ UNCHANGED <<at, breakEvent, speekDone, round, ttsQueue, tts, turn, chunk>>
    BY WriteDoes DEF flagVars, callVars
  <1>3. PICK a \in Seq(V), r \in Seq(V) : Wrote(a, r)
    <2>1. Taken \in Seq(V)
      BY <1>1, TakenOf
    <2> HIDE DEF V
    <2> QED BY <2>1, WriteSplits
  <1>4. a \in Seq(Tokens) /\ r \in Seq(Tokens)
    <2>1. V \subseteq Tokens
      BY DEF TokensOf
    <2> HIDE DEF V, Tokens
    <2> QED BY <2>1
  <1>5. story \in [Turns -> Stories]
    BY DEF StoryInv
  <1>6. Ended = {} /\ Label = story[m].round /\ Label \in Nat
    <2>1. \A i \in DOMAIN t2wQueue : ~t2wQueue[i].final
      <3>1. \A i \in DOMAIN t2wQueue : t2wQueue[i] \in Unfinal
        <4> HIDE DEF Unfinal
        <4> QED BY DEF Unmarked
      <3> QED BY <3>1 DEF Unfinal
    <2>2. Ended = {}
      BY <2>1 DEF Ended
    <2>3. t2wQueue[Len(t2wQueue)] \in Labels(story[m].round)
      <3> DEFINE R == Labels(story[m].round)
      <3>1. t2wQueue \in Seq(R)
        BY <1>1 DEF Labelling
      <3> HIDE DEF R
      <3>2. t2wQueue[Len(t2wQueue)] \in R
        BY <1>2, <3>1
      <3> QED BY <3>2 DEF R
    <2>4. Label = t2wQueue[Len(t2wQueue)].round /\ Label \in Nat
      BY <1>2, TakenType
    <2>5. t2wQueue[Len(t2wQueue)].round = story[m].round
      BY <2>3 DEF Labels
    <2> QED BY <2>2, <2>4, <2>5
  <1>7. Kept = t2w.buffer
    BY <1>1, <1>6 DEF Kept, Labelling
  <1> DEFINE mine == Noted(m, a, Label)
  <1>8. /\ story'[m].filed = story[m].filed \o mine /\ story'[m].ended = story[m].ended
        /\ story'[m].calm /\ story'[m].said = story[m].said
        /\ story'[m].round = story[m].round /\ story'[m].cut = story[m].cut
    <2>1. story' = Written(a, Ended, Label)
      BY <1>3 DEF Wrote
    <2>2. story'[m] = Renoted(m, a, Ended, Label)
      BY <1>4, <1>5, <1>6, <2>1, WrittenIs
    <2>3. story[m] \in Stories
      BY <1>5
    <2> HIDE DEF mine
    <2> QED BY <1>6, <2>2, <2>3 DEF Stories, Followed, Renoted, mine
  <1>9. mine \in Seq(Numbers \X {story[m].round}) /\ Firsts(mine) = Nos(a)
    <2> HIDE DEF Noted, Firsts, Nos
    <2> QED BY <1>6, NotedMine
  <1> HIDE DEF mine
  <1>10. Labelled(m)'
    <2> DEFINE P == Numbers \X {story[m].round}
    <2>1. story[m].filed \in Seq(P) /\ mine \in Seq(P)
      BY <1>1, <1>9 DEF Labelled
    <2> HIDE DEF P
    <2>2. story'[m].filed \in Seq(P)
      BY <1>8, <2>1, ConcatType
    <2> QED BY <1>8, <2>2 DEF Labelled, P
  <1>11. t2w'.buffer = r /\ t2w'.round = Label
    BY <1>3, <1>6 DEF Wrote
  <1>12. <<>> \in Seq(Labels(story[m].round)) /\ <<>> \in Seq(Unfinal)
    OBVIOUS
  <1>13. Labelling(m)'
    <2>1. Labels(story[m].round)' = Labels(story[m].round)
      BY <1>8 DEF Labels
    <2> HIDE DEF Labels
    <2> QED BY <1>2, <1>6, <1>8, <1>11, <1>12, <2>1 DEF Labelling
  <1>14. Unmarked(m)'
    <2>1. Unfinal' = Unfinal
      BY DEF Unfinal
    <2> HIDE DEF Unfinal
    <2> QED BY <1>2, <1>8, <1>12, <2>1 DEF Unmarked
  <1>15. Stage(m)'
    <2>1. Left(m)' <=> Left(m)
      BY <1>2 DEF Left
    <2>2. Open(m) => Open(m)'
      BY <1>2, <1>8, <2>1 DEF Open
    <2>3. Closing(m) => Closing(m)'
      BY <1>2, <2>1 DEF Closing
    <2>4. ~Closed(m)
      <3>1. \A i \in DOMAIN t2wQueue : t2wQueue[i] \in Unfinal
        <4> HIDE DEF Unfinal
        <4> QED BY DEF Unmarked
      <3>2. t2wQueue \in Seq(Items)
        BY DEF TypeInv, SoundTypes
      <3>3. Len(t2wQueue) \in DOMAIN t2wQueue
        <4> HIDE DEF Items
        <4> QED BY <1>2, <3>2
      <3> QED BY <3>1, <3>3 DEF Closed, Unfinal
    <2> QED BY <1>1, <1>14, <2>2, <2>3, <2>4 DEF Stage
  <1>16. Carry({m})'
    BY <1>1, T2wCarry
  <1>17. Line(m)' = Line(m)
    <2> DEFINE f == Firsts(story[m].filed)
               h == InHand
               q == Spoken(ttsQueue)
               call == InCall
               w == t2w.buffer
               d == Queued
               b == tts.buffer
               rest == SoundOf(r, <<>>, b)
    <2>1. /\ f \in Seq(Numbers) /\ h \in Seq(Numbers)
          /\ q \in Seq(Numbers) /\ call \in Seq(Numbers)
          /\ w \in Seq(Tokens) /\ d \in Seq(Tokens)
          /\ b \in Seq(Tokens)
      <3> HIDE DEF Firsts, Nos, Sounding, InCall, InHand, Spoken, Queued, Tokens
      <3> QED BY <1>5, LineParts
    <2>2. Followed(w, d) = Followed(a, r)
      BY <1>2, <1>3, <1>7, TakenType DEF Wrote, Followed
    <2>3. rest \in Seq(Tokens) /\ Sounding = Followed(a, rest)
      <3> HIDE DEF w, d, b, Tokens
      <3>1. <<>> \in Seq(Tokens)
        OBVIOUS
      <3>2. rest \in Seq(Tokens)
        BY <1>4, <2>1, <3>1, SoundType
      <3>3. SoundOf(w, d, b) = Followed(a, rest)
        BY <1>4, <2>1, <2>2, SoundWritten
      <3> QED BY <3>2, <3>3 DEF Sounding, w, d, b
    <2>4. Sounding' = rest
      <3>1. Queued' = <<>>
        BY <1>2, MapEmpty, FlattenEmpty DEF Queued
      <3> HIDE DEF Queued
      <3> QED BY <1>2, <1>11, <3>1 DEF Sounding
    <2> HIDE DEF rest
    <2>5. /\ Nos(Sounding) = Followed(Nos(a), Nos(rest)) /\ Nos(a) \in Seq(Numbers)
          /\ Nos(rest) \in Seq(Numbers) /\ Nos(Sounding)' = Nos(rest)
      <3>1. Nos(Sounding)' = Nos(Sounding')
        BY DEF Nos, Mapped, NoOf
      <3> HIDE DEF Nos, Sounding, Tokens, Numbers
      <3> QED BY <1>4, <2>3, <2>4, <3>1, NosAre DEF Followed
    <2>6. Firsts(story[m].filed)' = Followed(f, Nos(a))
      <3>1. Firsts(story[m].filed)' = Firsts(story'[m].filed)
        BY DEF Firsts, Mapped, FirstOf
      <3>2. story[m].filed \in Seq(Pairs) /\ mine \in Seq(Pairs)
        <4> DEFINE P == Numbers \X {story[m].round}
        <4>1. P \subseteq Pairs /\ story[m].filed \in Seq(P) /\ mine \in Seq(P)
          BY <1>1, <1>6, <1>9 DEF Pairs, Labelled
        <4> HIDE DEF P, Pairs
        <4> QED BY <4>1
      <3> DEFINE old == story[m].filed
      <3> HIDE DEF Firsts, Nos, Pairs, old
      <3>3. Firsts(old \o mine) = Firsts(old) \o Firsts(mine)
        BY <3>2, FirstsAre DEF old
      <3> QED BY <1>8, <1>9, <3>1, <3>3 DEF Followed, old
    <2>7. Line(m)' = LineOf(Followed(f, Nos(a)), Nos(rest), h, q, call)
      <3>1. InHand' = h /\ InCall' = call /\ Spoken(ttsQueue)' = q
        BY <1>2 DEF InHand, InCall, Spoken, Mapped, Voiced
      <3> HIDE DEF InHand, InCall, Spoken, Firsts, Nos, Sounding
      <3> QED BY <2>5, <2>6, <3>1 DEF Line
    <2>8. Line(m) = LineOf(f, Followed(Nos(a), Nos(rest)), h, q, call)
      <3> HIDE DEF InHand, InCall, Spoken, Firsts, Nos, Sounding
      <3> QED BY <2>5 DEF Line
    <2> DEFINE n == Nos(a)
               s == Nos(rest)
    <2> HIDE DEF f, h, q, call, n, s, Numbers, Line
    <2>9. LineOf(Followed(f, n), s, h, q, call) = LineOf(f, Followed(n, s), h, q, call)
      <3>1. n \in Seq(Numbers) /\ s \in Seq(Numbers)
        BY <2>5 DEF n, s
      <3> QED BY <2>1, <3>1, LineFiled
    <2> QED BY <2>7, <2>8, <2>9 DEF n, s
  <1>18. ~Heard(m)'
    BY <1>8 DEF Heard
  <1>19. (tts'.first => tts'.buffer = <<>>) /\ ~breakEvent' /\ at'["t2w"] = "tokens"
    BY <1>1, <1>2
  <1>20. Line(m)' = story'[m].said
    BY <1>1, <1>8, <1>17
  <1> QED BY <1>10, <1>13, <1>15, <1>16, <1>18, <1>19, <1>20 DEF Going

\* The turn is heard to its end.
LEMMA GoingCloses ==
    ASSUME TypeInv, StoryInv, NEW m \in Turns, story[m].calm, ~Heard(m), Going(m), Write,
           Closed(m)
    PROVE  Heard(m)' /\ Over(m)'
  <1>1. Carry({m}) /\ Labelling(m) /\ Labelled(m) /\ Line(m) = story[m].said
    BY DEF Going
  <1> DEFINE V == TokensOf({m})
  <1>2. t2wQueue # <<>> /\ t2wQueue' = <<>>
        /\ UNCHANGED <<at, round, ttsQueue, tts, turn, chunk>>
    BY WriteDoes DEF callVars
  <1>3. PICK a \in Seq(V), r \in Seq(V) : Wrote(a, r)
    <2>1. Taken \in Seq(V)
      BY <1>1, TakenOf
    <2> HIDE DEF V
    <2> QED BY <2>1, WriteSplits
  <1>4. V \subseteq Tokens /\ a \in Seq(Tokens)
    <2>1. V \subseteq Tokens
      BY DEF TokensOf
    <2> HIDE DEF V, Tokens
    <2> QED BY <2>1
  <1>5. story \in [Turns -> Stories]
    BY DEF StoryInv
  <1>6. m \in Ended
    <2> DEFINE I == ItemsOf({m})
               n == Len(t2wQueue)
    <2>1. t2wQueue \in Seq(I)
      BY <1>1 DEF Carry
    <2>2. n \in DOMAIN t2wQueue /\ t2wQueue[n] \in I
      <3> HIDE DEF I
      <3> QED BY <1>2, <2>1
    <2>3. t2wQueue[n].final /\ t2wQueue[n].turn = m
      BY <2>2 DEF ItemsOf, Closed
    <2> HIDE DEF n
    <2> QED BY <2>2, <2>3 DEF Ended
  <1>7. Label = story[m].round /\ Label \in Nat
    <2>1. t2wQueue[Len(t2wQueue)] \in Labels(story[m].round)
      <3> DEFINE R == Labels(story[m].round)
      <3>1. t2wQueue \in Seq(R)
        BY <1>1 DEF Labelling
      <3> HIDE DEF R
      <3>2. t2wQueue[Len(t2wQueue)] \in R
        BY <1>2, <3>1
      <3> QED BY <3>2 DEF R
    <2>2. Label = t2wQueue[Len(t2wQueue)].round /\ Label \in Nat
      BY <1>2, TakenType
    <2>3. t2wQueue[Len(t2wQueue)].round = story[m].round
      BY <2>1 DEF Labels
    <2> QED BY <2>2, <2>3
  <1>8. Kept = t2w.buffer
    BY <1>1, <1>7 DEF Kept, Labelling
  <1>9. a = Taken /\ r = <<>> /\ t2w'.buffer = <<>>
    BY <1>3, <1>6 DEF Wrote
  <1> DEFINE mine == Noted(m, a, Label)
  <1>10. /\ story'[m].filed = Followed(story[m].filed, mine)
         /\ story'[m].ended = {story[m].round} /\ story'[m].said = story[m].said
         /\ story'[m].round = story[m].round
    <2>1. story' = Written(a, Ended, Label)
      BY <1>3 DEF Wrote
    <2>2. story'[m] = Renoted(m, a, Ended, Label)
      BY <1>4, <1>5, <1>7, <2>1, WrittenIs
    <2>3. story[m] \in Stories /\ story[m].ended = {}
      BY <1>5 DEF Heard
    <2> HIDE DEF mine
    <2> QED BY <1>6, <1>7, <2>2, <2>3 DEF Stories, Renoted, mine
  <1>11. mine \in Seq(Numbers \X {story[m].round}) /\ Firsts(mine) = Nos(a)
    <2> HIDE DEF Noted, Firsts, Nos
    <2> QED BY <1>7, NotedMine
  <1> HIDE DEF mine
  <1>12. Labelled(m)'
    <2> DEFINE P == Numbers \X {story[m].round}
    <2>1. story[m].filed \in Seq(P) /\ mine \in Seq(P)
      BY <1>1, <1>11 DEF Labelled
    <2> HIDE DEF P
    <2>2. story'[m].filed \in Seq(P)
      BY <1>10, <2>1, ConcatType DEF Followed
    <2> QED BY <1>10, <2>2 DEF Labelled, P
  <1>13. Firsts(story'[m].filed) = story'[m].said
    <2> DEFINE f == Firsts(story[m].filed)
               w == t2w.buffer
               d == Queued
               n == Nos(a)
    <2>1. f \in Seq(Numbers) /\ w \in Seq(Tokens) /\ d \in Seq(Tokens)
      <3> HIDE DEF Firsts, Nos, Sounding, InCall, InHand, Spoken, Queued, Tokens
      <3> QED BY <1>5, LineParts
    <2>2. InHand = <<>> /\ InCall = <<>> /\ Spoken(ttsQueue) = <<>> /\ tts.buffer = <<>>
      BY SpokenNone DEF Closed, Left, InHand, InCall
    <2>3. Sounding = a
      <3>1. Taken = w \o d
        BY <1>2, <1>8, TakenType
      <3>2. Sounding = SoundOf(w, d, <<>>)
        BY <2>2 DEF Sounding
      <3> HIDE DEF w, d, Tokens
      <3>3. (w \o d) \o <<>> = w \o d
        <4>1. w \o d \in Seq(Tokens)
          BY <2>1, ConcatType
        <4> QED BY <4>1, Nothing
      <3> QED BY <1>9, <3>1, <3>2, <3>3 DEF SoundOf
    <2>4. n \in Seq(Numbers)
      <3> HIDE DEF Nos, Tokens, Numbers
      <3> QED BY <1>4, NosAre
    <2>5. story[m].said = f \o n
      <3>1. story[m].said = LineOf(f, n, <<>>, <<>>, <<>>)
        <4> HIDE DEF InHand, InCall, Spoken, Firsts, Nos, Sounding
        <4> QED BY <1>1, <2>2, <2>3 DEF Line
      <3> HIDE DEF f, n, Numbers
      <3>2. (f \o n) \o ((<<>> \o <<>>) \o <<>>) = f \o n
        <4>1. f \o n \in Seq(Numbers)
          BY <2>1, <2>4, ConcatType
        <4>2. <<>> \o <<>> = <<>>
          OBVIOUS
        <4> QED BY <4>1, <4>2, Nothing
      <3> QED BY <3>1, <3>2 DEF LineOf
    <2>6. story[m].filed \in Seq(Pairs) /\ mine \in Seq(Pairs)
      <3> DEFINE P == Numbers \X {story[m].round}
      <3>1. P \subseteq Pairs /\ story[m].filed \in Seq(P) /\ mine \in Seq(P)
        BY <1>1, <1>7, <1>11 DEF Pairs, Labelled
      <3> HIDE DEF P, Pairs
      <3> QED BY <3>1
    <2> DEFINE old == story[m].filed
    <2> HIDE DEF Firsts, Nos, Pairs, old
    <2>7. Firsts(old \o mine) = Firsts(old) \o Firsts(mine)
      BY <2>6, FirstsAre DEF old
    <2> QED BY <1>10, <1>11, <2>5, <2>7 DEF Followed, old
  <1>14. Carry(Turns \ {m})'
    <2> DEFINE U == Turns \ {m}
    <2>1. <<>> \in Seq(TokensOf(U)) /\ <<>> \in Seq(ItemsOf(U)) /\ <<>> \in Seq(TextsOf(U))
      OBVIOUS
    <2>2. ~Holding'
      BY <1>2 DEF Holding, Closed
    <2>3. at'["client"] # "room" /\ ttsQueue' = <<>> /\ tts'.buffer = <<>>
      BY <1>2 DEF Closed, Left
    <2> HIDE DEF Holding, TokensOf, ItemsOf, TextsOf
    <2> QED BY <1>2, <1>9, <2>1, <2>2, <2>3 DEF Carry
  <1>15. m < turn'
    BY <1>2 DEF Closed, Left, Turns
  <1>16. Heard(m)'
    BY <1>10 DEF Heard
  <1>17. Firsts(story[m].filed)' = Firsts(story'[m].filed)
    BY DEF Firsts, Mapped, FirstOf
  <1> QED BY <1>10, <1>12, <1>13, <1>14, <1>15, <1>16, <1>17 DEF Over

\* Nothing is added to the story of a turn that has been heard.
LEMMA OverWrites ==
    ASSUME TypeInv, StoryInv, NEW m \in Turns, Over(m), Write PROVE story'[m] = story[m]
  <1> DEFINE V == TokensOf(Turns \ {m})
  <1>1. PICK a \in Seq(V), r \in Seq(V) : Wrote(a, r)
    <2>1. Taken \in Seq(V)
      BY TakenOf DEF Over
    <2> HIDE DEF V
    <2> QED BY <2>1, WriteSplits
  <1>2. a \in Seq(Tokens)
    <2>1. V \subseteq Tokens
      BY DEF TokensOf
    <2> HIDE DEF V, Tokens
    <2> QED BY <2>1
  <1>3. m \notin Ended
    <2>1. \A i \in DOMAIN t2wQueue : t2wQueue[i] \in ItemsOf(Turns \ {m})
      <3> DEFINE I == ItemsOf(Turns \ {m})
      <3>1. t2wQueue \in Seq(I)
        BY DEF Over, Carry
      <3> HIDE DEF I
      <3>2. \A i \in DOMAIN t2wQueue : t2wQueue[i] \in I
        BY <3>1
      <3> QED BY <3>2 DEF I
    <2>2. \A i \in DOMAIN t2wQueue : t2wQueue[i].final => t2wQueue[i].turn # m
      BY <2>1 DEF ItemsOf
    <2> QED BY <2>2 DEF Ended
  <1>4. Label \in Nat
    BY WriteDoes, TakenType
  <1>5. story \in [Turns -> Stories] /\ story[m] \in Stories
    BY DEF StoryInv
  <1>6. Noted(m, a, Label) = <<>>
    <2> HIDE DEF Noted
    <2> QED BY <1>4, NotedOthers
  <1>7. Renoted(m, a, Ended, Label) = story[m]
    <2>1. Followed(story[m].filed, <<>>) = story[m].filed
      <3>1. story[m].filed \in Seq(Pairs)
        <4> HIDE DEF Pairs
        <4> QED BY <1>5 DEF Stories
      <3> HIDE DEF Pairs
      <3> QED BY <3>1, Nothing DEF Followed
    <2>2. Renoted(m, a, Ended, Label)
            = [story[m] EXCEPT !.filed = story[m].filed, !.ended = story[m].ended]
      BY <1>3, <1>6, <2>1 DEF Renoted
    <2> QED BY <1>5, <2>2 DEF Stories
  <1>8. story' = Written(a, Ended, Label)
    BY <1>1 DEF Wrote
  <1> QED BY <1>2, <1>4, <1>5, <1>7, <1>8, WrittenIs

-----------------------------------------------------------------------------
(* All steps keep the story. *)

\* The stories are well-formed.
LEMMA BlankStory == Blank \in Stories
  <1>1. <<>> \in Seq(Numbers) /\ <<>> \in Seq(Pairs)
    OBVIOUS
  <1> HIDE DEF Numbers, Pairs
  <1> QED BY <1>1 DEF Blank, Stories

LEMMA StoriesStep ==
    ASSUME TypeInv, TypeInv', StoryInv, [Next]_vars PROVE story' \in [Turns -> Stories]
  <1>1. story \in [Turns -> Stories]
    BY DEF StoryInv
  <1>2. \A S : Disturbed(S) \in [Turns -> Stories]
    BY <1>1, BlankStory DEF Disturbed
  <1>3. CASE DecodeCall
    <2> DEFINE began == IF AllDone THEN [Blank EXCEPT !.calm = TRUE, !.round = round']
                        ELSE Blank
    <2>1. began \in Stories
      <3>1. round' \in Nat
        BY DEF TypeInv, SoundTypes
      <3>2. Blank \in Stories
        BY BlankStory
      <3> QED BY <3>1, <3>2 DEF Stories
    <2>2. story' = [Disturbed(Unheard) EXCEPT ![turn] = began]
      BY <1>3 DEF DecodeCall
    <2> HIDE DEF began, Stories
    <2> QED BY <1>2, <2>1, <2>2
  <1>4. CASE Generate
    <2>1. made' \in Numbers /\ turn \in Turns
      BY <1>4, BoundsAssumption DEF Generate, TypeInv, CallShape, Numbers
    <2>2. story' = story \/ story' = [story EXCEPT ![turn].said = Append(@, made')]
      BY <1>4 DEF Generate
    <2>3. [story[turn] EXCEPT !.said = Append(@, made')] \in Stories
      <3>1. story[turn] \in Stories
        BY <1>1, <2>1
      <3>2. Append(story[turn].said, made') \in Seq(Numbers)
        <4>1. story[turn].said \in Seq(Numbers)
          BY <3>1 DEF Stories
        <4> HIDE DEF Numbers
        <4> QED BY <2>1, <4>1
      <3> QED BY <3>1, <3>2 DEF Stories
    <2> HIDE DEF Stories
    <2> QED BY <1>1, <2>1, <2>2, <2>3
  <1>5. CASE Write
    <2>0. t2wQueue # <<>>
      BY <1>5, WriteDoes
    <2>1. PICK a \in Seq(Tokens), r \in Seq(Tokens) : Wrote(a, r)
      <3>1. Taken \in Seq(Tokens)
        BY <2>0, TakenType
      <3> HIDE DEF Tokens
      <3> QED BY <1>5, <3>1, WriteSplits
    <2>2. story' = Written(a, Ended, Label) /\ Label \in Nat
      BY <2>0, <2>1, TakenType DEF Wrote
    <2>3. \A m \in Turns : Renoted(m, a, Ended, Label) \in Stories
      <3> SUFFICES ASSUME NEW m \in Turns PROVE Renoted(m, a, Ended, Label) \in Stories
        OBVIOUS
      <3>1. Noted(m, a, Label) \in Seq(Pairs)
        <4> DEFINE P == Numbers \X {Label}
        <4>1. Notes(m, Label) \in Maps(Tokens, Seq(P))
          BY <2>2, NotesType
        <4>2. P \subseteq Pairs
          BY <2>2 DEF Pairs
        <4> HIDE DEF P, Notes, Tokens, Pairs
        <4>3. Noted(m, a, Label) \in Seq(P)
          BY <4>1, FlattenMapConcat DEF Noted
        <4> QED BY <4>2, <4>3
      <3>2. story[m] \in Stories /\ story[m].filed \in Seq(Pairs)
        BY <1>1 DEF Stories
      <3>3. Followed(story[m].filed, Noted(m, a, Label)) \in Seq(Pairs)
        <4> HIDE DEF Pairs, Noted
        <4> QED BY <3>1, <3>2, ConcatType DEF Followed
      <3> HIDE DEF Noted
      <3> QED BY <2>2, <3>2, <3>3 DEF Renoted, Stories
    <2>4. \A m \in Turns : Written(a, Ended, Label)[m] \in {story[m], Renoted(m, a, Ended, Label)}
      <3> SUFFICES ASSUME NEW m \in Turns
                   PROVE  Written(a, Ended, Label)[m] \in {story[m], Renoted(m, a, Ended, Label)}
        OBVIOUS
      <3>1. CASE story[m].calm
        BY <1>1, <2>2, <3>1, WrittenIs
      <3>2. CASE ~story[m].calm
        BY <1>1, <2>2, <3>2, WrittenIs
      <3> QED BY <3>1, <3>2
    <2>5. \A m \in Turns : Written(a, Ended, Label)[m] \in Stories
      <3> HIDE DEF Stories
      <3> QED BY <1>1, <2>3, <2>4
    <2> DEFINE wrote == [m \in Turns |-> Written(a, Ended, Label)[m]]
    <2>6. story' = wrote
      BY <2>2 DEF Written
    <2>7. wrote \in [Turns -> Stories]
      <3> HIDE DEF Stories
      <3> QED BY <2>5
    <2> QED BY <2>6, <2>7
  <1>7. CASE RunOut
    <2> HIDE DEF Stories
    <2>1. \A m \in Turns : story' \in [Turns -> Stories]
      BY <1>1, <1>7, RunOutDoes
    <2>2. turn \in Turns
      BY <1>7 DEF RunOut, TypeInv, CallShape
    <2> QED BY <2>1, <2>2
  <1>6. CASE ~(DecodeCall \/ Generate \/ Write \/ RunOut)
    <2>1. story' = story \/ \E S : story' = Disturbed(S)
      BY <1>6 DEF Next, Client, Call, Llm, Tts, T2w, PrefillCall, FirstPrefillCall,
             ColdPrefillCall, Break, SpeechOver, SpeechTimeout, Push, PushFrame, Begin,
             GiveUp, Speak, Wait, TakeBatch, Prefill, Answer, Answered,
             AnswerAtOnce, TtsInterrupted, TtsClear, TtsCleared, TakeText, TakenText, TtsSpeak,
             TtsFlush, TtsDone, TtsFile, T2wInterrupted, T2wDrop, history, vars
    <2> QED BY <1>1, <1>2, <2>1
  <1> QED BY <1>3, <1>4, <1>5, <1>6, <1>7

\* Steps that a turn that goes on excludes.
LEMMA GoingExcludes ==
    ASSUME NEW m \in Turns, Going(m)
    PROVE  ~(GiveUp \/ TtsInterrupted \/ TtsClear \/ TtsCleared \/ T2wInterrupted \/ T2wDrop)
  <1>1. ~breakEvent /\ at["t2w"] = "tokens" /\ at["tts"] \notin {"clear", "again", "cleared"}
    BY DEF Going, Stage, Open, Closing, Closed
  <1> QED BY <1>1 DEF GiveUp, TtsInterrupted, TtsClear, TtsCleared, T2wInterrupted, T2wDrop

\* A step that leaves the story of a turn as it is.
LEMMA ToldSame ==
    ASSUME TypeInv, StoryInv, NEW m \in Turns, [Next]_vars, story'[m] = story[m],
           Going(m) => Going(m)'
    PROVE  Told(m)'
  <1>1. Heard(m)' <=> Heard(m)
    BY DEF Heard
  <1>2. Told(m)
    BY DEF StoryInv
  <1>3. Over(m) => Over(m)'
    BY OverStep
  <1> HIDE DEF Heard, Over, Going
  <1> QED BY <1>1, <1>2, <1>3 DEF Told

LEMMA ToldStep ==
    ASSUME TypeInv, TypeInv', StoryInv, [Next]_vars, NEW m \in Turns PROVE Told(m)'
  <1>1. CASE ColdPrefillCall \/ SpeechTimeout \/ Break \/ (DecodeCall /\ m # turn)
    BY <1>1, DisturbStep
  <1>2. CASE DecodeCall /\ m = turn
    BY <1>2, GoingBegins DEF StoryInv
  <1>3. CASE Besides
    <2>1. story' = story
      BY <1>3, BesidesDoes
    <2>2. Going(m) => Going(m)'
      BY <1>3, GoingBesides
    <2> HIDE DEF Going
    <2> QED BY <2>1, <2>2, ToldSame
  <1>4. CASE SpeechOver \/ Speak \/ TtsFlush \/ TtsDone \/ TtsFile
    <2>1. story' = story
      BY <1>4 DEF SpeechOver, Speak, TtsFlush, TtsDone, TtsFile, history
    <2>2. Going(m) => Going(m)'
      BY <1>4, GoingSpeechOver, GoingSpeaks, GoingFlushes, GoingDone, GoingMarked
    <2> HIDE DEF Going
    <2> QED BY <2>1, <2>2, ToldSame
  <1>5. CASE GiveUp \/ TtsInterrupted \/ TtsClear \/ TtsCleared \/ T2wInterrupted \/ T2wDrop
    <2>1. story' = story
      BY <1>5 DEF GiveUp, TtsInterrupted, TtsClear, TtsCleared, T2wInterrupted, T2wDrop, history
    <2>2. ~Going(m)
      BY <1>5, GoingExcludes
    <2> HIDE DEF Going
    <2> QED BY <2>1, <2>2, ToldSame
  <1>6. CASE Generate
    <2>1. story \in [Turns -> Stories] /\ Told(m)
      BY DEF StoryInv
    <2>2. CASE m = turn /\ story[m].calm /\ chunk'.kind = "speech"
      <3>1. story'[m].calm = story[m].calm /\ story'[m].ended = story[m].ended
        BY <1>6, <2>1, <2>2, GenerateStory
      <3>2. ~Over(m)
        BY <2>2 DEF Over, TypeInv, CallShape
      <3>3. Going(m) /\ ~Heard(m)
        BY <2>1, <2>2, <3>2 DEF Told
      <3>4. Going(m)'
        BY <1>6, <2>2, <3>3, GoingGenerates
      <3>5. ~Heard(m)'
        BY <3>1, <3>3 DEF Heard
      <3> HIDE DEF Going, Heard, Over
      <3> QED BY <3>4, <3>5 DEF Told
    <2>3. CASE ~(m = turn /\ story[m].calm /\ chunk'.kind = "speech")
      <3>1. story'[m] = story[m]
        BY <1>6, <2>1, <2>3, GenerateStory
      <3>2. CASE story[m].calm
        <4>1. Going(m) => Going(m)'
          BY <1>6, <3>2, GoingGenerates
        <4> HIDE DEF Going
        <4> QED BY <3>1, <4>1, ToldSame
      <3>3. CASE ~story[m].calm
        BY <3>1, <3>3 DEF Told
      <3> QED BY <3>2, <3>3
    <2> QED BY <2>2, <2>3
  <1>7. CASE TakeText
    <2>1. story'[m] = story[m] \/ story'[m] = Blank
      <3>1. story' = story \/ \E S : story' = Disturbed(S)
        BY <1>7 DEF TakeText, TakenText
      <3> QED BY <3>1, DisturbedIs
    <2>2. CASE ~story'[m].calm
      BY <2>2 DEF Told
    <2>3. CASE story'[m].calm
      <3>1. story'[m] = story[m]
        BY <2>1, <2>3 DEF Blank
      <3>2. Going(m) => Going(m)'
        BY <1>7, <2>3, GoingTakes
      <3> HIDE DEF Going
      <3> QED BY <3>1, <3>2, ToldSame
    <2> QED BY <2>2, <2>3
  <1>10. CASE TtsSpeak
    <2>1. story'[m] = story[m] \/ story'[m] = Blank
      <3>1. story' = story \/ \E S : story' = Disturbed(S)
        BY <1>10 DEF TtsSpeak
      <3> QED BY <3>1, DisturbedIs
    <2>2. CASE ~story'[m].calm
      BY <2>2 DEF Told
    <2>3. CASE story'[m].calm
      <3>1. story'[m] = story[m]
        BY <2>1, <2>3 DEF Blank
      <3>2. Going(m) => Going(m)'
        BY <1>10, <2>3, GoingSounds
      <3> HIDE DEF Going
      <3> QED BY <3>1, <3>2, ToldSame
    <2> QED BY <2>2, <2>3
  <1>11. CASE RunOut
    <2>1. story \in [Turns -> Stories] /\ Told(m)
      BY DEF StoryInv
    <2>2. /\ story'[m].calm = story[m].calm /\ story'[m].ended = story[m].ended
          /\ m # turn => story'[m] = story[m]
      BY <1>11, <2>1, RunOutDoes
    <2>3. CASE ~story[m].calm
      BY <2>2, <2>3 DEF Told
    <2>4. CASE story[m].calm
      <3>1. Going(m) => Going(m)'
        BY <1>11, <2>4, GoingRunsOut
      <3>2. CASE m # turn
        <4> HIDE DEF Going
        <4> QED BY <2>2, <3>1, <3>2, ToldSame
      <3>3. CASE m = turn
        <4>1. ~Over(m)
          BY <3>3 DEF Over, TypeInv, CallShape
        <4>2. Going(m) /\ ~Heard(m)
          BY <2>1, <2>4, <4>1 DEF Told
        <4>3. ~Heard(m)'
          BY <2>2, <4>2 DEF Heard
        <4> HIDE DEF Going, Heard, Over
        <4> QED BY <3>1, <4>2, <4>3 DEF Told
      <3> QED BY <3>2, <3>3
    <2> QED BY <2>3, <2>4
  <1>8. CASE Write
    <2>1. story \in [Turns -> Stories] /\ Told(m)
      BY DEF StoryInv
    <2>2. CASE ~story[m].calm
      <3>0. t2wQueue # <<>>
        BY <1>8, WriteDoes
      <3>1. PICK a \in Seq(Tokens), r \in Seq(Tokens) : Wrote(a, r)
        <4>1. Taken \in Seq(Tokens)
          BY <3>0, TakenType
        <4> HIDE DEF Tokens
        <4> QED BY <1>8, <4>1, WriteSplits
      <3>2. story' = Written(a, Ended, Label) /\ Label \in Nat
        BY <3>0, <3>1, TakenType DEF Wrote
      <3>3. story'[m] = story[m]
        BY <2>1, <2>2, <3>2, WrittenIs
      <3> QED BY <2>2, <3>3 DEF Told
    <2>3. CASE story[m].calm /\ Heard(m)
      <3>1. Over(m)
        BY <2>1, <2>3 DEF Told
      <3>2. story'[m] = story[m]
        BY <1>8, <3>1, OverWrites
      <3>3. Over(m)' /\ Heard(m)'
        BY <2>3, <3>1, <3>2, OverStep DEF Heard
      <3> HIDE DEF Over, Heard, Going
      <3> QED BY <3>3 DEF Told
    <2>4. CASE story[m].calm /\ ~Heard(m)
      <3>1. Going(m)
        BY <2>1, <2>4 DEF Told
      <3>2. Unmarked(m) \/ Closed(m)
        BY <3>1 DEF Going, Stage
      <3>3. CASE Unmarked(m)
        <4>1. Going(m)' /\ ~Heard(m)'
          BY <1>8, <2>4, <3>1, <3>3, GoingWrites
        <4> HIDE DEF Going, Heard, Over
        <4> QED BY <4>1 DEF Told
      <3>4. CASE Closed(m)
        <4>1. Over(m)' /\ Heard(m)'
          BY <1>8, <2>4, <3>1, <3>4, GoingCloses
        <4> HIDE DEF Going, Heard, Over
        <4> QED BY <4>1 DEF Told
      <3> QED BY <3>2, <3>3, <3>4
    <2> QED BY <2>2, <2>3, <2>4
  <1> QED
    BY <1>1, <1>2, <1>3, <1>4, <1>5, <1>6, <1>7, <1>8, <1>10, <1>11
    DEF Next, Client, Call, Llm, Tts, T2w, Threads, Besides

LEMMA InitStory == Init => StoryInv
  <1> SUFFICES ASSUME Init PROVE StoryInv
    OBVIOUS
  <1>1. story = [n \in Turns |-> Blank]
    BY DEF Init
  <1> QED BY <1>1, BlankStory DEF StoryInv, Told, Blank

LEMMA NextKeepsStory == TypeInv /\ TypeInv' /\ StoryInv /\ [Next]_vars => StoryInv'
  <1> SUFFICES ASSUME TypeInv, TypeInv', StoryInv, [Next]_vars PROVE StoryInv'
    OBVIOUS
  <1>1. story' \in [Turns -> Stories]
    BY StoriesStep
  <1>2. \A m \in Turns : Told(m)'
    BY ToldStep
  <1> HIDE DEF Told
  <1> QED BY <1>1, <1>2 DEF StoryInv

\* What filed sound says.
LEMMA FirstsIs ==
    ASSUME NEW s \in Seq(Pairs) PROVE Firsts(s) = [i \in DOMAIN s |-> s[i][1]]
  <1>1. \A i \in DOMAIN s : s[i] \in Pairs
    <2> HIDE DEF Pairs
    <2> QED OBVIOUS
  <1>2. \A i \in DOMAIN s : FirstOf[s[i]] = s[i][1]
    BY <1>1 DEF FirstOf
  <1> HIDE DEF FirstOf, Pairs
  <1> QED BY <1>2 DEF Firsts, Mapped

\* What has been filed is the beginning of what has been said, and all of it at the end.
LEMMA FiledFollow == TypeInv /\ StoryInv => CalmTurnsAreFiled
  <1> SUFFICES ASSUME TypeInv, StoryInv, NEW n \in Turns, story[n].calm
               PROVE  /\ IsPrefix([i \in DOMAIN story[n].filed |-> story[n].filed[i][1]],
                                  story[n].said)
                      /\ \A i \in DOMAIN story[n].filed :
                            story[n].filed[i][2] = story[n].round
                      /\ story[n].ended \subseteq {story[n].round}
                      /\ Heard(n) => Len(story[n].filed) = Len(story[n].said)
    BY DEF CalmTurnsAreFiled
  <1> DEFINE mine   == story[n].filed
             firsts == Firsts(mine)
             said   == story[n].said
  <1>1. story \in [Turns -> Stories] /\ (Over(n) \/ Going(n)) /\ (Heard(n) => Over(n))
    BY DEF StoryInv, Told
  <1>2. mine \in Seq(Numbers \X {story[n].round})
    BY <1>1 DEF Over, Going, Labelled
  <1>3. /\ mine \in Seq(Pairs) /\ \A i \in DOMAIN mine : mine[i] \in Pairs
        /\ \A i \in DOMAIN mine : mine[i][2] = story[n].round
    <2> DEFINE P == Numbers \X {story[n].round}
    <2>1. story[n].round \in Nat
      BY <1>1 DEF Stories
    <2>2. P \subseteq Pairs /\ \A p \in P : p[2] = story[n].round
      BY <2>1 DEF Pairs
    <2>3. mine \in Seq(P)
      BY <1>2
    <2> HIDE DEF P, Pairs, mine
    <2>4. mine \in Seq(Pairs) /\ \A i \in DOMAIN mine : mine[i] \in P
      BY <2>2, <2>3
    <2> QED BY <2>2, <2>4
  <1>4. [i \in DOMAIN mine |-> mine[i][1]] = firsts
    <2> HIDE DEF mine, Pairs, Firsts
    <2> QED BY <1>3, FirstsIs
  <1>5. firsts \in Seq(Numbers) /\ Len(firsts) = Len(mine) /\ Len(mine) \in Nat
    <2>1. FirstOf \in Maps(Pairs, Numbers)
      BY DEF FirstOf, Maps, Pairs
    <2> HIDE DEF mine, FirstOf, Pairs, Numbers
    <2> QED BY <1>3, <2>1, MapType DEF Firsts
  <1>6. \E rest \in Seq(Numbers) : said = firsts \o rest
    <2>1. CASE Over(n)
      <3>1. said = firsts
        BY <2>1 DEF Over
      <3>2. firsts \o <<>> = firsts /\ <<>> \in Seq(Numbers)
        <4> HIDE DEF firsts, Numbers
        <4> QED BY <1>5, Nothing
      <3> HIDE DEF said, firsts
      <3> QED BY <3>1, <3>2
    <2>2. CASE Going(n)
      <3> DEFINE s == Nos(Sounding)
                 h == InHand
                 q == Spoken(ttsQueue)
                 c == InCall
      <3>1. said = (firsts \o s) \o ((h \o q) \o c)
        BY <2>2 DEF Going, Line, LineOf
      <3>2. /\ s \in Seq(Numbers) /\ h \in Seq(Numbers) /\ q \in Seq(Numbers)
            /\ c \in Seq(Numbers)
        <4> HIDE DEF Firsts, Nos, Sounding, InHand, Spoken, InCall
        <4> QED BY <1>1, LineParts
      <3> HIDE DEF s, h, q, c, firsts, said, Numbers
      <3> DEFINE t == (h \o q) \o c
      <3>3. t \in Seq(Numbers)
        <4>1. h \o q \in Seq(Numbers)
          BY <3>2, ConcatType
        <4> QED BY <3>2, <4>1, ConcatType
      <3> HIDE DEF t
      <3>4. (firsts \o s) \o t = firsts \o (s \o t)
        BY <1>5, <3>2, <3>3, Regroup
      <3>5. s \o t \in Seq(Numbers)
        BY <3>2, <3>3, ConcatType
      <3> QED BY <3>1, <3>4, <3>5 DEF t
    <2> QED BY <1>1, <2>1, <2>2
  <1>7. IsPrefix(firsts, said)
    <2>1. PICK rest \in Seq(Numbers) : said = firsts \o rest
      BY <1>6
    <2> HIDE DEF said, firsts, Numbers
    <2> QED BY <1>5, <2>1 DEF IsPrefix
  <1>8. story[n].ended \subseteq {story[n].round}
    BY <1>1 DEF Over, Heard
  <1>9. Heard(n) => Len(mine) = Len(said)
    BY <1>1, <1>5 DEF Over
  <1> QED BY <1>3, <1>4, <1>7, <1>8, <1>9

\* The sound of a turn that nobody disturbs is written once and in order, to the round
\* that the turn began in, and is complete when that round is marked as ended, for any
\* number of turns and chunks and any capacity of the queue (tts_thread_func,
\* t2w_thread_func_cpp).
THEOREM CalmTurnsCorrect == Spec => []CalmTurnsAreFiled
  <1>1. TypeInv /\ StoryInv /\ [Next]_vars => (TypeInv /\ StoryInv)'
    BY NextKeepsTypes, NextKeepsStory
  <1> QED BY <1>1, InitTypes, InitStory, FiledFollow, PTL DEF Spec

-----------------------------------------------------------------------------
(* The threads at rest. *)

PlacesOf(t) ==
    CASE t = "client" -> {"out", "silence", "push", "await", "generate", "room"}
      [] t = "llm"    -> {"input", "prefill", "answer", "answered"}
      [] t = "tts"    -> {"text", "clear", "cleared", "again", "speak", "flush", "done", "file"}
      [] t = "t2w"    -> {"tokens", "drop"}

\* Who does not run waits, and nobody is caught on the way where notifications are
\* given under the mutex.
Basic ==
    /\ \A t \in Threads : /\ at[t] \in PlacesOf(t)
                          /\ cond[t] # "awake" => at[t] \in Waits
                          /\ cond[t] = "blocking" => at[t] \notin Guarded
    /\ at["client"] = "room" => ~breakEvent

\* Whoever sleeps has nothing to do, and who waits for the LLM thread will be answered.
LlmRests  == cond["llm"] # "awake" => frames = <<>> /\ ~needSpeek
Awaited   ==
    at["client"] = "await" =>
       /\ cond["client"] # "awake" /\ prefillDone => at["llm"] = "answered"
       /\ needSpeek \/ (prefillDone /\ frames = <<>>)
RoomRests == at["client"] = "room" /\ cond["client"] = "asleep" => Len(ttsQueue) >= TtsCap
TtsRests  == cond["tts"] = "asleep" => ttsQueue = <<>>
T2wRests  == cond["t2w"] = "asleep" => t2wQueue = <<>>

RestInv ==
    /\ Basic
    /\ lost = {} => LlmRests /\ Awaited /\ RoomRests /\ TtsRests /\ T2wRests

\* A notification wakes those who sleep, and only those.
LEMMA NotifiedIs ==
    ASSUME TypeInv, NEW cvs, NotifyAll(cvs)
    PROVE  \A t \in Threads :
              cond'[t] = IF cond[t] = "asleep" /\ Cv[at[t]] \in cvs THEN "awake" ELSE cond[t]
  BY DEF TypeInv, Placed, NotifyAll, In

Stirring == \A t \in Threads : cond'[t] = cond[t] \/ cond'[t] = "awake"

LEMMA NotifyStirs ==
    ASSUME TypeInv, Quietly \/ \E cvs : NotifyAll(cvs) PROVE Stirring
  <1>1. CASE Quietly
    BY <1>1 DEF Quietly, Stirring
  <1>2. CASE \E cvs : NotifyAll(cvs)
    BY <1>2, NotifiedIs DEF Stirring
  <1> QED BY <1>1, <1>2

ClientSteps ==
    \/ PrefillCall \/ FirstPrefillCall \/ ColdPrefillCall \/ DecodeCall \/ Break
    \/ SpeechOver \/ SpeechTimeout \/ Push \/ Begin \/ Generate \/ GiveUp
    \/ RunOut \/ Speak
LlmSteps == TakeBatch \/ Prefill \/ Answer \/ Answered \/ AnswerAtOnce
TtsSteps ==
    \/ TtsInterrupted \/ TtsClear \/ TtsCleared \/ TakeText \/ TtsSpeak \/ TtsFlush
    \/ TtsDone \/ TtsFile
T2wSteps == T2wInterrupted \/ T2wDrop \/ Write

\* Each step is one of a thread, or a wait.
LEMMA WhoSteps ==
    [Next]_vars <=> \/ ClientSteps \/ LlmSteps \/ TtsSteps \/ T2wSteps
                    \/ (\E t \in Threads : Wait(t)) \/ UNCHANGED vars
  BY DEF Next, Client, Call, Llm, Tts, T2w, ClientSteps, LlmSteps, TtsSteps, T2wSteps, Threads

\* The thread that takes a step is awake, and the others stay where they are.
Moves(t) ==
    /\ Stirring /\ cond'[t] = "awake" /\ at'[t] \in PlacesOf(t)
    /\ \A u \in Threads \ {t} : at'[u] = at[u]

LEMMA AwakeMoves ==
    ASSUME TypeInv, Basic, NEW t \in Threads, Stirring,
           cond[t] = "awake" \/ at[t] \notin Waits \/ cond'[t] = "awake",
           UNCHANGED at \/ \E place \in PlacesOf(t) \cap Places : Goto(t, place)
    PROVE  Moves(t)
  <1>1. cond'[t] = "awake"
    BY DEF Basic, Stirring
  <1>2. at'[t] \in PlacesOf(t) /\ \A u \in Threads \ {t} : at'[u] = at[u]
    <2>1. CASE UNCHANGED at
      BY <2>1 DEF Basic
    <2>2. CASE \E place \in PlacesOf(t) \cap Places : Goto(t, place)
      BY <2>2, GoneTo DEF TypeInv
    <2> QED BY <2>1, <2>2
  <1> QED BY <1>1, <1>2 DEF Moves

\* The steps of each thread, as to where it goes and whom it wakes.
LEMMA ClientMoves == ASSUME TypeInv, Basic, ClientSteps PROVE Moves("client")
  <1>1. Stirring
    <2>1. \/ Quietly \/ (\E cvs : NotifyAll(cvs))
          \/ SpeechTimeout
      BY DEF ClientSteps, PrefillCall, FirstPrefillCall, ColdPrefillCall, DecodeCall, Break,
             SpeechOver, Push, PushFrame, Begin, Generate, GiveUp, RunOut, Speak, Notify
    <2>2. CASE SpeechTimeout
      BY <2>2 DEF SpeechTimeout, Stirring, TypeInv, Placed
    <2> QED BY <2>1, <2>2, NotifyStirs
  <1>2. cond["client"] = "awake" \/ at["client"] \notin Waits \/ cond'["client"] = "awake"
    <2>1. CASE SpeechTimeout
      BY <2>1, ThreadPlaces DEF SpeechTimeout, TypeInv, Placed
    <2>2. CASE ~SpeechTimeout
      BY <2>2 DEF ClientSteps, PrefillCall, FirstPrefillCall, ColdPrefillCall, DecodeCall,
             Break, SpeechOver, Push, Begin, Generate, GiveUp, RunOut, Speak, MayPrefill, Enters, Waits
    <2> QED BY <2>1, <2>2
  <1>3. UNCHANGED at \/ \E place \in {"out", "silence", "push", "await", "generate", "room"} :
                           Goto("client", place)
    BY DEF ClientSteps, PrefillCall, FirstPrefillCall, ColdPrefillCall, DecodeCall, Break,
           SpeechOver, SpeechTimeout, StartRound, Push, PushFrame, Begin, Generate, GiveUp, RunOut, Speak,
           Return
  <1>4. {"out", "silence", "push", "await", "generate", "room"}
           \subseteq PlacesOf("client") \cap Places
    BY ThreadPlaces DEF PlacesOf
  <1> QED BY <1>1, <1>2, <1>3, <1>4, ThreadPlaces, AwakeMoves

LEMMA LlmMoves == ASSUME TypeInv, Basic, LlmSteps PROVE Moves("llm")
  <1>1. Stirring
    <2>1. Quietly \/ \E cvs : NotifyAll(cvs)
      BY DEF LlmSteps, TakeBatch, Prefill, Answer, Answered, AnswerAtOnce, Notify
    <2> QED BY <2>1, NotifyStirs
  <1>2. cond["llm"] = "awake" \/ at["llm"] \notin Waits
    BY DEF LlmSteps, TakeBatch, Prefill, Answer, Answered, AnswerAtOnce, Enters, Waits
  <1>3. UNCHANGED at \/ \E place \in {"input", "prefill", "answer", "answered"} :
                           Goto("llm", place)
    BY DEF LlmSteps, TakeBatch, Prefill, Answer, Answered, AnswerAtOnce
  <1>4. {"input", "prefill", "answer", "answered"} \subseteq PlacesOf("llm") \cap Places
    BY ThreadPlaces DEF PlacesOf
  <1> QED BY <1>1, <1>2, <1>3, <1>4, ThreadPlaces, AwakeMoves

LEMMA TtsMoves == ASSUME TypeInv, Basic, TtsSteps PROVE Moves("tts")
  <1>1. Stirring
    <2>1. Quietly \/ (\E cvs : NotifyAll(cvs)) \/ UNCHANGED cond
      BY DEF TtsSteps, TtsInterrupted, TtsClear, TtsCleared, TakeText, TtsSpeak, TtsFlush, TtsDone,
             TtsFile, Emit, Notify
    <2> QED BY <2>1, NotifyStirs DEF Stirring
  <1>2. cond["tts"] = "awake" \/ at["tts"] \notin Waits
    BY DEF TtsSteps, TtsInterrupted, TtsClear, TtsCleared, TakeText, TtsSpeak, TtsFlush, TtsDone,
           TtsFile, Enters, Waits
  <1>3. \E place \in {"text", "clear", "cleared", "again", "speak", "flush", "done", "file"} :
                           Goto("tts", place)
    BY DEF TtsSteps, TtsInterrupted, TtsClear, TtsCleared, TakeText, TakenText, TtsSpeak, TtsFlush,
           TtsDone, TtsFile
  <1>4. {"text", "clear", "cleared", "again", "speak", "flush", "done", "file"}
           \subseteq PlacesOf("tts") \cap Places
    BY ThreadPlaces DEF PlacesOf
  <1> QED BY <1>1, <1>2, <1>3, <1>4, ThreadPlaces, AwakeMoves

LEMMA T2wMoves == ASSUME TypeInv, Basic, T2wSteps PROVE Moves("t2w")
  <1>1. Stirring
    <2>1. Quietly
      BY DEF T2wSteps, T2wInterrupted, T2wDrop, Write
    <2> QED BY <2>1, NotifyStirs
  <1>2. cond["t2w"] = "awake" \/ at["t2w"] \notin Waits
    BY DEF T2wSteps, T2wInterrupted, T2wDrop, Write, Enters, Waits
  <1>3. UNCHANGED at \/ \E place \in {"tokens", "drop"} : Goto("t2w", place)
    BY DEF T2wSteps, T2wInterrupted, T2wDrop, Write
  <1>4. {"tokens", "drop"} \subseteq PlacesOf("t2w") \cap Places
    BY ThreadPlaces DEF PlacesOf
  <1> QED BY <1>1, <1>2, <1>3, <1>4, ThreadPlaces, AwakeMoves

\* Of those who wait, somebody may only have been woken, or be about to sleep.
LEMMA WaitDoes ==
    ASSUME TypeInv, NEW t \in Threads, Wait(t)
    PROVE  /\ UNCHANGED <<llmVars, flagVars, voiceVars, callVars, history, lost, at>>
           /\ \A u \in Threads \ {t} : cond'[u] = cond[u]
           /\ \/ at[t] \in Waits \ Guarded /\ ~Wanted(t) /\ cond'[t] = "blocking"
              \/ cond[t] = "blocking" /\ cond'[t] = "asleep"
              \/ at[t] \in Guarded /\ ~Wanted(t) /\ cond'[t] = "asleep"
  <1>1. UNCHANGED <<llmVars, flagVars, voiceVars, callVars, history, lost, at>>
    BY DEF Wait, Blocks, Sleeps
  <1>2. /\ cond \in [Threads -> Conditions]
        /\ \/ at[t] \in Waits \ Guarded /\ ~Wanted(t) /\ cond' = [cond EXCEPT ![t] = "blocking"]
           \/ cond[t] = "blocking" /\ cond' = [cond EXCEPT ![t] = "asleep"]
           \/ at[t] \in Guarded /\ ~Wanted(t) /\ cond' = [cond EXCEPT ![t] = "asleep"]
    BY DEF Wait, Blocks, Sleeps, Enters, TypeInv, Placed
  <1> QED BY <1>1, <1>2

\* Where the threads wait, step by step.
LEMMA BasicStep == ASSUME TypeInv, Basic, [Next]_vars PROVE Basic'
  <1>1. ASSUME NEW t \in Threads, Moves(t),
               at'["client"] = "room" => at["client"] = "room" \/ t = "client",
               at'["client"] = "room" => ~breakEvent'
        PROVE  Basic'
    <2>1. \A u \in Threads : /\ at'[u] \in PlacesOf(u)
                             /\ cond'[u] # "awake" => at'[u] \in Waits
                             /\ cond'[u] = "blocking" => at'[u] \notin Guarded
      BY <1>1 DEF Moves, Stirring, Basic
    <2> QED BY <1>1, <2>1 DEF Basic
  <1>2. CASE ClientSteps
    <2>1. Moves("client")
      BY <1>2, ClientMoves
    <2>2. at'["client"] = "room" => ~breakEvent'
      <3>1. CASE Generate
        BY <3>1 DEF Generate, flagVars
      <3>2. CASE Break
        BY <3>2 DEF Break
      <3>3. CASE ClientSteps /\ ~Generate /\ ~Break
        <4>1. \E place \in {"out", "silence", "push", "await", "generate"} : Goto("client", place)
          BY <3>3 DEF ClientSteps, PrefillCall, FirstPrefillCall, ColdPrefillCall, DecodeCall,
             SpeechOver, SpeechTimeout, StartRound, Push, PushFrame, Begin, GiveUp, RunOut, Speak, Return
        <4>2. at'["client"] # "room"
          BY <4>1, ClientGone, ThreadPlaces
        <4> QED BY <4>2
      <3> QED BY <1>2, <3>1, <3>2, <3>3
    <2> QED BY <1>1, <2>1, <2>2, ThreadPlaces
  <1>3. CASE LlmSteps \/ TtsSteps \/ T2wSteps
    <2>1. \E t \in {"llm", "tts", "t2w"} : Moves(t)
      BY <1>3, LlmMoves, TtsMoves, T2wMoves
    <2>2. at'["client"] = at["client"]
      BY <2>1, ThreadPlaces DEF Moves
    <2>3. breakEvent' = breakEvent \/ ~breakEvent'
      BY <1>3 DEF LlmSteps, TtsSteps, T2wSteps, TakeBatch, Prefill, Answer, Answered, AnswerAtOnce,
         TtsInterrupted, TtsClear, TtsCleared, TakeText, TtsSpeak, TtsFlush, TtsDone, TtsFile,
         T2wInterrupted, T2wDrop, Write, flagVars
    <2>4. at'["client"] = "room" => ~breakEvent'
      BY <2>2, <2>3 DEF Basic
    <2> QED BY <1>1, <2>1, <2>2, <2>4, ThreadPlaces
  <1>4. CASE \E t \in Threads : Wait(t)
    <2>1. PICK t \in Threads : Wait(t)
      BY <1>4
    <2>2. /\ UNCHANGED <<at, breakEvent>> /\ \A u \in Threads \ {t} : cond'[u] = cond[u]
          /\ \/ at[t] \in Waits \ Guarded /\ cond'[t] = "blocking"
             \/ cond[t] = "blocking" /\ cond'[t] = "asleep"
             \/ at[t] \in Guarded /\ cond'[t] = "asleep"
      BY <2>1, WaitDoes DEF flagVars
    <2>3. Guarded \subseteq Waits
      BY DEF Guarded, Waits
    <2> QED BY <2>2, <2>3 DEF Basic
  <1>5. CASE UNCHANGED vars
    BY <1>5 DEF vars, flagVars, Basic
  <1> QED BY <1>2, <1>3, <1>4, <1>5, WhoSteps

\* Where one sleeps.
LEMMA SleepsAt ==
    ASSUME Basic
    PROVE  /\ cond["llm"] # "awake" => at["llm"] = "input"
           /\ cond["tts"] # "awake" => at["tts"] = "text"
           /\ cond["t2w"] # "awake" => at["t2w"] = "tokens"
           /\ cond["client"] # "awake" => at["client"] \in {"silence", "await", "room"}
  BY ThreadPlaces DEF Basic, PlacesOf, Waits

\* What a notification does not lose, it reaches.
LEMMA Reached ==
    ASSUME TypeInv, NEW cvs, Notify(cvs), lost' = {}, NEW t \in Threads,
           Wanted(t)', at[t] # "silence", Cv[at[t]] \in cvs
    PROVE  cond'[t] = "awake"
  <1>1. NotifyAll(cvs) /\ t \notin Deaf(cvs)
    BY DEF Notify
  <1>2. cond[t] # "blocking"
    BY <1>1 DEF Deaf, In, TypeInv, Placed
  <1>3. cond[t] \in Conditions
    BY DEF TypeInv, Placed
  <1> QED BY <1>1, <1>2, <1>3, NotifiedIs DEF Conditions

\* A wake-up that has been lost stays lost.
LEMMA LostGrows == ASSUME [Next]_vars, lost' = {} PROVE lost = {}
  BY DEF Next, Client, Call, Llm, Tts, T2w, PrefillCall, FirstPrefillCall, ColdPrefillCall,
         DecodeCall, Break, SpeechOver, SpeechTimeout, Push, PushFrame, Begin, Generate, GiveUp, RunOut,
         Speak, Wait, TakeBatch, Prefill, Answer, Answered, AnswerAtOnce, TtsInterrupted,
         TtsClear, TtsCleared, TakeText, TtsSpeak, TtsFlush, TtsDone, TtsFile, Emit,
         T2wInterrupted, T2wDrop, Write, Notify, Quietly, vars

\* The LLM thread sleeps only when there are no frames and no request.
LEMMA LlmRestsOn ==
    ASSUME TypeInv, Basic, LlmRests, [Next]_vars, lost' = {} PROVE LlmRests'
  <1> SUFFICES ASSUME cond'["llm"] # "awake" PROVE frames' = <<>> /\ ~needSpeek'
    BY DEF LlmRests
  <1>1. CASE ClientSteps
    <2>1. Moves("client")
      BY <1>1, ClientMoves
    <2>2. cond["llm"] = cond'["llm"] /\ at'["llm"] = at["llm"]
      BY <2>1, ThreadPlaces DEF Moves, Stirring
    <2>3. frames = <<>> /\ ~needSpeek /\ at["llm"] = "input"
      BY <2>2, SleepsAt DEF LlmRests
    <2>4. Cv["input"] = "llm_cv" /\ Mutex["input"] = "llm_mtx"
      BY DEF Cv, Mutex, Waits
    <2>5. ~PushFrame
      <3> SUFFICES ASSUME PushFrame PROVE FALSE
        OBVIOUS
      <3>1. NotifyAll({"llm_cv"}) /\ Free("llm_mtx")
        BY DEF PushFrame, Notify
      <3>2. cond["llm"] # "blocking"
        BY <3>1, <2>3, <2>4, ThreadPlaces DEF Free, TypeInv, Placed
      <3>3. cond["llm"] = "asleep"
        BY <2>2, <3>2, ThreadPlaces DEF TypeInv, Placed, Conditions
      <3> QED BY <3>1, <3>3, <2>2, <2>3, <2>4, NotifiedIs, ThreadPlaces
    <2>6. ~DecodeCall
      <3> SUFFICES ASSUME DecodeCall PROVE FALSE
        OBVIOUS
      <3>1. Notify({"llm_cv"}) /\ needSpeek'
        BY DEF DecodeCall
      <3>2. Wanted("llm")'
        BY <3>1, <2>2, <2>3 DEF Wanted
      <3> QED BY <3>1, <3>2, <2>2, <2>3, <2>4, Reached, ThreadPlaces
    <2>7. UNCHANGED <<frames, needSpeek>>
      BY <1>1, <2>5, <2>6 DEF ClientSteps, PrefillCall, FirstPrefillCall, ColdPrefillCall, Break,
         SpeechOver, SpeechTimeout, StartRound, Push, Begin, Generate, GiveUp, RunOut, Speak, llmVars
    <2> QED BY <2>3, <2>7
  <1>2. CASE LlmSteps
    BY <1>2, LlmMoves DEF Moves
  <1>3. CASE TtsSteps \/ T2wSteps
    <2>1. cond["llm"] = cond'["llm"]
      BY <1>3, TtsMoves, T2wMoves, ThreadPlaces DEF Moves, Stirring
    <2>2. UNCHANGED llmVars
      BY <1>3 DEF TtsSteps, TtsInterrupted, TtsClear, TtsCleared, TakeText, TtsSpeak, TtsFlush,
         TtsDone, TtsFile, T2wSteps, T2wInterrupted, T2wDrop, Write
    <2> QED BY <2>1, <2>2 DEF LlmRests, llmVars
  <1>4. CASE \E t \in Threads : Wait(t)
    <2>1. PICK t \in Threads : Wait(t)
      BY <1>4
    <2>2. /\ UNCHANGED <<frames, needSpeek>>
          /\ t # "llm" => cond'["llm"] = cond["llm"]
          /\ ~Wanted(t) \/ cond[t] = "blocking"
      BY <2>1, WaitDoes, ThreadPlaces DEF llmVars
    <2>3. CASE t # "llm" \/ cond["llm"] = "blocking"
      BY <2>2, <2>3 DEF LlmRests
    <2>4. CASE t = "llm" /\ ~Wanted("llm")
      <3>1. at'["llm"] = at["llm"] /\ Basic'
        BY <2>1, WaitDoes, BasicStep
      <3>2. at["llm"] = "input"
        <4>1. at'["llm"] \in PlacesOf("llm") \cap Waits
          BY <3>1, ThreadPlaces DEF Basic
        <4> QED BY <4>1, <3>1 DEF PlacesOf, Waits
      <3> QED BY <2>2, <2>4, <3>2 DEF Wanted
    <2> QED BY <2>2, <2>3, <2>4
  <1>5. CASE UNCHANGED vars
    BY <1>5 DEF vars, llmVars, LlmRests
  <1> QED BY <1>1, <1>2, <1>3, <1>4, <1>5, WhoSteps

\* A decode waits only as long as its request stands, or has been answered.
LEMMA AwaitedOn ==
    ASSUME TypeInv, Basic, Awaited, [Next]_vars, lost' = {} PROVE Awaited'
  <1> SUFFICES ASSUME at'["client"] = "await"
               PROVE  /\ cond'["client"] # "awake" /\ prefillDone' => at'["llm"] = "answered"
                      /\ needSpeek' \/ (prefillDone' /\ frames' = <<>>)
    BY DEF Awaited
  <1>1. CASE ClientSteps
    <2>1. cond'["client"] = "awake"
      BY <1>1, ClientMoves DEF Moves
    <2>2. CASE DecodeCall
      BY <2>1, <2>2 DEF DecodeCall
    <2>3. CASE ~DecodeCall
      <3>1. \/ Break
            \/ \E place \in {"out", "silence", "push", "generate", "room"} :
                           Goto("client", place)
        BY <1>1, <2>3 DEF ClientSteps, PrefillCall, FirstPrefillCall, ColdPrefillCall,
           SpeechOver, SpeechTimeout, StartRound, Push, PushFrame, Begin, Generate, GiveUp, RunOut,
           Speak, Return
      <3>2. CASE Break
        BY <3>2 DEF Break
      <3>3. CASE \E place \in {"out", "silence", "push", "generate", "room"} :
                           Goto("client", place)
        BY <3>3, GoneTo, ThreadPlaces DEF TypeInv
      <3> QED BY <3>1, <3>2, <3>3
    <2> QED BY <2>2, <2>3
  <1>2. CASE LlmSteps
    <2>1. Moves("llm")
      BY <1>2, LlmMoves
    <2>2. at["client"] = "await" /\ (cond'["client"] = "awake" \/ cond["client"] = cond'["client"])
      BY <2>1, ThreadPlaces DEF Moves, Stirring
    <2>3. Cv["await"] = "g_decode_cv"
      BY DEF Cv, Waits
    <2>4. CASE TakeBatch
      BY <2>2, <2>4 DEF TakeBatch, Awaited
    <2>5. CASE Prefill
      <3>1. at["llm"] = "prefill" /\ UNCHANGED <<prefillDone, needSpeek, frames>>
        BY <2>5 DEF Prefill
      <3> QED BY <2>2, <3>1 DEF Awaited
    <2>6. CASE Answer
      <3>1. prefillDone' /\ UNCHANGED <<needSpeek, frames>> /\ Goto("llm", "answered")
        BY <2>6 DEF Answer
      <3>2. at'["llm"] = "answered"
        BY <3>1, GoneTo, ThreadPlaces DEF TypeInv
      <3> QED BY <2>2, <3>1, <3>2 DEF Awaited
    <2>7. CASE Answered
      <3>1. prefillDone /\ frames = <<>> /\ UNCHANGED <<prefillDone, frames>>
        BY <2>2, <2>7 DEF Answered
      <3>2. NotifyAll({"g_decode_cv"}) /\ ~(\E t \in Deaf({"g_decode_cv"}) : Wanted(t))
        BY <2>7 DEF Answered
      <3>3. Wanted("client")
        BY <3>1, <2>2 DEF Wanted
      <3>4. cond["client"] # "blocking"
        BY <3>2, <3>3, <2>2, <2>3, ThreadPlaces DEF Deaf, In, TypeInv, Placed
      <3>5. cond["client"] \in Conditions
        BY ThreadPlaces DEF TypeInv, Placed
      <3>6. cond'["client"] = "awake"
        BY <3>2, <3>4, <3>5, <2>2, <2>3, NotifiedIs, ThreadPlaces DEF Conditions
      <3> QED BY <3>1, <3>6
    <2>8. CASE AnswerAtOnce
      <3>1. prefillDone' /\ frames' = <<>> /\ Notify({"g_decode_cv"})
        BY <2>8 DEF AnswerAtOnce
      <3>2. Wanted("client")'
        BY <3>1 DEF Wanted
      <3>3. cond'["client"] = "awake"
        BY <3>1, <3>2, <2>2, <2>3, Reached, ThreadPlaces
      <3> QED BY <3>1, <3>3
    <2> QED BY <1>2, <2>4, <2>5, <2>6, <2>7, <2>8 DEF LlmSteps
  <1>3. CASE TtsSteps \/ T2wSteps
    <2>1. /\ at["client"] = at'["client"] /\ at["llm"] = at'["llm"]
          /\ cond'["client"] # "awake" => cond["client"] = cond'["client"]
      BY <1>3, TtsMoves, T2wMoves, ThreadPlaces DEF Moves, Stirring
    <2>2. UNCHANGED llmVars
      BY <1>3 DEF TtsSteps, TtsInterrupted, TtsClear, TtsCleared, TakeText, TtsSpeak, TtsFlush,
         TtsDone, TtsFile, T2wSteps, T2wInterrupted, T2wDrop, Write
    <2> QED BY <2>1, <2>2 DEF Awaited, llmVars
  <1>4. CASE \E t \in Threads : Wait(t)
    <2>1. PICK t \in Threads : Wait(t)
      BY <1>4
    <2>2. /\ UNCHANGED <<frames, needSpeek, prefillDone, at>>
          /\ t # "client" => cond'["client"] = cond["client"]
          /\ ~Wanted(t) \/ cond[t] = "blocking"
      BY <2>1, WaitDoes, ThreadPlaces DEF llmVars
    <2>3. CASE t # "client" \/ cond["client"] = "blocking"
      BY <2>2, <2>3 DEF Awaited
    <2>4. CASE t = "client" /\ ~Wanted("client")
      BY <2>2, <2>4 DEF Wanted, Awaited
    <2> QED BY <2>2, <2>3, <2>4
  <1>5. CASE UNCHANGED vars
    BY <1>5 DEF vars, llmVars, Awaited
  <1> QED BY <1>1, <1>2, <1>3, <1>4, <1>5, WhoSteps

\* The decode sleeps before the queue of text only when it is full.
LEMMA RoomRestsOn ==
    ASSUME TypeInv, Basic, RoomRests, [Next]_vars, lost' = {} PROVE RoomRests'
  <1> SUFFICES ASSUME at'["client"] = "room", cond'["client"] = "asleep"
               PROVE  Len(ttsQueue') >= TtsCap
    BY DEF RoomRests
  <1>1. CASE ClientSteps
    BY <1>1, ClientMoves DEF Moves
  <1>2. CASE LlmSteps \/ T2wSteps \/ TtsSteps
    <2>1. \E t \in {"llm", "tts", "t2w"} : Moves(t)
      BY <1>2, LlmMoves, TtsMoves, T2wMoves
    <2>2. at["client"] = "room" /\ cond["client"] = "asleep"
      BY <2>1, ThreadPlaces DEF Moves, Stirring
    <2>3. ~TtsClear
      BY <2>2 DEF TtsClear
    <2>4. ~TakeText
      <3>1. Cv["room"] = "tts_cv"
        BY DEF Cv, Waits
      <3> QED BY <2>2, <3>1, NotifiedIs, ThreadPlaces DEF TakeText, Notify
    <2>5. UNCHANGED ttsQueue
      BY <1>2, <2>3, <2>4 DEF LlmSteps, TakeBatch, Prefill, Answer, Answered, AnswerAtOnce, TtsSteps,
         TtsInterrupted, TtsCleared, TtsSpeak, TtsFlush, TtsDone, TtsFile, T2wSteps, T2wInterrupted,
         T2wDrop, Write, voiceVars
    <2> QED BY <2>2, <2>5 DEF RoomRests
  <1>3. CASE \E t \in Threads : Wait(t)
    <2>1. PICK t \in Threads : Wait(t)
      BY <1>3
    <2>2. /\ UNCHANGED <<ttsQueue, at>>
          /\ t # "client" => cond'["client"] = cond["client"]
          /\ ~Wanted(t) \/ cond[t] = "blocking"
      BY <2>1, WaitDoes, ThreadPlaces DEF voiceVars
    <2>3. cond["client"] # "blocking"
      BY <2>2, ThreadPlaces DEF Basic, Guarded
    <2>4. CASE t # "client"
      BY <2>2, <2>4 DEF RoomRests
    <2>5. CASE t = "client"
      <3>1. ~(Len(ttsQueue) < TtsCap)
        BY <2>2, <2>3, <2>5 DEF Wanted
      <3>2. Len(ttsQueue) \in Nat /\ TtsCap \in Nat
        BY BoundsAssumption, LenProperties DEF TypeInv, TextTypes
      <3> QED BY <2>2, <3>1, <3>2
    <2> QED BY <2>4, <2>5
  <1>4. CASE UNCHANGED vars
    BY <1>4 DEF vars, voiceVars, RoomRests
  <1> QED BY <1>1, <1>2, <1>3, <1>4, WhoSteps

\* The TTS thread sleeps only when there is no text.
LEMMA TtsRestsOn ==
    ASSUME TypeInv, Basic, TtsRests, [Next]_vars PROVE TtsRests'
  <1> SUFFICES ASSUME cond'["tts"] = "asleep" PROVE ttsQueue' = <<>>
    BY DEF TtsRests
  <1>1. CASE TtsSteps
    BY <1>1, TtsMoves DEF Moves
  <1>2. CASE ClientSteps \/ LlmSteps \/ T2wSteps
    <2>1. \E t \in {"client", "llm", "t2w"} : Moves(t)
      BY <1>2, ClientMoves, LlmMoves, T2wMoves
    <2>2. cond["tts"] = "asleep" /\ at["tts"] = "text"
      BY <2>1, SleepsAt, ThreadPlaces DEF Moves, Stirring
    <2>3. ~NotifyAll({"tts_cv"})
      <3>1. Cv["text"] = "tts_cv"
        BY DEF Cv, Waits
      <3> QED BY <2>2, <3>1, NotifiedIs, ThreadPlaces
    <2>4. ttsQueue' \in {ttsQueue, <<>>}
      BY <1>2, <2>3 DEF ClientSteps, PrefillCall, FirstPrefillCall, ColdPrefillCall, DecodeCall, Break,
         SpeechOver, SpeechTimeout, StartRound, Push, PushFrame, Begin, Generate, GiveUp, RunOut,
         Speak, Notify,
         LlmSteps, TakeBatch, Prefill, Answer, Answered, AnswerAtOnce, T2wSteps,
         T2wInterrupted, T2wDrop, Write, voiceVars
    <2> QED BY <2>2, <2>4 DEF TtsRests
  <1>3. CASE \E t \in Threads : Wait(t)
    <2>1. PICK t \in Threads : Wait(t)
      BY <1>3
    <2>2. /\ UNCHANGED <<ttsQueue, at>>
          /\ t # "tts" => cond'["tts"] = cond["tts"]
          /\ ~Wanted(t) \/ cond[t] = "blocking"
      BY <2>1, WaitDoes, ThreadPlaces DEF voiceVars
    <2>3. Basic'
      BY BasicStep
    <2>4. at["tts"] = "text" /\ cond["tts"] # "blocking"
      <3>1. at'["tts"] \in PlacesOf("tts") \cap Waits
        BY <2>3, ThreadPlaces DEF Basic
      <3>2. at["tts"] = "text"
        BY <2>2, <3>1 DEF PlacesOf, Waits
      <3> QED BY <3>2, ThreadPlaces DEF Basic, Guarded
    <2>5. CASE t # "tts"
      BY <2>2, <2>5 DEF TtsRests
    <2>6. CASE t = "tts"
      BY <2>2, <2>4, <2>6 DEF Wanted
    <2> QED BY <2>5, <2>6
  <1>4. CASE UNCHANGED vars
    BY <1>4 DEF vars, voiceVars, TtsRests
  <1> QED BY <1>1, <1>2, <1>3, <1>4, WhoSteps

\* The T2W thread sleeps only when there are no tokens.
LEMMA T2wRestsOn ==
    ASSUME TypeInv, Basic, T2wRests, [Next]_vars PROVE T2wRests'
  <1> SUFFICES ASSUME cond'["t2w"] = "asleep" PROVE t2wQueue' = <<>>
    BY DEF T2wRests
  <1>1. CASE T2wSteps
    BY <1>1, T2wMoves DEF Moves
  <1>2. CASE ClientSteps \/ LlmSteps \/ TtsSteps
    <2>1. \E t \in {"client", "llm", "tts"} : Moves(t)
      BY <1>2, ClientMoves, LlmMoves, TtsMoves
    <2>2. cond["t2w"] = "asleep" /\ at["t2w"] = "tokens"
      BY <2>1, SleepsAt, ThreadPlaces DEF Moves, Stirring
    <2>3. ~NotifyAll({"t2w_cv"})
      <3>1. Cv["tokens"] = "t2w_cv"
        BY DEF Cv, Waits
      <3> QED BY <2>2, <3>1, NotifiedIs, ThreadPlaces
    <2>4. UNCHANGED t2wQueue
      BY <1>2, <2>3 DEF ClientSteps, PrefillCall, FirstPrefillCall, ColdPrefillCall, DecodeCall, Break,
         SpeechOver, SpeechTimeout, StartRound, Push, PushFrame, Begin, Generate, GiveUp, RunOut,
         Speak, Notify,
         LlmSteps, TakeBatch, Prefill, Answer, Answered, AnswerAtOnce, TtsSteps,
         TtsInterrupted, TtsClear, TtsCleared, TakeText, TtsSpeak, TtsFlush, TtsDone, TtsFile, Emit,
         voiceVars
    <2> QED BY <2>2, <2>4 DEF T2wRests
  <1>3. CASE \E t \in Threads : Wait(t)
    <2>1. PICK t \in Threads : Wait(t)
      BY <1>3
    <2>2. /\ UNCHANGED <<t2wQueue, at>>
          /\ t # "t2w" => cond'["t2w"] = cond["t2w"]
          /\ ~Wanted(t) \/ cond[t] = "blocking"
      BY <2>1, WaitDoes, ThreadPlaces DEF voiceVars
    <2>3. Basic'
      BY BasicStep
    <2>4. at["t2w"] = "tokens" /\ cond["t2w"] # "blocking"
      <3>1. at'["t2w"] \in PlacesOf("t2w") \cap Waits
        BY <2>3, ThreadPlaces DEF Basic
      <3>2. at["t2w"] = "tokens"
        BY <2>2, <3>1 DEF PlacesOf, Waits
      <3> QED BY <3>2, ThreadPlaces DEF Basic, Guarded
    <2>5. CASE t # "t2w"
      BY <2>2, <2>5 DEF T2wRests
    <2>6. CASE t = "t2w"
      BY <2>2, <2>4, <2>6 DEF Wanted
    <2> QED BY <2>5, <2>6
  <1>4. CASE UNCHANGED vars
    BY <1>4 DEF vars, voiceVars, T2wRests
  <1> QED BY <1>1, <1>2, <1>3, <1>4, WhoSteps

\* Nobody sleeps at the start.
LEMMA InitRest == Init => RestInv
  BY DEF Init, RestInv, Basic, LlmRests, Awaited, RoomRests, TtsRests, T2wRests, Threads, PlacesOf

\* All steps keep what is said of those who rest.
LEMMA NextKeepsRest == TypeInv /\ RestInv /\ [Next]_vars => RestInv'
  BY BasicStep, LostGrows, LlmRestsOn, AwaitedOn, RoomRestsOn, TtsRestsOn, T2wRestsOn DEF RestInv

\* What a sequence of tokens says.
LEMMA NosIs ==
    ASSUME NEW s \in Seq(Tokens) PROVE Nos(s) = [i \in DOMAIN s |-> s[i].no]
  <1>1. \A i \in DOMAIN s : s[i] \in Tokens
    <2> HIDE DEF Tokens
    <2> QED OBVIOUS
  <1>2. \A i \in DOMAIN s : NoOf[s[i]] = s[i].no
    BY <1>1 DEF NoOf
  <1> HIDE DEF NoOf, Tokens
  <1> QED BY <1>2 DEF Nos, Mapped

\* Once all the threads rest there is nothing that a turn could still wait for, but for
\* the last chunk of an answer that has run out.
LEMMA RestFollows == TypeInv /\ StoryInv /\ RestInv => RestIsSilence
  <1> DEFINE Rest(n) ==
        /\ story[n].cut
        /\ \A i \in DOMAIN Withheld : Withheld[i].turn = n
        /\ [i \in DOMAIN story[n].filed |-> story[n].filed[i][1]]
              \o [i \in DOMAIN Withheld |-> Withheld[i].no] = story[n].said
  <1> SUFFICES ASSUME TypeInv, StoryInv, RestInv, AtRest, lost = {}
               PROVE  /\ at["client"] = "out"
                      /\ \A n \in Turns : story[n].calm /\ n < turn => Heard(n) \/ Rest(n)
    BY DEF RestIsSilence
  <1>1. Basic /\ LlmRests /\ Awaited /\ RoomRests /\ TtsRests /\ T2wRests
    BY DEF RestInv
  <1>2. /\ at["client"] = "out" \/ (cond["client"] = "asleep" /\ at["client"] # "silence")
        /\ cond["llm"] = "asleep" /\ cond["t2w"] = "asleep"
        /\ cond["tts"] = "asleep" \/ breakEvent
    BY ThreadPlaces DEF AtRest
  <1>3. at["llm"] = "input" /\ ~needSpeek /\ t2wQueue = <<>>
    BY <1>1, <1>2, SleepsAt DEF LlmRests, T2wRests
  <1>4. ~breakEvent => at["tts"] = "text" /\ ttsQueue = <<>>
    BY <1>1, <1>2, SleepsAt DEF TtsRests
  <1>5. at["client"] # "await"
    BY <1>1, <1>2, <1>3 DEF Awaited
  <1>6. at["client"] # "room"
    <2> SUFFICES ASSUME at["client"] = "room" PROVE FALSE
      OBVIOUS
    <2>1. ttsQueue = <<>> /\ Len(ttsQueue) >= TtsCap
      BY <1>1, <1>2, <1>4 DEF Basic, RoomRests
    <2> QED BY <2>1, BoundsAssumption
  <1>7. at["client"] = "out"
    BY <1>1, <1>2, <1>5, <1>6, SleepsAt
  <1>8. ASSUME NEW n \in Turns, story[n].calm, n < turn, ~Heard(n) PROVE Rest(n)
    <2>1. Going(n) /\ story \in [Turns -> Stories]
      BY <1>8 DEF StoryInv, Told
    <2>2. at["tts"] = "text" /\ ttsQueue = <<>>
      BY <2>1, <1>4 DEF Going
    <2>3. story[n].cut
      <3>1. ~Closing(n) /\ ~Closed(n) /\ (Open(n) => story[n].cut)
        BY <1>3, <1>7, <2>2 DEF Open, Closing, Closed
      <3> QED BY <2>1, <3>1 DEF Going, Stage
    <2> DEFINE w == t2w.buffer
               b == tts.buffer
               f == Firsts(story[n].filed)
    <2>4. /\ f \in Seq(Numbers) /\ w \in Seq(Tokens) /\ b \in Seq(Tokens)
      <3> HIDE DEF Firsts, Nos, Sounding, InCall, InHand, Spoken, Queued, Tokens
      <3> QED BY <2>1, LineParts
    <2>5. w \in Seq(TokensOf({n})) /\ b \in Seq(TokensOf({n}))
      BY <2>1 DEF Going, Carry
    <2>6. Withheld = w \o b /\ Withheld \in Seq(Tokens)
      <3> HIDE DEF Tokens
      <3> QED BY <2>4, ConcatType DEF Withheld
    <2>7. \A i \in DOMAIN Withheld : Withheld[i].turn = n
      <3> DEFINE V == TokensOf({n})
      <3>1. Withheld \in Seq(V)
        <4>1. w \in Seq(V) /\ b \in Seq(V)
          BY <2>5
        <4>2. w \o b \in Seq(V)
          <5> HIDE DEF V, w, b
          <5> QED BY <4>1, ConcatType
        <4> QED BY <2>6, <4>2
      <3>2. \A i \in DOMAIN Withheld : Withheld[i] \in V
        <4> HIDE DEF V
        <4> QED BY <3>1
      <3> QED BY <3>2 DEF TokensOf
    <2>8. Sounding = Withheld
      <3>1. Queued = <<>>
        BY <1>3, MapEmpty, FlattenEmpty DEF Queued
      <3>2. w \o <<>> = w
        <4> HIDE DEF w, Tokens
        <4> QED BY <2>4, Nothing
      <3> QED BY <2>6, <3>1, <3>2 DEF Sounding, SoundOf
    <2>9. story[n].said = f \o Nos(Withheld)
      <3>1. InHand = <<>> /\ InCall = <<>> /\ Spoken(ttsQueue) = <<>>
        BY <1>7, <2>2, SpokenNone DEF InHand, InCall
      <3> DEFINE v == Nos(Withheld)
      <3>2. story[n].said = LineOf(f, v, <<>>, <<>>, <<>>)
        <4> HIDE DEF InHand, InCall, Spoken, Firsts, Nos, Sounding, Withheld
        <4> QED BY <2>1, <2>8, <3>1 DEF Going, Line
      <3>3. v \in Seq(Numbers)
        <4> HIDE DEF Nos, Tokens, Numbers, Withheld
        <4> QED BY <2>6, NosAre
      <3> HIDE DEF f, v, Numbers
      <3>4. (f \o v) \o ((<<>> \o <<>>) \o <<>>) = f \o v
        <4>1. f \o v \in Seq(Numbers)
          BY <2>4, <3>3, ConcatType
        <4>2. <<>> \o <<>> = <<>>
          OBVIOUS
        <4> QED BY <4>1, <4>2, Nothing
      <3> QED BY <3>2, <3>4 DEF LineOf, v
    <2>10. f = [i \in DOMAIN story[n].filed |-> story[n].filed[i][1]]
      <3>1. story[n].filed \in Seq(Pairs)
        <4> HIDE DEF Pairs
        <4> QED BY <2>1 DEF Stories
      <3> HIDE DEF Pairs, Firsts
      <3> QED BY <3>1, FirstsIs
    <2>11. Nos(Withheld) = [i \in DOMAIN Withheld |-> Withheld[i].no]
      <3> HIDE DEF Tokens, Nos, Withheld
      <3> QED BY <2>6, NosIs
    <2> HIDE DEF Nos, f, Withheld
    <2> QED BY <2>3, <2>7, <2>9, <2>10, <2>11
  <1> QED BY <1>7, <1>8

\* The threads come to rest, unless a wake-up has been lost, only when the call has
\* returned and all the calm turns have been heard to their end; of a turn whose answer ran
\* out, all that has been said is written but for what the buffers of the threads keep.
\* For any number of turns, frames, chunks and breaks and any capacity of the queue
\* (stream_decode, llm_thread_func, tts_thread_func, t2w_thread_func_cpp).
THEOREM RestCorrect == Spec => []RestIsSilence
  <1>1. TypeInv /\ StoryInv /\ RestInv /\ [Next]_vars => (TypeInv /\ StoryInv /\ RestInv)'
    BY NextKeepsTypes, NextKeepsStory, NextKeepsRest
  <1> QED BY <1>1, InitTypes, InitStory, InitRest, RestFollows, PTL DEF Spec

-----------------------------------------------------------------------------
(* The handshake of the request and the decode. *)

\* The flag still has its initial value.
AtFirst ==
    /\ turn = 0 /\ at["client"] \notin {"generate", "room"}
    /\ pushed > 0 \/ at["client"] = "await" => frames # <<>>

\* The decode that waits may go, and its request has been, or will be, cleared.
Served ==
    /\ at["client"] = "await" /\ frames = <<>> /\ batch = <<>>
    /\ needSpeek => at["llm"] = "answered"

Handshake ==
    /\ at["llm"] # "prefill" => batch = <<>>
    /\ at["llm"] \in {"prefill", "answer"} => ~prefillDone
    /\ at["llm"] = "answer" => at["client"] = "await" /\ frames = <<>>
    /\ needSpeek => at["client"] = "await" \/ at["llm"] = "answered"
    /\ prefillDone => AtFirst \/ Served

CallTypes ==
    /\ frames \in Seq(Nat) /\ batch \in Seq(Nat)
    /\ turn \in Nat /\ pushed \in Nat /\ early \subseteq Nat
    /\ at \in [Threads -> Places]

HandshakeInv ==
    /\ CallTypes
    /\ EarlyFromTheStart
    /\ 0 \notin early => Handshake

\* What the handshake is about.
handshakeVars == <<llmVars, turn, pushed, early>>

LEMMA InitHandshake == Init => HandshakeInv
  <1> SUFFICES ASSUME Init PROVE HandshakeInv
    OBVIOUS
  <1>1. at \in [Threads -> Places]
    BY DEF Init, Threads, Places, Waits
  <1>2. CallTypes
    BY <1>1 DEF Init, CallTypes
  <1>3. EarlyFromTheStart /\ Handshake
    BY DEF Init, EarlyFromTheStart, Handshake, AtFirst
  <1> QED BY <1>2, <1>3 DEF HandshakeInv

\* The TTS and the T2W thread have no part in it, nor has a thread that waits.
LEMMA Aside ==
    ASSUME HandshakeInv, UNCHANGED handshakeVars,
           \/ UNCHANGED at
           \/ \E t \in {"tts", "t2w"}, place \in Places : Goto(t, place)
    PROVE  HandshakeInv'
  <1>1. /\ at' \in [Threads -> Places]
        /\ at'["client"] = at["client"] /\ at'["llm"] = at["llm"]
    BY DEF HandshakeInv, CallTypes, Goto, Threads
  <1>2. CallTypes' /\ EarlyFromTheStart'
    BY <1>1 DEF HandshakeInv, CallTypes, EarlyFromTheStart, handshakeVars, llmVars
  <1>3. 0 \notin early' => Handshake'
    BY <1>1 DEF HandshakeInv, Handshake, AtFirst, Served, handshakeVars, llmVars
  <1> QED BY <1>2, <1>3 DEF HandshakeInv

LEMMA WaitsAside ==
    ASSUME HandshakeInv, NEW t \in Threads, Wait(t) PROVE HandshakeInv'
  <1>1. UNCHANGED <<handshakeVars, at>>
    BY DEF Wait, Blocks, Sleeps, handshakeVars, llmVars, callVars, history
  <1> QED BY <1>1, Aside

LEMMA VoicesAside ==
    ASSUME HandshakeInv,
           \/ TtsInterrupted \/ TtsClear \/ TtsCleared \/ TakeText \/ TtsSpeak
           \/ TtsFlush \/ TtsDone \/ TtsFile \/ T2wInterrupted \/ T2wDrop \/ Write
    PROVE  HandshakeInv'
  <1> USE DEF handshakeVars, callVars, history
  <1>1. {"text", "tokens", "clear", "cleared", "again", "speak", "flush", "done", "file",
         "drop"} \subseteq Places
    BY DEF Places, Waits
  <1>2. UNCHANGED handshakeVars
    BY DEF TtsInterrupted, TtsClear, TtsCleared, TakeText, TakenText, TtsSpeak, TtsFlush,
           TtsDone, TtsFile, T2wInterrupted, T2wDrop, Write
  <1>3. CASE \/ TtsInterrupted \/ TtsClear \/ TtsCleared
    BY <1>1, <1>2, <1>3, Aside DEF TtsInterrupted, TtsClear, TtsCleared
  <1>4. CASE TakeText
    <2>1. \E place \in {"text", "flush", "speak"} : Goto("tts", place)
      BY <1>4 DEF TakeText, TakenText
    <2> QED BY <1>1, <1>2, <2>1, Aside
  <1>5. CASE TtsSpeak \/ TtsFlush
    <2>1. \E place \in {"text", "flush", "file", "done"} : Goto("tts", place)
      BY <1>5 DEF TtsSpeak, TtsFlush
    <2> QED BY <1>1, <1>2, <2>1, Aside
  <1>6. CASE TtsDone \/ TtsFile
    <2>1. \E place \in {"text", "file", "done"} : Goto("tts", place)
      BY <1>6 DEF TtsDone, TtsFile
    <2> QED BY <1>1, <1>2, <2>1, Aside
  <1>7. CASE T2wInterrupted \/ T2wDrop \/ Write
    <2>1. UNCHANGED at \/ \E place \in {"drop", "tokens"} : Goto("t2w", place)
      BY <1>7 DEF T2wInterrupted, T2wDrop, Write
    <2> QED BY <1>1, <1>2, <2>1, Aside
  <1> QED BY <1>3, <1>4, <1>5, <1>6, <1>7

-----------------------------------------------------------------------------
(* The client's calls. *)

LEMMA CallPlaces ==
    {"client", "llm"} \subseteq Threads
    /\ {"out", "push", "silence", "await", "generate", "room", "input", "prefill",
        "answer", "answered"} \subseteq Places
  BY DEF Threads, Places, Waits

\* The client goes to, or comes back from, a place outside the handshake.
LEMMA ClientAside ==
    ASSUME HandshakeInv, UNCHANGED handshakeVars,
           NEW place \in Places \ {"await"}, Goto("client", place),
           at["client"] # "await",
           turn = 0 /\ at["client"] \notin {"generate", "room"}
              => place \notin {"generate", "room"}
    PROVE  HandshakeInv'
  <1>1. /\ at' \in [Threads -> Places]
        /\ at'["client"] = place /\ at'["llm"] = at["llm"]
    BY CallPlaces DEF HandshakeInv, CallTypes, Goto
  <1>2. CallTypes' /\ EarlyFromTheStart'
    BY <1>1 DEF HandshakeInv, CallTypes, EarlyFromTheStart, handshakeVars, llmVars
  <1>3. 0 \notin early' => Handshake'
    BY <1>1 DEF HandshakeInv, Handshake, AtFirst, Served, handshakeVars, llmVars
  <1> QED BY <1>2, <1>3 DEF HandshakeInv

LEMMA PrefillKeeps ==
    ASSUME HandshakeInv,
           FirstPrefillCall \/ ColdPrefillCall \/ SpeechOver \/ SpeechTimeout
    PROVE  HandshakeInv'
  <1>1. UNCHANGED handshakeVars
    BY DEF FirstPrefillCall, ColdPrefillCall, SpeechOver, SpeechTimeout, StartRound,
           handshakeVars, callVars, history
  <1>2. \E place \in {"silence", "push"} : Goto("client", place)
    BY DEF FirstPrefillCall, ColdPrefillCall, SpeechOver, SpeechTimeout, StartRound
  <1>3. at["client"] \in {"out", "silence"}
    BY DEF FirstPrefillCall, ColdPrefillCall, SpeechOver, SpeechTimeout, MayPrefill, Enters
  <1> QED BY <1>1, <1>2, <1>3, CallPlaces, ClientAside

LEMMA PushKeeps ==
    ASSUME HandshakeInv, PrefillCall \/ Push PROVE HandshakeInv'
  <1>1. at["client"] \in {"out", "push"} /\ PushFrame
    BY DEF PrefillCall, MayPrefill, Push
  <1>2. /\ at' \in [Threads -> Places]
        /\ at'["client"] = "out" /\ at'["llm"] = at["llm"]
    BY <1>1, CallPlaces DEF HandshakeInv, CallTypes, PushFrame, Goto
  <1>3. frames' \in Seq(Nat) /\ frames' # <<>>
    BY <1>1 DEF HandshakeInv, CallTypes, PushFrame
  <1>4. UNCHANGED <<batch, prefillDone, needSpeek, turn, early>> /\ pushed' = pushed + 1
    BY <1>1 DEF PushFrame, history
  <1>5. CallTypes' /\ EarlyFromTheStart'
    BY <1>2, <1>3, <1>4 DEF HandshakeInv, CallTypes, EarlyFromTheStart
  <1>6. 0 \notin early' => Handshake'
    BY <1>1, <1>2, <1>3, <1>4 DEF HandshakeInv, Handshake, AtFirst, Served
  <1> QED BY <1>5, <1>6 DEF HandshakeInv

LEMMA DecodeCallKeeps ==
    ASSUME HandshakeInv, DecodeCall PROVE HandshakeInv'
  <1>1. /\ at' \in [Threads -> Places]
        /\ at'["client"] = "await" /\ at'["llm"] = at["llm"]
    BY CallPlaces DEF HandshakeInv, CallTypes, DecodeCall, Goto
  <1>2. UNCHANGED <<frames, batch, prefillDone, turn, pushed, early>>
    BY DEF DecodeCall, callVars
  <1>3. at["client"] = "out" /\ pushed > 0
    BY DEF DecodeCall
  <1>4. CallTypes' /\ EarlyFromTheStart'
    BY <1>1, <1>2 DEF HandshakeInv, CallTypes, EarlyFromTheStart
  <1>5. 0 \notin early' => Handshake'
    BY <1>1, <1>2, <1>3 DEF HandshakeInv, Handshake, AtFirst, Served
  <1> QED BY <1>4, <1>5 DEF HandshakeInv

\* The first decode may find the flag set and run ahead; no other does before it.
LEMMA BeginKeeps ==
    ASSUME HandshakeInv, Begin PROVE HandshakeInv'
  <1>1. /\ at' \in [Threads -> Places]
        /\ at'["client"] = "generate" /\ at'["llm"] = at["llm"]
    BY CallPlaces DEF HandshakeInv, CallTypes, Begin, Goto
  <1>2. /\ UNCHANGED <<frames, batch, needSpeek, turn, pushed>> /\ ~prefillDone'
        /\ early' = IF frames \o batch # <<>> THEN early \cup {turn} ELSE early
    BY DEF Begin, callVars
  <1>3. at["client"] = "await" /\ prefillDone
    BY DEF Begin, Enters, Wanted
  <1>4. CallTypes'
    BY <1>1, <1>2 DEF HandshakeInv, CallTypes
  <1>5. CASE 0 \in early
    BY <1>2, <1>4, <1>5 DEF HandshakeInv, EarlyFromTheStart
  <1>6. CASE 0 \notin early /\ Served
    <2>1. frames \o batch = <<>>
      BY <1>6 DEF Served
    <2>2. EarlyFromTheStart' /\ Handshake'
      BY <1>1, <1>2, <1>3, <1>6, <2>1
      DEF HandshakeInv, Handshake, EarlyFromTheStart, Served
    <2> QED BY <1>4, <2>2 DEF HandshakeInv
  <1>7. CASE 0 \notin early /\ AtFirst
    <2>1. frames # <<>> /\ turn = 0
      BY <1>3, <1>7 DEF AtFirst
    <2>2. frames \o batch # <<>>
      BY <2>1 DEF HandshakeInv, CallTypes
    <2>3. 0 \in early'
      BY <1>2, <2>1, <2>2
    <2> QED BY <1>4, <2>3 DEF HandshakeInv, EarlyFromTheStart
  <1> QED BY <1>3, <1>5, <1>6, <1>7 DEF HandshakeInv, Handshake

\* A call that returns leaves the flag unset: only the LLM thread sets it again.
LEMMA AnswerKeeps ==
    ASSUME HandshakeInv, Generate \/ GiveUp \/ RunOut \/ Speak PROVE HandshakeInv'
  <1>1. /\ at["client"] \in {"generate", "room"}
        /\ UNCHANGED <<llmVars, early>>
    BY DEF Generate, GiveUp, RunOut, Speak, Enters, history
  <1>2. \E place \in {"generate", "room", "out"} : Goto("client", place)
    BY DEF Generate, GiveUp, RunOut, Speak, Return
  <1>3. /\ at' \in [Threads -> Places]
        /\ at'["client"] \in {"generate", "room", "out"} /\ at'["llm"] = at["llm"]
    BY <1>2, CallPlaces DEF HandshakeInv, CallTypes, Goto
  <1>4. turn' \in Nat /\ pushed' \in Nat
    <2>1. UNCHANGED <<turn, pushed>> \/ (turn' = turn + 1 /\ pushed' = 0)
      BY DEF Generate, GiveUp, RunOut, Speak, Return
    <2> QED BY <2>1 DEF HandshakeInv, CallTypes
  <1>5. CallTypes' /\ EarlyFromTheStart'
    BY <1>1, <1>3, <1>4 DEF HandshakeInv, CallTypes, EarlyFromTheStart, llmVars
  <1>6. 0 \notin early' => Handshake'
    BY <1>1, <1>3 DEF HandshakeInv, Handshake, AtFirst, Served, llmVars
  <1> QED BY <1>5, <1>6 DEF HandshakeInv

-----------------------------------------------------------------------------
(* The LLM thread. *)

LEMMA LlmKeeps ==
    ASSUME HandshakeInv, TakeBatch \/ Prefill \/ Answer \/ Answered \/ AnswerAtOnce
    PROVE  HandshakeInv'
  <1>1. UNCHANGED <<turn, pushed, early>>
    BY DEF TakeBatch, Prefill, Answer, Answered, AnswerAtOnce, callVars, history
  <1>2. /\ at' \in [Threads -> Places] /\ at'["client"] = at["client"]
        /\ \A place \in Places : Goto("llm", place) => at'["llm"] = place
    <2>1. UNCHANGED at \/ \E place \in {"prefill", "answer", "input", "answered"} :
                             Goto("llm", place)
      BY DEF TakeBatch, Prefill, Answer, Answered, AnswerAtOnce
    <2> QED BY <2>1, CallPlaces DEF HandshakeInv, CallTypes, Goto, Threads
  <1>3. frames' \in Seq(Nat) /\ batch' \in Seq(Nat)
    <2>1. {frames', batch'} \subseteq {frames, batch, <<>>}
      BY DEF TakeBatch, Prefill, Answer, Answered, AnswerAtOnce
    <2>2. {frames, batch, <<>>} \subseteq Seq(Nat)
      BY DEF HandshakeInv, CallTypes
    <2> QED BY <2>1, <2>2
  <1>4. CallTypes' /\ EarlyFromTheStart'
    BY <1>1, <1>2, <1>3 DEF HandshakeInv, CallTypes, EarlyFromTheStart
  <1> SUFFICES ASSUME 0 \notin early PROVE Handshake'
    BY <1>1, <1>4 DEF HandshakeInv
  <1>5. Handshake
    BY DEF HandshakeInv
  <1>6. CASE TakeBatch
    <2>1. at'["llm"] = "prefill" /\ at["llm"] = "input" /\ ~prefillDone'
          /\ needSpeek' = needSpeek
      BY <1>2, <1>6, CallPlaces DEF TakeBatch, Enters
    <2> QED BY <1>2, <1>5, <2>1 DEF Handshake
  <1>7. CASE Prefill
    <2>1. /\ at["llm"] = "prefill" /\ batch' = <<>>
          /\ UNCHANGED <<frames, prefillDone, needSpeek>>
          /\ IF frames = <<>> /\ needSpeek THEN at'["llm"] = "answer"
             ELSE at'["llm"] = "input"
      BY <1>2, <1>7, CallPlaces DEF Prefill
    <2> QED BY <1>2, <1>5, <2>1 DEF Handshake
  <1>8. CASE Answer
    <2>1. /\ at["llm"] = "answer" /\ at'["llm"] = "answered"
          /\ UNCHANGED <<frames, batch, needSpeek>>
      BY <1>2, <1>8, CallPlaces DEF Answer
    <2> QED BY <1>2, <1>5, <2>1 DEF Handshake, Served
  <1>9. CASE Answered
    <2>1. /\ at["llm"] = "answered" /\ at'["llm"] = "input" /\ ~needSpeek'
          /\ UNCHANGED <<frames, batch, prefillDone>>
      BY <1>2, <1>9, CallPlaces DEF Answered
    <2> QED BY <1>1, <1>2, <1>5, <2>1 DEF Handshake, AtFirst, Served
  <1>10. CASE AnswerAtOnce
    <2>1. /\ at["llm"] = "input" /\ at'["llm"] = "input" /\ ~needSpeek' /\ needSpeek
          /\ frames = <<>> /\ UNCHANGED <<frames, batch>>
      BY <1>10 DEF AnswerAtOnce, Enters
    <2> QED BY <1>2, <1>5, <2>1 DEF Handshake, Served
  <1> QED BY <1>6, <1>7, <1>8, <1>9, <1>10

-----------------------------------------------------------------------------
LEMMA NextKeepsHandshake == HandshakeInv /\ [Next]_vars => HandshakeInv'
  <1> SUFFICES ASSUME HandshakeInv, [Next]_vars PROVE HandshakeInv'
    OBVIOUS
  <1>1. CASE FirstPrefillCall \/ ColdPrefillCall \/ SpeechOver \/ SpeechTimeout
    BY <1>1, PrefillKeeps
  <1>2. CASE PrefillCall \/ Push
    BY <1>2, PushKeeps
  <1>3. CASE DecodeCall
    BY <1>3, DecodeCallKeeps
  <1>4. CASE Break \/ UNCHANGED vars
    <2>1. UNCHANGED <<handshakeVars, at>>
      BY <1>4 DEF Break, vars, handshakeVars, callVars, history
    <2> QED BY <2>1, Aside
  <1>5. CASE Begin
    BY <1>5, BeginKeeps
  <1>6. CASE Generate \/ GiveUp \/ RunOut \/ Speak
    BY <1>6, AnswerKeeps
  <1>7. CASE TakeBatch \/ Prefill \/ Answer \/ Answered \/ AnswerAtOnce
    BY <1>7, LlmKeeps
  <1>8. CASE \/ TtsInterrupted \/ TtsClear \/ TtsCleared \/ TakeText \/ TtsSpeak
             \/ TtsFlush \/ TtsDone \/ TtsFile \/ T2wInterrupted \/ T2wDrop \/ Write
    BY <1>8, VoicesAside
  <1>9. CASE \E t \in Threads : Wait(t)
    BY <1>9, WaitsAside
  <1> QED
    BY <1>1, <1>2, <1>3, <1>4, <1>5, <1>6, <1>7, <1>8, <1>9
    DEF Next, Client, Call, Llm, Tts, T2w, Threads

\* The theorem about stream_decode and llm_thread_func: whoever answers before the
\* frames of its turn have been prefilled owes it to the first decode of all, which
\* finds prefill_done as the process has set it.
THEOREM OnlyTheFirstOvertakes == Spec => []EarlyFromTheStart
  <1>1. HandshakeInv => EarlyFromTheStart
    BY DEF HandshakeInv
  <1> QED BY InitHandshake, NextKeepsHandshake, <1>1, PTL DEF Spec
=============================================================================
