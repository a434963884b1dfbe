---------------------------- MODULE SimplexTurns ----------------------------
(***************************************************************************)
(* A spoken conversation in turns (simplex mode) in the C++ engine,        *)
(* tools/omni/omni.cpp, as the endpoints of tools/server/server.cpp drive  *)
(* it.  A client prefills the frames of its turn and asks for the answer.  *)
(* The LLM thread prefills and then lets the decode go; the decode, in the *)
(* thread of the call, hands chunks of text to the TTS thread, which turns *)
(* them to tokens for the T2W thread, which writes sound into the directory*)
(* of the round and, at its end, generation_done.flag.                     *)
(*                                                                         *)
(* The threads agree by flags that no mutex covers: prefill_done,          *)
(* need_speek, speek_done, break_event and simplex_round_idx.              *)
(*                                                                         *)
(* The calls of a client hold octx_mutex and are made one after another;   *)
(* between them the client may break the speech.                           *)
(***************************************************************************)
EXTENDS Integers, Sequences, SequencesExt

CONSTANTS
    TtsCap,      \* TTSThreadInfo::MAX_QUEUE_SIZE
    MaxTurns,    \* bounds of the model: turns of a conversation,
    MaxFrames,   \* frames of a turn (the LLM queue has room for 1000),
    MaxChunks,   \* chunks of an answer,
    MaxBreaks    \* breaks of a conversation

ASSUME BoundsAssumption ==
    /\ TtsCap \in Nat \ {0} /\ MaxTurns \in Nat /\ MaxFrames \in Nat
    /\ MaxChunks \in Nat \ {0} /\ MaxBreaks \in Nat

VARIABLES
    frames, batch,             \* the LLM queue, and what its thread has taken
    prefillDone, needSpeek,    \* prefill_done, need_speek
    speekDone, warmupDone,     \* speek_done, warmup_done
    breakEvent,                \* break_event
    round,                     \* simplex_round_idx
    ttsQueue, tts,             \* the text that waits; the TTS thread's locals
    t2wQueue, t2w,             \* the tokens that wait; the T2W thread's locals
    turn, pushed,              \* the client's turn and its frames so far
    chunk, made,               \* the decode's chunk, and how many it has made
    at, cond,                  \* where the threads are (see Monitor)
    early,                     \* history: decodes that overtook their frames
    story,                     \* history: the turns that nothing has disturbed
    breaks,                    \* history: how often there has been a break
    lost                       \* history: how a wake-up has been lost

llmVars   == <<frames, batch, prefillDone, needSpeek>>
flagVars  == <<speekDone, warmupDone, breakEvent>>
voiceVars == <<round, ttsQueue, tts, t2wQueue, t2w>>
callVars  == <<turn, pushed, chunk, made>>
history   == <<early, story, breaks>>
vars == <<llmVars, flagVars, voiceVars, callVars, at, cond, history, lost>>

Threads == {"client", "llm", "tts", "t2w"}
Turns   == 0..MaxTurns - 1

\* The condition variables and their mutexes, by the place of the wait.
Waits == {"silence", "await", "room", "input", "text", "tokens"}
Cv == [p \in Waits |-> CASE p = "silence"          -> "speek_cv"
                         [] p = "await"            -> "g_decode_cv"
                         [] p = "input"            -> "llm_cv"
                         [] p \in {"room", "text"} -> "tts_cv"
                         [] p = "tokens"           -> "t2w_cv"]
Mutex == [p \in Waits |-> CASE p = "silence"            -> "speek_mtx"
                            [] p \in {"await", "input"} -> "llm_mtx"
                            [] p \in {"room", "text"}   -> "tts_mtx"
                            [] p = "tokens"             -> "t2w_mtx"]

INSTANCE Monitor

\* A chunk of text.  One that is "silent" has nothing that can be spoken, one
\* that is "empty" has no text at all; a turn's tokens are named by their chunk.
Kinds   == {"speech", "silent", "empty"}
Chunks  == [turn : Turns \cup {-1}, no : 0..MaxChunks, kind : Kinds, last : BOOLEAN]
NoChunk == [turn |-> -1, no |-> 0, kind |-> "empty", last |-> FALSE]

\* The story of an undisturbed turn: the round it began in, the chunks to be
\* spoken, those whose sound was written, with its round, the rounds that were
\* marked as ended by it, and whether the decode ran out before the answer ended.
Blank == [calm |-> FALSE, round |-> 0, said |-> <<>>, filed |-> <<>>, ended |-> {},
          cut |-> FALSE]
Heard(n) == story[n].ended # {}
Disturbed(S) == [n \in Turns |-> IF n \in S THEN Blank ELSE story[n]]
Unheard == {n \in Turns : ~Heard(n)}

\* The first session has been set up: the system prompt is in, the threads run.
Init ==
    /\ frames = <<>> /\ batch = <<>> /\ prefillDone = TRUE /\ needSpeek = FALSE
    /\ speekDone = FALSE /\ warmupDone = FALSE /\ breakEvent = FALSE /\ round = 0
    /\ ttsQueue = <<>> /\ t2wQueue = <<>>
    /\ tts = [hand |-> NoChunk, finish |-> FALSE, first |-> TRUE, buffer |-> <<>>]
    /\ t2w = [buffer |-> <<>>, round |-> -1]
    /\ turn = 0 /\ pushed = 0 /\ chunk = NoChunk /\ made = 0
    /\ at = [client |-> "out", llm |-> "input", tts |-> "text", t2w |-> "tokens"]
    /\ cond = [t \in Threads |-> "awake"]
    /\ early = {} /\ story = [n \in Turns |-> Blank] /\ breaks = 0 /\ lost = {}

\* What a thread waits for, where it is.
Wanted(t) ==
    CASE at[t] = "silence" -> speekDone \/ breakEvent
      [] at[t] = "await"   -> prefillDone
      [] at[t] = "room"    -> Len(ttsQueue) < TtsCap
      [] at[t] = "input"   -> frames # <<>> \/ needSpeek
      [] at[t] = "text"    -> ttsQueue # <<>> \/ breakEvent
      [] at[t] = "tokens"  -> t2wQueue # <<>> \/ breakEvent
      [] OTHER             -> FALSE

\* A notification.  Whom it misses waits for ever, unless the wait is timed.
Notify(cvs) ==
    /\ NotifyAll(cvs)
    /\ lost' = IF \E t \in Deaf(cvs) : Wanted(t)' /\ at[t] # "silence"
               THEN lost \cup {"missed"} ELSE lost

Quietly == UNCHANGED <<cond, lost>>

\* Where notifications are given under the mutex of the wait, nobody comes between
\* the test and the sleep, and they are one step.
Guarded == {"room", "text", "tokens"}

Wait(t) ==
    /\ \/ \E p \in Waits \ Guarded : Blocks(t, p) /\ ~Wanted(t)
       \/ Sleeps(t)
       \/ \E p \in Guarded : /\ Enters(t, p) /\ ~Wanted(t)
                             /\ cond' = [cond EXCEPT ![t] = "asleep"] /\ UNCHANGED at
    /\ UNCHANGED <<llmVars, flagVars, voiceVars, callVars, history, lost>>

-----------------------------------------------------------------------------
(* stream_prefill.  Only a call with index 0 waits for the speech of the turn *)
(* before, at most 5 s; what the TTS queue then holds is thrown away.         *)

MayPrefill == at["client"] = "out" /\ turn < MaxTurns /\ pushed < MaxFrames

PushFrame ==
    /\ Free("llm_mtx")
    /\ frames' = Append(frames, turn) /\ pushed' = pushed + 1
    /\ Goto("client", "out") /\ Notify({"llm_cv"})
    /\ UNCHANGED <<batch, prefillDone, needSpeek, flagVars, voiceVars, turn, chunk,
                   made, history>>

PrefillCall == MayPrefill /\ PushFrame

\* A break that nobody has taken up is cleared, and nothing is waited for.
FirstPrefillCall ==
    /\ MayPrefill /\ warmupDone
    /\ speekDone' = (speekDone \/ breakEvent) /\ breakEvent' = FALSE
    /\ Goto("client", "silence") /\ Quietly
    /\ UNCHANGED <<llmVars, warmupDone, voiceVars, callVars, history>>

StartRound ==
    /\ Free("tts_mtx")
    /\ speekDone' = FALSE /\ ttsQueue' = <<>>
    /\ Goto("client", "push")
    /\ UNCHANGED <<llmVars, warmupDone, breakEvent, round, tts, t2wQueue, t2w, callVars,
                   early, breaks>>

\* In the first turn of all there is nothing to wait for.
ColdPrefillCall ==
    /\ MayPrefill /\ ~warmupDone
    /\ StartRound /\ Quietly
    /\ story' = Disturbed(Unheard)

SpeechOver ==
    /\ Enters("client", "silence") /\ Wanted("client")
    /\ StartRound /\ Quietly
    /\ UNCHANGED story

SpeechTimeout ==
    /\ at["client"] = "silence" /\ cond["client"] = "asleep"
    /\ StartRound /\ cond' = [cond EXCEPT !["client"] = "awake"]
    /\ story' = Disturbed(Unheard) /\ UNCHANGED lost

Push == at["client"] = "push" /\ PushFrame

-----------------------------------------------------------------------------
(* stream_decode. *)

\* Nothing of the turns before is left in the threads behind.
AllDone ==
    /\ ~breakEvent
    /\ at["tts"] = "text" /\ ttsQueue = <<>>
    /\ ~tts.finish /\ tts.first /\ tts.buffer = <<>>
    /\ at["t2w"] = "tokens" /\ t2wQueue = <<>> /\ t2w.buffer = <<>>

\* The caller may name its round.  need_speek is set, and the LLM thread notified,
\* without the mutex.
DecodeCall ==
    /\ at["client"] = "out" /\ turn < MaxTurns /\ pushed > 0
    /\ round' \in {round, turn}
    /\ needSpeek' = TRUE
    /\ story' = [Disturbed(Unheard) EXCEPT ![turn] =
                    IF AllDone THEN [Blank EXCEPT !.calm = TRUE, !.round = round']
                    ELSE Blank]
    /\ Goto("client", "await")
    /\ UNCHANGED <<frames, batch, prefillDone, flagVars, ttsQueue, tts, t2wQueue, t2w,
                   callVars, early, breaks>>
    /\ Notify({"llm_cv"})

\* Fault: the decode leaves prefill_done for the next one.
BeginAgain ==
    /\ Enters("client", "await") /\ Wanted("client")
    /\ speekDone' = FALSE
    /\ early' = IF frames \o batch # <<>> THEN early \cup {turn} ELSE early
    /\ Goto("client", "generate") /\ Quietly
    /\ UNCHANGED <<llmVars, warmupDone, breakEvent, voiceVars, callVars, story, breaks>>

Begin ==
    /\ Enters("client", "await") /\ Wanted("client")
    /\ prefillDone' = FALSE /\ speekDone' = FALSE
    /\ early' = IF frames \o batch # <<>> THEN early \cup {turn} ELSE early
    /\ Goto("client", "generate") /\ Quietly
    /\ UNCHANGED <<frames, batch, needSpeek, warmupDone, breakEvent, voiceVars, callVars,
                   story, breaks>>

\* The bound MaxChunks: only an answer with fewer chunks may run out.
Generate ==
    /\ at["client"] = "generate" /\ ~breakEvent
    /\ \E last \in BOOLEAN, kind \in Kinds :
          /\ last \/ made + 1 < MaxChunks
          /\ kind = "empty" => last
          /\ chunk' = [turn |-> turn, no |-> made + 1, kind |-> kind, last |-> last]
    /\ made' = made + 1
    /\ story' = IF story[turn].calm /\ chunk'.kind = "speech"
                THEN [story EXCEPT ![turn].said = Append(@, made')] ELSE story
    /\ Goto("client", "room") /\ Quietly
    /\ UNCHANGED <<llmVars, flagVars, voiceVars, turn, pushed, early, breaks>>

Return == turn' = turn + 1 /\ pushed' = 0 /\ made' = 0 /\ Goto("client", "out")

\* The limit of the length is reached, or the model gives no token any more, before
\* the answer ends: there is no last chunk.
RunOut ==
    /\ at["client"] = "generate"
    /\ Return /\ Quietly
    /\ story' = IF story[turn].calm THEN [story EXCEPT ![turn].cut = TRUE] ELSE story
    /\ UNCHANGED <<llmVars, flagVars, voiceVars, chunk, early, breaks>>

\* A break ends the answer, and the TTS thread is not told of the end.
GiveUp ==
    /\ at["client"] = "generate" /\ breakEvent
    /\ Return /\ Quietly
    /\ UNCHANGED <<llmVars, flagVars, voiceVars, chunk, history>>

\* Fault: the decode does not wait for room in the queue.
SpeakAnyway ==
    /\ at["client"] = "room" /\ Free("tts_mtx")
    /\ ttsQueue' = Append(ttsQueue, chunk) /\ Notify({"tts_cv"})
    /\ \/ chunk.last /\ Return
       \/ ~chunk.last /\ Goto("client", "generate") /\ UNCHANGED <<turn, pushed, made>>
    /\ chunk' = NoChunk
    /\ UNCHANGED <<llmVars, flagVars, round, tts, t2wQueue, t2w, history>>

\* When the speech is believed to be over, the chunk is thrown away.
Speak ==
    /\ Enters("client", "room") /\ Wanted("client")
    /\ \/ /\ ~speekDone
          /\ ttsQueue' = Append(ttsQueue, chunk) /\ Notify({"tts_cv"})
       \/ speekDone /\ UNCHANGED ttsQueue /\ Quietly
    /\ \/ chunk.last /\ Return
       \/ ~chunk.last /\ Goto("client", "generate") /\ UNCHANGED <<turn, pushed, made>>
    /\ chunk' = NoChunk
    /\ UNCHANGED <<llmVars, flagVars, round, tts, t2wQueue, t2w, history>>

\* POST /v1/stream/break: wakes nobody.
Break ==
    /\ at["client"] = "out" /\ ~breakEvent /\ breaks < MaxBreaks
    /\ breakEvent' = TRUE /\ breaks' = breaks + 1
    /\ story' = Disturbed(Unheard) /\ Quietly
    /\ UNCHANGED <<llmVars, speekDone, warmupDone, voiceVars, callVars, at, early>>

-----------------------------------------------------------------------------
(* llm_thread_func. *)

TakeBatch ==
    /\ Enters("llm", "input") /\ frames # <<>>
    /\ batch' = frames /\ frames' = <<>> /\ prefillDone' = FALSE
    /\ Goto("llm", "prefill") /\ Notify({"llm_cv"})
    /\ UNCHANGED <<needSpeek, flagVars, voiceVars, callVars, history>>

\* It goes on without the mutex, and so to the answer.
Prefill ==
    /\ at["llm"] = "prefill"
    /\ batch' = <<>>
    /\ Goto("llm", IF frames = <<>> /\ needSpeek THEN "answer" ELSE "input")
    /\ Quietly
    /\ UNCHANGED <<frames, prefillDone, needSpeek, flagVars, voiceVars, callVars, history>>

Answer ==
    /\ at["llm"] = "answer"
    /\ prefillDone' = TRUE
    /\ Goto("llm", "answered") /\ Quietly
    /\ UNCHANGED <<frames, batch, needSpeek, flagVars, voiceVars, callVars, history>>

\* The request that is cleared may be the next one already, and the end of the
\* speech that is taken back the end of this one.
Answered ==
    /\ at["llm"] = "answered"
    /\ speekDone' = FALSE /\ needSpeek' = FALSE
    /\ Goto("llm", "input") /\ NotifyAll({"g_decode_cv"})
    /\ lost' = lost
         \cup (IF \E t \in Deaf({"g_decode_cv"}) : Wanted(t) THEN {"missed"} ELSE {})
         \cup (IF at["client"] = "await" /\ (~prefillDone \/ frames # <<>>)
               THEN {"erased"} ELSE {})
    /\ UNCHANGED <<frames, batch, prefillDone, warmupDone, breakEvent, voiceVars,
                   callVars, history>>

\* There is nothing to prefill: the mutex is kept.
AnswerAtOnce ==
    /\ Enters("llm", "input") /\ frames = <<>> /\ needSpeek
    /\ prefillDone' = TRUE /\ speekDone' = FALSE /\ needSpeek' = FALSE
    /\ UNCHANGED at /\ Notify({"g_decode_cv"})
    /\ UNCHANGED <<frames, batch, warmupDone, breakEvent, voiceVars, callVars, history>>

-----------------------------------------------------------------------------
(* tts_thread_func. *)

\* A break: the text is dropped, and whoever waits for room is not told.  The
\* round goes up once, however often the thread comes here in a row.
TtsInterrupted ==
    /\ Enters("tts", "text") /\ breakEvent
    /\ Goto("tts", "clear") /\ Quietly
    /\ UNCHANGED <<llmVars, flagVars, voiceVars, callVars, history>>

TtsClear ==
    /\ at["tts"] \in {"clear", "again"} /\ Free("tts_mtx")
    /\ ttsQueue' = <<>>
    /\ round' = IF at["tts"] = "clear" THEN round + 1 ELSE round
    /\ tts' = [tts EXCEPT !.finish = FALSE, !.first = TRUE]
    /\ lost' = IF at["client"] = "room" /\ cond["client"] = "asleep"
               THEN lost \cup {"room"} ELSE lost
    /\ Goto("tts", "cleared") /\ UNCHANGED cond
    /\ UNCHANGED <<llmVars, flagVars, t2wQueue, t2w, callVars, history>>

TtsCleared ==
    /\ at["tts"] = "cleared"
    /\ Goto("tts", IF breakEvent THEN "again" ELSE "text") /\ Quietly
    /\ UNCHANGED <<llmVars, flagVars, voiceVars, callVars, history>>

\* One chunk at a time.  What comes when the speech is over is ignored; a chunk
\* without anything to speak is skipped, though it may be the last.
TakenText ==
    LET c      == Head(ttsQueue)
        finish == tts.finish \/ c.last
        skip   == speekDone \/ c.kind = "silent"
    IN  /\ ttsQueue' = Tail(ttsQueue)
        /\ tts' = [tts EXCEPT !.hand   = IF skip THEN NoChunk ELSE c,
                              !.finish = finish /\ ~speekDone,
                              !.first  = @ \/ speekDone]
        /\ Goto("tts", IF skip THEN "text"
                       ELSE IF c.kind = "empty" THEN "flush" ELSE "speak")
        /\ story' = IF finish /\ skip THEN Disturbed({c.turn}) ELSE story

\* Fault: the decode that waits for room is not told of it.
TakeTextQuietly ==
    /\ Enters("tts", "text") /\ ~breakEvent /\ ttsQueue # <<>>
    /\ TakenText /\ Quietly
    /\ UNCHANGED <<llmVars, flagVars, round, t2wQueue, t2w, callVars, early, breaks>>

TakeText ==
    /\ Enters("tts", "text") /\ ~breakEvent /\ ttsQueue # <<>>
    /\ TakenText /\ Notify({"tts_cv"})
    /\ UNCHANGED <<llmVars, flagVars, round, t2wQueue, t2w, callVars, early, breaks>>

\* Tokens go on with the round that is the present one.
Emit(tokens) ==
    IF tokens = <<>> THEN UNCHANGED t2wQueue /\ Quietly
    ELSE /\ t2wQueue' = Append(t2wQueue, [tokens |-> tokens, round |-> round,
                                          final |-> FALSE, turn |-> -1])
         /\ Notify({"t2w_cv"})

Token(c) == [turn |-> c.turn, no |-> c.no]

\* A break ends the chunk anywhere; tokens may stay behind for the next chunk.  When
\* the TTS model fails, the chunk has no tokens, the buffer may not even be cleared,
\* and the thread goes on as ever.
TtsSpeak ==
    /\ at["tts"] = "speak" /\ Free("t2w_mtx")
    /\ \E spoken, fresh \in BOOLEAN, k \in 0..MaxChunks :
          LET kept   == IF tts.first /\ fresh THEN <<>> ELSE tts.buffer
              tokens == IF spoken THEN Append(kept, Token(tts.hand)) ELSE kept
          IN  /\ spoken => fresh
              /\ k <= Len(tokens)
              /\ Goto("tts", IF tts.finish THEN "flush" ELSE "text")
              /\ tts' = [tts EXCEPT !.first  = FALSE,
                                    !.hand   = IF tts.finish THEN @ ELSE NoChunk,
                                    !.buffer = SubSeq(tokens, k + 1, Len(tokens))]
              /\ story' = IF spoken THEN story ELSE Disturbed({tts.hand.turn})
              /\ Emit(SubSeq(tokens, 1, k))
    /\ UNCHANGED <<llmVars, flagVars, round, ttsQueue, t2w, callVars, early, breaks>>

\* The end of a turn.  After a last chunk with text, speek_done is set before the
\* end is passed on; after one without, later.
TtsFlush ==
    /\ at["tts"] = "flush" /\ Free("t2w_mtx")
    /\ tts' = [tts EXCEPT !.buffer = <<>>]
    /\ Goto("tts", IF tts.hand.kind = "empty" THEN "file" ELSE "done")
    /\ Emit(tts.buffer)
    /\ UNCHANGED <<llmVars, flagVars, round, ttsQueue, t2w, callVars, history>>

NewTurn == tts' = [tts EXCEPT !.hand = NoChunk, !.finish = FALSE, !.first = TRUE]

TtsDone ==
    /\ at["tts"] = "done"
    /\ speekDone' = TRUE /\ warmupDone' = TRUE
    /\ \/ tts.hand.kind = "empty" /\ Goto("tts", "text") /\ NewTurn
       \/ tts.hand.kind # "empty" /\ Goto("tts", "file") /\ UNCHANGED tts
    /\ Notify({"speek_cv"})
    /\ UNCHANGED <<llmVars, breakEvent, round, ttsQueue, t2wQueue, t2w, callVars, history>>

\* Fault: the end is marked with the round that begins.
TtsFileNewRound ==
    /\ at["tts"] = "file" /\ Free("t2w_mtx")
    /\ round' = round + 1
    /\ t2wQueue' = Append(t2wQueue, [tokens |-> <<>>, round |-> round', final |-> TRUE,
                                     turn |-> tts.hand.turn])
    /\ \/ tts.hand.kind # "empty" /\ Goto("tts", "text") /\ NewTurn
       \/ tts.hand.kind = "empty" /\ Goto("tts", "done") /\ UNCHANGED tts
    /\ Notify({"t2w_cv"})
    /\ UNCHANGED <<llmVars, flagVars, ttsQueue, t2w, callVars, history>>

TtsFile ==
    /\ at["tts"] = "file" /\ Free("t2w_mtx")
    /\ round' = round + 1
    /\ t2wQueue' = Append(t2wQueue, [tokens |-> <<>>, round |-> round, final |-> TRUE,
                                     turn |-> tts.hand.turn])
    /\ \/ tts.hand.kind # "empty" /\ Goto("tts", "text") /\ NewTurn
       \/ tts.hand.kind = "empty" /\ Goto("tts", "done") /\ UNCHANGED tts
    /\ Notify({"t2w_cv"})
    /\ UNCHANGED <<llmVars, flagVars, ttsQueue, t2w, callVars, history>>

-----------------------------------------------------------------------------
(* t2w_thread_func_cpp. *)

T2wInterrupted ==
    /\ Enters("t2w", "tokens") /\ breakEvent
    /\ Goto("t2w", "drop") /\ Quietly
    /\ UNCHANGED <<llmVars, flagVars, voiceVars, callVars, history>>

\* The break is over, whether or not the other threads have seen it.
T2wDrop ==
    /\ at["t2w"] = "drop"
    /\ t2wQueue' = <<>> /\ breakEvent' = FALSE
    /\ t2w' = [buffer |-> <<>>, round |-> round]
    /\ Goto("t2w", "tokens") /\ Quietly
    /\ UNCHANGED <<llmVars, speekDone, warmupDone, round, ttsQueue, tts, callVars, history>>

\* What the sound of these tokens, and the end marks of these turns, add to the
\* story when they are written to a round.
Written(tokens, ended, label) ==
    [n \in Turns |->
       IF ~story[n].calm THEN story[n]
       ELSE [story[n] EXCEPT
               !.filed = @ \o FlattenSeq([i \in DOMAIN tokens |->
                                 IF tokens[i].turn = n THEN << <<tokens[i].no, label>> >>
                                 ELSE <<>>]),
               !.ended = IF n \in ended THEN @ \cup {label} ELSE @]]

\* All that is queued is taken as of the last round among it.  A change of round
\* drops what was kept; an end writes all of it, and else some may be kept.
Write ==
    /\ Enters("t2w", "tokens") /\ ~breakEvent /\ t2wQueue # <<>>
    /\ t2wQueue' = <<>>
    /\ LET items  == DOMAIN t2wQueue
           label  == Last(t2wQueue).round
           kept   == IF label = t2w.round THEN t2w.buffer ELSE <<>>
           tokens == kept \o FlattenSeq([i \in items |-> t2wQueue[i].tokens])
           ended  == {t2wQueue[i].turn : i \in {j \in items : t2wQueue[j].final}}
       IN  \E k \in 0..Len(tokens) :
              /\ ended # {} => k = Len(tokens)
              /\ story' = Written(SubSeq(tokens, 1, k), ended, label)
              /\ t2w' = [buffer |-> SubSeq(tokens, k + 1, Len(tokens)),
                         round  |-> IF ended # {} THEN round ELSE label]
    /\ UNCHANGED at /\ Quietly
    /\ UNCHANGED <<llmVars, flagVars, round, ttsQueue, tts, callVars, early, breaks>>

-----------------------------------------------------------------------------
Client == PrefillCall \/ FirstPrefillCall \/ ColdPrefillCall \/ DecodeCall \/ Break
Call   == \/ SpeechOver \/ SpeechTimeout \/ Push \/ Begin \/ Generate \/ GiveUp
          \/ RunOut \/ Speak \/ Wait("client")
Llm    == TakeBatch \/ Prefill \/ Answer \/ Answered \/ AnswerAtOnce \/ Wait("llm")
Tts    == \/ TtsInterrupted \/ TtsClear \/ TtsCleared \/ TakeText \/ TtsSpeak \/ TtsFlush
          \/ TtsDone \/ TtsFile \/ Wait("tts")
T2w    == T2wInterrupted \/ T2wDrop \/ Write \/ Wait("t2w")

Next == Client \/ Call \/ Llm \/ Tts \/ T2w

Spec == Init /\ [][Next]_vars

-----------------------------------------------------------------------------
Places == Waits \cup {"out", "push", "generate", "prefill", "answer", "answered",
                      "clear", "cleared", "again", "speak", "flush", "done", "file", "drop"}
Tokens == [turn : Turns, no : 1..MaxChunks]

\* Types of the state.  The queue of text never exceeds its capacity, and only
\* chunks that can be spoken become tokens (tts_thread_func, stream_decode).
TypeOK ==
    /\ frames \in Seq(Turns) /\ batch \in Seq(Turns)
    /\ {prefillDone, needSpeek, speekDone, warmupDone, breakEvent} \subseteq BOOLEAN
    /\ round \in Nat
    /\ ttsQueue \in Seq(Chunks) /\ Len(ttsQueue) <= TtsCap
    /\ tts \in [hand : Chunks, finish : BOOLEAN, first : BOOLEAN, buffer : Seq(Tokens)]
    /\ t2wQueue \in Seq([tokens : Seq(Tokens), round : Nat, final : BOOLEAN,
                         turn : Turns \cup {-1}])
    /\ t2w \in [buffer : Seq(Tokens), round : Nat \cup {-1}]
    /\ turn \in 0..MaxTurns /\ pushed \in 0..MaxFrames
    /\ chunk \in Chunks /\ made \in 0..MaxChunks
    /\ at \in [Threads -> Places] /\ cond \in [Threads -> Conditions]
    /\ early \subseteq Turns /\ breaks \in 0..MaxBreaks
    /\ lost \subseteq {"missed", "erased", "room"}

\* A decode answers before the frames of its turn are in the cache only if the
\* first decode of all has (prefill_done starts as TRUE); the handshake of
\* need_speek and prefill_done lets nobody else overtake (stream_decode,
\* llm_thread_func).
EarlyFromTheStart == early # {} => 0 \in early

\* The sound of a turn that began when all was done, and that nobody disturbed, is
\* written once, in order, to the round the turn began in, and when that round is
\* marked as ended, all of it is there (tts_thread_func, t2w_thread_func_cpp).
CalmTurnsAreFiled ==
    \A n \in Turns : story[n].calm =>
       LET mine == story[n].filed
       IN  /\ IsPrefix([i \in DOMAIN mine |-> mine[i][1]], story[n].said)
           /\ \A i \in DOMAIN mine : mine[i][2] = story[n].round
           /\ story[n].ended \subseteq {story[n].round}
           /\ Heard(n) => Len(mine) = Len(story[n].said)

\* Nobody goes on by himself: the threads sleep, but for the TTS thread, which goes
\* round and round while there is a break, and a client that makes no call.
AtRest ==
    \A t \in Threads : \/ cond[t] = "asleep" /\ at[t] # "silence"
                       \/ t = "client" /\ at[t] = "out"
                       \/ t = "tts" /\ at[t] \in {"clear", "cleared", "again"} /\ breakEvent

\* What the threads keep of the sound that is to follow.
Withheld == t2w.buffer \o tts.buffer

\* The threads come to rest only when the client's call has returned and the calm
\* turns have been heard to their end, unless a wake-up has been lost: a decode's
\* request that the LLM thread misses or erases (omni.cpp:11265), or a decode that
\* waits for room while a break clears the queue (omni.cpp:7180).  A turn whose
\* answer ran out (omni.cpp:11389) is never marked as ended; what was said of it is
\* written but for what the threads keep in their buffers.
RestIsSilence ==
    AtRest /\ lost = {} =>
       /\ at["client"] = "out"
       /\ \A n \in Turns : story[n].calm /\ n < turn =>
             \/ Heard(n)
             \/ /\ story[n].cut
                /\ \A i \in DOMAIN Withheld : Withheld[i].turn = n
                /\ [i \in DOMAIN story[n].filed |-> story[n].filed[i][1]]
                      \o [i \in DOMAIN Withheld |-> Withheld[i].no] = story[n].said
=============================================================================
