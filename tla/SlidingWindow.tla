---------------------------- MODULE SlidingWindow ----------------------------
(***************************************************************************)
(* The context of the C++ engine (tools/omni/omni.cpp): the tokens in the  *)
(* KV cache, the length n_past that the code believes it has, and the two  *)
(* mechanisms that evict from it.                                          *)
(*                                                                         *)
(*  - The unit window (sliding_window_enforce) records the length of each  *)
(*    unit it prefills and of each answer it generates, and when the cache *)
(*    has grown beyond the high-water mark it removes the oldest ones, by  *)
(*    unit or by whole turn, from just behind the protected prefix.        *)
(*  - The positional window (kv_cache_slide_window) runs before each       *)
(*    evaluation, knows only the positions at which rounds ended, and      *)
(*    discards what lies between n_keep and one of them.                   *)
(*                                                                         *)
(* Neither tells the other.  One thread at a time works on the context, so *)
(* an action is one call, and the loop of sliding_window_enforce one       *)
(* action per turn of the loop.                                            *)
(***************************************************************************)
EXTENDS Integers, Sequences, FiniteSets, SequencesExt

CONSTANTS
    Modes,          \* sliding_window_mode: some of "off", "basic", "turn"
    NCtx,           \* n_ctx, the capacity of the cache
    Margin,         \* 2048: the positional window opens this far below n_ctx
    HardMargin,     \* 512: from here on it no longer waits for the speaker
    Reserved,       \* 1024: room wanted at the end of a simplex answer
    MaxPreserved,   \* max_preserved_context, what simplex likes to keep
    HighWater, LowWater,   \* the marks of the unit window
    Chunks,         \* how many tokens one evaluation may write
    PromptLen,      \* the length of the system prompt
    MaxUnits, MaxTurns, MaxSessions   \* bounds of the model

ASSUME SizesAssumption ==
    /\ NCtx \in Nat /\ Margin \in Nat /\ HardMargin \in Nat /\ Reserved \in Nat
    /\ MaxPreserved \in Nat \ {0} /\ HighWater \in Int /\ LowWater \in Int
    /\ Chunks \subseteq Nat \ {0} /\ PromptLen \in Nat
    /\ MaxUnits \in Nat /\ MaxTurns \in Nat /\ MaxSessions \in Nat
\* The prompt and the prefix behind it fit before any window opens.
ASSUME PromptAssumption ==
    \A n \in Chunks : PromptLen + n < NCtx - Margin

VARIABLES
    mode, duplex,   \* sliding_window_config.mode, duplex_mode
    kv,             \* the cache: its tokens, n_past, round_start_positions
    nKeep,          \* n_keep
    preserve,       \* system_preserve_length
    units,          \* unit_history
    nextUnit,       \* next_unit_id
    turn,           \* current_turn_id
    start,          \* the cache length when the unit or the answer began
    pc,             \* what the thread that owns the context is doing
    sessions,       \* sessions configured so far
    evictedBy,      \* the windows that have evicted in this session
    carried         \* units of an earlier session were left in the record

recordVars == <<units, nextUnit, turn>>
ghostVars  == <<sessions, carried>>
vars == <<mode, duplex, kv, nKeep, preserve, recordVars, start, pc, ghostVars,
          evictedBy>>

\* A token is known by the id of the unit it belongs to; those of the system
\* prompt, and of the prefix behind it, are Prompt.
Prompt == -1
Token  == {Prompt} \cup Nat
Unit   == [id : Nat, len : Nat, turn : Nat]
Stages == {"fresh", "idle", "unit", "batch", "enforcing", "decode"}

\* s without the positions in (from, to], counted from 0 as the code does.
Cut(s, from, to) == SubSeq(s, 1, from) \o SubSeq(s, to + 1, Len(s))

EmptyCache == [tokens |-> <<>>, past |-> 0, rounds |-> <<>>]

Init ==
    /\ mode \in Modes /\ duplex \in BOOLEAN
    /\ kv = EmptyCache /\ nKeep = 0 /\ preserve = 0
    /\ units = <<>> /\ nextUnit = 0 /\ turn = 0 /\ start = -1
    /\ pc = "fresh" /\ sessions = 1
    /\ evictedBy = {} /\ carried = FALSE

-----------------------------------------------------------------------------
(* The positional window.  An operator takes the cache m and returns the    *)
(* cache it leaves.                                                         *)

\* How much of the recent context duplex wants to keep.
Target == IF NCtx \div 4 > Margin THEN NCtx \div 4 ELSE Margin

\* The boundaries that lie behind end.
Beyond(rounds, end) ==
    FlattenSeq([i \in DOMAIN rounds |-> IF rounds[i] > end THEN <<rounds[i]>> ELSE <<>>])

\* Where the discarded part ends, and the boundaries kept.  Duplex cuts at the
\* first boundary within the target, or at the last but one; with fewer than
\* two boundaries it keeps a tail and forgets them.
DuplexCut(m) ==
    IF Len(m.rounds) < 2
    THEN [end |-> m.past - Target, rounds |-> <<>>]
    ELSE LET last   == Len(m.rounds) - 1
             recent == {i \in 1..last : m.rounds[i] >= m.past - Target}
             end    == m.rounds[IF recent = {} THEN last ELSE Min(recent)]
         IN  [end |-> end, rounds |-> Beyond(m.rounds, end)]

\* Simplex keeps the longest suffix of rounds that fits MaxPreserved (and the
\* last one in any case), or else the second half of what is not protected.
SimplexCut(m) ==
    LET n        == Len(m.rounds)
        Begin(i) == IF i = 1 THEN nKeep ELSE m.rounds[i - 1]
        fitting  == {i \in 1..n : \A j \in i..n :
                                    m.rounds[n] - Begin(j) <= MaxPreserved}
        keep     == IF fitting = {} THEN n ELSE Min(fitting)
        half     == nKeep + (m.past - nKeep) \div 2
    IN  IF n > 0 /\ Begin(keep) > nKeep
        THEN [end |-> Begin(keep), rounds |-> SubSeq(m.rounds, keep, n)]
        ELSE [end |-> half, rounds |-> Beyond(m.rounds, half)]

\* Duplex opens the window early but waits for the speaker to finish (busy: an
\* answer is generated, played, or was the last thing said) while it can.
Opens(m, n, busy) ==
    IF duplex
    THEN /\ m.past + n >= nKeep /\ m.past + n >= NCtx - Margin
         /\ busy => m.past + n >= NCtx - HardMargin
    ELSE m.past + n >= NCtx

SlideCut(m) == IF duplex THEN DuplexCut(m) ELSE SimplexCut(m)

Slides(m, n, busy) ==
    Opens(m, n, busy) /\ SlideCut(m).end \in nKeep + 1 .. NCtx

\* kv_cache_slide_window
Slide(m, n, busy) ==
    LET cut     == SlideCut(m)
        discard == cut.end - nKeep
    IN  IF Slides(m, n, busy)
        THEN [tokens |-> Cut(m.tokens, nKeep, cut.end),
              past   |-> m.past - discard,
              rounds |-> [i \in DOMAIN cut.rounds |-> cut.rounds[i] - discard]]
        ELSE m

\* llama_decode writes n tokens at position n_past.  It refuses a position that
\* does not follow the last one in the cache, and a cache that is full.
Write(m, n, token) ==
    IF m.past = Len(m.tokens) /\ m.past + n <= NCtx
    THEN [m EXCEPT !.tokens = m.tokens \o [i \in 1..n |-> token],
                   !.past   = m.past + n]
    ELSE m

\* eval_tokens, prefill_with_emb
Eval(m, n, busy, token) == Write(Slide(m, n, busy), n, token)

Evicting(window, happens) ==
    evictedBy' = IF happens THEN evictedBy \cup {window} ELSE evictedBy

-----------------------------------------------------------------------------
(* A session: the prompt, then units and answers. *)

\* Fault: the prompt is not registered with the unit window.
PrimeUnregistered(n, protectPrefix) ==
    /\ pc = "fresh"
    /\ LET m == Write(kv, PromptLen, Prompt)
       IN  kv' = IF duplex THEN Write(m, n, Prompt) ELSE m
    /\ nKeep' = IF protectPrefix THEN kv'.past ELSE PromptLen
    /\ pc' = "idle"
    /\ UNCHANGED <<mode, duplex, preserve, recordVars, start, ghostVars, evictedBy>>

\* stream_prefill(index = 0).  n_keep is set before duplex adds its prefix, and
\* again behind it when the prompt came with update_session_config.
Prime(n, protectPrefix) ==
    /\ pc = "fresh"
    /\ LET m == Write(kv, PromptLen, Prompt)
       IN  kv' = IF duplex THEN Write(m, n, Prompt) ELSE m
    /\ preserve' = kv'.past
    /\ nKeep' = IF protectPrefix THEN kv'.past ELSE PromptLen
    /\ pc' = "idle"
    /\ UNCHANGED <<mode, duplex, recordVars, start, ghostVars, evictedBy>>

\* update_session_config empties the cache and forgets the rounds, and leaves
\* the record of units as it is.
Reconfigure(newMode, newDuplex) ==
    /\ pc = "idle" /\ sessions < MaxSessions
    /\ mode' = newMode /\ duplex' = newDuplex
    /\ kv' = EmptyCache /\ nKeep' = 0
    /\ pc' = "fresh" /\ sessions' = sessions + 1
    /\ evictedBy' = {} /\ carried' = (units # <<>>)
    /\ UNCHANGED <<preserve, recordVars, start>>

\* sliding_window_register_unit_start.  Simplex prefills what has queued up in
\* one batch; duplex one packet for each decode.
StartUnit ==
    /\ pc = "idle" \/ (pc = "batch" /\ ~duplex)
    /\ nextUnit < MaxUnits
    /\ start' = IF mode = "off" THEN start ELSE kv.past
    /\ pc' = "unit"
    /\ UNCHANGED <<mode, duplex, kv, nKeep, preserve, recordVars, ghostVars,
                   evictedBy>>

\* One evaluation of the unit: an image, the audio, a marker between them.
Feed(n, busy) ==
    /\ pc = "unit"
    /\ kv' = Eval(kv, n, busy, nextUnit)
    /\ Evicting("position", Slides(kv, n, busy))
    /\ UNCHANGED <<mode, duplex, nKeep, preserve, recordVars, start, pc, ghostVars>>

\* Fault: the length of a unit is recorded whatever it is.
RecordedUnchecked(len, inTurn) ==
    IF mode # "off"
    THEN Append(units, [id |-> nextUnit, len |-> len, turn |-> inTurn])
    ELSE units

Recorded(len, inTurn) ==
    IF mode # "off" /\ len > 0
    THEN Append(units, [id |-> nextUnit, len |-> len, turn |-> inTurn])
    ELSE units

\* sliding_window_register_unit_end
EndUnit ==
    /\ pc = "unit"
    /\ units' = Recorded(kv.past - start, turn)
    /\ nextUnit' = IF mode = "off" THEN nextUnit ELSE nextUnit + 1
    /\ start' = -1 /\ pc' = "batch"
    /\ UNCHANGED <<mode, duplex, kv, nKeep, preserve, turn, ghostVars, evictedBy>>

\* Fault: the beginning of the answer is taken before the last prefill.
StartDecodeEarly ==
    /\ pc = "idle" /\ nextUnit < MaxUnits /\ turn < MaxTurns
    /\ start' = preserve /\ pc' = "decode"
    /\ UNCHANGED <<mode, duplex, kv, nKeep, preserve, recordVars, ghostVars,
                   evictedBy>>

\* stream_decode, duplex_do_decode, up to the first evaluation.
StartDecode ==
    /\ pc = "idle" /\ nextUnit < MaxUnits /\ turn < MaxTurns
    /\ start' = kv.past /\ pc' = "decode"
    /\ UNCHANGED <<mode, duplex, kv, nKeep, preserve, recordVars, ghostVars,
                   evictedBy>>

\* A marker or a sampled token of the answer.
Generate(n) ==
    /\ pc = "decode"
    /\ kv' = Eval(kv, n, TRUE, nextUnit)
    /\ Evicting("position", Slides(kv, n, TRUE))
    /\ UNCHANGED <<mode, duplex, nKeep, preserve, recordVars, start, pc, ghostVars>>

RecordAnswer(len, inTurn) ==
    /\ units' = Recorded(len, inTurn)
    /\ nextUnit' = IF mode # "off" /\ len > 0 THEN nextUnit + 1 ELSE nextUnit
    /\ start' = -1 /\ pc' = "idle"
    /\ UNCHANGED <<mode, duplex, nKeep, preserve, ghostVars>>

AddRound(m) == [m EXCEPT !.rounds = Append(m.rounds, m.past)]

\* The end of a duplex decode: a round, and a turn, ends when the last thing the
\* model said was that it listens.
EndDuplexDecode(listen) ==
    /\ pc = "decode" /\ duplex
    /\ listen => kv.tokens # <<>> /\ Last(kv.tokens) = nextUnit
    /\ RecordAnswer(kv.past - start, turn)
    /\ kv' = IF listen THEN AddRound(kv) ELSE kv
    /\ turn' = IF listen THEN turn + 1 ELSE turn
    /\ UNCHANGED evictedBy

\* The end of a simplex decode makes room, ends the round and the turn, writes
\* the opening of the next user message, and records all that with the answer.
EndSimplexDecode(n) ==
    LET tight == kv.past > NCtx - Reserved
        m     == AddRound(IF tight THEN Slide(kv, Reserved, FALSE) ELSE kv)
    IN  /\ pc = "decode" /\ ~duplex
        /\ kv' = Eval(m, n, FALSE, nextUnit)
        /\ turn' = turn + 1
        /\ RecordAnswer(kv'.past - start, turn + 1)
        /\ Evicting("position", \/ tight /\ Slides(kv, Reserved, FALSE)
                                \/ Slides(m, n, FALSE))

-----------------------------------------------------------------------------
(* The unit window: sliding_window_enforce, after a batch of prefills. *)

\* What sliding_window_drop_tokens_from_cache agrees to drop.
Droppable == 1 .. kv.past - preserve

\* The units of the oldest turn head the record.
OldestTurn == {i \in DOMAIN units : \A j \in 1..i : units[j].turn = units[1].turn}
OldestTurnLength ==
    LET total[i \in 0..Len(units)] ==
            IF i = 0 THEN 0 ELSE total[i - 1] + units[i].len
    IN  total[Cardinality(OldestTurn)]

CanDropTurn ==
    /\ mode = "turn" /\ units # <<>> /\ units[1].turn < turn
    /\ OldestTurnLength \in Droppable

\* Fault: the newest unit goes first.
DropsNewestUnit(i) ==
    /\ i \in DOMAIN units /\ units[i].len \in Droppable
    /\ \A j \in i + 1 .. Len(units) : units[j].len \notin Droppable

\* The oldest unit that can be dropped; one that cannot is passed over.
DropsUnit(i) ==
    /\ i \in DOMAIN units /\ units[i].len \in Droppable
    /\ \A j \in 1..i - 1 : units[j].len \notin Droppable

CanDrop == CanDropTurn \/ \E i \in DOMAIN units : DropsUnit(i)

Trigger ==
    /\ pc = "batch"
    /\ pc' = IF mode # "off" /\ kv.past > HighWater THEN "enforcing" ELSE "idle"
    /\ UNCHANGED <<mode, duplex, kv, nKeep, preserve, recordVars, start, ghostVars,
                   evictedBy>>

\* Fault: the tokens go but n_past stays.
DropTokensOnly(len) ==
    /\ pc = "enforcing" /\ kv.past > LowWater /\ len \in Droppable
    /\ kv' = [tokens |-> Cut(kv.tokens, preserve, preserve + len),
              past   |-> kv.past,
              rounds |-> kv.rounds]
    /\ Evicting("unit", TRUE)
    /\ UNCHANGED <<mode, duplex, nKeep, preserve, nextUnit, turn, start, pc, ghostVars>>

\* sliding_window_drop_tokens_from_cache
DropTokens(len) ==
    /\ pc = "enforcing" /\ kv.past > LowWater /\ len \in Droppable
    /\ kv' = [tokens |-> Cut(kv.tokens, preserve, preserve + len),
              past   |-> kv.past - len,
              rounds |-> kv.rounds]
    /\ Evicting("unit", TRUE)
    /\ UNCHANGED <<mode, duplex, nKeep, preserve, nextUnit, turn, start, pc, ghostVars>>

DropTurn ==
    /\ CanDropTurn
    /\ DropTokens(OldestTurnLength)
    /\ units' = SubSeq(units, Cardinality(OldestTurn) + 1, Len(units))

DropUnit(i) ==
    /\ ~CanDropTurn /\ DropsUnit(i)
    /\ DropTokens(units[i].len)
    /\ units' = RemoveAt(units, i)

EnforceDone ==
    /\ pc = "enforcing" /\ (kv.past > LowWater => ~CanDrop)
    /\ pc' = "idle"
    /\ UNCHANGED <<mode, duplex, kv, nKeep, preserve, recordVars, start, ghostVars,
                   evictedBy>>

\* The client says nothing more.
Quiet == pc = "idle" /\ UNCHANGED vars

Next ==
    \/ \E n \in Chunks, protectPrefix \in BOOLEAN : Prime(n, protectPrefix)
    \/ \E newMode \in Modes, newDuplex \in BOOLEAN : Reconfigure(newMode, newDuplex)
    \/ StartUnit
    \/ \E n \in Chunks, busy \in BOOLEAN : Feed(n, busy)
    \/ EndUnit
    \/ StartDecode
    \/ \E n \in Chunks : Generate(n)
    \/ \E listen \in BOOLEAN : EndDuplexDecode(listen)
    \/ \E n \in Chunks : EndSimplexDecode(n)
    \/ Trigger
    \/ DropTurn
    \/ \E i \in DOMAIN units : DropUnit(i)
    \/ EnforceDone
    \/ Quiet

Spec == Init /\ [][Next]_vars

-----------------------------------------------------------------------------
(* Properties *)

TypeOK ==
    /\ mode \in Modes /\ duplex \in BOOLEAN
    /\ kv \in [tokens : Seq(Token), past : Int, rounds : Seq(Int)]
    /\ nKeep \in Nat /\ preserve \in Nat
    /\ units \in Seq(Unit) /\ nextUnit \in Nat /\ turn \in Nat
    /\ start \in Int /\ pc \in Stages /\ sessions \in Nat
    /\ evictedBy \in SUBSET {"unit", "position"} /\ carried \in BOOLEAN

\* However long a conversation goes on, and whatever the two windows believe,
\* the system prompt stays where it is: omni.cpp calls it the part that is never
\* deleted by the sliding window.
PromptIntact ==
    pc # "fresh" => /\ nKeep <= Len(kv.tokens)
                    /\ \A p \in 1..nKeep : kv.tokens[p] = Prompt

\* The record tells what is in the cache: behind the protected prefix each unit
\* has its tokens, in the order of the record, and nothing else is there.  This
\* is the consistency check that sliding_window_enforce prints, position by
\* position; it presupposes that nobody else has evicted and that the record
\* began with the session.
RecordFits == mode # "off" /\ "position" \notin evictedBy /\ ~carried
Described ==
    [i \in 1..preserve |-> Prompt]
        \o FlattenSeq([i \in DOMAIN units |-> [p \in 1..units[i].len |-> units[i].id]])
RecordDescribesCache ==
    RecordFits /\ pc \in {"idle", "batch", "enforcing"} => kv.tokens = Described

\* llama_decode will find the position it expects: n_past is the length of the
\* cache.  With both windows at work it need not be: evicting units leaves the
\* boundaries of the rounds alone, at which the other window cuts (omni.cpp:3609).
PositionsAgree == kv.past = Len(kv.tokens)
OneWindowKeepsPositions == Cardinality(evictedBy) < 2 => PositionsAgree

\* What is evicted is older than what stays; in turn mode, a turn is cut in two
\* only when it is the one in progress.
EvictsOldestTurns ==
    [][pc = "enforcing" /\ units' # units /\ RecordFits =>
         /\ IsSuffix(units', units)
         /\ mode = "turn" /\ units' # <<>> /\ units'[1].turn = units[1].turn
              => units[1].turn = turn]_vars
=============================================================================
