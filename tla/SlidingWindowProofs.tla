------------------------- MODULE SlidingWindowProofs -------------------------
(***************************************************************************)
(* The properties of SlidingWindow, for contexts, prompts, units and       *)
(* conversations of any length.                                            *)
(*                                                                         *)
(*  - PrefixInv: the prefix that the unit window protects covers that of   *)
(*    the positional one, and n_past may fall behind the end of the cache  *)
(*    (it does, see PositionsAgree) but never runs ahead of it.  So what   *)
(*    either window cuts begins within the cache and behind the prompt,    *)
(*    even at a boundary that has become meaningless.                      *)
(*  - WindowInv: with one window at work n_past is the length of the cache *)
(*    and the boundaries lie within it, so a cut takes from the cache what *)
(*    it takes from n_past.                                                *)
(*  - RecordTypes: no recorded unit is empty or of a turn to come.         *)
(*  - RecordInv: the cache is what the record tells, and while a unit or   *)
(*    an answer is under way, that and some tokens of the unit.            *)
(*                                                                         *)
(* Each rests on those before it.                                          *)
(***************************************************************************)
EXTENDS SlidingWindow, SequenceLemmas, FiniteSetTheorems, TLAPS

\* A cache whose n_past does not run ahead of it, and one with k prompt tokens.
Cached(m) ==
    /\ m = [tokens |-> m.tokens, past |-> m.past, rounds |-> m.rounds]
    /\ m.tokens \in Seq(Token) /\ m.past \in Int
    /\ m.past <= Len(m.tokens)

Prefixed(m, k) == k <= Len(m.tokens) /\ \A p \in 1..k : m.tokens[p] = Prompt

\* The inductive invariant.
PrefixInv ==
    /\ Cached(kv) /\ Prefixed(kv, nKeep)
    /\ nKeep \in Nat /\ preserve \in Nat /\ nextUnit \in Nat
    /\ pc = "fresh" => kv = EmptyCache /\ nKeep = 0
    /\ pc # "fresh" => nKeep <= preserve

-----------------------------------------------------------------------------
(* The operations on a cache. *)

\* Cut removes nothing up to `from`, and no more than it says.
LEMMA CutKeeps ==
    ASSUME NEW s \in Seq(Token), NEW from \in Nat, NEW to \in Int,
           from <= Len(s), from <= to
    PROVE  /\ Cut(s, from, to) \in Seq(Token)
           /\ Len(Cut(s, from, to)) >= from
           /\ Len(Cut(s, from, to)) >= Len(s) - (to - from)
           /\ \A p \in 1..from : Cut(s, from, to)[p] = s[p]
<1> DEFINE a == SubSeq(s, 1, from)
           b == SubSeq(s, to + 1, Len(s))
<1>1. /\ a \in Seq(Token) /\ Len(a) = from
      /\ \A p \in 1..from : a[p] = s[p]
  OBVIOUS
<1>2. b \in Seq(Token) /\ Len(b) >= 0 /\ Len(b) >= Len(s) - to
  <2>1. to + 1 \in Nat /\ Len(s) \in Nat
    OBVIOUS
  <2>2. CASE to < Len(s)
    BY <2>1, <2>2
  <2>3. CASE to >= Len(s)
    BY <2>1, <2>3
  <2> QED BY <2>1, <2>2, <2>3
<1> HIDE DEF a, b
<1>3. /\ a \o b \in Seq(Token)
      /\ Len(a \o b) = Len(a) + Len(b)
      /\ \A p \in 1..Len(a) : (a \o b)[p] = a[p]
  BY <1>1, <1>2
<1>4. Cut(s, from, to) = a \o b
  BY DEF Cut, a, b
<1> QED BY <1>1, <1>2, <1>3, <1>4

\* llama_decode only appends.
LEMMA WriteKeeps ==
    ASSUME NEW m, Cached(m), NEW k \in Nat, Prefixed(m, k),
           NEW n \in Nat, NEW token \in Token
    PROVE  Cached(Write(m, n, token)) /\ Prefixed(Write(m, n, token), k)
<1> DEFINE tail == [i \in 1..n |-> token]
           w    == [tokens |-> m.tokens \o tail, past |-> m.past + n,
                    rounds |-> m.rounds]
<1>1. tail \in Seq(Token) /\ Len(tail) = n
  OBVIOUS
<1> HIDE DEF tail
<1>2. /\ m.tokens \o tail \in Seq(Token)
      /\ Len(m.tokens \o tail) = Len(m.tokens) + n
      /\ \A p \in 1..Len(m.tokens) : (m.tokens \o tail)[p] = m.tokens[p]
  BY <1>1 DEF Cached
<1>3. w.tokens = m.tokens \o tail /\ w.past = m.past + n /\ w.rounds = m.rounds
  OBVIOUS
<1>4. Cached(w)
  BY <1>2, <1>3 DEF Cached
<1>5. Prefixed(w, k)
  BY <1>2, <1>3 DEF Cached, Prefixed
<1>6. Write(m, n, token) \in {m, w}
  BY DEF Write, Cached, tail
<1> QED BY <1>4, <1>5, <1>6

\* The positional window cuts behind n_keep, wherever the cut ends.
LEMMA SlideKeeps ==
    ASSUME NEW m, Cached(m), nKeep \in Nat, Prefixed(m, nKeep), NEW n, NEW busy
    PROVE  Cached(Slide(m, n, busy)) /\ Prefixed(Slide(m, n, busy), nKeep)
<1>1. CASE ~Slides(m, n, busy)
  BY <1>1 DEF Slide
<1>2. CASE Slides(m, n, busy)
  <2> DEFINE end == SlideCut(m).end
             moved == Slide(m, n, busy).rounds
             w == [tokens |-> Cut(m.tokens, nKeep, end),
                   past |-> m.past - (end - nKeep), rounds |-> moved]
  <2>1. end \in Int /\ nKeep <= end
    BY <1>2, SizesAssumption DEF Slides
  <2>2. Slide(m, n, busy) = w
    BY <1>2 DEF Slide
  <2> HIDE DEF end, moved
  <2>3. /\ Cut(m.tokens, nKeep, end) \in Seq(Token)
        /\ Len(Cut(m.tokens, nKeep, end)) >= nKeep
        /\ Len(Cut(m.tokens, nKeep, end)) >= Len(m.tokens) - (end - nKeep)
        /\ \A p \in 1..nKeep : Cut(m.tokens, nKeep, end)[p] = m.tokens[p]
    BY <2>1, CutKeeps DEF Cached, Prefixed
  <2>4. /\ w.tokens = Cut(m.tokens, nKeep, end)
        /\ w.past = m.past - (end - nKeep) /\ w.rounds = moved
    OBVIOUS
  <2>5. Cached(w)
    <3>1. w.past \in Int /\ w.past <= Len(w.tokens)
      BY <2>1, <2>3, <2>4 DEF Cached
    <3> QED BY <2>3, <2>4, <3>1 DEF Cached
  <2>6. Prefixed(w, nKeep)
    BY <2>3, <2>4 DEF Prefixed
  <2> QED BY <2>2, <2>5, <2>6
<1> QED BY <1>1, <1>2

LEMMA EvalKeeps ==
    ASSUME NEW m, Cached(m), nKeep \in Nat, Prefixed(m, nKeep),
           NEW n \in Nat, NEW busy, NEW token \in Token
    PROVE  Cached(Eval(m, n, busy, token)) /\ Prefixed(Eval(m, n, busy, token), nKeep)
<1> DEFINE s == Slide(m, n, busy)
<1>1. Cached(s) /\ Prefixed(s, nKeep)
  BY SlideKeeps
<1> HIDE DEF s
<1>2. Cached(Write(s, n, token)) /\ Prefixed(Write(s, n, token), nKeep)
  BY <1>1, WriteKeeps
<1> QED BY <1>2 DEF Eval, s

LEMMA AddRoundKeeps ==
    ASSUME NEW m, Cached(m), NEW k, Prefixed(m, k)
    PROVE  Cached(AddRound(m)) /\ Prefixed(AddRound(m), k)
<1> DEFINE r == [tokens |-> m.tokens, past |-> m.past,
                 rounds |-> Append(m.rounds, m.past)]
<1>1. AddRound(m) = r
  <2> DEFINE c == [tokens |-> m.tokens, past |-> m.past, rounds |-> m.rounds]
             l == Append(m.rounds, m.past)
  <2>1. AddRound(m) = [c EXCEPT !.rounds = l]
    BY DEF AddRound, Cached
  <2> HIDE DEF l
  <2>2. [c EXCEPT !.rounds = l] = [tokens |-> m.tokens, past |-> m.past, rounds |-> l]
    OBVIOUS
  <2> QED BY <2>1, <2>2 DEF l
<1>2. /\ r.tokens = m.tokens /\ r.past = m.past
      /\ r = [tokens |-> r.tokens, past |-> r.past, rounds |-> r.rounds]
  OBVIOUS
<1> HIDE DEF r
<1> QED BY <1>1, <1>2 DEF Cached, Prefixed

-----------------------------------------------------------------------------
(* The invariant. *)

LEMMA PrefixInit == Init => PrefixInv
BY SizesAssumption DEF Init, PrefixInv, EmptyCache, Cached, Prefixed, Token

\* The prompt is the first thing in an empty cache.
LEMMA PrimeWrites ==
    ASSUME PrefixInv, NEW n \in Chunks, NEW protectPrefix \in BOOLEAN,
           Prime(n, protectPrefix)
    PROVE  /\ Cached(kv') /\ kv'.past = Len(kv'.tokens)
           /\ kv'.past \in Nat /\ PromptLen <= kv'.past
           /\ \A p \in 1..Len(kv'.tokens) : kv'.tokens[p] = Prompt
<1> USE SizesAssumption
<1>1. n \in Nat /\ PromptLen + n <= NCtx
  BY PromptAssumption
<1>2. Prompt \in Token
  BY DEF Token
<1>3. kv = EmptyCache /\ kv.tokens = <<>> /\ kv.past = 0 /\ Cached(kv)
  BY DEF PrefixInv, Prime, EmptyCache
<1> DEFINE p1 == [i \in 1..PromptLen |-> Prompt]
           p2 == [i \in 1..n |-> Prompt]
           m  == [tokens |-> p1, past |-> PromptLen, rounds |-> <<>>]
           m2 == [tokens |-> p1 \o p2, past |-> PromptLen + n, rounds |-> <<>>]
<1>4. p1 \in Seq(Token) /\ Len(p1) = PromptLen /\ p2 \in Seq(Token) /\ Len(p2) = n
  BY <1>1, <1>2
<1>5. Write(kv, PromptLen, Prompt) = m
  <2>1. <<>> \o p1 = p1
    BY <1>4
  <2>2. 0 = Len(<<>>) /\ 0 + PromptLen = PromptLen /\ PromptLen <= NCtx
    BY <1>1
  <2> QED BY <1>3, <2>1, <2>2 DEF Write, EmptyCache
<1>6. Write(m, n, Prompt) = m2
  BY <1>1, <1>4 DEF Write
<1>7. kv' \in {m, m2}
  BY <1>5, <1>6 DEF Prime
<1>8. /\ p1 \o p2 \in Seq(Token) /\ Len(p1 \o p2) = PromptLen + n
      /\ \A p \in 1..PromptLen + n : (p1 \o p2)[p] = Prompt
  BY <1>1, <1>4
<1>9. /\ Cached(m) /\ m.past = Len(m.tokens) /\ m.past = PromptLen
      /\ \A p \in 1..Len(m.tokens) : m.tokens[p] = Prompt
  BY <1>1, <1>4 DEF Cached
<1>10. /\ Cached(m2) /\ m2.past = Len(m2.tokens) /\ m2.past = PromptLen + n
       /\ \A p \in 1..Len(m2.tokens) : m2.tokens[p] = Prompt
  <2> HIDE DEF p1, p2
  <2> QED BY <1>1, <1>8 DEF Cached
<1> HIDE DEF p1, p2, m, m2
<1>11. CASE kv' = m
  <2>1. m.past \in Nat /\ PromptLen <= m.past
    BY <1>9
  <2> QED BY <1>11, <2>1, <1>9, Zenon
<1>12. CASE kv' = m2
  <2>1. m2.past \in Nat /\ PromptLen <= m2.past
    BY <1>1, <1>10
  <2> QED BY <1>12, <2>1, <1>10, Zenon
<1> QED BY <1>7, <1>11, <1>12

LEMMA PrimeKeeps ==
    ASSUME PrefixInv, NEW n \in Chunks, NEW protectPrefix \in BOOLEAN,
           Prime(n, protectPrefix)
    PROVE  PrefixInv'
<1> USE SizesAssumption
<1>1. /\ Cached(kv') /\ kv'.past = Len(kv'.tokens)
       /\ kv'.past \in Nat /\ PromptLen <= kv'.past
       /\ \A p \in 1..Len(kv'.tokens) : kv'.tokens[p] = Prompt
  BY PrimeWrites
<1>2. nKeep' \in Nat /\ nKeep' <= kv'.past /\ preserve' = kv'.past
  BY <1>1 DEF Prime
<1>3. Prefixed(kv', nKeep')
  BY <1>1, <1>2 DEF Prefixed
<1> QED BY <1>1, <1>2, <1>3 DEF PrefixInv, Prime, recordVars, Cached, Prefixed

LEMMA DropKeeps ==
    ASSUME PrefixInv, NEW len, DropTokens(len)
    PROVE  PrefixInv'
<1> DEFINE c == Cut(kv.tokens, preserve, preserve + len)
<1>1. len \in Int /\ 1 <= len /\ preserve + len <= kv.past
  BY DEF PrefixInv, Cached, DropTokens, Droppable
<1>2. /\ c \in Seq(Token) /\ Len(c) >= preserve
      /\ Len(c) >= Len(kv.tokens) - ((preserve + len) - preserve)
      /\ \A p \in 1..preserve : c[p] = kv.tokens[p]
  <2>1. preserve + len \in Int /\ preserve <= Len(kv.tokens) /\ preserve <= preserve + len
    BY <1>1 DEF PrefixInv, Cached
  <2> QED BY <2>1, CutKeeps DEF PrefixInv, Cached
<1> HIDE DEF c
<1>3. kv' = [tokens |-> c, past |-> kv.past - len, rounds |-> kv.rounds]
  BY DEF DropTokens, c
<1>4. /\ kv'.tokens = c /\ kv'.past = kv.past - len
      /\ kv' = [tokens |-> kv'.tokens, past |-> kv'.past, rounds |-> kv'.rounds]
  BY <1>3
<1>5. pc = "enforcing" /\ UNCHANGED <<nKeep, preserve, nextUnit, pc>>
  BY DEF DropTokens
<1>6. Len(c) \in Nat /\ Len(kv.tokens) \in Nat
  BY <1>2 DEF PrefixInv, Cached
<1>7. Cached(kv)'
  BY <1>1, <1>2, <1>4, <1>6 DEF PrefixInv, Cached
<1>8. Prefixed(kv, nKeep)'
  BY <1>2, <1>4, <1>5, <1>6 DEF PrefixInv, Prefixed
<1> QED BY <1>5, <1>7, <1>8 DEF PrefixInv

LEMMA PrefixStep == PrefixInv /\ [Next]_vars => PrefixInv'
<1> SUFFICES ASSUME PrefixInv, [Next]_vars PROVE PrefixInv'
  OBVIOUS
<1> USE SizesAssumption
<1>0. ASSUME UNCHANGED <<kv, nKeep, preserve>>, nextUnit' \in Nat,
             pc # "fresh", pc' # "fresh"
      PROVE  PrefixInv'
  BY <1>0 DEF PrefixInv, Cached, Prefixed
<1>1. CASE UNCHANGED vars
  BY <1>1 DEF PrefixInv, Cached, Prefixed, vars, recordVars
<1>2. ASSUME NEW n \in Chunks, NEW protectPrefix \in BOOLEAN, Prime(n, protectPrefix)
      PROVE  PrefixInv'
  BY <1>2, PrimeKeeps
<1>3. ASSUME NEW newMode \in Modes, NEW newDuplex \in BOOLEAN,
             Reconfigure(newMode, newDuplex)
      PROVE  PrefixInv'
  <2>1. /\ kv' = EmptyCache /\ nKeep' = 0 /\ pc' = "fresh"
        /\ UNCHANGED <<preserve, nextUnit>>
    BY <1>3 DEF Reconfigure, recordVars
  <2>2. Cached(EmptyCache) /\ Prefixed(EmptyCache, 0)
    BY DEF EmptyCache, Cached, Prefixed
  <2>3. Cached(kv)' /\ Prefixed(kv, nKeep)'
    BY <2>1, <2>2 DEF Cached, Prefixed
  <2> QED BY <2>1, <2>3 DEF PrefixInv
<1>4. CASE StartUnit
  BY <1>0, <1>4 DEF StartUnit, PrefixInv, recordVars
<1>5. ASSUME NEW n \in Chunks, NEW busy \in BOOLEAN, Feed(n, busy) PROVE PrefixInv'
  <2>1. n \in Nat /\ nextUnit \in Token
    BY DEF PrefixInv, Token
  <2>2. Cached(kv') /\ Prefixed(kv', nKeep)
    BY <1>5, <2>1, EvalKeeps DEF Feed, PrefixInv
  <2> QED BY <1>5, <2>2 DEF Feed, PrefixInv, recordVars, Cached, Prefixed
<1>6. CASE EndUnit
  <2>1. nextUnit' \in Nat
    BY <1>6 DEF EndUnit, PrefixInv
  <2>2. UNCHANGED <<kv, nKeep, preserve>> /\ pc # "fresh" /\ pc' # "fresh"
    BY <1>6 DEF EndUnit
  <2> QED BY <1>0, <2>1, <2>2
<1>7. CASE StartDecode
  BY <1>0, <1>7 DEF StartDecode, PrefixInv, recordVars
<1>8. ASSUME NEW n \in Chunks, Generate(n) PROVE PrefixInv'
  <2>1. n \in Nat /\ nextUnit \in Token
    BY DEF PrefixInv, Token
  <2>2. Cached(kv') /\ Prefixed(kv', nKeep)
    BY <1>8, <2>1, EvalKeeps DEF Generate, PrefixInv
  <2> QED BY <1>8, <2>2 DEF Generate, PrefixInv, recordVars, Cached, Prefixed
<1>9. ASSUME NEW listen \in BOOLEAN, EndDuplexDecode(listen) PROVE PrefixInv'
  <2>1. Cached(AddRound(kv)) /\ Prefixed(AddRound(kv), nKeep)
    BY AddRoundKeeps DEF PrefixInv
  <2>2. Cached(kv') /\ Prefixed(kv', nKeep)
    BY <1>9, <2>1 DEF EndDuplexDecode, PrefixInv
  <2>3. /\ pc = "decode" /\ pc' = "idle" /\ UNCHANGED <<nKeep, preserve>>
        /\ nextUnit' \in Nat
    BY <1>9 DEF EndDuplexDecode, RecordAnswer, PrefixInv
  <2> QED BY <2>2, <2>3 DEF PrefixInv, Cached, Prefixed
<1>10. ASSUME NEW n \in Chunks, EndSimplexDecode(n) PROVE PrefixInv'
  <2>1. n \in Nat /\ nextUnit \in Token
    BY DEF PrefixInv, Token
  <2> DEFINE room == IF kv.past > NCtx - Reserved THEN Slide(kv, Reserved, FALSE) ELSE kv
  <2>2. Cached(room) /\ Prefixed(room, nKeep)
    BY SlideKeeps DEF PrefixInv
  <2> HIDE DEF room
  <2>3. Cached(AddRound(room)) /\ Prefixed(AddRound(room), nKeep)
    BY <2>2, AddRoundKeeps
  <2>4. kv' = Eval(AddRound(room), n, FALSE, nextUnit)
    BY <1>10 DEF EndSimplexDecode, room
  <2>5. nKeep \in Nat
    BY DEF PrefixInv
  <2>6. Cached(kv') /\ Prefixed(kv', nKeep)
    BY <2>1, <2>3, <2>4, <2>5, EvalKeeps
  <2>7. pc = "decode" /\ RecordAnswer(kv'.past - start, turn + 1)
    BY <1>10 DEF EndSimplexDecode
  <2>8. pc' = "idle" /\ UNCHANGED <<nKeep, preserve>>
    BY <2>7 DEF RecordAnswer
  <2>9. nextUnit' \in {nextUnit, nextUnit + 1}
    BY <2>7, Zenon DEF RecordAnswer
  <2>10. nextUnit' \in Nat
    BY <2>9 DEF PrefixInv
  <2> QED BY <2>6, <2>7, <2>8, <2>10 DEF PrefixInv, Cached, Prefixed
<1>11. CASE Trigger
  BY <1>0, <1>11 DEF Trigger, PrefixInv, recordVars
<1>12. CASE DropTurn
  BY <1>12, DropKeeps DEF DropTurn
<1>13. ASSUME NEW i \in DOMAIN units, DropUnit(i) PROVE PrefixInv'
  BY <1>13, DropKeeps DEF DropUnit
<1>14. CASE EnforceDone
  BY <1>0, <1>14 DEF EnforceDone, PrefixInv, recordVars
<1>15. CASE Quiet
  BY <1>1, <1>15 DEF Quiet
<1> QED
  BY <1>1, <1>2, <1>3, <1>4, <1>5, <1>6, <1>7, <1>8, <1>9, <1>10, <1>11, <1>12,
     <1>13, <1>14, <1>15 DEF Next

\* However long the conversation, and whatever the two eviction mechanisms of
\* omni.cpp believe about the positions in the cache, what they remove and move
\* lies behind the system prompt.
THEOREM PromptSurvives == Spec => []PromptIntact
<1>1. PrefixInv => PromptIntact
  BY DEF PrefixInv, Prefixed, PromptIntact
<1> QED BY PrefixInit, PrefixStep, <1>1, PTL DEF Spec

-----------------------------------------------------------------------------
(* Either window by itself.  The boundaries of the rounds lie within n_past    *)
(* until the unit window evicts, and a cut that ends within the cache takes    *)
(* from it what it takes from n_past.                                          *)

Straight(m) == m.past = Len(m.tokens)
Rounds(m, S) == m.rounds \in Seq(S)
UpTo(p) == {q \in Int : q <= p}

LEMMA LeastOf ==
    ASSUME NEW S, S \in SUBSET Nat, S # {}
    PROVE  Min(S) \in S
<1>1. \E x \in S : \A y \in S : x <= y
  BY LeastNumber
<1> QED BY <1>1 DEF Min

LEMMA BeyondType ==
    ASSUME NEW S, NEW rounds \in Seq(S), NEW end
    PROVE  Beyond(rounds, end) \in Seq(S)
<1> DEFINE parts == [i \in DOMAIN rounds |-> IF rounds[i] > end THEN <<rounds[i]>> ELSE <<>>]
<1>1. DOMAIN rounds = 1..Len(rounds) /\ Len(rounds) \in Nat
  OBVIOUS
<1>2. \A i \in 1..Len(rounds) : rounds[i] \in S
  OBVIOUS
<1>3. \A i \in 1..Len(rounds) : parts[i] \in Seq(S)
  <2> TAKE i \in 1..Len(rounds)
  <2>1. <<rounds[i]>> \in Seq(S) /\ <<>> \in Seq(S)
    BY <1>2
  <2>2. parts[i] \in {<<rounds[i]>>, <<>>}
    BY <1>1
  <2> QED BY <2>1, <2>2
<1>4. parts \in [1..Len(rounds) -> Seq(S)]
  BY <1>1, <1>3
<1>5. parts \in Seq(Seq(S))
  <2> HIDE DEF parts
  <2> QED BY <1>1, <1>4
<1> HIDE DEF parts
<1>6. FlattenSeq(parts) \in Seq(S)
  BY <1>5, FlattenType
<1> QED BY <1>6 DEF Beyond, parts

\* A cut ends at a boundary, or within n_past, and keeps boundaries.
LEMMA CutReaches ==
    ASSUME NEW m, NEW S \in SUBSET Int, Cached(m), Rounds(m, S), nKeep \in Nat
    PROVE  /\ Rounds(SlideCut(m), S)
           /\ SlideCut(m).end \in Int
           /\ S \subseteq UpTo(m.past) /\ nKeep <= m.past => SlideCut(m).end <= m.past
<1> DEFINE n == Len(m.rounds)
<1>1. n \in Nat /\ \A i \in 1..n : m.rounds[i] \in S
  BY DEF Rounds
<1>2. m.past \in Int /\ \A i \in 1..n : m.rounds[i] \in Int
  BY <1>1 DEF Cached
<1>3. S \subseteq UpTo(m.past) => \A i \in 1..n : m.rounds[i] <= m.past
  BY <1>1 DEF UpTo
<1>4. CASE duplex
  <2>0. SlideCut(m) = DuplexCut(m)
    BY <1>4 DEF SlideCut
  <2>1. CASE n < 2
    <3>1. DuplexCut(m) = [end |-> m.past - Target, rounds |-> <<>>]
      BY <2>1 DEF DuplexCut
    <3>2. Target \in Nat
      BY SizesAssumption DEF Target
    <3>3. <<>> \in Seq(S)
      OBVIOUS
    <3> QED BY <1>2, <2>0, <3>1, <3>2, <3>3 DEF Rounds
  <2>2. CASE ~(n < 2)
    <3> DEFINE last   == n - 1
               recent == {i \in 1..last : m.rounds[i] >= m.past - Target}
               k      == IF recent = {} THEN last ELSE Min(recent)
    <3>1. k \in 1..n
      <4>1. last \in 1..n
        BY <1>1, <2>2
      <4>2. recent # {} => Min(recent) \in recent
        <5> recent \in SUBSET Nat
          OBVIOUS
        <5> HIDE DEF recent
        <5> QED BY LeastOf
      <4> QED BY <1>1, <4>1, <4>2
    <3>2. DuplexCut(m) = [end |-> m.rounds[k], rounds |-> Beyond(m.rounds, m.rounds[k])]
      BY <2>2 DEF DuplexCut
    <3> HIDE DEF k
    <3>3. Beyond(m.rounds, m.rounds[k]) \in Seq(S)
      BY BeyondType DEF Rounds
    <3>4. m.rounds[k] \in Int /\ (S \subseteq UpTo(m.past) => m.rounds[k] <= m.past)
      BY <1>2, <1>3, <3>1
    <3>5. /\ SlideCut(m).end = m.rounds[k]
          /\ SlideCut(m).rounds = Beyond(m.rounds, m.rounds[k])
      BY <2>0, <3>2
    <3> QED BY <3>3, <3>4, <3>5 DEF Rounds
  <2> QED BY <2>1, <2>2
<1>5. CASE ~duplex
  <2> DEFINE Begin(i) == IF i = 1 THEN nKeep ELSE m.rounds[i - 1]
             fitting  == {i \in 1..n : \A j \in i..n : m.rounds[n] - Begin(j) <= MaxPreserved}
             keep     == IF fitting = {} THEN n ELSE Min(fitting)
             half     == nKeep + (m.past - nKeep) \div 2
             atRound  == [end |-> Begin(keep), rounds |-> SubSeq(m.rounds, keep, n)]
             inHalf   == [end |-> half, rounds |-> Beyond(m.rounds, half)]
  <2>1. SlideCut(m) = IF n > 0 /\ Begin(keep) > nKeep THEN atRound ELSE inHalf
    BY <1>5 DEF SlideCut, SimplexCut
  <2>2. /\ half \in Int /\ (nKeep <= m.past => half <= m.past)
        /\ Beyond(m.rounds, half) \in Seq(S)
    <3>1. half \in Int /\ (nKeep <= m.past => half <= m.past)
      BY <1>2
    <3> QED BY <3>1, BeyondType DEF Rounds
  <2>3. ASSUME n > 0
        PROVE  /\ Begin(keep) \in Int
               /\ S \subseteq UpTo(m.past) /\ nKeep <= m.past => Begin(keep) <= m.past
               /\ SubSeq(m.rounds, keep, n) \in Seq(S)
    <3>1. keep \in 1..n
      <4>1. fitting # {} => Min(fitting) \in fitting
        <5> fitting \in SUBSET Nat
          OBVIOUS
        <5> HIDE DEF fitting
        <5> QED BY LeastOf
      <4> QED BY <1>1, <2>3, <4>1
    <3> HIDE DEF keep
    <3>2. keep # 1 => keep - 1 \in 1..n
      BY <1>1, <3>1
    <3>3. SubSeq(m.rounds, keep, n) \in Seq(S)
      BY <1>1, <3>1 DEF Rounds
    <3> QED BY <1>2, <1>3, <3>2, <3>3
  <2> HIDE DEF Begin, keep, half
  <2>4. /\ atRound.end = Begin(keep) /\ atRound.rounds = SubSeq(m.rounds, keep, n)
        /\ inHalf.end = half /\ inHalf.rounds = Beyond(m.rounds, half)
    OBVIOUS
  <2> HIDE DEF atRound, inHalf
  <2>5. CASE n > 0 /\ Begin(keep) > nKeep
    <3>1. SlideCut(m) = atRound
      BY <2>1, <2>5
    <3> QED BY <2>3, <2>4, <2>5, <3>1 DEF Rounds
  <2>6. CASE ~(n > 0 /\ Begin(keep) > nKeep)
    <3>1. SlideCut(m) = inHalf
      BY <2>1, <2>6
    <3> QED BY <2>2, <2>4, <3>1 DEF Rounds
  <2> QED BY <2>5, <2>6
<1> QED BY <1>4, <1>5

\* A cut within a sequence removes what lies between its ends.
LEMMA CutRemoves ==
    ASSUME NEW S, NEW a \in Seq(S), NEW b \in Seq(S), NEW c \in Seq(S)
    PROVE  /\ Cut((a \o b) \o c, Len(a), Len(a) + Len(b)) = a \o c
           /\ Len(a \o c) = Len(a) + Len(c)
<1> DEFINE s == (a \o b) \o c
           k == Len(a)
           l == Len(a) + Len(b)
           n == Len(a) + Len(b) + Len(c)
<1>1. Len(a) \in Nat /\ Len(b) \in Nat /\ Len(c) \in Nat
  OBVIOUS
<1>2. s \in Seq(S) /\ Len(s) = n
  OBVIOUS
<1>3. \A p \in 1..n : s[p] = IF p <= k THEN a[p] ELSE IF p <= l THEN b[p - k] ELSE c[p - l]
  <2>1. a \o b \in Seq(S) /\ Len(a \o b) = l
    OBVIOUS
  <2>2. \A p \in 1..l : (a \o b)[p] = IF p <= k THEN a[p] ELSE b[p - k]
    BY <1>1
  <2>3. \A p \in 1..n : s[p] = IF p <= l THEN (a \o b)[p] ELSE c[p - l]
    <3> DEFINE ab == a \o b
    <3> HIDE DEF ab
    <3>1. ab \in Seq(S) /\ Len(ab) = l
      BY <2>1 DEF ab
    <3>2. \A p \in 1..n : (ab \o c)[p] = IF p <= l THEN ab[p] ELSE c[p - l]
      BY <1>1, <3>1
    <3> QED BY <3>2 DEF ab
  <2> QED BY <1>1, <2>2, <2>3
<1> HIDE DEF s
<1>4. SubSeq(s, 1, k) = a
  <2>1. SubSeq(s, 1, k) \in Seq(S) /\ Len(SubSeq(s, 1, k)) = k
    BY <1>1, <1>2
  <2>2. \A p \in 1..k : SubSeq(s, 1, k)[p] = a[p]
    BY <1>1, <1>2, <1>3
  <2> QED BY <2>1, <2>2
<1>5. SubSeq(s, l + 1, Len(s)) = c
  <2>1. SubSeq(s, l + 1, n) \in Seq(S) /\ Len(SubSeq(s, l + 1, n)) = Len(c)
    BY <1>1, <1>2
  <2>2. \A p \in 1..Len(c) : SubSeq(s, l + 1, n)[p] = s[l + p]
    BY <1>1, <1>2
  <2>3. \A p \in 1..Len(c) : s[l + p] = c[p]
    <3> TAKE p \in 1..Len(c)
    <3>1. l + p \in 1..n /\ ~(l + p <= k) /\ ~(l + p <= l) /\ (l + p) - l = p
      BY <1>1
    <3> HIDE DEF k, l, n
    <3> QED BY <1>3, <3>1
  <2> DEFINE r == SubSeq(s, l + 1, n)
  <2>4. \A p \in 1..Len(c) : r[p] = c[p]
    BY <2>2, <2>3
  <2>5. r \in Seq(S) /\ Len(r) = Len(c)
    BY <2>1
  <2> HIDE DEF r
  <2>6. r = c
    BY <2>4, <2>5
  <2> QED BY <1>2, <2>6 DEF r
<1>6. Len(a \o c) = Len(a) + Len(c)
  OBVIOUS
<1> QED BY <1>4, <1>5, <1>6 DEF Cut, s

LEMMA CutLength ==
    ASSUME NEW s \in Seq(Token), NEW from \in Nat, NEW to \in Int,
           from <= to, to <= Len(s)
    PROVE  Len(Cut(s, from, to)) = Len(s) - (to - from)
<1> DEFINE a == SubSeq(s, 1, from)
           b == SubSeq(s, to + 1, Len(s))
<1>1. Len(s) \in Nat
  OBVIOUS
<1>2. a \in Seq(Token) /\ Len(a) = from
  BY <1>1
<1>3. b \in Seq(Token) /\ Len(b) = Len(s) - to
  BY <1>1
<1> HIDE DEF a, b
<1>4. Len(a \o b) = Len(a) + Len(b)
  BY <1>2, <1>3
<1>5. Cut(s, from, to) = a \o b
  BY DEF Cut, a, b
<1> QED BY <1>1, <1>2, <1>3, <1>4, <1>5

LEMMA SequenceWithin ==
    ASSUME NEW S, NEW T, S \subseteq T, NEW s \in Seq(S)
    PROVE  s \in Seq(T)
<1>1. Len(s) \in Nat /\ DOMAIN s = 1..Len(s) /\ \A i \in 1..Len(s) : s[i] \in S
  OBVIOUS
<1>2. s \in [1..Len(s) -> T]
  BY <1>1
<1> QED BY <1>1, <1>2

\* What is kept of the boundaries moves down with what lies behind the cut.
LEMMA SlideRounds ==
    ASSUME NEW m, NEW S \in SUBSET Int, Cached(m), Rounds(m, S), nKeep \in Nat,
           Prefixed(m, nKeep), NEW n, NEW busy
    PROVE  /\ Slide(m, n, busy).rounds \in Seq(Int)
           /\ Straight(m) /\ S \subseteq UpTo(m.past)
                => /\ Straight(Slide(m, n, busy))
                   /\ Rounds(Slide(m, n, busy), UpTo(Slide(m, n, busy).past))
<1>1. CASE ~Slides(m, n, busy)
  <2>1. Slide(m, n, busy) = m
    BY <1>1 DEF Slide
  <2>2. m.rounds \in Seq(Int)
    BY SequenceWithin DEF Rounds
  <2>3. S \subseteq UpTo(m.past) => m.rounds \in Seq(UpTo(m.past))
    BY SequenceWithin DEF Rounds
  <2> QED BY <2>1, <2>2, <2>3 DEF Rounds
<1>2. CASE Slides(m, n, busy)
  <2> DEFINE end   == SlideCut(m).end
             kept  == SlideCut(m).rounds
             moved == [i \in DOMAIN kept |-> kept[i] - (end - nKeep)]
             w == [tokens |-> Cut(m.tokens, nKeep, end),
                   past |-> m.past - (end - nKeep), rounds |-> moved]
  <2>1. end \in Int /\ nKeep <= end /\ kept \in Seq(S)
    BY <1>2, CutReaches DEF Slides, Rounds
  <2>2. Slide(m, n, busy) = w
    BY <1>2 DEF Slide
  <2>3. Straight(m) /\ S \subseteq UpTo(m.past) => end <= m.past
    BY CutReaches DEF Straight, Prefixed
  <2> HIDE DEF end, kept
  <2>4. ASSUME NEW T, \A q \in S : q - (end - nKeep) \in T PROVE moved \in Seq(T)
    <3>1. DOMAIN kept = 1..Len(kept) /\ Len(kept) \in Nat /\ \A i \in 1..Len(kept) : kept[i] \in S
      BY <2>1
    <3>2. moved \in [1..Len(kept) -> T]
      BY <2>4, <3>1
    <3> HIDE DEF moved
    <3> QED BY <3>1, <3>2
  <2>5. \A q \in S : q \in Int /\ q - (end - nKeep) \in Int
    BY <2>1
  <2>6. moved \in Seq(Int)
    BY <2>4, <2>5
  <2> HIDE DEF moved
  <2>7. /\ w.tokens = Cut(m.tokens, nKeep, end)
        /\ w.past = m.past - (end - nKeep) /\ w.rounds = moved
    OBVIOUS
  <2>8. ASSUME Straight(m), S \subseteq UpTo(m.past) PROVE Straight(w) /\ Rounds(w, UpTo(w.past))
    <3>1. Len(w.tokens) = Len(m.tokens) - (end - nKeep)
      BY <2>1, <2>3, <2>7, <2>8, CutLength DEF Cached, Straight
    <3>2. Straight(w)
      BY <2>7, <2>8, <3>1 DEF Straight
    <3>3. \A q \in S : q - (end - nKeep) \in UpTo(w.past)
      BY <2>1, <2>5, <2>7, <2>8 DEF UpTo, Cached
    <3>4. moved \in Seq(UpTo(w.past))
      BY <2>4, <3>3
    <3> QED BY <2>7, <3>2, <3>4 DEF Rounds
  <2> QED BY <2>2, <2>6, <2>7, <2>8
<1> QED BY <1>1, <1>2

LEMMA WriteRounds ==
    ASSUME NEW m, Cached(m), NEW n \in Nat, NEW token \in Token
    PROVE  /\ Write(m, n, token).rounds = m.rounds
           /\ Straight(m) => Straight(Write(m, n, token))
           /\ Write(m, n, token).past \in Int /\ m.past <= Write(m, n, token).past
<1> DEFINE tail == [i \in 1..n |-> token]
           w    == [tokens |-> m.tokens \o tail, past |-> m.past + n,
                    rounds |-> m.rounds]
<1>1. tail \in Seq(Token) /\ Len(tail) = n
  OBVIOUS
<1> HIDE DEF tail
<1>2. Len(m.tokens \o tail) = Len(m.tokens) + n /\ m.past \in Int /\ Len(m.tokens) \in Nat
  BY <1>1 DEF Cached
<1>3. w.tokens = m.tokens \o tail /\ w.past = m.past + n /\ w.rounds = m.rounds
  OBVIOUS
<1>4. Write(m, n, token) \in {m, w}
  BY DEF Write, Cached, tail
<1>5. Straight(m) => Straight(w)
  BY <1>2, <1>3 DEF Straight
<1> HIDE DEF w
<1> QED BY <1>2, <1>3, <1>4, <1>5

OneWindow == "unit" \notin evictedBy \/ "position" \notin evictedBy

\* The inductive invariant.  n_past and the cache agree until both windows have
\* evicted, and the boundaries lie within it until the unit window has.
WindowInv ==
    /\ evictedBy \subseteq {"unit", "position"}
    /\ Rounds(kv, Int)
    /\ OneWindow => Straight(kv)
    /\ "unit" \notin evictedBy => Rounds(kv, UpTo(kv.past))

\* A cache that the positional window has been over.
Agrees(m, slid) ==
    /\ Rounds(m, Int)
    /\ "unit" \notin evictedBy \/ ("position" \notin evictedBy /\ ~slid) => Straight(m)
    /\ "unit" \notin evictedBy => Rounds(m, UpTo(m.past))

LEMMA UpToGrows ==
    ASSUME NEW p \in Int, NEW q \in Int, p <= q
    PROVE  UpTo(p) \subseteq UpTo(q) /\ UpTo(p) \in SUBSET Int
  BY DEF UpTo

LEMMA SlideAgrees ==
    ASSUME NEW m, NEW slid, Cached(m), nKeep \in Nat, Prefixed(m, nKeep),
           Agrees(m, slid), NEW n, NEW busy
    PROVE  Agrees(Slide(m, n, busy), slid \/ Slides(m, n, busy))
<1> DEFINE s == Slide(m, n, busy)
<1>1. s.rounds \in Seq(Int)
  BY SlideRounds DEF Agrees
<1>2. "unit" \notin evictedBy => Straight(s) /\ Rounds(s, UpTo(s.past))
  <2>1. m.past \in Int /\ UpTo(m.past) \in SUBSET Int
    BY DEF Cached, UpTo
  <2>2. ASSUME "unit" \notin evictedBy PROVE Straight(s) /\ Rounds(s, UpTo(s.past))
    <3>1. Rounds(m, UpTo(m.past)) /\ Straight(m) /\ UpTo(m.past) \subseteq UpTo(m.past)
      BY <2>2 DEF Agrees
    <3> QED BY <2>1, <3>1, SlideRounds
  <2> QED BY <2>2
<1>3. ~Slides(m, n, busy) => s = m
  BY DEF Slide
<1> HIDE DEF s
<1>4. Agrees(s, slid \/ Slides(m, n, busy))
  BY <1>1, <1>2, <1>3 DEF Agrees, Rounds
<1> QED BY <1>4 DEF s

LEMMA WriteAgrees ==
    ASSUME NEW m, NEW slid, Cached(m), Agrees(m, slid), NEW n \in Nat, NEW token \in Token
    PROVE  Agrees(Write(m, n, token), slid)
<1> DEFINE w == Write(m, n, token)
<1>1. /\ w.rounds = m.rounds /\ (Straight(m) => Straight(w))
      /\ UpTo(m.past) \subseteq UpTo(w.past)
  <2>1. m.past \in Int
    BY DEF Cached
  <2> QED BY <2>1, WriteRounds, UpToGrows
<1> HIDE DEF w
<1>2. Rounds(m, UpTo(m.past)) => Rounds(w, UpTo(w.past))
  BY <1>1, SequenceWithin DEF Rounds
<1>3. Agrees(w, slid)
  BY <1>1, <1>2 DEF Agrees, Rounds
<1> QED BY <1>3 DEF w

LEMMA EvalAgrees ==
    ASSUME NEW m, NEW slid, Cached(m), nKeep \in Nat, Prefixed(m, nKeep), Agrees(m, slid),
           NEW n \in Nat, NEW busy, NEW token \in Token
    PROVE  Agrees(Eval(m, n, busy, token), slid \/ Slides(m, n, busy))
<1> DEFINE s == Slide(m, n, busy)
<1>1. Cached(s) /\ Agrees(s, slid \/ Slides(m, n, busy))
  BY SlideKeeps, SlideAgrees
<1> HIDE DEF s
<1>2. Agrees(Write(s, n, token), slid \/ Slides(m, n, busy))
  BY <1>1, WriteAgrees
<1> QED BY <1>2 DEF Eval, s

LEMMA AddRoundAgrees ==
    ASSUME NEW m, NEW slid, Cached(m), Agrees(m, slid)
    PROVE  Agrees(AddRound(m), slid)
<1> DEFINE r == AddRound(m)
<1>1. r.rounds = Append(m.rounds, m.past) /\ r.past = m.past /\ r.tokens = m.tokens
  BY DEF AddRound, Cached
<1>2. m.past \in Int /\ m.past \in UpTo(m.past)
  BY DEF Cached, UpTo
<1> HIDE DEF r
<1>3. ASSUME NEW S, m.past \in S, Rounds(m, S) PROVE Rounds(r, S)
  BY <1>1, <1>3 DEF Rounds
<1>4. Agrees(r, slid)
  BY <1>1, <1>2, <1>3 DEF Agrees, Straight
<1> QED BY <1>4 DEF r

\* When the positional window has slid, it is among those that have evicted.
LEMMA AgreesKeeps ==
    ASSUME WindowInv, NEW slid, Agrees(kv', slid), Evicting("position", slid)
    PROVE  WindowInv'
<1>1. CASE slid
  <2>1. evictedBy' = evictedBy \cup {"position"}
    BY <1>1 DEF Evicting
  <2> QED BY <1>1, <2>1 DEF WindowInv, Agrees, OneWindow
<1>2. CASE ~slid
  <2>1. evictedBy' = evictedBy
    BY <1>2 DEF Evicting
  <2> QED BY <1>2, <2>1 DEF WindowInv, Agrees, OneWindow
<1> QED BY <1>1, <1>2

LEMMA WindowAgrees ==
    ASSUME WindowInv PROVE Agrees(kv, FALSE)
  BY DEF WindowInv, Agrees, OneWindow

LEMMA WindowInit == Init => WindowInv
<1>1. <<>> \in Seq(Int) /\ <<>> \in Seq(UpTo(0)) /\ Len(<<>>) = 0
  OBVIOUS
<1> QED BY <1>1 DEF Init, WindowInv, EmptyCache, Rounds, Straight

LEMMA WindowStep == PrefixInv /\ WindowInv /\ [Next]_vars => WindowInv'
<1> SUFFICES ASSUME PrefixInv, WindowInv, [Next]_vars PROVE WindowInv'
  OBVIOUS
<1> USE SizesAssumption
<1>a. /\ Cached(kv) /\ nKeep \in Nat /\ Prefixed(kv, nKeep) /\ Agrees(kv, FALSE)
      /\ nextUnit \in Token
  BY WindowAgrees DEF PrefixInv, Token
<1>0. ASSUME UNCHANGED <<kv, evictedBy>> PROVE WindowInv'
  BY <1>0 DEF WindowInv, OneWindow, Rounds, Straight
<1>1. ASSUME Agrees(kv', FALSE), UNCHANGED evictedBy PROVE WindowInv'
  BY <1>1, AgreesKeeps DEF Evicting
<1>2. ASSUME NEW n \in Chunks, NEW protectPrefix \in BOOLEAN, Prime(n, protectPrefix)
      PROVE  WindowInv'
  <2>1. Prompt \in Token /\ n \in Nat
    BY DEF Token
  <2> DEFINE m == Write(kv, PromptLen, Prompt)
  <2>2. Cached(m) /\ Agrees(m, FALSE)
    <3>1. Prefixed(kv, 0)
      BY DEF Prefixed, PrefixInv, Cached
    <3> QED BY <1>a, <2>1, <3>1, WriteKeeps, WriteAgrees
  <2> HIDE DEF m
  <2>3. Agrees(Write(m, n, Prompt), FALSE)
    BY <2>1, <2>2, WriteAgrees
  <2>4. kv' \in {m, Write(m, n, Prompt)} /\ UNCHANGED evictedBy
    BY <1>2 DEF Prime, m
  <2>5. Agrees(kv', FALSE)
    BY <2>2, <2>3, <2>4
  <2> QED BY <1>1, <2>4, <2>5
<1>3. ASSUME NEW newMode \in Modes, NEW newDuplex \in BOOLEAN,
             Reconfigure(newMode, newDuplex)
      PROVE  WindowInv'
  <2>1. kv' = EmptyCache /\ evictedBy' = {}
    BY <1>3 DEF Reconfigure
  <2>2. <<>> \in Seq(Int) /\ <<>> \in Seq(UpTo(0)) /\ Len(<<>>) = 0
    OBVIOUS
  <2> QED BY <2>1, <2>2 DEF WindowInv, EmptyCache, Rounds, Straight
<1>4. ASSUME NEW n \in Nat, NEW busy, kv' = Eval(kv, n, busy, nextUnit),
             Evicting("position", Slides(kv, n, busy))
      PROVE  WindowInv'
  <2> DEFINE slid == Slides(kv, n, busy)
  <2>1. Agrees(kv', FALSE \/ slid)
    BY <1>a, <1>4, EvalAgrees
  <2> HIDE DEF slid
  <2>2. Agrees(kv', slid)
    BY <2>1 DEF Agrees
  <2> QED BY <1>4, <2>2, AgreesKeeps DEF slid
<1>5. ASSUME NEW n \in Chunks, NEW busy \in BOOLEAN, Feed(n, busy) PROVE WindowInv'
  BY <1>4, <1>5 DEF Feed
<1>6. ASSUME NEW n \in Chunks, Generate(n) PROVE WindowInv'
  BY <1>4, <1>6 DEF Generate
<1>7. ASSUME NEW listen \in BOOLEAN, EndDuplexDecode(listen) PROVE WindowInv'
  <2>1. Agrees(AddRound(kv), FALSE)
    BY <1>a, AddRoundAgrees
  <2>2. kv' \in {kv, AddRound(kv)} /\ UNCHANGED evictedBy
    BY <1>7 DEF EndDuplexDecode
  <2>3. Agrees(kv', FALSE)
    BY <1>a, <2>1, <2>2
  <2> QED BY <1>1, <2>2, <2>3
<1>8. ASSUME NEW n \in Chunks, EndSimplexDecode(n) PROVE WindowInv'
  <2> DEFINE tight == kv.past > NCtx - Reserved
             room  == IF tight THEN Slide(kv, Reserved, FALSE) ELSE kv
             first == tight /\ Slides(kv, Reserved, FALSE)
             m     == AddRound(room)
             slid  == first \/ Slides(m, n, FALSE)
  <2>1. Cached(room) /\ Prefixed(room, nKeep) /\ Agrees(room, first)
    <3>1. CASE tight
      <4>1. Agrees(Slide(kv, Reserved, FALSE), FALSE \/ Slides(kv, Reserved, FALSE))
        BY <1>a, SlideAgrees
      <4>2. Cached(Slide(kv, Reserved, FALSE)) /\ Prefixed(Slide(kv, Reserved, FALSE), nKeep)
        BY <1>a, SlideKeeps
      <4> QED BY <3>1, <4>1, <4>2 DEF Agrees
    <3>2. CASE ~tight
      BY <1>a, <3>2 DEF Agrees
    <3> QED BY <3>1, <3>2
  <2>2. kv' = Eval(m, n, FALSE, nextUnit) /\ Evicting("position", slid)
    BY <1>8 DEF EndSimplexDecode
  <2> HIDE DEF room, first
  <2>3. Cached(m) /\ Prefixed(m, nKeep) /\ Agrees(m, first)
    BY <2>1, AddRoundKeeps, AddRoundAgrees
  <2> HIDE DEF m
  <2>4. Agrees(Eval(m, n, FALSE, nextUnit), slid)
    BY <1>a, <2>3, EvalAgrees
  <2> HIDE DEF slid
  <2> QED BY <2>2, <2>4, AgreesKeeps
<1>9. ASSUME NEW len, DropTokens(len) PROVE WindowInv'
  <2>1. /\ len \in Int /\ 1 <= len /\ preserve + len <= kv.past
        /\ preserve \in Nat /\ kv.tokens \in Seq(Token) /\ kv.past \in Int
    BY <1>9 DEF PrefixInv, Cached, DropTokens, Droppable
  <2> DEFINE c == Cut(kv.tokens, preserve, preserve + len)
  <2>2. /\ kv'.tokens = c /\ kv'.past = kv.past - len /\ kv'.rounds = kv.rounds
        /\ evictedBy' = evictedBy \cup {"unit"}
    BY <1>9 DEF DropTokens, Evicting
  <2>3. Straight(kv) => Len(c) = Len(kv.tokens) - len
    <3>1. ASSUME Straight(kv) PROVE Len(c) = Len(kv.tokens) - ((preserve + len) - preserve)
      <4>1. /\ preserve + len \in Int /\ preserve <= preserve + len
            /\ preserve + len <= Len(kv.tokens)
        BY <2>1, <3>1 DEF Straight
      <4> QED BY <2>1, <4>1, CutLength
    <3>2. Len(kv.tokens) \in Nat
      BY <2>1
    <3> QED BY <2>1, <3>1, <3>2
  <2> HIDE DEF c
  <2>4. Straight(kv) => Straight(kv')
    BY <2>2, <2>3 DEF Straight
  <2> QED BY <2>2, <2>4 DEF WindowInv, OneWindow, Rounds
<1>10. CASE DropTurn
  BY <1>9, <1>10 DEF DropTurn
<1>11. ASSUME NEW i \in DOMAIN units, DropUnit(i) PROVE WindowInv'
  BY <1>9, <1>11 DEF DropUnit
<1>12. CASE StartUnit \/ EndUnit \/ StartDecode \/ Trigger \/ EnforceDone \/ Quiet
              \/ UNCHANGED vars
  <2>1. UNCHANGED <<kv, evictedBy>>
    BY <1>12 DEF StartUnit, EndUnit, StartDecode, Trigger, EnforceDone, Quiet, vars
  <2> QED BY <1>0, <2>1
<1> QED
  BY <1>2, <1>3, <1>5, <1>6, <1>7, <1>8, <1>10, <1>11, <1>12 DEF Next

\* The code's length of the cache is right as long as only one of the two windows
\* has evicted from it, whatever the sizes of the context, the margins and the units.
THEOREM PositionsCorrect == Spec => []OneWindowKeepsPositions
<1>1. WindowInv => OneWindowKeepsPositions
  <2> SUFFICES ASSUME WindowInv, Cardinality(evictedBy) < 2, ~OneWindow PROVE FALSE
    BY DEF OneWindowKeepsPositions, WindowInv, PositionsAgree, Straight
  <2>1. evictedBy = {"unit"} \cup {"position"}
    BY DEF WindowInv, OneWindow
  <2>2. Cardinality({"unit"}) = 1 /\ IsFiniteSet({"unit"}) /\ "position" \notin {"unit"}
    BY FS_Singleton
  <2>3. Cardinality(evictedBy) = 2
    BY <2>1, <2>2, FS_AddElement
  <2> QED BY <2>3
<1> QED BY PrefixInit, PrefixStep, WindowInit, WindowStep, <1>1, PTL DEF Spec

-----------------------------------------------------------------------------
(* Types.  No recorded unit is empty or of a turn that is to come. *)

UnitsBy(t) == {u \in Unit : u.len > 0 /\ u.turn <= t}

RecordTypes ==
    /\ mode \in Modes /\ duplex \in BOOLEAN
    /\ turn \in Nat /\ units \in Seq(UnitsBy(turn))
    /\ start \in Int /\ pc \in Stages /\ sessions \in Nat /\ carried \in BOOLEAN

StateInv == PrefixInv /\ WindowInv /\ RecordTypes

LEMMA RecordedType ==
    ASSUME NEW t \in Nat, NEW l \in Nat, turn <= t, l <= t, RecordTypes,
           nextUnit \in Nat, NEW len \in Int
    PROVE  Recorded(len, l) \in Seq(UnitsBy(t))
<1>1. units \in Seq(UnitsBy(t))
  <2>1. UnitsBy(turn) \subseteq UnitsBy(t)
    BY DEF UnitsBy, Unit, RecordTypes
  <2> QED BY <2>1, SequenceWithin DEF RecordTypes
<1>2. CASE len > 0
  <2> DEFINE u == [id |-> nextUnit, len |-> len, turn |-> l]
  <2>1. u \in UnitsBy(t)
    BY <1>2 DEF UnitsBy, Unit
  <2> HIDE DEF u
  <2>2. Append(units, u) \in Seq(UnitsBy(t))
    BY <1>1, <2>1
  <2>3. Recorded(len, l) \in {Append(units, u), units}
    BY DEF Recorded, u
  <2> QED BY <1>1, <2>2, <2>3
<1>3. CASE ~(len > 0)
  BY <1>1, <1>3 DEF Recorded
<1> QED BY <1>2, <1>3

LEMMA OldestTurnSize ==
    ASSUME NEW S, units \in Seq(S)
    PROVE  /\ IsFiniteSet(OldestTurn) /\ OldestTurn \subseteq 1..Len(units)
           /\ Cardinality(OldestTurn) \in 0..Len(units)
<1>1. DOMAIN units = 1..Len(units) /\ Len(units) \in Nat
  OBVIOUS
<1>2. IsFiniteSet(1..Len(units)) /\ Cardinality(1..Len(units)) = Len(units)
  BY <1>1, FS_Interval
<1>3. OldestTurn \subseteq 1..Len(units)
  BY <1>1 DEF OldestTurn
<1>4. /\ IsFiniteSet(OldestTurn) /\ Cardinality(OldestTurn) \in Nat
      /\ Cardinality(OldestTurn) <= Len(units)
  BY <1>2, <1>3, FS_Subset, FS_CardinalityType
<1> QED BY <1>1, <1>3, <1>4

LEMMA RecordTypesInit == Init => RecordTypes
<1> SUFFICES ASSUME Init PROVE RecordTypes
  OBVIOUS
<1>1. units \in Seq(UnitsBy(turn))
  BY DEF Init
<1>2. mode \in Modes /\ duplex \in BOOLEAN /\ sessions \in Nat /\ carried \in BOOLEAN
  BY DEF Init
<1>3. turn \in Nat /\ start \in Int /\ pc \in Stages
  BY DEF Init, Stages
<1> QED BY <1>1, <1>2, <1>3 DEF RecordTypes

LEMMA RecordTypesStep == PrefixInv /\ RecordTypes /\ [Next]_vars => RecordTypes'
<1> SUFFICES ASSUME PrefixInv, RecordTypes, [Next]_vars PROVE RecordTypes'
  OBVIOUS
<1>a. kv.past \in Int /\ nextUnit \in Nat /\ kv'.past \in Int
  BY PrefixStep DEF PrefixInv, Cached
<1>0. ASSUME UNCHANGED <<mode, duplex, turn, units, sessions, carried>>,
             start' \in Int, pc' \in Stages
      PROVE  RecordTypes'
  BY <1>0 DEF RecordTypes
<1>1. ASSUME UNCHANGED <<mode, duplex, sessions, carried, turn, start>>,
             units' \in Seq(UnitsBy(turn)), pc' \in Stages
      PROVE  RecordTypes'
  BY <1>1 DEF RecordTypes
<1>2. ASSUME NEW n \in Chunks, NEW protectPrefix \in BOOLEAN, Prime(n, protectPrefix)
      PROVE  RecordTypes'
  BY <1>0, <1>2 DEF Prime, recordVars, ghostVars, Stages, RecordTypes
<1>3. ASSUME NEW newMode \in Modes, NEW newDuplex \in BOOLEAN,
             Reconfigure(newMode, newDuplex)
      PROVE  RecordTypes'
  BY <1>3 DEF Reconfigure, recordVars, Stages, RecordTypes
<1>4. CASE StartUnit
  BY <1>a, <1>0, <1>4 DEF StartUnit, recordVars, ghostVars, Stages, RecordTypes
<1>5. ASSUME NEW n \in Chunks, NEW busy \in BOOLEAN, Feed(n, busy) PROVE RecordTypes'
  BY <1>0, <1>5 DEF Feed, recordVars, ghostVars, RecordTypes
<1>6. CASE EndUnit
  <2>1. units' = Recorded(kv.past - start, turn) /\ start' = -1 /\ pc' \in Stages
        /\ UNCHANGED <<mode, duplex, turn, sessions, carried>>
    BY <1>6 DEF EndUnit, ghostVars, Stages
  <2>2. kv.past - start \in Int /\ turn \in Nat /\ turn <= turn
    BY <1>a DEF RecordTypes
  <2>3. Recorded(kv.past - start, turn) \in Seq(UnitsBy(turn))
    BY <1>a, <2>2, RecordedType
  <2> QED BY <2>1, <2>3 DEF RecordTypes
<1>7. CASE StartDecode
  BY <1>a, <1>0, <1>7 DEF StartDecode, recordVars, ghostVars, Stages
<1>8. ASSUME NEW n \in Chunks, Generate(n) PROVE RecordTypes'
  BY <1>0, <1>8 DEF Generate, recordVars, ghostVars, RecordTypes
<1>9. ASSUME NEW len \in Int, NEW t \in Nat, NEW l \in Nat, turn <= t, l <= t,
             RecordAnswer(len, l), turn' = t
      PROVE  RecordTypes'
  <2>1. Recorded(len, l) \in Seq(UnitsBy(t))
    BY <1>a, <1>9, RecordedType
  <2>2. /\ units' = Recorded(len, l) /\ start' = -1 /\ pc' \in Stages
        /\ UNCHANGED <<mode, duplex, sessions, carried>>
    BY <1>9 DEF RecordAnswer, ghostVars, Stages
  <2> QED BY <1>9, <2>1, <2>2 DEF RecordTypes
<1>10. ASSUME NEW listen \in BOOLEAN, EndDuplexDecode(listen) PROVE RecordTypes'
  <2>1. /\ RecordAnswer(kv.past - start, turn) /\ turn' \in {turn, turn + 1}
        /\ turn \in Nat /\ kv.past - start \in Int
    BY <1>a, <1>10 DEF EndDuplexDecode, RecordTypes
  <2>2. turn' \in Nat /\ turn <= turn'
    BY <2>1
  <2> QED BY <1>9, <2>1, <2>2
<1>11. ASSUME NEW n \in Chunks, EndSimplexDecode(n) PROVE RecordTypes'
  <2>1. /\ RecordAnswer(kv'.past - start, turn + 1) /\ turn' = turn + 1
        /\ turn \in Nat /\ kv'.past - start \in Int
    <3>1. turn \in Nat /\ start \in Int
      BY DEF RecordTypes
    <3>2. kv'.past - start \in Int
      BY <1>a, <3>1
    <3> QED BY <1>11, <3>1, <3>2, Zenon DEF EndSimplexDecode
  <2>2. turn + 1 \in Nat /\ turn <= turn + 1 /\ turn + 1 <= turn + 1
    BY <2>1
  <2> QED BY <1>9, <2>1, <2>2
<1>12. CASE Trigger
  BY <1>0, <1>12 DEF Trigger, recordVars, ghostVars, Stages, RecordTypes
<1>13. CASE DropTurn
  <2> DEFINE k == Cardinality(OldestTurn)
  <2>1. k \in 0..Len(units) /\ Len(units) \in Nat /\ units \in Seq(UnitsBy(turn))
    BY OldestTurnSize DEF RecordTypes
  <2>2. units' = SubSeq(units, k + 1, Len(units))
    BY <1>13 DEF DropTurn
  <2> HIDE DEF k
  <2>3. SubSeq(units, k + 1, Len(units)) \in Seq(UnitsBy(turn))
    BY <2>1
  <2>4. UNCHANGED <<mode, duplex, sessions, carried, turn, start, pc>>
    BY <1>13 DEF DropTurn, DropTokens, ghostVars
  <2> QED BY <1>1, <2>2, <2>3, <2>4 DEF RecordTypes
<1>14. ASSUME NEW i \in DOMAIN units, DropUnit(i) PROVE RecordTypes'
  <2>1. i \in 1..Len(units) /\ Len(units) \in Nat /\ units \in Seq(UnitsBy(turn))
    BY DEF RecordTypes
  <2>2. /\ SubSeq(units, 1, i - 1) \in Seq(UnitsBy(turn))
        /\ SubSeq(units, i + 1, Len(units)) \in Seq(UnitsBy(turn))
    BY <2>1
  <2>3. units' = SubSeq(units, 1, i - 1) \o SubSeq(units, i + 1, Len(units))
    BY <1>14 DEF DropUnit, RemoveAt
  <2>4. units' \in Seq(UnitsBy(turn))
    BY <2>2, <2>3
  <2>5. UNCHANGED <<mode, duplex, sessions, carried, turn, start, pc>>
    BY <1>14 DEF DropUnit, DropTokens, ghostVars
  <2> QED BY <1>1, <2>4, <2>5 DEF RecordTypes
<1>15. CASE EnforceDone
  BY <1>0, <1>15 DEF EnforceDone, recordVars, ghostVars, Stages, RecordTypes
<1>16. CASE Quiet \/ UNCHANGED vars
  <2>1. UNCHANGED vars
    BY <1>16 DEF Quiet
  <2> QED BY <1>0, <2>1 DEF vars, recordVars, ghostVars, RecordTypes
<1> QED
  BY <1>2, <1>3, <1>4, <1>5, <1>6, <1>7, <1>8, <1>10, <1>11, <1>12, <1>13, <1>14,
     <1>15, <1>16 DEF Next

LEMMA StateInvariant == Spec => []StateInv
<1>1. Init => StateInv
  BY PrefixInit, WindowInit, RecordTypesInit DEF StateInv
<1>2. StateInv /\ [Next]_vars => StateInv'
  BY PrefixStep, WindowStep, RecordTypesStep DEF StateInv
<1> QED BY <1>1, <1>2, PTL DEF Spec

\* The state of the engine is well formed, for any sizes of context, marks and chunks;
\* no unit is recorded with a length of zero or less (sliding_window_register_unit_end).
THEOREM TypeCorrect == Spec => []TypeOK
<1>1. StateInv => TypeOK
  <2> SUFFICES ASSUME StateInv PROVE TypeOK
    OBVIOUS
  <2>1. kv \in [tokens : Seq(Token), past : Int, rounds : Seq(Int)]
    BY DEF StateInv, PrefixInv, WindowInv, Cached, Rounds
  <2>2. units \in Seq(Unit)
    <3>1. UnitsBy(turn) \subseteq Unit
      BY DEF UnitsBy
    <3> QED BY <3>1, SequenceWithin DEF StateInv, RecordTypes
  <2> QED BY <2>1, <2>2 DEF StateInv, PrefixInv, WindowInv, RecordTypes, TypeOK
<1> QED BY <1>1, StateInvariant, PTL

-----------------------------------------------------------------------------
(* The record.  Told is what it tells of the tokens behind the protected       *)
(* prefix, unit after unit.                                                    *)

Filled(id, k) == [p \in 1..k |-> id]
Parts(us)     == [i \in DOMAIN us |-> [p \in 1..us[i].len |-> us[i].id]]
Told(us)      == FlattenSeq(Parts(us))

LEMMA DescribedIs == Described = Filled(Prompt, preserve) \o Told(units)
  BY DEF Described, Told, Parts, Filled

LEMMA FilledType ==
    ASSUME NEW id \in Token, NEW k \in Nat
    PROVE  Filled(id, k) \in Seq(Token) /\ Len(Filled(id, k)) = k
  BY DEF Filled

LEMMA FilledConcat ==
    ASSUME NEW id \in Token, NEW k \in Nat, NEW n \in Nat
    PROVE  Filled(id, k) \o Filled(id, n) = Filled(id, k + n)
<1> DEFINE a == Filled(id, k)
           b == Filled(id, n)
           c == Filled(id, k + n)
<1>1. /\ a \in Seq(Token) /\ Len(a) = k /\ \A i \in 1..k : a[i] = id
      /\ b \in Seq(Token) /\ Len(b) = n /\ \A i \in 1..n : b[i] = id
      /\ c \in Seq(Token) /\ Len(c) = k + n /\ \A i \in 1..k + n : c[i] = id
  BY DEF Filled
<1> HIDE DEF a, b, c
<1>2. a \o b \in Seq(Token) /\ Len(a \o b) = k + n /\ \A i \in 1..k + n : (a \o b)[i] = id
  BY <1>1
<1> QED BY <1>1, <1>2 DEF a, b, c

LEMMA PartsType ==
    ASSUME NEW us \in Seq(Unit)
    PROVE  /\ Parts(us) \in Seq(Seq(Token)) /\ Len(Parts(us)) = Len(us)
           /\ \A i \in 1..Len(us) : Parts(us)[i] = Filled(us[i].id, us[i].len)
<1>1. /\ DOMAIN us = 1..Len(us) /\ Len(us) \in Nat
      /\ \A i \in 1..Len(us) : us[i].id \in Token /\ us[i].len \in Nat
  <2>1. DOMAIN us = 1..Len(us) /\ Len(us) \in Nat /\ \A i \in 1..Len(us) : us[i] \in Unit
    OBVIOUS
  <2>2. \A u \in Unit : u.id \in Token /\ u.len \in Nat
    BY DEF Unit, Token
  <2> QED BY <2>1, <2>2
<1>2. Parts(us) = [i \in 1..Len(us) |-> Filled(us[i].id, us[i].len)]
  BY <1>1 DEF Parts, Filled
<1>3. \A i \in 1..Len(us) : Filled(us[i].id, us[i].len) \in Seq(Token)
  BY <1>1, FilledType
<1>4. Parts(us) \in [1..Len(us) -> Seq(Token)]
  BY <1>2, <1>3
<1> QED BY <1>1, <1>2, <1>4

LEMMA ToldType == ASSUME NEW us \in Seq(Unit) PROVE Told(us) \in Seq(Token)
  BY PartsType, FlattenType DEF Told

LEMMA ToldConcat ==
    ASSUME NEW us \in Seq(Unit), NEW vs \in Seq(Unit)
    PROVE  Told(us \o vs) = Told(us) \o Told(vs)
<1> DEFINE ws == us \o vs
           a  == Parts(us)
           b  == Parts(vs)
           c  == Parts(ws)
<1>1. /\ ws \in Seq(Unit) /\ Len(ws) = Len(us) + Len(vs)
      /\ Len(us) \in Nat /\ Len(vs) \in Nat
      /\ \A i \in 1..Len(us) : ws[i] = us[i]
      /\ \A i \in 1..Len(vs) : ws[Len(us) + i] = vs[i]
  OBVIOUS
<1> HIDE DEF ws
<1>2. /\ a \in Seq(Seq(Token)) /\ Len(a) = Len(us)
      /\ \A i \in 1..Len(us) : a[i] = Filled(us[i].id, us[i].len)
  BY PartsType
<1>3. /\ b \in Seq(Seq(Token)) /\ Len(b) = Len(vs)
      /\ \A i \in 1..Len(vs) : b[i] = Filled(vs[i].id, vs[i].len)
  BY PartsType
<1>4. /\ c \in Seq(Seq(Token)) /\ Len(c) = Len(us) + Len(vs)
      /\ \A i \in 1..Len(us) + Len(vs) : c[i] = Filled(ws[i].id, ws[i].len)
  BY <1>1, PartsType
<1> HIDE DEF a, b, c
<1> DEFINE ab == a \o b
<1>5. /\ ab \in Seq(Seq(Token)) /\ Len(ab) = Len(us) + Len(vs)
      /\ \A i \in 1..Len(us) : ab[i] = a[i]
      /\ \A i \in 1..Len(vs) : ab[Len(us) + i] = b[i]
  BY <1>1, <1>2, <1>3
<1> HIDE DEF ab
<1>6. \A i \in 1..Len(us) + Len(vs) : c[i] = ab[i]
  <2> TAKE i \in 1..Len(us) + Len(vs)
  <2>1. CASE i <= Len(us)
    <3>1. i \in 1..Len(us)
      BY <1>1, <2>1
    <3> QED BY <1>1, <1>2, <1>4, <1>5, <3>1
  <2>2. CASE ~(i <= Len(us))
    <3>1. i - Len(us) \in 1..Len(vs) /\ Len(us) + (i - Len(us)) = i
      BY <1>1, <2>2
    <3>2. ws[i] = vs[i - Len(us)] /\ ab[i] = b[i - Len(us)]
      BY <1>1, <1>5, <3>1
    <3> QED BY <1>3, <1>4, <3>1, <3>2
  <2> QED BY <2>1, <2>2
<1>7. c = ab
  BY <1>4, <1>5, <1>6
<1>8. FlattenSeq(c) = FlattenSeq(a) \o FlattenSeq(b)
  BY <1>2, <1>3, <1>7, FlattenConcat DEF ab
<1> QED BY <1>8 DEF Told, a, b, c, ws

LEMMA ToldOne == ASSUME NEW u \in Unit PROVE Told(<<u>>) = Filled(u.id, u.len)
<1> DEFINE us == <<u>>
           f  == Filled(u.id, u.len)
<1>1. us \in Seq(Unit) /\ Len(us) = 1 /\ us[1] = u
  OBVIOUS
<1> HIDE DEF us
<1>2. Parts(us) \in Seq(Seq(Token)) /\ Len(Parts(us)) = 1 /\ Parts(us)[1] = f
  BY <1>1, PartsType
<1>3. u.id \in Token /\ u.len \in Nat
  BY DEF Unit, Token
<1>4. f \in Seq(Token)
  BY <1>3, FilledType
<1> HIDE DEF f
<1>5. Parts(us) = <<f>>
  BY <1>2, <1>4
<1>6. FlattenSeq(<<f>>) = f
  BY <1>4, FlattenOne
<1> QED BY <1>5, <1>6 DEF Told, us, f

LEMMA ToldEmpty == Told(<<>>) = <<>>
<1>1. Parts(<<>>) = <<>>
  <2>1. <<>> \in Seq(Unit) /\ Len(<<>>) = 0
    OBVIOUS
  <2>2. Parts(<<>>) \in Seq(Seq(Token)) /\ Len(Parts(<<>>)) = 0
    BY <2>1, PartsType
  <2> QED BY <2>2
<1> QED BY <1>1, FlattenEmpty DEF Told

LEMMA ToldAppend ==
    ASSUME NEW us \in Seq(Unit), NEW u \in Unit
    PROVE  Told(Append(us, u)) = Told(us) \o Filled(u.id, u.len)
<1>1. Append(us, u) = us \o <<u>> /\ <<u>> \in Seq(Unit)
  OBVIOUS
<1> QED BY <1>1, ToldConcat, ToldOne

\* The length of the oldest turn is that of what the record tells of it.
LEMMA OldestTurnIs ==
    ASSUME units \in Seq(Unit), NEW k \in 0..Len(units), k = Cardinality(OldestTurn)
    PROVE  OldestTurnLength = Len(Told(SubSeq(units, 1, k)))
<1> DEFINE n    == Len(units)
           g    == [i \in 0..n |-> Len(Told(SubSeq(units, 1, i)))]
           IsTotal(f) == f = [i \in 0..n |-> IF i = 0 THEN 0 ELSE f[i - 1] + units[i].len]
           total == CHOOSE f : IsTotal(f)
<1>1. n \in Nat /\ k \in 0..n
  OBVIOUS
<1>2. g[0] = 0
  <2>1. SubSeq(units, 1, 0) = <<>>
    OBVIOUS
  <2>2. 0 \in 0..n /\ Len(<<>>) = 0
    BY <1>1
  <2>3. g[0] = Len(Told(SubSeq(units, 1, 0)))
    BY <2>2
  <2> HIDE DEF g
  <2> QED BY <2>1, <2>2, <2>3, ToldEmpty
<1>3. ASSUME NEW i \in 1..n PROVE g[i] = g[i - 1] + units[i].len
  <2> DEFINE us == SubSeq(units, 1, i - 1)
  <2>1. us \in Seq(Unit) /\ units[i] \in Unit /\ SubSeq(units, 1, i) = Append(us, units[i])
    OBVIOUS
  <2>2. units[i].id \in Token /\ units[i].len \in Nat /\ i \in 0..n /\ i - 1 \in 0..n
    BY <2>1 DEF Unit, Token
  <2>3. g[i] = Len(Told(Append(us, units[i]))) /\ g[i - 1] = Len(Told(us))
    BY <2>1, <2>2
  <2> HIDE DEF us
  <2> DEFINE a == Told(us)
             b == Filled(units[i].id, units[i].len)
  <2>4. Told(Append(us, units[i])) = a \o b
    BY <2>1, ToldAppend
  <2>5. a \in Seq(Token) /\ b \in Seq(Token) /\ Len(b) = units[i].len
    BY <2>1, <2>2, ToldType, FilledType
  <2> HIDE DEF a, b, g
  <2>6. Len(a \o b) = Len(a) + Len(b)
    BY <2>5
  <2> QED BY <2>3, <2>4, <2>5, <2>6 DEF a
<1>4. g = [i \in 0..n |-> g[i]]
  OBVIOUS
<1> HIDE DEF g
<1>5. IsTotal(g)
  BY <1>2, <1>3, <1>4
<1>6. IsTotal(total)
  BY <1>5
<1>7. OldestTurnLength = total[k]
  BY Zenon DEF OldestTurnLength
<1> HIDE DEF total
<1>8. total[0] = 0 /\ \A i \in 1..n : total[i] = total[i - 1] + units[i].len
  BY <1>1, <1>6
<1> DEFINE T == {i \in Nat : i \in 0..n => total[i] = g[i]}
<1>9. 0 \in T
  BY <1>2, <1>8
<1>10. ASSUME NEW i \in Nat, i \in T PROVE i + 1 \in T
  <2> SUFFICES ASSUME i + 1 \in 0..n PROVE total[i + 1] = g[i + 1]
    OBVIOUS
  <2>1. i + 1 \in 1..n /\ (i + 1) - 1 = i /\ total[i] = g[i]
    BY <1>1, <1>10
  <2> QED BY <1>3, <1>8, <2>1
<1> HIDE DEF T
<1>11. Nat \subseteq T
  BY <1>9, <1>10, Induction
<1>12. total[k] = g[k]
  BY <1>1, <1>11 DEF T
<1> QED BY <1>1, <1>7, <1>12 DEF g

\* The oldest turn is a beginning of the record.
LEMMA OldestTurnHeads ==
    ASSUME NEW S, units \in Seq(S), units # <<>>
    PROVE  \E k \in 1..Len(units) : k = Cardinality(OldestTurn) /\ OldestTurn = 1..k
<1> DEFINE n == Len(units)
           U == 1..n + 1 \ OldestTurn
<1>1. n \in Nat /\ n >= 1 /\ DOMAIN units = 1..n
  OBVIOUS
<1>2. OldestTurn = {i \in 1..n : \A j \in 1..i : units[j].turn = units[1].turn}
  BY <1>1 DEF OldestTurn
<1>3. U \in SUBSET Nat /\ n + 1 \in U
  BY <1>1, <1>2
<1>4. 1 \in OldestTurn
  BY <1>1, <1>2
<1> HIDE DEF U
<1>5. PICK x \in U : \A y \in U : x <= y
  BY <1>3, LeastNumber
<1>6. x \in 1..n + 1 /\ x # 1
  BY <1>4, <1>5 DEF U
<1>7. \A i \in 1..x - 1 : i \in OldestTurn
  <2> TAKE i \in 1..x - 1
  <2>1. i \in 1..n + 1 /\ ~(x <= i)
    BY <1>1, <1>6
  <2> QED BY <1>5, <2>1 DEF U
<1>8. \A i \in OldestTurn : i \in 1..x - 1
  <2> TAKE i \in OldestTurn
  <2>1. i \in 1..n /\ \A j \in 1..i : units[j].turn = units[1].turn
    BY <1>2
  <2>2. SUFFICES ASSUME ~(i \in 1..x - 1) PROVE FALSE
    OBVIOUS
  <2>3. x <= i /\ x \in 1..n
    BY <1>1, <1>6, <2>1, <2>2
  <2>4. \A j \in 1..x : units[j].turn = units[1].turn
    BY <1>1, <2>1, <2>3
  <2> QED BY <1>2, <1>5, <2>3, <2>4 DEF U
<1> DEFINE k == x - 1
<1>9. k \in 1..n
  BY <1>1, <1>6
<1>10. OldestTurn = 1..k
  BY <1>7, <1>8
<1> HIDE DEF k
<1>11. Cardinality(1..k) = k
  BY <1>9, FS_Interval
<1> QED BY <1>9, <1>10, <1>11

\* What an unfinished unit or answer has added to what the record tells.
Grown(s, id) == {s \o Filled(id, k) : k \in Nat}
Growing == start = Len(Described) /\ kv.tokens \in Grown(Described, nextUnit)

\* The inductive invariant.
RecordInv ==
    /\ pc = "fresh" /\ ~carried => units = <<>>
    /\ RecordDescribesCache
    /\ RecordFits /\ pc \in {"unit", "decode"} => Growing

LEMMA RecordShapes ==
    ASSUME StateInv
    PROVE  /\ units \in Seq(Unit) /\ Told(units) \in Seq(Token)
           /\ Filled(Prompt, preserve) \in Seq(Token) /\ Len(Filled(Prompt, preserve)) = preserve
           /\ Described \in Seq(Token) /\ Len(Described) = preserve + Len(Told(units))
           /\ nextUnit \in Token /\ preserve \in Nat /\ kv.tokens \in Seq(Token)
           /\ kv.past \in Int
           /\ RecordFits => kv.past = Len(kv.tokens)
<1>1. units \in Seq(Unit)
  <2>1. UnitsBy(turn) \subseteq Unit
    BY DEF UnitsBy
  <2> QED BY <2>1, SequenceWithin DEF StateInv, RecordTypes
<1>2. nextUnit \in Token /\ Prompt \in Token /\ preserve \in Nat /\ kv.tokens \in Seq(Token)
      /\ kv.past \in Int
  BY DEF StateInv, PrefixInv, Cached, Token
<1>3. Told(units) \in Seq(Token)
  BY <1>1, ToldType
<1>4. Filled(Prompt, preserve) \in Seq(Token) /\ Len(Filled(Prompt, preserve)) = preserve
  BY <1>2, FilledType
<1>5. Described \in Seq(Token) /\ Len(Described) = preserve + Len(Told(units))
  <2> DEFINE a == Filled(Prompt, preserve)
             b == Told(units)
  <2>1. a \in Seq(Token) /\ b \in Seq(Token) /\ Len(a) = preserve /\ Described = a \o b
    BY <1>3, <1>4, DescribedIs
  <2> HIDE DEF a, b
  <2>2. a \o b \in Seq(Token) /\ Len(a \o b) = Len(a) + Len(b)
    BY <2>1, ConcatType
  <2> QED BY <2>1, <2>2 DEF b
<1>6. RecordFits => kv.past = Len(kv.tokens)
  BY DEF RecordFits, StateInv, WindowInv, OneWindow, Straight
<1> QED BY <1>1, <1>2, <1>3, <1>4, <1>5, <1>6

\* The oldest k units have their tokens directly behind the protected prefix.
LEMMA HeadIsNext ==
    ASSUME StateInv, RecordInv, RecordFits, pc = "enforcing", NEW k \in 1..Len(units)
    PROVE  LET head == Told(SubSeq(units, 1, k))
               rest == Told(SubSeq(units, k + 1, Len(units)))
           IN  /\ head \in Seq(Token) /\ rest \in Seq(Token)
               /\ kv.tokens = (Filled(Prompt, preserve) \o head) \o rest
               /\ Len(head) \in Droppable
<1> DEFINE us   == SubSeq(units, 1, k)
           vs   == SubSeq(units, k + 1, Len(units))
           p    == Filled(Prompt, preserve)
           head == Told(us)
           rest == Told(vs)
<1>1. /\ units \in Seq(Unit) /\ Len(units) \in Nat /\ k \in 0..Len(units)
      /\ p \in Seq(Token) /\ Len(p) = preserve /\ preserve \in Nat
      /\ kv.past = Len(kv.tokens) /\ kv.tokens = p \o Told(units)
  <2>1. units \in Seq(Unit)
    BY RecordShapes
  <2>2. kv.tokens = Described
    BY DEF RecordInv, RecordDescribesCache
  <2> QED BY <2>1, <2>2, RecordShapes, DescribedIs
<1>2. us \in Seq(Unit) /\ Len(us) = k /\ us[1] = units[1] /\ vs \in Seq(Unit) /\ units = us \o vs
  <2>1. 1 \in 1..k
    OBVIOUS
  <2> QED BY <1>1, <2>1, SplitAt
<1> HIDE DEF us, vs
<1>3. Told(units) = head \o rest /\ head \in Seq(Token) /\ rest \in Seq(Token)
  BY <1>2, ToldConcat, ToldType
<1>4. Len(head) >= 1
  <2> DEFINE ws == SubSeq(us, 2, k)
  <2>1. us = <<us[1]>> \o ws /\ us[1] \in Unit /\ ws \in Seq(Unit) /\ <<us[1]>> \in Seq(Unit)
    BY <1>2
  <2> HIDE DEF ws
  <2>2. head = Told(<<us[1]>>) \o Told(ws)
    BY <2>1, ToldConcat
  <2>3. Told(<<us[1]>>) = Filled(us[1].id, us[1].len)
    BY <2>1, ToldOne
  <2>4. us[1].len \in Nat /\ us[1].len > 0 /\ us[1].id \in Token
    <3>1. units[1] \in UnitsBy(turn)
      BY <1>1 DEF StateInv, RecordTypes
    <3> QED BY <1>2, <3>1 DEF UnitsBy, Unit, Token
  <2> DEFINE a == Filled(us[1].id, us[1].len)
             b == Told(ws)
  <2>5. a \in Seq(Token) /\ Len(a) >= 1 /\ b \in Seq(Token)
    <3>1. a \in Seq(Token) /\ Len(a) = us[1].len
      BY <2>4, FilledType
    <3>2. b \in Seq(Token)
      BY <2>1, ToldType
    <3> QED BY <2>4, <3>1, <3>2
  <2>6. head = a \o b
    BY <2>2, <2>3
  <2> HIDE DEF a, b, head
  <2>7. Len(a \o b) = Len(a) + Len(b) /\ Len(b) \in Nat /\ Len(a) \in Nat
    BY <2>5
  <2> QED BY <2>5, <2>6, <2>7
<1> HIDE DEF p, head, rest
<1>5. p \o (head \o rest) = (p \o head) \o rest
  BY <1>1, <1>3
<1>6. Len(p \o (head \o rest)) = Len(p) + (Len(head) + Len(rest))
  <2>1. head \o rest \in Seq(Token) /\ Len(head \o rest) = Len(head) + Len(rest)
    BY <1>3, ConcatType
  <2> QED BY <1>1, <2>1, ConcatType
<1>7. Len(head) \in Nat /\ Len(rest) \in Nat
  BY <1>3
<1>8. Len(head) \in 1..kv.past - preserve
  BY <1>1, <1>3, <1>4, <1>6, <1>7
<1> QED BY <1>1, <1>3, <1>5, <1>8 DEF Droppable, us, vs, p, head, rest

\* So each unit of the record can be dropped, and it is the oldest that is.
LEMMA OldestGoes ==
    ASSUME StateInv, RecordInv, RecordFits, pc = "enforcing",
           NEW i \in DOMAIN units, DropsUnit(i)
    PROVE  /\ i = 1 /\ 1 \in 1..Len(units)
           /\ units[1].len = Len(Told(SubSeq(units, 1, 1)))
<1>1. units \in Seq(Unit) /\ i \in 1..Len(units) /\ 1 \in 1..Len(units)
  <2>1. units \in Seq(Unit)
    BY RecordShapes
  <2> QED BY <2>1
<1>2. units[1] \in Unit /\ SubSeq(units, 1, 1) = <<units[1]>>
  BY <1>1, FirstAlone
<1>3. units[1].id \in Token /\ units[1].len \in Nat
  BY <1>2 DEF Unit, Token
<1>4. units[1].len = Len(Told(SubSeq(units, 1, 1)))
  <2>1. Told(<<units[1]>>) = Filled(units[1].id, units[1].len)
    BY <1>2, ToldOne
  <2> QED BY <1>2, <1>3, <2>1, FilledType
<1>5. Len(Told(SubSeq(units, 1, 1))) \in Droppable
  BY <1>1, HeadIsNext
<1>6. ~(1 \in 1..i - 1)
  BY <1>4, <1>5 DEF DropsUnit
<1> QED BY <1>1, <1>4, <1>6

LEMMA WriteTokens ==
    ASSUME NEW m, Cached(m), NEW n \in Nat, NEW token \in Token
    PROVE  \E k \in Nat : Write(m, n, token).tokens = m.tokens \o Filled(token, k)
<1> DEFINE ts == m.tokens \o Filled(token, n)
           w  == [tokens |-> ts, past |-> m.past + n, rounds |-> m.rounds]
<1>1. Write(m, n, token) \in {m, w}
  BY DEF Write, Cached, Filled
<1>2. w.tokens = ts
  OBVIOUS
<1>3. m.tokens = m.tokens \o Filled(token, 0)
  <2>1. Filled(token, 0) = <<>>
    BY DEF Filled
  <2>2. m.tokens \in Seq(Token)
    BY DEF Cached
  <2> QED BY <2>1, <2>2
<1> HIDE DEF w
<1>4. CASE Write(m, n, token) = m
  BY <1>3, <1>4
<1>5. CASE Write(m, n, token) = w
  BY <1>2, <1>5
<1> QED BY <1>1, <1>4, <1>5

\* An evaluation in which nothing is evicted only adds to the unit.
LEMMA WriteGrows ==
    ASSUME NEW m, Cached(m), NEW n \in Nat, NEW token \in Token,
           NEW s \in Seq(Token), m.tokens \in Grown(s, token)
    PROVE  Write(m, n, token).tokens \in Grown(s, token)
<1>0. PICK k \in Nat : m.tokens = s \o Filled(token, k)
  BY DEF Grown
<1>1. PICK l \in Nat : Write(m, n, token).tokens = m.tokens \o Filled(token, l)
  BY WriteTokens
<1>2. /\ Filled(token, k) \in Seq(Token) /\ Filled(token, l) \in Seq(Token)
      /\ Filled(token, k) \o Filled(token, l) = Filled(token, k + l)
  BY FilledType, FilledConcat
<1> DEFINE a == Filled(token, k)
           b == Filled(token, l)
<1>3. (s \o a) \o b = s \o (a \o b)
  <2> HIDE DEF a, b
  <2>1. a \in Seq(Token) /\ b \in Seq(Token)
    BY <1>2 DEF a, b
  <2> QED BY <2>1
<1>4. k + l \in Nat
  OBVIOUS
<1>5. Write(m, n, token).tokens = s \o Filled(token, k + l)
  BY <1>0, <1>1, <1>2, <1>3
<1> QED BY <1>4, <1>5 DEF Grown

\* Recording a unit of k tokens tells of k more tokens.
LEMMA RecordedTells ==
    ASSUME StateInv, mode # "off", NEW k \in Nat, NEW l \in Nat
    PROVE  Told(Recorded(k, l)) = Told(units) \o Filled(nextUnit, k)
<1>1. /\ units \in Seq(Unit) /\ Told(units) \in Seq(Token)
      /\ nextUnit \in Token /\ nextUnit \in Nat
  BY RecordShapes DEF StateInv, PrefixInv
<1>2. CASE k > 0
  <2> DEFINE u == [id |-> nextUnit, len |-> k, turn |-> l]
  <2>1. u \in Unit /\ u.id = nextUnit /\ u.len = k
    BY <1>1 DEF Unit
  <2>2. Recorded(k, l) = Append(units, u)
    BY <1>2 DEF Recorded
  <2> HIDE DEF u
  <2> QED BY <1>1, <2>1, <2>2, ToldAppend
<1>3. CASE ~(k > 0)
  <2>1. k = 0 /\ Recorded(k, l) = units
    BY <1>3 DEF Recorded
  <2>2. Filled(nextUnit, 0) = <<>>
    BY <1>1, FilledType
  <2>3. Told(units) \o <<>> = Told(units)
    BY <1>1
  <2> QED BY <2>1, <2>2, <2>3
<1> QED BY <1>2, <1>3

LEMMA RecordInit == Init => RecordInv
  BY DEF Init, RecordInv, RecordDescribesCache

LEMMA RecordStep == StateInv /\ StateInv' /\ RecordInv /\ [Next]_vars => RecordInv'
<1> SUFFICES ASSUME StateInv, StateInv', RecordInv, [Next]_vars PROVE RecordInv'
  OBVIOUS
<1> USE SizesAssumption
<1>a. /\ units \in Seq(Unit) /\ Told(units) \in Seq(Token)
      /\ Filled(Prompt, preserve) \in Seq(Token)
      /\ Len(Filled(Prompt, preserve)) = preserve
      /\ Described \in Seq(Token) /\ nextUnit \in Token /\ preserve \in Nat
      /\ kv.tokens \in Seq(Token) /\ kv.past \in Int /\ Cached(kv)
      /\ RecordFits => kv.past = Len(kv.tokens)
  BY RecordShapes DEF StateInv, PrefixInv
<1>b. Described' = Filled(Prompt, preserve') \o Told(units')
  BY DEF Described, Told, Parts, Filled
<1>c. ASSUME UNCHANGED <<preserve, units>> PROVE Described' = Described
  BY <1>b, <1>c, DescribedIs
<1>d. ASSUME UNCHANGED <<mode, carried>>, evictedBy \subseteq evictedBy' \/ UNCHANGED evictedBy,
             RecordFits'
      PROVE  RecordFits
  BY <1>d DEF RecordFits
\* Nothing happens to the context or to the record.
<1>0. ASSUME UNCHANGED <<mode, carried, evictedBy, preserve, units, kv>>,
             pc \in {"idle", "batch", "enforcing"}, pc' \in {"idle", "batch", "enforcing"}
      PROVE  RecordInv'
  <2>1. Described' = Described
    BY <1>0, <1>c
  <2> QED BY <1>0, <2>1 DEF RecordInv, RecordDescribesCache, RecordFits
\* A unit or an answer begins.
<1>1. ASSUME UNCHANGED <<mode, carried, evictedBy, preserve, units, kv>>,
             pc \in {"idle", "batch"}, pc' \in {"unit", "decode"},
             mode # "off" => start' = kv.past
      PROVE  RecordInv'
  <2>1. Described' = Described
    BY <1>1, <1>c
  <2>2. ASSUME RecordFits' PROVE Growing'
    <3>1. RecordFits /\ mode # "off"
      BY <1>1, <2>2 DEF RecordFits
    <3>2. kv.tokens = Described /\ start' = Len(Described)
      BY <1>1, <1>a, <3>1 DEF RecordInv, RecordDescribesCache
    <3>3. Filled(nextUnit', 0) = <<>>
      BY DEF Filled
    <3>4. kv'.tokens = Described \o Filled(nextUnit', 0)
      BY <1>1, <1>a, <3>2, <3>3
    <3>5. kv'.tokens \in Grown(Described, nextUnit')
      BY <3>4 DEF Grown
    <3> QED BY <2>1, <3>2, <3>5 DEF Growing
  <2> QED BY <1>1, <2>2 DEF RecordInv, RecordDescribesCache
\* It grows by an evaluation.
<1>2. ASSUME NEW n \in Chunks, pc \in {"unit", "decode"}, pc' = pc,
             RecordFits' => RecordFits /\ kv' = Write(kv, n, nextUnit),
             UNCHANGED <<mode, carried, preserve, units, nextUnit, start>>
      PROVE  RecordInv'
  <2>1. Described' = Described
    BY <1>2, <1>c
  <2>2. ASSUME RecordFits' PROVE Growing'
    <3>1. RecordFits /\ kv' = Write(kv, n, nextUnit)
      BY <1>2, <2>2
    <3>2. start = Len(Described) /\ kv.tokens \in Grown(Described, nextUnit)
      BY <1>2, <3>1 DEF RecordInv, Growing
    <3>3. n \in Nat
      OBVIOUS
    <3>4. Write(kv, n, nextUnit).tokens \in Grown(Described, nextUnit)
      BY <1>a, <3>2, <3>3, WriteGrows
    <3> QED BY <1>2, <2>1, <3>1, <3>2, <3>4 DEF Growing
  <2> QED BY <1>2, <2>2 DEF RecordInv, RecordDescribesCache
\* It ends, and is recorded with the length it has.
<1>3. ASSUME NEW len, NEW l \in Nat, pc' \in {"idle", "batch"},
             units' = Recorded(len, l), UNCHANGED <<mode, carried, preserve>>,
             RecordFits' => \E k \in Nat : /\ kv'.tokens = Described \o Filled(nextUnit, k)
                                           /\ len = k
      PROVE  RecordInv'
  <2>1. ASSUME RecordFits' PROVE kv'.tokens = Described'
    <3>1. PICK k \in Nat : kv'.tokens = Described \o Filled(nextUnit, k) /\ len = k
      BY <1>3, <2>1
    <3>2. mode # "off"
      BY <1>3, <2>1 DEF RecordFits
    <3>3. Told(units') = Told(units) \o Filled(nextUnit, k)
      BY <1>3, <3>1, <3>2, RecordedTells
    <3> DEFINE p == Filled(Prompt, preserve)
               t == Told(units)
               f == Filled(nextUnit, k)
    <3>4. p \in Seq(Token) /\ t \in Seq(Token) /\ f \in Seq(Token)
      BY <1>a, FilledType
    <3>5. Described' = p \o (t \o f) /\ kv'.tokens = (p \o t) \o f
      BY <1>3, <1>b, <3>1, <3>3, DescribedIs
    <3> HIDE DEF p, t, f
    <3> QED BY <3>4, <3>5
  <2> QED BY <1>3, <2>1 DEF RecordInv, RecordDescribesCache
\* The oldest k units are dropped.
<1>4. ASSUME NEW len, DropTokens(len),
             RecordFits => \E k \in 1..Len(units) :
                             /\ len = Len(Told(SubSeq(units, 1, k)))
                             /\ units' = SubSeq(units, k + 1, Len(units))
      PROVE  RecordInv'
  <2>1. /\ pc = "enforcing" /\ pc' = pc /\ UNCHANGED <<mode, carried, preserve>>
        /\ evictedBy' = evictedBy \cup {"unit"}
        /\ kv'.tokens = Cut(kv.tokens, preserve, preserve + len)
    BY <1>4 DEF DropTokens, ghostVars, Evicting
  <2>2. ASSUME RecordFits' PROVE kv'.tokens = Described'
    <3>1. RecordFits
      BY <2>1, <2>2 DEF RecordFits
    <3>2. PICK k \in 1..Len(units) : /\ len = Len(Told(SubSeq(units, 1, k)))
                                     /\ units' = SubSeq(units, k + 1, Len(units))
      BY <1>4, <3>1
    <3> DEFINE p == Filled(Prompt, preserve)
               h == Told(SubSeq(units, 1, k))
               r == Told(SubSeq(units, k + 1, Len(units)))
    <3>3. /\ p \in Seq(Token) /\ h \in Seq(Token) /\ r \in Seq(Token)
          /\ kv.tokens = (p \o h) \o r
      BY <1>a, <2>1, <3>1, HeadIsNext
    <3>4. /\ Len(p) = preserve /\ Len(h) = len
          /\ Described' = p \o r
      BY <1>a, <1>b, <2>1, <3>2
    <3> HIDE DEF p, h, r
    <3>5. Cut((p \o h) \o r, Len(p), Len(p) + Len(h)) = p \o r
      BY <3>3, CutRemoves
    <3> QED BY <2>1, <3>3, <3>4, <3>5
  <2> QED BY <2>1, <2>2 DEF RecordInv, RecordDescribesCache
<1>5. ASSUME NEW n \in Chunks, NEW protectPrefix \in BOOLEAN, Prime(n, protectPrefix)
      PROVE  RecordInv'
  <2>1. /\ pc = "fresh" /\ pc' = "idle" /\ UNCHANGED <<units, carried, mode>>
        /\ preserve' = kv'.past
    BY <1>5 DEF Prime, recordVars, ghostVars
  <2>2. /\ Cached(kv') /\ kv'.past = Len(kv'.tokens) /\ kv'.past \in Nat
        /\ \A p \in 1..Len(kv'.tokens) : kv'.tokens[p] = Prompt
    BY <1>5, PrimeWrites DEF StateInv
  <2>3. ASSUME RecordFits' PROVE kv'.tokens = Described'
    <3>1. units' = <<>>
      BY <2>1, <2>3 DEF RecordInv, RecordFits
    <3> DEFINE f == Filled(Prompt, preserve')
               s == kv'.tokens
    <3>2. f \in Seq(Token) /\ Len(f) = preserve' /\ \A p \in 1..preserve' : f[p] = Prompt
      BY <2>1, <2>2 DEF Filled, Token
    <3>3. s \in Seq(Token) /\ Len(s) = preserve' /\ \A p \in 1..preserve' : s[p] = Prompt
      BY <2>1, <2>2 DEF Cached
    <3>4. Described' = f \o <<>>
      BY <1>b, <3>1, ToldEmpty
    <3> HIDE DEF f, s
    <3>5. f = s /\ f \o <<>> = f
      BY <3>2, <3>3
    <3> QED BY <3>4, <3>5 DEF s
  <2> QED BY <2>1, <2>3 DEF RecordInv, RecordDescribesCache
<1>6. ASSUME NEW newMode \in Modes, NEW newDuplex \in BOOLEAN,
             Reconfigure(newMode, newDuplex)
      PROVE  RecordInv'
  BY <1>6 DEF Reconfigure, recordVars, RecordInv, RecordDescribesCache
<1>7. CASE StartUnit
  <2>1. /\ UNCHANGED <<mode, carried, evictedBy, preserve, units, kv>>
        /\ pc \in {"idle", "batch"} /\ pc' = "unit"
        /\ mode # "off" => start' = kv.past
    BY <1>7 DEF StartUnit, recordVars, ghostVars
  <2> QED BY <1>1, <2>1
<1>8. CASE StartDecode
  <2>1. /\ UNCHANGED <<mode, carried, evictedBy, preserve, units, kv>>
        /\ pc = "idle" /\ pc' = "decode" /\ start' = kv.past
    BY <1>8 DEF StartDecode, recordVars, ghostVars
  <2> QED BY <1>1, <2>1
<1>9. ASSUME NEW n \in Chunks, NEW busy \in BOOLEAN, Feed(n, busy) PROVE RecordInv'
  <2>1. /\ UNCHANGED <<mode, carried, preserve, units, nextUnit, start>>
        /\ pc \in {"unit", "decode"} /\ pc' = pc
    BY <1>9 DEF Feed, recordVars, ghostVars
  <2>2. ASSUME RecordFits' PROVE RecordFits /\ kv' = Write(kv, n, nextUnit)
    <3>1. kv' = Eval(kv, n, busy, nextUnit) /\ Evicting("position", Slides(kv, n, busy))
      BY <1>9 DEF Feed
    <3>2. RecordFits /\ ~Slides(kv, n, busy)
      BY <2>1, <2>2, <3>1 DEF RecordFits, Evicting
    <3> QED BY <3>1, <3>2 DEF Eval, Slide
  <2> QED BY <1>2, <2>1, <2>2
<1>10. ASSUME NEW n \in Chunks, Generate(n) PROVE RecordInv'
  <2>1. /\ UNCHANGED <<mode, carried, preserve, units, nextUnit, start>>
        /\ pc \in {"unit", "decode"} /\ pc' = pc
    BY <1>10 DEF Generate, recordVars, ghostVars
  <2>2. ASSUME RecordFits' PROVE RecordFits /\ kv' = Write(kv, n, nextUnit)
    <3>1. kv' = Eval(kv, n, TRUE, nextUnit) /\ Evicting("position", Slides(kv, n, TRUE))
      BY <1>10 DEF Generate
    <3>2. RecordFits /\ ~Slides(kv, n, TRUE)
      BY <2>1, <2>2, <3>1 DEF RecordFits, Evicting
    <3> QED BY <3>1, <3>2 DEF Eval, Slide
  <2> QED BY <1>2, <2>1, <2>2
\* The length of the cache beyond the beginning of the unit is that of the unit.
<1>e. ASSUME NEW s \in Seq(Token), NEW k \in Nat, s = Described \o Filled(nextUnit, k),
             start = Len(Described)
      PROVE  Len(s) - start = k
  <2> DEFINE f == Filled(nextUnit, k)
  <2>1. f \in Seq(Token) /\ Len(f) = k
    BY <1>a, FilledType
  <2> HIDE DEF f
  <2>2. Len(Described \o f) = Len(Described) + Len(f) /\ Len(Described) \in Nat
    BY <1>a, <2>1, ConcatType
  <2> QED BY <1>e, <2>1, <2>2 DEF f
<1>f. ASSUME pc \in {"unit", "decode"}, UNCHANGED <<mode, carried, evictedBy>>,
             kv'.tokens = kv.tokens, RecordFits'
      PROVE  \E k \in Nat : /\ kv'.tokens = Described \o Filled(nextUnit, k)
                            /\ kv.past - start = k
  <2>1. RecordFits
    BY <1>f DEF RecordFits
  <2>2. PICK k \in Nat : kv.tokens = Described \o Filled(nextUnit, k)
    BY <1>f, <2>1 DEF RecordInv, Growing, Grown
  <2>3. start = Len(Described)
    BY <1>f, <2>1 DEF RecordInv, Growing
  <2>4. kv.past - start = k
    BY <1>a, <1>e, <2>1, <2>2, <2>3
  <2> QED BY <1>f, <2>2, <2>4
<1>11. CASE EndUnit
  <2>1. /\ units' = Recorded(kv.past - start, turn) /\ pc = "unit" /\ pc' = "batch"
        /\ UNCHANGED <<mode, carried, preserve, evictedBy, kv>>
    BY <1>11 DEF EndUnit, ghostVars
  <2>2. turn \in Nat
    BY DEF StateInv, RecordTypes
  <2>3. RecordFits' => \E k \in Nat : /\ kv'.tokens = Described \o Filled(nextUnit, k)
                                      /\ kv.past - start = k
    BY <1>f, <2>1
  <2> QED BY <1>3, <2>1, <2>2, <2>3
<1>12. ASSUME NEW listen \in BOOLEAN, EndDuplexDecode(listen) PROVE RecordInv'
  <2>1. /\ units' = Recorded(kv.past - start, turn) /\ pc = "decode" /\ pc' = "idle"
        /\ UNCHANGED <<mode, carried, preserve, evictedBy>>
    BY <1>12 DEF EndDuplexDecode, RecordAnswer, ghostVars
  <2>2. turn \in Nat
    BY DEF StateInv, RecordTypes
  <2>3. kv'.tokens = kv.tokens
    <3>1. kv' \in {kv, AddRound(kv)} /\ Cached(kv)
      BY <1>12 DEF EndDuplexDecode, StateInv, PrefixInv
    <3>2. AddRound(kv).tokens = kv.tokens
      BY <3>1 DEF AddRound, Cached
    <3> QED BY <3>1, <3>2
  <2>4. RecordFits' => \E k \in Nat : /\ kv'.tokens = Described \o Filled(nextUnit, k)
                                      /\ kv.past - start = k
    BY <1>f, <2>1, <2>3
  <2> QED BY <1>3, <2>1, <2>2, <2>4
<1>13. ASSUME NEW n \in Chunks, EndSimplexDecode(n) PROVE RecordInv'
  <2> DEFINE tight == kv.past > NCtx - Reserved
             room  == IF tight THEN Slide(kv, Reserved, FALSE) ELSE kv
             m     == AddRound(room)
  <2>1. /\ units' = Recorded(kv'.past - start, turn + 1) /\ pc = "decode" /\ pc' = "idle"
        /\ UNCHANGED <<mode, carried, preserve>>
        /\ kv' = Eval(m, n, FALSE, nextUnit)
        /\ Evicting("position", (tight /\ Slides(kv, Reserved, FALSE)) \/ Slides(m, n, FALSE))
    BY <1>13 DEF EndSimplexDecode, RecordAnswer, ghostVars
  <2>2. turn + 1 \in Nat
    BY DEF StateInv, RecordTypes
  <2>3. ASSUME RecordFits'
        PROVE  \E k \in Nat : /\ kv'.tokens = Described \o Filled(nextUnit, k)
                              /\ kv'.past - start = k
    <3>1. RecordFits /\ ~(tight /\ Slides(kv, Reserved, FALSE)) /\ ~Slides(m, n, FALSE)
      BY <2>1, <2>3 DEF RecordFits, Evicting
    <3>2. room = kv /\ Cached(kv)
      BY <1>a, <3>1 DEF Slide
    <3>3. m.tokens = kv.tokens /\ Cached(m)
      <4> HIDE DEF room
      <4>1. AddRound(kv).tokens = kv.tokens
        BY <3>2 DEF AddRound, Cached
      <4>2. Prefixed(kv, 0)
        BY <3>2 DEF Prefixed, Cached
      <4>3. Cached(AddRound(kv))
        BY <3>2, <4>2, AddRoundKeeps
      <4> QED BY <3>2, <4>1, <4>3
    <3> HIDE DEF m
    <3>4. start = Len(Described) /\ m.tokens \in Grown(Described, nextUnit)
      BY <2>1, <3>1, <3>3 DEF RecordInv, Growing
    <3>5. n \in Nat
      OBVIOUS
    <3>6. Write(m, n, nextUnit).tokens \in Grown(Described, nextUnit)
      BY <1>a, <3>3, <3>4, <3>5, WriteGrows
    <3>7. kv' = Write(m, n, nextUnit)
      BY <2>1, <3>1 DEF Eval, Slide
    <3>8. PICK j \in Nat : kv'.tokens = Described \o Filled(nextUnit, j)
      BY <3>6, <3>7 DEF Grown
    <3>9. kv'.past = Len(kv'.tokens) /\ kv'.tokens \in Seq(Token)
      BY <2>3 DEF RecordFits, StateInv, PrefixInv, Cached, WindowInv, OneWindow, Straight
    <3> QED BY <1>e, <3>4, <3>8, <3>9
  <2> QED BY <1>3, <2>1, <2>2, <2>3
<1>14. CASE Trigger
  BY <1>0, <1>14 DEF Trigger, recordVars, ghostVars
<1>15. CASE EnforceDone
  BY <1>0, <1>15 DEF EnforceDone, recordVars, ghostVars
<1>16. CASE DropTurn
  <2>1. PICK k \in 1..Len(units) : k = Cardinality(OldestTurn)
    BY <1>a, <1>16, OldestTurnHeads DEF DropTurn, CanDropTurn
  <2>2. k \in 0..Len(units)
    BY <1>a
  <2>3. OldestTurnLength = Len(Told(SubSeq(units, 1, k)))
    BY <1>a, <2>1, <2>2, OldestTurnIs
  <2>4. /\ DropTokens(OldestTurnLength)
        /\ units' = SubSeq(units, k + 1, Len(units))
    BY <1>16, <2>1 DEF DropTurn
  <2> QED BY <1>4, <2>3, <2>4
<1>17. ASSUME NEW i \in DOMAIN units, DropUnit(i) PROVE RecordInv'
  <2>1. DropsUnit(i) /\ DropTokens(units[i].len) /\ pc = "enforcing"
        /\ units' = SubSeq(units, 1, i - 1) \o SubSeq(units, i + 1, Len(units))
    BY <1>17 DEF DropUnit, DropTokens, RemoveAt
  <2>2. ASSUME RecordFits
        PROVE  \E k \in 1..Len(units) : /\ units[i].len = Len(Told(SubSeq(units, 1, k)))
                                        /\ units' = SubSeq(units, k + 1, Len(units))
    <3>1. i = 1 /\ 1 \in 1..Len(units) /\ units[1].len = Len(Told(SubSeq(units, 1, 1)))
      BY <2>1, <2>2, OldestGoes
    <3>2. units' = SubSeq(units, 1 + 1, Len(units))
      <4>1. SubSeq(units, 1, 1 - 1) = <<>>
        BY <1>a
      <4>2. 1 \in 0..Len(units)
        BY <3>1
      <4>3. SubSeq(units, 1 + 1, Len(units)) \in Seq(Unit)
        BY <1>a, <4>2, SplitAt
      <4> DEFINE r == SubSeq(units, 1 + 1, Len(units))
      <4>4. units' = <<>> \o r
        BY <2>1, <3>1, <4>1
      <4> HIDE DEF r
      <4>5. <<>> \o r = r
        BY <4>3 DEF r
      <4> QED BY <4>4, <4>5 DEF r
    <3> QED BY <3>1, <3>2
  <2> QED BY <1>4, <2>1, <2>2
<1>18. CASE Quiet \/ UNCHANGED vars
  <2>1. UNCHANGED <<mode, carried, evictedBy, preserve, units, kv, nextUnit, start, pc>>
    BY <1>18 DEF Quiet, vars, recordVars, ghostVars
  <2>2. Described' = Described
    BY <1>c, <2>1
  <2> QED BY <2>1, <2>2 DEF RecordInv, RecordDescribesCache, RecordFits, Growing
<1> QED
  BY <1>5, <1>6, <1>7, <1>8, <1>9, <1>10, <1>11, <1>12, <1>13, <1>14, <1>15, <1>16,
     <1>17, <1>18 DEF Next

LEMMA RecordInvariant == Spec => [](StateInv /\ RecordInv)
<1> QED BY StateInvariant, RecordInit, RecordStep, PTL DEF Spec

\* The record of units tells what is in the cache, position by position, for any
\* sizes and however many units, answers and evictions there have been: the
\* consistency check that sliding_window_enforce prints never finds a difference.
THEOREM RecordCorrect == Spec => []RecordDescribesCache
<1>1. RecordInv => RecordDescribesCache
  BY DEF RecordInv
<1> QED BY RecordInvariant, <1>1, PTL

\* sliding_window_enforce evicts from the old end of the record, and whole turns
\* as long as there is one that is over, for any sizes of units and turns.
THEOREM EvictionCorrect == Spec => EvictsOldestTurns
<1> DEFINE A == pc = "enforcing" /\ units' # units /\ RecordFits =>
                  /\ IsSuffix(units', units)
                  /\ mode = "turn" /\ units' # <<>> /\ units'[1].turn = units[1].turn
                       => units[1].turn = turn
<1>1. ASSUME StateInv, RecordInv, [Next]_vars PROVE A
  <2> SUFFICES ASSUME pc = "enforcing", units' # units, RecordFits
               PROVE  /\ IsSuffix(units', units)
                      /\ mode = "turn" /\ units' # <<>> /\ units'[1].turn = units[1].turn
                           => units[1].turn = turn
    OBVIOUS
  <2>1. /\ units \in Seq(Unit) /\ Len(units) \in Nat
        /\ \A i \in 1..Len(units) : units[i].turn \in Nat /\ units[i].turn <= turn
        /\ turn \in Nat
    <3>1. units \in Seq(Unit) /\ units \in Seq(UnitsBy(turn)) /\ turn \in Nat
      BY <1>1, RecordShapes DEF StateInv, RecordTypes
    <3>2. \A i \in 1..Len(units) : units[i] \in UnitsBy(turn)
      BY <3>1
    <3>3. \A u \in UnitsBy(turn) : u.turn \in Nat /\ u.turn <= turn
      BY DEF UnitsBy, Unit
    <3> QED BY <3>1, <3>2, <3>3
  <2>2. ASSUME NEW k \in 1..Len(units), units' = SubSeq(units, k + 1, Len(units))
        PROVE  /\ IsSuffix(units', units) /\ units # <<>>
               /\ units' # <<>> => k + 1 \in 1..Len(units) /\ units'[1] = units[k + 1]
    <3>1. k \in 0..Len(units)
      BY <2>1
    <3>2. /\ units' \in Seq(Unit) /\ Len(units') = Len(units) - k
          /\ \A i \in 1..Len(units) - k : units'[i] = units[k + i]
      BY <2>1, <2>2, <3>1, SplitAt
    <3>3. IsSuffix(units', units)
      BY <2>1, <2>2, <3>1, RestIsSuffix
    <3>4. units # <<>>
      BY <2>1
    <3>5. ASSUME units' # <<>> PROVE k + 1 \in 1..Len(units) /\ units'[1] = units[k + 1]
      <4>1. Len(units') >= 1
        BY <3>2, <3>5
      <4> QED BY <2>1, <3>2, <4>1
    <3> QED BY <3>3, <3>4, <3>5
  <2>3. CASE DropTurn
    <3>1. units # <<>>
      BY <2>3 DEF DropTurn, CanDropTurn
    <3>2. PICK k \in 1..Len(units) : k = Cardinality(OldestTurn) /\ OldestTurn = 1..k
      BY <2>1, <3>1, OldestTurnHeads
    <3>0. k \in Nat /\ OldestTurn = 1..k
      BY <2>1, <3>2
    <3>3. units' = SubSeq(units, k + 1, Len(units))
      BY <2>3, <3>2 DEF DropTurn
    <3>4. units' # <<>> => units'[1].turn # units[1].turn
      <4> SUFFICES ASSUME units' # <<>>, units'[1].turn = units[1].turn PROVE FALSE
        OBVIOUS
      <4>1. k + 1 \in 1..Len(units) /\ units[k + 1].turn = units[1].turn
        BY <2>2, <3>3
      <4>2. \A j \in 1..k : units[j].turn = units[1].turn
        <5>1. \A j \in 1..k : j \in OldestTurn /\ j \in 1..j
          BY <3>0
        <5> QED BY <5>1 DEF OldestTurn
      <4>3. \A j \in 1..k + 1 : units[j].turn = units[1].turn
        BY <4>1, <4>2
      <4>4. k + 1 \in OldestTurn
        BY <2>1, <4>1, <4>3 DEF OldestTurn
      <4>5. k + 1 \notin 1..k
        BY <3>0
      <4> QED BY <3>0, <4>4, <4>5
    <3> QED BY <2>2, <3>3, <3>4
  <2>4. ASSUME NEW i \in DOMAIN units, DropUnit(i)
        PROVE  /\ IsSuffix(units', units)
               /\ mode = "turn" => units[1].turn = turn
    <3>1. DropsUnit(i) /\ ~CanDropTurn
          /\ units' = SubSeq(units, 1, i - 1) \o SubSeq(units, i + 1, Len(units))
      BY <2>4 DEF DropUnit, RemoveAt
    <3>2. i = 1 /\ 1 \in 1..Len(units)
      BY <1>1, <3>1, OldestGoes
    <3>3. units' = SubSeq(units, 1 + 1, Len(units))
      <4>1. SubSeq(units, 1, 1 - 1) = <<>>
        BY <2>1
      <4>2. 1 \in 0..Len(units)
        BY <3>2
      <4> DEFINE r == SubSeq(units, 1 + 1, Len(units))
      <4>3. r \in Seq(Unit)
        BY <2>1, <4>2, SplitAt
      <4>4. units' = <<>> \o r
        BY <3>1, <3>2, <4>1
      <4> HIDE DEF r
      <4>5. <<>> \o r = r
        BY <4>3
      <4> QED BY <4>4, <4>5 DEF r
    <3>4. ASSUME mode = "turn" PROVE ~(units[1].turn < turn)
      <4>1. PICK k \in 1..Len(units) : k = Cardinality(OldestTurn)
        BY <2>1, <2>2, <3>2, <3>3, OldestTurnHeads
      <4>2. OldestTurnLength = Len(Told(SubSeq(units, 1, k)))
        <5>1. k \in 0..Len(units)
          BY <2>1
        <5> QED BY <2>1, <4>1, <5>1, OldestTurnIs
      <4>3. OldestTurnLength \in Droppable
        BY <1>1, <4>2, HeadIsNext
      <4>4. units # <<>>
        BY <2>2, <3>2, <3>3
      <4> QED BY <3>1, <3>4, <4>3, <4>4 DEF CanDropTurn
    <3> QED BY <2>1, <2>2, <3>2, <3>3, <3>4
  <2>5. DropTurn \/ \E i \in DOMAIN units : DropUnit(i)
    BY <1>1 DEF Next, Prime, Reconfigure, StartUnit, Feed, EndUnit, StartDecode, Generate,
                EndDuplexDecode, EndSimplexDecode, Trigger, EnforceDone, Quiet, vars,
                recordVars
  <2> QED BY <2>3, <2>4, <2>5
<1>2. StateInv /\ RecordInv /\ [Next]_vars => [A]_vars
  BY <1>1
<1>3. Spec => [][A]_vars
  BY <1>2, RecordInvariant, PTL DEF Spec
<1> QED BY <1>3 DEF EvictsOldestTurns
=============================================================================
