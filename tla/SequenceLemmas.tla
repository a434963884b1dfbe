--------------------------- MODULE SequenceLemmas ---------------------------
(***************************************************************************)
(* Facts about sequences that need an induction: what FlattenSeq of        *)
(* SequencesExt, which is defined recursively, returns.                    *)
(*                                                                         *)
(* The induction theorems of the library take the formula as an operator,  *)
(* with which the provers cannot deal.  Induction is therefore stated of a *)
(* set of numbers; a proof shows that the set of those for which its claim *)
(* holds has 0 and all successors.                                         *)
(***************************************************************************)
EXTENDS Integers, Sequences, SequencesExt, SequenceTheorems, WellFoundedInduction, TLAPS

-----------------------------------------------------------------------------
(* Induction *)

LEMMA LeastNumber ==
    ASSUME NEW T \in SUBSET Nat, T # {}
    PROVE  \E x \in T : \A y \in T : x <= y
<1> DEFINE R == OpToRel(<, Nat)
<1>1. IsWellFoundedOn(R, Nat)
  BY NatLessThanWellFounded
<1>2. \A x, y \in Nat : <<y, x>> \in R <=> y < x
  BY DEF OpToRel
<1> HIDE DEF R
<1>3. PICK x \in T : \A y \in T : <<y, x>> \notin R
  BY <1>1, WFMin
<1>4. ASSUME NEW y \in T PROVE x <= y
  <2>1. x \in Nat /\ y \in Nat
    OBVIOUS
  <2>2. ~ (y < x)
    BY <1>2, <1>3, <2>1
  <2> QED BY <2>1, <2>2
<1> QED BY <1>4

LEMMA Induction ==
    ASSUME NEW T, 0 \in T, \A n \in Nat : n \in T => n + 1 \in T
    PROVE  Nat \subseteq T
<1> SUFFICES ASSUME NEW k \in Nat, k \notin T PROVE FALSE
  OBVIOUS
<1> DEFINE U == Nat \ T
<1>1. U \in SUBSET Nat /\ U # {}
  OBVIOUS
<1> HIDE DEF U
<1>2. PICK x \in U : \A y \in U : x <= y
  BY <1>1, LeastNumber
<1>3. x \in Nat /\ x # 0 /\ x - 1 \in Nat /\ x - 1 \notin U
  BY <1>1, <1>2 DEF U
<1>4. x - 1 \in T /\ (x - 1) + 1 = x
  BY <1>3 DEF U
<1> QED BY <1>3, <1>4 DEF U

-----------------------------------------------------------------------------
(* FlattenSeq *)

\* What the recursive function in FlattenSeq is for the first n members of s.
IsFlatten(f, s, n) ==
    f = [i \in 1..n |-> IF i = 1 THEN s[i] ELSE f[i - 1] \o s[i]]

LEMMA FlattenExists == ASSUME NEW s, NEW n \in Nat PROVE \E f : IsFlatten(f, s, n)
<1> DEFINE T == {m \in Nat : \E f : IsFlatten(f, s, m)}
<1>1. 0 \in T
  <2>1. IsFlatten([i \in 1..0 |-> <<>>], s, 0)
    BY DEF IsFlatten
  <2> QED BY <2>1
<1>2. ASSUME NEW m \in Nat, m \in T PROVE m + 1 \in T
  <2>1. PICK f : IsFlatten(f, s, m)
    BY <1>2
  <2>2. \A i \in 1..m : f[i] = IF i = 1 THEN s[i] ELSE f[i - 1] \o s[i]
    BY <2>1 DEF IsFlatten
  <2> DEFINE g == [i \in 1..m + 1 |-> IF i <= m THEN f[i]
                                      ELSE IF i = 1 THEN s[i] ELSE f[i - 1] \o s[i]]
  <2>3. \A i \in 1..m : g[i] = f[i]
    OBVIOUS
  <2>4. ASSUME NEW i \in 1..m + 1
        PROVE  g[i] = IF i = 1 THEN s[i] ELSE g[i - 1] \o s[i]
    <3>1. i # 1 => g[i - 1] = f[i - 1]
      BY <2>3
    <3>2. g[i] = IF i = 1 THEN s[i] ELSE f[i - 1] \o s[i]
      BY <2>2
    <3> QED BY <3>1, <3>2
  <2> HIDE DEF g
  <2>5. g = [i \in 1..m + 1 |-> g[i]]
    BY DEF g
  <2>6. IsFlatten(g, s, m + 1)
    BY <2>4, <2>5 DEF IsFlatten
  <2> QED BY <2>6
<1> HIDE DEF T
<1>3. n \in T
  BY <1>1, <1>2, Induction
<1> QED BY <1>3 DEF T

LEMMA FlattenIs ==
    ASSUME NEW S, NEW s \in Seq(S), s # <<>>
    PROVE  \E f : IsFlatten(f, s, Len(s)) /\ FlattenSeq(s) = f[Len(s)]
<1>1. Len(s) \in Nat /\ Len(s) # 0
  OBVIOUS
<1> DEFINE f == CHOOSE f : IsFlatten(f, s, Len(s))
<1>2. IsFlatten(f, s, Len(s))
  BY <1>1, FlattenExists
<1>3. FlattenSeq(s) = f[Len(s)]
  BY <1>1, Zenon DEF FlattenSeq, IsFlatten
<1> QED BY <1>2, <1>3

\* It depends on nothing but these members.
LEMMA FlattenAgrees ==
    ASSUME NEW m \in Nat, NEW n \in Nat, m <= n, NEW f, NEW g, NEW s, NEW t,
           IsFlatten(f, s, m), IsFlatten(g, t, n), \A i \in 1..m : s[i] = t[i]
    PROVE  \A i \in 1..m : f[i] = g[i]
<1> DEFINE T == {k \in Nat : k \in 1..m => f[k] = g[k]}
<1>1. \A i \in 1..m : f[i] = IF i = 1 THEN s[i] ELSE f[i - 1] \o s[i]
  BY DEF IsFlatten
<1>5. \A i \in 1..m : g[i] = IF i = 1 THEN t[i] ELSE g[i - 1] \o t[i]
  <2>1. \A i \in 1..m : i \in 1..n
    OBVIOUS
  <2> QED BY <2>1 DEF IsFlatten
<1>2. 0 \in T
  OBVIOUS
<1>3. ASSUME NEW k \in Nat, k \in T PROVE k + 1 \in T
  <2> SUFFICES ASSUME k + 1 \in 1..m PROVE f[k + 1] = g[k + 1]
    OBVIOUS
  <2>1. k + 1 # 1 => f[k] = g[k]
    BY <1>3
  <2>2. (k + 1) - 1 = k
    OBVIOUS
  <2> QED BY <1>1, <1>5, <2>1, <2>2
<1> HIDE DEF T
<1>4. Nat \subseteq T
  BY <1>2, <1>3, Induction
<1> QED BY <1>4 DEF T

LEMMA FlattenEmpty == FlattenSeq(<<>>) = <<>>
  BY DEF FlattenSeq

LEMMA FlattenAppend ==
    ASSUME NEW S, NEW s \in Seq(Seq(S)), NEW x \in Seq(S)
    PROVE  FlattenSeq(Append(s, x)) = FlattenSeq(s) \o x
<1> DEFINE t == Append(s, x)
           n == Len(s)
<1>1. /\ t \in Seq(Seq(S)) /\ Len(t) = n + 1 /\ n \in Nat /\ t # <<>>
      /\ t[n + 1] = x /\ \A i \in 1..n : s[i] = t[i]
  <2>1. n \in Nat /\ t \in Seq(Seq(S)) /\ Len(t) = n + 1
    OBVIOUS
  <2>2. t[n + 1] = x /\ \A i \in 1..n : s[i] = t[i]
    OBVIOUS
  <2>3. t # <<>>
    <3> SUFFICES ASSUME t = <<>> PROVE FALSE
      OBVIOUS
    <3>1. Len(t) = 0
      OBVIOUS
    <3> HIDE DEF t
    <3> QED BY <2>1, <3>1
  <2> QED BY <2>1, <2>2, <2>3
<1> HIDE DEF t
<1>2. PICK g : IsFlatten(g, t, n + 1) /\ FlattenSeq(t) = g[n + 1]
  <2>1. \E g : IsFlatten(g, t, Len(t)) /\ FlattenSeq(t) = g[Len(t)]
    BY <1>1, FlattenIs
  <2> QED BY <1>1, <2>1
<1>3. g[n + 1] = IF n + 1 = 1 THEN x ELSE g[n] \o x
  <2>1. n + 1 \in 1..n + 1 /\ (n + 1) - 1 = n
    BY <1>1
  <2>2. g[n + 1] = IF n + 1 = 1 THEN t[n + 1] ELSE g[(n + 1) - 1] \o t[n + 1]
    BY <1>2, <2>1 DEF IsFlatten
  <2> QED BY <1>1, <2>1, <2>2
<1>4. CASE s = <<>>
  <2>1. FlattenSeq(t) = x
    BY <1>2, <1>3, <1>4
  <2>2. FlattenSeq(s) \o x = x
    BY <1>4, FlattenEmpty
  <2> QED BY <2>1, <2>2 DEF t
<1>5. CASE s # <<>>
  <2>1. n \in 1..n /\ n + 1 # 1
    BY <1>1, <1>5
  <2>2. PICK f : IsFlatten(f, s, n) /\ FlattenSeq(s) = f[n]
    BY <1>5, FlattenIs
  <2>3. \A i \in 1..n : f[i] = g[i]
    <3>1. n \in Nat /\ n + 1 \in Nat /\ n <= n + 1
      BY <1>1
    <3>2. \A i \in 1..n : s[i] = t[i]
      BY <1>1
    <3>3. IsFlatten(f, s, n) /\ IsFlatten(g, t, n + 1)
      BY <1>2, <2>2
    <3> DEFINE k == n + 1
    <3> HIDE DEF n, k
    <3>4. k \in Nat /\ n <= k /\ IsFlatten(g, t, k)
      BY <3>1, <3>3 DEF k
    <3> QED BY <3>1, <3>2, <3>3, <3>4, FlattenAgrees
  <2> QED BY <1>2, <1>3, <2>1, <2>2, <2>3 DEF t
<1> QED BY <1>4, <1>5

\* What holds of the empty sequence, and of a longer one if of the shorter, holds
\* of all: T is the set of the sequences it holds of.
LEMMA SequenceInduction ==
    ASSUME NEW S, NEW T, <<>> \in T,
           \A s \in Seq(S), x \in S : s \in T => Append(s, x) \in T
    PROVE  Seq(S) \subseteq T
<1> DEFINE N == {n \in Nat : \A s \in Seq(S) : Len(s) = n => s \in T}
<1>1. 0 \in N
  <2>1. \A s \in Seq(S) : Len(s) = 0 => s = <<>>
    OBVIOUS
  <2> QED BY <2>1
<1>2. ASSUME NEW n \in Nat, n \in N PROVE n + 1 \in N
  <2> SUFFICES ASSUME NEW s \in Seq(S), Len(s) = n + 1 PROVE s \in T
    OBVIOUS
  <2> DEFINE r == SubSeq(s, 1, n)
  <2>1. r \in Seq(S) /\ Len(r) = n /\ s[n + 1] \in S /\ \A i \in 1..n : r[i] = s[i]
    OBVIOUS
  <2> HIDE DEF r
  <2>2. s = Append(r, s[n + 1])
    BY <2>1
  <2>3. r \in T
    BY <1>2, <2>1
  <2> QED BY <2>1, <2>2, <2>3
<1> HIDE DEF N
<1>3. Nat \subseteq N
  BY <1>1, <1>2, Induction
<1> QED BY <1>3 DEF N

LEMMA FlattenType ==
    ASSUME NEW S, NEW s \in Seq(Seq(S))
    PROVE  FlattenSeq(s) \in Seq(S)
<1> DEFINE T == {t \in Seq(Seq(S)) : FlattenSeq(t) \in Seq(S)}
<1>1. <<>> \in T
  <2>1. <<>> \in Seq(Seq(S)) /\ <<>> \in Seq(S)
    OBVIOUS
  <2> QED BY <2>1, FlattenEmpty
<1>2. ASSUME NEW t \in Seq(Seq(S)), NEW x \in Seq(S), t \in T
      PROVE  Append(t, x) \in T
  <2>1. FlattenSeq(Append(t, x)) = FlattenSeq(t) \o x
    BY FlattenAppend
  <2>2. FlattenSeq(t) \o x \in Seq(S) /\ Append(t, x) \in Seq(Seq(S))
    BY <1>2
  <2> QED BY <2>1, <2>2
<1> HIDE DEF T
<1>3. Seq(Seq(S)) \subseteq T
  BY <1>1, <1>2, SequenceInduction
<1> QED BY <1>3 DEF T

LEMMA FlattenOne == ASSUME NEW S, NEW x \in Seq(S) PROVE FlattenSeq(<<x>>) = x
<1>1. <<x>> = Append(<<>>, x) /\ <<>> \in Seq(Seq(S))
  OBVIOUS
<1>2. FlattenSeq(<<x>>) = <<>> \o x
  BY <1>1, FlattenAppend, FlattenEmpty
<1> QED BY <1>2

LEMMA FlattenConcat ==
    ASSUME NEW S, NEW s \in Seq(Seq(S)), NEW t \in Seq(Seq(S))
    PROVE  FlattenSeq(s \o t) = FlattenSeq(s) \o FlattenSeq(t)
<1> DEFINE T == {r \in Seq(Seq(S)) : FlattenSeq(s \o r) = FlattenSeq(s) \o FlattenSeq(r)}
<1>0. FlattenSeq(s) \in Seq(S)
  BY FlattenType
<1>1. <<>> \in T
  <2>1. s \o <<>> = s /\ FlattenSeq(s) \o <<>> = FlattenSeq(s)
    BY <1>0
  <2>2. <<>> \in Seq(Seq(S))
    OBVIOUS
  <2> QED BY <2>1, <2>2, FlattenEmpty
<1>2. ASSUME NEW r \in Seq(Seq(S)), NEW x \in Seq(S), r \in T
      PROVE  Append(r, x) \in T
  <2>1. s \o r \in Seq(Seq(S)) /\ s \o Append(r, x) = Append(s \o r, x)
    OBVIOUS
  <2>2. FlattenSeq(s \o Append(r, x)) = FlattenSeq(s \o r) \o x
    BY <2>1, FlattenAppend
  <2>3. FlattenSeq(Append(r, x)) = FlattenSeq(r) \o x
    BY FlattenAppend
  <2>4. FlattenSeq(r) \in Seq(S)
    BY FlattenType
  <2>5. (FlattenSeq(s) \o FlattenSeq(r)) \o x = FlattenSeq(s) \o (FlattenSeq(r) \o x)
    BY <1>0, <2>4
  <2>6. FlattenSeq(s \o Append(r, x)) = FlattenSeq(s) \o FlattenSeq(Append(r, x))
    BY <1>2, <2>2, <2>3, <2>5
  <2>7. Append(r, x) \in Seq(Seq(S))
    OBVIOUS
  <2> QED BY <2>6, <2>7
<1> HIDE DEF T
<1>3. Seq(Seq(S)) \subseteq T
  BY <1>1, <1>2, SequenceInduction
<1> QED BY <1>3 DEF T

-----------------------------------------------------------------------------
(* The two parts of a sequence *)

LEMMA ConcatType ==
    ASSUME NEW S, NEW a \in Seq(S), NEW b \in Seq(S)
    PROVE  /\ a \o b \in Seq(S) /\ Len(a \o b) = Len(a) + Len(b)
           /\ Len(a) \in Nat /\ Len(b) \in Nat
  OBVIOUS

LEMMA FirstAlone ==
    ASSUME NEW S, NEW s \in Seq(S), 1 \in 1..Len(s)
    PROVE  SubSeq(s, 1, 1) = <<s[1]>> /\ s[1] \in S
<1>1. SubSeq(s, 1, 1) \in Seq(S) /\ Len(SubSeq(s, 1, 1)) = 1 /\ SubSeq(s, 1, 1)[1] = s[1]
  OBVIOUS
<1> DEFINE r == SubSeq(s, 1, 1)
           x == s[1]
<1>2. x \in S /\ r \in Seq(S) /\ Len(r) = 1 /\ r[1] = x
  BY <1>1
<1> HIDE DEF r, x
<1>3. r = <<x>>
  BY <1>2
<1> QED BY <1>2, <1>3 DEF r, x

LEMMA SplitAt ==
    ASSUME NEW S, NEW s \in Seq(S), NEW k \in 0..Len(s)
    PROVE  /\ SubSeq(s, 1, k) \in Seq(S) /\ Len(SubSeq(s, 1, k)) = k
           /\ SubSeq(s, k + 1, Len(s)) \in Seq(S)
           /\ Len(SubSeq(s, k + 1, Len(s))) = Len(s) - k
           /\ \A i \in 1..k : SubSeq(s, 1, k)[i] = s[i]
           /\ \A i \in 1..Len(s) - k : SubSeq(s, k + 1, Len(s))[i] = s[k + i]
           /\ s = SubSeq(s, 1, k) \o SubSeq(s, k + 1, Len(s))
<1> DEFINE a == SubSeq(s, 1, k)
           b == SubSeq(s, k + 1, Len(s))
<1>1. Len(s) \in Nat
  OBVIOUS
<1>2. a \in Seq(S) /\ Len(a) = k /\ \A i \in 1..k : a[i] = s[i]
  BY <1>1
<1>3. b \in Seq(S) /\ Len(b) = Len(s) - k
  BY <1>1
<1>4. \A i \in 1..Len(s) - k : b[i] = s[k + i]
  BY <1>1
<1> HIDE DEF a, b
<1>5. s = a \o b
  <2>1. a \o b \in Seq(S) /\ Len(a \o b) = Len(s)
    BY <1>1, <1>2, <1>3
  <2>2. \A i \in 1..Len(s) : (a \o b)[i] = s[i]
    <3> TAKE i \in 1..Len(s)
    <3>1. CASE i <= k
      BY <1>1, <1>2, <1>3, <3>1
    <3>2. CASE ~(i <= k)
      <4>1. i - k \in 1..Len(s) - k /\ k + (i - k) = i
        BY <1>1, <3>2
      <4>2. (a \o b)[i] = b[i - k]
        BY <1>1, <1>2, <1>3, <3>2
      <4> QED BY <1>4, <4>1, <4>2
    <3> QED BY <3>1, <3>2
  <2> DEFINE c == a \o b
  <2> HIDE DEF c
  <2>3. c \in Seq(S) /\ Len(c) = Len(s) /\ \A i \in 1..Len(s) : c[i] = s[i]
    BY <2>1, <2>2 DEF c
  <2>4. c = s
    BY <1>1, <2>3
  <2> QED BY <2>4 DEF c
<1> QED BY <1>2, <1>3, <1>4, <1>5 DEF a, b

LEMMA RestIsSuffix ==
    ASSUME NEW S, NEW s \in Seq(S), NEW k \in 0..Len(s)
    PROVE  IsSuffix(SubSeq(s, k + 1, Len(s)), s)
<1> DEFINE b == SubSeq(s, k + 1, Len(s))
           n == Len(s) - k
<1>1. /\ Len(s) \in Nat /\ n \in Nat /\ n <= Len(s)
      /\ b \in Seq(S) /\ Len(b) = n /\ \A i \in 1..n : b[i] = s[k + i]
  BY SplitAt
<1> HIDE DEF b
<1> DEFINE rb == Reverse(b)
           rs == Reverse(s)
<1>2. rb \in Seq(S) /\ Len(rb) = n /\ \A i \in 1..n : rb[i] = b[(n - i) + 1]
  <2>1. rb = [i \in 1..n |-> b[(n - i) + 1]]
    BY <1>1 DEF Reverse
  <2>2. \A i \in 1..n : (n - i) + 1 \in 1..n
    BY <1>1
  <2>3. \A i \in 1..n : b[(n - i) + 1] \in S
    BY <1>1, <2>2
  <2> HIDE DEF n
  <2>4. rb \in [1..n -> S]
    BY <2>1, <2>3
  <2> HIDE DEF rb
  <2>5. rb \in Seq(S) /\ Len(rb) = n
    BY <1>1, <2>4
  <2> QED BY <2>1, <2>5
<1>3. rs \in Seq(S) /\ Len(rs) = Len(s) /\ \A i \in 1..Len(s) : rs[i] = s[(Len(s) - i) + 1]
  <2>1. rs = [i \in 1..Len(s) |-> s[(Len(s) - i) + 1]]
    BY DEF Reverse
  <2>2. \A i \in 1..Len(s) : s[(Len(s) - i) + 1] \in S
    BY <1>1
  <2>4. rs \in [1..Len(s) -> S]
    BY <2>1, <2>2
  <2> HIDE DEF rs
  <2>5. rs \in Seq(S) /\ Len(rs) = Len(s)
    BY <1>1, <2>4
  <2> QED BY <2>1, <2>5
<1>4. \A i \in 1..n : rb[i] = rs[i]
  <2> TAKE i \in 1..n
  <2>1. /\ (n - i) + 1 \in 1..n /\ k + ((n - i) + 1) = (Len(s) - i) + 1
        /\ i \in 1..Len(s)
    BY <1>1
  <2> QED BY <1>1, <1>2, <1>3, <2>1
<1> HIDE DEF rb, rs, n
<1>5. SubSeq(rb, 1, n) = SubSeq(rs, 1, n)
  <2>1. n <= Len(rs) /\ n <= Len(rb)
    BY <1>1, <1>2, <1>3
  <2> QED BY <1>1, <1>2, <1>3, <1>4, <2>1
<1>6. IsPrefix(rb, rs)
  BY <1>1, <1>2, <1>3, <1>5 DEF IsPrefix
<1> QED BY <1>6 DEF IsSuffix, rb, rs, b

-----------------------------------------------------------------------------
(* A function on each member of a sequence. *)

\* The functions from S to T; the provers find a lemma by this name.
Maps(S, T) == [S -> T]
Mapped(f, s) == [i \in DOMAIN s |-> f[s[i]]]

LEMMA MapType ==
    ASSUME NEW S, NEW T, NEW f \in Maps(S, T), NEW s \in Seq(S)
    PROVE  /\ Mapped(f, s) \in Seq(T) /\ Len(Mapped(f, s)) = Len(s) /\ Len(s) \in Nat
           /\ \A i \in 1..Len(s) : Mapped(f, s)[i] = f[s[i]]
<1>1. DOMAIN s = 1..Len(s) /\ Len(s) \in Nat /\ \A i \in 1..Len(s) : s[i] \in S
  OBVIOUS
<1>2. \A i \in 1..Len(s) : f[s[i]] \in T
  BY <1>1 DEF Maps
<1> QED BY <1>1, <1>2 DEF Mapped

LEMMA MapConcat ==
    ASSUME NEW S, NEW T, NEW f \in Maps(S, T), NEW s \in Seq(S), NEW t \in Seq(S)
    PROVE  Mapped(f, s \o t) = Mapped(f, s) \o Mapped(f, t)
<1> DEFINE a == Mapped(f, s)
           b == Mapped(f, t)
           st == s \o t
           c == Mapped(f, st)
           m == Len(s)
           n == Len(t)
<1>1. st \in Seq(S) /\ Len(st) = m + n /\ m \in Nat /\ n \in Nat
  BY ConcatType
<1>2. /\ a \in Seq(T) /\ b \in Seq(T) /\ c \in Seq(T)
      /\ Len(a) = m /\ Len(b) = n /\ Len(c) = m + n
      /\ \A i \in 1..m : a[i] = f[s[i]]
      /\ \A i \in 1..n : b[i] = f[t[i]]
      /\ \A i \in 1..m + n : c[i] = f[st[i]]
  <2> HIDE DEF m, n, st
  <2>1. a \in Seq(T) /\ Len(a) = m /\ \A i \in 1..m : a[i] = f[s[i]]
    BY MapType DEF m
  <2>2. b \in Seq(T) /\ Len(b) = n /\ \A i \in 1..n : b[i] = f[t[i]]
    BY MapType DEF n
  <2>0. \A r \in Seq(S) : /\ Mapped(f, r) \in Seq(T) /\ Len(Mapped(f, r)) = Len(r)
                          /\ \A i \in 1..Len(r) : Mapped(f, r)[i] = f[r[i]]
    BY MapType
  <2>3. c \in Seq(T) /\ Len(c) = Len(st) /\ \A i \in 1..Len(st) : c[i] = f[st[i]]
    BY <1>1, <2>0
  <2> QED BY <1>1, <2>1, <2>2, <2>3
<1>3. \A i \in 1..m + n : st[i] = IF i <= m THEN s[i] ELSE t[i - m]
  OBVIOUS
<1> HIDE DEF a, b, c, st, m, n
<1>4. a \o b \in Seq(T) /\ Len(a \o b) = m + n
  BY <1>2, ConcatType
<1>5. \A i \in 1..m + n : (a \o b)[i] = IF i <= m THEN a[i] ELSE b[i - m]
  BY <1>2, ConcatProperties
<1>6. ASSUME NEW i \in 1..m + n PROVE c[i] = (a \o b)[i]
  <2>1. CASE i <= m
    <3>1. i \in 1..m
      BY <1>1, <2>1
    <3>2. st[i] = s[i] /\ (a \o b)[i] = a[i]
      BY <1>3, <1>5, <2>1
    <3>3. a[i] = f[s[i]] /\ c[i] = f[st[i]]
      BY <1>2, <3>1
    <3> QED BY <3>2, <3>3
  <2>2. CASE ~(i <= m)
    <3>1. i - m \in 1..n
      BY <1>1, <2>2
    <3>2. st[i] = t[i - m] /\ (a \o b)[i] = b[i - m]
      BY <1>3, <1>5, <2>2
    <3>3. b[i - m] = f[t[i - m]] /\ c[i] = f[st[i]]
      BY <1>2, <3>1
    <3> QED BY <3>2, <3>3
  <2> QED BY <2>1, <2>2
<1>7. c = a \o b
  BY <1>2, <1>4, <1>6, SeqEqual
<1> QED BY <1>7 DEF a, b, c, st

LEMMA MapOne ==
    ASSUME NEW S, NEW T, NEW f \in Maps(S, T), NEW x \in S
    PROVE  Mapped(f, <<x>>) = <<f[x]>>
<1>1. Mapped(f, <<x>>) \in Seq(T) /\ Len(Mapped(f, <<x>>)) = 1 /\ Mapped(f, <<x>>)[1] = f[x]
  BY DEF Mapped, Maps
<1> DEFINE y == f[x]
           r == Mapped(f, <<x>>)
<1>2. r \in Seq(T) /\ Len(r) = 1 /\ r[1] = y
  BY <1>1
<1> HIDE DEF r, y
<1>3. r = <<y>>
  BY <1>2
<1> QED BY <1>3 DEF r, y

LEMMA MapEmpty == ASSUME NEW f PROVE Mapped(f, <<>>) = <<>>
  BY DEF Mapped

LEMMA FlattenMapConcat ==
    ASSUME NEW S, NEW T, NEW f \in Maps(S, Seq(T)), NEW s \in Seq(S), NEW t \in Seq(S)
    PROVE  /\ FlattenSeq(Mapped(f, s)) \in Seq(T)
           /\ FlattenSeq(Mapped(f, s \o t))
                = FlattenSeq(Mapped(f, s)) \o FlattenSeq(Mapped(f, t))
<1>1. Mapped(f, s) \in Seq(Seq(T)) /\ Mapped(f, t) \in Seq(Seq(T))
  BY MapType
<1>2. Mapped(f, s \o t) = Mapped(f, s) \o Mapped(f, t)
  BY MapConcat
<1> QED BY <1>1, <1>2, FlattenConcat, FlattenType

LEMMA FlattenMapOne ==
    ASSUME NEW S, NEW T, NEW f \in Maps(S, Seq(T)), NEW x \in S
    PROVE  FlattenSeq(Mapped(f, <<x>>)) = f[x]
<1>1. f[x] \in Seq(T)
  BY DEF Maps
<1>2. Mapped(f, <<x>>) = <<f[x]>>
  BY MapOne
<1> QED BY <1>1, <1>2, FlattenOne

\* What is made of single members, and what is made of none.
LEMMA FlattenSingles ==
    ASSUME NEW S, NEW T, NEW f \in Maps(S, Seq(T)), NEW g \in Maps(S, T),
           \A x \in S : f[x] = <<g[x]>>, NEW s \in Seq(S)
    PROVE  FlattenSeq(Mapped(f, s)) = Mapped(g, s)
<1> DEFINE P == {r \in Seq(S) : FlattenSeq(Mapped(f, r)) = Mapped(g, r)}
<1>1. <<>> \in P
  <2>1. <<>> \in Seq(S)
    OBVIOUS
  <2> QED BY <2>1, MapEmpty, FlattenEmpty
<1>2. ASSUME NEW r \in Seq(S), NEW x \in S, r \in P PROVE Append(r, x) \in P
  <2>1. Append(r, x) = r \o <<x>> /\ <<x>> \in Seq(S) /\ Append(r, x) \in Seq(S)
    OBVIOUS
  <2>2. FlattenSeq(Mapped(f, r \o <<x>>))
          = FlattenSeq(Mapped(f, r)) \o FlattenSeq(Mapped(f, <<x>>))
    <3>1. \A u \in Seq(S) : FlattenSeq(Mapped(f, r \o u))
                               = FlattenSeq(Mapped(f, r)) \o FlattenSeq(Mapped(f, u))
      BY FlattenMapConcat
    <3> QED BY <2>1, <3>1
  <2>3. Mapped(g, r \o <<x>>) = Mapped(g, r) \o Mapped(g, <<x>>)
    BY <2>1, MapConcat
  <2>4. FlattenSeq(Mapped(f, <<x>>)) = f[x] /\ Mapped(g, <<x>>) = <<g[x]>>
    BY FlattenMapOne, MapOne
  <2>5. FlattenSeq(Mapped(f, r)) = Mapped(g, r)
    BY <1>2
  <2> QED BY <2>1, <2>2, <2>3, <2>4, <2>5
<1> HIDE DEF P
<1>3. Seq(S) \subseteq P
  BY <1>1, <1>2, SequenceInduction
<1> QED BY <1>3 DEF P

LEMMA FlattenNothing ==
    ASSUME NEW S, NEW T, NEW f \in Maps(S, Seq(T)), \A x \in S : f[x] = <<>>, NEW s \in Seq(S)
    PROVE  FlattenSeq(Mapped(f, s)) = <<>>
<1> DEFINE P == {r \in Seq(S) : FlattenSeq(Mapped(f, r)) = <<>>}
<1>1. <<>> \in P
  <2>1. <<>> \in Seq(S)
    OBVIOUS
  <2> QED BY <2>1, MapEmpty, FlattenEmpty
<1>2. ASSUME NEW r \in Seq(S), NEW x \in S, r \in P PROVE Append(r, x) \in P
  <2>1. Append(r, x) = r \o <<x>> /\ <<x>> \in Seq(S) /\ Append(r, x) \in Seq(S)
    OBVIOUS
  <2>2. FlattenSeq(Mapped(f, r \o <<x>>))
          = FlattenSeq(Mapped(f, r)) \o FlattenSeq(Mapped(f, <<x>>))
    <3>1. \A u \in Seq(S) : FlattenSeq(Mapped(f, r \o u))
                               = FlattenSeq(Mapped(f, r)) \o FlattenSeq(Mapped(f, u))
      BY FlattenMapConcat
    <3> QED BY <2>1, <3>1
  <2>3. FlattenSeq(Mapped(f, <<x>>)) = <<>>
    BY FlattenMapOne
  <2>4. FlattenSeq(Mapped(f, r)) = <<>>
    BY <1>2
  <2>5. <<>> \o <<>> = <<>>
    OBVIOUS
  <2> QED BY <2>1, <2>2, <2>3, <2>4, <2>5
<1> HIDE DEF P
<1>3. Seq(S) \subseteq P
  BY <1>1, <1>2, SequenceInduction
<1> QED BY <1>3 DEF P
=============================================================================
