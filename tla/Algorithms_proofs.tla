------------------------- MODULE Algorithms_proofs --------------------------
(***************************************************************************)
(* Proofs about the functions the server computes with, for every input.   *)
(*                                                                         *)
(* A function the model defines by recursion is unfolded by hand: that it  *)
(* exists, and what it is, is shown by induction on a set of numbers       *)
(* (SetInduction), and what it gives for a sequence by induction on a set  *)
(* of sequences (SeqInduction).                                            *)
(***************************************************************************)
EXTENDS Algorithms, FiniteSetTheorems, SequenceTheorems, WellFoundedInduction, TLAPS

(* Numbers.                                                                *)

LEMMA LeastNat ==
    ASSUME NEW T \in SUBSET Nat, T # {}
    PROVE  \E n \in T : \A m \in T : n <= m
<1> DEFINE R == OpToRel(<, Nat)
<1>1. IsWellFoundedOn(R, Nat)
  BY NatLessThanWellFounded
<1>2. R = {ss \in Nat \X Nat : ss[1] < ss[2]}
  BY DEF OpToRel
<1> HIDE DEF R
<1>3. PICK n \in T : \A m \in T : ~ (<<m, n>> \in R)
  BY <1>1, WFMin
<1>4. ASSUME NEW m \in T PROVE n <= m
  <2>1. n \in Nat /\ m \in Nat /\ (m < n => <<m, n>> \in R)
    BY <1>2
  <2> QED BY <1>3, <2>1
<1> QED BY <1>4

LEMMA GreatestNat ==
    ASSUME NEW T \in SUBSET Nat, T # {}, NEW b \in Nat, \A n \in T : n <= b
    PROVE  \E n \in T : \A m \in T : m <= n
<1> DEFINE B == {k \in Nat : \A n \in T : n <= k}
<1>1. PICK k \in B : \A m \in B : k <= m
  BY LeastNat
<1>2. CASE k \in T
  BY <1>1, <1>2
<1>3. CASE k \notin T
  <2>1. PICK n \in T : TRUE
    OBVIOUS
  <2>2. \A m \in T : m <= k /\ m # k
    BY <1>1, <1>3
  <2>3. k > 0
    BY <1>1, <2>1, <2>2
  <2>4. k - 1 \in B
    BY <1>1, <2>2, <2>3
  <2> QED BY <1>1, <2>4
<1> QED BY <1>2, <1>3

LEMMA SetInduction ==
    ASSUME NEW T, 0 \in T, \A n \in Nat : n \in T => n + 1 \in T
    PROVE  Nat \subseteq T
<1> SUFFICES ASSUME Nat \ T # {} PROVE FALSE
  OBVIOUS
<1>1. PICK n \in Nat \ T : \A m \in Nat \ T : n <= m
  BY LeastNat
<1>2. n # 0 /\ n - 1 \in Nat /\ ~ (n <= n - 1)
  BY <1>1
<1>3. n - 1 \in T
  BY <1>1, <1>2
<1> QED BY <1>2, <1>3

LEMMA MinOfTwo ==
    ASSUME NEW a \in Int, NEW b \in Int
    PROVE  Min({a, b}) = IF a <= b THEN a ELSE b
<1>1. \E x \in {a, b} : \A y \in {a, b} : x <= y
  OBVIOUS
<1>2. Min({a, b}) \in {a, b} /\ \A y \in {a, b} : Min({a, b}) <= y
  BY <1>1 DEF Min
<1> QED BY <1>2

LEMMA MaxOfTwo ==
    ASSUME NEW a \in Int, NEW b \in Int
    PROVE  Max({a, b}) = IF a >= b THEN a ELSE b
<1>1. \E x \in {a, b} : \A y \in {a, b} : x >= y
  OBVIOUS
<1>2. Max({a, b}) \in {a, b} /\ \A y \in {a, b} : Max({a, b}) >= y
  BY <1>1 DEF Max
<1> QED BY <1>2

\* What SelectInSeq finds, of the places where something holds.
LEMMA FirstPlace ==
    ASSUME NEW n \in Nat, NEW I \in SUBSET (1 .. n)
    PROVE  LET k == IF I # {} THEN Min(I) ELSE 0
           IN  /\ k = 0 => I = {}
               /\ k # 0 => k \in I /\ \A j \in I : k <= j
<1>1. CASE I # {}
  <2>1. \E k \in I : \A j \in I : k <= j
    BY <1>1, LeastNat
  <2>2. Min(I) \in I /\ \A j \in I : Min(I) <= j
    BY <2>1 DEF Min
  <2> QED BY <1>1, <2>2
<1>2. CASE I = {}
  BY <1>2
<1> QED BY <1>1, <1>2

\* What FlattenSeq computes on the way to its result.
Flattens(f, ss, n) ==
    /\ f = [i \in 1 .. n |-> f[i]]
    /\ \A i \in 1 .. n : f[i] = IF i = 1 THEN ss[i] ELSE f[i - 1] \o ss[i]

LEMMA FlattenUnfolds ==
    ASSUME NEW ss, NEW n \in Nat \ {0}, Len(ss) = n
    PROVE  \E f : Flattens(f, ss, n) /\ FlattenSeq(ss) = f[n]
<1> DEFINE T == {m \in Nat : \E f : Flattens(f, ss, m)}
           Body(f) == [i \in 1 .. n |-> IF i = 1 THEN ss[i] ELSE f[i - 1] \o ss[i]]
<1>1. 0 \in T
  <2>1. Flattens([i \in 1 .. 0 |-> ss[i]], ss, 0)
    BY DEF Flattens
  <2> QED BY <2>1
<1>2. ASSUME NEW m \in Nat, m \in T PROVE m + 1 \in T
  <2>1. PICK f : Flattens(f, ss, m)
    BY <1>2
  <2> DEFINE g == [i \in 1 .. m + 1 |-> IF i = m + 1
                                         THEN IF m = 0 THEN ss[1] ELSE f[m] \o ss[i]
                                         ELSE f[i]]
  <2>2. ASSUME NEW i \in 1 .. m + 1
        PROVE  g[i] = IF i = 1 THEN ss[i] ELSE g[i - 1] \o ss[i]
    <3>1. CASE i = m + 1
      BY <3>1
    <3>2. CASE i # m + 1
      <4>1. i \in 1 .. m /\ (i # 1 => i - 1 \in 1 .. m /\ i - 1 # m + 1)
        BY <3>2
      <4>2. g[i] = f[i] /\ (i # 1 => g[i - 1] = f[i - 1])
        BY <4>1
      <4> QED BY <2>1, <4>1, <4>2 DEF Flattens
    <3> QED BY <3>1, <3>2
  <2>3. g = [i \in 1 .. m + 1 |-> g[i]]
    OBVIOUS
  <2> HIDE DEF g
  <2>4. Flattens(g, ss, m + 1)
    BY <2>2, <2>3 DEF Flattens
  <2> QED BY <2>4
<1>3. Nat \subseteq T
  <2> HIDE DEF T
  <2> QED BY <1>1, <1>2, SetInduction
<1>4. PICK g : Flattens(g, ss, n)
  BY <1>3
<1>5. g = Body(g)
  BY <1>4 DEF Flattens
<1>6. FlattenSeq(ss) = (CHOOSE f : f = Body(f))[n]
  BY DEF FlattenSeq
<1> DEFINE flatten == CHOOSE f : f = Body(f)
<1>7. flatten = Body(flatten)
  BY <1>5
<1> HIDE DEF flatten
<1>8. Flattens(flatten, ss, n)
  BY <1>7 DEF Flattens
<1> QED BY <1>6, <1>8 DEF flatten

LEMMA SeqInduction ==
    ASSUME NEW S, NEW T, <<>> \in T, \A s \in Seq(S) : \A e \in S : s \in T => Append(s, e) \in T
    PROVE  Seq(S) \subseteq T
<1> DEFINE N == {n \in Nat : \A s \in Seq(S) : Len(s) = n => s \in T}
<1>1. 0 \in N
  <2>1. \A s \in Seq(S) : Len(s) = 0 => s = <<>>
    OBVIOUS
  <2> QED BY <2>1
<1>2. ASSUME NEW n \in Nat, n \in N PROVE n + 1 \in N
  <2> SUFFICES ASSUME NEW t \in Seq(S), Len(t) = n + 1 PROVE t \in T
    OBVIOUS
  <2>1. t # <<>>
    OBVIOUS
  <2>2. PICK s \in Seq(S), e \in S : t = Append(s, e)
    BY <2>1, SequenceEmptyOrAppend
  <2>3. Len(s) \in Nat /\ Len(t) = Len(s) + 1
    BY <2>2, AppendProperties
  <2> QED BY <1>2, <2>2, <2>3
<1>3. Nat \subseteq N
  <2> HIDE DEF N
  <2> QED BY <1>1, <1>2, SetInduction
<1>4. \A s \in Seq(S) : Len(s) \in Nat
  OBVIOUS
<1> QED BY <1>3, <1>4

\* The set-membership parts of AppendProperties, as one fact.
Appended(s, e, t, S) ==
    /\ t \in Seq(S) /\ Len(t) = Len(s) + 1 /\ Len(s) \in Nat
    /\ \A i \in 1 .. Len(s) : t[i] = s[i]
    /\ t[Len(s) + 1] = e

LEMMA AppendIs ==
    ASSUME NEW S, NEW s \in Seq(S), NEW e \in S
    PROVE  Appended(s, e, Append(s, e), S)
<1> DEFINE t == Append(s, e)
<1>1. t \in Seq(S)
  BY AppendProperties
<1>2. Len(t) = Len(s) + 1
  BY AppendProperties
<1>3. \A i \in 1 .. Len(s) : t[i] = s[i]
  BY AppendProperties
<1>4. t[Len(s) + 1] = e
  BY AppendProperties
<1>5. Len(s) \in Nat
  OBVIOUS
<1> HIDE DEF t
<1>6. Appended(s, e, t, S)
  BY <1>1, <1>2, <1>3, <1>4, <1>5 DEF Appended
<1> QED BY <1>6 DEF t

\* The same for FlattenSeq, a piece at a time.
LEMMA FlattenOne ==
    ASSUME NEW x
    PROVE  FlattenSeq(<<x>>) = x
<1> DEFINE ss == <<x>>
<1>1. Len(ss) = 1 /\ ss[1] = x /\ 1 \in Nat \ {0}
  OBVIOUS
<1> HIDE DEF ss
<1>2. PICK f : Flattens(f, ss, 1) /\ FlattenSeq(ss) = f[1]
  BY <1>1, FlattenUnfolds
<1>3. FlattenSeq(ss) = x
  BY <1>1, <1>2 DEF Flattens
<1> QED BY <1>3 DEF ss

LEMMA FlattenAppend ==
    ASSUME NEW S, NEW ss \in Seq(Seq(S)), ss # <<>>, NEW x \in Seq(S)
    PROVE  /\ FlattenSeq(ss) \in Seq(S)
           /\ FlattenSeq(Append(ss, x)) = FlattenSeq(ss) \o x
<1> DEFINE n == Len(ss)
           tt == Append(ss, x)
<1>1. n \in Nat \ {0}
  OBVIOUS
<1>2. Appended(ss, x, tt, Seq(S))
  BY AppendIs
<1> HIDE DEF n, tt
<1>3. /\ Len(tt) = n + 1 /\ \A i \in 1 .. n : tt[i] = ss[i] /\ ss[i] \in Seq(S)
      /\ tt[n + 1] = x
  <2>1. Len(tt) = n + 1 /\ (\A i \in 1 .. n : tt[i] = ss[i]) /\ tt[n + 1] = x
    BY <1>2 DEF Appended, n
  <2>2. \A i \in 1 .. n : ss[i] \in Seq(S)
    BY ElementOfSeq DEF n
  <2> QED BY <2>1, <2>2
<1>4. PICK f : Flattens(f, ss, n) /\ FlattenSeq(ss) = f[n]
  BY <1>1, FlattenUnfolds DEF n
<1>5. PICK g : Flattens(g, tt, n + 1) /\ FlattenSeq(tt) = g[n + 1]
  <2>1. n + 1 \in Nat \ {0}
    BY <1>1
  <2> QED BY <1>3, <2>1, FlattenUnfolds
<1>6. \A i \in 1 .. n : f[i] = IF i = 1 THEN ss[i] ELSE f[i - 1] \o ss[i]
  BY <1>4 DEF Flattens
<1>7. \A i \in 1 .. n + 1 : g[i] = IF i = 1 THEN tt[i] ELSE g[i - 1] \o tt[i]
  BY <1>5 DEF Flattens
<1> DEFINE T == {m \in Nat : m \in 1 .. n => f[m] = g[m] /\ f[m] \in Seq(S)}
<1>8. ASSUME NEW m \in Nat, m \in T PROVE m + 1 \in T
  <2> SUFFICES ASSUME m + 1 \in 1 .. n PROVE f[m + 1] = g[m + 1] /\ f[m + 1] \in Seq(S)
    OBVIOUS
  <2>1. (m + 1) - 1 = m /\ m + 1 \in 1 .. n + 1
    BY <1>1
  <2>2. CASE m = 0
    <3>1. m + 1 = 1 /\ 1 \in 1 .. n /\ 1 \in 1 .. n + 1
      BY <1>1, <2>2
    <3>2. f[1] = ss[1] /\ g[1] = tt[1]
      BY <1>6, <1>7, <3>1
    <3> QED BY <1>3, <3>1, <3>2
  <2>3. CASE m # 0
    <3>1. m + 1 # 1 /\ m \in 1 .. n
      BY <1>1, <2>3
    <3>2. f[m + 1] = f[m] \o ss[m + 1] /\ g[m + 1] = g[m] \o ss[m + 1]
      BY <1>3, <1>6, <1>7, <2>1, <3>1
    <3>3. f[m] = g[m] /\ f[m] \in Seq(S) /\ ss[m + 1] \in Seq(S)
      BY <1>3, <1>8, <3>1
    <3>4. f[m] \o ss[m + 1] \in Seq(S)
      BY <3>3, ConcatProperties
    <3> QED BY <3>2, <3>3, <3>4
  <2> QED BY <2>2, <2>3
<1>9. Nat \subseteq T
  <2>1. 0 \in T
    OBVIOUS
  <2> HIDE DEF T
  <2> QED BY <1>8, <2>1, SetInduction
<1>10. f[n] = g[n] /\ f[n] \in Seq(S)
  BY <1>1, <1>9
<1>11. g[n + 1] = g[n] \o x
  <2>1. n + 1 \in 1 .. n + 1 /\ n + 1 # 1 /\ (n + 1) - 1 = n
    BY <1>1
  <2> QED BY <1>3, <1>7, <2>1
<1> QED BY <1>4, <1>5, <1>10, <1>11 DEF tt

LEMMA PageBounds ==
    ASSUME NEW k \in Nat \ {0}, NEW size \in Nat \ {0}
    PROVE  /\ (k - 1) * size \in Nat /\ k * size \in Nat
           /\ (k - 1) * size + size = k * size /\ k * size >= k
           /\ (k + 1 - 1) * size = k * size
OBVIOUS

-----------------------------------------------------------------------------
(* Reading part of a file.                                                 *)

\* The characters of a text: the provers do not know a literal for a string.
Chars == STRING \union {Newline}
Lines == Seq(Seq(Chars))

LEMMA NewlinesAre ==
    ASSUME NEW text \in Seq(Chars)
    PROVE  /\ Newlines(text) \in Nat
           /\ text = <<>> => Newlines(text) = 0
<1> DEFINE I == {i \in DOMAIN text : text[i] = Newline}
<1>1. IsFiniteSet(1 .. Len(text))
  BY FS_Interval
<1>2. I \in SUBSET (1 .. Len(text))
  OBVIOUS
<1> HIDE DEF I
<1>3. IsFiniteSet(I)
  BY <1>1, <1>2, FS_Subset
<1>4. Cardinality(I) \in Nat
  BY <1>3, FS_CardinalityType
<1>5. ASSUME text = <<>> PROVE Cardinality(I) = 0
  <2>1. I = {}
    BY <1>2, <1>5
  <2> QED BY <2>1, FS_EmptySet
<1> QED BY <1>4, <1>5 DEF Newlines, I

Ends(c) == IF c = Newline THEN 1 ELSE 0

LEMMA NewlinesAppend ==
    ASSUME NEW text \in Seq(Chars), NEW c \in Chars
    PROVE  Newlines(Append(text, c)) = Newlines(text) + Ends(c)
<1> DEFINE t == Append(text, c)
           n == Len(text)
           I == {i \in 1 .. n : text[i] = Newline}
           J == {i \in 1 .. n + 1 : t[i] = Newline}
<1>1. Appended(text, c, t, Chars)
  BY AppendIs
<1> HIDE DEF t
<1>2. /\ t \in Seq(Chars) /\ Len(t) = n + 1 /\ n \in Nat
      /\ (\A i \in 1 .. n : t[i] = text[i]) /\ t[n + 1] = c
  BY <1>1 DEF Appended
<1>3. Newlines(text) = Cardinality(I) /\ Newlines(t) = Cardinality(J)
  <2>1. DOMAIN text = 1 .. n /\ DOMAIN t = 1 .. n + 1
    BY <1>2
  <2> QED BY <2>1 DEF Newlines
<1>4. IsFiniteSet(I)
  <2>1. IsFiniteSet(1 .. n) /\ I \in SUBSET (1 .. n)
    BY <1>2, FS_Interval
  <2> HIDE DEF I
  <2> QED BY <2>1, FS_Subset
<1>7. \A i : i \in 1 .. n + 1 <=> i \in 1 .. n \/ i = n + 1
  BY <1>2
<1>8. n + 1 \notin 1 .. n
  BY <1>2
<1>5. CASE c = Newline
  <2>1. J = I \union {n + 1} /\ n + 1 \notin I
    <3> HIDE DEF n
    <3> QED BY <1>2, <1>5, <1>7, <1>8
  <2> HIDE DEF I, J
  <2>2. Cardinality(J) = Cardinality(I) + 1
    BY <1>4, <2>1, FS_AddElement
  <2> QED BY <1>3, <1>5, <2>2 DEF Ends, t
<1>6. CASE c # Newline
  <2>1. J = I
    <3> HIDE DEF n
    <3> QED BY <1>2, <1>6, <1>7, <1>8
  <2>2. Cardinality(I) \in Nat
    <3> HIDE DEF I
    <3> QED BY <1>4, FS_CardinalityType
  <2> HIDE DEF I, J
  <2> QED BY <1>3, <1>6, <2>1, <2>2 DEF Ends, t
<1> QED BY <1>5, <1>6

\* The pieces of a join, each but the first with the line feed before it.
Glued(lines) == [i \in DOMAIN lines |-> IF i = 1 THEN lines[i] ELSE <<Newline>> \o lines[i]]

Fed(l) == <<Newline>> \o l

LEMMA FedIsText ==
    ASSUME NEW l \in Seq(Chars)
    PROVE  Fed(l) \in Seq(Chars) /\ <<Newline>> \in Seq(Chars)
<1>2. Newline \in Chars
  BY DEF Chars
<1>1. <<Newline>> \in Seq(Chars)
  BY <1>2
<1> QED BY <1>1, ConcatProperties DEF Fed

LEMMA GluedLines ==
    ASSUME NEW lines \in Lines
    PROVE  Glued(lines) \in Lines /\ Len(Glued(lines)) = Len(lines)
<1> DEFINE n == Len(lines)
           g == Glued(lines)
<1>1. n \in Nat /\ DOMAIN lines = 1 .. n
  BY DEF Lines
<1>2. \A i \in 1 .. n : lines[i] \in Seq(Chars)
  BY ElementOfSeq DEF Lines
<1>3. \A i \in 1 .. n : g[i] \in Seq(Chars)
  <2> SUFFICES ASSUME NEW i \in 1 .. n PROVE g[i] \in Seq(Chars)
    OBVIOUS
  <2>1. g[i] = lines[i] \/ g[i] = Fed(lines[i])
    BY <1>1 DEF Glued, Fed
  <2> QED BY <1>2, <2>1, FedIsText
<1>4. DOMAIN g = 1 .. n /\ g = [i \in 1 .. n |-> g[i]]
  BY <1>1 DEF Glued
<1> HIDE DEF g, n
<1>5. g \in [1 .. n -> Seq(Chars)]
  BY <1>3, <1>4
<1> QED BY <1>1, <1>4, <1>5 DEF Lines, g, n

LEMMA JoinedOne ==
    ASSUME NEW l \in Seq(Chars)
    PROVE  Joined(<<l>>) = l
<1>1. Glued(<<l>>) = <<l>>
  BY DEF Glued
<1>2. Joined(<<l>>) = FlattenSeq(Glued(<<l>>))
  BY DEF Joined, Glued
<1> QED BY <1>1, <1>2, FlattenOne

LEMMA JoinedNone == Joined(<<>>) = <<>>
<1> DEFINE ss == Glued(<<>>)
<1>1. ss = <<>> /\ Len(ss) = 0
  BY DEF Glued
<1> HIDE DEF ss
<1>2. FlattenSeq(ss) = <<>>
  BY <1>1 DEF FlattenSeq
<1> QED BY <1>2 DEF Joined, ss, Glued

LEMMA JoinedAppend ==
    ASSUME NEW u \in Lines, u # <<>>, NEW l \in Seq(Chars)
    PROVE  Joined(u) \in Seq(Chars) /\ Joined(Append(u, l)) = Joined(u) \o Fed(l)
<1> DEFINE n == Len(u)
           v == Append(u, l)
<1>1. Appended(u, l, v, Seq(Chars))
  BY AppendIs DEF Lines
<1>2. n \in Nat \ {0} /\ DOMAIN u = 1 .. n
  BY DEF Lines
<1>3. Glued(u) \in Lines /\ Len(Glued(u)) = n /\ Fed(l) \in Seq(Chars)
  BY GluedLines, FedIsText
<1> HIDE DEF v, n
<1>4. /\ v \in Lines /\ Len(v) = n + 1 /\ DOMAIN v = 1 .. n + 1
      /\ (\A i \in 1 .. n : v[i] = u[i]) /\ v[n + 1] = l
  BY <1>1, <1>2 DEF Appended, Lines, n
<1>5. Glued(v) \in Lines /\ Len(Glued(v)) = n + 1
  BY <1>4, GluedLines
<1> DEFINE w == Append(Glued(u), Fed(l))
<1>6. Appended(Glued(u), Fed(l), w, Seq(Chars))
  BY <1>3, AppendIs DEF Lines
<1> HIDE DEF w
<1>7. /\ w \in Lines /\ Len(w) = n + 1
      /\ (\A i \in 1 .. n : w[i] = Glued(u)[i]) /\ w[n + 1] = Fed(l)
  BY <1>3, <1>6 DEF Appended, Lines
<1>8. ASSUME NEW i \in 1 .. n + 1 PROVE Glued(v)[i] = w[i]
  <2>1. CASE i = n + 1
    <3>1. Glued(v)[i] = <<Newline>> \o v[i]
      BY <1>2, <1>4, <2>1 DEF Glued
    <3> QED BY <1>4, <1>7, <2>1, <3>1 DEF Fed
  <2>2. CASE i # n + 1
    <3>1. i \in 1 .. n
      BY <1>2, <2>2
    <3> QED BY <1>2, <1>4, <1>7, <3>1 DEF Glued
  <2> QED BY <2>1, <2>2
<1>9. Glued(v) = w
  BY <1>5, <1>7, <1>8, SeqEqual DEF Lines
<1>10. Glued(u) # <<>>
  BY <1>2, <1>3
<1>11. /\ FlattenSeq(Glued(u)) \in Seq(Chars)
       /\ FlattenSeq(w) = FlattenSeq(Glued(u)) \o Fed(l)
  BY <1>3, <1>10, FlattenAppend DEF w, Lines
<1>12. Joined(u) = FlattenSeq(Glued(u)) /\ Joined(v) = FlattenSeq(Glued(v))
  BY DEF Joined, Glued
<1> QED BY <1>9, <1>11, <1>12 DEF v

LEMMA JoinedConcat ==
    ASSUME NEW u \in Lines, u # <<>>, NEW v \in Lines, v # <<>>
    PROVE  Joined(u \o v) = Joined(u) \o Fed(Joined(v))
<1> DEFINE T == {w \in Lines : w # <<>> => Joined(u \o w) = Joined(u) \o Fed(Joined(w))}
<1>1. <<>> \in T
  BY DEF Lines
<1>2. ASSUME NEW w \in Lines, NEW l \in Seq(Chars), w \in T PROVE Append(w, l) \in T
  <2>1. Append(w, l) \in Lines
    BY AppendProperties DEF Lines
  <2>2. u \o Append(w, l) = Append(u \o w, l)
    <3>1. Append(w, l) = w \o <<l>>
      BY AppendIsConcat DEF Lines
    <3>2. u \o w \in Seq(Seq(Chars))
      BY ConcatProperties DEF Lines
    <3>3. Append(u \o w, l) = (u \o w) \o <<l>>
      BY <3>2, AppendIsConcat
    <3>4. <<l>> \in Seq(Seq(Chars))
      OBVIOUS
    <3>5. (u \o w) \o <<l>> = u \o (w \o <<l>>)
      <4>1. u \in Seq(Seq(Chars)) /\ w \in Seq(Seq(Chars))
        BY DEF Lines
      <4> DEFINE x == <<l>>
                 L == Seq(Chars)
      <4>2. u \in Seq(L) /\ w \in Seq(L) /\ x \in Seq(L)
        BY <3>4, <4>1
      <4> HIDE DEF x, L
      <4>3. (u \o w) \o x = u \o (w \o x)
        BY <4>2, ConcatAssociative
      <4> QED BY <4>3 DEF x
    <3> QED BY <3>1, <3>3, <3>5
  <2>3. Joined(u) \in Seq(Chars) /\ Fed(l) \in Seq(Chars)
    BY JoinedAppend, FedIsText
  <2>4. CASE w = <<>>
    <3>1. Append(w, l) = <<l>> /\ u \o w = u
      <4>1. u \o <<>> = u
        BY ConcatEmptySeq DEF Lines
      <4>2. Append(<<>>, l) = <<l>>
        OBVIOUS
      <4> QED BY <2>4, <4>1, <4>2
    <3>2. Joined(Append(u, l)) = Joined(u) \o Fed(l)
      BY JoinedAppend
    <3>3. Joined(<<l>>) = l
      BY JoinedOne
    <3> QED BY <2>1, <2>2, <3>1, <3>2, <3>3
  <2>5. CASE w # <<>>
    <3>1. Joined(u \o w) = Joined(u) \o Fed(Joined(w))
      BY <1>2, <2>5
    <3>2. Joined(w) \in Seq(Chars) /\ Joined(Append(w, l)) = Joined(w) \o Fed(l)
      BY <2>5, JoinedAppend
    <3>3. u \o w \in Lines /\ u \o w # <<>>
      <4>1. u \o w \in Lines
        BY ConcatProperties DEF Lines
      <4>2. u \o w # <<>>
        BY ConcatEqualIffEmpty DEF Lines
      <4> QED BY <4>1, <4>2
    <3>4. Joined(Append(u \o w, l)) = Joined(u \o w) \o Fed(l)
      BY <3>3, JoinedAppend
    <3>5. Fed(Joined(w)) \in Seq(Chars) /\ <<Newline>> \in Seq(Chars)
      BY <3>2, FedIsText
    <3>6. (Joined(u) \o Fed(Joined(w))) \o Fed(l) = Joined(u) \o (Fed(Joined(w)) \o Fed(l))
      BY <2>3, <3>5, ConcatAssociative
    <3>7. (<<Newline>> \o Joined(w)) \o Fed(l) = <<Newline>> \o (Joined(w) \o Fed(l))
      BY <2>3, <3>2, <3>5, ConcatAssociative
    <3>8. Fed(Joined(w)) \o Fed(l) = Fed(Joined(Append(w, l)))
      BY <3>2, <3>7 DEF Fed
    <3> QED BY <2>1, <2>2, <3>1, <3>4, <3>6, <3>8
  <2> QED BY <2>4, <2>5
<1>3. Lines \subseteq T
  <2> HIDE DEF T
  <2> QED BY <1>1, <1>2, SeqInduction DEF Lines
<1> QED BY <1>3

LEMMA ConcatAppend ==
    ASSUME NEW S, NEW u \in Seq(S), NEW w \in Seq(S), NEW e \in S
    PROVE  u \o Append(w, e) = Append(u \o w, e)
<1> DEFINE x == <<e>>
<1>1. Append(w, e) = w \o x
  BY AppendIsConcat
<1>2. u \o w \in Seq(S)
  BY ConcatProperties
<1>3. Append(u \o w, e) = (u \o w) \o x
  BY <1>2, AppendIsConcat
<1>4. x \in Seq(S)
  OBVIOUS
<1> HIDE DEF x
<1>5. (u \o w) \o x = u \o (w \o x)
  BY <1>4, ConcatAssociative
<1> QED BY <1>1, <1>3, <1>5

LEMMA PrefixNext ==
    ASSUME NEW S, NEW text \in Seq(S), NEW i \in Nat, i < Len(text)
    PROVE  /\ SubSeq(text, 1, i) \in Seq(S) /\ text[i + 1] \in S
           /\ SubSeq(text, 1, i + 1) = Append(SubSeq(text, 1, i), text[i + 1])
<1>1. Len(text) \in Nat /\ 1 \in 1 .. Len(text) /\ i + 1 \in 1 .. Len(text) /\ (i + 1) - 1 = i
  OBVIOUS
<1>2. text[i + 1] \in S
  BY <1>1, ElementOfSeq
<1>3. SubSeq(text, 1, i) \in Seq(S)
  <2>1. \A j \in 1 .. i : text[j] \in S
    BY <1>1, ElementOfSeq
  <2> QED BY <2>1, SubSeqProperties
<1>4. SubSeq(text, 1, i + 1) = SubSeq(text, 1, (i + 1) - 1) \o <<text[i + 1]>>
  BY <1>1, SubSeqRecursiveSecond
<1> DEFINE p == SubSeq(text, 1, i)
           e == text[i + 1]
<1>5. Append(p, e) = p \o <<e>>
  <2> HIDE DEF p, e
  <2>1. p \in Seq(S) /\ e \in S
    BY <1>2, <1>3 DEF p, e
  <2> QED BY <2>1, AppendIsConcat
<1> QED BY <1>1, <1>2, <1>3, <1>4, <1>5

\* What Pieces computes on the way to its result.
Splitting(f, text, n) ==
    /\ f = [i \in 0 .. n |-> f[i]]
    /\ \A i \in 0 .. n :
         f[i] = IF i = 0 THEN << <<>> >>
                ELSE IF text[i] = Newline THEN Append(f[i - 1], <<>>)
                ELSE [f[i - 1] EXCEPT ![Len(f[i - 1])] = Append(@, text[i])]

LEMMA PiecesUnfold ==
    ASSUME NEW text, NEW n \in Nat, Len(text) = n
    PROVE  \E f : Splitting(f, text, n) /\ Pieces(text) = f[n]
<1> DEFINE T == {m \in Nat : \E f : Splitting(f, text, m)}
           Grown(p, i) == IF text[i] = Newline THEN Append(p, <<>>)
                          ELSE [p EXCEPT ![Len(p)] = Append(@, text[i])]
           Body(f) == [i \in 0 .. n |-> IF i = 0 THEN << <<>> >> ELSE Grown(f[i - 1], i)]
<1>1. 0 \in T
  <2> DEFINE g == [i \in 0 .. 0 |-> << <<>> >>]
  <2>1. g = [i \in 0 .. 0 |-> g[i]] /\ \A i \in 0 .. 0 : i = 0 /\ g[i] = << <<>> >>
    OBVIOUS
  <2> HIDE DEF g
  <2>2. Splitting(g, text, 0)
    BY <2>1 DEF Splitting
  <2> QED BY <2>2
<1>2. ASSUME NEW m \in Nat, m \in T PROVE m + 1 \in T
  <2>1. PICK f : Splitting(f, text, m)
    BY <1>2
  <2>2. \A i \in 0 .. m : f[i] = IF i = 0 THEN << <<>> >> ELSE Grown(f[i - 1], i)
    BY <2>1 DEF Splitting
  <2> DEFINE g == [i \in 0 .. m + 1 |-> IF i = m + 1 THEN Grown(f[m], i) ELSE f[i]]
  <2> HIDE DEF Grown
  <2>3. ASSUME NEW i \in 0 .. m + 1
        PROVE  g[i] = IF i = 0 THEN << <<>> >> ELSE Grown(g[i - 1], i)
    <3>1. CASE i = m + 1
      <4>1. i # 0 /\ i - 1 = m /\ m \in 0 .. m + 1 /\ m # m + 1
        BY <3>1
      <4>2. g[i] = Grown(f[m], i) /\ g[i - 1] = f[m]
        BY <3>1, <4>1
      <4> HIDE DEF g
      <4> QED BY <4>1, <4>2
    <3>2. CASE i # m + 1
      <4>1. i \in 0 .. m /\ (i # 0 => i - 1 \in 0 .. m /\ i - 1 # m + 1)
        BY <3>2
      <4>2. g[i] = f[i] /\ (i # 0 => g[i - 1] = f[i - 1])
        BY <4>1
      <4> HIDE DEF g
      <4> QED BY <2>2, <4>1, <4>2
    <3> QED BY <3>1, <3>2
  <2>4. g = [i \in 0 .. m + 1 |-> g[i]]
    OBVIOUS
  <2> HIDE DEF g
  <2>5. Splitting(g, text, m + 1)
    BY <2>3, <2>4 DEF Splitting, Grown
  <2> QED BY <2>5
<1>3. Nat \subseteq T
  <2> HIDE DEF T
  <2> QED BY <1>1, <1>2, SetInduction
<1>4. PICK g : Splitting(g, text, n)
  BY <1>3
<1>5. g = Body(g)
  BY <1>4 DEF Splitting
<1>6. Pieces(text) = (CHOOSE f : f = Body(f))[n]
  BY DEF Pieces
<1> DEFINE upto == CHOOSE f : f = Body(f)
<1>7. upto = Body(upto)
  <2> HIDE DEF Body
  <2> QED BY <1>5
<1> HIDE DEF upto
<1>8. Splitting(upto, text, n)
  BY <1>7 DEF Splitting
<1> QED BY <1>6, <1>8 DEF upto

\* The last piece grows, and the join with it.
LEMMA JoinedGrows ==
    ASSUME NEW p \in Lines, p # <<>>, NEW c \in Chars
    PROVE  LET q == [p EXCEPT ![Len(p)] = Append(@, c)]
           IN  q \in Lines /\ Len(q) = Len(p) /\ Joined(q) = Append(Joined(p), c)
<1> DEFINE L == Seq(Chars)
           n == Len(p)
           q == [p EXCEPT ![n] = Append(@, c)]
<1>1. PICK s \in Seq(L), l \in L : p = Append(s, l)
  BY SequenceEmptyOrAppend DEF Lines
<1> DEFINE m == Append(l, c)
           t == Append(s, m)
<1>2. Appended(s, l, p, L)
  BY <1>1, AppendIs
<1>3. m \in L
  BY AppendProperties
<1> HIDE DEF m
<1>4. Appended(s, m, t, L)
  BY <1>3, AppendIs
<1> HIDE DEF L, t, n
<1>5. /\ p \in Seq(L) /\ n = Len(s) + 1 /\ Len(s) \in Nat /\ p[n] = l
      /\ \A i \in 1 .. Len(s) : p[i] = s[i]
  BY <1>2 DEF Appended, n
<1>6. /\ t \in Seq(L) /\ Len(t) = n /\ t[n] = m
      /\ \A i \in 1 .. Len(s) : t[i] = s[i]
  BY <1>4, <1>5 DEF Appended
<1>7. DOMAIN p = 1 .. n /\ n \in 1 .. n
  BY <1>5 DEF n
<1>8. q = [i \in 1 .. n |-> IF i = n THEN m ELSE p[i]]
  BY <1>5, <1>7 DEF m
<1>9. t = [i \in 1 .. n |-> t[i]]
  BY <1>6
<1>10. ASSUME NEW i \in 1 .. n PROVE t[i] = IF i = n THEN m ELSE p[i]
  <2>1. CASE i = n
    BY <1>6, <2>1
  <2>2. CASE i # n
    <3>1. i \in 1 .. Len(s)
      BY <1>5, <2>2
    <3> QED BY <1>5, <1>6, <2>2, <3>1
  <2> QED BY <2>1, <2>2
<1>11. q = t
  BY <1>8, <1>9, <1>10
<1>12. Joined(t) = Append(Joined(p), c)
  <2>1. CASE s = <<>>
    <3>1. p = <<l>> /\ t = <<m>>
      BY <1>1, <2>1 DEF t
    <3>2. Joined(p) = l /\ Joined(t) = m
      BY <1>3, <3>1, JoinedOne DEF L
    <3> QED BY <3>2 DEF m
  <2>2. CASE s # <<>>
    <3>1. s \in Lines
      BY DEF Lines, L
    <3>2. Joined(s) \in L /\ Joined(p) = Joined(s) \o Fed(l)
      BY <1>1, <2>2, <3>1, JoinedAppend DEF L
    <3>3. Joined(t) = Joined(s) \o Fed(m)
      BY <1>3, <2>2, <3>1, JoinedAppend DEF L, t
    <3>4. Fed(l) \in L /\ <<Newline>> \in L
      BY FedIsText DEF L
    <3>5. Fed(m) = Append(Fed(l), c)
      BY <3>4, ConcatAppend DEF Fed, L, m
    <3>6. Joined(s) \o Append(Fed(l), c) = Append(Joined(s) \o Fed(l), c)
      BY <3>2, <3>4, ConcatAppend DEF L
    <3> QED BY <3>2, <3>3, <3>5, <3>6
  <2> QED BY <2>1, <2>2
<1>13. q \in Lines /\ Len(q) = n /\ Joined(q) = Append(Joined(p), c)
  BY <1>6, <1>11, <1>12 DEF Lines, L
<1> QED BY <1>13 DEF n

\* p is the split of the first i characters.
Split(p, text, i) ==
    /\ p \in Lines
    /\ Len(p) = Newlines(SubSeq(text, 1, i)) + 1
    /\ Joined(p) = SubSeq(text, 1, i)
    /\ i # 0 /\ text[i] = Newline => p[Len(p)] = <<>>

LEMMA PiecesSplit ==
    ASSUME NEW text \in Seq(Chars)
    PROVE  Split(Pieces(text), text, Len(text))
<1> DEFINE n == Len(text)
<1>1. n \in Nat
  OBVIOUS
<1>2. PICK f : Splitting(f, text, n) /\ Pieces(text) = f[n]
  BY <1>1, PiecesUnfold
<1> DEFINE T == {m \in Nat : m <= n => Split(f[m], text, m)}
<1>3. 0 \in T
  <2> DEFINE p == << <<>> >>
  <2>1. f[0] = p
    BY <1>1, <1>2 DEF Splitting
  <2>2. p \in Lines /\ Len(p) = 1 /\ <<>> \in Seq(Chars)
    BY DEF Lines
  <2>3. Joined(p) = <<>>
    BY <2>2, JoinedOne
  <2> HIDE DEF p
  <2> DEFINE none == SubSeq(text, 1, 0)
  <2>4. none = <<>> /\ none \in Seq(Chars)
    BY SubSeqEmpty
  <2> HIDE DEF none
  <2>5. Newlines(none) = 0
    BY <2>4, NewlinesAre
  <2>6. Len(p) = Newlines(none) + 1 /\ Joined(p) = none
    BY <2>2, <2>3, <2>4, <2>5
  <2>7. Split(p, text, 0)
    BY <2>2, <2>6 DEF Split, none
  <2> QED BY <2>1, <2>7
<1>4. ASSUME NEW m \in Nat, m \in T PROVE m + 1 \in T
  <2> SUFFICES ASSUME m + 1 <= n PROVE Split(f[m + 1], text, m + 1)
    OBVIOUS
  <2> DEFINE p == f[m]
             q == f[m + 1]
             c == text[m + 1]
             before == SubSeq(text, 1, m)
             after == SubSeq(text, 1, m + 1)
  <2>1. q = IF c = Newline THEN Append(p, <<>>) ELSE [p EXCEPT ![Len(p)] = Append(@, c)]
    <3>1. m + 1 \in 0 .. n /\ m + 1 # 0 /\ (m + 1) - 1 = m
      BY <1>1
    <3> QED BY <1>2, <3>1 DEF Splitting
  <2>2. before \in Seq(Chars) /\ c \in Chars /\ after = Append(before, c)
    BY <1>1, PrefixNext
  <2>3. Split(p, text, m)
    BY <1>1, <1>4
  <2> HIDE DEF p, q, c, after
  <2>4. p \in Lines /\ Len(p) = Newlines(before) + 1 /\ Joined(p) = before
    BY <2>3 DEF Split
  <2> HIDE DEF before
  <2>5. Newlines(before) \in Nat /\ Newlines(after) = Newlines(before) + Ends(c)
    BY <2>2, NewlinesAre, NewlinesAppend
  <2>6. Len(p) \in Nat /\ Len(p) # 0 /\ p # <<>>
    BY <2>4, <2>5
  <2>7. CASE c = Newline
    <3>1. q = Append(p, <<>>) /\ <<>> \in Seq(Chars)
      BY <2>1, <2>7
    <3>2. Appended(p, <<>>, q, Seq(Chars))
      BY <2>4, <3>1, AppendIs DEF Lines
    <3>3. q \in Lines /\ Len(q) = Len(p) + 1 /\ q[Len(q)] = <<>>
      BY <3>2 DEF Appended, Lines
    <3>4. Joined(q) = Joined(p) \o Fed(<<>>)
      BY <2>4, <2>6, <3>1, JoinedAppend
    <3>5. Fed(<<>>) = <<Newline>>
      <4>1. <<Newline>> \in Seq(Chars)
        BY <3>1, FedIsText
      <4> QED BY <4>1, ConcatEmptySeq DEF Fed
    <3>6. Append(before, c) = before \o <<Newline>>
      BY <2>2, <2>7, AppendIsConcat
    <3>7. Len(q) = Newlines(after) + 1
      BY <2>4, <2>5, <2>7, <3>3 DEF Ends
    <3>8. Joined(q) = after
      BY <2>2, <2>4, <3>4, <3>5, <3>6
    <3> QED BY <3>3, <3>7, <3>8 DEF Split, q, after
  <2>8. CASE c # Newline
    <3>1. q = [p EXCEPT ![Len(p)] = Append(@, c)]
      BY <2>1, <2>8
    <3>2. q \in Lines /\ Len(q) = Len(p) /\ Joined(q) = Append(Joined(p), c)
      BY <2>2, <2>4, <2>6, <3>1, JoinedGrows
    <3>3. Len(q) = Newlines(after) + 1
      BY <2>4, <2>5, <2>8, <3>2 DEF Ends
    <3>4. Joined(q) = after
      BY <2>2, <2>4, <3>2
    <3> QED BY <2>8, <3>2, <3>3, <3>4 DEF Split, q, after, c
  <2> QED BY <2>7, <2>8
<1>5. Nat \subseteq T
  <2> HIDE DEF T
  <2> QED BY <1>3, <1>4, SetInduction
<1>6. Split(f[n], text, n)
  BY <1>1, <1>5
<1> QED BY <1>2, <1>6

LEMMA CutOf ==
    ASSUME NEW S, NEW s \in Seq(S), NEW a \in Nat, NEW b \in Nat, a <= b, b <= Len(s)
    PROVE  SubSeq(s, a + 1, b) \in Seq(S) /\ Len(SubSeq(s, a + 1, b)) = b - a
<1>1. \A i \in a + 1 .. b : s[i] \in S
  BY ElementOfSeq
<1>2. a + 1 \in Int /\ b \in Int /\ b - (a + 1) + 1 = b - a
      /\ (~ (a + 1 <= b) => b - a = 0)
  OBVIOUS
<1>3. SubSeq(s, a + 1, b) \in Seq(S)
  BY <1>1, <1>2, SubSeqProperties
<1>4. Len(SubSeq(s, a + 1, b)) = IF a + 1 <= b THEN b - (a + 1) + 1 ELSE 0
  BY <1>1, <1>2, SubSeqProperties
<1> QED BY <1>2, <1>3, <1>4

\* Two cuts of a sequence that meet are one.
LEMMA CutsMeet ==
    ASSUME NEW S, NEW s \in Seq(S), NEW a \in Nat, NEW b \in Nat, NEW c \in Nat,
           a <= b, b <= c, c <= Len(s)
    PROVE  SubSeq(s, a + 1, b) \o SubSeq(s, b + 1, c) = SubSeq(s, a + 1, c)
<1>1. /\ Len(s) \in Nat /\ a + 1 \in 1 .. Len(s) + 1
      /\ b \in (a + 1) - 1 .. Len(s) /\ c \in b .. Len(s)
  OBVIOUS
<1> QED BY <1>1, ConcatAdjacentSubSeq

\* The lines of a text joined in blocks, block k the lines after cut[k - 1]
\* up to cut[k], and the blocks then joined.
Blocks(cut, m, size) ==
    /\ cut \in [0 .. m -> Nat] /\ cut[0] = 0
    /\ \A k \in 1 .. m : cut[k - 1] < cut[k] /\ cut[k] <= size

BlocksOf(p, cut, m) == [k \in 1 .. m |-> Joined(SubSeq(p, cut[k - 1] + 1, cut[k]))]

LEMMA JoinedIsText ==
    ASSUME NEW u \in Lines
    PROVE  Joined(u) \in Seq(Chars)
<1>1. CASE u = <<>>
  <2>1. Joined(u) = <<>>
    BY <1>1, JoinedNone
  <2> DEFINE w == Joined(u)
  <2> HIDE DEF w
  <2>2. w = <<>>
    BY <2>1 DEF w
  <2>3. w \in Seq(Chars)
    BY <2>2
  <2> QED BY <2>3 DEF w
<1>2. CASE u # <<>>
  <2>1. <<>> \in Seq(Chars)
    OBVIOUS
  <2> QED BY <1>2, <2>1, JoinedAppend
<1> QED BY <1>1, <1>2

LEMMA JoinedInBlocks ==
    ASSUME NEW p \in Lines, NEW m \in Nat \ {0}, NEW cut, Blocks(cut, m, Len(p))
    PROVE  Joined(BlocksOf(p, cut, m)) = Joined(SubSeq(p, 1, cut[m]))
<1> DEFINE L == Seq(Chars)
           n == Len(p)
           q == BlocksOf(p, cut, m)
           upto(k) == SubSeq(p, 1, cut[k])
           first(k) == SubSeq(q, 1, k)
<1>1. n \in Nat /\ p \in Seq(L)
  BY DEF Lines
<1>2. /\ cut[0] = 0
      /\ \A k \in 0 .. m : cut[k] \in Nat
      /\ \A k \in 1 .. m : cut[k - 1] < cut[k] /\ cut[k] <= n
  BY DEF Blocks
<1> HIDE DEF L, n
<1>3. ASSUME NEW k \in 1 .. m
      PROVE  LET part == SubSeq(p, cut[k - 1] + 1, cut[k])
             IN  part \in Lines /\ part # <<>> /\ Joined(part) \in L /\ q[k] = Joined(part)
  <2> DEFINE part == SubSeq(p, cut[k - 1] + 1, cut[k])
             a == cut[k - 1]
             b == cut[k]
  <2>1. k - 1 \in 0 .. m /\ k \in 0 .. m
    OBVIOUS
  <2>2. a \in Nat /\ b \in Nat /\ a < b /\ b <= n
    BY <1>2, <2>1
  <2>3. q[k] = Joined(part)
    BY DEF BlocksOf
  <2> HIDE DEF a, b, q
  <2>4. SubSeq(p, a + 1, b) \in Seq(L) /\ Len(SubSeq(p, a + 1, b)) = b - a
    BY <1>1, <2>2, CutOf DEF n
  <2>7. part = SubSeq(p, a + 1, b)
    BY DEF a, b
  <2> HIDE DEF part
  <2>8. part \in Seq(L) /\ Len(part) # 0
    BY <2>2, <2>4, <2>7
  <2>5. part \in Lines /\ part # <<>>
    BY <2>8 DEF Lines, L
  <2>6. Joined(part) \in L
    BY <2>5, JoinedIsText DEF L
  <2> QED BY <2>3, <2>5, <2>6 DEF part
<1>4. q \in Seq(L) /\ Len(q) = m
  <2>1. q = [k \in 1 .. m |-> q[k]] /\ DOMAIN q = 1 .. m
    BY DEF BlocksOf
  <2> HIDE DEF q
  <2>2. q \in [1 .. m -> L]
    BY <1>3, <2>1
  <2> QED BY <2>1, <2>2
<1> HIDE DEF q
<1> DEFINE T == {k \in Nat : k \in 1 .. m =>
                   first(k) \in Lines /\ first(k) # <<>> /\ Joined(first(k)) = Joined(upto(k))}
<1>5. 0 \in T
  OBVIOUS
<1>6. ASSUME NEW k \in Nat, k \in T PROVE k + 1 \in T
  <2> SUFFICES ASSUME k + 1 \in 1 .. m
               PROVE  /\ first(k + 1) \in Lines /\ first(k + 1) # <<>>
                      /\ Joined(first(k + 1)) = Joined(upto(k + 1))
    OBVIOUS
  <2> DEFINE part == SubSeq(p, cut[k] + 1, cut[k + 1])
  <2>1. (k + 1) - 1 = k /\ k \in 0 .. m /\ k + 1 \in 0 .. m /\ k < Len(q)
    BY <1>4
  <2>2. part \in Lines /\ part # <<>> /\ Joined(part) \in L /\ q[k + 1] = Joined(part)
    BY <1>3, <2>1
  <2>3. /\ cut[k] \in Nat /\ cut[k + 1] \in Nat /\ cut[k] < cut[k + 1] /\ cut[k + 1] <= n
    BY <1>2, <2>1
  <2>4. first(k) \in Seq(L) /\ first(k + 1) = Append(first(k), q[k + 1])
    BY <1>4, <2>1, PrefixNext
  <2> HIDE DEF part, first
  <2>5. Appended(first(k), Joined(part), first(k + 1), L)
    BY <2>2, <2>4, AppendIs
  <2>6. first(k + 1) \in Lines /\ first(k + 1) # <<>>
    BY <2>4, <2>5 DEF Appended, Lines, L
  <2>7. CASE k = 0
    <3>1. first(k) = <<>>
      BY <2>7, SubSeqEmpty DEF first
    <3>2. first(k + 1) = <<Joined(part)>>
      BY <2>2, <2>4, <3>1
    <3>3. Joined(first(k + 1)) = Joined(part)
      BY <2>2, <3>2, JoinedOne DEF L
    <3>4. cut[k] + 1 = 1
      BY <1>2, <2>7
    <3> QED BY <2>6, <3>3, <3>4 DEF part
  <2>8. CASE k # 0
    <3>1. k \in 1 .. m
      BY <2>1, <2>8
    <3>2. first(k) \in Lines /\ first(k) # <<>> /\ Joined(first(k)) = Joined(upto(k))
      BY <1>6, <3>1
    <3>3. Joined(first(k + 1)) = Joined(first(k)) \o Fed(Joined(part))
      <4> DEFINE t == first(k)
                 l == Joined(part)
      <4>1. t \in Lines /\ t # <<>> /\ l \in Seq(Chars) /\ first(k + 1) = Append(t, l)
        BY <2>2, <2>4, <3>2 DEF L
      <4> HIDE DEF t, l
      <4>2. Joined(Append(t, l)) = Joined(t) \o Fed(l)
        BY <4>1, JoinedAppend
      <4> QED BY <4>1, <4>2 DEF t, l
    <3>4. k - 1 \in 0 .. m /\ cut[k - 1] \in Nat /\ cut[k - 1] < cut[k] /\ cut[k] <= n
      BY <1>2, <3>1
    <3>5. upto(k) \in Seq(L) /\ Len(upto(k)) = cut[k]
      <4>1. 0 \in Nat /\ 0 <= cut[k] /\ 0 + 1 = 1 /\ cut[k] - 0 = cut[k]
        BY <2>3
      <4>2. SubSeq(p, 0 + 1, cut[k]) \in Seq(L) /\ Len(SubSeq(p, 0 + 1, cut[k])) = cut[k] - 0
        BY <1>1, <2>3, <3>4, <4>1, CutOf DEF n
      <4> QED BY <4>1, <4>2
    <3>6. upto(k) \in Lines /\ upto(k) # <<>>
      <4> HIDE DEF upto
      <4>1. upto(k) \in Seq(L) /\ Len(upto(k)) # 0
        BY <2>3, <3>4, <3>5
      <4> QED BY <4>1 DEF Lines, L
    <3>7. upto(k) \o part = upto(k + 1)
      <4>1. ASSUME NEW a \in Nat, NEW b \in Nat, a <= b, b <= n
            PROVE  SubSeq(p, 0 + 1, a) \o SubSeq(p, a + 1, b) = SubSeq(p, 0 + 1, b)
        <5>1. 0 \in Nat /\ 0 <= a /\ b <= Len(p)
          BY <4>1 DEF n
        <5> QED BY <1>1, <4>1, <5>1, CutsMeet
      <4>2. SubSeq(p, 0 + 1, cut[k]) \o SubSeq(p, cut[k] + 1, cut[k + 1])
              = SubSeq(p, 0 + 1, cut[k + 1])
        <5>1. cut[k] <= cut[k + 1]
          BY <2>3
        <5> QED BY <2>3, <4>1, <5>1
      <4>3. /\ upto(k) = SubSeq(p, 0 + 1, cut[k])
            /\ upto(k + 1) = SubSeq(p, 0 + 1, cut[k + 1])
        <5>1. 0 + 1 = 1
          OBVIOUS
        <5> QED BY <5>1
      <4>4. part = SubSeq(p, cut[k] + 1, cut[k + 1])
        BY DEF part
      <4> HIDE DEF upto, part
      <4> QED BY <4>2, <4>3, <4>4
    <3> HIDE DEF upto
    <3>8. Joined(upto(k) \o part) = Joined(upto(k)) \o Fed(Joined(part))
      BY <2>2, <3>6, JoinedConcat
    <3> QED BY <2>6, <3>2, <3>3, <3>7, <3>8
  <2> QED BY <2>7, <2>8
<1>7. Nat \subseteq T
  <2> HIDE DEF T
  <2> QED BY <1>5, <1>6, SetInduction
<1>8. m \in 1 .. m
  OBVIOUS
<1>9. Joined(first(m)) = Joined(upto(m))
  BY <1>7, <1>8
<1>10. first(m) = q
  BY <1>4, SubSeqFull
<1> QED BY <1>9, <1>10 DEF q

\* The pieces of a file that CountLines counts, a last one that is empty
\* left out, are the file up to its last line feed.
Closed(bytes) == bytes # <<>> /\ bytes[Len(bytes)] = Newline

LEMMA CountedPieces ==
    ASSUME NEW bytes \in Seq(Chars), bytes # <<>>
    PROVE  LET total == CountLines(bytes)
               p     == Pieces(bytes)
               text  == Joined(SubSeq(p, 1, total))
           IN  /\ total \in Nat \ {0} /\ p \in Lines /\ total <= Len(p)
               /\ bytes = IF Closed(bytes) THEN Append(text, Newline) ELSE text
<1> DEFINE n == Len(bytes)
           p == Pieces(bytes)
           total == CountLines(bytes)
           text == Joined(SubSeq(p, 1, total))
           but == SubSeq(bytes, 1, n - 1)
<1>1. n \in Nat \ {0} /\ n - 1 \in Nat /\ (n - 1) + 1 = n /\ n - 1 < n
  OBVIOUS
<1>2. SubSeq(bytes, 1, n) = bytes
  BY SubSeqFull
<1>3. but \in Seq(Chars) /\ bytes[n] \in Chars /\ bytes = Append(but, bytes[n])
  BY <1>1, <1>2, PrefixNext
<1>4. Split(p, bytes, n)
  BY PiecesSplit
<1> HIDE DEF p, but
<1>5. /\ p \in Lines /\ Len(p) = Newlines(bytes) + 1 /\ Joined(p) = bytes
      /\ bytes[n] = Newline => p[Len(p)] = <<>>
  BY <1>1, <1>2, <1>4 DEF Split
<1>6. /\ Newlines(but) \in Nat /\ Newlines(bytes) \in Nat
      /\ Newlines(bytes) = Newlines(but) + Ends(bytes[n])
  <2> DEFINE c == bytes[n]
  <2> HIDE DEF c
  <2>1. Newlines(Append(but, c)) = Newlines(but) + Ends(c)
    BY <1>3, NewlinesAppend DEF c
  <2> QED BY <1>3, <2>1, NewlinesAre DEF c
<1>7. CASE Closed(bytes)
  <2> DEFINE u == SubSeq(p, 1, total)
  <2>1. bytes[n] = Newline
    BY <1>7 DEF Closed
  <2>2. total = Newlines(bytes) /\ total \in Nat \ {0} /\ Len(p) = total + 1
    BY <1>5, <1>6, <2>1 DEF CountLines, Ends
  <2> HIDE DEF total
  <2>3. u \in Seq(Seq(Chars)) /\ SubSeq(p, 1, total + 1) = Append(u, p[total + 1])
    <3>1. total < Len(p)
      BY <2>2
    <3> QED BY <1>5, <2>2, <3>1, PrefixNext DEF Lines
  <2>4. SubSeq(p, 1, total + 1) = p
    BY <1>5, <2>2, SubSeqFull DEF Lines
  <2>5. p = Append(u, <<>>) /\ <<>> \in Seq(Chars)
    BY <1>5, <2>1, <2>2, <2>3, <2>4
  <2>6. Len(u) = total
    <3>1. 0 \in Nat /\ 0 <= total /\ 0 + 1 = 1 /\ total <= Len(p) /\ total - 0 = total
      BY <2>2
    <3>2. Len(SubSeq(p, 0 + 1, total)) = total - 0
      BY <1>5, <2>2, <3>1, CutOf DEF Lines
    <3> QED BY <3>1, <3>2
  <2>7. u # <<>> /\ u \in Lines
    BY <2>2, <2>3, <2>6 DEF Lines
  <2>8. Joined(u) \in Seq(Chars) /\ Joined(p) = Joined(u) \o Fed(<<>>)
    BY <2>5, <2>7, JoinedAppend
  <2>9. Fed(<<>>) = <<Newline>>
    <3>1. <<Newline>> \in Seq(Chars)
      BY <2>5, FedIsText
    <3> QED BY <3>1, ConcatEmptySeq DEF Fed
  <2>10. Newline \in Chars
    BY DEF Chars
  <2> HIDE DEF u
  <2>11. Append(Joined(u), Newline) = Joined(u) \o <<Newline>>
    BY <2>8, <2>10, AppendIsConcat
  <2>12. bytes = Append(Joined(u), Newline)
    BY <1>5, <2>8, <2>9, <2>11
  <2>13. total <= Len(p)
    BY <2>2
  <2> QED BY <1>5, <1>7, <2>2, <2>12, <2>13 DEF u, total, p
<1>8. CASE ~ Closed(bytes)
  <2>1. bytes[n] # Newline
    BY <1>8 DEF Closed
  <2>2. total = Len(p) /\ total \in Nat \ {0}
    BY <1>5, <1>6, <2>1 DEF CountLines
  <2> HIDE DEF total
  <2>3. SubSeq(p, 1, total) = p
    BY <1>5, <2>2, SubSeqFull DEF Lines
  <2>4. total <= Len(p)
    BY <2>2
  <2>5. bytes = text
    BY <1>5, <2>3
  <2> QED BY <1>5, <1>8, <2>2, <2>4, <2>5 DEF total, p
<1> QED BY <1>7, <1>8

\* Pages of size lines, and how many hold total lines.
LEMMA PageCount ==
    ASSUME NEW total \in Nat, NEW size \in Nat \ {0}
    PROVE  LET pages == (total + size - 1) \div size
           IN  /\ pages \in Nat
               /\ total = 0 => pages = 0
               /\ total # 0 => pages # 0
               /\ total <= pages * size
               /\ \A k \in 1 .. pages : /\ (k - 1) * size \in Nat /\ k * size \in Nat
                                        /\ (k - 1) * size < total /\ (k - 1) * size < k * size
                                        /\ k < pages => k * size < total
<1> DEFINE m == total + size - 1
           q == m \div size
           r == m % size
<1>1. m \in Nat
  OBVIOUS
<1>2. q \in Nat /\ r \in Nat /\ r < size /\ m = size * q + r
  BY <1>1
<1> HIDE DEF q, r
<1>3. total = 0 => q = 0
  <2> SUFFICES ASSUME total = 0, q # 0 PROVE FALSE
    BY <1>2
  <2>1. size * q >= size
    BY <1>2
  <2> QED BY <1>2, <2>1
<1>4. total <= q * size
  <2>1. q * size = size * q
    BY <1>2
  <2> QED BY <1>2, <2>1
<1>5. total # 0 => q # 0
  BY <1>2, <1>4
<1>6. ASSUME NEW k \in 1 .. q
      PROVE  /\ (k - 1) * size \in Nat /\ k * size \in Nat
             /\ (k - 1) * size < total /\ (k - 1) * size < k * size
             /\ k < q => k * size < total
  <2>1. (k - 1) * size \in Nat /\ k * size \in Nat /\ (k - 1) * size + size = k * size
    BY <1>2, PageBounds
  <2>2. (q - k) * size \in Nat /\ q * size = k * size + (q - k) * size /\ q * size = size * q
    BY <1>2
  <2>3. k < q => (q - k) * size >= size
    BY <1>2
  <2> QED BY <1>2, <2>1, <2>2, <2>3
<1> QED BY <1>2, <1>3, <1>4, <1>5, <1>6 DEF q

\* What is read of lines a to b of a file that has line a.
LEMMA LinesRead ==
    ASSUME NEW bytes, NEW total \in Nat, total = CountLines(bytes),
           NEW a \in Nat \ {0}, NEW b \in Nat, a <= b, a <= total
    PROVE  LET e == IF b <= total THEN b ELSE total
           IN  SliceFileContent(bytes, [unit |-> "lines", start |-> a, end |-> b])
                 = Content(Joined(SubSeq(Pieces(bytes), a, e)), a, e, total,
                           a > 1 \/ e < total)
<1> DEFINE range == [unit |-> "lines", start |-> a, end |-> b]
           e == IF b <= total THEN b ELSE total
<1>1. range.unit = "lines" /\ range.start = a /\ range.end = b
  OBVIOUS
<1> HIDE DEF range
<1>2. SliceFileContent(bytes, range) = LineSlice(bytes, range)
  BY <1>1 DEF SliceFileContent
<1>3. Max({range.start, 1}) = a /\ Min({range.end, total}) = e
  <2>1. Max({a, 1}) = a
    <3>1. Max({a, 1}) = IF a >= 1 THEN a ELSE 1
      BY MaxOfTwo
    <3> QED BY <3>1
  <2>2. Min({b, total}) = e
    BY MinOfTwo
  <2> QED BY <1>1, <2>1, <2>2
<1>4. ~ (total = 0 \/ a > e)
  OBVIOUS
<1> HIDE DEF e
<1>5. LineSlice(bytes, range)
        = Content(Joined(SubSeq(Pieces(bytes), a, e)), a, e, total, a > 1 \/ e < total)
  BY <1>3, <1>4 DEF LineSlice
<1> QED BY <1>2, <1>5 DEF e, range

LEMMA LinesPaged ==
    ASSUME NEW bytes \in Seq(STRING), NEW size \in Nat \ {0}
    PROVE  LinePagesReassemble(bytes, size)
<1> DEFINE total == CountLines(bytes)
           p == Pieces(bytes)
           pages == (total + size - 1) \div size
           page(k) == SliceFileContent(bytes, [unit |-> "lines", start |-> (k - 1) * size + 1,
                                               end |-> k * size])
           shown == [k \in 1 .. pages |-> page(k).text]
           text == Joined(shown)
<1>1. bytes \in Seq(Chars)
  <2>1. STRING \subseteq Chars
    BY DEF Chars
  <2> QED BY <2>1, SeqMonotonic
<1>2. CASE bytes = <<>>
  <2>1. total = 0
    BY <1>2 DEF CountLines
  <2>2. pages = 0
    BY <2>1, PageCount
  <2> HIDE DEF total, pages
  <2>3. shown = <<>>
    BY <2>2
  <2>4. text = <<>>
    BY <2>3, JoinedNone
  <2> HIDE DEF shown, page
  <2>5. /\ bytes = text /\ ~ (pages > 0) /\ 1 .. pages = {}
    BY <1>2, <2>2, <2>4
  <2> QED BY <1>2, <2>5 DEF LinePagesReassemble, shown, page, pages, total
<1>3. CASE bytes # <<>>
  <2>1. /\ total \in Nat \ {0} /\ p \in Lines /\ total <= Len(p)
        /\ bytes = IF Closed(bytes) THEN Append(Joined(SubSeq(p, 1, total)), Newline)
                   ELSE Joined(SubSeq(p, 1, total))
    BY <1>1, <1>3, CountedPieces
  <2> HIDE DEF p, shown, page
  <2>2. total \in Nat
    BY <2>1
  <2> HIDE DEF total
  <2>3. /\ pages \in Nat \ {0}
        /\ total <= pages * size
        /\ \A k \in 1 .. pages : /\ (k - 1) * size \in Nat /\ k * size \in Nat
                                 /\ (k - 1) * size < total /\ (k - 1) * size < k * size
                                 /\ k < pages => k * size < total
    BY <2>1, <2>2, PageCount
  <2> HIDE DEF pages
  <2> DEFINE cut == [k \in 0 .. pages |-> IF k = pages THEN total ELSE k * size]
  <2>4. ASSUME NEW k \in 1 .. pages
        PROVE  /\ cut[k - 1] = (k - 1) * size
               /\ cut[k] = IF k * size <= total THEN k * size ELSE total
               /\ k < pages => cut[k] = k * size
               /\ cut[k - 1] < cut[k] /\ cut[k] <= total /\ cut[k] \in Nat
    <3>1. k - 1 \in 0 .. pages /\ k - 1 # pages /\ k \in 0 .. pages
      BY <2>3
    <3>2. cut[k - 1] = (k - 1) * size /\ cut[k] = IF k = pages THEN total ELSE k * size
      BY <3>1
    <3> HIDE DEF cut
    <3>3. CASE k = pages
      BY <2>2, <2>3, <3>2, <3>3
    <3>4. CASE k # pages
      BY <2>2, <2>3, <3>2, <3>4
    <3> QED BY <3>3, <3>4
  <2>5. cut[0] = 0 /\ cut[pages] = total
    <3>1. 0 \in 0 .. pages /\ pages \in 0 .. pages /\ 0 # pages /\ 0 * size = 0
      BY <2>3
    <3> QED BY <3>1
  <2>6. cut \in [0 .. pages -> Nat]
    <3>1. \A k \in 0 .. pages : k * size \in Nat
      BY <2>3
    <3> QED BY <2>2, <3>1
  <2> HIDE DEF cut
  <2>7. Blocks(cut, pages, Len(p))
    <3>1. Len(p) \in Nat
      BY <2>1 DEF Lines
    <3>2. \A k \in 1 .. pages : cut[k - 1] < cut[k] /\ cut[k] <= Len(p)
      BY <2>1, <2>2, <2>4, <3>1
    <3> QED BY <2>5, <2>6, <3>2 DEF Blocks
  <2> DEFINE partial(k) == (k - 1) * size + 1 > 1 \/ cut[k] < total
  <2>8. ASSUME NEW k \in 1 .. pages
        PROVE  page(k) = Content(Joined(SubSeq(p, cut[k - 1] + 1, cut[k])), (k - 1) * size + 1,
                                 cut[k], total, partial(k))
    <3> DEFINE a == (k - 1) * size + 1
               b == k * size
    <3>1. a \in Nat \ {0} /\ b \in Nat /\ a <= b /\ a <= total /\ a = cut[k - 1] + 1
      BY <2>2, <2>3, <2>4
    <3>2. cut[k] = IF b <= total THEN b ELSE total
      BY <2>4
    <3>3. page(k) = SliceFileContent(bytes, [unit |-> "lines", start |-> a, end |-> b])
      BY DEF page
    <3> HIDE DEF a, b, page
    <3>4. SliceFileContent(bytes, [unit |-> "lines", start |-> a, end |-> b])
            = Content(Joined(SubSeq(Pieces(bytes), a, cut[k])), a, cut[k], total,
                      a > 1 \/ cut[k] < total)
      BY <2>2, <3>1, <3>2, LinesRead DEF total
    <3>5. page(k) = Content(Joined(SubSeq(p, cut[k - 1] + 1, cut[k])), a,
                            cut[k], total, a > 1 \/ cut[k] < total)
      BY <3>1, <3>3, <3>4 DEF p
    <3> QED BY <3>5 DEF a
  <2>9. ASSUME NEW k \in 1 .. pages
        PROVE  /\ page(k).text = Joined(SubSeq(p, cut[k - 1] + 1, cut[k]))
               /\ page(k).start_line = (k - 1) * size + 1 /\ page(k).end_line = cut[k]
               /\ page(k).truncated = partial(k)
    <3> DEFINE t == Joined(SubSeq(p, cut[k - 1] + 1, cut[k]))
               a == (k - 1) * size + 1
    <3>1. page(k) = Content(t, a, cut[k], total, partial(k))
      BY <2>8
    <3> HIDE DEF t, a, partial, page
    <3>2. /\ page(k).text = t /\ page(k).start_line = a /\ page(k).end_line = cut[k]
          /\ page(k).truncated = partial(k)
      BY <3>1 DEF Content
    <3> QED BY <3>2 DEF t, a
  <2> HIDE DEF partial
  <2>10. shown = BlocksOf(p, cut, pages)
    BY <2>9 DEF shown, BlocksOf
  <2>11. text = Joined(SubSeq(p, 1, total))
    BY <2>1, <2>3, <2>5, <2>7, <2>10, JoinedInBlocks
  <2>12. bytes = IF Closed(bytes) THEN Append(text, Newline) ELSE text
    BY <2>1, <2>11
  <2>13. ASSUME NEW k \in 1 .. pages
         PROVE  /\ page(k).start_line = (k - 1) * size + 1
                /\ k < pages => page(k).end_line + 1 = page(k + 1).start_line
                /\ page(k).truncated <=> pages > 1
    <3>1. k < pages => page(k).end_line + 1 = page(k + 1).start_line
      <4> SUFFICES ASSUME k < pages PROVE page(k).end_line + 1 = page(k + 1).start_line
        OBVIOUS
      <4>1. k + 1 \in 1 .. pages /\ (k + 1) - 1 = k
        BY <2>3
      <4>2. page(k + 1).start_line = k * size + 1
        BY <2>9, <4>1
      <4>3. page(k).end_line = k * size
        BY <2>4, <2>9
      <4> QED BY <4>2, <4>3
    <3>2. partial(k) <=> pages > 1
      <4>1. CASE k = 1
        <5>1. (k - 1) * size + 1 = 1
          BY <4>1
        <5>2. partial(k) <=> cut[k] < total
          BY <5>1 DEF partial
        <5>3. CASE pages = 1
          BY <2>2, <2>5, <4>1, <5>2, <5>3
        <5>4. CASE pages # 1
          <6>1. k < pages /\ pages > 1
            BY <2>3, <4>1, <5>4
          <6>2. cut[k] = k * size /\ k * size < total
            BY <2>3, <2>4, <6>1
          <6> QED BY <5>2, <6>1, <6>2
        <5> QED BY <5>3, <5>4
      <4>2. CASE k # 1
        <5>1. pages > 1 /\ k - 1 \in Nat \ {0}
          BY <2>3, <4>2
        <5>2. (k - 1) * size + 1 > 1
          BY <5>1
        <5> QED BY <5>1, <5>2 DEF partial
      <4> QED BY <4>1, <4>2
    <3>3. page(k).start_line = (k - 1) * size + 1 /\ page(k).truncated = partial(k)
      BY <2>9
    <3> QED BY <3>1, <3>2, <3>3
  <2>14. page(pages).end_line = total
    <3>1. pages \in 1 .. pages
      BY <2>3
    <3> QED BY <2>5, <2>9, <3>1
  <2> HIDE DEF text
  <2> QED BY <2>12, <2>13, <2>14 DEF LinePagesReassemble, Closed, text, shown, page, pages, total
<1> QED BY <1>2, <1>3

LEMMA NewlinesConcat ==
    ASSUME NEW u \in Seq(Chars), NEW v \in Seq(Chars)
    PROVE  Newlines(u \o v) = Newlines(u) + Newlines(v)
<1> DEFINE T == {w \in Seq(Chars) : Newlines(u \o w) = Newlines(u) + Newlines(w)}
<1>1. <<>> \in T
  <2> DEFINE w == <<>>
  <2>1. w = <<>> /\ w \in Seq(Chars) /\ u \o w = u
    BY ConcatEmptySeq
  <2> HIDE DEF w
  <2>2. Newlines(w) = 0 /\ Newlines(u) \in Nat
    BY <2>1, NewlinesAre
  <2>3. w \in T
    BY <2>1, <2>2
  <2> QED BY <2>3 DEF w
<1>2. ASSUME NEW w \in Seq(Chars), NEW c \in Chars, w \in T PROVE Append(w, c) \in T
  <2>1. u \o w \in Seq(Chars)
    BY ConcatProperties
  <2>2. Append(w, c) \in Seq(Chars)
    BY AppendProperties
  <2>3. u \o Append(w, c) = Append(u \o w, c)
    BY ConcatAppend
  <2>4. Newlines(Append(u \o w, c)) = Newlines(u \o w) + Ends(c)
    BY <2>1, NewlinesAppend
  <2>5. Newlines(Append(w, c)) = Newlines(w) + Ends(c)
    BY NewlinesAppend
  <2>6. Newlines(u) \in Nat /\ Newlines(w) \in Nat /\ Ends(c) \in Nat
    BY NewlinesAre DEF Ends
  <2>7. Newlines(u \o w) = Newlines(u) + Newlines(w)
    BY <1>2
  <2>8. Newlines(u \o Append(w, c)) = Newlines(u) + Newlines(Append(w, c))
    <3>1. Newlines(u \o Append(w, c)) = Newlines(u) + Newlines(w) + Ends(c)
      BY <2>3, <2>4, <2>7
    <3> QED BY <2>5, <2>6, <3>1
  <2> QED BY <2>2, <2>8
<1>3. Seq(Chars) \subseteq T
  <2> HIDE DEF T
  <2> QED BY <1>1, <1>2, SeqInduction
<1> QED BY <1>3

\* Where a cut of a file of n bytes starts, and where it stops.
StartOf(n, from) == IF from <= n THEN from ELSE n
EndOf(n, from, to) ==
    LET stop == IF to <= n THEN to ELSE n
    IN  IF stop >= StartOf(n, from) THEN stop ELSE StartOf(n, from)

LEMMA BytesRead ==
    ASSUME NEW bytes \in Seq(Chars), NEW from \in Nat, NEW to \in Nat
    PROVE  LET n    == Len(bytes)
               a    == StartOf(n, from)
               e    == EndOf(n, from, to)
               text == SubSeq(bytes, a + 1, e)
               line == Newlines(SubSeq(bytes, 1, a)) + 1
           IN  SliceFileContent(bytes, [unit |-> "bytes", start |-> from, end |-> to])
                 = Content(text, line, line + Max({CountLines(text) - 1, 0}),
                           CountLines(bytes), a > 0 \/ e < n)
<1> DEFINE range == [unit |-> "bytes", start |-> from, end |-> to]
           n == Len(bytes)
           a == StartOf(n, from)
           e == EndOf(n, from, to)
<1>1. range.unit = "bytes" /\ range.start = from /\ range.end = to
  OBVIOUS
<1> HIDE DEF range
<1>2. SliceFileContent(bytes, range) = ByteSlice(bytes, range)
  BY <1>1 DEF SliceFileContent
<1>3. n \in Nat
  OBVIOUS
<1>4. Min({from, n}) = a
  BY <1>3, MinOfTwo DEF StartOf
<1>5. Max({Min({to, n}), a}) = e
  <2> DEFINE stop == IF to <= n THEN to ELSE n
  <2>1. Min({to, n}) = stop
    BY <1>3, MinOfTwo
  <2>2. stop \in Int /\ a \in Int
    BY <1>3 DEF StartOf
  <2>3. e = IF stop >= a THEN stop ELSE a
    BY DEF EndOf
  <2> HIDE DEF stop, a, e
  <2>4. Max({stop, a}) = e
    BY <2>2, <2>3, MaxOfTwo
  <2> QED BY <2>1, <2>4
<1> HIDE DEF a, e
<1>6. Min({range.start, n}) = a /\ Max({Min({range.end, n}), a}) = e
  BY <1>1, <1>4, <1>5
<1> DEFINE text == SubSeq(bytes, a + 1, e)
           line == Newlines(SubSeq(bytes, 1, a)) + 1
<1>7. ByteSlice(bytes, range)
        = Content(text, line, line + Max({CountLines(text) - 1, 0}),
                  CountLines(bytes), a > 0 \/ e < n)
  BY <1>6 DEF ByteSlice
<1> QED BY <1>2, <1>7 DEF a, e, range

LEMMA CutBounds ==
    ASSUME NEW n \in Nat, NEW from \in Nat, NEW to \in Nat
    PROVE  /\ StartOf(n, from) \in Nat /\ EndOf(n, from, to) \in Nat
           /\ StartOf(n, from) <= EndOf(n, from, to) /\ EndOf(n, from, to) <= n
BY DEF StartOf, EndOf

\* The last line of a cut that is not empty.
LEMMA LastLine ==
    ASSUME NEW bytes \in Seq(Chars), NEW a \in Nat, NEW e \in Nat, a < e, e <= Len(bytes)
    PROVE  LET text == SubSeq(bytes, a + 1, e)
               line == Newlines(SubSeq(bytes, 1, a)) + 1
           IN  line + Max({CountLines(text) - 1, 0}) = Newlines(SubSeq(bytes, 1, e - 1)) + 1
<1> DEFINE text == SubSeq(bytes, a + 1, e)
           but == SubSeq(bytes, a + 1, e - 1)
           pre == SubSeq(bytes, 0 + 1, a)
           all == SubSeq(bytes, 0 + 1, e - 1)
           c == bytes[e]
<1>1. /\ e - 1 \in Nat /\ a <= e - 1 /\ e - 1 <= Len(bytes) /\ e \in 1 .. Len(bytes)
      /\ Len(bytes) \in Nat /\ a + 1 \in 1 .. Len(bytes) /\ e \in a + 1 .. Len(bytes)
      /\ 0 \in Nat /\ 0 <= a /\ 0 + 1 = 1 /\ a <= Len(bytes)
  OBVIOUS
<1>2. c \in Chars
  BY <1>1, ElementOfSeq
<1>3. but \in Seq(Chars)
  BY <1>1, CutOf
<1>4. pre \in Seq(Chars)
  BY <1>1, CutOf
<1>5. pre \o but = all
  BY <1>1, CutsMeet
<1>6. text = but \o <<c>>
  BY <1>1, SubSeqRecursiveSecond
<1>7. text \in Seq(Chars)
  BY <1>1, CutOf
<1>8. Len(text) = e - a
  BY <1>1, CutOf
<1> HIDE DEF text, but, pre, all, c
<1>9. text = Append(but, c)
  BY <1>2, <1>3, <1>6, AppendIsConcat
<1>10. Newlines(text) = Newlines(but) + Ends(c) /\ Newlines(but) \in Nat
  BY <1>2, <1>3, <1>9, NewlinesAppend, NewlinesAre
<1>11. text # <<>> /\ text[Len(text)] = c
  <2>1. Appended(but, c, text, Chars)
    BY <1>2, <1>3, <1>9, AppendIs
  <2> QED BY <2>1 DEF Appended
<1>12. CountLines(text) = Newlines(but) + 1
  BY <1>10, <1>11 DEF CountLines, Ends
<1>13. Max({CountLines(text) - 1, 0}) = Newlines(but)
  <2>1. CountLines(text) - 1 = Newlines(but) /\ Newlines(but) \in Int
    BY <1>10, <1>12
  <2>2. Max({Newlines(but), 0}) = Newlines(but)
    BY <1>10, MaxOfTwo
  <2> QED BY <2>1, <2>2
<1>14. Newlines(all) = Newlines(pre) + Newlines(but) /\ Newlines(pre) \in Nat
  BY <1>3, <1>4, <1>5, NewlinesConcat, NewlinesAre
<1>15. Newlines(pre) + 1 + Max({CountLines(text) - 1, 0}) = Newlines(all) + 1
  BY <1>10, <1>13, <1>14
<1> QED BY <1>15 DEF pre, all, text

LEMMA BytesPaged ==
    ASSUME NEW bytes \in Seq(STRING), NEW start \in Nat, NEW mid \in Nat, NEW end \in Nat
    PROVE  BytePagesReassemble(bytes, start, mid, end)
<1> DEFINE n == Len(bytes)
           cut(from, to) == SliceFileContent(bytes, [unit |-> "bytes", start |-> from, end |-> to])
           piece(from, to) == SubSeq(bytes, StartOf(n, from) + 1, EndOf(n, from, to))
           got == cut(start, end)
           a == StartOf(n, start)
           e == EndOf(n, start, end)
           text == SubSeq(bytes, a + 1, e)
           line == Newlines(SubSeq(bytes, 1, a)) + 1
           partial == a > 0 \/ e < n
<1>1. bytes \in Seq(Chars) /\ n \in Nat
  <2>1. STRING \subseteq Chars
    BY DEF Chars
  <2>2. bytes \in Seq(Chars)
    BY <2>1, SeqMonotonic
  <2> QED BY <2>2
<1>2. ASSUME NEW from \in Nat, NEW to \in Nat PROVE cut(from, to).text = piece(from, to)
  <2> DEFINE t == piece(from, to)
             l == Newlines(SubSeq(bytes, 1, StartOf(n, from))) + 1
             m == l + Max({CountLines(t) - 1, 0})
             all == CountLines(bytes)
             p == StartOf(n, from) > 0 \/ EndOf(n, from, to) < n
  <2>1. cut(from, to) = Content(t, l, m, all, p)
    BY <1>1, BytesRead
  <2> HIDE DEF t, l, m, all, p, cut
  <2>2. cut(from, to).text = t
    BY <2>1 DEF Content
  <2> QED BY <2>2 DEF t
<1>3. /\ got.text = text /\ got.start_line = line
      /\ got.end_line = line + Max({CountLines(text) - 1, 0}) /\ got.truncated = partial
  <2> DEFINE m == line + Max({CountLines(text) - 1, 0})
             all == CountLines(bytes)
  <2>1. got = Content(text, line, m, all, partial)
    BY <1>1, BytesRead
  <2> HIDE DEF text, line, m, all, partial, got
  <2>2. /\ got.text = text /\ got.start_line = line
        /\ got.end_line = m /\ got.truncated = partial
    BY <2>1 DEF Content
  <2> QED BY <2>2 DEF m
<1>4. a \in Nat /\ e \in Nat /\ a <= e /\ e <= n
  BY <1>1, CutBounds
<1>5. start <= mid /\ mid <= end => cut(start, mid).text \o cut(mid, end).text = got.text
  <2> SUFFICES ASSUME start <= mid, mid <= end
               PROVE  piece(start, mid) \o piece(mid, end) = text
    BY <1>2, <1>3
  <2> DEFINE b == EndOf(n, start, mid)
  <2>1. b = StartOf(n, mid) /\ e = EndOf(n, mid, end) /\ b \in Nat /\ a <= b /\ b <= e
    BY <1>1 DEF StartOf, EndOf
  <2> HIDE DEF a, b, e
  <2>2. /\ bytes \in Seq(Chars) /\ a \in Nat /\ b \in Nat /\ e \in Nat
        /\ a <= b /\ b <= e /\ e <= Len(bytes)
    BY <1>1, <1>4, <2>1
  <2>3. SubSeq(bytes, a + 1, b) \o SubSeq(bytes, b + 1, e) = SubSeq(bytes, a + 1, e)
    BY <2>2, CutsMeet
  <2> QED BY <2>1, <2>3 DEF a, b, e
<1> HIDE DEF cut
<1>6. Min({start, n}) = a
  BY <1>1, MinOfTwo DEF StartOf
<1>7. text \in Seq(Chars) /\ Len(text) = e - a
  <2> HIDE DEF a, e
  <2> QED BY <1>1, <1>4, CutOf
<1> HIDE DEF a, e
<1>8. got.text # <<>> => /\ got.start_line = LineOf(bytes, Min({start, Len(bytes)}) + 1)
                         /\ got.end_line
                              = LineOf(bytes, Min({start, Len(bytes)}) + Len(got.text))
  <2> SUFFICES ASSUME text # <<>>
               PROVE  /\ line = LineOf(bytes, a + 1)
                      /\ line + Max({CountLines(text) - 1, 0}) = LineOf(bytes, a + Len(text))
    BY <1>3, <1>6
  <2>1. a < e
    <3> HIDE DEF text
    <3> QED BY <1>4, <1>7
  <2>2. line + Max({CountLines(text) - 1, 0}) = Newlines(SubSeq(bytes, 1, e - 1)) + 1
    BY <1>1, <1>4, <2>1, LastLine
  <2>3. (a + 1) - 1 = a /\ (a + Len(text)) - 1 = e - 1
    BY <1>4, <1>7
  <2> HIDE DEF text
  <2> QED BY <2>2, <2>3 DEF LineOf
<1>9. ~ got.truncated <=> got.text = bytes
  <2>1. partial <=> text # bytes
    <3>1. ASSUME ~ partial PROVE text = bytes
      <4>1. a + 1 = 1 /\ e = n
        BY <1>1, <1>4, <3>1
      <4>2. SubSeq(bytes, 1, n) = bytes
        BY <1>1, SubSeqFull
      <4> QED BY <4>1, <4>2
    <3>2. ASSUME text = bytes PROVE ~ partial
      <4>1. e - a = n
        BY <1>7, <3>2
      <4> QED BY <1>1, <1>4, <4>1
    <3> QED BY <3>1, <3>2
  <2> HIDE DEF partial, text, got
  <2> QED BY <1>3, <2>1
<1> HIDE DEF got
<1> QED BY <1>5, <1>8, <1>9 DEF BytePagesReassemble, cut, got

-----------------------------------------------------------------------------
(* Searching a view.                                                       *)

\* What RawLines computes on the way to its result.
Scanning(f, bytes, n) ==
    /\ f = [i \in 0 .. n |-> f[i]]
    /\ \A i \in 0 .. n :
         f[i] = IF i = 0 THEN <<>>
                ELSE IF i = 1 \/ bytes[i - 1] = Newline THEN Append(f[i - 1], <<bytes[i]>>)
                ELSE [f[i - 1] EXCEPT ![Len(f[i - 1])] = Append(@, bytes[i])]

LEMMA RawLinesUnfold ==
    ASSUME NEW bytes, NEW n \in Nat, Len(bytes) = n
    PROVE  \E f : Scanning(f, bytes, n) /\ RawLines(bytes) = f[n]
<1> DEFINE T == {m \in Nat : \E f : Scanning(f, bytes, m)}
           Grown(p, i) == IF i = 1 \/ bytes[i - 1] = Newline THEN Append(p, <<bytes[i]>>)
                          ELSE [p EXCEPT ![Len(p)] = Append(@, bytes[i])]
           Body(f) == [i \in 0 .. n |-> IF i = 0 THEN <<>> ELSE Grown(f[i - 1], i)]
<1>1. 0 \in T
  <2> DEFINE g == [i \in 0 .. 0 |-> <<>>]
  <2>1. g = [i \in 0 .. 0 |-> g[i]] /\ \A i \in 0 .. 0 : i = 0 /\ g[i] = <<>>
    OBVIOUS
  <2> HIDE DEF g
  <2>2. Scanning(g, bytes, 0)
    BY <2>1 DEF Scanning
  <2> QED BY <2>2
<1>2. ASSUME NEW m \in Nat, m \in T PROVE m + 1 \in T
  <2>1. PICK f : Scanning(f, bytes, m)
    BY <1>2
  <2>2. \A i \in 0 .. m : f[i] = IF i = 0 THEN <<>> ELSE Grown(f[i - 1], i)
    BY <2>1 DEF Scanning
  <2> DEFINE g == [i \in 0 .. m + 1 |-> IF i = m + 1 THEN Grown(f[m], i) ELSE f[i]]
  <2> HIDE DEF Grown
  <2>3. ASSUME NEW i \in 0 .. m + 1
        PROVE  g[i] = IF i = 0 THEN <<>> ELSE Grown(g[i - 1], i)
    <3>1. CASE i = m + 1
      <4>1. i # 0 /\ i - 1 = m /\ m \in 0 .. m + 1 /\ m # m + 1
        BY <3>1
      <4>2. g[i] = Grown(f[m], i) /\ g[i - 1] = f[m]
        BY <3>1, <4>1
      <4> HIDE DEF g
      <4> QED BY <4>1, <4>2
    <3>2. CASE i # m + 1
      <4>1. i \in 0 .. m /\ (i # 0 => i - 1 \in 0 .. m /\ i - 1 # m + 1)
        BY <3>2
      <4>2. g[i] = f[i] /\ (i # 0 => g[i - 1] = f[i - 1])
        BY <4>1
      <4> HIDE DEF g
      <4> QED BY <2>2, <4>1, <4>2
    <3> QED BY <3>1, <3>2
  <2>4. g = [i \in 0 .. m + 1 |-> g[i]]
    OBVIOUS
  <2> HIDE DEF g
  <2>5. Scanning(g, bytes, m + 1)
    BY <2>3, <2>4 DEF Scanning, Grown
  <2> QED BY <2>5
<1>3. Nat \subseteq T
  <2> HIDE DEF T
  <2> QED BY <1>1, <1>2, SetInduction
<1>4. PICK g : Scanning(g, bytes, n)
  BY <1>3
<1>5. g = Body(g)
  BY <1>4 DEF Scanning
<1>6. RawLines(bytes) = (CHOOSE f : f = Body(f))[n]
  BY DEF RawLines
<1> DEFINE upto == CHOOSE f : f = Body(f)
<1>7. upto = Body(upto)
  <2> HIDE DEF Body
  <2> QED BY <1>5
<1> HIDE DEF upto
<1>8. Scanning(upto, bytes, n)
  BY <1>7 DEF Scanning
<1> QED BY <1>6, <1>8 DEF upto

LEMMA StripLfAppend ==
    ASSUME NEW l \in Seq(Chars), NEW c \in Chars
    PROVE  StripLf(Append(l, c)) = IF c = Newline THEN l ELSE Append(l, c)
<1> DEFINE w == Append(l, c)
<1>1. Appended(l, c, w, Chars)
  BY AppendIs
<1> HIDE DEF w
<1>2. /\ w \in Seq(Chars) /\ Len(l) \in Nat /\ Len(w) = Len(l) + 1 /\ w[Len(w)] = c
      /\ w # <<>> /\ \A i \in 1 .. Len(l) : w[i] = l[i]
  BY <1>1 DEF Appended
<1>3. SubSeq(w, 1, Len(w) - 1) = l
  <2>1. Len(w) - 1 = Len(l) /\ 0 + 1 = 1 /\ 0 <= Len(l) /\ Len(l) <= Len(w) /\ Len(l) - 0 = Len(l)
    BY <1>2
  <2> DEFINE s == SubSeq(w, 1, Len(l))
  <2>2. s \in Seq(Chars) /\ Len(s) = Len(l)
    BY <1>2, <2>1, CutOf
  <2>3. \A i \in 1 .. Len(l) : s[i] = w[i]
    <3>1. \A i \in 1 .. Len(l) : w[i] \in Chars
      BY <1>2, ElementOfSeq
    <3>2. Len(l) - 1 + 1 = Len(l) /\ \A i \in 1 .. Len(l) : 1 + i - 1 = i
      BY <1>2
    <3>3. \A i \in 1 .. Len(l) - 1 + 1 : s[i] = w[1 + i - 1]
      BY <1>2, <3>1, SubSeqProperties
    <3> QED BY <3>2, <3>3
  <2> HIDE DEF s
  <2>4. s = l
    BY <1>2, <2>2, <2>3, SeqEqual
  <2> QED BY <2>1, <2>4 DEF s
<1>4. StripLf(w) = IF c = Newline THEN l ELSE w
  BY <1>2, <1>3 DEF StripLf
<1> QED BY <1>4 DEF w

\* How the searcher's lines of the first i bytes and their pieces compare: a
\* line that has ended is a piece with its line feed, and the last piece is
\* the line that has begun, or empty.
Fresh(bytes, i) == i = 0 \/ bytes[i] = Newline

InStep(raw, p, bytes, i) ==
    /\ raw \in Lines /\ p \in Lines /\ p # <<>>
    /\ Len(p) = IF Fresh(bytes, i) THEN Len(raw) + 1 ELSE Len(raw)
    /\ p[Len(p)] = IF Fresh(bytes, i) THEN <<>> ELSE raw[Len(raw)]
    /\ \A k \in 1 .. Len(raw) : StripLf(raw[k]) = p[k]

\* The same p with its last line grown to w.
LEMMA LastGrown ==
    ASSUME NEW p \in Lines, p # <<>>, NEW w \in Seq(Chars)
    PROVE  LET m == Len(p)
               q == [p EXCEPT ![m] = w]
           IN  /\ m \in Nat \ {0} /\ p[m] \in Seq(Chars)
               /\ q \in Lines /\ Len(q) = m /\ q[m] = w /\ \A k \in 1 .. m - 1 : q[k] = p[k]
<1> DEFINE L == Seq(Chars)
           m == Len(p)
           q == [p EXCEPT ![m] = w]
<1>1. p \in Seq(L) /\ w \in L
  BY DEF Lines
<1> HIDE DEF L
<1>2. m \in Nat \ {0} /\ DOMAIN p = 1 .. m
  BY <1>1
<1>3. m \in 1 .. m /\ p[m] \in L
  BY <1>1, <1>2, ElementOfSeq
<1>4. q \in Seq(L) /\ Len(q) = m /\ q[m] = w
  BY <1>1, <1>2, <1>3
<1>5. \A k \in 1 .. m - 1 : q[k] = p[k]
  <2>1. \A k \in 1 .. m - 1 : k \in 1 .. m /\ k # m
    <3>1. m \in Int
      BY <1>2
    <3> HIDE DEF m
    <3> QED BY <3>1
  <2> QED BY <1>2, <2>1
<1> QED BY <1>2, <1>3, <1>4, <1>5 DEF L, Lines

LEMMA StepTaken ==
    ASSUME NEW bytes \in Seq(Chars), NEW i \in Nat, i < Len(bytes),
           NEW raw, NEW p, InStep(raw, p, bytes, i)
    PROVE  LET c    == bytes[i + 1]
               raw1 == IF Fresh(bytes, i) THEN Append(raw, <<c>>)
                       ELSE [raw EXCEPT ![Len(raw)] = Append(@, c)]
               p1   == IF c = Newline THEN Append(p, <<>>)
                       ELSE [p EXCEPT ![Len(p)] = Append(@, c)]
           IN  InStep(raw1, p1, bytes, i + 1)
<1> DEFINE L == Seq(Chars)
           c == bytes[i + 1]
           m == Len(p)
           n == Len(raw)
           l == p[m]
           w == Append(l, c)
           raw1 == IF Fresh(bytes, i) THEN Append(raw, <<c>>)
                   ELSE [raw EXCEPT ![n] = Append(@, c)]
           p1 == IF c = Newline THEN Append(p, <<>>) ELSE [p EXCEPT ![m] = Append(@, c)]
<1>1. c \in Chars
  <2>1. i + 1 \in 1 .. Len(bytes)
    OBVIOUS
  <2> QED BY <2>1, ElementOfSeq
<1> HIDE DEF c
<1>2. /\ raw \in Lines /\ p \in Lines /\ p # <<>>
      /\ m = IF Fresh(bytes, i) THEN n + 1 ELSE n
      /\ l = IF Fresh(bytes, i) THEN <<>> ELSE raw[n]
      /\ \A k \in 1 .. n : StripLf(raw[k]) = p[k]
  BY DEF InStep
<1>3. m \in Nat \ {0} /\ l \in L /\ n \in Nat
  <2>1. <<>> \in Seq(Chars)
    OBVIOUS
  <2>2. m \in Nat \ {0} /\ l \in L
    BY <1>2, <2>1, LastGrown
  <2>3. n \in Nat
    BY <1>2 DEF Lines
  <2> QED BY <2>2, <2>3
<1> HIDE DEF l
<1>4. w \in L /\ StripLf(w) = IF c = Newline THEN l ELSE w
  <2>1. w \in L
    BY <1>1, <1>3, AppendProperties
  <2> QED BY <1>1, <1>3, <2>1, StripLfAppend
<1> HIDE DEF w
<1>5. raw1 \in Lines /\ Len(raw1) = m /\ raw1[m] = w /\ \A k \in 1 .. m - 1 : raw1[k] = raw[k]
  <2>1. CASE Fresh(bytes, i)
    <3>1. m = n + 1 /\ l = <<>>
      BY <1>2, <2>1
    <3>2. w = <<c>>
      BY <3>1 DEF w
    <3>3. raw1 = Append(raw, w)
      BY <2>1, <3>2
    <3>4. Appended(raw, w, raw1, L)
      BY <1>2, <1>4, <3>3, AppendIs DEF Lines
    <3>5. m - 1 = n
      BY <1>3, <3>1
    <3> HIDE DEF raw1
    <3> QED BY <3>1, <3>4, <3>5 DEF Appended, Lines
  <2>2. CASE ~ Fresh(bytes, i)
    <3>1. m = n /\ l = raw[m]
      BY <1>2, <2>2
    <3>2. n \in DOMAIN raw
      BY <1>2, <1>3, <3>1 DEF Lines
    <3>3. raw1 = [raw EXCEPT ![n] = w]
      BY <2>2, <3>1, <3>2 DEF w
    <3>4. raw # <<>>
      BY <1>3, <3>1
    <3>5. /\ [raw EXCEPT ![n] = w] \in Lines /\ Len([raw EXCEPT ![n] = w]) = n
          /\ [raw EXCEPT ![n] = w][n] = w /\ \A k \in 1 .. n - 1 : [raw EXCEPT ![n] = w][k] = raw[k]
      BY <1>2, <1>4, <3>4, LastGrown
    <3> HIDE DEF raw1
    <3> QED BY <3>1, <3>3, <3>5
  <2> QED BY <2>1, <2>2
<1> HIDE DEF raw1
<1>6. \A k \in 1 .. m - 1 : StripLf(raw1[k]) = p[k]
  <2>1. \A k \in 1 .. m - 1 : k \in 1 .. n
    BY <1>2, <1>3
  <2> QED BY <1>2, <1>5, <2>1
<1>7. Fresh(bytes, i + 1) <=> c = Newline
  BY DEF Fresh, c
<1>8. CASE c = Newline
  <2> DEFINE e == <<>>
  <2>1. e \in L /\ p1 = Append(p, e)
    BY <1>8
  <2> HIDE DEF e
  <2>2. Appended(p, e, p1, L)
    BY <1>2, <2>1, AppendIs DEF Lines
  <2>3. p1 \in Lines /\ Len(p1) = m + 1 /\ p1[m + 1] = e /\ \A k \in 1 .. m : p1[k] = p[k]
    BY <2>2 DEF Appended, Lines
  <2> HIDE DEF p1
  <2>4. p1 # <<>>
    BY <1>3, <2>3
  <2>5. ASSUME NEW k \in 1 .. m PROVE StripLf(raw1[k]) = p1[k]
    <3>1. CASE k = m
      <4>1. StripLf(raw1[k]) = l
        BY <1>4, <1>5, <1>8, <3>1
      <4> QED BY <2>3, <3>1, <4>1 DEF l
    <3>2. CASE k # m
      <4>1. k \in 1 .. m - 1
        BY <1>3, <3>2
      <4> QED BY <1>6, <2>3, <4>1
    <3> QED BY <3>1, <3>2
  <2>6. InStep(raw1, p1, bytes, i + 1)
    BY <1>5, <1>7, <1>8, <2>3, <2>4, <2>5 DEF InStep, e
  <2> QED BY <2>6 DEF raw1, p1, c
<1>9. CASE c # Newline
  <2>1. m \in DOMAIN p
    BY <1>2, <1>3 DEF Lines
  <2>2. p1 = [p EXCEPT ![m] = w]
    BY <1>9, <2>1 DEF w, l
  <2>3. /\ [p EXCEPT ![m] = w] \in Lines /\ Len([p EXCEPT ![m] = w]) = m
        /\ [p EXCEPT ![m] = w][m] = w /\ \A k \in 1 .. m - 1 : [p EXCEPT ![m] = w][k] = p[k]
    BY <1>2, <1>4, LastGrown
  <2> HIDE DEF p1
  <2>4. p1 \in Lines /\ Len(p1) = m /\ p1[m] = w /\ \A k \in 1 .. m - 1 : p1[k] = p[k]
    BY <2>2, <2>3
  <2>5. p1 # <<>>
    BY <1>3, <2>4
  <2>6. ASSUME NEW k \in 1 .. m PROVE StripLf(raw1[k]) = p1[k]
    <3>1. CASE k = m
      BY <1>4, <1>5, <1>9, <2>4, <3>1
    <3>2. CASE k # m
      <4>1. k \in 1 .. m - 1
        BY <1>3, <3>2
      <4> QED BY <1>6, <2>4, <4>1
    <3> QED BY <3>1, <3>2
  <2>7. InStep(raw1, p1, bytes, i + 1)
    BY <1>5, <1>7, <1>9, <2>4, <2>5, <2>6 DEF InStep
  <2> QED BY <2>7 DEF raw1, p1, c
<1> QED BY <1>8, <1>9

LEMMA LinesInStep ==
    ASSUME NEW bytes \in Seq(Chars)
    PROVE  InStep(RawLines(bytes), Pieces(bytes), bytes, Len(bytes))
<1> DEFINE n == Len(bytes)
<1>1. n \in Nat
  OBVIOUS
<1>2. PICK f : Scanning(f, bytes, n) /\ RawLines(bytes) = f[n]
  BY <1>1, RawLinesUnfold
<1>3. PICK g : Splitting(g, bytes, n) /\ Pieces(bytes) = g[n]
  BY <1>1, PiecesUnfold
<1> DEFINE T == {m \in Nat : m <= n => InStep(f[m], g[m], bytes, m)}
<1>4. 0 \in T
  <2> DEFINE r == <<>>
             p == << <<>> >>
  <2>1. f[0] = r /\ g[0] = p
    BY <1>1, <1>2, <1>3 DEF Scanning, Splitting
  <2>2. r \in Lines /\ p \in Lines /\ p # <<>> /\ Len(r) = 0 /\ Len(p) = 1 /\ p[1] = <<>>
    BY DEF Lines
  <2> HIDE DEF r, p
  <2>3. InStep(r, p, bytes, 0)
    BY <2>2 DEF InStep, Fresh
  <2> QED BY <2>1, <2>3
<1>5. ASSUME NEW m \in Nat, m \in T PROVE m + 1 \in T
  <2> SUFFICES ASSUME m + 1 <= n PROVE InStep(f[m + 1], g[m + 1], bytes, m + 1)
    OBVIOUS
  <2> DEFINE c == bytes[m + 1]
             raw == f[m]
             p == g[m]
  <2>1. m + 1 \in 0 .. n /\ m + 1 # 0 /\ (m + 1) - 1 = m /\ (m + 1 = 1 <=> m = 0)
    BY <1>1
  <2>2. f[m + 1] = IF Fresh(bytes, m) THEN Append(raw, <<c>>)
                   ELSE [raw EXCEPT ![Len(raw)] = Append(@, c)]
    BY <1>2, <2>1 DEF Scanning, Fresh
  <2>3. g[m + 1] = IF c = Newline THEN Append(p, <<>>) ELSE [p EXCEPT ![Len(p)] = Append(@, c)]
    BY <1>3, <2>1 DEF Splitting
  <2>4. InStep(raw, p, bytes, m) /\ m < Len(bytes)
    BY <1>1, <1>5
  <2> HIDE DEF raw, p
  <2>5. InStep(IF Fresh(bytes, m) THEN Append(raw, <<c>>)
               ELSE [raw EXCEPT ![Len(raw)] = Append(@, c)],
               IF c = Newline THEN Append(p, <<>>) ELSE [p EXCEPT ![Len(p)] = Append(@, c)],
               bytes, m + 1)
    BY <2>4, StepTaken
  <2> QED BY <2>2, <2>3, <2>5
<1>6. Nat \subseteq T
  <2> HIDE DEF T
  <2> QED BY <1>4, <1>5, SetInduction
<1> QED BY <1>1, <1>2, <1>3, <1>6

LEMMA StripCrType ==
    ASSUME NEW l \in Seq(Chars)
    PROVE  StripCr(l) \in Seq(Chars) /\ (l = <<>> => StripCr(l) = <<>>)
<1>1. CASE l # <<>> /\ l[Len(l)] = CR
  <2>1. /\ Len(l) - 1 \in Nat /\ Len(l) - 1 <= Len(l) /\ 0 \in Nat /\ 0 + 1 = 1
        /\ 0 <= Len(l) - 1
    BY <1>1
  <2>2. SubSeq(l, 0 + 1, Len(l) - 1) \in Seq(Chars)
    BY <2>1, CutOf
  <2> QED BY <1>1, <2>1, <2>2 DEF StripCr
<1>2. CASE ~ (l # <<>> /\ l[Len(l)] = CR)
  BY <1>2 DEF StripCr
<1> QED BY <1>1, <1>2

\* The lines of a file with no terminator, as the searcher ends them.
Clean(bytes) == [k \in DOMAIN RawLines(bytes) |-> StripLineTerminator(RawLines(bytes)[k])]

LEMMA SplitAgrees ==
    ASSUME NEW bytes \in Seq(Chars)
    PROVE  LET lines == Clean(bytes)
               split == SplitLinesLossy(bytes)
           IN  /\ DOMAIN RawLines(bytes) = 1 .. Len(lines)
               /\ lines \in Lines /\ split \in Lines
               /\ lines # <<>> => bytes # <<>>
               /\ split = IF Fresh(bytes, Len(bytes)) THEN Append(lines, <<>>) ELSE lines
<1> DEFINE L == Seq(Chars)
           n == Len(bytes)
           raw == RawLines(bytes)
           p == Pieces(bytes)
           lines == Clean(bytes)
           split == SplitLinesLossy(bytes)
           m == Len(raw)
<1>1. InStep(raw, p, bytes, n) /\ n \in Nat
  BY LinesInStep
<1>2. bytes = <<>> => raw = <<>>
  <2> SUFFICES ASSUME bytes = <<>> PROVE raw = <<>>
    OBVIOUS
  <2>1. n = 0 /\ 0 \in Nat
    OBVIOUS
  <2>2. PICK f : Scanning(f, bytes, 0) /\ RawLines(bytes) = f[0]
    BY <2>1, RawLinesUnfold
  <2>3. f[0] = <<>>
    BY <2>2 DEF Scanning
  <2> QED BY <2>2, <2>3
<1>3. lines = [k \in DOMAIN raw |-> StripCr(StripLf(raw[k]))]
  BY DEF Clean, StripLineTerminator
<1>4. split = [k \in DOMAIN p |-> StripCr(p[k])]
  BY DEF SplitLinesLossy
<1> HIDE DEF raw, p, lines, split, n
<1>5. /\ raw \in Lines /\ p \in Lines /\ p # <<>>
      /\ Len(p) = IF Fresh(bytes, n) THEN m + 1 ELSE m
      /\ Fresh(bytes, n) => p[Len(p)] = <<>>
      /\ \A k \in 1 .. m : StripLf(raw[k]) = p[k]
  BY <1>1 DEF InStep
<1>6. m \in Nat /\ Len(p) \in Nat /\ DOMAIN raw = 1 .. m /\ DOMAIN p = 1 .. Len(p)
  BY <1>5 DEF Lines
<1>7. \A k \in 1 .. Len(p) : p[k] \in L /\ StripCr(p[k]) \in L
  <2>1. \A k \in 1 .. Len(p) : p[k] \in L
    BY <1>5, ElementOfSeq DEF Lines
  <2> QED BY <2>1, StripCrType
<1>8. \A k \in 1 .. m : k \in 1 .. Len(p)
  BY <1>5, <1>6
<1> HIDE DEF m, L
<1>9. lines = [k \in 1 .. m |-> StripCr(p[k])]
  BY <1>3, <1>5, <1>6
<1>10. split \in Seq(L) /\ Len(split) = Len(p)
  <2>1. split \in [1 .. Len(p) -> L]
    BY <1>4, <1>6, <1>7
  <2> QED BY <1>6, <2>1
<1>11. lines \in Seq(L) /\ Len(lines) = m
  <2>1. lines \in [1 .. m -> L]
    BY <1>7, <1>8, <1>9
  <2> QED BY <1>6, <2>1
<1>12. \A k \in 1 .. m : split[k] = lines[k]
  BY <1>4, <1>6, <1>8, <1>9
<1>13. CASE Fresh(bytes, n)
  <2> DEFINE e == <<>>
             t == Append(lines, e)
  <2>1. e \in L
    BY DEF L
  <2>2. split[m + 1] = e
    <3>1. m + 1 \in DOMAIN p /\ p[m + 1] = <<>> /\ p[m + 1] \in L
      BY <1>5, <1>6, <1>7, <1>13
    <3> QED BY <1>4, <3>1, StripCrType DEF L
  <2> HIDE DEF e
  <2>3. Appended(lines, e, t, L)
    BY <1>11, <2>1, AppendIs
  <2> HIDE DEF t
  <2>4. t \in Seq(L) /\ Len(t) = m + 1 /\ t[m + 1] = e /\ \A k \in 1 .. m : t[k] = lines[k]
    BY <1>11, <2>3 DEF Appended
  <2>5. Len(split) = m + 1
    BY <1>5, <1>10, <1>13
  <2>6. \A k \in 1 .. m + 1 : split[k] = t[k]
    <3>1. \A k \in 1 .. m + 1 : k \in 1 .. m \/ k = m + 1
      BY <1>6
    <3> QED BY <1>12, <2>2, <2>4, <3>1
  <2>7. split = t
    BY <1>10, <2>4, <2>5, <2>6, SeqEqual
  <2>8. split = IF Fresh(bytes, n) THEN Append(lines, <<>>) ELSE lines
    BY <1>13, <2>7 DEF t, e
  <2>9. lines # <<>> => bytes # <<>>
    BY <1>2, <1>3
  <2> QED BY <1>6, <1>10, <1>11, <2>8, <2>9 DEF Lines, L, n, raw, lines, split
<1>14. CASE ~ Fresh(bytes, n)
  <2>1. split = lines
    BY <1>5, <1>10, <1>11, <1>12, <1>14, SeqEqual
  <2>2. lines # <<>> => bytes # <<>>
    BY <1>2, <1>3
  <2> QED BY <1>6, <1>10, <1>11, <1>14, <2>1, <2>2 DEF Lines, L, n, raw, lines, split
<1> QED BY <1>13, <1>14

\* A line of a text between as many before it and after it as asked for.
WindowFrom(no, count) == IF no - count >= 1 THEN no - count ELSE 1
WindowTo(n, no, count) == IF no + count <= n THEN no + count ELSE n

LEMMA WindowIs ==
    ASSUME NEW S, NEW u \in Seq(S), NEW no \in 1 .. Len(u), NEW i \in Nat, NEW j \in Nat
    PROVE  LET a == WindowFrom(no, i)
               b == WindowTo(Len(u), no, j)
           IN  /\ Max({no - i, 1}) = a /\ Min({no + j, Len(u)}) = b
               /\ a \in 1 .. no /\ b \in no .. Len(u)
               /\ no - Len(Before(u, no, i)) = a /\ no + Len(After(u, no, j)) = b
               /\ Before(u, no, i) \o <<u[no]>> \o After(u, no, j) = SubSeq(u, a, b)
<1> DEFINE n == Len(u)
           a == WindowFrom(no, i)
           b == WindowTo(n, no, j)
           pre == SubSeq(u, a, no - 1)
           post == SubSeq(u, no + 1, b)
<1>1. n \in Nat /\ no \in Nat \ {0} /\ no <= n
  OBVIOUS
<1>2. a \in 1 .. no /\ b \in no .. n
  BY <1>1 DEF WindowFrom, WindowTo
<1>3. Max({no - i, 1}) = a
  BY <1>1, MaxOfTwo DEF WindowFrom
<1>4. Min({no + j, n}) = b
  BY <1>1, MinOfTwo DEF WindowTo
<1> HIDE DEF a, b
<1>5. Before(u, no, i) = pre /\ After(u, no, j) = post
  BY <1>3, <1>4 DEF Before, After
<1>6. /\ a - 1 \in Nat /\ (a - 1) + 1 = a /\ no - 1 \in Nat /\ a - 1 <= no - 1 /\ no - 1 <= n
      /\ a - 1 <= no /\ b \in Nat /\ no <= b /\ b <= n
      /\ no \in a .. n /\ a \in 1 .. n
  BY <1>1, <1>2
<1>7. Len(pre) = (no - 1) - (a - 1)
  <2>1. Len(SubSeq(u, (a - 1) + 1, no - 1)) = (no - 1) - (a - 1)
    BY <1>6, CutOf
  <2> QED BY <1>6, <2>1
<1>8. Len(post) = b - no
  BY <1>1, <1>6, CutOf
<1>9. pre \o <<u[no]>> = SubSeq(u, a, no)
  BY <1>6, SubSeqRecursiveSecond
<1>10. SubSeq(u, a, no) \o post = SubSeq(u, a, b)
  <2>1. SubSeq(u, (a - 1) + 1, no) \o SubSeq(u, no + 1, b) = SubSeq(u, (a - 1) + 1, b)
    BY <1>1, <1>6, CutsMeet
  <2> QED BY <1>6, <2>1
<1>11. no - Len(pre) = a /\ no + Len(post) = b
  BY <1>1, <1>6, <1>7, <1>8
<1> HIDE DEF pre, post
<1>12. Before(u, no, i) \o <<u[no]>> \o After(u, no, j) = SubSeq(u, a, b)
  BY <1>5, <1>9, <1>10
<1> QED BY <1>2, <1>3, <1>4, <1>5, <1>11, <1>12 DEF a, b

\* A cut that stops before the end does not see what is put there.
LEMMA CutOfAppend ==
    ASSUME NEW S, NEW u \in Seq(S), NEW e \in S, NEW a \in Nat, NEW b \in Nat,
           a <= b, b <= Len(u)
    PROVE  SubSeq(Append(u, e), a + 1, b) = SubSeq(u, a + 1, b)
<1> DEFINE v == Append(u, e)
           s == SubSeq(u, a + 1, b)
           t == SubSeq(v, a + 1, b)
<1>1. Appended(u, e, v, S)
  BY AppendIs
<1> HIDE DEF v
<1>2. v \in Seq(S) /\ Len(v) = Len(u) + 1 /\ Len(u) \in Nat /\ \A i \in 1 .. Len(u) : v[i] = u[i]
  BY <1>1 DEF Appended
<1>3. b <= Len(v)
  BY <1>2
<1>4. s \in Seq(S)
  BY CutOf
<1>5. Len(s) = b - a
  BY CutOf
<1>6. t \in Seq(S)
  BY <1>2, <1>3, CutOf
<1>7. Len(t) = b - a
  BY <1>2, <1>3, CutOf
<1>8. \A i \in 1 .. b - a : s[i] = t[i]
  <2>1. \A i \in a + 1 .. b : u[i] \in S /\ v[i] \in S
    <3>1. \A i \in a + 1 .. b : i \in 1 .. Len(u) /\ i \in 1 .. Len(v)
      BY <1>2
    <3> QED BY <1>2, <3>1, ElementOfSeq
  <2>2. /\ b - (a + 1) + 1 = b - a /\ a + 1 \in Int /\ b \in Int
        /\ \A i \in 1 .. b - a : a + 1 + i - 1 \in 1 .. Len(u)
    BY <1>2
  <2>3. \A i \in 1 .. b - (a + 1) + 1 : s[i] = u[a + 1 + i - 1]
    BY <2>1, <2>2, SubSeqProperties
  <2>4. \A i \in 1 .. b - (a + 1) + 1 : t[i] = v[a + 1 + i - 1]
    BY <2>1, <2>2, SubSeqProperties
  <2> HIDE DEF s, t
  <2> QED BY <1>2, <2>2, <2>3, <2>4
<1> HIDE DEF s, t
<1>9. s = t
  BY <1>4, <1>5, <1>6, <1>7, <1>8, SeqEqual
<1> QED BY <1>9 DEF s, t, v

LEMMA MatchShown ==
    ASSUME NEW f \in Listed, NEW query \in Query, NEW no \in DOMAIN RawLines(f.bytes),
           Hit(StripLf(RawLines(f.bytes)[no]))
    PROVE  ShowsNeighbours(Matched(f.path, f.bytes, no, query), f, query)
<1> DEFINE L == Seq(Chars)
           bytes == f.bytes
           i == query.context_before
           j == query.context_after
           hit == Matched(f.path, bytes, no, query)
           lines == Clean(bytes)
           split == SplitLinesLossy(bytes)
           n == Len(lines)
           closed == bytes[Len(bytes)] = Newline
           phantom == closed /\ no + j > n /\ j > 0
           file == IF phantom THEN Append(lines, <<>>) ELSE lines
<1>1. bytes \in Seq(STRING) /\ i \in Nat /\ j \in Nat
  BY DEF Listed, Query
<1>2. bytes \in Seq(Chars)
  <2>1. STRING \subseteq Chars
    BY DEF Chars
  <2> QED BY <1>1, <2>1, SeqMonotonic
<1>3. /\ DOMAIN RawLines(bytes) = 1 .. n
      /\ lines \in Seq(L) /\ split \in Seq(L)
      /\ lines # <<>> => bytes # <<>>
      /\ split = IF Fresh(bytes, Len(bytes)) THEN Append(lines, <<>>) ELSE lines
  BY <1>2, SplitAgrees DEF Lines
<1>4. /\ hit.path = f.path /\ hit.line_no = no
      /\ hit.line = StripLineTerminator(RawLines(bytes)[no])
      /\ hit.before = Before(split, no, i) /\ hit.after = After(split, no, j)
  BY DEF Matched
<1>5. lines[no] = hit.line
  BY <1>4 DEF Clean
<1> HIDE DEF hit, bytes, lines, split, L, i, j
<1>6. n \in Nat /\ no \in 1 .. n /\ lines # <<>> /\ bytes # <<>>
  <2>1. n \in Nat /\ no \in 1 .. n
    BY <1>3 DEF bytes
  <2>2. lines # <<>>
    BY <1>3, <2>1
  <2> QED BY <1>3, <2>1, <2>2
<1>7. Fresh(bytes, Len(bytes)) <=> closed
  <2>1. Len(bytes) # 0
    BY <1>2, <1>6
  <2> QED BY <2>1 DEF Fresh
<1> DEFINE e == <<>>
<1>8. e \in L
  BY DEF L
<1> HIDE DEF e
<1>9. Appended(lines, e, Append(lines, e), L)
  BY <1>3, <1>8, AppendIs
<1>10. /\ Len(Append(lines, e)) = n + 1
       /\ \A k \in 1 .. n : Append(lines, e)[k] = lines[k]
  BY <1>9 DEF Appended
<1>11. split = IF closed THEN Append(lines, e) ELSE lines
  BY <1>3, <1>7 DEF e
<1> HIDE DEF closed
<1>12. no \in 1 .. Len(split) /\ split[no] = hit.line
       /\ Len(split) = IF closed THEN n + 1 ELSE n
  BY <1>5, <1>6, <1>10, <1>11
<1> DEFINE a == WindowFrom(no, i)
           b == WindowTo(Len(split), no, j)
<1>13. /\ Max({no - i, 1}) = a
       /\ a \in 1 .. no /\ b \in no .. Len(split)
       /\ no - Len(hit.before) = a /\ no + Len(hit.after) = b
       /\ hit.before \o <<hit.line>> \o hit.after = SubSeq(split, a, b)
  <2>1. split \in Seq(L) /\ no \in 1 .. Len(split) /\ i \in Nat /\ j \in Nat
    BY <1>1, <1>3, <1>12 DEF i, j
  <2> DEFINE pre == Before(split, no, i)
             post == After(split, no, j)
  <2>2. Max({no - i, 1}) = a /\ a \in 1 .. no /\ b \in no .. Len(split)
    BY <2>1, WindowIs
  <2>3. no - Len(pre) = a /\ no + Len(post) = b
    BY <2>1, WindowIs
  <2>4. pre \o <<split[no]>> \o post = SubSeq(split, a, b)
    BY <2>1, WindowIs
  <2>5. hit.before = pre /\ hit.after = post /\ hit.line = split[no]
    BY <1>4, <1>12
  <2> HIDE DEF a, b, pre, post
  <2> QED BY <2>2, <2>3, <2>4, <2>5
<1>14. SubSeq(split, a, b) = SubSeq(file, a, b) /\ Min({no + j, Len(file)}) = b
  <2>1. j \in Nat /\ no \in Nat /\ i \in Nat
    BY <1>1, <1>6 DEF i, j
  <2>2. CASE phantom \/ ~ closed
    <3>1. file = split
      BY <1>11, <2>2 DEF e
    <3> HIDE DEF file, phantom
    <3>2. Len(split) \in Nat
      BY <1>6, <1>12
    <3>3. Min({no + j, Len(split)}) = b
      BY <2>1, <3>2, MinOfTwo DEF WindowTo
    <3> QED BY <3>1, <3>3
  <2>3. CASE ~ (phantom \/ ~ closed)
    <3>1. file = lines /\ split = Append(lines, e) /\ no + j <= n
      BY <1>6, <1>11, <2>1, <2>3
    <3> HIDE DEF file, phantom
    <3>2. b = no + j /\ b \in Nat /\ b <= n
      BY <1>6, <1>12, <2>1, <3>1 DEF WindowTo
    <3>3. Min({no + j, n}) = b
      BY <1>6, <2>1, <3>2, MinOfTwo
    <3>4. a - 1 \in Nat /\ (a - 1) + 1 = a /\ a - 1 <= b
      BY <1>13, <2>1, <3>2
    <3> HIDE DEF a, b
    <3>5. SubSeq(Append(lines, e), (a - 1) + 1, b) = SubSeq(lines, (a - 1) + 1, b)
      BY <1>3, <1>8, <3>2, <3>4, CutOfAppend
    <3>6. SubSeq(split, a, b) = SubSeq(file, a, b)
      BY <3>1, <3>4, <3>5
    <3> QED BY <3>1, <3>3, <3>6
  <2> QED BY <2>2, <2>3
<1>15. Len(lines) = n /\ f.path = hit.path /\ Hit(StripLf(RawLines(bytes)[hit.line_no]))
  BY <1>4 DEF bytes
<1>16. lines = [k \in DOMAIN RawLines(bytes) |-> StripLineTerminator(RawLines(bytes)[k])]
  BY DEF lines, Clean
<1> HIDE DEF a, b
<1>17. /\ hit.before \o <<hit.line>> \o hit.after
            = SubSeq(file, no - Len(hit.before), no + Len(hit.after))
       /\ no - Len(hit.before) = Max({no - i, 1})
       /\ no + Len(hit.after) = Min({no + j, Len(file)})
  BY <1>13, <1>14
<1>18. hit.line_no = no
  BY <1>4
<1>19. ShowsNeighbours(hit, f, query)
  BY <1>15, <1>16, <1>17, <1>18 DEF ShowsNeighbours, closed, i, j, bytes
<1> QED BY <1>19 DEF hit, bytes

LEMMA FlattenType ==
    ASSUME NEW S, NEW ss \in Seq(Seq(S))
    PROVE  FlattenSeq(ss) \in Seq(S)
<1>1. CASE ss = <<>>
  <2>1. Len(ss) = 0 /\ ss \in Seq(S)
    BY <1>1
  <2>2. FlattenSeq(ss) = ss
    BY <2>1 DEF FlattenSeq
  <2> QED BY <2>1, <2>2
<1>2. CASE ss # <<>>
  <2>1. <<>> \in Seq(S)
    OBVIOUS
  <2> QED BY <1>2, <2>1, FlattenAppend
<1> QED BY <1>1, <1>2

LEMMA HitsShown ==
    ASSUME NEW view \in Seq(Listed), NEW query \in Query
    PROVE  HitsShowNeighbours(view, query)
<1> DEFINE Shown == {x \in {Matched(f.path, f.bytes, no, query) : f \in ToSet(view), no \in Nat} :
                       \E f \in ToSet(view) : ShowsNeighbours(x, f, query)}
<1>1. ASSUME NEW d \in DOMAIN view PROVE FileHits(view[d], query) \in Seq(Shown)
  <2> DEFINE f == view[d]
             raw == RawLines(f.bytes)
             found(no) == IF Hit(StripLf(raw[no])) THEN <<Matched(f.path, f.bytes, no, query)>>
                          ELSE <<>>
             ss == [no \in DOMAIN raw |-> found(no)]
  <2>1. f \in Listed /\ f \in ToSet(view)
    BY DEF ToSet
  <2>2. f.bytes \in Seq(Chars)
    <3>1. STRING \subseteq Chars /\ f.bytes \in Seq(STRING)
      BY <2>1 DEF Chars, Listed
    <3> QED BY <3>1, SeqMonotonic
  <2>3. DOMAIN raw = 1 .. Len(Clean(f.bytes)) /\ Len(Clean(f.bytes)) \in Nat
    <3>1. DOMAIN raw = 1 .. Len(Clean(f.bytes)) /\ Clean(f.bytes) \in Lines
      BY <2>2, SplitAgrees
    <3> QED BY <3>1 DEF Lines
  <2> HIDE DEF f
  <2>4. ASSUME NEW no \in DOMAIN raw PROVE found(no) \in Seq(Shown)
    <3> DEFINE x == Matched(f.path, f.bytes, no, query)
    <3>1. CASE Hit(StripLf(raw[no]))
      <4>1. ShowsNeighbours(x, f, query)
        BY <2>1, <3>1, MatchShown
      <4>2. no \in Nat
        BY <2>3
      <4>3. x \in Shown
        BY <2>1, <4>1, <4>2
      <4> HIDE DEF Shown, x, raw
      <4>4. found(no) = <<x>>
        BY <3>1 DEF x
      <4> HIDE DEF found
      <4> QED BY <4>3, <4>4
    <3>2. CASE ~ Hit(StripLf(raw[no]))
      BY <3>2
    <3> QED BY <3>1, <3>2
  <2> HIDE DEF Shown, found, raw
  <2>5. ss \in Seq(Seq(Shown))
    <3>1. ss \in [1 .. Len(Clean(f.bytes)) -> Seq(Shown)]
      BY <2>3, <2>4
    <3> HIDE DEF ss
    <3> QED BY <2>3, <3>1
  <2> HIDE DEF ss
  <2>6. FlattenSeq(ss) \in Seq(Shown)
    BY <2>5, FlattenType
  <2>7. FileHits(f, query) = <<>> \/ FileHits(f, query) = FlattenSeq(ss)
    BY DEF FileHits, ss, found, raw
  <2>8. FileHits(f, query) \in Seq(Shown)
    <3> DEFINE got == FileHits(f, query)
    <3>1. got = <<>> \/ got = FlattenSeq(ss)
      BY <2>7
    <3> HIDE DEF got
    <3>2. CASE got = <<>>
      <4>1. got \in Seq(Shown)
        BY <3>2
      <4> QED BY <4>1 DEF got
    <3>3. CASE got = FlattenSeq(ss)
      <4>1. got \in Seq(Shown)
        BY <2>6, <3>3
      <4> QED BY <4>1 DEF got
    <3> QED BY <3>1, <3>2, <3>3
  <2> QED BY <2>8 DEF f
<1> DEFINE n == Len(view)
           found(d) == IF Searched(view[d], query) THEN FileHits(view[d], query) ELSE <<>>
           ss == [d \in DOMAIN view |-> found(d)]
           all == FlattenSeq(ss)
           b == Min({Max({query.max_results, 1}), Len(all)})
           hits == SubSeq(all, 1, b)
<1>2. n \in Nat /\ DOMAIN view = 1 .. n
  OBVIOUS
<1> HIDE DEF Shown, n
<1>3. \A d \in 1 .. n : found(d) \in Seq(Shown)
  BY <1>1, <1>2
<1> HIDE DEF found
<1>4. ss \in Seq(Seq(Shown))
  <2>1. ss \in [1 .. n -> Seq(Shown)]
    BY <1>2, <1>3
  <2> HIDE DEF ss
  <2> QED BY <1>2, <2>1
<1> HIDE DEF ss
<1>5. all \in Seq(Shown) /\ Len(all) \in Nat
  <2>1. all \in Seq(Shown)
    BY <1>4, FlattenType
  <2> HIDE DEF all
  <2> QED BY <2>1
<1> HIDE DEF all
<1>6. b \in Nat /\ b <= Len(all)
  <2>1. query.max_results \in Nat
    BY DEF Query
  <2> DEFINE m == Max({query.max_results, 1})
  <2>2. m \in Nat
    BY <2>1, MaxOfTwo
  <2> HIDE DEF m
  <2>3. Min({m, Len(all)}) = IF m <= Len(all) THEN m ELSE Len(all)
    BY <1>5, <2>2, MinOfTwo
  <2> QED BY <1>5, <2>2, <2>3 DEF m
<1>7. hits \in Seq(Shown)
  <2>1. 0 \in Nat /\ 0 + 1 = 1 /\ 0 <= b
    BY <1>6
  <2> HIDE DEF b
  <2>2. SubSeq(all, 0 + 1, b) \in Seq(Shown)
    BY <1>5, <1>6, <2>1, CutOf
  <2> QED BY <2>1, <2>2
<1>8. SearchView(view, query) = hits
  BY DEF SearchView, ss, found, all
<1> HIDE DEF hits
<1>9. ASSUME NEW h \in DOMAIN hits PROVE \E f \in ToSet(view) : ShowsNeighbours(hits[h], f, query)
  <2>1. hits[h] \in Shown
    BY <1>7, ElementOfSeq
  <2> QED BY <2>1 DEF Shown
<1> QED BY <1>8, <1>9 DEF HitsShowNeighbours

-----------------------------------------------------------------------------
(* The front ends.                                                         *)

LEMMA SameRoute ==
    ASSUME NEW principal, NEW req \in Request,
           ~ (req.op = "search_code" /\ req.case \notin CaseNames \union {Missing})
    PROVE  RestRoute(principal, req) = McpTool(principal, req)
<1>1. CASE req.op \in RepoOps
  BY <1>1 DEF RestRoute, McpTool, RestRepo, McpRepo, RepoOps
<1>2. CASE req.op \in SessionOps
  <2>1. req.op \notin RepoOps \union AsmOps \union {"search_code", "edit_file", "read_file"}
    BY <1>2 DEF SessionOps, RepoOps, AsmOps
  <2>2. RestRoute(principal, req) = RestSession(principal, req)
    BY <1>2, <2>1 DEF RestRoute
  <2>3. McpTool(principal, req) = McpSession(principal, req)
    BY <1>2, <2>1 DEF McpTool
  <2> QED BY <2>2, <2>3 DEF RestSession, McpSession
<1>3. CASE req.op \in AsmOps
  BY <1>3 DEF RestRoute, McpTool, RestAsm, McpAsm, AsmOps, SessionOps, RepoOps
<1>4. CASE req.op = "search_code"
  <2>1. RestRoute(principal, req) = RestSearch(principal, req)
    BY <1>4 DEF RestRoute, AsmOps, SessionOps, RepoOps
  <2>2. McpTool(principal, req) = McpSearch(principal, req)
    BY <1>4 DEF McpTool, AsmOps, SessionOps, RepoOps
  <2>3. (IF req.case = Missing THEN "smart" ELSE req.case) = CaseMode(req.case)
    BY <1>4, MissingIsNoName DEF CaseMode, CaseNames
  <2>4. CaseMode(req.case) \in CaseNames
    BY DEF CaseMode, CaseNames
  <2> QED BY <2>1, <2>2, <2>3, <2>4 DEF RestSearch, McpSearch
<1>5. CASE req.op = "edit_file"
  BY <1>5 DEF RestRoute, McpTool, RestEdit, McpEdit, AsmOps, SessionOps, RepoOps
<1>6. CASE req.op = "read_file"
  <2>1. McpTool(principal, req) = McpReadFile(principal, req)
    BY <1>6 DEF McpTool, AsmOps, SessionOps, RepoOps
  <2>2. RestRoute(principal, req) =
           IF req.session # Missing THEN RestReadSessionFile(principal, req)
           ELSE IF req.repo # Missing THEN RestReadRepoFile(req)
           ELSE Refused
    BY <1>6 DEF RestRoute, AsmOps, SessionOps, RepoOps
  <2> QED BY <2>1, <2>2 DEF McpReadFile, RestReadSessionFile, RestReadRepoFile
<1>7. req.op \in Operations
  BY DEF Request
<1> QED BY <1>1, <1>2, <1>3, <1>4, <1>5, <1>6, <1>7 DEF Operations

\* A case mode without a name: REST refuses, MCP takes it for smart case.
LEMMA MisnamedRoute ==
    ASSUME NEW principal, NEW req \in Request, req.op = "search_code",
           req.case \notin CaseNames \union {Missing}
    PROVE  /\ RestRoute(principal, req) = Refused
           /\ McpTool(principal, req) = McpTool(principal, [req EXCEPT !.case = "smart"])
<1>1. RestRoute(principal, req) = RestSearch(principal, req)
  BY DEF RestRoute, AsmOps, SessionOps, RepoOps
<1>2. McpTool(principal, req) = McpSearch(principal, req)
  BY DEF McpTool, AsmOps, SessionOps, RepoOps
<1> DEFINE smart == [req EXCEPT !.case = "smart"]
<1>3. /\ smart.op = "search_code" /\ smart.case = "smart"
      /\ smart.session = req.session /\ smart.repo = req.repo
  BY DEF Request
<1> HIDE DEF smart
<1>4. McpTool(principal, smart) = McpSearch(principal, smart)
  BY <1>3 DEF McpTool, AsmOps, SessionOps, RepoOps
<1>5. CaseMode(req.case) = CaseMode(smart.case)
  BY <1>3 DEF CaseMode, CaseNames
<1>6. McpSearch(principal, req) = McpSearch(principal, smart)
  BY <1>3, <1>5 DEF McpSearch
<1> QED BY <1>1, <1>2, <1>4, <1>6 DEF RestSearch, smart

LEMMA SameCall ==
    ASSUME NEW tokens, NEW presented, NEW req \in Request
    PROVE  FrontsAgree(tokens, presented, req)
<1> DEFINE principal == Authenticate(tokens, presented)
<1> HIDE DEF principal
<1>1. CASE principal = Missing
  BY <1>1 DEF FrontsAgree, RequireBearer, principal
<1>2. CASE principal # Missing /\ req.op = "search_code" /\ req.case \notin CaseNames \union {Missing}
  BY <1>2, MisnamedRoute DEF FrontsAgree, RequireBearer, principal
<1>3. CASE ~ (req.op = "search_code" /\ req.case \notin CaseNames \union {Missing})
  BY <1>3, SameRoute DEF FrontsAgree, RequireBearer, principal
<1> QED BY <1>1, <1>2, <1>3

LEMMA SameFault ==
    ASSUME NEW error
    PROVE  FaultsAgree(error)
BY DEF FaultsAgree, HttpStatus, ToMcpError

-----------------------------------------------------------------------------
(* Bytes and names in an executable.                                       *)

LEMMA WrappedSum ==
    ASSUME NEW a \in Address, NEW b \in Address
    PROVE  Wrap(a + b) = IF a + b < Word THEN a + b ELSE a + b - Word
<1>1. Word \in Nat /\ Word > 0 /\ a \in Nat /\ b \in Nat /\ a + b \in Nat /\ a + b < 2 * Word
  BY WordAssumption DEF Address
<1>2. PICK q \in Nat : a + b = Word * q + Wrap(a + b)
  BY <1>1 DEF Wrap
<1>3. Wrap(a + b) \in Nat /\ Wrap(a + b) < Word
  BY <1>1 DEF Wrap
<1>4. q >= 2 => Word * q >= 2 * Word
  BY <1>1
<1>5. q = 0 \/ q = 1
  BY <1>1, <1>2, <1>3, <1>4
<1>6. CASE q = 0
  <2>1. Word * q = 0
    BY <1>1, <1>6
  <2> QED BY <1>1, <1>2, <1>3, <2>1
<1>7. CASE q = 1
  <2>1. Word * q = Word
    BY <1>1, <1>7
  <2> QED BY <1>1, <1>2, <1>3, <2>1
<1> QED BY <1>5, <1>6, <1>7

\* The unchecked sum of the code: a range covers what it holds, but at the end of
\* the addresses nothing.
LEMMA CoversHolds ==
    ASSUME NEW r \in LoadRange, NEW va \in Address
    PROVE  /\ Covers(r, va) => Holds(r, va)
           /\ Holds(r, va) => Covers(r, va) \/ AtTheEnd(r)
<1>1. /\ r.addr \in Address /\ r.size \in Address
      /\ Wrap(r.addr + r.size) = IF r.addr + r.size < Word THEN r.addr + r.size
                                 ELSE r.addr + r.size - Word
  BY WrappedSum DEF LoadRange
<1>2. Word \in Nat
  BY WordAssumption
<1> QED BY <1>1, <1>2 DEF Covers, Holds, AtTheEnd, Address

\* The slice of a range that stores the byte, or the reason there is none.
Clamped(object, stored, delta, len, got) ==
    \/ /\ got = NoBytes
       /\ delta >= stored.size \/ stored.offset + stored.size > object.bytes
    \/ /\ got # NoBytes
       /\ delta < stored.size
       /\ got.begin - stored.offset = delta
       /\ got.end - got.begin = Min({len, stored.size - delta})
       /\ got.end <= object.bytes

LEMMA ClampedSlice ==
    ASSUME NEW object \in ObjectFile, NEW stored \in FileRange, NEW delta \in Nat,
           NEW len \in Address
    PROVE  Clamped(object, stored, delta, len, ClampSlice(object, stored, delta, len))
<1> DEFINE take == Min({len, stored.size - delta})
           begin == stored.offset + delta
           slice == [begin |-> begin, end |-> begin + take]
<1>1. /\ stored.offset \in Nat /\ stored.size \in Nat /\ object.bytes \in Nat
      /\ object.bytes < Word /\ Word \in Nat /\ len \in Nat /\ begin \in Nat
  BY WordAssumption DEF FileRange, ObjectFile, Address
<1>2. take = IF len <= stored.size - delta THEN len ELSE stored.size - delta
  BY <1>1, MinOfTwo
<1>3. ClampSlice(object, stored, delta, len) =
        IF delta >= stored.size \/ begin >= Word \/ begin + take >= Word \/ begin + take > object.bytes
          THEN NoBytes ELSE slice
  BY DEF ClampSlice
<1> HIDE DEF take
<1>4. CASE delta >= stored.size
  BY <1>3, <1>4 DEF Clamped
<1>5. CASE delta < stored.size /\ begin + take > object.bytes
  BY <1>1, <1>2, <1>3, <1>5 DEF Clamped
<1>6. CASE delta < stored.size /\ ~ (begin + take > object.bytes)
  <2>1. take \in Nat /\ ~ (begin >= Word) /\ ~ (begin + take >= Word)
    BY <1>1, <1>2, <1>6
  <2>2. ClampSlice(object, stored, delta, len) = slice
    BY <1>1, <1>3, <1>6, <2>1
  <2>3. slice \in [begin : Nat, end : Nat]
    BY <1>1, <2>1
  <2>4. slice # NoBytes
    BY <2>3, NoBytesIsNoResult
  <2> QED BY <1>1, <1>6, <2>1, <2>2, <2>4 DEF take, Clamped
<1> QED BY <1>1, <1>4, <1>5, <1>6

\* Why a range that holds an address may have no bytes for it, and the bytes it has.
NoneStored(object, r, va) ==
    \/ AtTheEnd(r) \/ ~ (r.stored # NoBytes /\ va - r.addr < r.stored.size)
    \/ r.stored # NoBytes /\ r.stored.offset + r.stored.size > object.bytes

Served(object, r, va, len, got) ==
    /\ Holds(r, va) /\ r.stored # NoBytes /\ va - r.addr < r.stored.size
    /\ got.begin - r.stored.offset = va - r.addr
    /\ got.end - got.begin = Min({len, r.stored.size - (va - r.addr)})
    /\ got.end <= object.bytes

LEMMA FirstCoverAnswers ==
    ASSUME NEW object \in ObjectFile, NEW ranges \in Seq(LoadRange),
           NEW va \in Address, NEW len \in Address
    PROVE  LET got == FirstCover(object, ranges, va, len)
           IN  \/ /\ got = NoBytes
                  /\ \/ \A r \in ToSet(ranges) : ~ Holds(r, va)
                     \/ \E r \in ToSet(ranges) : Holds(r, va) /\ NoneStored(object, r, va)
               \/ /\ got # NoBytes
                  /\ \E r \in ToSet(ranges) : Served(object, r, va, len, got)
<1> DEFINE I == {i \in 1 .. Len(ranges) : Covers(ranges[i], va)}
           k == IF I # {} THEN Min(I) ELSE 0
           got == FirstCover(object, ranges, va, len)
<1>1. Len(ranges) \in Nat /\ DOMAIN ranges = 1 .. Len(ranges)
  OBVIOUS
<1>2. \A i \in 1 .. Len(ranges) : ranges[i] \in LoadRange
  BY <1>1, ElementOfSeq
<1>3. ToSet(ranges) = {ranges[i] : i \in 1 .. Len(ranges)}
  BY <1>1 DEF ToSet
<1>4. got = IF k = 0 THEN NoBytes
            ELSE IF ranges[k].stored = NoBytes THEN NoBytes
            ELSE ClampSlice(object, ranges[k].stored, va - ranges[k].addr, len)
  BY DEF FirstCover, SelectInSeq
<1>5. /\ k = 0 => I = {}
      /\ k # 0 => k \in I
  BY <1>1, FirstPlace
<1> HIDE DEF k, got
<1>6. CASE k = 0
  <2>1. got = NoBytes
    BY <1>4, <1>6
  <2>2. \A r \in ToSet(ranges) : ~ Covers(r, va)
    BY <1>3, <1>5, <1>6
  <2>3. \A r \in ToSet(ranges) : Holds(r, va) => NoneStored(object, r, va)
    BY <1>2, <1>3, <2>2, CoversHolds DEF NoneStored
  <2> QED BY <2>1, <2>3 DEF got
<1>7. CASE k # 0
  <2> DEFINE r == ranges[k]
  <2>1. r \in LoadRange /\ r \in ToSet(ranges) /\ Covers(r, va)
    BY <1>2, <1>3, <1>5, <1>7
  <2>2. Holds(r, va)
    BY <2>1, CoversHolds
  <2>3. CASE r.stored = NoBytes
    <3>1. got = NoBytes /\ NoneStored(object, r, va)
      BY <1>4, <1>7, <2>3 DEF NoneStored
    <3> QED BY <2>1, <2>2, <3>1 DEF got
  <2>4. CASE r.stored # NoBytes
    <3>1. /\ r.stored \in FileRange /\ va - r.addr \in Nat
          /\ got = ClampSlice(object, r.stored, va - r.addr, len)
      BY <1>4, <1>7, <2>1, <2>2, <2>4, WordAssumption DEF LoadRange, Holds, Address
    <3>2. r.stored.size \in Nat /\ r.stored.offset \in Nat
      BY <3>1, WordAssumption DEF FileRange, Address
    <3>3. Clamped(object, r.stored, va - r.addr, len, got)
      BY <3>1, ClampedSlice
    <3>4. CASE got = NoBytes
      <4>1. NoneStored(object, r, va)
        BY <2>4, <3>1, <3>2, <3>3, <3>4 DEF Clamped, NoneStored
      <4> QED BY <2>1, <2>2, <3>4, <4>1 DEF got
    <3>5. CASE got # NoBytes
      <4>1. Served(object, r, va, len, got)
        BY <2>2, <2>4, <3>3, <3>5 DEF Clamped, Served
      <4> QED BY <2>1, <3>5, <4>1 DEF got
    <3> QED BY <3>4, <3>5
  <2> QED BY <2>3, <2>4
<1> QED BY <1>6, <1>7

LEMMA SliceIsObject ==
    ASSUME NEW file \in Executable, EffectiveSlice(file) # NoBytes
    PROVE  EffectiveSlice(file) \in ObjectFile
<1> DEFINE arches == file.arches
           Slice == [arch : STRING, object : ObjectFile \union {NoBytes}]
           I(name) == {i \in 1 .. Len(arches) : arches[i].arch = name}
           of(name) == IF I(name) # {} THEN Min(I(name)) ELSE 0
<1>1. file.object \in ObjectFile \union {NoBytes} /\ arches \in Seq(Slice)
  BY DEF Executable
<1>2. Len(arches) \in Nat /\ (arches # <<>> => 1 \in 1 .. Len(arches))
  BY <1>1
<1>3. ASSUME NEW i \in 1 .. Len(arches) PROVE arches[i].object \in ObjectFile \union {NoBytes}
  <2>1. arches[i] \in Slice
    BY <1>1, ElementOfSeq
  <2> QED BY <2>1
<1>4. ASSUME NEW name PROVE of(name) # 0 => of(name) \in 1 .. Len(arches)
  <2>1. I(name) \in SUBSET (1 .. Len(arches))
    OBVIOUS
  <2> HIDE DEF I
  <2> QED BY <1>2, <2>1, FirstPlace
<1>5. PickFatSlice(arches) =
        CASE arches = <<>>     -> NoBytes
          [] of("aarch64") # 0 -> arches[of("aarch64")].object
          [] of("aarch64") = 0 /\ of("x86_64") # 0 -> arches[of("x86_64")].object
          [] OTHER             -> arches[1].object
  BY DEF PickFatSlice, SelectInSeq
<1>6. PickFatSlice(arches) \in ObjectFile \union {NoBytes}
  <2> HIDE DEF of, arches
  <2>1. CASE arches = <<>>
    <3>1. of("aarch64") = 0 /\ of("x86_64") = 0
      BY <1>4, <2>1
    <3> QED BY <1>5, <2>1, <3>1
  <2>2. CASE arches # <<>>
    BY <1>2, <1>3, <1>4, <1>5, <2>2
  <2> QED BY <2>1, <2>2
<1> QED BY <1>1, <1>6 DEF EffectiveSlice

LEMMA CodeAnswered ==
    ASSUME NEW file \in Executable, NEW va \in Address, NEW len \in Address
    PROVE  BytesAreThoseAt(file, va, len)
<1> DEFINE object == EffectiveSlice(file)
           got == DisassembleRange(file, va, len)
           inSection == FirstCover(object, object.sections, va, len)
           inSegment == FirstCover(object, object.segments, va, len)
           ranges == ToSet(object.sections) \union ToSet(object.segments)
<1> SUFFICES ASSUME object # NoBytes, len > 0
             PROVE  IF got = NoBytes
                    THEN \/ \A r \in ranges : ~ Holds(r, va)
                         \/ \E r \in ranges : Holds(r, va) /\ NoneStored(object, r, va)
                    ELSE \E r \in ranges : Served(object, r, va, len, got)
  BY DEF BytesAreThoseAt, NoneStored, Served
<1>1. object \in ObjectFile
  BY SliceIsObject
<1>2. object.sections \in Seq(LoadRange) /\ object.segments \in Seq(LoadRange)
  BY <1>1 DEF ObjectFile
<1>3. got = IF inSection # NoBytes THEN inSection ELSE inSegment
  <2>1. len # 0
    BY DEF Address
  <2> QED BY <2>1 DEF DisassembleRange, VaToBytes
<1> HIDE DEF object
<1>4. \/ /\ inSection = NoBytes
         /\ \/ \A r \in ToSet(object.sections) : ~ Holds(r, va)
            \/ \E r \in ToSet(object.sections) : Holds(r, va) /\ NoneStored(object, r, va)
      \/ /\ inSection # NoBytes
         /\ \E r \in ToSet(object.sections) : Served(object, r, va, len, inSection)
  BY <1>1, <1>2, FirstCoverAnswers
<1>5. \/ /\ inSegment = NoBytes
         /\ \/ \A r \in ToSet(object.segments) : ~ Holds(r, va)
            \/ \E r \in ToSet(object.segments) : Holds(r, va) /\ NoneStored(object, r, va)
      \/ /\ inSegment # NoBytes
         /\ \E r \in ToSet(object.segments) : Served(object, r, va, len, inSegment)
  BY <1>1, <1>2, FirstCoverAnswers
<1> HIDE DEF inSection, inSegment, got
<1> QED BY <1>3, <1>4, <1>5

LEMMA AroundHolds ==
    ASSUME NEW s \in Symbol, NEW a \in Address
    PROVE  /\ Around(s, a) => Holds(s, a)
           /\ Holds(s, a) => s.addr <= a /\ (Around(s, a) \/ AtTheEnd(s))
<1>1. /\ s.addr \in Address /\ s.size \in Address
      /\ Wrap(s.addr + s.size) = IF s.addr + s.size < Word THEN s.addr + s.size
                                 ELSE s.addr + s.size - Word
  BY WrappedSum DEF Symbol
<1>2. Word \in Nat
  BY WordAssumption
<1> QED BY <1>1, <1>2 DEF Around, Holds, AtTheEnd, Address

\* got is what is reported of s.
Resolved(got, s, a, exact) ==
    /\ got # NoBytes /\ got.name = s.name /\ got.start = s.addr
    /\ got.exact = exact /\ got.start + got.offset = a

LEMMA ResolutionIsResult ==
    ASSUME NEW s \in Symbol, NEW a \in Address, s.addr <= a, NEW exact \in BOOLEAN
    PROVE  Resolved(Resolution(s, a, exact), s, a, exact)
<1> DEFINE got == Resolution(s, a, exact)
<1>1. s.addr \in Nat /\ a \in Nat /\ a - s.addr \in Nat /\ s.name \in STRING
  BY WordAssumption DEF Symbol, Address
<1>2. got = [name |-> s.name, start |-> s.addr, offset |-> a - s.addr, exact |-> exact]
  BY DEF Resolution
<1>3. got \in [name : STRING, start : Nat, offset : Nat, exact : BOOLEAN]
  BY <1>1, <1>2
<1>4. s.addr + (a - s.addr) = a
  BY <1>1
<1> HIDE DEF got
<1>5. got # NoBytes
  BY <1>3, NoBytesIsNoResult
<1>6. Resolved(got, s, a, exact)
  BY <1>2, <1>4, <1>5 DEF Resolved
<1> QED BY <1>6 DEF got

LEMMA NameAnswered ==
    ASSUME NEW object, object.symbols \in Seq(Symbol), NEW address \in Address
    PROVE  FunctionIsNearest(object, address)
<1> DEFINE syms == object.symbols
           got == ResolveFunction(object, address)
           Starts(s) == Named(s) /\ s.addr <= address
           Nearest(s) == Starts(s) /\ \A t \in ToSet(syms) : Starts(t) => t.addr <= s.addr
           A == {i \in 1 .. Len(syms) : Named(syms[i]) /\ Around(syms[i], address)}
           L == {i \in 1 .. Len(syms) : Nearest(syms[i])}
           around == IF A # {} THEN Min(A) ELSE 0
           nearest == IF L # {} THEN Min(L) ELSE 0
<1>1. Len(syms) \in Nat /\ DOMAIN syms = 1 .. Len(syms)
  OBVIOUS
<1>2. \A i \in 1 .. Len(syms) : syms[i] \in Symbol
  BY <1>1, ElementOfSeq
<1>3. ToSet(syms) = {syms[i] : i \in 1 .. Len(syms)}
  BY <1>1 DEF ToSet
<1>4. got = IF around # 0 THEN Resolution(syms[around], address, TRUE)
            ELSE IF nearest # 0 THEN Resolution(syms[nearest], address, FALSE)
            ELSE NoBytes
  BY DEF ResolveFunction, SelectInSeq
<1>5. /\ around = 0 => A = {}
      /\ around # 0 => around \in A
  BY <1>1, FirstPlace
<1>6. /\ nearest = 0 => L = {}
      /\ nearest # 0 => nearest \in L
  <2>1. L \in SUBSET (1 .. Len(syms))
    OBVIOUS
  <2> HIDE DEF L
  <2> QED BY <1>1, <2>1, FirstPlace
<1>7. address \in Nat /\ \A s \in ToSet(syms) : s \in Symbol /\ s.addr \in Nat
  BY <1>2, <1>3, WordAssumption DEF Symbol, Address
<1> HIDE DEF got, around, nearest
<1> SUFFICES IF got = NoBytes THEN \A s \in ToSet(syms) : Named(s) => s.addr > address
             ELSE /\ \E s \in ToSet(syms) :
                        /\ Named(s) /\ got.name = s.name /\ got.start = s.addr
                        /\ got.exact => Holds(s, address)
                  /\ got.start + got.offset = address
                  /\ ~ got.exact => \A s \in ToSet(syms) : Named(s) =>
                       /\ s.addr <= address => s.addr <= got.start
                       /\ Holds(s, address) => AtTheEnd(s)
  BY DEF FunctionIsNearest, got
<1>8. CASE around # 0
  <2> DEFINE s == syms[around]
  <2>1. s \in ToSet(syms) /\ s \in Symbol /\ Named(s) /\ Around(s, address)
    BY <1>2, <1>3, <1>5, <1>8
  <2>2. Holds(s, address) /\ s.addr <= address
    BY <2>1, AroundHolds
  <2>3. got = Resolution(s, address, TRUE)
    BY <1>4, <1>8
  <2> HIDE DEF s
  <2>4. Resolved(Resolution(s, address, TRUE), s, address, TRUE)
    BY <2>1, <2>2, ResolutionIsResult
  <2> QED BY <2>1, <2>2, <2>3, <2>4 DEF Resolved
<1>9. CASE around = 0 /\ nearest # 0
  <2> DEFINE s == syms[nearest]
  <2>1. s \in ToSet(syms) /\ s \in Symbol /\ Nearest(s)
    BY <1>2, <1>3, <1>6, <1>9
  <2>2. got = Resolution(s, address, FALSE)
    BY <1>4, <1>9
  <2> HIDE DEF s
  <2>a. s.addr <= address
    BY <2>1
  <2>b. Resolved(Resolution(s, address, FALSE), s, address, FALSE)
    BY <2>1, <2>a, ResolutionIsResult
  <2>3. Resolved(got, s, address, FALSE)
    BY <2>2, <2>b
  <2>4. \A t \in ToSet(syms) : ~ (Named(t) /\ Around(t, address))
    BY <1>3, <1>5, <1>9
  <2>5. ASSUME NEW t \in ToSet(syms), Named(t)
        PROVE  /\ t.addr <= address => t.addr <= got.start
               /\ Holds(t, address) => AtTheEnd(t)
    BY <1>7, <2>1, <2>3, <2>4, <2>5, AroundHolds DEF Resolved
  <2> QED BY <2>1, <2>3, <2>5 DEF Resolved
<1>10. CASE around = 0 /\ nearest = 0
  <2> SUFFICES ASSUME NEW s \in ToSet(syms), Starts(s) PROVE FALSE
    BY <1>4, <1>7, <1>10
  <2> DEFINE T == {t.addr : t \in {u \in ToSet(syms) : Starts(u)}}
  <2>1. T \in SUBSET Nat /\ T # {} /\ \A n \in T : n <= address
    BY <1>7
  <2>2. PICK n \in T : \A m \in T : m <= n
    <3> HIDE DEF T
    <3> QED BY <1>7, <2>1, GreatestNat
  <2>3. PICK t \in ToSet(syms) : Starts(t) /\ t.addr = n
    OBVIOUS
  <2>4. Nearest(t)
    BY <2>2, <2>3
  <2> QED BY <1>3, <1>6, <1>10, <2>3, <2>4
<1> QED BY <1>8, <1>9, <1>10

-----------------------------------------------------------------------------
(* What is shown at a revision.                                            *)

ThreeThenFour(u, v, w, k, l, m, n) ==
    /\ Len(<<u, v, w>>) = 3 /\ Len(<<u, v, w>> \o <<k, l, m, n>>) = 7
    /\ \A i \in 1 .. 3 : (<<u, v, w>> \o <<k, l, m, n>>)[i] = <<u, v, w>>[i]

LEMMA ThreeOfSeven ==
    ASSUME NEW u, NEW v, NEW w, NEW k, NEW l, NEW m, NEW n
    PROVE  ThreeThenFour(u, v, w, k, l, m, n)
<1> DEFINE S == {u, v, w, k, l, m, n}
           s == <<u, v, w>>
           d == <<k, l, m, n>>
<1>1. s \in Seq(S) /\ d \in Seq(S) /\ Len(s) = 3 /\ Len(d) = 4
  OBVIOUS
<1> HIDE DEF s, d, S
<1>2. Len(s \o d) = Len(s) + Len(d)
  BY <1>1, ConcatProperties
<1>4. \A i \in 1 .. Len(s) + Len(d) :
         (s \o d)[i] = IF i <= Len(s) THEN s[i] ELSE d[i - Len(s)]
  BY <1>1, ConcatProperties
<1>3. Len(s) = 3 /\ Len(s \o d) = 7 /\ \A i \in 1 .. 3 : (s \o d)[i] = s[i]
  BY <1>1, <1>2, <1>4
<1> QED BY <1>3 DEF ThreeThenFour, s, d

\* The first of these names that resolves is also the first of a longer list.
LEMMA NamedRevisionIsHead ==
    ASSUME NEW refs, NEW specRev, specRev # Unset, ResolveCommit(refs, specRev, Unset) # Unset
    PROVE  ResolveCommit(refs, Unset, specRev) = ResolveCommit(refs, specRev, Unset)
<1> DEFINE s == <<<<specRev>>, Origin(specRev), RefsOrigin(specRev)>>
           d == <<Origin("HEAD"), Origin("main"), Origin("master"), <<"HEAD">>>>
           t == s \o d
           I == {i \in 1 .. Len(s) : s[i] \in DOMAIN refs}
           J == {i \in 1 .. Len(t) : t[i] \in DOMAIN refs}
           i == IF I # {} THEN Min(I) ELSE 0
           j == IF J # {} THEN Min(J) ELSE 0
<1>1. Candidates(specRev, Unset) = s
  BY DEF Candidates
<1>2. Candidates(Unset, specRev) = t
  BY DEF Candidates
<1>3. ResolveCommit(refs, specRev, Unset) = IF i = 0 THEN Unset ELSE refs[s[i]]
  BY <1>1 DEF ResolveCommit, SelectInSeq
<1>4. ResolveCommit(refs, Unset, specRev) = IF j = 0 THEN Unset ELSE refs[t[j]]
  BY <1>2 DEF ResolveCommit, SelectInSeq
<1>5. Len(s) = 3 /\ Len(t) = 7 /\ \A k \in 1 .. 3 : s[k] = t[k]
  <2>1. ThreeThenFour(<<specRev>>, Origin(specRev), RefsOrigin(specRev),
                      Origin("HEAD"), Origin("main"), Origin("master"), <<"HEAD">>)
    BY ThreeOfSeven
  <2> QED BY <2>1 DEF ThreeThenFour
<1> HIDE DEF s, t
<1>6. i # 0 /\ i \in I /\ \A k \in I : i <= k
  <2>1. I \in SUBSET (1 .. 3)
    BY <1>5
  <2> HIDE DEF I
  <2> QED BY <1>3, <2>1, FirstPlace
<1>7. i \in J /\ j # 0 /\ j \in J /\ \A k \in J : j <= k
  <2>1. J \in SUBSET (1 .. 7) /\ i \in J
    BY <1>5, <1>6
  <2> HIDE DEF I, J, i
  <2> QED BY <2>1, FirstPlace
<1>8. j \in I
  BY <1>5, <1>6, <1>7
<1>9. i = j /\ i \in 1 .. 3
  BY <1>5, <1>6, <1>7, <1>8
<1> QED BY <1>3, <1>4, <1>5, <1>6, <1>7, <1>9

LEMMA SnapshotRead ==
    ASSUME NEW refs, NEW trees, NEW specRev, NEW filter
    PROVE  SnapshotIsHead(refs, trees, specRev, filter)
<1> DEFINE head == ResolveCommit(refs, Unset, specRev)
           named == ResolveCommit(refs, specRev, Unset)
           base == MaterializeTree(trees[head], filter)
<1>1. DOMAIN base = {p \in ListFiles(trees[head]) : Matches(filter, p)}
  BY DEF MaterializeTree
<1>2. \A p \in DOMAIN base : base[p] = trees[head][p].data /\ p \in DOMAIN trees[head]
  BY DEF MaterializeTree, ListFiles
<1>3. \A bytes : SliceFileContent(bytes, Whole).text = bytes
  BY DEF SliceFileContent, Whole, Content
<1>4. \A p \in DOMAIN base : ReadFile(trees[head], p, Whole).text = base[p]
  BY <1>2, <1>3 DEF ReadFile
<1>5. named # Unset /\ specRev # Unset => named = head
  BY NamedRevisionIsHead
<1> QED BY <1>1, <1>4, <1>5 DEF SnapshotIsHead

(* Blame.                                                                  *)

Line  == [line_no : Nat, commit : STRING, content : STRING]
Entry == [start : Nat, commit : STRING, lines : Seq(STRING)]

\* The lines of one blamed range.
LinesOf(entry) ==
    [i \in 1 .. Len(entry.lines) |->
        [line_no |-> entry.start + i, commit |-> entry.commit, content |-> entry.lines[i]]]

LEMMA LinesOfEntry ==
    ASSUME NEW entry \in Entry
    PROVE  LinesOf(entry) \in Seq(Line) /\ Len(LinesOf(entry)) = Len(entry.lines)
<1>1. Len(entry.lines) \in Nat /\ entry.lines \in [1 .. Len(entry.lines) -> STRING]
  BY DEF Entry
<1>2. \A i \in 1 .. Len(entry.lines) : LinesOf(entry)[i] \in Line
  BY <1>1 DEF LinesOf, Line, Entry
<1>3. DOMAIN LinesOf(entry) = 1 .. Len(entry.lines)
  BY DEF LinesOf
<1>4. LinesOf(entry) \in [1 .. Len(entry.lines) -> Line]
  BY <1>2 DEF LinesOf
<1> QED BY <1>1, <1>3, <1>4

\* The first n lines of the file, as blame shows them.
ShowsFile(git, file, n) ==
    /\ git \in Seq(Line) /\ Len(git) = n
    /\ \A i \in 1 .. n : git[i].line_no = i /\ git[i].content = file[i]

LEMMA BlameShowsFile ==
    ASSUME NEW file \in Seq(STRING), NEW entries \in Seq(Entry), BlameTiles(file, entries)
    PROVE  ShowsFile(GitBlame(entries), file, Len(file))
<1> DEFINE n == Len(entries)
           past(e) == entries[e].start + Len(entries[e].lines)
           ss == [e \in DOMAIN entries |-> LinesOf(entries[e])]
<1>1. /\ n \in Nat /\ DOMAIN entries = 1 .. n
      /\ entries # <<>> => n # 0
  OBVIOUS
<1>2. GitBlame(entries) = FlattenSeq(ss)
  BY DEF GitBlame, LinesOf
<1>3. Len(ss) = n
  BY <1>1
<1>6. \A e \in 1 .. n : ss[e] = LinesOf(entries[e])
  BY <1>1
<1>4. CASE entries = <<>>
  <2>1. ss = <<>> /\ file = <<>> /\ Len(ss) = 0
    BY <1>4 DEF BlameTiles
  <2> HIDE DEF ss
  <2>2. GitBlame(entries) = <<>>
    BY <1>2, <2>1 DEF FlattenSeq
  <2> QED BY <2>1, <2>2 DEF ShowsFile
<1>5. CASE entries # <<>>
  <2>1. PICK f : Flattens(f, ss, n) /\ FlattenSeq(ss) = f[n]
    <3> HIDE DEF ss
    <3> QED BY <1>1, <1>3, <1>5, FlattenUnfolds
  <2>8. f[1] = LinesOf(entries[1])
        /\ \A e \in 2 .. n : f[e] = f[e - 1] \o LinesOf(entries[e])
    <3>1. n \in Nat \ {0} /\ \A e \in 1 .. n : f[e] = IF e = 1 THEN ss[e] ELSE f[e - 1] \o ss[e]
      BY <1>1, <1>5, <2>1 DEF Flattens
    <3> HIDE DEF ss, n
    <3>2. f[1] = LinesOf(entries[1])
      BY <1>6, <3>1
    <3>3. ASSUME NEW e \in 2 .. n PROVE f[e] = f[e - 1] \o LinesOf(entries[e])
      <4>1. e \in 1 .. n /\ e # 1
        BY <3>1
      <4> QED BY <1>6, <3>1, <4>1
    <3> QED BY <3>2, <3>3
  <2> DEFINE T == {m \in Nat : m \in 1 .. n => ShowsFile(f[m], file, past(m))}
  <2>2. \A e \in 1 .. n :
          /\ entries[e] \in Entry /\ past(e) \in Nat /\ past(e) <= Len(file)
          /\ LinesOf(entries[e]) \in Seq(Line)
          /\ Len(LinesOf(entries[e])) = Len(entries[e].lines)
    <3> SUFFICES ASSUME NEW e \in 1 .. n
        PROVE  /\ entries[e] \in Entry /\ past(e) \in Nat /\ past(e) <= Len(file)
               /\ LinesOf(entries[e]) \in Seq(Line)
               /\ Len(LinesOf(entries[e])) = Len(entries[e].lines)
      OBVIOUS
    <3>1. entries[e] \in Entry
      BY <1>1
    <3> HIDE DEF T, ss
    <3>2. entries[e].start \in Nat /\ Len(entries[e].lines) \in Nat
      BY <3>1 DEF Entry
    <3>3. e \in DOMAIN entries
      BY <1>1
    <3>4. past(e) <= Len(file)
      BY <3>3 DEF BlameTiles
    <3>5. past(e) \in Nat /\ past(e) <= Len(file)
      BY <3>2, <3>4
    <3> QED BY <3>1, <3>5, LinesOfEntry
  <2>3. \A e \in 1 .. n : \A i \in 1 .. Len(entries[e].lines) :
          /\ LinesOf(entries[e])[i].line_no = entries[e].start + i
          /\ LinesOf(entries[e])[i].content = file[entries[e].start + i]
    <3> SUFFICES ASSUME NEW e \in 1 .. n, NEW i \in 1 .. Len(entries[e].lines)
        PROVE  /\ LinesOf(entries[e])[i].line_no = entries[e].start + i
               /\ LinesOf(entries[e])[i].content = file[entries[e].start + i]
      OBVIOUS
    <3>1. LinesOf(entries[e])[i] = [line_no |-> entries[e].start + i,
                                    commit |-> entries[e].commit,
                                    content |-> entries[e].lines[i]]
      BY DEF LinesOf
    <3>2. entries[e].lines \in Seq(STRING)
      BY <2>2 DEF Entry
    <3>3. e \in DOMAIN entries /\ i \in DOMAIN entries[e].lines
      BY <1>1, <3>2
    <3>4. entries[e].lines[i] = file[entries[e].start + i]
      BY <3>3 DEF BlameTiles
    <3> QED BY <3>1, <3>4
  <2>4. entries[1].start = 0 /\ past(n) = Len(file)
        /\ \A e \in 1 .. n - 1 : entries[e + 1].start = past(e)
    BY <1>5 DEF BlameTiles
  <2>5. ASSUME NEW m \in Nat, m \in T PROVE m + 1 \in T
    <3> SUFFICES ASSUME m + 1 \in 1 .. n PROVE ShowsFile(f[m + 1], file, past(m + 1))
      OBVIOUS
    <3>1. CASE m = 0
      <4>1. f[1] = LinesOf(entries[1])
        BY <2>8
      <4> QED BY <2>2, <2>3, <2>4, <3>1, <4>1 DEF ShowsFile
    <3>2. CASE m # 0
      <4> DEFINE s == f[m]
                 u == LinesOf(entries[m + 1])
      <4>1. f[m + 1] = s \o u
        <5>1. m + 1 \in 2 .. n /\ (m + 1) - 1 = m
          BY <3>2
        <5> QED BY <2>8, <5>1
      <4>2. ShowsFile(s, file, past(m))
        BY <2>5, <3>2
      <4>3. s \in Seq(Line) /\ Len(s) = past(m)
        BY <4>2 DEF ShowsFile
      <4>4. /\ u \in Seq(Line) /\ Len(u) = Len(entries[m + 1].lines)
            /\ Len(u) \in Nat /\ past(m) \in Nat
            /\ past(m + 1) = past(m) + Len(u)
        BY <2>2, <2>4, <3>2
      <4>5. \A i \in 1 .. past(m) : s[i].line_no = i /\ s[i].content = file[i]
        BY <4>2 DEF ShowsFile
      <4>6. \A i \in 1 .. Len(u) : u[i].line_no = past(m) + i /\ u[i].content = file[past(m) + i]
        BY <2>3, <2>4, <3>2, <4>4
      <4> HIDE DEF s, u, past
      <4>7. s \o u \in Seq(Line)
        BY <4>3, <4>4, ConcatProperties
      <4>11. Len(s \o u) = Len(s) + Len(u)
        BY <4>3, <4>4, ConcatProperties
      <4>8. Len(s \o u) = past(m + 1)
        BY <4>3, <4>4, <4>11
      <4>9. \A i \in 1 .. Len(s) + Len(u) :
               (s \o u)[i] = IF i <= Len(s) THEN s[i] ELSE u[i - Len(s)]
        BY <4>3, <4>4, ConcatProperties
      <4>10. ASSUME NEW i \in 1 .. past(m + 1)
             PROVE  (s \o u)[i].line_no = i /\ (s \o u)[i].content = file[i]
        <5>1. CASE i <= past(m)
          BY <4>3, <4>4, <4>5, <4>9, <5>1
        <5>2. CASE ~ (i <= past(m))
          <6>1. i - past(m) \in 1 .. Len(u) /\ past(m) + (i - past(m)) = i
            BY <4>4, <5>2
          <6>2. (s \o u)[i] = u[i - past(m)]
            BY <4>3, <4>4, <4>9, <5>2
          <6> QED BY <4>6, <6>1, <6>2
        <5> QED BY <5>1, <5>2
      <4> QED BY <4>1, <4>7, <4>8, <4>10 DEF ShowsFile
    <3> QED BY <3>1, <3>2
  <2>6. Nat \subseteq T
    <3>1. 0 \in T
      OBVIOUS
    <3> HIDE DEF T
    <3> QED BY <2>5, <3>1, SetInduction
  <2>7. ShowsFile(f[n], file, past(n))
    BY <1>1, <1>5, <2>6
  <2> QED BY <1>2, <2>1, <2>4, <2>7
<1> QED BY <1>4, <1>5

LEMMA BlameRead ==
    ASSUME NEW file \in Seq(STRING), NEW later \in Seq(STRING), NEW pinned \in BOOLEAN,
           NEW entries \in Seq(Entry), BlameTiles(file, entries)
    PROVE  BlameIsTheFile(file, later, entries, pinned)
<1> DEFINE git == GitBlame(entries)
           blamed == [i \in DOMAIN git |-> [line_no |-> git[i].line_no, commit |-> git[i].commit]]
           svn == SvnBlame(blamed, IF pinned THEN file ELSE later)
<1>1. ShowsFile(git, file, Len(file))
  BY BlameShowsFile
<1>2. Len(git) = Len(file) /\ Len(file) \in Nat
      /\ DOMAIN git = 1 .. Len(file) /\ DOMAIN file = 1 .. Len(file)
  BY <1>1 DEF ShowsFile
<1>3. \A i \in 1 .. Len(file) : git[i].line_no = i /\ git[i].content = file[i]
  BY <1>1 DEF ShowsFile
<1>4. DOMAIN later = 1 .. Len(later) /\ Len(later) \in Nat
  OBVIOUS
<1> HIDE DEF git
<1>5. DOMAIN svn = 1 .. Len(file)
  BY <1>2 DEF SvnBlame
<1>6. svn = [i \in 1 .. Len(file) |-> svn[i]]
  BY <1>2 DEF SvnBlame
<1>7. ASSUME NEW i \in 1 .. Len(file)
      PROVE  /\ svn[i].line_no = i /\ svn[i].commit = git[i].commit
             /\ pinned => svn[i].content = file[i]
             /\ ~ pinned /\ i > Len(later) => svn[i].content = ""
  <2>1. blamed[i].line_no = i /\ blamed[i].commit = git[i].commit
    BY <1>2, <1>3
  <2> DEFINE content == IF pinned THEN file ELSE later
         shown == IF blamed[i].line_no \in DOMAIN content
                    THEN content[blamed[i].line_no] ELSE ""
  <2>2. svn[i] = [line_no |-> blamed[i].line_no, commit |-> blamed[i].commit, content |-> shown]
    BY <1>2 DEF SvnBlame
  <2>6. shown = IF i \in DOMAIN content THEN content[i] ELSE ""
    <3> HIDE DEF blamed, content
    <3> QED BY <2>1
  <2> HIDE DEF svn, blamed, shown, content
  <2>7. svn[i].line_no = i
    BY <2>1, <2>2
  <2>8. svn[i].commit = git[i].commit
    BY <2>1, <2>2
  <2>9. svn[i].content = shown
    BY <2>2
  <2>3. /\ i \in DOMAIN content => svn[i].content = content[i]
        /\ i \notin DOMAIN content => svn[i].content = ""
    BY <2>6, <2>9
  <2>4. CASE pinned
    <3>1. content = file
      BY <2>4 DEF content
    <3> QED BY <1>2, <2>3, <2>4, <2>7, <2>8, <3>1
  <2>5. CASE ~ pinned
    <3>1. content = later
      BY <2>5 DEF content
    <3>2. i > Len(later) => i \notin DOMAIN later
      BY <1>2, <1>4
    <3> QED BY <2>3, <2>5, <2>7, <2>8, <3>1, <3>2
  <2> QED BY <2>4, <2>5
<1>8. Len(svn) = Len(file)
  <2> HIDE DEF svn
  <2> QED BY <1>2, <1>5, <1>6
<1> HIDE DEF svn
<1>9. /\ Len(git) = Len(file) /\ Len(svn) = Len(file)
      /\ \A i \in DOMAIN file :
           /\ git[i].line_no = i /\ git[i].content = file[i]
           /\ svn[i].line_no = i /\ svn[i].commit = git[i].commit
           /\ pinned => svn[i].content = file[i]
           /\ ~ pinned /\ i > Len(later) => svn[i].content = ""
  BY <1>2, <1>3, <1>7, <1>8
<1> QED BY <1>9 DEF BlameIsTheFile, git, svn

-----------------------------------------------------------------------------
(* The changes of a session.                                               *)

\* A fold over one hunk, unfolded.
LEMMA OneHunk ==
    ASSUME NEW b, NEW h
    PROVE  FoldLeft(ApplyHunk, b, <<h>>) = ApplyHunk(b, h)
<1> DEFINE Body(f) == [s \in SUBSET DOMAIN <<h>> |->
                         IF s = {} THEN b
                         ELSE ApplyHunk(f[s \ {Max(s)}], <<h>>[Max(s)])]
           iter == CHOOSE f : f = Body(f)
           g == [s \in SUBSET {1} |-> IF s = {} THEN b ELSE ApplyHunk(b, h)]
<1>1. FoldLeft(ApplyHunk, b, <<h>>) = iter[DOMAIN <<h>>]
  BY DEF FoldLeft, MapThenFoldSet
<1>2. DOMAIN <<h>> = {1} /\ <<h>>[1] = h
  OBVIOUS
<1>3. Max({1}) = 1
  BY DEF Max
<1>4. \A s \in SUBSET {1} : s = {} \/ s = {1}
  OBVIOUS
<1>5. g = Body(g)
  <2>1. ASSUME NEW s \in SUBSET {1}
        PROVE  g[s] = IF s = {} THEN b ELSE ApplyHunk(g[s \ {Max(s)}], <<h>>[Max(s)])
    <3>1. CASE s = {}
      BY <3>1
    <3>2. CASE s = {1}
      <4>1. Max(s) = 1 /\ s \ {1} = {} /\ g[{}] = b /\ g[s] = ApplyHunk(b, h)
        BY <1>3, <3>2
      <4> HIDE DEF g
      <4> QED BY <1>2, <3>2, <4>1
    <3> QED BY <1>4, <3>1, <3>2
  <2>2. g = [s \in SUBSET {1} |-> g[s]]
    OBVIOUS
  <2> HIDE DEF g
  <2> QED BY <1>2, <2>1, <2>2
<1>6. iter = Body(iter)
  <2> HIDE DEF Body
  <2> QED BY <1>5
<1> HIDE DEF iter
<1>7. iter[{}] = b
  BY <1>2, <1>6
<1>8. iter[{1}] = ApplyHunk(iter[{1} \ {Max({1})}], <<h>>[Max({1})])
  BY <1>2, <1>6
<1>9. {1} \ {1} = {}
  OBVIOUS
<1> QED BY <1>1, <1>2, <1>3, <1>7, <1>8, <1>9 DEF iter

LEMMA EndsStay ==
    ASSUME NEW lines \in Text, LfOnly(lines)
    PROVE  NormalizeEnds(lines) = lines
<1> DEFINE L == [chars : STRING, end : {"lf", "crlf"}]
           n == Len(lines)
           after == NormalizeEnds(lines)
<1>1. n \in Nat /\ DOMAIN lines = 1 .. n /\ lines \in [1 .. n -> L]
  BY LenProperties DEF Text
<1>2. ASSUME NEW i \in 1 .. n PROVE after[i] = lines[i]
  <2> DEFINE l == lines[i]
  <2>1. l \in L /\ l.end = "lf"
    BY <1>1 DEF LfOnly
  <2>2. after[i] = [l EXCEPT !.end = IF @ = "crlf" THEN "lf" ELSE @]
    BY <1>1 DEF NormalizeEnds
  <2> HIDE DEF l, after
  <2>3. [l EXCEPT !.end = IF @ = "crlf" THEN "lf" ELSE @] = l
    BY <2>1
  <2> QED BY <2>2, <2>3 DEF l
<1>3. after = [i \in 1 .. n |-> after[i]]
  BY <1>1 DEF NormalizeEnds
<1>4. lines = [i \in 1 .. n |-> lines[i]]
  BY <1>1
<1> HIDE DEF after, n
<1> QED BY <1>2, <1>3, <1>4 DEF after

\* What applying the diff of two texts to the first one does.
Patches(diff, old, new) ==
    IF old = new THEN ApplyUnifiedDiff(old, diff) = Invalid
    ELSE LfOnly(old) /\ LfOnly(new) => ApplyUnifiedDiff(old, diff).text = new

LEMMA DiffPatches ==
    ASSUME NEW path, NEW change, NEW old \in Text, NEW new \in Text
    PROVE  Patches(FileDiff(path, change, old, new), old, new)
<1> DEFINE diff == FileDiff(path, change, old, new)
           hunk == [old |-> old, new |-> new]
<1>1. CASE old = new
  <2>1. diff.hunks = <<>>
    BY <1>1 DEF FileDiff
  <2> HIDE DEF diff
  <2>2. Patches(diff, old, new)
    BY <1>1, <2>1 DEF Patches, ApplyUnifiedDiff
  <2> QED BY <2>2 DEF diff
<1>2. CASE old # new
  <2>1. diff.hunks = <<hunk>> /\ <<hunk>> # <<>>
    BY <1>2 DEF FileDiff
  <2>2. ApplyUnifiedDiff(old, diff) = FoldLeft(ApplyHunk, Changed(old, 0), <<hunk>>)
    BY <2>1 DEF ApplyUnifiedDiff
  <2>3. ApplyUnifiedDiff(old, diff) = ApplyHunk(Changed(old, 0), hunk)
    BY <2>2, OneHunk
  <2>4. ASSUME LfOnly(old), LfOnly(new) PROVE ApplyUnifiedDiff(old, diff).text = new
    <3>1. NormalizeEnds(old) = old /\ NormalizeEnds(new) = new
      BY <2>4, EndsStay
    <3>2. ApplyHunk(Changed(old, 0), hunk) = Changed(new, 1)
      BY <3>1 DEF ApplyHunk, Accepted, Changed
    <3> QED BY <2>3, <3>2 DEF Changed
  <2> HIDE DEF diff
  <2>5. Patches(diff, old, new)
    BY <1>2, <2>4 DEF Patches
  <2> QED BY <2>5 DEF diff
<1> QED BY <1>1, <1>2

\* What compute_status says of one path, and what diff makes of it.
StatusOf(s, p) ==
    IF InTree(s.upper, p) /\ InTree(s.base, p)
      THEN IF s.upper[p] # s.base[p] THEN {[path |-> p, change |-> "modified"]} ELSE {}
    ELSE IF InTree(s.upper, p) THEN {[path |-> p, change |-> "added"]}
    ELSE IF p \in s.deleted /\ InTree(s.base, p) THEN {[path |-> p, change |-> "deleted"]}
    ELSE {}

Shown(s, e) ==
    FileDiff(e.path, e.change,
             IF e.change = "added" THEN <<>> ELSE s.base[e.path],
             IF e.change = "deleted" THEN <<>> ELSE s.upper[e.path])

LEMMA StatusOfPath ==
    ASSUME NEW s, AtRest(s), NEW p \in DOMAIN s.base \ VcsPaths
    PROVE  {e \in ComputeStatus(s) : e.path = p} = StatusOf(s, p)
<1> DEFINE Entry1(q, change) == [path |-> q, change |-> change]
<1>1. \A q, c : Entry1(q, c).path = q /\ Entry1(q, c).change = c
  OBVIOUS
<1>2. \A e : e \in ComputeStatus(s) <=>
         \E q \in DOMAIN s.base :
            \/ /\ InTree(s.upper, q) /\ InTree(s.base, q) /\ s.upper[q] # s.base[q]
               /\ e = Entry1(q, "modified")
            \/ InTree(s.upper, q) /\ ~ InTree(s.base, q) /\ e = Entry1(q, "added")
            \/ q \in s.deleted /\ InTree(s.base, q) /\ e = Entry1(q, "deleted")
  BY DEF ComputeStatus, AtRest
<1>3. p \in s.deleted => ~ InTree(s.upper, p)
  BY DEF AtRest, InTree
<1> HIDE DEF Entry1
<1>4. \A e : e \in ComputeStatus(s) /\ e.path = p <=>
            \/ /\ InTree(s.upper, p) /\ InTree(s.base, p) /\ s.upper[p] # s.base[p]
               /\ e = Entry1(p, "modified")
            \/ InTree(s.upper, p) /\ ~ InTree(s.base, p) /\ e = Entry1(p, "added")
            \/ p \in s.deleted /\ InTree(s.base, p) /\ e = Entry1(p, "deleted")
  BY <1>1, <1>2
<1>5. \A e : e \in StatusOf(s, p) <=>
            \/ /\ InTree(s.upper, p) /\ InTree(s.base, p) /\ s.upper[p] # s.base[p]
               /\ e = Entry1(p, "modified")
            \/ InTree(s.upper, p) /\ ~ InTree(s.base, p) /\ e = Entry1(p, "added")
            \/ p \in s.deleted /\ InTree(s.base, p) /\ e = Entry1(p, "deleted")
  BY <1>3 DEF StatusOf, Entry1
<1> QED BY <1>4, <1>5

LEMMA DiffOfPath ==
    ASSUME NEW s, AtRest(s), NEW p \in DOMAIN s.base \ VcsPaths
    PROVE  {d \in WholeDiff(s) : d.path = p} = {Shown(s, e) : e \in StatusOf(s, p)}
<1>1. WholeDiff(s) = {Shown(s, e) : e \in ComputeStatus(s)}
  BY DEF WholeDiff, Shown
<1>2. \A e : Shown(s, e).path = e.path
  BY DEF Shown, FileDiff
<1> QED BY <1>1, <1>2, StatusOfPath

LEMMA ChangesTold ==
    ASSUME NEW s, AtRest(s)
    PROVE  DiffsTellChanges(s)
<1> SUFFICES ASSUME NEW p \in DOMAIN s.base \ VcsPaths
             PROVE  LET single == SingleDiff(s, p)
                        old == ReadOrEmpty(s.base, p)
                        new == IF Visible(s, p) = Absent THEN <<>> ELSE Visible(s, p)
                    IN  /\ single = {d \in WholeDiff(s) : d.path = p}
                        /\ single = {} <=> Visible(s, p) = (IF InTree(s.base, p)
                                                              THEN s.base[p] ELSE Absent)
                        /\ \A d \in single : Patches(d, old, new)
  BY DEF DiffsTellChanges, Patches
<1> DEFINE single == SingleDiff(s, p)
           whole == {d \in WholeDiff(s) : d.path = p}
           old == ReadOrEmpty(s.base, p)
           new == IF Visible(s, p) = Absent THEN <<>> ELSE Visible(s, p)
           before == IF InTree(s.base, p) THEN s.base[p] ELSE Absent
           up == s.upper[p]
<1>1. whole = {Shown(s, e) : e \in StatusOf(s, p)}
  BY DiffOfPath
<1>2. /\ InTree(s.upper, p) <=> up # Absent
      /\ InTree(s.base, p) <=> s.base[p] # Absent
  BY DEF InTree
<1>3. /\ up # Absent => up \in Text
      /\ s.base[p] # Absent => s.base[p] \in Text
      /\ p \in s.deleted => up = Absent
  BY DEF AtRest
<1>4. <<>> \in Text
  BY DEF Text
<1>5. \A q, c : /\ [path |-> q, change |-> c].path = q
                /\ [path |-> q, change |-> c].change = c
  OBVIOUS
<1> SUFFICES single = whole /\ (single = {} <=> Visible(s, p) = before)
             /\ \A d \in single : Patches(d, old, new)
  OBVIOUS
<1>6. CASE up # Absent /\ s.base[p] # Absent /\ up # s.base[p]
  <2> DEFINE d == FileDiff(p, "modified", s.base[p], up)
  <2>1. StatusOf(s, p) = {[path |-> p, change |-> "modified"]}
    BY <1>2, <1>6 DEF StatusOf
  <2>2. Shown(s, [path |-> p, change |-> "modified"]) = d
    BY <1>5 DEF Shown
  <2>3. single = {d}
    BY <1>2, <1>6 DEF SingleDiff, ReadOrEmpty
  <2>4. old = s.base[p] /\ Visible(s, p) = up /\ new = up /\ before = s.base[p]
    BY <1>2, <1>3, <1>6 DEF ReadOrEmpty, Visible
  <2>5. Patches(d, s.base[p], up)
    BY <1>3, <1>6, DiffPatches
  <2> HIDE DEF d, single, whole, old, new, before
  <2> QED BY <1>1, <1>6, <2>1, <2>2, <2>3, <2>4, <2>5
<1>7. CASE up # Absent /\ s.base[p] # Absent /\ up = s.base[p]
  <2>1. StatusOf(s, p) = {}
    BY <1>2, <1>7 DEF StatusOf
  <2>2. single = {}
    BY <1>2, <1>7 DEF SingleDiff, ReadOrEmpty
  <2>3. Visible(s, p) = before
    BY <1>2, <1>3, <1>7 DEF Visible
  <2> HIDE DEF single, whole, before
  <2> QED BY <1>1, <2>1, <2>2, <2>3
<1>8. CASE up # Absent /\ s.base[p] = Absent
  <2> DEFINE d == FileDiff(p, "added", <<>>, up)
  <2>1. StatusOf(s, p) = {[path |-> p, change |-> "added"]}
    BY <1>2, <1>8 DEF StatusOf
  <2>2. Shown(s, [path |-> p, change |-> "added"]) = d
    BY <1>5 DEF Shown
  <2>3. single = {d}
    BY <1>2, <1>8 DEF SingleDiff, ReadOrEmpty
  <2>4. old = <<>> /\ Visible(s, p) = up /\ new = up /\ before = Absent
    BY <1>2, <1>3, <1>8 DEF ReadOrEmpty, Visible
  <2>5. Patches(d, <<>>, up)
    BY <1>3, <1>4, <1>8, DiffPatches
  <2> HIDE DEF d, single, whole, old, new, before
  <2> QED BY <1>1, <1>8, <2>1, <2>2, <2>3, <2>4, <2>5
<1>9. CASE up = Absent /\ p \in s.deleted /\ s.base[p] # Absent
  <2> DEFINE d == FileDiff(p, "deleted", s.base[p], <<>>)
  <2>1. StatusOf(s, p) = {[path |-> p, change |-> "deleted"]}
    BY <1>2, <1>9 DEF StatusOf
  <2>2. Shown(s, [path |-> p, change |-> "deleted"]) = d
    BY <1>5 DEF Shown
  <2>3. single = {d}
    BY <1>2, <1>9 DEF SingleDiff, ReadOrEmpty
  <2>4. old = s.base[p] /\ Visible(s, p) = Absent /\ new = <<>> /\ before = s.base[p]
    BY <1>2, <1>9 DEF ReadOrEmpty, Visible
  <2>5. Patches(d, s.base[p], <<>>)
    BY <1>3, <1>4, <1>9, DiffPatches
  <2> HIDE DEF d, single, whole, old, new, before
  <2> QED BY <1>1, <1>9, <2>1, <2>2, <2>3, <2>4, <2>5
<1>10. CASE up = Absent /\ ~ (p \in s.deleted /\ s.base[p] # Absent)
  <2>1. StatusOf(s, p) = {}
    BY <1>2, <1>10 DEF StatusOf
  <2>2. single = {}
    BY <1>2, <1>10 DEF SingleDiff, ReadOrEmpty
  <2>3. Visible(s, p) = before
    BY <1>2, <1>10 DEF Visible
  <2> HIDE DEF single, whole, before
  <2> QED BY <1>1, <2>1, <2>2, <2>3
<1> QED BY <1>6, <1>7, <1>8, <1>9, <1>10

-----------------------------------------------------------------------------
(* A history in pages.                                                     *)

\* What FileHistory computes on the way to its result.
Walks(f, walk, path, n) ==
    /\ f = [i \in 0 .. n |-> f[i]]
    /\ \A i \in 0 .. n :
         f[i] = IF i = 0 THEN <<>>
                ELSE IF path = Unset \/ CommitTouchesPath(walk, i, path)
                  THEN Append(f[i - 1], i)
                  ELSE f[i - 1]

LEMMA HistoryUnfolds ==
    ASSUME NEW walk, NEW path, NEW n \in Nat, Len(walk) = n
    PROVE  \E f : Walks(f, walk, path, n) /\ FileHistory(walk, path) = f[n]
<1> DEFINE T == {m \in Nat : \E f : Walks(f, walk, path, m)}
           Kept(i) == path = Unset \/ CommitTouchesPath(walk, i, path)
           Body(f) == [i \in 0 .. n |->
                         IF i = 0 THEN <<>>
                         ELSE IF Kept(i) THEN Append(f[i - 1], i) ELSE f[i - 1]]
<1>1. 0 \in T
  <2> DEFINE g == [i \in 0 .. 0 |-> <<>>]
  <2>1. g = [i \in 0 .. 0 |-> g[i]] /\ \A i \in 0 .. 0 : i = 0 /\ g[i] = <<>>
    OBVIOUS
  <2> HIDE DEF g
  <2>2. Walks(g, walk, path, 0)
    BY <2>1 DEF Walks
  <2> QED BY <2>2
<1>2. ASSUME NEW m \in Nat, m \in T PROVE m + 1 \in T
  <2>1. PICK f : Walks(f, walk, path, m)
    BY <1>2
  <2> DEFINE g == [i \in 0 .. m + 1 |->
                     IF i = m + 1 THEN IF Kept(i) THEN Append(f[m], i) ELSE f[m]
                     ELSE f[i]]
  <2>2. ASSUME NEW i \in 0 .. m + 1
        PROVE  g[i] = IF i = 0 THEN <<>>
                      ELSE IF Kept(i) THEN Append(g[i - 1], i) ELSE g[i - 1]
    <3> HIDE DEF Kept
    <3>1. CASE i = m + 1
      <4>1. i # 0 /\ i - 1 = m /\ m \in 0 .. m + 1 /\ m # m + 1
        BY <3>1
      <4>2. g[i] = (IF Kept(i) THEN Append(f[m], i) ELSE f[m]) /\ g[i - 1] = f[m]
        BY <3>1, <4>1
      <4> HIDE DEF g
      <4> QED BY <4>1, <4>2
    <3>2. CASE i # m + 1
      <4>1. i \in 0 .. m /\ (i # 0 => i - 1 \in 0 .. m /\ i - 1 # m + 1)
        BY <3>2
      <4>2. g[i] = f[i] /\ (i # 0 => g[i - 1] = f[i - 1])
        BY <4>1
      <4>3. f[i] = IF i = 0 THEN <<>> ELSE IF Kept(i) THEN Append(f[i - 1], i) ELSE f[i - 1]
        BY <2>1, <4>1 DEF Walks, Kept
      <4> HIDE DEF g
      <4> QED BY <4>2, <4>3
    <3> QED BY <3>1, <3>2
  <2>3. g = [i \in 0 .. m + 1 |-> g[i]]
    OBVIOUS
  <2> HIDE DEF g
  <2>4. Walks(g, walk, path, m + 1)
    BY <2>2, <2>3 DEF Walks
  <2> QED BY <2>4
<1>3. Nat \subseteq T
  <2> HIDE DEF T
  <2> QED BY <1>1, <1>2, SetInduction
<1>4. PICK g : Walks(g, walk, path, n)
  BY <1>3
<1>5. g = Body(g)
  BY <1>4 DEF Walks
<1>6. FileHistory(walk, path) = (CHOOSE f : f = Body(f))[n]
  BY DEF FileHistory
<1> DEFINE upto == CHOOSE f : f = Body(f)
<1>7. upto = Body(upto)
  <2> HIDE DEF Body
  <2> QED BY <1>5
<1> HIDE DEF upto
<1>8. Walks(upto, walk, path, n)
  BY <1>7 DEF Walks
<1> QED BY <1>6, <1>8 DEF upto

\* A history has positions of the walk, no more of them than the walk.
LEMMA HistoryFits ==
    ASSUME NEW walk, NEW path, Len(walk) \in Nat
    PROVE  /\ FileHistory(walk, path) \in Seq(Nat)
           /\ Len(FileHistory(walk, path)) <= Len(walk)
<1> DEFINE n == Len(walk)
<1>1. PICK f : Walks(f, walk, path, n) /\ FileHistory(walk, path) = f[n]
  BY HistoryUnfolds
<1> DEFINE T == {m \in Nat : m <= n => f[m] \in Seq(Nat) /\ Len(f[m]) <= m}
<1>2. 0 \in T
  <2>1. f[0] = <<>>
    BY <1>1 DEF Walks
  <2>2. f[0] \in Seq(Nat) /\ Len(f[0]) = 0
    BY <2>1
  <2> QED BY <2>2
<1>3. ASSUME NEW m \in Nat, m \in T PROVE m + 1 \in T
  <2> SUFFICES ASSUME m + 1 <= n PROVE f[m + 1] \in Seq(Nat) /\ Len(f[m + 1]) <= m + 1
    OBVIOUS
  <2>1. f[m] \in Seq(Nat) /\ Len(f[m]) <= m /\ Len(f[m]) \in Nat
    BY <1>3
  <2>2. f[m + 1] = Append(f[m], m + 1) \/ f[m + 1] = f[m]
    <3>1. m + 1 \in 0 .. n /\ m + 1 # 0 /\ (m + 1) - 1 = m
      OBVIOUS
    <3> QED BY <1>1, <3>1 DEF Walks
  <2> DEFINE s == f[m]
  <2>3. Append(s, m + 1) \in Seq(Nat) /\ Len(Append(s, m + 1)) = Len(s) + 1
    <3> HIDE DEF s
    <3> QED BY <2>1 DEF s
  <2>4. CASE f[m + 1] = s
    BY <2>1, <2>4
  <2>5. CASE f[m + 1] = Append(s, m + 1)
    <3>1. f[m + 1] \in Seq(Nat)
      BY <2>3, <2>5
    <3>2. Len(f[m + 1]) = Len(s) + 1
      BY <2>3, <2>5
    <3> QED BY <2>1, <3>1, <3>2
  <2> QED BY <2>2, <2>4, <2>5
<1>4. Nat \subseteq T
  <2> HIDE DEF T
  <2> QED BY <1>2, <1>3, SetInduction
<1> QED BY <1>1, <1>4

\* Where a cut that starts after a and asks for n more stops.
StopAt(log, a, n) == IF a + n <= Len(log) THEN a + n ELSE Len(log)

LEMMA CutProperties ==
    ASSUME NEW log \in Seq(Nat), NEW a \in Nat, NEW b \in Nat, b <= Len(log)
    PROVE  /\ SubSeq(log, a + 1, b) \in Seq(Nat)
           /\ Len(SubSeq(log, a + 1, b)) = IF a < b THEN b - a ELSE 0
           /\ \A i \in 1 .. b - a : SubSeq(log, a + 1, b)[i] = log[a + i]
<1>1. \A i \in a + 1 .. b : log[i] \in Nat
  BY ElementOfSeq
<1>2. a + 1 \in Int /\ b \in Int /\ b - (a + 1) + 1 = b - a
  OBVIOUS
<1>3. SubSeq(log, a + 1, b) \in Seq(Nat)
  BY <1>1, <1>2, SubSeqProperties
<1>4. Len(SubSeq(log, a + 1, b)) = IF a + 1 <= b THEN b - (a + 1) + 1 ELSE 0
  BY <1>1, <1>2, SubSeqProperties
<1>5. \A i \in 1 .. b - (a + 1) + 1 : SubSeq(log, a + 1, b)[i] = log[a + 1 + i - 1]
  BY <1>1, <1>2, SubSeqProperties
<1>6. \A i \in 1 .. b - a : a + 1 + i - 1 = a + i
  OBVIOUS
<1> QED BY <1>2, <1>3, <1>4, <1>5, <1>6

\* Skipping a and taking n is one cut.
LEMMA SkipTake ==
    ASSUME NEW log \in Seq(Nat), NEW a \in Nat, NEW n \in Nat
    PROVE  Take(Skip(log, a), n) = SubSeq(log, a + 1, StopAt(log, a, n))
<1> DEFINE rest == Skip(log, a)
           b == StopAt(log, a, n)
           cut == SubSeq(log, a + 1, b)
           r == Len(rest)
<1>1. Len(log) \in Nat
  OBVIOUS
<1>2. b \in Nat /\ b <= Len(log) /\ b = IF a + n <= Len(log) THEN a + n ELSE Len(log)
  BY <1>1 DEF StopAt
<1>3. rest = SubSeq(log, a + 1, Len(log))
  BY DEF Skip
<1>4. rest \in Seq(Nat)
  BY <1>1, <1>3, CutProperties
<1>5. r = IF a < Len(log) THEN Len(log) - a ELSE 0
  BY <1>1, <1>3, CutProperties
<1>6. \A i \in 1 .. Len(log) - a : rest[i] = log[a + i]
  BY <1>1, <1>3, CutProperties
<1>7. cut \in Seq(Nat)
  BY <1>2, CutProperties
<1>8. Len(cut) = IF a < b THEN b - a ELSE 0
  BY <1>2, CutProperties
<1>9. \A i \in 1 .. b - a : cut[i] = log[a + i]
  BY <1>2, CutProperties
<1> HIDE DEF b, cut
<1>10. CASE n < r
  <2> DEFINE t == SubSeq(rest, 0 + 1, n)
  <2>1. n <= Len(rest) /\ 0 \in Nat
    BY <1>10
  <2> HIDE DEF rest
  <2>2. t \in Seq(Nat)
    BY <1>4, <2>1, CutProperties
  <2>3. Len(t) = IF 0 < n THEN n - 0 ELSE 0
    BY <1>4, <2>1, CutProperties
  <2>4. \A i \in 1 .. n - 0 : t[i] = rest[0 + i]
    BY <1>4, <2>1, CutProperties
  <2>5. Take(rest, n) = t
    BY <1>10 DEF Take
  <2> HIDE DEF t
  <2>6. a < Len(log) /\ b = a + n
    BY <1>1, <1>2, <1>5, <1>10
  <2>7. Len(t) = Len(cut) /\ Len(t) = n
    BY <1>8, <2>3, <2>6
  <2>8. \A i \in 1 .. Len(t) : t[i] = cut[i]
    <3>1. ASSUME NEW i \in 1 .. n PROVE t[i] = cut[i]
      <4>1. i \in 1 .. Len(log) - a /\ i \in 1 .. b - a /\ i \in 1 .. n - 0 /\ 0 + i = i
        BY <1>1, <1>5, <1>10, <2>6
      <4> QED BY <1>6, <1>9, <2>4, <4>1
    <3> QED BY <2>7, <3>1
  <2>9. t = cut
    BY <1>7, <2>2, <2>7, <2>8, SeqEqual
  <2> QED BY <2>5, <2>9 DEF cut, b, rest
<1>11. CASE ~ (n < r)
  <2>1. Take(rest, n) = rest
    BY <1>11 DEF Take
  <2>2. b = Len(log)
    BY <1>1, <1>2, <1>5, <1>11
  <2> QED BY <1>3, <2>1, <2>2 DEF cut, b
<1> QED BY <1>10, <1>11

\* svn asks for what a page skips as well, and gets the same cut.
LEMMA SkipOfTake ==
    ASSUME NEW log \in Seq(Nat), NEW a \in Nat, NEW n \in Nat
    PROVE  Take(Skip(Take(log, a + n), a), n) = SubSeq(log, a + 1, StopAt(log, a, n))
<1> DEFINE t == Take(log, a + n)
           b == StopAt(log, a, n)
<1>1. Len(log) \in Nat
  OBVIOUS
<1>2. b \in Nat /\ b <= Len(log) /\ b = IF a + n <= Len(log) THEN a + n ELSE Len(log)
  BY <1>1 DEF StopAt
<1>3. t = SubSeq(log, 0 + 1, b)
  <2>1. CASE a + n < Len(log)
    BY <1>2, <2>1 DEF Take
  <2>2. CASE ~ (a + n < Len(log))
    <3>1. t = log /\ b = Len(log)
      BY <1>1, <1>2, <2>2 DEF Take
    <3>2. SubSeq(log, 1, Len(log)) = log
      BY SubSeqFull
    <3> QED BY <3>1, <3>2
  <2> QED BY <2>1, <2>2
<1> HIDE DEF t, b
<1>4. t \in Seq(Nat)
  BY <1>2, <1>3, CutProperties
<1>5. Len(t) = IF 0 < b THEN b - 0 ELSE 0
  BY <1>2, <1>3, CutProperties
<1>6. \A i \in 1 .. b - 0 : t[i] = log[0 + i]
  BY <1>2, <1>3, CutProperties
<1>7. Take(Skip(t, a), n) = SubSeq(t, a + 1, StopAt(t, a, n))
  BY <1>4, SkipTake
<1>8. Len(t) = b /\ StopAt(t, a, n) = b
  BY <1>1, <1>2, <1>5 DEF StopAt
<1> DEFINE u == SubSeq(t, a + 1, b)
           v == SubSeq(log, a + 1, b)
<1>9. u \in Seq(Nat)
  BY <1>2, <1>4, <1>8, CutProperties
<1>10. Len(u) = IF a < b THEN b - a ELSE 0
  BY <1>2, <1>4, <1>8, CutProperties
<1>11. \A i \in 1 .. b - a : u[i] = t[a + i]
  BY <1>2, <1>4, <1>8, CutProperties
<1>12. v \in Seq(Nat)
  BY <1>2, CutProperties
<1>13. Len(v) = IF a < b THEN b - a ELSE 0
  BY <1>2, CutProperties
<1>14. \A i \in 1 .. b - a : v[i] = log[a + i]
  BY <1>2, CutProperties
<1> HIDE DEF u, v
<1>15. ASSUME NEW i \in 1 .. Len(u) PROVE u[i] = v[i]
  <2>1. i \in 1 .. b - a /\ a + i \in 1 .. b - 0 /\ 0 + (a + i) = a + i
    BY <1>2, <1>10
  <2> QED BY <1>6, <1>11, <1>14, <2>1
<1>16. u = v
  BY <1>9, <1>10, <1>12, <1>13, <1>15, SeqEqual
<1> QED BY <1>7, <1>8, <1>16 DEF t, b, u, v

\* The first a of a history, and then the next n.
LEMMA PagesJoin ==
    ASSUME NEW log \in Seq(Nat), NEW a \in Nat, NEW n \in Nat
    PROVE  SubSeq(log, 1, StopAt(log, 0, a)) \o SubSeq(log, a + 1, StopAt(log, a, n))
             = SubSeq(log, 1, StopAt(log, a, n))
<1> DEFINE b == StopAt(log, a, n)
<1>1. Len(log) \in Nat /\ b \in Nat /\ b <= Len(log)
      /\ b = IF a + n <= Len(log) THEN a + n ELSE Len(log)
  BY DEF StopAt
<1>2. CASE a <= Len(log)
  <2>1. StopAt(log, 0, a) = a
    BY <1>1, <1>2 DEF StopAt
  <2>2. 1 \in 1 .. Len(log) + 1 /\ a \in 1 - 1 .. Len(log) /\ b \in a .. Len(log)
    BY <1>1, <1>2
  <2> HIDE DEF b
  <2>3. SubSeq(log, 1, a) \o SubSeq(log, a + 1, b) = SubSeq(log, 1, b)
    BY <2>2, ConcatAdjacentSubSeq
  <2> QED BY <2>1, <2>3 DEF b
<1>3. CASE ~ (a <= Len(log))
  <2>1. StopAt(log, 0, a) = Len(log) /\ b = Len(log)
    BY <1>1, <1>3 DEF StopAt
  <2>2. SubSeq(log, 1, Len(log)) = log
    BY SubSeqFull
  <2>3. SubSeq(log, a + 1, Len(log)) = <<>>
    BY <1>1, <1>3, SubSeqEmpty
  <2>4. log \o <<>> = log
    BY ConcatEmptySeq
  <2> HIDE DEF b
  <2>5. SubSeq(log, 1, StopAt(log, 0, a)) \o SubSeq(log, a + 1, b) = SubSeq(log, 1, b)
    BY <2>1, <2>2, <2>3, <2>4
  <2> QED BY <2>5 DEF b
<1> QED BY <1>2, <1>3

LEMMA HistoryPaged ==
    ASSUME NEW walk, Len(walk) \in Nat, NEW path, NEW size \in Nat \ {0}
    PROVE  PagesTileHistory(walk, path, size)
<1> DEFINE n == Len(walk)
           log == FileHistory(walk, path)
           page(k) == GitHistory(walk, path, [skip |-> (k - 1) * size, max |-> size])
           svn(k) == SvnHistory(walk, path, [skip |-> (k - 1) * size, max |-> size])
           whole == GitHistory(walk, path, [skip |-> Unset, max |-> Unset])
           ss == [k \in 1 .. n |-> page(k)]
           upto(k) == SubSeq(log, 1, StopAt(log, 0, k * size))
<1>1. log \in Seq(Nat) /\ Len(log) \in Nat /\ Len(log) <= n
  BY HistoryFits
<1>2. size # Unset /\ 0 # Unset /\ \A m \in Nat : m # Unset
  BY UnsetIsNoNumber
<1>3. whole = log
  <2>1. whole = SubSeq(log, 0 + 1, Len(log))
    BY DEF GitHistory, OrElse, Skip
  <2>2. SubSeq(log, 1, Len(log)) = log
    BY <1>1, SubSeqFull
  <2> HIDE DEF whole, log
  <2> QED BY <2>1, <2>2
<1>4. ASSUME NEW k \in 1 .. n
      PROVE  /\ page(k) = SubSeq(log, (k - 1) * size + 1, StopAt(log, 0, k * size))
             /\ svn(k) = page(k)
             /\ k # 1 => upto(k - 1) \o page(k) = upto(k)
             /\ k = 1 => page(k) = upto(k)
  <2> DEFINE a == (k - 1) * size
  <2>1. a \in Nat /\ a + size = k * size /\ (k = 1 => a = 0)
    BY PageBounds
  <2>2. page(k) = Take(Skip(log, a), size)
    BY <1>2, <2>1 DEF GitHistory, OrElse
  <2>3. svn(k) = Take(Skip(Take(log, a + size), a), size)
    BY <1>2, <2>1 DEF SvnHistory, OrElse
  <2>4. StopAt(log, 0, k * size) = StopAt(log, a, size)
    BY <2>1 DEF StopAt
  <2> HIDE DEF a, log, page, svn
  <2>5. page(k) = SubSeq(log, a + 1, StopAt(log, a, size)) /\ svn(k) = page(k)
    <3>1. Take(Skip(log, a), size) = SubSeq(log, a + 1, StopAt(log, a, size))
      BY <1>1, <2>1, SkipTake
    <3>2. Take(Skip(Take(log, a + size), a), size) = SubSeq(log, a + 1, StopAt(log, a, size))
      BY <1>1, <2>1, SkipOfTake
    <3> QED BY <2>2, <2>3, <3>1, <3>2
  <2>6. SubSeq(log, 1, StopAt(log, 0, a)) \o SubSeq(log, a + 1, StopAt(log, a, size))
          = SubSeq(log, 1, StopAt(log, a, size))
    BY <1>1, <2>1, PagesJoin
  <2>7. upto(k - 1) = SubSeq(log, 1, StopAt(log, 0, a))
    BY DEF a
  <2>8. k = 1 => page(k) = upto(k)
    <3> SUFFICES ASSUME k = 1 PROVE page(k) = upto(k)
      OBVIOUS
    <3>1. a = 0 /\ a + 1 = 1
      BY <2>1
    <3>2. page(k) = SubSeq(log, 1, StopAt(log, a, size))
      BY <2>5, <3>1
    <3> QED BY <2>4, <3>2
  <2>9. upto(k - 1) \o page(k) = upto(k)
    BY <2>4, <2>5, <2>6, <2>7
  <2>10. page(k) = SubSeq(log, (k - 1) * size + 1, StopAt(log, 0, k * size))
    BY <2>4, <2>5 DEF a
  <2> QED BY <2>5, <2>8, <2>9, <2>10
<1>5. FlattenSeq(ss) = whole
  <2>1. Len(ss) = n
    OBVIOUS
  <2>2. CASE n = 0
    <3>1. ss = <<>> /\ log = <<>>
      BY <1>1, <2>2
    <3> HIDE DEF ss, log
    <3>2. FlattenSeq(ss) = <<>>
      BY <3>1 DEF FlattenSeq
    <3> QED BY <1>3, <3>1, <3>2
  <2>3. CASE n # 0
    <3>1. PICK f : Flattens(f, ss, n) /\ FlattenSeq(ss) = f[n]
      <4> HIDE DEF ss, n
      <4> QED BY <2>1, <2>3, FlattenUnfolds DEF n
    <3>2. \A k \in 1 .. n : f[k] = IF k = 1 THEN page(k) ELSE f[k - 1] \o page(k)
      BY <3>1 DEF Flattens
    <3> DEFINE T == {m \in Nat : m \in 1 .. n => f[m] = upto(m)}
    <3> HIDE DEF page, upto, log, svn
    <3>3. ASSUME NEW m \in Nat, m \in T PROVE m + 1 \in T
      <4> SUFFICES ASSUME m + 1 \in 1 .. n PROVE f[m + 1] = upto(m + 1)
        OBVIOUS
      <4>1. (m + 1) - 1 = m
        OBVIOUS
      <4>2. CASE m = 0
        <5>1. f[1] = page(1) /\ page(1) = upto(1)
          BY <1>4, <3>2, <4>2
        <5> QED BY <4>2, <5>1
      <4>3. CASE m # 0
        <5>1. f[m + 1] = f[m] \o page(m + 1)
          <6>1. m + 1 # 1
            BY <4>3
          <6> QED BY <3>2, <4>1, <6>1
        <5>2. f[m] = upto(m)
          BY <3>3, <4>3
        <5>3. upto(m) \o page(m + 1) = upto(m + 1)
          BY <1>4, <4>1, <4>3
        <5> QED BY <5>1, <5>2, <5>3
      <4> QED BY <4>2, <4>3
    <3>4. Nat \subseteq T
      <4>1. 0 \in T
        OBVIOUS
      <4> HIDE DEF T
      <4> QED BY <3>3, <4>1, SetInduction
    <3>5. f[n] = upto(n)
      BY <2>3, <3>4
    <3>6. n * size >= n /\ n * size \in Nat
      BY <2>3, PageBounds
    <3>7. StopAt(log, 0, n * size) = Len(log)
      BY <1>1, <3>6 DEF StopAt
    <3>8. SubSeq(log, 1, Len(log)) = log
      BY <1>1, SubSeqFull
    <3> QED BY <1>3, <3>1, <3>5, <3>7, <3>8 DEF upto
  <2> QED BY <2>2, <2>3
<1> HIDE DEF whole
<1>6. FlattenSeq(ss) = whole /\ \A k \in 1 .. n : page(k) = svn(k)
  BY <1>4, <1>5
<1> QED BY <1>6 DEF PagesTileHistory, whole

-----------------------------------------------------------------------------
(* Search and replace.                                                     *)

\* What Occurrences computes on the way to its result, from position a on.
Matching(f, text, search, a) ==
    LET size == Len(search)
    IN  /\ f = [i \in a .. Len(text) + 1 |-> f[i]]
        /\ \A i \in a .. Len(text) + 1 :
             f[i] = IF i + size - 1 > Len(text) THEN <<>>
                    ELSE IF SubSeq(text, i, i + size - 1) = search
                      THEN <<i>> \o f[i + size]
                      ELSE f[i + 1]

LEMMA OccurrencesUnfold ==
    ASSUME NEW text, Len(text) \in Nat, NEW search, Len(search) \in Nat \ {0}
    PROVE  \E f : Matching(f, text, search, 1) /\ Occurrences(text, search) = f[1]
<1> DEFINE n == Len(text)
           size == Len(search)
           At(i) == SubSeq(text, i, i + size - 1) = search
           T == {m \in Nat : m <= n => \E f : Matching(f, text, search, n + 1 - m)}
           Body(f) == [i \in 1 .. n + 1 |->
                         IF i + size - 1 > n THEN <<>>
                         ELSE IF At(i) THEN <<i>> \o f[i + size] ELSE f[i + 1]]
<1>1. 0 \in T
  <2> DEFINE g == [i \in n + 1 .. n + 1 |-> <<>>]
  <2>1. g = [i \in n + 1 .. n + 1 |-> g[i]]
        /\ \A i \in n + 1 .. n + 1 : i + size - 1 > n /\ g[i] = <<>>
    OBVIOUS
  <2> HIDE DEF g
  <2>2. Matching(g, text, search, n + 1)
    BY <2>1 DEF Matching
  <2> QED BY <2>2
<1>2. ASSUME NEW m \in Nat, m \in T PROVE m + 1 \in T
  <2> SUFFICES ASSUME m + 1 <= n PROVE \E f : Matching(f, text, search, n + 1 - (m + 1))
    OBVIOUS
  <2> DEFINE a == n + 1 - (m + 1)
  <2>1. a \in Nat \ {0} /\ a + 1 = n + 1 - m /\ a < n + 1
    OBVIOUS
  <2>2. PICK f : Matching(f, text, search, a + 1)
    BY <1>2, <2>1
  <2> HIDE DEF a
  <2> DEFINE g == [i \in a .. n + 1 |->
                     IF i = a
                     THEN IF i + size - 1 > n THEN <<>>
                          ELSE IF At(i) THEN <<i>> \o f[i + size] ELSE f[i + 1]
                     ELSE f[i]]
  <2>3. ASSUME NEW i \in a .. n + 1
        PROVE  g[i] = IF i + size - 1 > n THEN <<>>
                      ELSE IF At(i) THEN <<i>> \o g[i + size] ELSE g[i + 1]
    <3> HIDE DEF At
    <3>1. \A j \in a + 1 .. n + 1 : g[j] = f[j]
      BY <2>1
    <3>2. ~ (i + size - 1 > n) => i + size \in a + 1 .. n + 1 /\ i + 1 \in a + 1 .. n + 1
      BY <2>1
    <3>3. CASE i = a
      <4>1. g[i] = IF i + size - 1 > n THEN <<>>
                   ELSE IF At(i) THEN <<i>> \o f[i + size] ELSE f[i + 1]
        BY <3>3
      <4> HIDE DEF g
      <4> QED BY <3>1, <3>2, <4>1
    <3>4. CASE i # a
      <4>1. i \in a + 1 .. n + 1
        BY <2>1, <3>4
      <4>2. f[i] = IF i + size - 1 > n THEN <<>>
                   ELSE IF At(i) THEN <<i>> \o f[i + size] ELSE f[i + 1]
        BY <2>2, <4>1 DEF Matching, At
      <4> HIDE DEF g
      <4> QED BY <3>1, <3>2, <4>1, <4>2
    <3> QED BY <3>3, <3>4
  <2>4. g = [i \in a .. n + 1 |-> g[i]]
    OBVIOUS
  <2> HIDE DEF g
  <2>5. Matching(g, text, search, a)
    BY <2>3, <2>4 DEF Matching
  <2> QED BY <2>5 DEF a
<1>3. Nat \subseteq T
  <2> HIDE DEF T
  <2> QED BY <1>1, <1>2, SetInduction
<1>4. \E g : Matching(g, text, search, 1)
  <2>1. n \in T /\ n + 1 - n = 1
    BY <1>3
  <2> QED BY <2>1
<1>5. PICK g : Matching(g, text, search, 1)
  BY <1>4
<1>6. g = Body(g)
  BY <1>5 DEF Matching
<1>7. Occurrences(text, search) = (CHOOSE f : f = Body(f))[1]
  BY DEF Occurrences
<1> DEFINE from == CHOOSE f : f = Body(f)
<1>8. from = Body(from)
  <2> HIDE DEF Body
  <2> QED BY <1>6
<1> HIDE DEF from
<1>9. Matching(from, text, search, 1)
  BY <1>8 DEF Matching
<1> QED BY <1>7, <1>9 DEF from

\* Where the search stands, from a place on.
StandsFrom(text, search, i) == {m \in MatchesAt(text, search) : m >= i}

\* It finds none when there is none, or else the first, and goes on past it.
FindsFirst(f, text, search, i) ==
    /\ f[i] \in Seq(Nat)
    /\ f[i] = <<>> => StandsFrom(text, search, i) = {}
    /\ f[i] # <<>> => \E m \in StandsFrom(text, search, i) :
         /\ f[i] = <<m>> \o f[m + Len(search)] /\ m + Len(search) <= Len(text) + 1
         /\ f[m + Len(search)] \in Seq(Nat)
         /\ f[m + Len(search)] = <<>> => StandsFrom(text, search, m + Len(search)) = {}
         /\ \A k \in StandsFrom(text, search, i) : m <= k

LEMMA FirstFound ==
    ASSUME NEW text, Len(text) \in Nat, NEW search, Len(search) \in Nat \ {0},
           NEW f, Matching(f, text, search, 1)
    PROVE  \A i \in 1 .. Len(text) + 1 : FindsFirst(f, text, search, i)
<1> DEFINE n == Len(text)
           size == Len(search)
           At(i) == SubSeq(text, i, i + size - 1) = search
           T == {m \in Nat : \A i \in 1 .. n + 1 : i >= n + 1 - m => FindsFirst(f, text, search, i)}
<1>1. \A i \in 1 .. n + 1 :
        f[i] = IF i + size - 1 > n THEN <<>>
               ELSE IF At(i) THEN <<i>> \o f[i + size] ELSE f[i + 1]
  BY DEF Matching
<1>2. \A i : i \in MatchesAt(text, search) <=> i \in 1 .. n - size + 1 /\ At(i)
  BY DEF MatchesAt
<1>3. ASSUME NEW i \in 1 .. n + 1, i + size - 1 > n PROVE FindsFirst(f, text, search, i)
  <2>3. f[i] = <<>>
    BY <1>1, <1>3
  <2>1. f[i] = <<>> /\ f[i] \in Seq(Nat)
    BY <2>3
  <2>2. StandsFrom(text, search, i) = {}
    BY <1>2, <1>3 DEF StandsFrom
  <2> QED BY <2>1, <2>2 DEF FindsFirst
<1>4. 0 \in T
  <2>1. \A i \in 1 .. n + 1 : i >= n + 1 - 0 => i + size - 1 > n
    OBVIOUS
  <2> QED BY <1>3, <2>1
<1>5. ASSUME NEW m \in Nat, m \in T PROVE m + 1 \in T
  <2> SUFFICES ASSUME NEW i \in 1 .. n + 1, i >= n + 1 - (m + 1)
               PROVE  FindsFirst(f, text, search, i)
    OBVIOUS
  <2>1. CASE i + size - 1 > n
    BY <1>3, <2>1
  <2>2. CASE ~ (i + size - 1 > n)
    <3> DEFINE next == i + size
    <3>1. next \in 1 .. n + 1 /\ i + 1 \in 1 .. n + 1
          /\ next >= n + 1 - m /\ i + 1 >= n + 1 - m /\ i \in 1 .. n - size + 1
      BY <2>2
    <3>2. FindsFirst(f, text, search, next) /\ FindsFirst(f, text, search, i + 1)
      BY <1>5, <3>1
    <3>3. CASE At(i)
      <4>6. f[i] = <<i>> \o f[next] /\ f[next] \in Seq(Nat) /\ i \in MatchesAt(text, search)
        BY <1>1, <1>2, <2>2, <3>1, <3>2, <3>3 DEF FindsFirst
      <4>1. f[i] = <<i>> \o f[next] /\ f[next] \in Seq(Nat)
            /\ i \in StandsFrom(text, search, i)
        BY <4>6 DEF StandsFrom
      <4>2. f[next] = <<>> => StandsFrom(text, search, next) = {}
        BY <3>2 DEF FindsFirst
      <4>3. \A k \in StandsFrom(text, search, i) : i <= k
        BY DEF StandsFrom
      <4>4. f[i] \in Seq(Nat) /\ f[i] # <<>>
        <5> DEFINE s == f[next]
        <5>1. s \in Seq(Nat) /\ <<i>> \in Seq(Nat) /\ Len(<<i>>) = 1 /\ Len(s) \in Nat
          BY <4>1
        <5> HIDE DEF s
        <5>2. <<i>> \o s \in Seq(Nat)
          BY <5>1, ConcatProperties
        <5>3. Len(<<i>> \o s) = Len(<<i>>) + Len(s)
          BY <5>1, ConcatProperties
        <5>4. <<i>> \o s # <<>>
          BY <5>1, <5>2, <5>3
        <5> QED BY <4>1, <5>2, <5>4 DEF s
      <4>5. /\ f[i] = <<i>> \o f[i + size] /\ i + size <= n + 1
            /\ f[i + size] \in Seq(Nat)
            /\ f[i + size] = <<>> => StandsFrom(text, search, i + size) = {}
        BY <3>1, <4>1, <4>2
      <4> QED BY <4>1, <4>3, <4>4, <4>5 DEF FindsFirst
    <3>4. CASE ~ At(i)
      <4>1. f[i] = f[i + 1]
        BY <1>1, <2>2, <3>4
      <4>2. StandsFrom(text, search, i) = StandsFrom(text, search, i + 1)
        <5>1. ASSUME NEW k \in MatchesAt(text, search) PROVE k \in Int /\ k # i
          <6>1. k \in 1 .. n - size + 1 /\ At(k)
            BY <1>2
          <6> HIDE DEF At
          <6> QED BY <3>4, <6>1
        <5> QED BY <5>1 DEF StandsFrom
      <4> QED BY <3>2, <4>1, <4>2 DEF FindsFirst
    <3> QED BY <3>3, <3>4
  <2> QED BY <2>1, <2>2
<1>6. Nat \subseteq T
  <2> HIDE DEF T
  <2> QED BY <1>4, <1>5, SetInduction
<1>7. n \in T
  <2> HIDE DEF T
  <2> QED BY <1>6
<1>8. \A i \in 1 .. n + 1 : i >= n + 1 - n
  OBVIOUS
<1> QED BY <1>7, <1>8

LEMMA OneBlock ==
    ASSUME NEW b, NEW h
    PROVE  FoldLeft(ApplyBlock, b, <<h>>) = ApplyBlock(b, h)
<1> DEFINE Body(f) == [s \in SUBSET DOMAIN <<h>> |->
                         IF s = {} THEN b
                         ELSE ApplyBlock(f[s \ {Max(s)}], <<h>>[Max(s)])]
           iter == CHOOSE f : f = Body(f)
           g == [s \in SUBSET {1} |-> IF s = {} THEN b ELSE ApplyBlock(b, h)]
<1>1. FoldLeft(ApplyBlock, b, <<h>>) = iter[DOMAIN <<h>>]
  BY DEF FoldLeft, MapThenFoldSet
<1>2. DOMAIN <<h>> = {1} /\ <<h>>[1] = h
  OBVIOUS
<1>3. Max({1}) = 1
  BY DEF Max
<1>4. \A s \in SUBSET {1} : s = {} \/ s = {1}
  OBVIOUS
<1>5. g = Body(g)
  <2>1. ASSUME NEW s \in SUBSET {1}
        PROVE  g[s] = IF s = {} THEN b ELSE ApplyBlock(g[s \ {Max(s)}], <<h>>[Max(s)])
    <3>1. CASE s = {}
      BY <3>1
    <3>2. CASE s = {1}
      <4>1. Max(s) = 1 /\ s \ {1} = {} /\ g[{}] = b /\ g[s] = ApplyBlock(b, h)
        BY <1>3, <3>2
      <4> HIDE DEF g
      <4> QED BY <1>2, <3>2, <4>1
    <3> QED BY <1>4, <3>1, <3>2
  <2>2. g = [s \in SUBSET {1} |-> g[s]]
    OBVIOUS
  <2> HIDE DEF g
  <2> QED BY <1>2, <2>1, <2>2
<1>6. iter = Body(iter)
  <2> HIDE DEF Body
  <2> QED BY <1>5
<1> HIDE DEF iter
<1>7. iter[{}] = b
  BY <1>2, <1>6
<1>8. iter[{1}] = ApplyBlock(iter[{1} \ {Max({1})}], <<h>>[Max({1})])
  BY <1>2, <1>6
<1>9. {1} \ {1} = {}
  OBVIOUS
<1> QED BY <1>1, <1>2, <1>3, <1>7, <1>8, <1>9 DEF iter

\* A list of two edits is one edit after the other.
OneAfterOther(b, h, k) ==
    FoldLeft(ApplyBlock, b, <<h, k>>) = ApplyBlock(ApplyBlock(b, h), k)

LEMMA TwoBlocks ==
    ASSUME NEW b, NEW h, NEW k
    PROVE  OneAfterOther(b, h, k)
<1> DEFINE Body(f) == [s \in SUBSET DOMAIN <<h, k>> |->
                         IF s = {} THEN b
                         ELSE ApplyBlock(f[s \ {Max(s)}], <<h, k>>[Max(s)])]
           iter == CHOOSE f : f = Body(f)
           g == [s \in SUBSET {1, 2} |->
                   IF s = {} THEN b
                   ELSE IF s = {1} THEN ApplyBlock(b, h)
                   ELSE IF s = {2} THEN ApplyBlock(b, k)
                   ELSE ApplyBlock(ApplyBlock(b, h), k)]
<1>1. FoldLeft(ApplyBlock, b, <<h, k>>) = iter[DOMAIN <<h, k>>]
  BY DEF FoldLeft, MapThenFoldSet
<1>2. DOMAIN <<h, k>> = {1, 2} /\ <<h, k>>[1] = h /\ <<h, k>>[2] = k
  <2>1. Len(<<h, k>>) = 2 /\ DOMAIN <<h, k>> = 1 .. 2
    OBVIOUS
  <2> QED BY <2>1
<1>3. Max({1}) = 1 /\ Max({2}) = 2 /\ Max({1, 2}) = 2
  <2>1. Max({1}) = 1 /\ Max({2}) = 2
    BY DEF Max
  <2>2. Max({1, 2}) = 2
    BY MaxOfTwo
  <2> QED BY <2>1, <2>2
<1>4. \A s \in SUBSET {1, 2} : s = {} \/ s = {1} \/ s = {2} \/ s = {1, 2}
  OBVIOUS
<1>5. {1} \ {1} = {} /\ {2} \ {2} = {} /\ {1, 2} \ {2} = {1}
  OBVIOUS
<1>6. /\ g[{}] = b /\ g[{1}] = ApplyBlock(b, h) /\ g[{2}] = ApplyBlock(b, k)
      /\ g[{1, 2}] = ApplyBlock(ApplyBlock(b, h), k)
  <2>1. {1} # {2} /\ {1, 2} # {1} /\ {1, 2} # {2} /\ {1, 2} # {} /\ {1} # {} /\ {2} # {}
    OBVIOUS
  <2> QED BY <2>1
<1>7. g = [s \in SUBSET {1, 2} |-> g[s]]
  OBVIOUS
<1> HIDE DEF g
<1>8. g = Body(g)
  <2>1. ASSUME NEW s \in SUBSET {1, 2}
        PROVE  g[s] = IF s = {} THEN b ELSE ApplyBlock(g[s \ {Max(s)}], <<h, k>>[Max(s)])
    <3>1. CASE s = {}
      BY <1>6, <3>1
    <3>2. CASE s = {1}
      BY <1>2, <1>3, <1>5, <1>6, <3>2
    <3>3. CASE s = {2}
      BY <1>2, <1>3, <1>5, <1>6, <3>3
    <3>4. CASE s = {1, 2}
      BY <1>2, <1>3, <1>5, <1>6, <3>4
    <3> QED BY <1>4, <3>1, <3>2, <3>3, <3>4
  <2> QED BY <1>2, <1>7, <2>1
<1>9. iter = Body(iter)
  <2> HIDE DEF Body
  <2> QED BY <1>8
<1> HIDE DEF iter
<1>10. iter[{}] = b
  BY <1>2, <1>9
<1>11. iter[{1}] = ApplyBlock(iter[{1} \ {Max({1})}], <<h, k>>[Max({1})])
  BY <1>2, <1>9
<1>12. iter[{1, 2}] = ApplyBlock(iter[{1, 2} \ {Max({1, 2})}], <<h, k>>[Max({1, 2})])
  BY <1>2, <1>9
<1>13. iter[{1}] = ApplyBlock(b, h)
  BY <1>2, <1>3, <1>5, <1>10, <1>11
<1>14. iter[{1, 2}] = ApplyBlock(ApplyBlock(b, h), k)
  BY <1>2, <1>3, <1>5, <1>12, <1>13
<1> QED BY <1>1, <1>2, <1>14 DEF iter, OneAfterOther

\* What is found of a search: the first place it stands at, and no other
\* when no two places are apart.
LEMMA FoundOnce ==
    ASSUME NEW text, Len(text) \in Nat, NEW search, Len(search) \in Nat \ {0}
    PROVE  LET found == Occurrences(text, search)
               at == MatchesAt(text, search)
           IN  /\ found \in Seq(Nat)
               /\ found = <<>> <=> at = {}
               /\ found # <<>> =>
                    /\ Len(found) = 1 <=> \A i, j \in at : i - j < Len(search)
                    /\ \E i \in at : /\ \A j \in at : i <= j
                                     /\ Len(found) = 1 => found = <<i>>
<1> DEFINE size == Len(search)
           found == Occurrences(text, search)
           at == MatchesAt(text, search)
<1>1. PICK f : Matching(f, text, search, 1) /\ found = f[1]
  BY OccurrencesUnfold
<1>2. \A i \in 1 .. Len(text) + 1 : FindsFirst(f, text, search, i)
  BY <1>1, FirstFound
<1>3. FindsFirst(f, text, search, 1)
  BY <1>2
<1>4. found \in Seq(Nat) /\ at \subseteq Nat \ {0} /\ StandsFrom(text, search, 1) = at
  BY <1>1, <1>3 DEF FindsFirst, StandsFrom, MatchesAt
<1>5. CASE found = <<>>
  BY <1>1, <1>3, <1>4, <1>5 DEF FindsFirst
<1>6. CASE found # <<>>
  <2>1. PICK m \in at :
          /\ found = <<m>> \o f[m + size] /\ m + size <= Len(text) + 1
          /\ f[m + size] \in Seq(Nat)
          /\ f[m + size] = <<>> => StandsFrom(text, search, m + size) = {}
          /\ \A k \in at : m <= k
    BY <1>1, <1>3, <1>4, <1>6 DEF FindsFirst
  <2> DEFINE s == f[m + size]
  <2>2. s \in Seq(Nat) /\ <<m>> \in Seq(Nat) /\ Len(<<m>>) = 1 /\ Len(s) \in Nat
    BY <1>4, <2>1
  <2>3. found = <<m>> \o s
    BY <2>1
  <2> HIDE DEF s, found
  <2>5. Len(<<m>> \o s) = Len(<<m>>) + Len(s)
    BY <2>2, ConcatProperties
  <2>6. Len(found) = 1 <=> s = <<>>
    BY <2>2, <2>3, <2>5
  <2>7. s = <<>> => found = <<m>>
    BY <2>2, <2>3
  <2>8. s = <<>> => \A k \in at : k - m < size
    BY <1>4, <2>1 DEF StandsFrom, s
  <2>9. s # <<>> => \E k \in at : ~ (k - m < size)
    <3> SUFFICES ASSUME s # <<>> PROVE \E k \in at : k >= m + size
      BY <1>4
    <3>1. m + size \in 1 .. Len(text) + 1
      BY <1>4, <2>1
    <3>2. FindsFirst(f, text, search, m + size)
      BY <1>2, <3>1
    <3>3. PICK k \in at : s = <<k>> \o f[k + size] /\ k >= m + size
      BY <3>2 DEF FindsFirst, StandsFrom, s
    <3> QED BY <3>3
  <2>10. Len(found) = 1 <=> \A i, j \in at : i - j < size
    BY <1>4, <2>1, <2>6, <2>8, <2>9
  <2> QED BY <1>4, <1>6, <2>1, <2>6, <2>7, <2>10 DEF found
<1> QED BY <1>5, <1>6

LEMMA FlattenOfOne ==
    ASSUME NEW ss, Len(ss) = 1
    PROVE  FlattenSeq(ss) = ss[1]
<1>1. 1 \in Nat \ {0} /\ 1 \in 1 .. 1
  OBVIOUS
<1>2. \E f : Flattens(f, ss, 1) /\ FlattenSeq(ss) = f[1]
  BY <1>1, FlattenUnfolds
<1> QED BY <1>1, <1>2 DEF Flattens

\* One match spliced is the text with that place replaced.
LEMMA SplicedOnce ==
    ASSUME NEW text \in Seq(STRING), NEW i \in Nat, NEW block \in Block
    PROVE  Spliced(text, <<i>>, block.search, block.replace) = ReplacedAt(text, i, block)
<1> DEFINE at == <<i>>
           resume(k) == IF k = 0 THEN 1 ELSE at[k] + Len(block.search)
           Part(k) == SubSeq(text, resume(k - 1), at[k] - 1) \o block.replace
           ss == [k \in 1 .. Len(at) |-> Part(k)]
<1>1. Len(at) = 1 /\ at[1] = i
  OBVIOUS
<1>2. Spliced(text, at, block.search, block.replace)
        = FlattenSeq(ss) \o SubSeq(text, resume(Len(at)), Len(text))
  BY DEF Spliced
<1> HIDE DEF at
<1>3. resume(1 - 1) = 1 /\ resume(Len(at)) = i + Len(block.search)
  BY <1>1
<1>4. Part(1) = SubSeq(text, 1, i - 1) \o block.replace
  BY <1>1, <1>3
<1> HIDE DEF resume, Part
<1>5. Len(ss) = 1 /\ ss[1] = Part(1)
  BY <1>1
<1> HIDE DEF ss
<1>6. FlattenSeq(ss) = Part(1)
  BY <1>5, FlattenOfOne
<1> QED BY <1>2, <1>3, <1>4, <1>6 DEF ReplacedAt, at

LEMMA EditLands ==
    ASSUME NEW text \in Seq(STRING), NEW first \in Block, NEW second \in Block
    PROVE  LandsOnFirst(text, first, second)
<1> DEFINE one == ApplySearchReplace(text, TRUE, <<first>>)
           two == ApplySearchReplace(text, TRUE, <<first, second>>)
           next == ApplySearchReplace(one.text, TRUE, <<second>>)
           found == Occurrences(text, first.search)
           at == MatchesAt(text, first.search)
           Near == \A i, j \in at : i - j < Len(first.search)
           First(i) == (\A j \in at : i <= j) /\ (Len(found) = 1 => found = <<i>>)
<1>1. ~ Accepted(Conflict) /\ ~ Accepted(Invalid)
      /\ \A t, c : Accepted(Changed(t, c)) /\ Changed(t, c).text = t /\ Changed(t, c).applied = c
  BY DEF Accepted, Conflict, Invalid, Changed
<1>2. /\ Len(<<first>>) = 1 /\ <<first>>[1] = first /\ <<first>> # <<>>
      /\ Len(<<second>>) = 1 /\ <<second>>[1] = second /\ <<second>> # <<>>
      /\ Len(<<first, second>>) = 2 /\ <<first, second>> # <<>>
  OBVIOUS
<1>3. first.search = <<>> => ~ Accepted(one)
  BY <1>1, <1>2 DEF ApplySearchReplace
<1>4. ASSUME first.search # <<>>
      PROVE  one = ApplyBlock(Changed(text, 0), first)
  <2>1. one = FoldLeft(ApplyBlock, Changed(text, 0), <<first>>)
    BY <1>2, <1>4 DEF ApplySearchReplace
  <2> QED BY <2>1, OneBlock
<1>5. ASSUME first.search # <<>>
      PROVE  two = ApplyBlock(one, second)
  <2>1. two = FoldLeft(ApplyBlock, Changed(text, 0), <<first, second>>)
    BY <1>2 DEF ApplySearchReplace
  <2>2. OneAfterOther(Changed(text, 0), first, second)
    BY TwoBlocks
  <2> HIDE DEF one, two
  <2> QED BY <1>4, <1>5, <2>1, <2>2 DEF OneAfterOther
<1>6. second.search # <<>> => next = ApplyBlock(Changed(one.text, 0), second)
  <2> SUFFICES ASSUME second.search # <<>>
               PROVE  next = ApplyBlock(Changed(one.text, 0), second)
    OBVIOUS
  <2>1. next = FoldLeft(ApplyBlock, Changed(one.text, 0), <<second>>)
    BY <1>2 DEF ApplySearchReplace
  <2> QED BY <2>1, OneBlock
<1> HIDE DEF one, two, next
<1>7. ASSUME first.search # <<>>
      PROVE  /\ found \in Seq(Nat) /\ Len(found) \in Nat
             /\ found = <<>> <=> at = {}
             /\ found # <<>> => (Len(found) = 1 <=> Near) /\ \E i \in at : First(i)
  <2>1. Len(text) \in Nat /\ Len(first.search) \in Nat \ {0}
    BY <1>7 DEF Block
  <2>2. /\ found \in Seq(Nat)
        /\ found = <<>> <=> at = {}
        /\ found # <<>> =>
             /\ Len(found) = 1 <=> \A i, j \in at : i - j < Len(first.search)
             /\ \E i \in at : /\ \A j \in at : i <= j
                              /\ Len(found) = 1 => found = <<i>>
    BY <2>1, FoundOnce, Zenon
  <2>3. found # <<>> => (Len(found) = 1 <=> Near)
    BY <2>2
  <2>4. ASSUME found # <<>>
        PROVE  \E i \in at : First(i)
    <3> HIDE DEF at, found
    <3>1. PICK i \in at : (\A j \in at : i <= j) /\ (Len(found) = 1 => found = <<i>>)
      BY <2>2, <2>4
    <3>2. First(i)
      BY <3>1
    <3> QED BY <3>2
  <2> HIDE DEF found, at, Near, First
  <2> QED BY <2>2, <2>3, <2>4
<1> HIDE DEF found
<1>8. ASSUME first.search # <<>>
      PROVE  /\ Accepted(one) <=> at # {} /\ (~ first.all => Near)
             /\ Accepted(one) =>
                   one = Changed(Spliced(text, found, first.search, first.replace),
                                 Len(found))
  <2>6. \A n \in Nat : n # 0 /\ ~ (n > 1) <=> n = 1
    OBVIOUS
  <2>7. Len(found) \in Nat
    BY <1>7, <1>8
  <2>1. Len(found) # 0 /\ ~ (Len(found) > 1) <=> Len(found) = 1
    BY <2>6, <2>7
  <2>2. found = <<>> <=> Len(found) = 0
    BY <1>7, <1>8
  <2>3. Accepted(one) <=> ~ (found = <<>> \/ (~ first.all /\ Len(found) > 1))
    BY <1>1, <1>4, <1>8 DEF ApplyBlock, found
  <2>4. 0 + Len(found) = Len(found)
    BY <1>7, <1>8
  <2>5. Accepted(one) => one = Changed(Spliced(text, found, first.search, first.replace),
                                       0 + Len(found))
    BY <1>1, <1>4, <1>8 DEF ApplyBlock, found
  <2> HIDE DEF Near
  <2> QED BY <1>7, <1>8, <2>1, <2>2, <2>3, <2>4, <2>5
<1>9. ASSUME Accepted(one), ~ first.all
      PROVE  /\ one.applied = 1
             /\ \E i \in at : /\ \A j \in at : i <= j
                              /\ one.text = ReplacedAt(text, i, first)
  <2>1. first.search # <<>>
    BY <1>3, <1>9
  <2>2. Near /\ at # {}
    BY <1>8, <1>9, <2>1
  <2> HIDE DEF Near, First, at
  <2>6. found # <<>> /\ Len(found) = 1
    BY <1>7, <2>1, <2>2
  <2>7. PICK i \in at : First(i)
    BY <1>7, <2>1, <2>6
  <2>3. (\A j \in at : i <= j) /\ found = <<i>> /\ Len(found) = 1
    BY <2>6, <2>7 DEF First
  <2>4. i \in Nat
    BY DEF MatchesAt, at
  <2>5. one = Changed(ReplacedAt(text, i, first), 1)
    BY <1>8, <1>9, <2>1, <2>3, <2>4, SplicedOnce
  <2> QED BY <1>1, <2>3, <2>5
<1>10. ASSUME Accepted(one), second.search # <<>>
       PROVE  /\ Accepted(two) <=> Accepted(next)
              /\ Accepted(two) => two.text = next.text
  BY <1>1, <1>3, <1>5, <1>6, <1>10 DEF ApplyBlock
<1> QED BY <1>3, <1>8, <1>9, <1>10 DEF LandsOnFirst, one, two, next

-----------------------------------------------------------------------------
(* What is asked is one of the inputs: every answer is one of a lemma.     *)

AskedInv ==
    \/ input = [kind |-> "none"]
    \/ input \in UNION {PageInputs, CutInputs, SearchInputs, EditInputs, SessionInputs,
                        HistoryInputs, SyncInputs, BlameInputs, CodeInputs,
                        SymbolInputs, RequestInputs, ErrorInputs}

(* Only an input that was given is ever answered.                          *)
THEOREM AskedInvariance == Spec => []AskedInv
<1>1. Init => AskedInv
  BY DEF Init, AskedInv
<1>2. AskedInv /\ [Next]_input => AskedInv'
  BY DEF AskedInv, Next, Ask, Answered
<1> QED BY <1>1, <1>2, PTL DEF Spec

(* The kind of an input says whose it is.                                  *)
LEMMA KindOfInput ==
    ASSUME AskedInv
    PROVE  /\ input.kind = "page" => input \in PageInputs
           /\ input.kind = "cut" => input \in CutInputs
           /\ input.kind = "search" => input \in SearchInputs
           /\ input.kind = "session" => input \in SessionInputs
           /\ input.kind = "edit" => input \in EditInputs
           /\ input.kind = "history" => input \in HistoryInputs
           /\ input.kind = "blame" => input \in BlameInputs
           /\ input.kind = "code" => input \in CodeInputs
           /\ input.kind = "symbol" => input \in SymbolInputs
           /\ input.kind = "request" => input \in RequestInputs
<1> DEFINE OfKind(S, kind) == \A i \in S : i.kind = kind
<1>1. /\ OfKind(PageInputs, "page") /\ OfKind(CutInputs, "cut")
      /\ OfKind(SearchInputs, "search") /\ OfKind(EditInputs, "edit")
      /\ OfKind(SessionInputs, "session") /\ OfKind(HistoryInputs, "history")
      /\ OfKind(SyncInputs, "sync") /\ OfKind(BlameInputs, "blame")
      /\ OfKind(CodeInputs, "code") /\ OfKind(SymbolInputs, "symbol")
      /\ OfKind(RequestInputs, "request") /\ OfKind(ErrorInputs, "error")
  BY InputKinds
<1> QED BY <1>1 DEF AskedInv

(* Whatever the request and its token, REST and MCP make the same call of  *)
(* it, and blame the same side for an error (rest.rs, mcp.rs, error.rs).   *)
THEOREM SameCallMade == Spec => []FrontEndsAgree
<1>1. AskedInv => FrontEndsAgree
  BY KindOfInput, RequestsAreRequests, SameCall, SameFault DEF FrontEndsAgree
<1> QED BY <1>1, AskedInvariance, PTL

(* In every executable, at every address, the bytes and the name shown are *)
(* those of the ranges and the functions that hold the address             *)
(* (va_to_bytes, clamp_slice, resolve_function).                           *)
THEOREM EveryAddressAnswered == Spec => []AddressesAnswered
<1>1. AskedInv => AddressesAnswered
  BY KindOfInput, CodeIsInExecutables, SymbolsAreOfObjects, CodeAnswered, NameAnswered
  DEF AddressesAnswered
<1> QED BY <1>1, AskedInvariance, PTL

(* At every commit what a search can hit can be read, and blame is the     *)
(* file, line by line, whatever the ranges git found (resolve_commit,      *)
(* materialize_tree, read_file, blame).                                    *)
THEOREM EveryRevisionShown == Spec => []ReadsShowRevision
<1>1. AskedInv => ReadsShowRevision
  <2>1. ASSUME AskedInv, input.kind = "blame"
        PROVE  BlameIsTheFile(input.file, input.later, input.entries, input.pinned)
    BY <2>1, KindOfInput, BlamesTileFiles, BlameRead DEF Entry
  <2> QED BY <2>1, SnapshotRead DEF ReadsShowRevision
<1> QED BY <1>1, AskedInvariance, PTL

(* In every session at rest the status, the diff of a path and the diff of *)
(* the session tell what its reader sees changed, and the patch makes it   *)
(* again (compute_status, diff, export_patch, apply_unified_diff).         *)
THEOREM EveryChangeTold == Spec => []ChangesAgree
<1>1. AskedInv => ChangesAgree
  BY KindOfInput, SessionsAreAtRest, ChangesTold DEF ChangesAgree
<1> QED BY <1>1, AskedInvariance, PTL

(* Of every walk and with pages of every size, the pages laid end to end   *)
(* are the history of the path, and svn cuts the same ones as git does     *)
(* (history of both backends).                                             *)
THEOREM EveryHistoryPaged == Spec => []HistoryInPages
<1>1. AskedInv => HistoryInPages
  <2>1. ASSUME AskedInv, input.kind = "history"
        PROVE  PagesTileHistory(input.walk, input.path, input.size)
    <3>1. Len(input.walk) \in Nat /\ input.size \in Nat \ {0}
      BY <2>1, KindOfInput, HistoriesAreWalks
    <3> QED BY <3>1, HistoryPaged
  <2> QED BY <2>1 DEF HistoryInPages
<1> QED BY <1>1, AskedInvariance, PTL

(* In every text an edit lands on the first place its text stands at, an   *)
(* edit that could mean two places apart is refused, and a list of edits   *)
(* is one after the other (apply_search_replace).                          *)
THEOREM EveryEditLands == Spec => []EditLandsOnFirst
<1>1. AskedInv => EditLandsOnFirst
  BY KindOfInput, EditsAreOfTexts, EditLands DEF EditLandsOnFirst
<1> QED BY <1>1, AskedInvariance, PTL

(* The comment of apply_search_replace has exceptions: with any character  *)
(* three times as the text, an edit of two of them without "all" is        *)
(* accepted although they stand at two places (str::matches passes over    *)
(* the second of two that overlap).                                        *)
THEOREM OverlapAccepted ==
    ASSUME NEW c \in STRING, NEW replace \in Seq(STRING)
    PROVE  LET text  == [i \in 1 .. 3 |-> c]
               block == [search |-> [i \in 1 .. 2 |-> c], replace |-> replace, all |-> FALSE]
           IN  /\ Accepted(ApplySearchReplace(text, TRUE, <<block>>))
               /\ \E i, j \in MatchesAt(text, block.search) : i # j
<1> DEFINE Repeat(n) == [i \in 1 .. n |-> c]
           text == Repeat(3)
           block == [search |-> Repeat(2), replace |-> replace, all |-> FALSE]
<1>1. ASSUME NEW n \in Nat
      PROVE  Repeat(n) \in Seq(STRING) /\ Len(Repeat(n)) = n /\ \A i \in 1 .. n : Repeat(n)[i] = c
  <2>1. Repeat(n) \in [1 .. n -> STRING]
    OBVIOUS
  <2>2. \A s \in [1 .. n -> STRING] : s \in Seq(STRING)
    BY SeqDef
  <2>4. Len(Repeat(n)) = n
    OBVIOUS
  <2>3. \A i \in 1 .. n : Repeat(n)[i] = c
    OBVIOUS
  <2> QED BY <2>1, <2>2, <2>3, <2>4
<1>2. /\ Repeat(2) \in Seq(STRING) /\ Len(Repeat(2)) = 2 /\ Repeat(2) # <<>>
      /\ \A i \in 1 .. 2 : Repeat(2)[i] = c
  <2> HIDE DEF Repeat
  <2>1. /\ Repeat(2) \in Seq(STRING) /\ Len(Repeat(2)) = 2
        /\ \A i \in 1 .. 2 : Repeat(2)[i] = c
    BY <1>1
  <2>2. Repeat(2) # <<>>
    <3>1. Len(Repeat(2)) # 0
      BY <2>1
    <3> QED BY <2>1, <3>1, EmptySeq
  <2> QED BY <2>1, <2>2
<1>3. text \in Seq(STRING) /\ block \in Block /\ Len(text) = 3
      /\ Len(block.search) = 2 /\ block.search # <<>> /\ ~ block.all
  <2> HIDE DEF Repeat
  <2>1. block.search = Repeat(2) /\ block.replace = replace /\ block.all = FALSE
    OBVIOUS
  <2>2. block \in Block
    BY <1>1 DEF Block
  <2> QED BY <1>1, <1>2, <2>1, <2>2
<1>4. ASSUME NEW m \in 1 .. 2 PROVE SubSeq(text, m, m + 1) = block.search
  <2> HIDE DEF Repeat
  <2> DEFINE s == SubSeq(text, m, m + 1)
  <2>1. m \in Int /\ m + 1 \in Int /\ m + 1 - m + 1 = 2 /\ m <= m + 1
        /\ (\A i \in m .. m + 1 : i \in 1 .. 3) /\ \A i \in 1 .. 2 : m + i - 1 \in 1 .. 3
    OBVIOUS
  <2>2. \A i \in 1 .. 3 : text[i] = c /\ text[i] \in STRING
    BY <1>1
  <2>3. /\ s \in Seq(STRING) /\ Len(s) = IF m <= m + 1 THEN m + 1 - m + 1 ELSE 0
        /\ \A i \in 1 .. m + 1 - m + 1 : s[i] = text[m + i - 1]
    BY <2>1, <2>2, SubSeqProperties
  <2> HIDE DEF s, text
  <2>4. Len(s) = 2 /\ \A i \in 1 .. 2 : s[i] = c
    BY <2>1, <2>2, <2>3
  <2>5. s = Repeat(2)
    <3>1. Len(s) = Len(Repeat(2)) /\ \A i \in 1 .. Len(s) : s[i] = Repeat(2)[i]
      BY <1>2, <2>4
    <3> QED BY <1>2, <2>3, <3>1, SeqEqual
  <2> QED BY <2>5 DEF s
<1> HIDE DEF text, block
<1>5. MatchesAt(text, block.search) = 1 .. 2
  <2>1. MatchesAt(text, block.search)
          = {i \in 1 .. 2 : SubSeq(text, i, i + 2 - 1) = block.search}
    BY <1>3 DEF MatchesAt
  <2>2. \A i \in 1 .. 2 : i + 2 - 1 = i + 1
    OBVIOUS
  <2> QED BY <1>4, <2>1, <2>2
<1>6. 1 \in MatchesAt(text, block.search) /\ 2 \in MatchesAt(text, block.search) /\ 1 # 2
  BY <1>5
<1>7. LandsOnFirst(text, block, block)
  BY <1>3, EditLands
<1>8. \A i, j \in MatchesAt(text, block.search) : i - j < Len(block.search)
  <2>1. \A i, j \in 1 .. 2 : i - j < 2
    OBVIOUS
  <2> QED BY <1>3, <1>5, <2>1
<1>9. Accepted(ApplySearchReplace(text, TRUE, <<block>>))
  <2>1. MatchesAt(text, block.search) # {}
    BY <1>6
  <2> QED BY <1>3, <1>7, <1>8, <2>1, Zenon DEF LandsOnFirst
<1> QED BY <1>9, <1>6 DEF text, block

(* A file read in pages of lines of any size, or in cuts of bytes that      *)
(* meet, is the file, and the lines told for each are those it is on       *)
(* (slice_file_content).                                                   *)
THEOREM EveryFileReassembled == Spec => []PagesReassemble
<1>1. AskedInv => PagesReassemble
  <2>1. ASSUME AskedInv, input.kind = "page"
        PROVE  LinePagesReassemble(input.bytes, input.size)
    <3>1. input.bytes \in Seq(STRING) /\ input.size \in Nat \ {0}
      BY <2>1, KindOfInput, PagesAreOfFiles
    <3> QED BY <3>1, LinesPaged
  <2>2. ASSUME AskedInv, input.kind = "cut"
        PROVE  BytePagesReassemble(input.bytes, input.start, input.mid, input.end)
    <3>1. /\ input.bytes \in Seq(STRING)
          /\ input.start \in Nat /\ input.mid \in Nat /\ input.end \in Nat
      BY <2>2, KindOfInput, CutsAreOfFiles
    <3> QED BY <3>1, BytesPaged
  <2> QED BY <2>1, <2>2 DEF PagesReassemble
<1> QED BY <1>1, AskedInvariance, PTL

(* In every view, with context of any width and any cap, a hit is a line   *)
(* that matches between the lines before and after it (search_streaming    *)
(* and its sink).                                                          *)
THEOREM EveryHitInContext == Spec => []ContextIsNeighbours
<1>1. AskedInv => ContextIsNeighbours
  <2>1. ASSUME AskedInv, input.kind = "search"
        PROVE  HitsShowNeighbours(input.view, input.query)
    <3>1. input.view \in Seq(Listed) /\ input.query \in Query
      BY <2>1, KindOfInput, SearchesAreOfViews
    <3> QED BY <3>1, HitsShown
  <2> QED BY <2>1 DEF ContextIsNeighbours
<1> QED BY <1>1, AskedInvariance, PTL
=============================================================================
