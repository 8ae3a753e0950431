------------------------- MODULE ReplyStreamProofs -------------------------
(***************************************************************************)
(* Theorems about ReplyStream: for every message, every split of its JSON, *)
(* every failure and all limits.                                           *)
(***************************************************************************)
EXTENDS ReplyStream, WellFoundedInduction, SequenceTheorems, TLAPS

-----------------------------------------------------------------------------
(* Induction.  The theorems of the library take a predicate; this one a set, *)
(* the set of the numbers for which a claim holds.                           *)

\* A set with 0 and every successor has all natural numbers: what is left out has
\* no least element.
LEMMA NatSetInduction ==
  ASSUME NEW T, 0 \in T, \A n \in Nat : n \in T => n + 1 \in T
  PROVE  \A n \in Nat : n \in T
<1>1. SUFFICES ASSUME Nat \ T # {} PROVE FALSE
  OBVIOUS
<1> DEFINE R == {p \in Nat \X Nat : p[1] < p[2]}
<1>2. OpToRel(<, Nat) = R
  BY Zenon DEF OpToRel
<1>3. IsWellFoundedOn(R, Nat)
  BY <1>2, NatLessThanWellFounded, Zenon
<1> HIDE DEF R
<1>4. PICK x \in Nat \ T : \A y \in Nat \ T : <<y, x>> \notin R
  BY <1>1, <1>3, WFMin
<1>5. x - 1 \in Nat /\ x - 1 \notin T
  BY x # 0, (x - 1) + 1 = x
<1>6. <<x - 1, x>> \in R
  BY <1>5 DEF R
<1>. QED  BY <1>4, <1>5, <1>6

\* A bounded set of natural numbers has a greatest element, which is its Max.
LEMMA MaxOf ==
  ASSUME NEW S, S # {}, NEW n \in Nat, S \subseteq 0..n
  PROVE  Max(S) \in S /\ \A x \in S : x <= Max(S)
<1> DEFINE T == {k \in Nat : \A U \in SUBSET (0..k) : U # {} => \E x \in U : \A y \in U : x >= y}
<1>1. 0 \in T
  <2>1. ASSUME NEW U \in SUBSET (0..0), NEW x \in U PROVE \A y \in U : x >= y
    BY x = 0, \A y \in U : y = 0
  <2>. QED  BY <2>1
<1>2. ASSUME NEW k \in Nat, k \in T PROVE k + 1 \in T
  <2>1. SUFFICES ASSUME NEW U \in SUBSET (0..k + 1), U # {}
                 PROVE  \E x \in U : \A y \in U : x >= y
    OBVIOUS
  <2>2. CASE k + 1 \in U
    BY <2>2
  <2>3. CASE k + 1 \notin U
    <3>1. U \in SUBSET (0..k)
      BY <2>3
    <3>. QED  BY <3>1, <2>1, <1>2
  <2>. QED  BY <2>2, <2>3
<1>3. n \in T
  <2> HIDE DEF T
  <2>. QED  BY <1>1, <1>2, NatSetInduction
<1>4. \E x \in S : \A y \in S : x >= y
  BY <1>3
<1>5. Max(S) \in S /\ \A y \in S : Max(S) >= y
  BY <1>4, Zenon DEF Max
<1>6. \A y \in S : y \in Nat
  OBVIOUS
<1>. QED  BY <1>5, <1>6

\* A set of natural numbers has a least element, which is its Min.
LEMMA MinOf ==
  ASSUME NEW S, S # {}, S \subseteq Nat
  PROVE  Min(S) \in S /\ \A x \in S : Min(S) <= x
<1> DEFINE T == {k \in Nat : \A U \in SUBSET Nat : k \in U => \E x \in U : \A y \in U : x <= y}
<1>1. 0 \in T
  OBVIOUS
<1>2. ASSUME NEW k \in Nat, k \in T PROVE k + 1 \in T
  <2>1. SUFFICES ASSUME NEW U \in SUBSET Nat, k + 1 \in U
                 PROVE  \E x \in U : \A y \in U : x <= y
    OBVIOUS
  <2>2. PICK x \in U \cup {k} : \A y \in U \cup {k} : x <= y
    BY <1>2
  <2>. QED  BY <2>1, <2>2
<1>3. \A k \in Nat : k \in T
  <2> HIDE DEF T
  <2>. QED  BY <1>1, <1>2, NatSetInduction
<1>4. \E x \in S : \A y \in S : x <= y
  <2>1. PICK k \in S : TRUE
    OBVIOUS
  <2>2. k \in T
    BY <1>3
  <2>. QED  BY <2>2
<1>. QED  BY <1>4, Zenon DEF Min

-----------------------------------------------------------------------------
(* FlattenSeq *)

\* The recursive function that FlattenSeq chooses exists: it is built up from its
\* restrictions to shorter prefixes.
LEMMA FlattenSteps ==
  ASSUME NEW S, NEW ss \in Seq(Seq(S))
  PROVE  \E f \in [0..Len(ss) -> Seq(S)] :
           /\ f[0] = <<>> /\ f[Len(ss)] = FlattenSeq(ss)
           /\ \A i \in 1..Len(ss) : f[i] = f[i - 1] \o ss[i]
<1>0. Len(ss) \in Nat /\ \A i \in 1..Len(ss) : ss[i] \in Seq(S)
  BY LenProperties, ElementOfSeq
<1>1. CASE Len(ss) = 0
  <2>1. FlattenSeq(ss) = <<>> /\ <<>> \in Seq(S)
    BY <1>1, EmptySeq DEF FlattenSeq
  <2> DEFINE f == [i \in 0..0 |-> <<>>]
  <2>2. f[0] = <<>> /\ f \in [0..Len(ss) -> Seq(S)]
    BY <1>1, <2>1
  <2> HIDE DEF f
  <2>. QED  BY <1>1, <2>1, <2>2
<1>2. CASE Len(ss) # 0
  <2> DEFINE Steps(g, k) == g = [i \in 1..k |-> IF i = 1 THEN ss[i] ELSE g[i - 1] \o ss[i]]
             T == {k \in Nat : \E g : Steps(g, k)}
  <2>1. 0 \in T
    <3>1. Steps([i \in 1..0 |-> <<>>], 0)
      OBVIOUS
    <3>. QED  BY <3>1
  <2>2. ASSUME NEW k \in Nat, k \in T PROVE k + 1 \in T
    <3>1. PICK g : Steps(g, k)
      BY <2>2
    <3>2. \A i \in 1..k : g[i] = IF i = 1 THEN ss[i] ELSE g[i - 1] \o ss[i]
      BY <3>1
    <3> DEFINE h == [i \in 1..k + 1 |-> IF i = 1 THEN ss[i] ELSE g[i - 1] \o ss[i]]
    <3>3. \A i \in 1..k : h[i] = g[i]
      BY <3>2
    <3>4. Steps(h, k + 1)
      <4>1. \A i \in 1..k + 1 : i # 1 => i - 1 \in 1..k
        OBVIOUS
      <4>2. \A i \in 1..k + 1 : (IF i = 1 THEN ss[i] ELSE g[i - 1] \o ss[i])
                                = (IF i = 1 THEN ss[i] ELSE h[i - 1] \o ss[i])
        BY <3>3, <4>1
      <4>. QED  BY <4>2, Zenon
    <3> HIDE DEF h
    <3>. QED  BY <3>4, k + 1 \in Nat, Zenon
  <2>3. Len(ss) \in T
    <3> HIDE DEF T
    <3>. QED  BY <2>1, <2>2, <1>0, NatSetInduction
  <2>4. PICK g : Steps(g, Len(ss)) /\ FlattenSeq(ss) = g[Len(ss)]
    BY <2>3, <1>2, Zenon DEF FlattenSeq
  <2>5. \A i \in 1..Len(ss) : g[i] = IF i = 1 THEN ss[i] ELSE g[i - 1] \o ss[i]
    BY <2>4
  <2> DEFINE U == {k \in Nat : k + 1 \in 1..Len(ss) => g[k + 1] \in Seq(S)}
  <2>6. 0 \in U
    <3>1. 1 \in 1..Len(ss)
      BY <1>0, <1>2
    <3>. QED  BY <3>1, <2>5, <1>0
  <2>7. ASSUME NEW k \in Nat, k \in U PROVE k + 1 \in U
    <3>1. SUFFICES ASSUME k + 2 \in 1..Len(ss) PROVE g[k + 2] \in Seq(S)
      OBVIOUS
    <3>2. k + 2 # 1 /\ (k + 2) - 1 = k + 1 /\ k + 1 \in 1..Len(ss)
      BY <1>0, <3>1
    <3>3. g[k + 1] \in Seq(S)
      BY <2>7, <3>2
    <3>4. g[k + 2] = g[k + 1] \o ss[k + 2]
      BY <2>5, <3>1, <3>2
    <3>5. ss[k + 2] \in Seq(S)
      BY <1>0, <3>1
    <3>. QED  BY <3>3, <3>4, <3>5, ConcatProperties
  <2>8. \A k \in Nat : k \in U
    <3> HIDE DEF U
    <3>. QED  BY <2>6, <2>7, NatSetInduction
  <2>9. \A i \in 1..Len(ss) : g[i] \in Seq(S)
    <3>1. \A k \in Nat : k + 1 \in 1..Len(ss) => g[k + 1] \in Seq(S)
      BY <2>8
    <3>2. \A i \in 1..Len(ss) : i - 1 \in Nat /\ (i - 1) + 1 = i
      BY <1>0
    <3>. QED  BY <3>1, <3>2
  <2> DEFINE f == [i \in 0..Len(ss) |-> IF i = 0 THEN <<>> ELSE g[i]]
  <2>10. f \in [0..Len(ss) -> Seq(S)]
    BY <2>9, EmptySeq
  <2>11. \A i \in 1..Len(ss) : f[i] = f[i - 1] \o ss[i]
    <3>1. 1 \in 1..Len(ss)
      BY <1>0, <1>2
    <3>2. <<>> \o ss[1] = ss[1] /\ ss[1] = g[1]
      BY <3>1, <1>0, <2>5, ConcatEmptySeq
    <3>3. \A i \in 1..Len(ss) : i # 1 => i - 1 \in 0..Len(ss) /\ i - 1 # 0
      BY <1>0
    <3>4. \A i \in 1..Len(ss) : i \in 0..Len(ss) /\ i # 0
      BY <1>0
    <3>5. \A i \in 0..Len(ss) : f[i] = IF i = 0 THEN <<>> ELSE g[i]
      OBVIOUS
    <3> HIDE DEF f
    <3>6. TAKE i \in 1..Len(ss)
    <3>7. CASE i = 1
      <4>1. f[i] = ss[1] /\ f[i - 1] = <<>>
        BY <3>2, <3>4, <3>5, <3>7
      <4>. QED  BY <4>1, <3>2, <3>7
    <3>8. CASE i # 1
      <4>1. f[i] = g[i] /\ f[i - 1] = g[i - 1]
        BY <3>3, <3>4, <3>5, <3>8
      <4>. QED  BY <4>1, <2>5, <3>8
    <3>. QED  BY <3>7, <3>8
  <2>12. f[0] = <<>> /\ f[Len(ss)] = g[Len(ss)]
    BY <1>0, <1>2
  <2> HIDE DEF f
  <2>. QED  BY <2>4, <2>10, <2>11, <2>12
<1>. QED  BY <1>1, <1>2

\* FlattenSeq of the empty sequence, of one and of one more.
LEMMA FlattenEmpty == FlattenSeq(<<>>) = <<>>
BY EmptySeq DEF FlattenSeq

\* Flattening: its type, one sequence more, one sequence alone.
LEMMA FlattenType ==
  ASSUME NEW S, NEW ss \in Seq(Seq(S))
  PROVE  FlattenSeq(ss) \in Seq(S)
<1>1. Len(ss) \in 0..Len(ss)
  BY LenProperties
<1>2. PICK f \in [0..Len(ss) -> Seq(S)] : f[Len(ss)] = FlattenSeq(ss)
  BY FlattenSteps
<1>. QED  BY <1>1, <1>2

LEMMA FlattenAppend ==
  ASSUME NEW S, NEW ss \in Seq(Seq(S)), NEW x \in Seq(S)
  PROVE  FlattenSeq(Append(ss, x)) = FlattenSeq(ss) \o x
<1> DEFINE n == Len(ss)
           tt == Append(ss, x)
<1>1. /\ n \in Nat /\ tt \in Seq(Seq(S)) /\ Len(tt) = n + 1 /\ tt[n + 1] = x
      /\ \A i \in 1..n : tt[i] = ss[i]
  BY LenProperties, AppendProperties
<1> HIDE DEF n, tt
<1>2. PICK f \in [0..n -> Seq(S)] :
        /\ f[0] = <<>> /\ f[n] = FlattenSeq(ss)
        /\ \A i \in 1..n : f[i] = f[i - 1] \o ss[i]
  BY FlattenSteps, Zenon DEF n
<1>3. PICK g \in [0..n + 1 -> Seq(S)] :
        /\ g[0] = <<>> /\ g[n + 1] = FlattenSeq(tt)
        /\ \A i \in 1..n + 1 : g[i] = g[i - 1] \o tt[i]
  <2>1. tt \in Seq(Seq(S)) /\ Len(tt) = n + 1
    BY <1>1
  <2>2. \E g \in [0..Len(tt) -> Seq(S)] :
          /\ g[0] = <<>> /\ g[Len(tt)] = FlattenSeq(tt)
          /\ \A i \in 1..Len(tt) : g[i] = g[i - 1] \o tt[i]
    BY <2>1, FlattenSteps, Zenon
  <2>. QED  BY <2>1, <2>2, Zenon
<1> DEFINE T == {k \in Nat : k <= n => g[k] = f[k]}
<1>4. 0 \in T
  BY <1>2, <1>3
<1>5. ASSUME NEW k \in Nat, k \in T PROVE k + 1 \in T
  <2>1. SUFFICES ASSUME k + 1 <= n PROVE g[k + 1] = f[k + 1]
    OBVIOUS
  <2>2. /\ k + 1 \in 1..n /\ k + 1 \in 1..n + 1 /\ (k + 1) - 1 = k /\ k <= n
    BY <2>1, <1>1
  <2>3. g[k + 1] = g[k] \o tt[k + 1] /\ f[k + 1] = f[k] \o ss[k + 1]
    BY <2>2, <1>2, <1>3
  <2>. QED  BY <2>2, <2>3, <1>5, <1>1
<1>6. n \in T
  <2> HIDE DEF T
  <2>. QED  BY <1>1, <1>4, <1>5, NatSetInduction
<1>7. g[n + 1] = g[n] \o tt[n + 1]
  BY <1>1, <1>3, n + 1 \in 1..n + 1, (n + 1) - 1 = n
<1>8. g[n] = f[n]
  BY <1>1, <1>6
<1>. QED  BY <1>1, <1>2, <1>3, <1>7, <1>8, Zenon DEF tt

LEMMA FlattenOne ==
  ASSUME NEW S, NEW x \in Seq(S)
  PROVE  FlattenSeq(<<x>>) = x
<1>1. <<>> \in Seq(Seq(S)) /\ Append(<<>>, x) = <<x>>
  BY EmptySeq
<1>2. FlattenSeq(<<x>>) = <<>> \o x
  BY <1>1, FlattenAppend, FlattenEmpty
<1>. QED  BY <1>2, ConcatEmptySeq

\* What a concatenation has at each place.
LEMMA ConcatAt ==
  ASSUME NEW S, NEW s \in Seq(S), NEW t \in Seq(S)
  PROVE  /\ Len(s) \in Nat /\ Len(t) \in Nat
         /\ s \o t \in Seq(S) /\ Len(s \o t) = Len(s) + Len(t)
         /\ \A i \in 1..Len(s) : (s \o t)[i] = s[i]
         /\ \A i \in 1..Len(t) : (s \o t)[Len(s) + i] = t[i]
<1>1. Len(s) \in Nat /\ Len(t) \in Nat
  BY LenProperties
<1>2. /\ s \o t \in Seq(S) /\ Len(s \o t) = Len(s) + Len(t)
      /\ \A i \in 1..Len(s) + Len(t) :
           (s \o t)[i] = IF i <= Len(s) THEN s[i] ELSE t[i - Len(s)]
  BY ConcatProperties
<1>3. \A i \in 1..Len(t) : /\ Len(s) + i \in 1..Len(s) + Len(t) /\ ~(Len(s) + i <= Len(s))
                           /\ (Len(s) + i) - Len(s) = i
  BY <1>1
<1>4. \A i \in 1..Len(s) : i \in 1..Len(s) + Len(t) /\ i <= Len(s)
  BY <1>1
<1>. QED  BY <1>1, <1>2, <1>3, <1>4

\* The prefixes of a sequence, one element after the other.
LEMMA PrefixGrows ==
  ASSUME NEW S, NEW s \in Seq(S), NEW k \in 0..Len(s)
  PROVE  /\ SubSeq(s, 1, k) \in Seq(S) /\ Len(SubSeq(s, 1, k)) = k
         /\ \A i \in 1..k : SubSeq(s, 1, k)[i] = s[i]
         /\ k < Len(s) => /\ s[k + 1] \in S
                          /\ SubSeq(s, 1, k + 1) = Append(SubSeq(s, 1, k), s[k + 1])
<1>1. Len(s) \in Nat /\ \A i \in 1..Len(s) : s[i] \in S
  BY LenProperties, ElementOfSeq
<1>2. \A i \in 1..k : s[i] \in S
  BY <1>1
<1>3. SubSeq(s, 1, k) \in Seq(S) /\ Len(SubSeq(s, 1, k)) = k
      /\ \A i \in 1..k : SubSeq(s, 1, k)[i] = s[i]
  <2>1. \A i \in 1..k - 1 + 1 : SubSeq(s, 1, k)[i] = s[1 + i - 1]
    BY <1>2, SubSeqProperties
  <2>2. SubSeq(s, 1, k) \in Seq(S) /\ Len(SubSeq(s, 1, k)) = IF 1 <= k THEN k - 1 + 1 ELSE 0
    BY <1>2, SubSeqProperties
  <2>. QED  BY <2>1, <2>2
<1>4. ASSUME k < Len(s)
      PROVE  s[k + 1] \in S /\ SubSeq(s, 1, k + 1) = Append(SubSeq(s, 1, k), s[k + 1])
  <2>1. k + 1 \in 1..Len(s) /\ 1 \in 1..Len(s) /\ k + 1 \in 1..Len(s)
    BY <1>1, <1>4
  <2>2. SubSeq(s, 1, k + 1) = SubSeq(s, 1, (k + 1) - 1) \o <<s[k + 1]>>
    BY <2>1, SubSeqRecursiveSecond
  <2>3. s[k + 1] \in S
    BY <2>1, <1>1
  <2>. QED  BY <2>2, <2>3, <1>3, AppendIsConcat, (k + 1) - 1 = k
<1>. QED  BY <1>3, <1>4

\* The part of a sequence after a up to b.
LEMMA PartOf ==
  ASSUME NEW S, NEW t \in Seq(S), NEW a \in Nat, NEW b \in a..Len(t)
  PROVE  /\ SubSeq(t, a + 1, b) \in Seq(S) /\ Len(SubSeq(t, a + 1, b)) = b - a
         /\ \A i \in 1..b - a : SubSeq(t, a + 1, b)[i] = t[a + i]
<1>1. Len(t) \in Nat
  BY LenProperties
<1>2. \A i \in a + 1..b : t[i] \in S
  BY <1>1, ElementOfSeq
<1> DEFINE v == SubSeq(t, a + 1, b)
<1>3. v \in Seq(S)
  BY <1>1, <1>2, a + 1 \in Int, b \in Int, SubSeqProperties
<1>4. Len(v) = IF a + 1 <= b THEN b - (a + 1) + 1 ELSE 0
  BY <1>1, <1>2, a + 1 \in Int, b \in Int, SubSeqProperties
<1>5. \A i \in 1..b - (a + 1) + 1 : v[i] = t[(a + 1) + i - 1]
  BY <1>1, <1>2, a + 1 \in Int, b \in Int, SubSeqProperties
<1> HIDE DEF v
<1>6. b - (a + 1) + 1 = b - a /\ \A i \in 1..b - a : (a + 1) + i - 1 = a + i
  BY <1>1
<1>. QED  BY <1>1, <1>3, <1>4, <1>5, <1>6 DEF v

\* Parts of parts, and adjacent parts.
LEMMA PartOfPart ==
  ASSUME NEW S, NEW t \in Seq(S), NEW a \in Nat, NEW b \in a..Len(t), NEW c \in b..Len(t)
  PROVE  SubSeq(SubSeq(t, a + 1, c), b - a + 1, c - a) = SubSeq(t, b + 1, c)
<1> DEFINE u == SubSeq(t, a + 1, c)
           v == SubSeq(u, b - a + 1, c - a)
           w == SubSeq(t, b + 1, c)
<1>1. /\ Len(t) \in Nat /\ b \in Nat /\ c \in Nat /\ c \in a..Len(t)
      /\ b - a \in Nat /\ c - a \in b - a..c - a /\ (c - a) - (b - a) = c - b
  BY LenProperties
<1>2. u \in Seq(S) /\ Len(u) = c - a /\ \A i \in 1..c - a : u[i] = t[a + i]
  BY <1>1, PartOf
<1>3. w \in Seq(S) /\ Len(w) = c - b /\ \A i \in 1..c - b : w[i] = t[b + i]
  BY <1>1, PartOf
<1> HIDE DEF u, w
<1>4. /\ v \in Seq(S) /\ Len(v) = (c - a) - (b - a)
      /\ \A i \in 1..(c - a) - (b - a) : v[i] = u[(b - a) + i]
  BY <1>1, <1>2, PartOf
<1> HIDE DEF v
<1>5. \A i \in 1..c - b : (b - a) + i \in 1..c - a /\ a + ((b - a) + i) = b + i
  BY <1>1
<1>6. \A i \in 1..c - b : v[i] = w[i]
  BY <1>1, <1>2, <1>3, <1>4, <1>5
<1>7. Len(v) = Len(w)
  BY <1>1, <1>3, <1>4
<1>8. v = w
  BY <1>1, <1>3, <1>4, <1>6, <1>7, SeqEqual
<1>. QED  BY <1>8 DEF u, v, w

\* Adjacent parts of a sequence, and one more element at the end of the second.
LEMMA AdjacentParts ==
  ASSUME NEW S, NEW t \in Seq(S), NEW a \in Nat, NEW b \in a..Len(t), NEW c \in b..Len(t)
  PROVE  SubSeq(t, a + 1, b) \o SubSeq(t, b + 1, c) = SubSeq(t, a + 1, c)
<1>1. a + 1 \in 1..Len(t) + 1 /\ b \in (a + 1) - 1..Len(t) /\ c \in b..Len(t)
  BY LenProperties
<1>. QED  BY <1>1, ConcatAdjacentSubSeq

\* Concatenation is associative, as a conclusion a prover recognises.
Associate(a, b, c) == (a \o b) \o c = a \o (b \o c)
LEMMA Associates ==
  ASSUME NEW S, NEW a \in Seq(S), NEW b \in Seq(S), NEW c \in Seq(S)
  PROVE  Associate(a, b, c)
<1>1. (a \o b) \o c = a \o (b \o c)
  BY ConcatAssociative
<1>. QED  BY <1>1 DEF Associate

LEMMA AppendConcat ==
  ASSUME NEW S, NEW s \in Seq(S), NEW t \in Seq(S), NEW x \in S
  PROVE  s \o Append(t, x) = Append(s \o t, x)
<1> DEFINE u == <<x>>
<1>1. u \in Seq(S) /\ s \o t \in Seq(S)
  BY ConcatProperties
<1>2. Append(t, x) = t \o u /\ Append(s \o t, x) = (s \o t) \o u
  BY <1>1, AppendIsConcat
<1> HIDE DEF u
<1>3. Associate(s, t, u)
  BY <1>1, Associates
<1>. QED  BY <1>2, <1>3, Zenon DEF Associate

\* Laid end to end, the one after the other.
LEMMA FlattenConcat ==
  ASSUME NEW S, NEW ss \in Seq(Seq(S)), NEW tt \in Seq(Seq(S))
  PROVE  FlattenSeq(ss \o tt) = FlattenSeq(ss) \o FlattenSeq(tt)
<1> DEFINE P(k) == SubSeq(tt, 1, k)
           T == {k \in Nat : k <= Len(tt) =>
                             FlattenSeq(ss \o P(k)) = FlattenSeq(ss) \o FlattenSeq(P(k))}
<1>0. Len(tt) \in Nat
  BY LenProperties
<1>1. 0 \in T
  <2>1. P(0) = <<>>
    BY SubSeqEmpty
  <2>2. FlattenSeq(ss) \o <<>> = FlattenSeq(ss)
    BY FlattenType, ConcatEmptySeq
  <2>3. ss \o <<>> = ss
    BY ConcatEmptySeq
  <2>. QED  BY <2>1, <2>2, <2>3, FlattenEmpty
<1>2. ASSUME NEW k \in Nat, k \in T PROVE k + 1 \in T
  <2>1. SUFFICES ASSUME k + 1 <= Len(tt)
                 PROVE  FlattenSeq(ss \o P(k + 1)) = FlattenSeq(ss) \o FlattenSeq(P(k + 1))
    OBVIOUS
  <2> DEFINE x == tt[k + 1]
  <2>2. P(k) \in Seq(Seq(S)) /\ x \in Seq(S) /\ P(k + 1) = Append(P(k), x)
    BY <2>1, <1>0, k \in 0..Len(tt), k < Len(tt), PrefixGrows
  <2>3. FlattenSeq(ss \o P(k)) = FlattenSeq(ss) \o FlattenSeq(P(k))
    BY <1>2, <2>1, <1>0
  <2> DEFINE p == P(k)
             q == ss \o p
             a == FlattenSeq(ss)
             b == FlattenSeq(p)
  <2>4. p \in Seq(Seq(S)) /\ x \in Seq(S) /\ P(k + 1) = Append(p, x)
    BY <2>2
  <2>10. FlattenSeq(q) = a \o b
    BY <2>3
  <2> HIDE DEF P, x, p
  <2>5. ss \o Append(p, x) = Append(q, x)
    BY <2>4, AppendConcat
  <2>6. q \in Seq(Seq(S))
    BY <2>4, ConcatProperties, Zenon
  <2>7. a \in Seq(S) /\ b \in Seq(S)
    BY <2>4, FlattenType, Zenon
  <2> HIDE DEF q
  <2>8. FlattenSeq(Append(q, x)) = FlattenSeq(q) \o x
    BY <2>4, <2>6, FlattenAppend, Zenon
  <2>9. FlattenSeq(Append(p, x)) = b \o x
    BY <2>4, FlattenAppend, Zenon
  <2> HIDE DEF a, b
  <2>11. Associate(a, b, x)
    BY <2>4, <2>7, Associates, Zenon
  <2>. QED  BY <2>4, <2>5, <2>8, <2>9, <2>10, <2>11, Zenon DEF a, Associate
<1>3. Len(tt) \in T
  <2> HIDE DEF T
  <2>. QED  BY <1>0, <1>1, <1>2, NatSetInduction
<1>4. P(Len(tt)) = tt
  BY SubSeqFull
<1>5. FlattenSeq(ss \o P(Len(tt))) = FlattenSeq(ss) \o FlattenSeq(P(Len(tt)))
  BY <1>0, <1>3
<1>. QED  BY <1>4, <1>5, Zenon

-----------------------------------------------------------------------------
(* The JSON *)

\* The symbols of an encoded text: none of them ends the string or is of the key.
Codes == Characters \cup {"bs", "n", "u", "hex", "high", "low", "q"}
Symbols == Codes \cup {"quote", "x", "k1", "k2", "newline", "uni", "pair"}

LEMMA CodesAreText == {"quote", "k1", "k2"} \cap Codes = {}
BY StreamAssumption DEF Codes

\* Every character takes one to six symbols, none of which is the quote or of the key.
LEMMA EncodingType ==
  ASSUME NEW c
  PROVE  /\ Len(Encoding(c)) \in 1..6
         /\ c \in Characters => Encoding(c) \in Seq(Codes)
<1>1. /\ Len(<<"bs", "n">>) = 2 /\ Len(<<"bs", "u", "hex">>) = 3
      /\ Len(<<"bs", "u", "high", "bs", "u", "low">>) = 6
      /\ Len(<<"bs", "q">>) = 2 /\ Len(<<c>>) = 1
  OBVIOUS
<1>2. /\ <<"bs", "n">> \in Seq(Codes) /\ <<"bs", "u", "hex">> \in Seq(Codes)
      /\ <<"bs", "u", "high", "bs", "u", "low">> \in Seq(Codes)
      /\ <<"bs", "q">> \in Seq(Codes)
      /\ c \in Characters => <<c>> \in Seq(Codes)
  BY DEF Codes
<1>3. Encoding(c) \in {<<"bs", "n">>, <<"bs", "u", "hex">>, <<"bs", "q">>, <<c>>,
                       <<"bs", "u", "high", "bs", "u", "low">>}
  BY Zenon DEF Encoding
<1>4. CASE Encoding(c) = <<c>>
  BY <1>1, <1>2, <1>4
<1>5. CASE Encoding(c) = <<"bs", "u", "high", "bs", "u", "low">>
  BY <1>1, <1>2, <1>5
<1>6. CASE Encoding(c) = <<"bs", "n">>
  BY <1>1, <1>2, <1>6
<1>7. CASE Encoding(c) = <<"bs", "u", "hex">>
  BY <1>1, <1>2, <1>7
<1>8. CASE Encoding(c) = <<"bs", "q">>
  BY <1>1, <1>2, <1>8
<1>. QED  BY <1>3, <1>4, <1>5, <1>6, <1>7, <1>8, Zenon

\* A character more is its encoding more.
LEMMA EncodedAppend ==
  ASSUME NEW m \in Seq(Characters), NEW c \in Characters
  PROVE  /\ Encoded(m) \in Seq(Codes)
         /\ Encoded(Append(m, c)) = Encoded(m) \o Encoding(c)
<1> DEFINE E(s) == [i \in 1..Len(s) |-> Encoding(s[i])]
           t == Append(m, c)
<1>1. /\ Len(m) \in Nat /\ t \in Seq(Characters) /\ Len(t) = Len(m) + 1
      /\ t[Len(m) + 1] = c /\ \A i \in 1..Len(m) : t[i] = m[i]
  BY LenProperties, AppendProperties
<1>2. ASSUME NEW s \in Seq(Characters)
      PROVE  E(s) \in Seq(Seq(Codes)) /\ Len(E(s)) = Len(s)
  <2>1. Len(s) \in Nat /\ \A i \in 1..Len(s) : Encoding(s[i]) \in Seq(Codes)
    BY LenProperties, ElementOfSeq, EncodingType
  <2>. QED  BY <2>1
<1>3. Encoding(c) \in Seq(Codes)
  BY EncodingType
<1>4. E(t) = Append(E(m), Encoding(c))
  <2> DEFINE u == E(t)
             v == Append(E(m), Encoding(c))
  <2>1. u \in Seq(Seq(Codes)) /\ Len(u) = Len(m) + 1
    BY <1>1, <1>2
  <2>2. /\ v \in Seq(Seq(Codes)) /\ Len(v) = Len(m) + 1 /\ v[Len(m) + 1] = Encoding(c)
        /\ \A i \in 1..Len(m) : v[i] = E(m)[i]
    <3>1. E(m) \in Seq(Seq(Codes)) /\ Len(E(m)) = Len(m)
      BY <1>2
    <3> HIDE DEF E
    <3>. QED  BY <3>1, <1>3, AppendProperties
  <2>3. \A i \in 1..Len(m) + 1 : u[i] = Encoding(t[i])
    BY <1>1
  <2>4. \A i \in 1..Len(m) : E(m)[i] = Encoding(m[i])
    OBVIOUS
  <2> HIDE DEF u, v, E, t
  <2>5. \A i \in 1..Len(m) + 1 : u[i] = v[i]
    <3>1. \A i \in 1..Len(m) + 1 : i = Len(m) + 1 \/ i \in 1..Len(m)
      BY <1>1
    <3>. QED  BY <1>1, <2>2, <2>3, <2>4, <3>1
  <2>6. u = v
    BY <2>1, <2>2, <2>5, SeqEqual
  <2>. QED  BY <2>6 DEF u, v
<1>5. E(m) \in Seq(Seq(Codes))
  BY <1>2
<1>6. Encoded(m) = FlattenSeq(E(m)) /\ Encoded(t) = FlattenSeq(E(t))
  BY DEF Encoded
<1> HIDE DEF E
<1>. QED  BY <1>3, <1>4, <1>5, <1>6, FlattenAppend, FlattenType

\* A message is written in such symbols too.
LEMMA EncodedType ==
  ASSUME NEW m \in Seq(Characters)
  PROVE  Encoded(m) \in Seq(Codes)
<1>1. Len(m) \in Nat /\ \A i \in 1..Len(m) : Encoding(m[i]) \in Seq(Codes)
  BY LenProperties, ElementOfSeq, EncodingType
<1>2. [i \in 1..Len(m) |-> Encoding(m[i])] \in Seq(Seq(Codes))
  BY <1>1
<1>. QED  BY <1>2, FlattenType DEF Encoded

LEMMA EncodedEmpty == Encoded(<<>>) = <<>>
<1>1. [i \in 1..Len(<<>>) |-> Encoding(<<>>[i])] = <<>>
  OBVIOUS
<1>. QED  BY <1>1, FlattenEmpty DEF Encoded

\* Where the characters of a message are in its encoding.
Place(m, k) == Len(Encoded(SubSeq(m, 1, k)))

\* Each character is written after those before it.
LEMMA Places ==
  ASSUME NEW m \in Seq(Characters)
  PROVE  /\ Place(m, 0) = 0 /\ Place(m, Len(m)) = Len(Encoded(m))
         /\ \A k \in 0..Len(m) : Place(m, k) \in Nat
         /\ \A k \in 0..Len(m) : k < Len(m) =>
              /\ m[k + 1] \in Characters
              /\ Place(m, k + 1) = Place(m, k) + Len(Encoding(m[k + 1]))
              /\ Encoded(SubSeq(m, 1, k + 1)) = Encoded(SubSeq(m, 1, k)) \o Encoding(m[k + 1])
<1>1. Place(m, 0) = 0
  <2>1. SubSeq(m, 1, 0) = <<>>
    BY SubSeqEmpty
  <2>. QED  BY <2>1, EncodedEmpty, EmptySeq DEF Place
<1>2. Place(m, Len(m)) = Len(Encoded(m))
  BY SubSeqFull DEF Place
<1>3. ASSUME NEW k \in 0..Len(m)
      PROVE  SubSeq(m, 1, k) \in Seq(Characters) /\ Encoded(SubSeq(m, 1, k)) \in Seq(Codes)
  BY PrefixGrows, EncodedType
<1>4. ASSUME NEW k \in 0..Len(m), k < Len(m)
      PROVE  /\ m[k + 1] \in Characters
             /\ Place(m, k + 1) = Place(m, k) + Len(Encoding(m[k + 1]))
             /\ Encoded(SubSeq(m, 1, k + 1)) = Encoded(SubSeq(m, 1, k)) \o Encoding(m[k + 1])
  <2>1. m[k + 1] \in Characters /\ SubSeq(m, 1, k + 1) = Append(SubSeq(m, 1, k), m[k + 1])
    BY <1>4, PrefixGrows
  <2>2. Encoded(SubSeq(m, 1, k + 1)) = Encoded(SubSeq(m, 1, k)) \o Encoding(m[k + 1])
    BY <2>1, <1>3, EncodedAppend
  <2>3. Encoding(m[k + 1]) \in Seq(Codes)
    BY <2>1, EncodingType
  <2>4. Len(Encoded(SubSeq(m, 1, k)) \o Encoding(m[k + 1]))
        = Len(Encoded(SubSeq(m, 1, k))) + Len(Encoding(m[k + 1]))
    BY <1>3, <2>3, ConcatProperties
  <2>. QED  BY <2>1, <2>2, <2>4 DEF Place
<1>5. \A k \in 0..Len(m) : Place(m, k) \in Nat
  BY <1>3, LenProperties DEF Place
<1>. QED  BY <1>1, <1>2, <1>4, <1>5

\* Places grow with the number of characters.
LEMMA PlacesGrow ==
  ASSUME NEW m \in Seq(Characters), NEW j \in 0..Len(m), NEW k \in 0..Len(m), j < k
  PROVE  Place(m, j) < Place(m, k)
<1> DEFINE T == {d \in Nat : j + 1 + d <= Len(m) => Place(m, j) < Place(m, j + 1 + d)}
<1>0. Len(m) \in Nat
  BY LenProperties
<1>1. \A i \in 0..Len(m) : i < Len(m) => Place(m, i) \in Nat /\ Place(m, i + 1) > Place(m, i)
  <2>1. TAKE i \in 0..Len(m)
  <2>2. HAVE i < Len(m)
  <2>3. Place(m, i) \in Nat /\ Place(m, i + 1) = Place(m, i) + Len(Encoding(m[i + 1]))
    BY <2>2, Places
  <2> DEFINE w == Len(Encoding(m[i + 1]))
  <2>4. w \in 1..6
    BY EncodingType
  <2>5. Place(m, i) \in Nat /\ Place(m, i + 1) = Place(m, i) + w
    BY <2>3
  <2> HIDE DEF w
  <2>. QED  BY <2>4, <2>5
<1>2. 0 \in T
  BY <1>1
<1>3. ASSUME NEW d \in Nat, d \in T PROVE d + 1 \in T
  <2>1. SUFFICES ASSUME j + 1 + (d + 1) <= Len(m)
                 PROVE  Place(m, j) < Place(m, j + 1 + (d + 1))
    OBVIOUS
  <2>2. j + 1 + d \in 0..Len(m) /\ j + 1 + d < Len(m) /\ j + 1 + (d + 1) = (j + 1 + d) + 1
    BY <2>1, <1>0
  <2>3. Place(m, j) < Place(m, j + 1 + d)
    BY <2>2, <1>3
  <2>4. Place(m, j + 1 + d) < Place(m, (j + 1 + d) + 1)
    BY <2>2, <1>1
  <2>5. \A i \in 0..Len(m) : Place(m, i) \in Nat
    BY Places
  <2>6. (j + 1 + d) + 1 \in 0..Len(m)
    BY <2>1, <1>0
  <2>. QED  BY <2>2, <2>3, <2>4, <2>5, <2>6
<1>4. k - (j + 1) \in T
  <2> HIDE DEF T
  <2>. QED  BY <1>0, <1>2, <1>3, NatSetInduction
<1>. QED  BY <1>0, <1>4, j + 1 + (k - (j + 1)) = k

\* Where a character is written, the encoding has its symbols.
LEMMA EncodedAt ==
  ASSUME NEW m \in Seq(Characters), NEW k \in 0..Len(m), k < Len(m)
  PROVE  \A i \in 1..Len(Encoding(m[k + 1])) :
           Encoded(m)[Place(m, k) + i] = Encoding(m[k + 1])[i]
<1> DEFINE E(l) == Encoded(SubSeq(m, 1, l))
           w == Len(Encoding(m[k + 1]))
<1>0. Len(m) \in Nat
  BY LenProperties
<1>1. ASSUME NEW l \in 0..Len(m)
      PROVE  E(l) \in Seq(Codes) /\ Place(m, l) = Len(E(l)) /\ Place(m, l) \in Nat
  <2>1. SubSeq(m, 1, l) \in Seq(Characters)
    BY PrefixGrows
  <2>. QED  BY <2>1, EncodedType, Places DEF Place
<1>2. /\ w \in 1..6 /\ Encoding(m[k + 1]) \in Seq(Codes)
      /\ Place(m, k + 1) = Place(m, k) + w
  BY Places, EncodingType
<1>3. ASSUME NEW l \in 0..Len(m), l < Len(m)
      PROVE  /\ \A p \in 1..Place(m, l) : E(l + 1)[p] = E(l)[p]
             /\ \A p \in 1..Len(Encoding(m[l + 1])) :
                  E(l + 1)[Place(m, l) + p] = Encoding(m[l + 1])[p]
  <2> DEFINE e == Encoding(m[l + 1])
  <2>1. E(l) \in Seq(Codes) /\ e \in Seq(Codes) /\ E(l + 1) = E(l) \o e /\ Place(m, l) = Len(E(l))
    BY <1>1, <1>3, Places, EncodingType
  <2> HIDE DEF e, E
  <2>2. /\ \A p \in 1..Len(E(l)) : (E(l) \o e)[p] = E(l)[p]
        /\ \A p \in 1..Len(e) : (E(l) \o e)[Len(E(l)) + p] = e[p]
    BY <2>1, ConcatAt
  <2>. QED  BY <2>1, <2>2 DEF e
<1> DEFINE T == {d \in Nat : k + 1 + d <= Len(m) =>
                   \A i \in 1..w : E(k + 1 + d)[Place(m, k) + i] = Encoding(m[k + 1])[i]}
<1>4. 0 \in T
  BY <1>3
<1>5. ASSUME NEW d \in Nat, d \in T PROVE d + 1 \in T
  <2>1. SUFFICES ASSUME k + 1 + (d + 1) <= Len(m), NEW i \in 1..w
                 PROVE  E(k + 1 + (d + 1))[Place(m, k) + i] = Encoding(m[k + 1])[i]
    OBVIOUS
  <2>2. /\ k + 1 + d \in 0..Len(m) /\ k + 1 + d < Len(m) /\ k + 1 + (d + 1) = (k + 1 + d) + 1
        /\ k + 1 \in 0..Len(m)
    BY <2>1, <1>0
  <2>3. Place(m, k + 1) <= Place(m, k + 1 + d)
    <3>1. CASE d = 0
      BY <3>1, <2>2, <1>1
    <3>2. CASE d # 0
      <4>1. k + 1 < k + 1 + d
        BY <3>2
      <4>2. Place(m, k + 1) < Place(m, k + 1 + d)
        BY <4>1, <2>2, PlacesGrow
      <4>. QED  BY <4>2, <2>2, <1>1
    <3>. QED  BY <3>1, <3>2
  <2>4. Place(m, k) + i \in 1..Place(m, k + 1 + d)
    BY <2>2, <2>3, <1>1, <1>2
  <2>5. E((k + 1 + d) + 1)[Place(m, k) + i] = E(k + 1 + d)[Place(m, k) + i]
    BY <2>2, <2>4, <1>3
  <2>6. E(k + 1 + d)[Place(m, k) + i] = Encoding(m[k + 1])[i]
    BY <2>2, <1>5
  <2>. QED  BY <2>2, <2>5, <2>6
<1>6. Len(m) - (k + 1) \in T
  <2> HIDE DEF T
  <2>. QED  BY <1>0, <1>4, <1>5, NatSetInduction
<1>7. k + 1 + (Len(m) - (k + 1)) = Len(m)
  BY <1>0
<1>8. \A i \in 1..w : E(Len(m))[Place(m, k) + i] = Encoding(m[k + 1])[i]
  BY <1>0, <1>6, <1>7
<1>9. E(Len(m)) = Encoded(m)
  BY SubSeqFull
<1>. QED  BY <1>8, <1>9

\* In the JSON, the message begins after the key.
At(m, k) == 3 + Place(m, k)

\* The JSON: the key, the message at its places, the closing quote.
LEMMA JsonIs ==
  ASSUME NEW m \in Seq(Characters)
  PROVE  /\ Json(m) \in Seq(Symbols) /\ Len(Json(m)) = At(m, Len(m)) + 2
         /\ Json(m)[1] = "x" /\ Json(m)[2] = "k1" /\ Json(m)[3] = "k2"
         /\ Json(m)[At(m, Len(m)) + 1] = "quote" /\ Json(m)[At(m, Len(m)) + 2] = "x"
         /\ \A i \in 1..Place(m, Len(m)) : Json(m)[3 + i] = Encoded(m)[i] /\ Json(m)[3 + i] \in Codes
<1> DEFINE p == Prelude
           e == Encoded(m)
           q == <<"quote", "x">>
<1>1. /\ p \in Seq(Symbols) /\ Len(p) = 3 /\ p[1] = "x" /\ p[2] = "k1" /\ p[3] = "k2"
      /\ q \in Seq(Symbols) /\ Len(q) = 2 /\ q[1] = "quote" /\ q[2] = "x"
  BY DEF Symbols, Prelude
<1>2. e \in Seq(Codes) /\ e \in Seq(Symbols) /\ Place(m, Len(m)) = Len(e) /\ Len(e) \in Nat
  <2>1. e \in Seq(Codes)
    BY EncodedType
  <2>2. Codes \subseteq Symbols
    BY DEF Symbols
  <2>. QED  BY <2>1, <2>2, SeqMonotonic, Places, LenProperties
<1>3. Json(m) = (p \o e) \o q
  BY DEF Json
<1> HIDE DEF p, e, q
<1> DEFINE h == p \o e
<1>4. /\ h \in Seq(Symbols) /\ Len(h) = 3 + Len(e)
      /\ \A i \in 1..3 : h[i] = p[i]
      /\ \A i \in 1..Len(e) : h[3 + i] = e[i]
  <2>1. p \in Seq(Symbols) /\ e \in Seq(Symbols)
    BY <1>1, <1>2
  <2>2. /\ h \in Seq(Symbols) /\ Len(h) = Len(p) + Len(e)
        /\ \A i \in 1..Len(p) : h[i] = p[i]
        /\ \A i \in 1..Len(e) : h[Len(p) + i] = e[i]
    BY <2>1, ConcatAt
  <2> HIDE DEF h
  <2>. QED  BY <1>1, <2>2
<1>5. Json(m) = h \o q
  BY <1>3
<1> HIDE DEF h
<1> DEFINE J == h \o q
<1>6. /\ J \in Seq(Symbols) /\ Len(J) = Len(h) + Len(q)
      /\ \A i \in 1..Len(h) : J[i] = h[i]
      /\ \A i \in 1..Len(q) : J[Len(h) + i] = q[i]
  <2>1. h \in Seq(Symbols) /\ q \in Seq(Symbols)
    BY <1>1, <1>4
  <2>. QED  BY <2>1, ConcatAt
<1> HIDE DEF J
<1>7. /\ J[1] = "x" /\ J[2] = "k1" /\ J[3] = "k2"
  BY <1>1, <1>2, <1>4, <1>6
<1>8. J[(3 + Len(e)) + 1] = "quote" /\ J[(3 + Len(e)) + 2] = "x"
  BY <1>1, <1>4, <1>6
<1>9. ASSUME NEW i \in 1..Len(e) PROVE J[3 + i] = e[i] /\ e[i] \in Codes
  <2>1. 3 + i \in 1..Len(h)
    BY <1>2, <1>4
  <2>2. e[i] \in Codes
    BY <1>2, ElementOfSeq
  <2>. QED  BY <2>1, <2>2, <1>4, <1>6
<1>10. Len(J) = (3 + Len(e)) + 2
  BY <1>1, <1>2, <1>4, <1>6
<1>11. Json(m) = J
  BY <1>5 DEF J
<1>. QED  BY <1>2, <1>6, <1>7, <1>8, <1>9, <1>10, <1>11 DEF At, e

-----------------------------------------------------------------------------
(* The parser *)

\* What there is of a character, written in w symbols, at place i of the text v: its
\* width once it is whole, 0 before; and what it is decoded to, unless it is no escape.
WrittenAt(v, i, c, w) ==
  \A p \in 1..w : i + p - 1 <= Len(v) => v[i + p - 1] = Encoding(c)[p]
ReadAt(v, i, c, w) ==
  /\ v[i] # "quote"
  /\ i + w - 1 > Len(v) => Width(v, i) = 0
  /\ i + w - 1 <= Len(v) => /\ Width(v, i) = w
                            /\ ~(v[i] = "bs" /\ v[i + 1] = "q") => Decoded(v, i) = c

LEMMA CharacterAt ==
  ASSUME NEW v \in Seq(Symbols), NEW i \in 1..Len(v), NEW c \in Characters,
         NEW w, w = Len(Encoding(c)), WrittenAt(v, i, c, w)
  PROVE  ReadAt(v, i, c, w)
<1> USE DEF WrittenAt, ReadAt
<1>0. Len(v) \in Nat
  BY LenProperties
<1>1. CASE c \notin {"newline", "uni", "pair", "junk"}
  <2>1. Len(Encoding(c)) = 1 /\ Encoding(c)[1] = c
    BY <1>1 DEF Encoding
  <2>2. v[i] = c /\ c # "bs" /\ c # "quote"
    BY <2>1, <1>0, StreamAssumption
  <2>. QED  BY <2>1, <2>2, <1>0 DEF Width, Decoded
<1>2. CASE c = "newline"
  <2>1. Len(Encoding(c)) = 2 /\ Encoding(c)[1] = "bs" /\ Encoding(c)[2] = "n"
    BY <1>2 DEF Encoding
  <2>2. v[i] = "bs" /\ (i + 1 <= Len(v) => v[i + 1] = "n")
    BY <2>1, <1>0
  <2>. QED  BY <2>1, <2>2, <1>0, <1>2 DEF Width, Decoded
<1>3. CASE c = "junk"
  <2>1. Len(Encoding(c)) = 2 /\ Encoding(c)[1] = "bs" /\ Encoding(c)[2] = "q"
    BY <1>3 DEF Encoding
  <2>2. v[i] = "bs" /\ (i + 1 <= Len(v) => v[i + 1] = "q")
    BY <2>1, <1>0
  <2>. QED  BY <2>1, <2>2, <1>0, <1>3 DEF Width, Decoded
<1>4. CASE c = "uni"
  <2>1. /\ Len(Encoding(c)) = 3
        /\ Encoding(c)[1] = "bs" /\ Encoding(c)[2] = "u" /\ Encoding(c)[3] = "hex"
    BY <1>4 DEF Encoding
  <2>2. /\ v[i] = "bs" /\ (i + 1 <= Len(v) => v[i + 1] = "u")
        /\ (i + 2 <= Len(v) => v[i + 2] = "hex")
    BY <2>1, <1>0
  <2>. QED  BY <2>1, <2>2, <1>0, <1>4 DEF Width, Decoded
<1>5. CASE c = "pair"
  <2>1. /\ Len(Encoding(c)) = 6
        /\ Encoding(c)[1] = "bs" /\ Encoding(c)[2] = "u" /\ Encoding(c)[3] = "high"
    BY <1>5 DEF Encoding
  <2>2. /\ v[i] = "bs" /\ (i + 1 <= Len(v) => v[i + 1] = "u")
        /\ (i + 2 <= Len(v) => v[i + 2] = "high")
    BY <2>1, <1>0
  <2>. QED  BY <2>1, <2>2, <1>0, <1>5 DEF Width, Decoded
<1>. QED  BY <1>1, <1>2, <1>3, <1>4, <1>5

\* No character is wider than the text.
LEMMA WidthFits ==
  ASSUME NEW v \in Seq(Symbols), NEW i \in 1..Len(v)
  PROVE  Width(v, i) \in Nat /\ i + Width(v, i) <= Len(v) + 1
<1>1. Len(v) \in Nat
  BY LenProperties
<1>. QED  BY <1>1 DEF Width

\* What Drain computes at place i, by the function f of the places after it.
DrainAt(f, v, i) ==
  IF i > Len(v) THEN [out |-> <<>>, rest |-> <<>>, end |-> "open"]
  ELSE IF v[i] = "quote" THEN [out |-> <<>>, rest |-> <<>>, end |-> "quote"]
  ELSE IF Width(v, i) = 0 THEN [out |-> <<>>, rest |-> Kept(v, i), end |-> "open"]
  ELSE IF v[i] = "bs" /\ v[i + 1] = "q" THEN [out |-> <<>>, rest |-> <<>>, end |-> "error"]
  ELSE LET r == f[i + Width(v, i)]
       IN  [r EXCEPT !.out = <<Decoded(v, i)>> \o @]

\* The recursive function of Drain exists: it is built up from the end of the text.
LEMMA DrainSteps ==
  ASSUME NEW v \in Seq(Symbols)
  PROVE  \E f : f[1] = Drain(v) /\ \A i \in 1..Len(v) + 1 : f[i] = DrainAt(f, v, i)
<1>0. Len(v) \in Nat
  BY LenProperties
<1>1. ASSUME NEW f, NEW g, NEW i \in 1..Len(v) + 1,
             \A j \in i + 1..Len(v) + 1 : f[j] = g[j]
      PROVE  DrainAt(f, v, i) = DrainAt(g, v, i)
  <2>1. CASE i = Len(v) + 1
    BY <2>1, <1>0 DEF DrainAt
  <2>2. CASE i \in 1..Len(v) /\ Width(v, i) = 0
    BY <2>2, Zenon DEF DrainAt
  <2>3. CASE i \in 1..Len(v) /\ Width(v, i) # 0
    <3>1. i + Width(v, i) \in i + 1..Len(v) + 1
      BY <2>3, <1>0, WidthFits
    <3>2. f[i + Width(v, i)] = g[i + Width(v, i)]
      BY <3>1, <1>1
    <3>. QED  BY <3>2, Zenon DEF DrainAt
  <2>. QED  BY <2>1, <2>2, <2>3, <1>0
<1> DEFINE Steps(g, k) == g = [i \in Len(v) + 1 - k..Len(v) + 1 |-> DrainAt(g, v, i)]
           T == {k \in Nat : k <= Len(v) => \E g : Steps(g, k)}
<1>2. 0 \in T
  <2> DEFINE g == [i \in Len(v) + 1 - 0..Len(v) + 1 |-> DrainAt(<<>>, v, i)]
  <2>1. \A i \in Len(v) + 1 - 0..Len(v) + 1 : DrainAt(<<>>, v, i) = DrainAt(g, v, i)
    <3>1. TAKE i \in Len(v) + 1 - 0..Len(v) + 1
    <3>2. i \in 1..Len(v) + 1 /\ \A j \in i + 1..Len(v) + 1 : FALSE
      BY <1>0
    <3> HIDE DEF g
    <3>. QED  BY <3>2, <1>1
  <2>2. Steps(g, 0)
    BY <2>1, Zenon
  <2> HIDE DEF g
  <2>. QED  BY <2>2, 0 \in Nat, Zenon
<1>3. ASSUME NEW k \in Nat, k \in T PROVE k + 1 \in T
  <2>1. SUFFICES ASSUME k + 1 <= Len(v) PROVE \E h : Steps(h, k + 1)
    OBVIOUS
  <2>2. PICK g : Steps(g, k)
    BY <2>1, <1>0, <1>3
  <2> DEFINE D == Len(v) + 1 - (k + 1)..Len(v) + 1
             h == [i \in D |-> DrainAt(g, v, i)]
  <2>3. \A i \in Len(v) + 1 - k..Len(v) + 1 : g[i] = DrainAt(g, v, i) /\ i \in D
    <3>1. \A i \in Len(v) + 1 - k..Len(v) + 1 : g[i] = DrainAt(g, v, i)
      BY <2>2
    <3>2. \A i \in Len(v) + 1 - k..Len(v) + 1 : i \in D
      BY <1>0
    <3>. QED  BY <3>1, <3>2
  <2>4. \A i \in Len(v) + 1 - k..Len(v) + 1 : h[i] = g[i]
    BY <2>3
  <2>5. \A i \in D : DrainAt(g, v, i) = DrainAt(h, v, i)
    <3>1. TAKE i \in D
    <3>2. /\ i \in 1..Len(v) + 1
          /\ \A j \in i + 1..Len(v) + 1 : j \in Len(v) + 1 - k..Len(v) + 1
      BY <2>1, <1>0
    <3> HIDE DEF h
    <3>. QED  BY <3>2, <2>4, <1>1
  <2>6. Steps(h, k + 1)
    BY <2>5, Zenon
  <2> HIDE DEF h
  <2>. QED  BY <2>6, Zenon
<1>4. \E g : Steps(g, Len(v))
  <2>1. Len(v) \in T
    <3> HIDE DEF T
    <3>. QED  BY <1>0, <1>2, <1>3, NatSetInduction
  <2>. QED  BY <2>1, <1>0
<1>5. \E g : g = [i \in 1..Len(v) + 1 |-> DrainAt(g, v, i)]
  BY <1>0, <1>4, Len(v) + 1 - Len(v) = 1
<1>6. PICK g : g = [i \in 1..Len(v) + 1 |-> DrainAt(g, v, i)] /\ Drain(v) = g[1]
  BY <1>5, Zenon DEF Drain, DrainAt
<1>. QED  BY <1>6

\* The symbols of the JSON at a character of the message.
LEMMA JsonCharacter ==
  ASSUME NEW m \in Seq(Characters), NEW k \in 0..Len(m), k < Len(m)
  PROVE  /\ m[k + 1] \in Characters /\ Len(Encoding(m[k + 1])) \in 1..6
         /\ At(m, k) \in Nat /\ At(m, k + 1) = At(m, k) + Len(Encoding(m[k + 1]))
         /\ \A p \in 1..Len(Encoding(m[k + 1])) :
              Json(m)[At(m, k) + p] = Encoding(m[k + 1])[p]
<1> DEFINE w == Len(Encoding(m[k + 1]))
<1>1. /\ m[k + 1] \in Characters /\ w \in 1..6 /\ Place(m, k) \in Nat
      /\ Place(m, k + 1) = Place(m, k) + w /\ Place(m, k + 1) <= Place(m, Len(m))
  <2>1. m[k + 1] \in Characters /\ Place(m, k) \in Nat /\ Place(m, k + 1) = Place(m, k) + w
    BY Places
  <2>2. w \in 1..6
    BY EncodingType
  <2>3. k + 1 \in 0..Len(m) /\ Len(m) \in 0..Len(m) /\ Len(m) \in Nat
    BY LenProperties
  <2>4. Place(m, k + 1) \in Nat /\ Place(m, Len(m)) \in Nat
    BY <2>3, Places
  <2>5. k + 1 < Len(m) => Place(m, k + 1) < Place(m, Len(m))
    BY <2>3, PlacesGrow
  <2>6. k + 1 = Len(m) \/ k + 1 < Len(m)
    BY <2>3
  <2> HIDE DEF w
  <2>. QED  BY <2>1, <2>2, <2>4, <2>5, <2>6
<1>2. \A p \in 1..w : Encoded(m)[Place(m, k) + p] = Encoding(m[k + 1])[p]
  BY EncodedAt
<1> HIDE DEF w
<1>3. ASSUME NEW p \in 1..w
      PROVE  Json(m)[At(m, k) + p] = Encoding(m[k + 1])[p]
  <2>1. Place(m, k) + p \in 1..Place(m, Len(m))
    <3>1. \A q \in {Len(m)} : Place(m, q) \in Nat
      BY Places, LenProperties
    <3>. QED  BY <1>1, <3>1
  <2>2. Json(m)[3 + (Place(m, k) + p)] = Encoded(m)[Place(m, k) + p]
    BY <2>1, JsonIs
  <2>3. 3 + (Place(m, k) + p) = At(m, k) + p
    BY <1>1 DEF At
  <2>. QED  BY <2>2, <2>3, <1>2
<1>. QED  BY <1>1, <1>3 DEF At, w

\* The order of the places in the JSON.
LEMMA AtGrows ==
  ASSUME NEW m \in Seq(Characters), NEW j \in 0..Len(m), NEW k \in 0..Len(m)
  PROVE  /\ At(m, j) \in Nat /\ At(m, j) >= 3 /\ At(m, 0) = 3
         /\ j < k => At(m, j) < At(m, k)
         /\ j <= k => At(m, j) <= At(m, k)
<1>1. Place(m, j) \in Nat /\ Place(m, k) \in Nat /\ Place(m, 0) = 0
  BY Places
<1>2. j < k => Place(m, j) < Place(m, k)
  BY PlacesGrow
<1>3. j <= k => j = k \/ j < k
  OBVIOUS
<1>. QED  BY <1>1, <1>2, <1>3 DEF At

\* A part of the JSON from a character on.
LEMMA PartOfJson ==
  ASSUME NEW m \in Seq(Characters), NEW a \in Nat, NEW s \in a..Len(Json(m))
  PROVE  /\ SubSeq(Json(m), a + 1, s) \in Seq(Symbols)
         /\ Len(SubSeq(Json(m), a + 1, s)) = s - a
         /\ \A i \in 1..s - a : SubSeq(Json(m), a + 1, s)[i] = Json(m)[a + i]
BY JsonIs, PartOf

\* A text with characters at the places pl[j], pl[j + 1], ... pl[l] is decoded to them,
\* and then to what Drain makes of the place pl[l]; or one of them is no escape.
CharactersAt(v, m, j, l, pl) ==
  /\ pl[j] = 1 /\ pl[l] \in 1..Len(v) + 1
  /\ \A k \in j..l : k < l =>
       /\ pl[k] \in 1..Len(v) /\ v[pl[k]] # "quote" /\ Width(v, pl[k]) # 0
       /\ pl[k] + Width(v, pl[k]) = pl[k + 1]
       /\ ~(v[pl[k]] = "bs" /\ v[pl[k] + 1] = "q") => Decoded(v, pl[k]) = m[k + 1]
Decodes(v, m, j, l, rest, end) ==
  \/ \E o : Drain(v) = [out |-> o, rest |-> <<>>, end |-> "error"]
  \/ Drain(v) = [out |-> SubSeq(m, j + 1, l), rest |-> rest, end |-> end]

LEMMA DrainCharacters ==
  ASSUME NEW v \in Seq(Symbols), NEW m \in Seq(Characters),
         NEW j \in 0..Len(m), NEW l \in j..Len(m), NEW pl, CharactersAt(v, m, j, l, pl),
         NEW rest, NEW end,
         \A f : DrainAt(f, v, pl[l]) = [out |-> <<>>, rest |-> rest, end |-> end]
  PROVE  Decodes(v, m, j, l, rest, end)
<1> USE DEF CharactersAt
<1>0. /\ Len(m) \in Nat /\ Len(v) \in Nat /\ j \in Nat /\ l \in Nat /\ j <= l /\ l <= Len(m)
  BY LenProperties
<1>1. PICK f : f[1] = Drain(v) /\ \A i \in 1..Len(v) + 1 : f[i] = DrainAt(f, v, i)
  BY DrainSteps
<1> DEFINE Failed(r) == \E o : r = [out |-> o, rest |-> <<>>, end |-> "error"]
           Done(k, r) == r = [out |-> SubSeq(m, k + 1, l), rest |-> rest, end |-> end]
           EndsAt(k) == Failed(f[pl[k]]) \/ Done(k, f[pl[k]])
<1>2. EndsAt(l)
  <2>1. SubSeq(m, l + 1, l) = <<>>
    BY <1>0, SubSeqEmpty
  <2>2. f[pl[l]] = [out |-> <<>>, rest |-> rest, end |-> end]
    BY <1>1
  <2>. QED  BY <2>1, <2>2
<1>3. ASSUME NEW k \in j..l, k < l, EndsAt(k + 1)
      PROVE  EndsAt(k)
  <2> DEFINE r == f[pl[k + 1]]
             i == pl[k]
  <2>1. /\ i \in 1..Len(v) /\ v[i] # "quote" /\ Width(v, i) # 0
        /\ i + Width(v, i) = pl[k + 1]
        /\ ~(v[i] = "bs" /\ v[i + 1] = "q") => Decoded(v, i) = m[k + 1]
    BY <1>3
  <2>2. f[i] = DrainAt(f, v, i) /\ ~(i > Len(v))
    BY <2>1, <1>0, <1>1
  <2> HIDE DEF i
  <2>3. CASE v[i] = "bs" /\ v[i + 1] = "q"
    <3>1. f[i] = [out |-> <<>>, rest |-> <<>>, end |-> "error"]
      BY <2>1, <2>2, <2>3, Zenon DEF DrainAt
    <3>. QED  BY <3>1 DEF i
  <2>4. CASE ~(v[i] = "bs" /\ v[i + 1] = "q")
    <3>1. f[i] = [r EXCEPT !.out = <<m[k + 1]>> \o @]
      BY <2>1, <2>2, <2>4, Zenon DEF DrainAt
    <3>2. SubSeq(m, k + 1, l) = <<m[k + 1]>> \o SubSeq(m, (k + 1) + 1, l)
      <4>1. k + 1 \in 1..Len(m) /\ l \in k + 1..Len(m)
        BY <1>0, <1>3
      <4>. QED  BY <4>1, SubSeqRecursiveFirst
    <3> HIDE DEF r
    <3>3. ASSUME Failed(r) PROVE Failed(f[i])
      <4>1. PICK o : r = [out |-> o, rest |-> <<>>, end |-> "error"]
        BY <3>3
      <4>2. f[i] = [out |-> <<m[k + 1]>> \o o, rest |-> <<>>, end |-> "error"]
        BY <3>1, <4>1
      <4>. QED  BY <4>2, Zenon
    <3>4. ASSUME Done(k + 1, r) PROVE Done(k, f[i])
      <4> DEFINE t == SubSeq(m, (k + 1) + 1, l)
                 c == m[k + 1]
      <4>1. r = [out |-> t, rest |-> rest, end |-> end] /\ f[i] = [r EXCEPT !.out = <<c>> \o @]
        BY <3>1, <3>4
      <4>2. SubSeq(m, k + 1, l) = <<c>> \o t
        BY <3>2
      <4> HIDE DEF t, c
      <4>3. f[i] = [out |-> <<c>> \o t, rest |-> rest, end |-> end]
        BY <4>1
      <4>. QED  BY <4>2, <4>3, Zenon
    <3>5. Failed(r) \/ Done(k + 1, r)
      BY <1>3 DEF r
    <3> HIDE DEF Failed, Done
    <3>6. Failed(f[i]) \/ Done(k, f[i])
      BY <3>3, <3>4, <3>5
    <3>. QED  BY <3>6 DEF i
  <2>. QED  BY <2>3, <2>4
<1> HIDE DEF EndsAt
<1> DEFINE T == {d \in Nat : d <= l - j => EndsAt(l - d)}
<1>4. 0 \in T
  BY <1>2, <1>0, l - 0 = l
<1>5. ASSUME NEW d \in Nat, d \in T PROVE d + 1 \in T
  <2>1. SUFFICES ASSUME d + 1 <= l - j PROVE EndsAt(l - (d + 1))
    OBVIOUS
  <2>2. /\ l - (d + 1) \in j..l /\ l - (d + 1) < l /\ (l - (d + 1)) + 1 = l - d /\ d <= l - j
    BY <2>1, <1>0
  <2>3. EndsAt((l - (d + 1)) + 1)
    BY <2>2, <1>5
  <2>. QED  BY <2>2, <2>3, <1>3
<1>6. l - j \in T
  <2> HIDE DEF T
  <2>1. l - j \in Nat
    BY <1>0
  <2>. QED  BY <2>1, <1>4, <1>5, NatSetInduction
<1>7. EndsAt(j)
  BY <1>0, <1>6, l - (l - j) = j
<1>. QED  BY <1>1, <1>7, Zenon DEF EndsAt, Decodes

\* What is left of the JSON up to s when l characters were decoded, and whether the
\* string ended.
Undecoded(m, l, s) == IF l < Len(m) THEN SubSeq(Json(m), At(m, l) + 1, s) ELSE <<>>
Ending(m, l, s) == IF l = Len(m) /\ s > At(m, l) THEN "quote" ELSE "open"

\* A place b of the JSON, and what is written there in w symbols, in the part of it
\* from a on up to s.
LEMMA PlaceInPart ==
  ASSUME NEW a \in Nat, NEW b \in Nat, NEW s \in Nat, NEW w \in 1..6, a <= b, b < s
  PROVE  /\ b - a + 1 \in 1..s - a /\ (b - a + 1) + w = (b + w) - a + 1
         /\ (b - a + 1) + w - 1 > s - a <=> s < b + w
         /\ \A p \in 1..w : (b - a + 1) + p - 1 <= s - a =>
              (b - a + 1) + p - 1 \in 1..s - a /\ a + ((b - a + 1) + p - 1) = b + p
OBVIOUS

\* A character of the message that begins in the part of the JSON from a on up to s.
CharacterRead(m, a, s, k, v, i) ==
  /\ i \in 1..Len(v) /\ v[i] # "quote"
  /\ s < At(m, k + 1) => Width(v, i) = 0
  /\ s >= At(m, k + 1) =>
       /\ Width(v, i) # 0 /\ i + Width(v, i) = At(m, k + 1) - a + 1
       /\ ~(v[i] = "bs" /\ v[i + 1] = "q") => Decoded(v, i) = m[k + 1]

LEMMA CharacterInPart ==
  ASSUME NEW m \in Seq(Characters), NEW a \in Nat, NEW s \in a..Len(Json(m)),
         NEW k \in 0..Len(m), k < Len(m), a <= At(m, k), At(m, k) < s,
         NEW v, v = SubSeq(Json(m), a + 1, s), NEW i, i = At(m, k) - a + 1
  PROVE  CharacterRead(m, a, s, k, v, i)
<1> DEFINE c == m[k + 1]
           w == Len(Encoding(c))
           b == At(m, k)
           d == At(m, k + 1)
<1>1. v \in Seq(Symbols) /\ Len(v) = s - a /\ \A p \in 1..s - a : v[p] = Json(m)[a + p]
  BY PartOfJson
<1>2. /\ c \in Characters /\ w \in 1..6 /\ b \in Nat /\ d = b + w
      /\ \A p \in 1..w : Json(m)[b + p] = Encoding(c)[p]
  BY JsonCharacter
<1>3. s \in Nat
  BY JsonIs, LenProperties
<1>4. a <= b /\ b < s /\ i = b - a + 1
  OBVIOUS
<1> HIDE DEF w, b, d, c
<1>5. /\ i \in 1..s - a /\ i + w = d - a + 1
      /\ i + w - 1 > s - a <=> s < d
      /\ \A p \in 1..w : i + p - 1 <= s - a => i + p - 1 \in 1..s - a /\ a + (i + p - 1) = b + p
  <2>1. /\ b - a + 1 \in 1..s - a /\ (b - a + 1) + w = (b + w) - a + 1
        /\ (b - a + 1) + w - 1 > s - a <=> s < b + w
        /\ \A p \in 1..w : (b - a + 1) + p - 1 <= s - a =>
              (b - a + 1) + p - 1 \in 1..s - a /\ a + ((b - a + 1) + p - 1) = b + p
    BY <1>2, <1>3, <1>4, PlaceInPart
  <2>2. d = b + w /\ i = b - a + 1
    BY <1>2, <1>4
  <2>. QED  BY <2>1, <2>2, Zenon
<1>6. ASSUME NEW p \in 1..w, i + p - 1 <= Len(v)
      PROVE  v[i + p - 1] = Encoding(c)[p]
  <2>1. i + p - 1 \in 1..s - a /\ a + (i + p - 1) = b + p
    BY <1>1, <1>5, <1>6
  <2>. QED  BY <2>1, <1>1, <1>2
<1>7. i \in 1..Len(v)
  BY <1>1, <1>5
<1>8. /\ v[i] # "quote"
      /\ i + w - 1 > Len(v) => Width(v, i) = 0
      /\ i + w - 1 <= Len(v) => /\ Width(v, i) = w
                                /\ ~(v[i] = "bs" /\ v[i + 1] = "q") => Decoded(v, i) = c
  <2>1. WrittenAt(v, i, c, w)
    BY <1>6, Zenon DEF WrittenAt
  <2>2. w = Len(Encoding(c))
    BY DEF w
  <2>3. ReadAt(v, i, c, w)
    BY <1>1, <1>2, <1>7, <2>1, <2>2, CharacterAt
  <2>. QED  BY <2>3, Zenon DEF ReadAt
<1>9. s >= d => i + w - 1 <= Len(v)
  BY <1>1, <1>2, <1>3, <1>5
<1>10. s < d => i + w - 1 > Len(v)
  BY <1>1, <1>5
<1>11. w # 0
  BY <1>2
<1>. QED  BY <1>5, <1>7, <1>8, <1>9, <1>10, <1>11 DEF c, d, CharacterRead

\* Where the decoding of that part stops: at its end, at the quote, or at a character
\* that is not whole.
StopsAt(m, s, l, v, i) ==
  /\ i \in 1..Len(v) + 1
  /\ \A f : DrainAt(f, v, i) = [out |-> <<>>, rest |-> Undecoded(m, l, s),
                                end |-> Ending(m, l, s)]

\* The last character is not whole: the parser keeps what there is of it; or there is
\* none, and it stops at the closing quote or at the end of what arrived.
LEMMA DrainStops ==
  ASSUME NEW m \in Seq(Characters), NEW a \in Nat, NEW s \in a..Len(Json(m)),
         NEW l \in 0..Len(m), a <= At(m, l), At(m, l) <= s, l < Len(m) => s < At(m, l + 1),
         NEW v, v = SubSeq(Json(m), a + 1, s), NEW i, i = At(m, l) - a + 1
  PROVE  StopsAt(m, s, l, v, i)
<1>1. /\ v \in Seq(Symbols) /\ Len(v) = s - a /\ \A p \in 1..s - a : v[p] = Json(m)[a + p]
  BY PartOfJson
<1>2. Json(m) \in Seq(Symbols) /\ Len(Json(m)) \in Nat /\ Len(m) \in Nat
  BY JsonIs, LenProperties
<1>3. At(m, l) \in Nat /\ s \in Nat
  BY <1>2, AtGrows
<1> DEFINE b == At(m, l)
<1>4. b \in Nat /\ a <= b /\ b <= s /\ i = b - a + 1
  BY <1>3
<1> HIDE DEF b
<1>5. i \in 1..Len(v) + 1
  BY <1>1, <1>3, <1>4
<1>6. CASE b = s
  <2>1. i > Len(v) /\ ~(s > b)
    BY <1>1, <1>3, <1>4, <1>6
  <2>2. \A f : DrainAt(f, v, i) = [out |-> <<>>, rest |-> <<>>, end |-> "open"]
    BY <2>1, Zenon DEF DrainAt
  <2>3. Ending(m, l, s) = "open"
    BY <2>1 DEF Ending, b
  <2>4. SubSeq(Json(m), b + 1, s) = <<>>
    BY <1>2, <1>3, <1>4, <1>6, SubSeqEmpty
  <2>5. Undecoded(m, l, s) = <<>>
    BY <2>4 DEF Undecoded, b
  <2>. QED  BY <1>5, <2>2, <2>3, <2>5, Zenon DEF StopsAt
<1>7. CASE b < s /\ l = Len(m)
  <2>1. i \in 1..s - a /\ a + i = b + 1 /\ ~(i > Len(v))
    BY <1>1, <1>3, <1>4, <1>7
  <2>2. v[i] = Json(m)[b + 1]
    BY <2>1, <1>1
  <2>3. Json(m)[b + 1] = "quote"
    BY <1>7, JsonIs DEF b
  <2>4. \A f : DrainAt(f, v, i) = [out |-> <<>>, rest |-> <<>>, end |-> "quote"]
    BY <2>1, <2>2, <2>3, Zenon DEF DrainAt
  <2>5. Ending(m, l, s) = "quote" /\ Undecoded(m, l, s) = <<>>
    BY <1>2, <1>3, <1>7 DEF Ending, Undecoded, b
  <2>. QED  BY <1>5, <2>4, <2>5, Zenon DEF StopsAt
<1>8. CASE b < s /\ l < Len(m)
  <2>1. i \in 1..Len(v) /\ v[i] # "quote" /\ Width(v, i) = 0
    BY <1>8, CharacterInPart DEF b, CharacterRead
  <2>2. ~(i > Len(v))
    BY <2>1, <1>1, <1>2
  <2>3. \A f : DrainAt(f, v, i) = [out |-> <<>>, rest |-> Kept(v, i), end |-> "open"]
    BY <2>1, <2>2, Zenon DEF DrainAt
  <2>4. Kept(v, i) = SubSeq(Json(m), b + 1, s)
    <3> DEFINE J == Json(m)
    <3>1. b \in a..Len(J) /\ s \in b..Len(J)
      BY <1>2, <1>3, <1>4, <1>8
    <3>2. SubSeq(SubSeq(J, a + 1, s), b - a + 1, s - a) = SubSeq(J, b + 1, s)
      BY <3>1, <1>2, PartOfPart
    <3>. QED  BY <3>2, <1>1, <1>4 DEF Kept
  <2>5. l # Len(m)
    BY <1>2, <1>8
  <2>6. Ending(m, l, s) = "open"
    BY <2>5, Zenon DEF Ending
  <2>7. Undecoded(m, l, s) = SubSeq(Json(m), b + 1, s)
    BY <1>8 DEF Undecoded, b
  <2>. QED  BY <1>5, <2>3, <2>4, <2>6, <2>7 DEF StopsAt
<1>. QED  BY <1>2, <1>3, <1>4, <1>6, <1>7, <1>8

\* From the j-th character on, Drain decodes the characters that are whole, or meets
\* one that cannot be decoded.
LEMMA DrainText ==
  ASSUME NEW m \in Seq(Characters), NEW j \in 0..Len(m), NEW l \in j..Len(m),
         NEW s \in At(m, l)..Len(Json(m)), l < Len(m) => s < At(m, l + 1),
         NEW v, v = SubSeq(Json(m), At(m, j) + 1, s)
  PROVE  Decodes(v, m, j, l, Undecoded(m, l, s), Ending(m, l, s))
<1> DEFINE a == At(m, j)
           pl == [k \in j..l |-> At(m, k) - a + 1]
<1>1. Len(m) \in Nat /\ l \in 0..Len(m) /\ j <= l /\ j \in Nat /\ l \in Nat
  BY LenProperties
<1>2. a \in Nat /\ a <= At(m, l) /\ At(m, l) \in Nat
  BY <1>1, AtGrows
<1>3. Len(Json(m)) \in Nat /\ s \in Nat /\ At(m, l) <= s /\ s \in a..Len(Json(m))
  BY <1>2, JsonIs, LenProperties
<1>4. v \in Seq(Symbols)
  BY <1>2, <1>3, PartOfJson
<1>5. pl[j] = 1
  <2>1. pl[j] = a - a + 1
    BY <1>1
  <2>. QED  BY <2>1, <1>2
<1>6. ASSUME NEW k \in j..l, k < l
      PROVE  /\ pl[k] \in 1..Len(v) /\ v[pl[k]] # "quote" /\ Width(v, pl[k]) # 0
             /\ pl[k] + Width(v, pl[k]) = pl[k + 1]
             /\ ~(v[pl[k]] = "bs" /\ v[pl[k] + 1] = "q") => Decoded(v, pl[k]) = m[k + 1]
  <2>1. k \in 0..Len(m) /\ k + 1 \in 0..Len(m) /\ k < Len(m) /\ j <= k /\ k < k + 1 /\ k + 1 <= l
    BY <1>1, <1>6
  <2>2. /\ At(m, k) \in Nat /\ At(m, k + 1) \in Nat /\ a <= At(m, k)
        /\ At(m, k) < At(m, k + 1) /\ At(m, k + 1) <= At(m, l)
    BY <2>1, <1>1, AtGrows
  <2>3. At(m, k) < s /\ s >= At(m, k + 1)
    <3> DEFINE b == At(m, k)
               c == At(m, k + 1)
               d == At(m, l)
    <3>1. b \in Nat /\ c \in Nat /\ d \in Nat /\ s \in Nat /\ b < c /\ c <= d /\ d <= s
      BY <2>2, <1>2, <1>3
    <3> HIDE DEF b, c, d
    <3>2. b < s /\ s >= c
      BY <3>1
    <3>. QED  BY <3>2 DEF b, c
  <2> DEFINE i == At(m, k) - a + 1
  <2>4. pl[k] = i /\ pl[k + 1] = At(m, k + 1) - a + 1 /\ i = At(m, k) - a + 1
    BY <1>1, <2>1
  <2>. HIDE DEF pl, i
  <2>5. CharacterRead(m, a, s, k, v, i)
    BY <1>2, <1>3, <2>1, <2>2, <2>3, <2>4, CharacterInPart
  <2>. QED  BY <2>3, <2>4, <2>5 DEF CharacterRead
<1>7. /\ pl[l] \in 1..Len(v) + 1
      /\ \A f : DrainAt(f, v, pl[l]) = [out |-> <<>>, rest |-> Undecoded(m, l, s),
                                        end |-> Ending(m, l, s)]
  <2>1. pl[l] = At(m, l) - a + 1
    BY <1>1
  <2> DEFINE i == pl[l]
  <2>2. i = At(m, l) - a + 1
    BY <2>1
  <2> HIDE DEF pl, i
  <2>3. StopsAt(m, s, l, v, i)
    BY <2>2, <1>1, <1>2, <1>3, DrainStops
  <2>. QED  BY <2>3 DEF i, StopsAt
<1> HIDE DEF pl
<1> DEFINE rest == Undecoded(m, l, s)
           end == Ending(m, l, s)
<1> HIDE DEF rest, end
<1>8. \A f : DrainAt(f, v, pl[l]) = [out |-> <<>>, rest |-> rest, end |-> end]
  BY <1>7 DEF rest, end
<1>9. CharactersAt(v, m, j, l, pl)
  BY <1>5, <1>6, <1>7 DEF CharactersAt

<1>10. Decodes(v, m, j, l, rest, end)
  BY <1>4, <1>8, <1>9, DrainCharacters
<1>. QED  BY <1>10 DEF rest, end

\* The last character that is whole at s.
LEMMA LastWhole ==
  ASSUME NEW m \in Seq(Characters), NEW j \in 0..Len(m), NEW s \in Nat, At(m, j) <= s
  PROVE  \E l \in j..Len(m) : At(m, l) <= s /\ (l < Len(m) => s < At(m, l + 1))
<1> DEFINE W == {k \in j..Len(m) : At(m, k) <= s}
           l == Max(W)
<1>1. Len(m) \in Nat /\ j \in j..Len(m)
  BY LenProperties
<1>2. j \in W /\ W \subseteq 0..Len(m)
  BY <1>1
<1>3. l \in W /\ \A k \in W : k <= l
  <2> HIDE DEF W
  <2>. QED  BY <1>1, <1>2, MaxOf
<1>4. ASSUME l < Len(m) PROVE s < At(m, l + 1)
  <2>1. l + 1 \in j..Len(m) /\ ~(l + 1 <= l) /\ l + 1 \in 0..Len(m)
    BY <1>1, <1>2, <1>3, <1>4
  <2>2. ~(At(m, l + 1) <= s)
    BY <2>1, <1>3
  <2>3. At(m, l + 1) \in Nat
    BY <2>1, AtGrows
  <2>. QED  BY <2>2, <2>3
<1>. QED  BY <1>3, <1>4

\* The key ends at the third symbol, and nowhere else.
LEMMA KeyInJson ==
  ASSUME NEW m \in Seq(Characters), NEW i \in 1..Len(Json(m))
  PROVE  Json(m)[i] = "k1" <=> i = 2
<1> DEFINE n == Place(m, Len(m))
<1>1. n \in Nat /\ At(m, Len(m)) = 3 + n
  BY Places, LenProperties DEF At
<1>2. i \in 1..3 \/ i - 3 \in 1..n \/ i = (3 + n) + 1 \/ i = (3 + n) + 2
  BY <1>1, JsonIs
<1>3. CASE i \in 1..3
  BY <1>3, JsonIs
<1>4. CASE i - 3 \in 1..n
  <2>1. 3 + (i - 3) = i /\ i # 2
    BY <1>4
  <2>2. Json(m)[i] \in Codes
    BY <2>1, <1>4, JsonIs
  <2>. QED  BY <2>1, <2>2, CodesAreText
<1>5. CASE i = (3 + n) + 1 \/ i = (3 + n) + 2
  BY <1>1, <1>5, JsonIs
<1>. QED  BY <1>2, <1>3, <1>4, <1>5

\* What the parser has seen since o has the key, once its end has arrived.
LEMMA KeyFound ==
  ASSUME NEW m \in Seq(Characters), NEW o \in 0..1, NEW s \in o..Len(Json(m)),
         NEW seen, seen = SubSeq(Json(m), o + 1, s)
  PROVE  KeyEnds(seen) = IF s < 3 THEN {} ELSE {3 - o}
<1> DEFINE J == Json(m)
<1>1. /\ seen \in Seq(Symbols) /\ Len(seen) = s - o /\ \A i \in 1..s - o : seen[i] = J[o + i]
  BY o \in Nat, PartOfJson
<1>2. /\ Len(J) \in Nat /\ J[3] = "k2" /\ s \in Nat /\ o \in {0, 1}
      /\ o <= s /\ s <= Len(J)
  BY JsonIs, LenProperties
<1>3. \A i \in 1..Len(J) : J[i] = "k1" <=> i = 2
  BY KeyInJson
<1> HIDE DEF J
<1>4. ASSUME NEW i \in KeyEnds(seen) PROVE i = 3 - o /\ ~(s < 3)
  <2>1. i \in 2..s - o /\ seen[i - 1] = "k1"
    BY <1>1 DEF KeyEnds
  <2>2. i - 1 \in 1..s - o /\ o + (i - 1) \in 1..Len(J)
    BY <2>1, <1>2
  <2>3. J[o + (i - 1)] = "k1"
    BY <2>1, <2>2, <1>1
  <2>4. o + (i - 1) = 2
    BY <2>2, <2>3, <1>3
  <2>. QED  BY <2>1, <2>4
<1>5. ASSUME ~(s < 3) PROVE 3 - o \in KeyEnds(seen)
  <2>1. /\ 3 - o \in 2..s - o /\ 3 - o \in 1..s - o /\ (3 - o) - 1 \in 1..s - o
        /\ o + (3 - o) = 3 /\ o + ((3 - o) - 1) = 2 /\ 2 \in 1..Len(J)
    BY <1>2, <1>5, SMT
  <2>2. seen[3 - o] = "k2" /\ seen[(3 - o) - 1] = "k1"
    BY <2>1, <1>1, <1>2, <1>3
  <2>. QED  BY <2>1, <2>2, <1>1 DEF KeyEnds
<1>. QED  BY <1>4, <1>5

\* What is left is less than a character.
LEMMA UndecodedFits ==
  ASSUME NEW m \in Seq(Characters), NEW l \in 0..Len(m), NEW s \in At(m, l)..Len(Json(m)),
         l < Len(m) => s < At(m, l + 1)
  PROVE  /\ Undecoded(m, l, s) \in Seq(Symbols) /\ Len(Undecoded(m, l, s)) < 6
         /\ l = Len(m) => Undecoded(m, l, s) = <<>>
<1>1. /\ <<>> \in Seq(Symbols) /\ Len(<<>>) < 6 /\ Len(m) \in Nat /\ At(m, l) \in Nat
      /\ Len(Json(m)) \in Nat /\ s \in Nat
  BY AtGrows, LenProperties, JsonIs
<1>2. CASE l < Len(m)
  <2> DEFINE b == At(m, l)
             v == SubSeq(Json(m), b + 1, s)
             w == Len(Encoding(m[l + 1]))
  <2>1. v \in Seq(Symbols) /\ Len(v) = s - b
    BY <1>1, PartOfJson
  <2>2. w \in 1..6 /\ At(m, l + 1) = b + w /\ s < At(m, l + 1)
    BY <1>2, JsonCharacter
  <2>3. Undecoded(m, l, s) = v
    BY <1>2 DEF Undecoded
  <2>4. l # Len(m) /\ b \in Nat
    BY <1>1, <1>2
  <2> HIDE DEF b, v, w
  <2>5. s - b < 6
    BY <1>1, <2>2, <2>4
  <2>. QED  BY <2>1, <2>3, <2>4, <2>5
<1>3. CASE ~(l < Len(m))
  <2>1. Undecoded(m, l, s) = <<>>
    BY <1>3, Zenon DEF Undecoded
  <2>. QED  BY <2>1, <1>1
<1>. QED  BY <1>2, <1>3

\* The parser p, and the text h it has put out, after s symbols of the JSON of m: it
\* looks for the key, in at least the last symbol; or has decoded what is whole.
Parsers == [search : Seq(Symbols), value : Seq(Symbols), started : BOOLEAN, complete : BOOLEAN]
Searching(m, p, h, s) ==
  /\ p \in Parsers /\ ~p.started /\ ~p.complete /\ p.value = <<>> /\ h = <<>> /\ s < 3
  /\ Len(p.search) <= Window
  /\ \E o \in 0..s : p.search = SubSeq(Json(m), o + 1, s) /\ (s > 0 => o < s)
Reading(m, p, h, s, l) ==
  /\ p \in Parsers /\ p.started /\ p.search = <<>>
  /\ At(m, l) <= s /\ (l < Len(m) => s < At(m, l + 1))
  /\ h = SubSeq(m, 1, l) /\ p.value = Undecoded(m, l, s)
  /\ p.complete = (l = Len(m) /\ s > At(m, l))
Parsed(m, p, h, s) == Searching(m, p, h, s) \/ \E l \in 0..Len(m) : Reading(m, p, h, s, l)

\* The value the parser decodes after a fragment is the JSON from a character on.
LEMMA ReadOn ==
  ASSUME NEW m \in Seq(Characters), NEW j \in 0..Len(m), NEW t \in At(m, j)..Len(Json(m)),
         NEW v, v = SubSeq(Json(m), At(m, j) + 1, t), NEW h, h = SubSeq(m, 1, j)
  PROVE  \/ \E o : Drain(v) = [out |-> o, rest |-> <<>>, end |-> "error"]
         \/ /\ Drain(v).end # "error" /\ Drain(v).out \in Seq(Characters)
            /\ \E l \in 0..Len(m) :
                 Reading(m, [search |-> <<>>, value |-> Drain(v).rest, started |-> TRUE,
                             complete |-> Drain(v).end = "quote"],
                         h \o Drain(v).out, t, l)
<1>1. PICK l \in j..Len(m) : At(m, l) <= t /\ (l < Len(m) => t < At(m, l + 1))
  <2>1. t \in Nat /\ At(m, j) <= t
    BY AtGrows, JsonIs, LenProperties
  <2>. QED  BY <2>1, LastWhole
<1> DEFINE rest == Undecoded(m, l, t)
           end == Ending(m, l, t)
           out == SubSeq(m, j + 1, l)
<1>2. Len(m) \in Nat /\ l \in 0..Len(m) /\ j \in Nat /\ l \in Nat /\ j <= l
  BY LenProperties
<1>3. At(m, l) \in Nat /\ t \in At(m, l)..Len(Json(m))
  BY <1>1, <1>2, AtGrows, JsonIs, LenProperties
<1>4. l < Len(m) => t < At(m, l + 1)
  BY <1>1
<1>5. rest \in Seq(Symbols)
  BY <1>2, <1>3, <1>4, UndecodedFits
<1>6. out \in Seq(Characters) /\ h \o out = SubSeq(m, 1, l)
  <2>1. SubSeq(m, j + 1, l) \in Seq(Characters)
    BY <1>2, PartOf
  <2>2. SubSeq(m, 0 + 1, j) \o SubSeq(m, j + 1, l) = SubSeq(m, 0 + 1, l)
    BY <1>2, AdjacentParts
  <2>. QED  BY <2>1, <2>2
<1>7. (end = "quote") = (l = Len(m) /\ t > At(m, l)) /\ end # "error"
  BY Zenon DEF Ending
<1>8. At(m, l) <= t
  BY <1>1
<1>9. Decodes(v, m, j, l, rest, end)
  BY <1>3, <1>4, DrainText
<1> HIDE DEF rest, end, out
<1>10. CASE Drain(v) = [out |-> out, rest |-> rest, end |-> end]
  <2> DEFINE p == [search |-> <<>>, value |-> rest, started |-> TRUE, complete |-> end = "quote"]
  <2>1. Drain(v).out = out /\ Drain(v).rest = rest /\ Drain(v).end = end
    BY <1>10
  <2>2. /\ p \in Parsers /\ p.started /\ p.search = <<>> /\ p.value = rest
        /\ p.complete = (end = "quote")
    BY <1>5, EmptySeq DEF Parsers
  <2> HIDE DEF p
  <2>3. Reading(m, p, h \o out, t, l)
    BY <2>2, <1>4, <1>6, <1>7, <1>8 DEF Reading, rest
  <2>. QED  BY <1>2, <1>6, <1>7, <2>1, <2>3, Zenon DEF p
<1>. QED  BY <1>9, <1>10, Zenon DEF Decodes, out

\* What is kept for the search are the last symbols.
LEMMA LastIs ==
  ASSUME NEW S, NEW t \in Seq(S), NEW s \in 0..Len(t), NEW o \in 0..s, s > 0 => o < s
  PROVE  /\ Len(LastOf(SubSeq(t, o + 1, s), Window)) <= Window
         /\ \E b \in 0..s : /\ LastOf(SubSeq(t, o + 1, s), Window) = SubSeq(t, b + 1, s)
                            /\ s > 0 => b < s
<1> DEFINE seen == SubSeq(t, o + 1, s)
<1>1. Len(t) \in Nat /\ s \in Nat /\ o \in Nat /\ o <= s /\ Window \in Nat /\ Window # 0
  BY LenProperties, StreamAssumption
<1>2. seen \in Seq(S) /\ Len(seen) = s - o
  BY <1>1, PartOf
<1>3. CASE s - o <= Window
  <2>1. LastOf(seen, Window) = seen
    BY <1>2, <1>3 DEF LastOf
  <2>. QED  BY <1>2, <1>3, <2>1
<1>4. CASE ~(s - o <= Window)
  <2>1. LastOf(seen, Window) = SubSeq(seen, (s - o) - Window + 1, s - o)
    BY <1>2, <1>4 DEF LastOf
  <2> DEFINE b == s - Window
  <2>2. /\ b \in o..Len(t) /\ s \in b..Len(t) /\ (s - o) - Window = b - o /\ b \in 0..s /\ b < s
        /\ s - b = Window /\ b \in Nat
    BY <1>1, <1>4
  <2> HIDE DEF b
  <2>3. SubSeq(seen, b - o + 1, s - o) = SubSeq(t, b + 1, s)
    BY <1>1, <2>2, PartOfPart
  <2>4. Len(SubSeq(t, b + 1, s)) = s - b
    BY <2>2, PartOf
  <2>5. LastOf(seen, Window) = SubSeq(t, b + 1, s)
    BY <2>1, <2>2, <2>3
  <2> HIDE DEF seen
  <2>6. Len(LastOf(seen, Window)) <= Window
    BY <1>1, <2>2, <2>4, <2>5
  <2>. QED  BY <2>2, <2>5, <2>6 DEF seen
<1>. QED  BY <1>3, <1>4

\* The ways Fed goes: nothing is put out, or the value v is decoded.
Passing(q) == [parser |-> q, out |-> <<>>, error |-> FALSE]
Decoding(v) == [parser |-> [search |-> <<>>, value |-> Drain(v).rest, started |-> TRUE,
                            complete |-> Drain(v).end = "quote"],
                out |-> Drain(v).out, error |-> Drain(v).end = "error"]

LEMMA PassingFields ==
  ASSUME NEW q
  PROVE  Passing(q).parser = q /\ Passing(q).out = <<>> /\ ~Passing(q).error
BY DEF Passing

LEMMA DecodingFields ==
  ASSUME NEW v
  PROVE  /\ Decoding(v).parser = [search |-> <<>>, value |-> Drain(v).rest, started |-> TRUE,
                                  complete |-> Drain(v).end = "quote"]
         /\ Decoding(v).out = Drain(v).out
         /\ Decoding(v).error <=> Drain(v).end = "error"
BY Zenon DEF Decoding

LEMMA FedComplete ==
  ASSUME NEW p, NEW g, p.complete
  PROVE  Fed(p, g) = Passing(p)
BY Zenon DEF Fed, Passing

LEMMA FedSearches ==
  ASSUME NEW p, NEW g, ~p.complete, ~p.started, NEW seen, seen = p.search \o g,
         KeyEnds(seen) = {}
  PROVE  Fed(p, g) = Passing([p EXCEPT !.search = LastOf(seen, Window)])
BY Zenon DEF Fed, Passing

\* The key is found, once, in what was kept and what is new; v comes after it.
Found(p, g, seen, k, v) ==
  /\ ~p.complete /\ ~p.started
  /\ seen = p.search \o g /\ KeyEnds(seen) = {k} /\ v = SubSeq(seen, k + 1, Len(seen))

LEMMA FedFinds ==
  ASSUME NEW p, NEW g, NEW seen, NEW k, NEW v, Found(p, g, seen, k, v)
  PROVE  Fed(p, g) = Decoding(v)
<1>1. (CHOOSE i \in {k} : TRUE) = k /\ {k} # {}
  OBVIOUS
<1>. QED  BY <1>1, Zenon DEF Fed, Decoding, Found

LEMMA FedReads ==
  ASSUME NEW p, NEW g, ~p.complete, p.started, NEW v, v = p.value \o g
  PROVE  Fed(p, g) = Decoding(v)
BY Zenon DEF Fed, Decoding

\* After a fragment the parser has decoded what is whole now, or the fragment has
\* something that is no escape.
FeedsOn(m, p, h, t, g) ==
  \/ Fed(p, g).error
  \/ /\ ~Fed(p, g).error /\ Fed(p, g).out \in Seq(Characters)
     /\ Parsed(m, Fed(p, g).parser, h \o Fed(p, g).out, t)

\* After the next fragment, wherever it ends, the parser is again where it would be had
\* everything come at once, or it met an error.
LEMMA FedParses ==
  ASSUME NEW m \in Seq(Characters), NEW p, NEW h, NEW s \in 0..Len(Json(m)),
         Parsed(m, p, h, s), NEW t \in s + 1..Len(Json(m)), NEW g, g = SubSeq(Json(m), s + 1, t)
  PROVE  FeedsOn(m, p, h, t, g)
<1> DEFINE J == Json(m)
<1>1. /\ J \in Seq(Symbols) /\ Len(J) \in Nat /\ s \in Nat /\ t \in Nat /\ s < t /\ t <= Len(J)
      /\ Len(m) \in Nat /\ <<>> \in Seq(Symbols) /\ <<>> \in Seq(Characters)
  BY JsonIs, LenProperties, EmptySeq
<1>2. ASSUME NEW j \in 0..Len(m), At(m, j) <= t, NEW v, v = SubSeq(J, At(m, j) + 1, t),
             h = SubSeq(m, 1, j), Fed(p, g) = Decoding(v)
      PROVE  FeedsOn(m, p, h, t, g)
  <2>1. t \in At(m, j)..Len(J)
    BY <1>1, <1>2, AtGrows
  <2>2. \/ \E o : Drain(v) = [out |-> o, rest |-> <<>>, end |-> "error"]
        \/ /\ Drain(v).end # "error" /\ Drain(v).out \in Seq(Characters)
           /\ \E l \in 0..Len(m) :
                 Reading(m, [search |-> <<>>, value |-> Drain(v).rest, started |-> TRUE,
                             complete |-> Drain(v).end = "quote"],
                         h \o Drain(v).out, t, l)
    BY <1>2, <2>1, ReadOn
  <2> DEFINE f == Fed(p, g)
             d == Drain(v)
             q == [search |-> <<>>, value |-> d.rest, started |-> TRUE,
                   complete |-> d.end = "quote"]
  <2>3. (f.error <=> d.end = "error") /\ f.out = d.out /\ f.parser = q
    BY <1>2, DecodingFields, Zenon
  <2>4. CASE d.end = "error"
    BY <2>3, <2>4, Zenon DEF FeedsOn
  <2>5. CASE d.end # "error"
    <3>1. d.out \in Seq(Characters) /\ \E l \in 0..Len(m) : Reading(m, q, h \o d.out, t, l)
      <4>1. (\E o : d = [out |-> o, rest |-> <<>>, end |-> "error"]) => d.end = "error"
        <5> HIDE DEF d
        <5>. QED  OBVIOUS
      <4>. QED  BY <2>2, <2>5, <4>1, Zenon
    <3> HIDE DEF f, d, q
    <3>2. ~f.error /\ f.out \in Seq(Characters) /\ Parsed(m, f.parser, h \o f.out, t)
      BY <2>3, <2>5, <3>1, Zenon DEF Parsed
    <3>. QED  BY <3>2, Zenon DEF FeedsOn, f
  <2>. QED  BY <2>4, <2>5
<1>3. CASE Searching(m, p, h, s)
  <2>1. PICK o \in 0..s : p.search = SubSeq(J, o + 1, s) /\ (s > 0 => o < s)
    BY <1>3 DEF Searching
  <2>2. ~p.complete /\ ~p.started /\ p \in Parsers /\ s < 3 /\ h = <<>> /\ p.value = <<>>
    BY <1>3 DEF Searching
  <2>3. o \in 0..1 /\ o \in Nat /\ o < t /\ t \in o..Len(J) /\ s \in o..Len(J) /\ t \in s..Len(J)
    BY <1>1, <2>1, <2>2
  <2> DEFINE seen == SubSeq(J, o + 1, t)
  <2>4. p.search \o g = seen
    BY <1>1, <2>1, <2>3, AdjacentParts
  <2>5. KeyEnds(seen) = IF t < 3 THEN {} ELSE {3 - o}
    BY <2>3, KeyFound
  <2>6. seen \in Seq(Symbols) /\ Len(seen) = t - o
    BY <1>1, <2>3, PartOf
  <2>7. CASE t < 3
    <3> DEFINE q == [p EXCEPT !.search = LastOf(seen, Window)]
    <3>1. KeyEnds(seen) = {} /\ seen = p.search \o g
      BY <2>4, <2>5, <2>7
    <3>2. PICK b \in 0..t : /\ LastOf(seen, Window) = SubSeq(J, b + 1, t)
                            /\ t > 0 => b < t
      <4>1. t \in 0..Len(J) /\ o \in 0..t
        BY <1>1, <2>3
      <4>. QED  BY <1>1, <2>3, <4>1, LastIs
    <3>3. Len(LastOf(seen, Window)) <= Window
      <4>1. t \in 0..Len(J) /\ o \in 0..t
        BY <1>1, <2>3
      <4>. QED  BY <1>1, <2>3, <4>1, LastIs
    <3>4. LastOf(seen, Window) \in Seq(Symbols)
      <4>1. b \in Nat /\ t \in b..Len(J)
        BY <1>1
      <4>2. SubSeq(J, b + 1, t) \in Seq(Symbols)
        BY <1>1, <4>1, PartOf
      <4>. QED  BY <3>2, <4>2
    <3>5. /\ q \in Parsers /\ ~q.started /\ ~q.complete /\ q.value = <<>>
          /\ q.search = LastOf(seen, Window)
      BY <2>2, <3>4 DEF Parsers
    <3>6. h \o <<>> = <<>>
      BY <2>2, <1>1, ConcatEmptySeq
    <3> HIDE DEF seen
    <3>7. Fed(p, g) = Passing(q)
      BY <2>2, <3>1, FedSearches
    <3> HIDE DEF q
    <3>8. Searching(m, q, h \o <<>>, t)
      BY <2>7, <3>2, <3>3, <3>5, <3>6 DEF Searching
    <3>. QED  BY <1>1, <3>7, <3>8, PassingFields, Zenon DEF FeedsOn, Parsed
  <2>8. CASE ~(t < 3)
    <3> DEFINE v == SubSeq(seen, (3 - o) + 1, Len(seen))
    <3>1. Fed(p, g) = Decoding(v)
      <4>1. KeyEnds(seen) = {3 - o} /\ seen = p.search \o g
        BY <2>4, <2>5, <2>8
      <4> DEFINE k == 3 - o
      <4>2. KeyEnds(seen) = {k} /\ v = SubSeq(seen, k + 1, Len(seen))
        BY <4>1
      <4>3. ~p.complete /\ ~p.started
        BY <2>2
      <4> HIDE DEF seen, v, k
      <4>4. Found(p, g, seen, k, v)
        BY <4>1, <4>2, <4>3, Zenon DEF Found
      <4>. QED  BY <4>4, FedFinds, Zenon
    <3>2. v = SubSeq(J, 3 + 1, t)
      <4>1. 3 \in o..Len(J) /\ t \in 3..Len(J)
        BY <1>1, <2>3, <2>8
      <4>. QED  BY <1>1, <2>3, <2>6, <4>1, PartOfPart
    <3>3. 0 \in 0..Len(m) /\ At(m, 0) = 3
      BY <1>1, AtGrows
    <3>4. h = SubSeq(m, 1, 0)
      BY <2>2, SubSeqEmpty
    <3> HIDE DEF v
    <3>5. At(m, 0) <= t /\ v = SubSeq(J, At(m, 0) + 1, t)
      BY <1>1, <2>8, <3>2, <3>3
    <3>. QED  BY <1>2, <3>1, <3>3, <3>4, <3>5
  <2>. QED  BY <2>7, <2>8
<1>4. ASSUME NEW j \in 0..Len(m), Reading(m, p, h, s, j)
      PROVE  FeedsOn(m, p, h, t, g)
  <2>1. /\ p \in Parsers /\ p.started /\ p.search = <<>> /\ At(m, j) <= s
        /\ h = SubSeq(m, 1, j) /\ p.value = Undecoded(m, j, s)
        /\ p.complete = (j = Len(m) /\ s > At(m, j)) /\ (j < Len(m) => s < At(m, j + 1))
    BY <1>4 DEF Reading
  <2>2. At(m, j) \in Nat /\ At(m, j) <= t
    BY <1>1, <2>1, AtGrows
  <2>3. CASE p.complete
    <3>1. Fed(p, g) = Passing(p)
      BY <2>3, FedComplete
    <3>2. h \o <<>> = h
      BY <2>1, PrefixGrows, ConcatEmptySeq
    <3>3. j = Len(m) /\ s > At(m, j)
      BY <2>1, <2>3
    <3>4. t > At(m, j) /\ ~(j < Len(m))
      BY <1>1, <2>2, <3>3
    <3>5. Undecoded(m, j, s) = <<>> /\ Undecoded(m, j, t) = <<>>
      BY <3>4, Zenon DEF Undecoded
    <3>6. Reading(m, p, h \o <<>>, t, j)
      BY <2>1, <2>2, <2>3, <3>2, <3>3, <3>4, <3>5 DEF Reading
    <3>. QED  BY <1>1, <3>1, <3>6, PassingFields, Zenon DEF FeedsOn, Parsed
  <2>4. CASE ~p.complete
    <3> DEFINE v == p.value \o g
    <3>1. Fed(p, g) = Decoding(v)
      BY <2>1, <2>4, FedReads
    <3>2. v = SubSeq(J, At(m, j) + 1, t)
      <4>1. CASE j < Len(m)
        <5>1. p.value = SubSeq(J, At(m, j) + 1, s)
          BY <2>1, <4>1 DEF Undecoded
        <5>2. s \in At(m, j)..Len(J) /\ t \in s..Len(J)
          BY <1>1, <2>1, <2>2
        <5>. QED  BY <1>1, <2>2, <5>1, <5>2, AdjacentParts
      <4>2. CASE ~(j < Len(m))
        <5>1. p.value = <<>>
          BY <2>1, <4>2, Zenon DEF Undecoded
        <5>2. j = Len(m)
          BY <1>1, <4>2
        <5>3. s = At(m, j)
          <6>1. ~(s > At(m, j))
            BY <2>1, <2>4, <5>2
          <6>. QED  BY <1>1, <2>1, <2>2, <6>1
        <5>4. SubSeq(J, s + 1, t) \in Seq(Symbols)
          BY <1>1, s \in Nat, t \in s..Len(J), PartOf
        <5>. QED  BY <5>1, <5>3, <5>4, ConcatEmptySeq
      <4>. QED  BY <4>1, <4>2
    <3> HIDE DEF v
    <3>. QED  BY <1>2, <2>1, <2>2, <3>1, <3>2
  <2>. QED  BY <2>3, <2>4
<1>. QED  BY <1>3, <1>4, Zenon DEF Parsed

-----------------------------------------------------------------------------
(* The consumers.  Solid text is what they must not lose. *)

\* A character for itself, a blank for nothing.
Solids(s) == [i \in 1..Len(s) |-> IF IsBlank(s[i]) THEN <<>> ELSE <<s[i]>>]

LEMMA SolidsAre ==
  ASSUME NEW S, NEW s \in Seq(S)
  PROVE  /\ Solids(s) \in Seq(Seq(S)) /\ Len(Solids(s)) = Len(s)
         /\ \A i \in 1..Len(s) : Solids(s)[i] = IF IsBlank(s[i]) THEN <<>> ELSE <<s[i]>>
         /\ Solid(s) = FlattenSeq(Solids(s)) /\ Solid(s) \in Seq(S)
<1>1. Len(s) \in Nat /\ \A i \in 1..Len(s) : s[i] \in S
  BY LenProperties, ElementOfSeq
<1>2. \A i \in 1..Len(s) : (IF IsBlank(s[i]) THEN <<>> ELSE <<s[i]>>) \in Seq(S)
  <2>1. TAKE i \in 1..Len(s)
  <2>2. <<>> \in Seq(S) /\ <<s[i]>> \in Seq(S)
    BY <1>1
  <2>. QED  BY <2>2
<1>3. /\ Solids(s) \in Seq(Seq(S)) /\ Len(Solids(s)) = Len(s)
      /\ \A i \in 1..Len(s) : Solids(s)[i] = IF IsBlank(s[i]) THEN <<>> ELSE <<s[i]>>
  BY <1>1, <1>2 DEF Solids
<1>4. Solid(s) = FlattenSeq(Solids(s))
  BY DEF Solid, Solids
<1>. QED  BY <1>3, <1>4, FlattenType

\* The text without its blanks, of two texts laid end to end.
LEMMA SolidConcat ==
  ASSUME NEW S, NEW s \in Seq(S), NEW t \in Seq(S)
  PROVE  Solid(s \o t) = Solid(s) \o Solid(t)
<1> DEFINE u == Solids(s)
           v == Solids(t)
           w == Solids(s \o t)
           st == s \o t
<1>1. /\ Len(s) \in Nat /\ Len(t) \in Nat /\ st \in Seq(S) /\ Len(st) = Len(s) + Len(t)
      /\ \A i \in 1..Len(s) : st[i] = s[i]
      /\ \A i \in 1..Len(t) : st[Len(s) + i] = t[i]
  BY ConcatAt
<1>2. /\ u \in Seq(Seq(S)) /\ Len(u) = Len(s)
      /\ \A i \in 1..Len(s) : u[i] = IF IsBlank(s[i]) THEN <<>> ELSE <<s[i]>>
  BY SolidsAre
<1>3. /\ v \in Seq(Seq(S)) /\ Len(v) = Len(t)
      /\ \A i \in 1..Len(t) : v[i] = IF IsBlank(t[i]) THEN <<>> ELSE <<t[i]>>
  BY SolidsAre
<1> HIDE DEF st, u, v
<1>4. /\ Solids(st) \in Seq(Seq(S)) /\ Len(Solids(st)) = Len(st)
      /\ \A i \in 1..Len(st) : Solids(st)[i] = IF IsBlank(st[i]) THEN <<>> ELSE <<st[i]>>
  BY <1>1, SolidsAre
<1>5. w = Solids(st)
  BY DEF st
<1> HIDE DEF w
<1> DEFINE uv == u \o v
<1>6. /\ uv \in Seq(Seq(S)) /\ Len(uv) = Len(s) + Len(t)
      /\ \A i \in 1..Len(s) : uv[i] = u[i]
      /\ \A i \in 1..Len(t) : uv[Len(s) + i] = v[i]
  <2>1. u \in Seq(Seq(S)) /\ v \in Seq(Seq(S))
    BY <1>2, <1>3
  <2>2. /\ uv \in Seq(Seq(S)) /\ Len(uv) = Len(u) + Len(v)
        /\ \A i \in 1..Len(u) : uv[i] = u[i]
        /\ \A i \in 1..Len(v) : uv[Len(u) + i] = v[i]
    BY <2>1, ConcatAt
  <2> HIDE DEF uv
  <2>. QED  BY <2>2, <1>2, <1>3
<1> HIDE DEF uv
<1>7. \A i \in 1..Len(s) : w[i] = uv[i]
  <2>1. \A i \in 1..Len(s) : i \in 1..Len(st)
    BY <1>1
  <2>. QED  BY <2>1, <1>1, <1>2, <1>4, <1>5, <1>6, Zenon
<1>8. \A i \in 1..Len(t) : w[Len(s) + i] = uv[Len(s) + i]
  <2>1. \A i \in 1..Len(t) : Len(s) + i \in 1..Len(st)
    BY <1>1
  <2>. QED  BY <2>1, <1>1, <1>3, <1>4, <1>5, <1>6, Zenon
<1>9. \A i \in 1..Len(w) : w[i] = uv[i]
  <2>1. \A i \in 1..Len(w) : i \in 1..Len(s) \/ i - Len(s) \in 1..Len(t)
    BY <1>1, <1>4, <1>5
  <2>2. \A i \in 1..Len(w) : i = Len(s) + (i - Len(s))
    BY <1>1, <1>4, <1>5
  <2>. QED  BY <2>1, <2>2, <1>7, <1>8, Zenon
<1>10. w \in Seq(Seq(S)) /\ Len(w) = Len(uv)
  BY <1>1, <1>4, <1>5, <1>6
<1>11. w = uv
  BY <1>6, <1>9, <1>10, SeqEqual
<1>12. FlattenSeq(uv) = FlattenSeq(u) \o FlattenSeq(v)
  BY <1>2, <1>3, FlattenConcat DEF uv
<1>13. /\ Solid(s \o t) = FlattenSeq(w) /\ Solid(s) = FlattenSeq(u) /\ Solid(t) = FlattenSeq(v)
  BY DEF Solid, Solids, w, u, v
<1>. QED  BY <1>11, <1>12, <1>13

\* Of blanks nothing is left.
LEMMA SolidBlank ==
  ASSUME NEW S, NEW s \in Seq(S), \A i \in 1..Len(s) : IsBlank(s[i])
  PROVE  Solid(s) = <<>>
<1>1. /\ Solids(s) \in Seq(Seq(S)) /\ Len(Solids(s)) = Len(s) /\ Len(s) \in Nat
      /\ \A i \in 1..Len(s) : Solids(s)[i] = <<>>
      /\ Solid(s) = FlattenSeq(Solids(s))
  BY SolidsAre, LenProperties
<1>2. PICK f \in [0..Len(s) -> Seq(S)] :
        /\ f[0] = <<>> /\ f[Len(s)] = FlattenSeq(Solids(s))
        /\ \A i \in 1..Len(s) : f[i] = f[i - 1] \o Solids(s)[i]
  <2>1. \E f \in [0..Len(Solids(s)) -> Seq(S)] :
          /\ f[0] = <<>> /\ f[Len(Solids(s))] = FlattenSeq(Solids(s))
          /\ \A i \in 1..Len(Solids(s)) : f[i] = f[i - 1] \o Solids(s)[i]
    BY <1>1, FlattenSteps, Zenon
  <2>. QED  BY <2>1, <1>1, Zenon
<1> DEFINE T == {k \in Nat : k <= Len(s) => f[k] = <<>>}
<1>3. 0 \in T
  BY <1>2
<1>4. ASSUME NEW k \in Nat, k \in T PROVE k + 1 \in T
  <2>1. SUFFICES ASSUME k + 1 <= Len(s) PROVE f[k + 1] = <<>>
    OBVIOUS
  <2>2. k + 1 \in 1..Len(s) /\ (k + 1) - 1 = k /\ k <= Len(s)
    BY <2>1, <1>1
  <2>3. f[k + 1] = f[k] \o <<>>
    BY <2>2, <1>1, <1>2
  <2>. QED  BY <2>2, <2>3, <1>4
<1>5. Len(s) \in T
  <2> HIDE DEF T
  <2>. QED  BY <1>1, <1>3, <1>4, NatSetInduction
<1>. QED  BY <1>1, <1>2, <1>5

\* Strip takes off blanks only.
LEMMA StripIs ==
  ASSUME NEW S, NEW s \in Seq(S)
  PROVE  /\ Strip(s) \in Seq(S) /\ Len(Strip(s)) <= Len(s) /\ Solid(Strip(s)) = Solid(s)
         /\ Strip(s) = <<>> => \A i \in 1..Len(s) : IsBlank(s[i])
<1> DEFINE solid == {i \in 1..Len(s) : ~IsBlank(s[i])}
<1>1. Len(s) \in Nat /\ <<>> \in Seq(S) /\ Len(<<>>) = 0
  BY LenProperties, EmptySeq
<1>2. CASE solid = {}
  <2>1. \A i \in 1..Len(s) : IsBlank(s[i])
    BY <1>2
  <2>2. Strip(s) = <<>>
    BY <1>2, Zenon DEF Strip
  <2>3. Solid(s) = <<>>
    BY <2>1, SolidBlank
  <2>4. Solid(<<>>) = <<>>
    <3>1. \A i \in 1..Len(<<>>) : IsBlank((<<>>)[i])
      BY <1>1
    <3>2. \A t \in Seq(S) : (\A i \in 1..Len(t) : IsBlank(t[i])) => Solid(t) = <<>>
      BY SolidBlank
    <3>. QED  BY <1>1, <3>1, <3>2
  <2>. QED  BY <1>1, <2>1, <2>2, <2>3, <2>4
<1>3. CASE solid # {}
  <2> DEFINE a == Min(solid)
             b == Max(solid)
  <2>0. solid \subseteq Nat /\ solid \subseteq 0..Len(s)
    BY <1>1
  <2>1. a \in solid /\ b \in solid /\ (\A i \in solid : a <= i) /\ (\A i \in solid : i <= b)
    <3> HIDE DEF solid
    <3>. QED  BY <1>1, <1>3, <2>0, MinOf, MaxOf
  <2>2. Strip(s) = SubSeq(s, a, b)
    BY <1>3, Zenon DEF Strip
  <2>3. /\ a \in 1..Len(s) /\ b \in 1..Len(s) /\ a <= b /\ ~IsBlank(s[a])
        /\ \A i \in 1..Len(s) : i < a \/ i > b => IsBlank(s[i])
    <3>1. a \in 1..Len(s) /\ b \in 1..Len(s) /\ a <= b /\ ~IsBlank(s[a])
      BY <2>1
    <3>2. ASSUME NEW i \in 1..Len(s), i < a \/ i > b, ~IsBlank(s[i]) PROVE FALSE
      <4>1. i \in solid
        BY <3>2
      <4>2. a <= i /\ i <= b
        BY <4>1, <2>1
      <4> HIDE DEF a, b
      <4>. QED  BY <3>1, <3>2, <4>2
    <3>. QED  BY <3>1, <3>2
  <2> HIDE DEF a, b, solid
  <2> DEFINE c == a - 1
             n == Len(s)
             x == SubSeq(s, 0 + 1, c)
             y == SubSeq(s, c + 1, b)
             z == SubSeq(s, b + 1, n)
  <2>4. /\ c \in Nat /\ c + 1 = a /\ c \in 0..n /\ b \in c..n /\ n \in b..n /\ b \in Nat /\ n \in c..n
        /\ b - c \in 1..n
    BY <1>1, <2>3
  <2>5. /\ x \in Seq(S) /\ Len(x) = c - 0 /\ \A i \in 1..c - 0 : x[i] = s[0 + i]
    BY <2>4, PartOf
  <2>6. y \in Seq(S) /\ Len(y) = b - c /\ \A i \in 1..b - c : y[i] = s[c + i]
    BY <2>4, PartOf
  <2>7. z \in Seq(S) /\ Len(z) = n - b /\ \A i \in 1..n - b : z[i] = s[b + i]
    BY <2>4, PartOf
  <2>8. x \o (y \o z) = s
    <3>1. y \o z = SubSeq(s, c + 1, n)
      BY <2>4, AdjacentParts
    <3>2. x \o SubSeq(s, c + 1, n) = SubSeq(s, 0 + 1, n)
      BY <2>4, AdjacentParts
    <3>3. SubSeq(s, 0 + 1, n) = s
      BY SubSeqFull
    <3>. QED  BY <3>1, <3>2, <3>3
  <2>9. \A i \in 1..Len(x) : IsBlank(x[i])
    <3>1. \A i \in 1..c - 0 : 0 + i = i /\ i \in 1..Len(s) /\ i < a
      BY <1>1, <2>3, <2>4
    <3>. QED  BY <2>3, <2>5, <3>1
  <2>10. \A i \in 1..Len(z) : IsBlank(z[i])
    <3>1. \A i \in 1..n - b : b + i \in 1..Len(s) /\ b + i > b
      BY <1>1, <2>3, <2>4
    <3>. QED  BY <2>3, <2>7, <3>1
  <2>11. Strip(s) = y
    BY <2>2, <2>4
  <2> HIDE DEF x, y, z, c, n
  <2>12. Solid(x) = <<>> /\ Solid(z) = <<>>
    BY <2>5, <2>7, <2>9, <2>10, SolidBlank
  <2>13. Solid(x \o (y \o z)) = Solid(x) \o (Solid(y) \o Solid(z))
    <3>1. Solid(y \o z) = Solid(y) \o Solid(z) /\ y \o z \in Seq(S)
      BY <2>6, <2>7, SolidConcat, ConcatProperties
    <3>2. Solid(x \o (y \o z)) = Solid(x) \o Solid(y \o z)
      BY <2>5, <3>1, SolidConcat
    <3>. QED  BY <3>1, <3>2
  <2>14. Solid(y) \in Seq(S)
    BY <2>6, SolidsAre
  <2>15. Solid(s) = Solid(y)
    BY <2>8, <2>12, <2>13, <2>14, ConcatEmptySeq
  <2>16. Len(y) <= Len(s) /\ Len(y) # 0
    BY <2>4, <2>6 DEF n
  <2>. QED  BY <1>1, <2>6, <2>11, <2>15, <2>16
<1>. QED  BY <1>2, <1>3

LEMMA LesserOf ==
  ASSUME NEW a \in Nat, NEW b \in Nat
  PROVE  Min({a, b}) \in {a, b} /\ Min({a, b}) <= a /\ Min({a, b}) <= b
<1>1. {a, b} # {} /\ {a, b} \subseteq Nat
  OBVIOUS
<1>. QED  BY <1>1, MinOf

\* What the chunker takes off at once, and when it waits.
LEMMA CutIs ==
  ASSUME NEW S, NEW s \in Seq(S)
  PROVE  /\ Cut(s) \in 0..Len(s) /\ Cut(s) <= Maximum + 1
         /\ Cut(s) = 0 => Len(s) < Maximum
<1> DEFINE limit == Min({Len(s), Maximum}) + 1
           top == Min({limit, Len(s)})
           marks == {i \in 1..top : s[i] \in {"."} \cup Blanks}
           split == IF marks = {} THEN 0 ELSE Max(marks)
<1>1. Len(s) \in Nat /\ Maximum \in Nat /\ Minimum \in Nat /\ Minimum <= Maximum /\ Minimum # 0
  BY LenProperties, StreamAssumption
<1>2. limit \in Nat /\ limit <= Maximum + 1
  BY <1>1, LesserOf
<1>3. Cut(s) = IF Len(s) < Minimum THEN 0
               ELSE IF split > Minimum THEN split
               ELSE IF Len(s) < Maximum THEN 0 ELSE Maximum
  BY DEF Cut
<1> HIDE DEF limit
<1>4. top \in Nat /\ top <= Len(s) /\ top <= Maximum + 1
  <2>1. top \in {limit, Len(s)} /\ top <= limit /\ top <= Len(s)
    BY <1>1, <1>2, LesserOf
  <2>. QED  BY <2>1, <1>1, <1>2
<1> HIDE DEF top
<1>5. split \in 0..top
  <2>1. CASE marks = {}
    BY <2>1, <1>4
  <2>2. CASE marks # {}
    <3>1. marks \subseteq 0..top
      BY <1>4
    <3> HIDE DEF marks
    <3>2. Max(marks) \in marks
      BY <2>2, <3>1, <1>4, MaxOf
    <3>. QED  BY <2>2, <3>1, <3>2
  <2>. QED  BY <2>1, <2>2
<1> HIDE DEF split
<1>. QED  BY <1>1, <1>3, <1>4, <1>5

\* What Chunked computes from i on, by the function f of what comes after.
Piece(b, i) == LET s == SubSeq(b, i + 1, Len(b)) IN Strip(SubSeq(s, 1, Cut(s)))
ChunkedAt(f, b, i) ==
  IF Cut(SubSeq(b, i + 1, Len(b))) = 0
  THEN [pieces |-> <<>>, rest |-> SubSeq(b, i + 1, Len(b))]
  ELSE [f[i + Cut(SubSeq(b, i + 1, Len(b)))] EXCEPT
          !.pieces = (IF Piece(b, i) = <<>> THEN <<>> ELSE <<Piece(b, i)>>) \o @]

\* The recursive function of Chunked exists: it is built up from the end of the text.
LEMMA ChunkedSteps ==
  ASSUME NEW S, NEW b \in Seq(S)
  PROVE  \E f : f[0] = Chunked(b) /\ \A i \in 0..Len(b) : f[i] = ChunkedAt(f, b, i)
<1>0. Len(b) \in Nat
  BY LenProperties
<1>1. ASSUME NEW f, NEW g, NEW i \in 0..Len(b), \A j \in i + 1..Len(b) : f[j] = g[j]
      PROVE  ChunkedAt(f, b, i) = ChunkedAt(g, b, i)
  <2> DEFINE s == SubSeq(b, i + 1, Len(b))
             c == Cut(s)
  <2>1. s \in Seq(S) /\ Len(s) = Len(b) - i
    BY <1>0, PartOf
  <2>2. c \in 0..Len(s)
    <3> HIDE DEF s
    <3>. QED  BY <2>1, CutIs
  <2>3. CASE c = 0
    BY <2>3, Zenon DEF ChunkedAt
  <2>4. CASE c # 0
    <3> DEFINE k == i + c
    <3>1. k \in i + 1..Len(b)
      <4> HIDE DEF c, s
      <4>. QED  BY <1>0, <2>1, <2>2, <2>4
    <3>2. f[k] = g[k]
      BY <3>1, <1>1
    <3>. QED  BY <3>2, Zenon DEF ChunkedAt
  <2>. QED  BY <2>3, <2>4
<1> DEFINE Steps(g, k) == g = [i \in Len(b) - k..Len(b) |-> ChunkedAt(g, b, i)]
           T == {k \in Nat : k <= Len(b) => \E g : Steps(g, k)}
<1>2. 0 \in T
  <2> DEFINE g == [i \in Len(b) - 0..Len(b) |-> ChunkedAt(<<>>, b, i)]
  <2>1. \A i \in Len(b) - 0..Len(b) : ChunkedAt(<<>>, b, i) = ChunkedAt(g, b, i)
    <3>1. TAKE i \in Len(b) - 0..Len(b)
    <3>2. i \in 0..Len(b) /\ \A j \in i + 1..Len(b) : FALSE
      BY <1>0
    <3> HIDE DEF g
    <3>. QED  BY <3>2, <1>1
  <2>2. Steps(g, 0)
    BY <2>1, Zenon
  <2> HIDE DEF g
  <2>. QED  BY <2>2, 0 \in Nat, Zenon
<1>3. ASSUME NEW k \in Nat, k \in T PROVE k + 1 \in T
  <2>1. SUFFICES ASSUME k + 1 <= Len(b) PROVE \E h : Steps(h, k + 1)
    OBVIOUS
  <2>2. PICK g : Steps(g, k)
    BY <2>1, <1>0, <1>3
  <2> DEFINE D == Len(b) - (k + 1)..Len(b)
             h == [i \in D |-> ChunkedAt(g, b, i)]
  <2>3. \A i \in Len(b) - k..Len(b) : g[i] = ChunkedAt(g, b, i) /\ i \in D
    <3>1. \A i \in Len(b) - k..Len(b) : g[i] = ChunkedAt(g, b, i)
      BY <2>2
    <3>2. \A i \in Len(b) - k..Len(b) : i \in D
      BY <1>0
    <3>. QED  BY <3>1, <3>2
  <2>4. \A i \in Len(b) - k..Len(b) : h[i] = g[i]
    BY <2>3
  <2>5. \A i \in D : ChunkedAt(g, b, i) = ChunkedAt(h, b, i)
    <3>1. TAKE i \in D
    <3>2. /\ i \in 0..Len(b)
          /\ \A j \in i + 1..Len(b) : j \in Len(b) - k..Len(b)
      BY <2>1, <1>0
    <3> HIDE DEF h
    <3>. QED  BY <3>2, <2>4, <1>1
  <2>6. Steps(h, k + 1)
    BY <2>5, Zenon
  <2> HIDE DEF h
  <2>. QED  BY <2>6, Zenon
<1>4. \E g : Steps(g, Len(b))
  <2>1. Len(b) \in T
    <3> HIDE DEF T
    <3>. QED  BY <1>0, <1>2, <1>3, NatSetInduction
  <2>. QED  BY <2>1, <1>0
<1>5. \E g : g = [i \in 0..Len(b) |-> ChunkedAt(g, b, i)]
  BY <1>0, <1>4, Len(b) - Len(b) = 0
<1>6. PICK g : g = [i \in 0..Len(b) |-> ChunkedAt(g, b, i)] /\ Chunked(b) = g[0]
  BY <1>5, Zenon DEF Chunked, ChunkedAt, Piece
<1>. QED  BY <1>6

\* Chunks of no more than the greatest length; what is solid in them.
Short(S) == {x \in Seq(S) : Len(x) <= Maximum + 1}
SolidOf(ps) == Solid(FlattenSeq(ps))

\* The chunks are texts, and make up one without blanks.
LEMMA ShortAre ==
  ASSUME NEW S, NEW ps \in Seq(Short(S))
  PROVE  /\ ps \in Seq(Seq(S)) /\ FlattenSeq(ps) \in Seq(S) /\ SolidOf(ps) \in Seq(S)
         /\ \A i \in 1..Len(ps) : Len(ps[i]) <= Maximum + 1
<1>1. Short(S) \subseteq Seq(S)
  BY DEF Short
<1>2. ps \in Seq(Seq(S))
  BY <1>1, SeqMonotonic
<1>3. FlattenSeq(ps) \in Seq(S)
  BY <1>2, FlattenType
<1>4. SolidOf(ps) \in Seq(S)
  BY <1>3, SolidsAre DEF SolidOf
<1>5. \A i \in 1..Len(ps) : ps[i] \in Short(S)
  BY ElementOfSeq
<1>. QED  BY <1>2, <1>3, <1>4, <1>5 DEF Short

LEMMA SolidOfConcat ==
  ASSUME NEW S, NEW ps \in Seq(Short(S)), NEW qs \in Seq(Short(S))
  PROVE  ps \o qs \in Seq(Short(S)) /\ SolidOf(ps \o qs) = SolidOf(ps) \o SolidOf(qs)
<1>1. /\ ps \in Seq(Seq(S)) /\ qs \in Seq(Seq(S))
      /\ FlattenSeq(ps) \in Seq(S) /\ FlattenSeq(qs) \in Seq(S)
  BY ShortAre
<1>2. FlattenSeq(ps \o qs) = FlattenSeq(ps) \o FlattenSeq(qs)
  BY <1>1, FlattenConcat
<1>3. Solid(FlattenSeq(ps) \o FlattenSeq(qs)) = SolidOf(ps) \o SolidOf(qs)
  BY <1>1, SolidConcat DEF SolidOf
<1>4. ps \o qs \in Seq(Short(S))
  BY ConcatProperties
<1>. QED  BY <1>2, <1>3, <1>4 DEF SolidOf

LEMMA SolidOfNone == SolidOf(<<>>) = <<>> /\ Solid(<<>>) = <<>>
<1>1. <<>> \in Seq({}) /\ Len(<<>>) = 0
  BY EmptySeq
<1>2. \A i \in 1..Len(<<>>) : IsBlank((<<>>)[i])
  BY <1>1
<1>3. \A t \in Seq({}) : (\A i \in 1..Len(t) : IsBlank(t[i])) => Solid(t) = <<>>
  BY SolidBlank
<1>. QED  BY <1>1, <1>2, <1>3, FlattenEmpty DEF SolidOf

\* A text with its blanks taken off becomes one chunk, or none.
Stripped(s) == IF Strip(s) = <<>> THEN <<>> ELSE <<Strip(s)>>

LEMMA StrippedIs ==
  ASSUME NEW S, NEW s \in Seq(S), Len(s) <= Maximum + 1
  PROVE  Stripped(s) \in Seq(Short(S)) /\ SolidOf(Stripped(s)) = Solid(s)
<1>1. Strip(s) \in Seq(S) /\ Len(Strip(s)) <= Len(s) /\ Solid(Strip(s)) = Solid(s)
  BY StripIs
<1>2. CASE Strip(s) = <<>>
  <2>1. Stripped(s) = <<>> /\ <<>> \in Seq(Short(S))
    BY <1>2, EmptySeq DEF Stripped
  <2>. QED  BY <2>1, <1>1, <1>2, SolidOfNone
<1>3. CASE Strip(s) # <<>>
  <2> DEFINE x == Strip(s)
  <2>1. Stripped(s) = <<x>>
    BY <1>3 DEF Stripped
  <2>2. x \in Short(S)
    <3>1. Len(s) \in Nat /\ Len(x) \in Nat /\ Maximum \in Nat
      BY <1>1, LenProperties, StreamAssumption
    <3> HIDE DEF x
    <3>. QED  BY <1>1, <3>1 DEF Short, x
  <2> HIDE DEF x
  <2>3. FlattenSeq(<<x>>) = x
    BY <1>1, FlattenOne DEF x
  <2>. QED  BY <1>1, <2>1, <2>2, <2>3 DEF SolidOf, x
<1>. QED  BY <1>2, <1>3

\* What Chunked promises: short chunks and a short rest, and no solid text is lost.
ChunksOf(S, b, r) ==
  \E ps \in Seq(Short(S)), t \in Seq(S) :
    /\ r = [pieces |-> ps, rest |-> t] /\ Len(t) < Maximum
    /\ SolidOf(ps) \o Solid(t) = Solid(b)

\* The chunks made of a buffer and what stays in it lose nothing but blanks.
LEMMA ChunkedIs ==
  ASSUME NEW S, NEW b \in Seq(S)
  PROVE  ChunksOf(S, b, Chunked(b))
<1> DEFINE n == Len(b)
           P(i) == SubSeq(b, i + 1, n)
<1>0. n \in Nat /\ Maximum \in Nat
  BY LenProperties, StreamAssumption
<1>1. PICK f : f[0] = Chunked(b) /\ \A i \in 0..n : f[i] = ChunkedAt(f, b, i)
  BY ChunkedSteps
<1>2. ASSUME NEW i \in 0..n, \A k \in i + 1..n : ChunksOf(S, P(k), f[k])
      PROVE  ChunksOf(S, P(i), f[i])
  <2> DEFINE s == P(i)
             c == Cut(s)
  <2>1. s \in Seq(S) /\ Len(s) = n - i
    BY <1>0, PartOf
  <2>2. c \in 0..Len(s) /\ c <= Maximum + 1 /\ (c = 0 => Len(s) < Maximum)
    <3> HIDE DEF s
    <3>. QED  BY <2>1, CutIs
  <2>3. CASE c = 0
    <3>1. f[i] = [pieces |-> <<>>, rest |-> s]
      BY <1>1, <2>3, Zenon DEF ChunkedAt
    <3> HIDE DEF s
    <3>2. <<>> \in Seq(Short(S)) /\ SolidOf(<<>>) \o Solid(s) = Solid(s)
      BY <2>1, EmptySeq, SolidOfNone, SolidsAre, ConcatEmptySeq
    <3>3. Len(s) < Maximum
      BY <2>2, <2>3 DEF s
    <3>4. ChunksOf(S, s, f[i])
      BY <2>1, <3>1, <3>2, <3>3, Zenon DEF ChunksOf
    <3>. QED  BY <3>4 DEF s
  <2>4. CASE c # 0
    <3> DEFINE k == i + c
               x == SubSeq(s, 0 + 1, c)
               new == Stripped(x)
    <3>1. k \in i + 1..n /\ k \in i..n /\ c \in Nat /\ k - i = c /\ n \in k..n
      <4> HIDE DEF c, s
      <4>. QED  BY <1>0, <2>1, <2>2, <2>4
    <3>2. PICK ps \in Seq(Short(S)), t \in Seq(S) :
            /\ f[k] = [pieces |-> ps, rest |-> t] /\ Len(t) < Maximum
            /\ SolidOf(ps) \o Solid(t) = Solid(P(k))
      BY <3>1, <1>2, Zenon DEF ChunksOf
    <3>3. f[i] = [f[k] EXCEPT !.pieces = new \o @]
      <4>1. 0 + 1 = 1
        OBVIOUS
      <4>. QED  BY <1>1, <2>4, <4>1, Zenon DEF ChunkedAt, Piece, Stripped
    <3>4. s = x \o P(k)
      <4>1. c \in 0..Len(s) /\ Len(s) \in c..Len(s) /\ Len(s) \in Nat
        BY <2>2, <3>1
      <4>2. x \o SubSeq(s, c + 1, Len(s)) = SubSeq(s, 0 + 1, Len(s))
        <5> HIDE DEF s, c
        <5>. QED  BY <2>1, <4>1, AdjacentParts
      <4>3. SubSeq(s, 0 + 1, Len(s)) = s
        BY <2>1, SubSeqFull
      <4>4. SubSeq(s, k - i + 1, n - i) = P(k)
        <5> HIDE DEF k
        <5>. QED  BY <1>0, <3>1, PartOfPart
      <4>. QED  BY <4>2, <4>3, <4>4, <3>1, <2>1
    <3>5. x \in Seq(S) /\ Len(x) = c
      <4> HIDE DEF s, c
      <4>. QED  BY <2>1, <2>2, <3>1, PartOf
    <3>6. P(k) \in Seq(S)
      <4> HIDE DEF k
      <4>. QED  BY <1>0, <3>1, PartOf
    <3> DEFINE u == P(k)
    <3>7. u \in Seq(S) /\ s = x \o u /\ SolidOf(ps) \o Solid(t) = Solid(u)
      BY <3>2, <3>4, <3>6
    <3>8. Len(x) <= Maximum + 1
      BY <2>2, <3>5
    <3> HIDE DEF s, c, k, x, u
    <3>9. new \in Seq(Short(S)) /\ SolidOf(new) = Solid(x)
      BY <3>5, <3>8, StrippedIs
    <3> HIDE DEF new
    <3>10. f[i] = [pieces |-> new \o ps, rest |-> t]
      <4> DEFINE y == new \o ps
                 r == [pieces |-> ps, rest |-> t]
      <4>1. f[k] = r /\ r.pieces = ps
        BY <3>2
      <4>2. f[i] = [r EXCEPT !.pieces = y]
        BY <3>3, <4>1, Zenon
      <4> HIDE DEF y
      <4>3. [r EXCEPT !.pieces = y] = [pieces |-> y, rest |-> t]
        OBVIOUS
      <4>. QED  BY <4>2, <4>3, Zenon DEF y
    <3>11. new \o ps \in Seq(Short(S)) /\ SolidOf(new \o ps) = SolidOf(new) \o SolidOf(ps)
      BY <3>9, SolidOfConcat
    <3>12. SolidOf(new) \in Seq(S) /\ SolidOf(ps) \in Seq(S) /\ Solid(t) \in Seq(S)
      BY <3>9, ShortAre, SolidsAre
    <3>13. (SolidOf(new) \o SolidOf(ps)) \o Solid(t) = SolidOf(new) \o (SolidOf(ps) \o Solid(t))
      <4>1. Associate(SolidOf(new), SolidOf(ps), Solid(t))
        BY <3>12, Associates, Zenon
      <4>. QED  BY <4>1, Zenon DEF Associate
    <3>14. Solid(x \o u) = Solid(x) \o Solid(u)
      BY <3>5, <3>7, SolidConcat
    <3>15. SolidOf(new \o ps) \o Solid(t) = Solid(s)
      BY <3>7, <3>9, <3>11, <3>13, <3>14
    <3>16. ChunksOf(S, s, f[i])
      BY <3>2, <3>10, <3>11, <3>15, Zenon DEF ChunksOf
    <3>. QED  BY <3>16 DEF s
  <2>. QED  BY <2>3, <2>4
<1> DEFINE T == {d \in Nat : \A k \in 0..n : n - d <= k => ChunksOf(S, P(k), f[k])}
<1> HIDE DEF P
<1>3. 0 \in T
  <2>1. SUFFICES ASSUME NEW k \in 0..n, n - 0 <= k PROVE ChunksOf(S, P(k), f[k])
    OBVIOUS
  <2>2. \A l \in k + 1..n : FALSE
    BY <2>1, <1>0
  <2>. QED  BY <2>2, <1>2
<1>4. ASSUME NEW d \in Nat, d \in T PROVE d + 1 \in T
  <2>1. SUFFICES ASSUME NEW k \in 0..n, n - (d + 1) <= k PROVE ChunksOf(S, P(k), f[k])
    OBVIOUS
  <2>2. \A l \in k + 1..n : l \in 0..n /\ n - d <= l
    BY <2>1, <1>0
  <2>3. \A l \in k + 1..n : ChunksOf(S, P(l), f[l])
    BY <2>2, <1>4
  <2>. QED  BY <2>3, <1>2
<1>5. n \in T
  <2> HIDE DEF T
  <2>. QED  BY <1>0, <1>3, <1>4, NatSetInduction
<1>6. ChunksOf(S, P(0), f[0])
  <2>1. 0 \in 0..n /\ n - n <= 0
    BY <1>0
  <2>. QED  BY <1>5, <2>1
<1>7. P(0) = b
  BY SubSeqFull, 0 + 1 = 1 DEF P
<1>. QED  BY <1>1, <1>6, <1>7

\* Where the first speech ends; at the greatest length there is always an end.
LEMMA FirstEndIs ==
  ASSUME NEW S, NEW b \in Seq(S)
  PROVE  FirstEnd(b) \in 0..Len(b) /\ (Len(b) >= Maximum => FirstEnd(b) # 0)
<1> DEFINE stops == {i \in FirstMin..Len(b) : b[i] \in {".", "newline"}}
           top == Min({Len(b), Maximum + 1})
           spaces == {i \in 1..top : b[i] = " " /\ i > FirstMin}
<1>1. Len(b) \in Nat /\ Maximum \in Nat /\ FirstMin \in Nat /\ FirstMin # 0 /\ Maximum # 0
  BY LenProperties, StreamAssumption
<1>2. FirstEnd(b) = IF stops # {} THEN Min(stops)
                    ELSE IF Len(b) < Maximum THEN 0
                    ELSE IF spaces # {} THEN Max(spaces) - 1 ELSE Maximum
  BY DEF FirstEnd
<1>3. top \in Nat /\ top <= Len(b)
  BY <1>1, LesserOf
<1> HIDE DEF top
<1>4. stops # {} => Min(stops) \in 1..Len(b)
  <2>1. stops \subseteq Nat
    BY <1>1
  <2>2. \A i \in stops : i \in 1..Len(b)
    BY <1>1
  <2> HIDE DEF stops
  <2>. QED  BY <2>1, <2>2, MinOf
<1>5. spaces # {} => Max(spaces) - 1 \in 1..Len(b)
  <2>0. \A i \in spaces : i \in 1..top /\ i > FirstMin
    BY Zenon
  <2> HIDE DEF spaces
  <2>1. spaces \subseteq 0..top
    BY <1>3, <2>0
  <2>2. \A i \in spaces : i - 1 \in 1..Len(b)
    BY <1>1, <1>3, <2>0
  <2>. QED  BY <1>3, <2>1, <2>2, MaxOf
<1> HIDE DEF stops, spaces
<1>6. CASE stops # {}
  BY <1>1, <1>2, <1>4, <1>6
<1>7. CASE stops = {} /\ Len(b) < Maximum
  BY <1>1, <1>2, <1>7
<1>8. CASE stops = {} /\ ~(Len(b) < Maximum) /\ spaces # {}
  BY <1>1, <1>2, <1>5, <1>8
<1>9. CASE stops = {} /\ ~(Len(b) < Maximum) /\ spaces = {}
  BY <1>1, <1>2, <1>9
<1>. QED  BY <1>6, <1>7, <1>8, <1>9

\* The first speech is not held back, unless it begins with a blank.
Firsts == [buffer : Seq(Characters), emitted : BOOLEAN]
FirstNotDelayed(f) == ~f.emitted /\ Len(f.buffer) >= Maximum => IsBlank(f.buffer[1])

\* Nor after the next text: at its greatest length an end is found, and only blanks are
\* not emitted.
LEMMA FirstFedIs ==
  ASSUME NEW f \in Firsts, FirstNotDelayed(f), NEW out \in Seq(Characters)
  PROVE  FirstFed(f, out) \in Firsts /\ FirstNotDelayed(FirstFed(f, out))
<1> DEFINE b == f.buffer \o out
           end == FirstEnd(b)
           x == SubSeq(b, 0 + 1, end)
<1>1. f.buffer \in Seq(Characters) /\ f.emitted \in BOOLEAN
  BY DEF Firsts
<1>2. b \in Seq(Characters)
  BY <1>1, ConcatProperties
<1> HIDE DEF b
<1>3. /\ end \in 0..Len(b) /\ (Len(b) >= Maximum => end # 0) /\ Len(b) \in Nat
      /\ end \in Nat /\ Len(b) \in end..Len(b)
  BY <1>2, FirstEndIs, LenProperties
<1> HIDE DEF end
<1>4. x \in Seq(Characters) /\ Len(x) = end - 0 /\ \A i \in 1..end - 0 : x[i] = b[0 + i]
  BY <1>2, <1>3, PartOf
<1> HIDE DEF x
<1>5. FirstFed(f, out) = IF f.emitted \/ out = <<>> THEN f
                         ELSE IF Strip(x) = <<>> THEN [f EXCEPT !.buffer = b]
                         ELSE [buffer |-> SubSeq(b, end + 1, Len(b)), emitted |-> TRUE]
  <2>1. x = SubSeq(b, 1, end)
    BY 0 + 1 = 1 DEF x
  <2>. QED  BY <2>1, Zenon DEF FirstFed, b, end
<1>6. CASE f.emitted \/ out = <<>>
  BY <1>5, <1>6, Zenon
<1>7. CASE ~(f.emitted \/ out = <<>>) /\ Strip(x) = <<>>
  <2> DEFINE g == [f EXCEPT !.buffer = b]
  <2>1. FirstFed(f, out) = g
    BY <1>5, <1>7, Zenon
  <2>2. g \in Firsts /\ g.buffer = b
    BY <1>2 DEF Firsts
  <2>3. ASSUME Len(b) >= Maximum PROVE IsBlank(b[1])
    <3>1. 1 \in 1..end - 0 /\ 0 + 1 = 1
      BY <1>3, <2>3
    <3>2. IsBlank(x[1])
      BY <1>4, <1>7, <3>1, StripIs
    <3>. QED  BY <1>4, <3>1, <3>2
  <2> HIDE DEF g
  <2>. QED  BY <2>1, <2>2, <2>3 DEF FirstNotDelayed
<1>8. CASE ~(f.emitted \/ out = <<>>) /\ Strip(x) # <<>>
  <2> DEFINE g == [buffer |-> SubSeq(b, end + 1, Len(b)), emitted |-> TRUE]
  <2>1. FirstFed(f, out) = g
    BY <1>5, <1>8, Zenon
  <2>2. SubSeq(b, end + 1, Len(b)) \in Seq(Characters)
    BY <1>2, <1>3, PartOf
  <2>3. g \in Firsts /\ g.emitted
    BY <2>2 DEF Firsts
  <2> HIDE DEF g
  <2>. QED  BY <2>1, <2>3 DEF FirstNotDelayed
<1>. QED  BY <1>6, <1>7, <1>8

-----------------------------------------------------------------------------
(* The inductive invariant *)

\* Nothing has arrived: nobody has done anything.
Beginning ==
  /\ parser = [search |-> <<>>, value |-> <<>>, started |-> FALSE, complete |-> FALSE]
  /\ heard = <<>> /\ buffer = <<>> /\ chunks = <<>>
  /\ first = [buffer |-> <<>>, emitted |-> FALSE]

\* Of the request: what is read belongs to one message, and a request that can be
\* made has passed nothing on.
RequestInv ==
  /\ phase \in {"ready", "streaming", "said", "failed"} /\ attempt \in 0..Retries
  /\ sent \in Nat
  /\ message = {} \/ \E m \in Messages : message = {m}
  /\ phase \in {"streaming", "said"} => message # {}
  /\ (phase = "ready" \/ message = {}) => sent = 0
  /\ sent = 0 => Beginning

\* Of the parser: it has read what has arrived, or, at a failure, what arrived before.
ParserInv ==
  \A m \in message :
    \E s \in 0..sent : /\ s <= Len(Json(m)) /\ Parsed(m, parser, heard, s)
                       /\ phase \in {"streaming", "said"} => s = sent

\* Of the consumers: they hold back little, and have lost nothing.
ConsumersInv ==
  /\ heard \in Seq(Characters) /\ buffer \in Seq(Characters) /\ Len(buffer) < Maximum
  /\ chunks \in Seq(Short(Characters)) /\ first \in Firsts /\ FirstNotDelayed(first)
  /\ phase = "streaming" => SolidOf(chunks) \o Solid(buffer) = Solid(heard)
  /\ phase = "said" => \A m \in message : SolidOf(chunks) = Solid(m)

StreamInv == RequestInv /\ ParserInv /\ ConsumersInv

LEMMA InitHolds == Init => StreamInv
<1>1. <<>> \in Seq(Characters) /\ <<>> \in Seq(Short(Characters)) /\ Len(<<>>) = 0
  BY EmptySeq
<1>2. Retries \in Nat /\ Maximum \in Nat \ {0}
  BY StreamAssumption
<1>3. SUFFICES ASSUME Init PROVE StreamInv
  OBVIOUS
<1>4. RequestInv
  BY <1>2, <1>3 DEF Init, RequestInv, Beginning
<1>5. ParserInv
  BY <1>3 DEF Init, ParserInv
<1>6. ConsumersInv
  <2>1. first.buffer = <<>> /\ first \in Firsts
    BY <1>1, <1>3 DEF Init, Firsts
  <2>2. FirstNotDelayed(first)
    BY <1>1, <1>2, <2>1 DEF FirstNotDelayed
  <2>. QED  BY <1>1, <1>2, <1>3, <2>1, <2>2 DEF Init, ConsumersInv
<1>. QED  BY <1>4, <1>5, <1>6 DEF StreamInv

\* A step that stops a request, or repeats it when nothing has arrived.
LEMMA StopHolds ==
  ASSUME StreamInv, UNCHANGED <<message, sent, text>>, attempt' \in 0..Retries,
         phase' \in {"ready", "failed"}, phase' = "ready" => sent = 0
  PROVE  StreamInv'
<1>0. /\ message' = message /\ sent' = sent /\ parser' = parser /\ heard' = heard
      /\ buffer' = buffer /\ chunks' = chunks /\ first' = first
  BY DEF text
<1>1. RequestInv'
  BY <1>0 DEF StreamInv, RequestInv, Beginning
<1>2. ParserInv'
  BY <1>0 DEF StreamInv, ParserInv
<1>3. ConsumersInv'
  BY <1>0 DEF StreamInv, ConsumersInv
<1>. QED  BY <1>1, <1>2, <1>3 DEF StreamInv

\* Before anything has arrived, the parser searches in nothing.
LEMMA BeginningIsParsed ==
  ASSUME NEW m \in Seq(Characters)
  PROVE  Parsed(m, [search |-> <<>>, value |-> <<>>, started |-> FALSE, complete |-> FALSE],
                <<>>, 0)
<1> DEFINE p == [search |-> <<>>, value |-> <<>>, started |-> FALSE, complete |-> FALSE]
<1>1. /\ p \in Parsers /\ ~p.started /\ ~p.complete /\ p.value = <<>> /\ p.search = <<>>
  BY EmptySeq DEF Parsers
<1>2. SubSeq(Json(m), 0 + 1, 0) = <<>>
  BY SubSeqEmpty
<1>3. Len(<<>>) <= Window
  BY StreamAssumption
<1> HIDE DEF p
<1>4. \E o \in 0..0 : p.search = SubSeq(Json(m), o + 1, 0) /\ (0 > 0 => o < 0)
  BY <1>1, <1>2
<1>5. Searching(m, p, <<>>, 0)
  BY <1>1, <1>3, <1>4 DEF Searching
<1>. QED  BY <1>5 DEF Parsed, p

LEMMA MessagesAre == \A m \in Messages : m \in Seq(Characters)
BY StreamAssumption

\* An answer begins: the parser has read nothing of it yet.
LEMMA OpenedHolds == ASSUME StreamInv, Opened PROVE StreamInv'
<1>1. PICK m \in Messages : message' = {m}
  BY DEF Opened
<1>2. /\ phase = "ready" /\ phase' = "streaming" /\ sent' = 0 /\ attempt' = attempt
      /\ parser' = parser /\ heard' = heard
      /\ buffer' = buffer /\ chunks' = chunks /\ first' = first
  BY DEF Opened, text
<1>3. sent = 0 /\ Beginning
  BY <1>2 DEF StreamInv, RequestInv
<1>4. RequestInv'
  BY <1>1, <1>2, <1>3 DEF StreamInv, RequestInv, Beginning
<1>5. ParserInv'
  <2>1. m \in Seq(Characters)
    BY MessagesAre
  <2>2. Parsed(m, parser', heard', 0)
    BY <1>2, <1>3, <2>1, BeginningIsParsed DEF Beginning
  <2>3. 0 <= Len(Json(m))
    BY <2>1, JsonIs, LenProperties
  <2>. QED  BY <1>1, <1>2, <2>2, <2>3 DEF ParserInv
<1>6. ConsumersInv'
  <2>1. SolidOf(chunks') \o Solid(buffer') = Solid(heard')
    <3>1. <<>> \o <<>> = <<>>
      BY EmptySeq, ConcatEmptySeq
    <3>. QED  BY <1>2, <1>3, <3>1, SolidOfNone DEF Beginning
  <2>. QED  BY <1>2, <2>1 DEF StreamInv, ConsumersInv
<1>. QED  BY <1>4, <1>5, <1>6 DEF StreamInv

\* If what is new and was held back is told in part, so is everything together.
Regrouped(a, b, o, x, y, r) == (a \o b) \o o = (a \o x) \o (y \o r)
LEMMA Regroup ==
  ASSUME NEW S, NEW a \in Seq(S), NEW b \in Seq(S), NEW o \in Seq(S),
         NEW x \in Seq(S), NEW y \in Seq(S), NEW r \in Seq(S), (x \o y) \o r = b \o o
  PROVE  Regrouped(a, b, o, x, y, r)
<1>1. y \o r \in Seq(S)
  BY ConcatProperties, Zenon
<1>2. Associate(a, b, o) /\ Associate(x, y, r)
  BY Associates
<1> DEFINE z == y \o r
<1>3. z \in Seq(S)
  BY <1>1
<1> HIDE DEF z
<1>4. Associate(a, x, z)
  BY <1>3, Associates
<1>. QED  BY <1>2, <1>4, Zenon DEF Associate, Regrouped, z

\* The first of the chunks made of what was held back and of what is new, told after
\* those told before, leave something to be told; after all of them, what is held back.
ToldOn(cs, h, i, ps, t, x) ==
  /\ x \in Seq(Short(Characters)) /\ cs \o x \in Seq(Short(Characters))
  /\ SolidOf(cs \o x) = SolidOf(cs) \o SolidOf(x)
  /\ \E left \in Seq(Characters) : /\ SolidOf(cs \o x) \o left = Solid(h)
                                   /\ i = Len(ps) => left = Solid(t)

LEMMA TellsOn ==
  ASSUME NEW cs \in Seq(Short(Characters)), NEW b \in Seq(Characters), NEW h \in Seq(Characters),
         SolidOf(cs) \o Solid(b) = Solid(h), NEW out \in Seq(Characters),
         NEW ps \in Seq(Short(Characters)), NEW t \in Seq(Characters),
         SolidOf(ps) \o Solid(t) = Solid(b \o out), NEW i \in 0..Len(ps),
         NEW x, x = SubSeq(ps, 1, i)
  PROVE  ToldOn(cs, h \o out, i, ps, t, x)
<1> DEFINE y == SubSeq(ps, i + 1, Len(ps))
<1>1. Len(ps) \in Nat /\ i \in 0..Len(ps) /\ Len(ps) \in i..Len(ps) /\ i \in Nat
  BY LenProperties
<1>2. x \in Seq(Short(Characters)) /\ y \in Seq(Short(Characters))
  <2>1. SubSeq(ps, 0 + 1, i) \in Seq(Short(Characters))
    BY <1>1, PartOf
  <2>2. y \in Seq(Short(Characters))
    BY <1>1, PartOf
  <2>. QED  BY <2>1, <2>2
<1>3. ps = x \o y
  <2>1. SubSeq(ps, 0 + 1, i) \o SubSeq(ps, i + 1, Len(ps)) = SubSeq(ps, 0 + 1, Len(ps))
    BY <1>1, AdjacentParts
  <2>2. SubSeq(ps, 0 + 1, Len(ps)) = ps
    BY SubSeqFull
  <2>3. 0 + 1 = 1
    OBVIOUS
  <2>. QED  BY <2>1, <2>2, <2>3, Zenon
<1>4. i = Len(ps) => y = <<>>
  BY <1>1, SubSeqEmpty
<1> HIDE DEF y
<1> DEFINE A == SolidOf(cs)
           B == Solid(b)
           O == Solid(out)
           X == SolidOf(x)
           Y == SolidOf(y)
           R == Solid(t)
<1>5. /\ A \in Seq(Characters) /\ B \in Seq(Characters) /\ O \in Seq(Characters)
      /\ X \in Seq(Characters) /\ Y \in Seq(Characters) /\ R \in Seq(Characters)
  BY <1>2, ShortAre, SolidsAre
<1>6. cs \o x \in Seq(Short(Characters)) /\ SolidOf(cs \o x) = A \o X /\ SolidOf(x \o y) = X \o Y
  BY <1>2, SolidOfConcat
<1>7. Solid(h \o out) = (A \o B) \o O /\ Solid(b \o out) = B \o O
  <2>1. Solid(h \o out) = Solid(h) \o O
    BY SolidConcat, Zenon
  <2>2. Solid(b \o out) = B \o O
    BY SolidConcat, Zenon
  <2>3. A \o B = Solid(h)
    OBVIOUS
  <2>. QED  BY <2>1, <2>2, <2>3, Zenon
<1>8. (X \o Y) \o R = B \o O
  BY <1>3, <1>6, <1>7
<1> HIDE DEF A, B, O, X, Y, R
<1>9. (A \o B) \o O = (A \o X) \o (Y \o R)
  <2>1. Regrouped(A, B, O, X, Y, R)
    BY <1>5, <1>8, Regroup
  <2>. QED  BY <2>1 DEF Regrouped
<1>10. Y \o R \in Seq(Characters) /\ (i = Len(ps) => Y \o R = R)
  <2>1. Y \o R \in Seq(Characters)
    BY <1>5, ConcatProperties
  <2>2. i = Len(ps) => Y = <<>>
    BY <1>4, SolidOfNone DEF Y
  <2>3. <<>> \o R = R
    BY <1>5, ConcatEmptySeq
  <2>. QED  BY <2>1, <2>2, <2>3
<1>11. SolidOf(cs \o x) \o (Y \o R) = Solid(h \o out)
  BY <1>6, <1>7, <1>9
<1>12. \E left \in Seq(Characters) : /\ SolidOf(cs \o x) \o left = Solid(h \o out)
                                     /\ i = Len(ps) => left = R
  BY <1>10, <1>11
<1>. QED  BY <1>2, <1>6, <1>12, Zenon DEF A, X, R, ToldOn

\* What a step of Delta finds, and what it does with the text of the event: nothing,
\* or it passes the text on.
Arrives(m) ==
  /\ message = {m} /\ m \in Messages /\ m \in Seq(Characters) /\ phase = "streaming"
  /\ sent \in Nat /\ sent' \in sent + 1..Len(Json(m))
  /\ attempt' = attempt /\ message' = message
Dropped == phase' = "failed" /\ UNCHANGED text
PassedOn(m) ==
  /\ phase' \in {"streaming", "failed"} /\ Parsed(m, parser', heard', sent')
  /\ \E out \in Seq(Characters) : heard' = heard \o out
  /\ heard' \in Seq(Characters) /\ buffer' \in Seq(Characters) /\ Len(buffer') < Maximum
  /\ first' \in Firsts /\ FirstNotDelayed(first')
  /\ \E x \in Seq(Short(Characters)), left \in Seq(Characters) :
       /\ chunks' = chunks \o x /\ chunks' \in Seq(Short(Characters))
       /\ SolidOf(chunks') = SolidOf(chunks) \o SolidOf(x)
       /\ SolidOf(chunks') \o left = Solid(heard')
       /\ phase' = "streaming" => left = Solid(buffer')

\* The fragments of the JSON are what it goes on with.
LEMMA FragmentIs ==
  ASSUME NEW m \in Seq(Characters), sent \in Nat, NEW g \in Fragments(Json(m))
  PROVE  \E t \in sent + 1..Len(Json(m)) : g = SubSeq(Json(m), sent + 1, t) /\ sent + Len(g) = t
<1>1. Json(m) \in Seq(Symbols) /\ Len(Json(m)) \in Nat
  BY JsonIs, LenProperties
<1> DEFINE J == Json(m)
<1>2. PICK n \in 1..Len(J) - sent : g = SubSeq(J, sent + 1, sent + n)
  BY DEF Fragments
<1> DEFINE t == sent + n
<1>3. t \in sent + 1..Len(J) /\ t \in sent..Len(J)
  BY <1>1, <1>2
<1> HIDE DEF t, J
<1>4. g = SubSeq(J, sent + 1, t)
  BY <1>2 DEF t
<1>5. Len(g) = t - sent
  BY <1>1, <1>3, <1>4, PartOf DEF J
<1>6. sent + Len(g) = t
  BY <1>3, <1>5
<1>. QED  BY <1>3, <1>4, <1>6 DEF J

\* An event with text is dropped at an error, or passed on.
LEMMA DeltaIs ==
  ASSUME StreamInv, NEW m \in message, Delta(Json(m))
  PROVE  Arrives(m) /\ (Dropped \/ PassedOn(m))
<1>1. PICK g \in Fragments(Json(m)) : sent' = sent + Len(g) /\ Consumed(g)
  BY DEF Delta
<1>2. message = {m} /\ m \in Messages /\ m \in Seq(Characters)
  BY MessagesAre DEF StreamInv, RequestInv
<1>3. sent \in Nat /\ phase = "streaming" /\ attempt' = attempt /\ message' = message
  BY DEF StreamInv, RequestInv, Delta
<1>4. /\ sent' \in sent + 1..Len(Json(m)) /\ g = SubSeq(Json(m), sent + 1, sent')
  BY <1>1, <1>2, <1>3, FragmentIs
<1>5. sent <= Len(Json(m)) /\ Parsed(m, parser, heard, sent)
  BY <1>3 DEF StreamInv, ParserInv
<1>6. FeedsOn(m, parser, heard, sent', g)
  <2>1. sent \in 0..Len(Json(m))
    BY <1>2, <1>3, <1>5, JsonIs, LenProperties
  <2>. QED  BY <1>2, <1>4, <1>5, <2>1, FedParses
<1>7. Arrives(m)
  BY <1>2, <1>3, <1>4 DEF Arrives
<1> DEFINE f == Fed(parser, g)
           out == f.out
           c == Chunked(buffer \o out)
<1>8. CASE f.error
  <2>1. Dropped
    BY <1>1, <1>8 DEF Consumed, Dropped
  <2>. QED  BY <1>7, <2>1
<1>9. CASE ~f.error
  <2>1. /\ parser' = f.parser /\ heard' = heard \o out
        /\ buffer' = c.rest /\ first' = FirstFed(first, out)
    BY <1>1, <1>9, Zenon DEF Consumed
  <2>2. PICK i \in 0..Len(c.pieces) :
          /\ chunks' = chunks \o SubSeq(c.pieces, 1, i)
          /\ phase' = IF i = Len(c.pieces) THEN "streaming" ELSE "failed"
    BY <1>1, <1>9, Zenon DEF Consumed
  <2>3. out \in Seq(Characters) /\ Parsed(m, f.parser, heard \o out, sent')
    BY <1>6, <1>9, Zenon DEF FeedsOn
  <2> HIDE DEF f
  <2>4. /\ heard \in Seq(Characters) /\ buffer \in Seq(Characters)
        /\ chunks \in Seq(Short(Characters)) /\ first \in Firsts /\ FirstNotDelayed(first)
        /\ SolidOf(chunks) \o Solid(buffer) = Solid(heard)
    BY <1>3 DEF StreamInv, ConsumersInv
  <2> HIDE DEF out
  <2>5. first' \in Firsts /\ FirstNotDelayed(first')
    BY <2>1, <2>3, <2>4, FirstFedIs
  <2>6. buffer \o out \in Seq(Characters) /\ heard \o out \in Seq(Characters)
    BY <2>3, <2>4, ConcatProperties
  <2>7. ChunksOf(Characters, buffer \o out, c)
    BY <2>6, ChunkedIs
  <2> HIDE DEF c
  <2>8. PICK ps \in Seq(Short(Characters)), t \in Seq(Characters) :
          /\ c = [pieces |-> ps, rest |-> t] /\ Len(t) < Maximum
          /\ SolidOf(ps) \o Solid(t) = Solid(buffer \o out)
    BY <2>7, Zenon DEF ChunksOf
  <2>9. c.pieces = ps /\ c.rest = t
    BY <2>8
  <2> DEFINE x == SubSeq(ps, 1, i)
  <2>10. i \in 0..Len(ps) /\ chunks' = chunks \o x /\ phase' = IF i = Len(ps) THEN "streaming" ELSE "failed"
    BY <2>2, <2>9, Zenon
  <2>11. ToldOn(chunks, heard \o out, i, ps, t, x)
    BY <2>3, <2>4, <2>8, <2>10, TellsOn
  <2> HIDE DEF x
  <2>12. PICK left \in Seq(Characters) : /\ SolidOf(chunks') \o left = Solid(heard')
                                         /\ i = Len(ps) => left = Solid(t)
    BY <2>1, <2>10, <2>11, Zenon DEF ToldOn
  <2>13. phase' \in {"streaming", "failed"} /\ (phase' = "streaming" => left = Solid(buffer'))
    BY <2>1, <2>9, <2>10, <2>12
  <2>14. \E y \in Seq(Short(Characters)), l \in Seq(Characters) :
           /\ chunks' = chunks \o y /\ chunks' \in Seq(Short(Characters))
           /\ SolidOf(chunks') = SolidOf(chunks) \o SolidOf(y)
           /\ SolidOf(chunks') \o l = Solid(heard')
           /\ phase' = "streaming" => l = Solid(buffer')
    BY <2>10, <2>11, <2>12, <2>13, Zenon DEF ToldOn
  <2>15. Parsed(m, parser', heard', sent') /\ heard' \in Seq(Characters)
    BY <2>1, <2>3, <2>6, Zenon
  <2>16. buffer' \in Seq(Characters) /\ Len(buffer') < Maximum
    BY <2>1, <2>8, <2>9
  <2>17. PassedOn(m)
    BY <2>1, <2>3, <2>5, <2>13, <2>14, <2>15, <2>16, Zenon DEF PassedOn
  <2>. QED  BY <1>7, <2>17
<1>. QED  BY <1>8, <1>9

\* An event with text, dropped at an error or passed on.
LEMMA DeltaHolds == ASSUME StreamInv, NEW m \in message, Delta(Json(m)) PROVE StreamInv'
<1>1. Arrives(m) /\ (Dropped \/ PassedOn(m))
  BY DeltaIs
<1>2. /\ message = {m} /\ m \in Messages /\ m \in Seq(Characters) /\ phase = "streaming"
      /\ sent \in Nat /\ sent' \in sent + 1..Len(Json(m)) /\ Len(Json(m)) \in Nat
      /\ attempt' = attempt /\ message' = message
  <2>1. m \in Seq(Characters)
    BY <1>1 DEF Arrives
  <2>. QED  BY <1>1, <2>1, JsonIs, LenProperties DEF Arrives
<1> DEFINE n == Len(Json(m))
<1>3. sent' \in Nat /\ sent' # 0 /\ sent' <= n /\ sent \in 0..sent' /\ sent <= n
  <2> HIDE DEF n
  <2>. QED  BY <1>2 DEF n
<1>4. CASE Dropped
  <2>1. /\ phase' = "failed" /\ parser' = parser /\ heard' = heard
        /\ buffer' = buffer /\ chunks' = chunks /\ first' = first
    BY <1>4 DEF Dropped, text
  <2>2. RequestInv'
    BY <1>2, <1>3, <2>1 DEF StreamInv, RequestInv
  <2>3. ParserInv'
    <3>1. Parsed(m, parser, heard, sent)
      BY <1>2 DEF StreamInv, ParserInv
    <3>. QED  BY <1>2, <1>3, <2>1, <3>1 DEF ParserInv
  <2>4. ConsumersInv'
    BY <2>1 DEF StreamInv, ConsumersInv
  <2>. QED  BY <2>2, <2>3, <2>4 DEF StreamInv
<1>5. CASE PassedOn(m)
  <2>1. phase' \in {"streaming", "failed"}
    BY <1>5 DEF PassedOn
  <2>2. RequestInv'
    BY <1>2, <1>3, <2>1 DEF StreamInv, RequestInv
  <2>3. ParserInv'
    <3>1. Parsed(m, parser', heard', sent')
      BY <1>5 DEF PassedOn
    <3>2. sent' \in 0..sent'
      BY <1>3
    <3>. QED  BY <1>2, <1>3, <3>1, <3>2 DEF ParserInv
  <2>4. ConsumersInv'
    BY <1>5, <2>1 DEF PassedOn, ConsumersInv
  <2>. QED  BY <2>2, <2>3, <2>4 DEF StreamInv
<1>. QED  BY <1>1, <1>4, <1>5

\* The stream ends before the message does, or the rest of the message is told.
SaidAll(m) ==
  /\ message = {m} /\ m \in Messages /\ m \in Seq(Characters)
  /\ phase' = "said" /\ heard = m /\ buffer' = <<>>
  /\ \E x \in Seq(Short(Characters)) :
       /\ chunks' = chunks \o x /\ chunks' \in Seq(Short(Characters))
       /\ SolidOf(chunks') = SolidOf(chunks) \o SolidOf(x) /\ SolidOf(chunks') = Solid(m)

LEMMA EndsIs ==
  ASSUME StreamInv, Ends
  PROVE  Dropped \/ \E m \in message : SaidAll(m)
<1>1. CASE ~parser.complete
  BY <1>1 DEF Ends, Finished, Dropped, text
<1>2. CASE parser.complete
  <2>1. phase = "streaming" /\ phase' = "said" /\ buffer' = <<>>
        /\ chunks' = IF Strip(buffer) = <<>> THEN chunks ELSE Append(chunks, Strip(buffer))
    BY <1>2, Zenon DEF Ends, Finished
  <2>2. PICK m \in Messages : message = {m}
    BY <2>1 DEF StreamInv, RequestInv
  <2>3. m \in Seq(Characters)
    BY MessagesAre
  <2>4. Parsed(m, parser, heard, sent)
    BY <2>1, <2>2 DEF StreamInv, ParserInv
  <2>5. PICK l \in 0..Len(m) : Reading(m, parser, heard, sent, l)
    BY <1>2, <2>4 DEF Parsed, Searching
  <2>6. l = Len(m)
    BY <1>2, <2>5 DEF Reading
  <2>7. heard = m
    <3>1. heard = SubSeq(m, 1, Len(m))
      BY <2>5, <2>6 DEF Reading
    <3>. QED  BY <2>3, <3>1, SubSeqFull
  <2> DEFINE x == Stripped(buffer)
  <2>8. /\ buffer \in Seq(Characters) /\ Len(buffer) < Maximum
        /\ chunks \in Seq(Short(Characters)) /\ SolidOf(chunks) \o Solid(buffer) = Solid(heard)
    BY <2>1 DEF StreamInv, ConsumersInv
  <2>9. Len(buffer) <= Maximum + 1
    BY <2>8, StreamAssumption, LenProperties
  <2>10. x \in Seq(Short(Characters)) /\ SolidOf(x) = Solid(buffer)
    BY <2>8, <2>9, StrippedIs
  <2>11. chunks' = chunks \o x
    <3>1. CASE Strip(buffer) = <<>>
      <4>1. x = <<>> /\ chunks \o <<>> = chunks
        BY <2>8, <3>1, ConcatEmptySeq DEF Stripped
      <4>. QED  BY <2>1, <3>1, <4>1
    <3>2. CASE Strip(buffer) # <<>>
      <4> DEFINE y == Strip(buffer)
      <4>1. x = <<y>> /\ chunks' = Append(chunks, y)
        BY <2>1, <3>2 DEF Stripped
      <4>2. chunks' = chunks \o <<y>>
        <5>1. y \in Seq(Characters)
          BY <2>8, StripIs
        <5>2. chunks \in Seq(Seq(Characters))
          BY <2>8, ShortAre
        <5> HIDE DEF y
        <5>3. Append(chunks, y) = chunks \o <<y>>
          BY <5>1, <5>2, AppendIsConcat
        <5>. QED  BY <4>1, <5>3
      <4>. QED  BY <4>1, <4>2
    <3>. QED  BY <3>1, <3>2
  <2> HIDE DEF x
  <2>12. chunks \o x \in Seq(Short(Characters)) /\ SolidOf(chunks \o x) = SolidOf(chunks) \o SolidOf(x)
    BY <2>8, <2>10, SolidOfConcat
  <2>13. SaidAll(m)
    BY <2>1, <2>2, <2>3, <2>7, <2>8, <2>10, <2>11, <2>12 DEF SaidAll
  <2>. QED  BY <2>2, <2>13
<1>. QED  BY <1>1, <1>2

\* The end of the stream.
LEMMA EndsHolds == ASSUME StreamInv, Ends PROVE StreamInv'
<1>1. /\ phase = "streaming" /\ attempt' = attempt /\ message' = message /\ sent' = sent
      /\ parser' = parser /\ heard' = heard /\ first' = first
  BY DEF Ends
<1>2. CASE Dropped
  <2>1. attempt' \in 0..Retries /\ phase' = "failed" /\ UNCHANGED <<message, sent, text>>
    BY <1>1, <1>2 DEF StreamInv, RequestInv, Dropped
  <2>. QED  BY <2>1, StopHolds
<1>3. ASSUME NEW m \in message, SaidAll(m) PROVE StreamInv'
  <2>1. /\ message = {m} /\ m \in Messages /\ m \in Seq(Characters)
        /\ phase' = "said" /\ heard = m /\ buffer' = <<>>
        /\ chunks' \in Seq(Short(Characters)) /\ SolidOf(chunks') = Solid(m)
    BY <1>3 DEF SaidAll
  <2>2. PICK s \in 0..sent : /\ s <= Len(Json(m)) /\ Parsed(m, parser, heard, s) /\ s = sent
    BY <1>1 DEF StreamInv, ParserInv
  <2>3. RequestInv'
    <3>1. parser.complete
      BY <1>1, <2>1 DEF Ends, Finished
    <3>2. sent # 0
      BY <3>1 DEF StreamInv, RequestInv, Beginning
    <3>. QED  BY <1>1, <2>1, <3>2 DEF StreamInv, RequestInv
  <2>4. ParserInv'
    BY <1>1, <2>1, <2>2 DEF ParserInv
  <2>5. ConsumersInv'
    <3>1. <<>> \in Seq(Characters) /\ Len(<<>>) = 0 /\ 0 < Maximum
      BY EmptySeq, StreamAssumption
    <3>. QED  BY <1>1, <2>1, <3>1 DEF StreamInv, ConsumersInv
  <2>. QED  BY <2>3, <2>4, <2>5 DEF StreamInv
<1>. QED  BY <1>2, <1>3, EndsIs

\* What arrives, is decoded, is put out and is told stay together in every state.
THEOREM StreamInvariant == Spec => []StreamInv
<1>1. StreamInv /\ [Next]_vars => StreamInv'
  <2>1. SUFFICES ASSUME StreamInv, [Next]_vars PROVE StreamInv'
    OBVIOUS
  <2>2. CASE UNCHANGED vars
    BY <2>1, <2>2 DEF vars, StreamInv, RequestInv, ParserInv, ConsumersInv, Beginning
  <2>3. attempt \in 0..Retries /\ Retries \in Nat
    BY <2>1, StreamAssumption DEF StreamInv, RequestInv
  <2>4. ASSUME Again, UNCHANGED <<message, sent, text>> PROVE StreamInv'
    <3>1. /\ phase' \in {"ready", "failed"} /\ attempt' \in 0..Retries
          /\ phase' = "ready" => sent = 0
      BY <2>3, <2>4 DEF Again, MayRetry
    <3>. QED  BY <2>1, <2>4, <3>1, StopHolds
  <2>5. CASE RequestFails
    BY <2>4, <2>5 DEF RequestFails
  <2>6. CASE Refused
    BY <2>1, <2>3, <2>6, StopHolds DEF Refused
  <2>7. CASE Opened
    BY <2>1, <2>7, OpenedHolds
  <2>8. CASE Breaks
    BY <2>4, <2>8 DEF Breaks
  <2>9. CASE Spoils
    BY <2>1, <2>3, <2>9, StopHolds DEF Spoils
  <2>10. CASE Ends
    BY <2>1, <2>10, EndsHolds
  <2>11. ASSUME NEW m \in message, Delta(Json(m)) PROVE StreamInv'
    BY <2>1, <2>11, DeltaHolds
  <2>. QED  BY <2>1, <2>2, <2>5, <2>6, <2>7, <2>8, <2>9, <2>10, <2>11 DEF Next
<1>. QED  BY <1>1, InitHolds, PTL DEF Spec

-----------------------------------------------------------------------------
(* The properties *)

\* What the parser keeps, after any part of the JSON.
ParserFits(p) ==
  /\ p.started \in BOOLEAN /\ p.complete \in BOOLEAN
  /\ Len(p.search) <= Window /\ Len(p.value) < 6
  /\ p.complete => p.started /\ p.value = <<>>

LEMMA ParsedFits ==
  ASSUME NEW m \in Seq(Characters), NEW p, NEW h, NEW s \in 0..Len(Json(m)), Parsed(m, p, h, s)
  PROVE  ParserFits(p)
<1>1. Len(<<>>) = 0 /\ Window \in Nat /\ 0 <= Window /\ 0 < 6
  BY StreamAssumption
<1>2. CASE Searching(m, p, h, s)
  BY <1>1, <1>2 DEF Searching, Parsers, ParserFits
<1>3. ASSUME NEW l \in 0..Len(m), Reading(m, p, h, s, l) PROVE ParserFits(p)
  <2>1. /\ p \in Parsers /\ p.started /\ p.search = <<>>
        /\ At(m, l) <= s /\ (l < Len(m) => s < At(m, l + 1))
        /\ p.value = Undecoded(m, l, s) /\ (p.complete => l = Len(m))
    BY <1>3 DEF Reading
  <2>2. s \in At(m, l)..Len(Json(m))
    BY <2>1, AtGrows, LenProperties, JsonIs
  <2>3. Len(p.value) < 6 /\ (l = Len(m) => p.value = <<>>)
    BY <2>1, <2>2, UndecodedFits
  <2>4. p.started \in BOOLEAN /\ p.complete \in BOOLEAN
    BY <2>1 DEF Parsers
  <2>. QED  BY <1>1, <2>1, <2>3, <2>4 DEF ParserFits
<1>. QED  BY <1>2, <1>3 DEF Parsed

\* The parser has the type of its fields, keeps at most Window symbols while it looks
\* for the key and less than one escape afterwards, and does not decode after the
\* end of the message (AssistantMessageStreamParser).
THEOREM TypeCorrect == Spec => []TypeOK
<1>1. StreamInv => TypeOK
  <2>1. SUFFICES ASSUME StreamInv PROVE TypeOK
    OBVIOUS
  <2>2. ParserFits(parser)
    <3>1. CASE message = {}
      <4>1. parser = [search |-> <<>>, value |-> <<>>, started |-> FALSE, complete |-> FALSE]
        BY <2>1, <3>1 DEF StreamInv, RequestInv, Beginning
      <4>2. Len(<<>>) = 0 /\ Window \in Nat /\ 0 <= Window /\ 0 < 6
        BY StreamAssumption
      <4>. QED  BY <4>1, <4>2 DEF ParserFits
    <3>2. ASSUME NEW m \in message PROVE ParserFits(parser)
      <4>1. m \in Seq(Characters)
        BY <2>1, <3>2, MessagesAre DEF StreamInv, RequestInv
      <4>2. PICK s \in 0..sent : s <= Len(Json(m)) /\ Parsed(m, parser, heard, s)
        BY <2>1, <3>2 DEF StreamInv, ParserInv
      <4>3. s \in 0..Len(Json(m))
        BY <2>1, <4>1, <4>2, JsonIs, LenProperties DEF StreamInv, RequestInv
      <4>. QED  BY <4>1, <4>2, <4>3, ParsedFits
    <3>. QED  BY <3>1, <3>2
  <2>3. first.emitted \in BOOLEAN
    BY <2>1 DEF StreamInv, ConsumersInv, Firsts
  <2>. QED  BY <2>1, <2>2, <2>3 DEF TypeOK, ParserFits, StreamInv, RequestInv
<1>. QED  BY <1>1, StreamInvariant, PTL

\* The characters of m that are whole among the first s symbols.
WholeAt(m, s) == {j \in 0..Len(m) : At(m, j) <= s}
HeardWhole(m, h, s) ==
  IsPrefix(h, m) /\ (WholeAt(m, s) # {} => Len(h) = Max(WholeAt(m, s)))

\* What the parser has put out is what is whole.
LEMMA ParsedIsHeard ==
  ASSUME NEW m \in Seq(Characters), NEW p, NEW h, NEW s \in 0..Len(Json(m)), Parsed(m, p, h, s)
  PROVE  HeardWhole(m, h, s) /\ \E l \in 0..Len(m) : h = SubSeq(m, 1, l)
<1>1. Len(m) \in Nat /\ s \in Nat
  BY LenProperties, JsonIs
<1>2. ASSUME NEW l \in 0..Len(m), h = SubSeq(m, 1, l) PROVE IsPrefix(h, m) /\ Len(h) = l
  <2>1. Len(h) = l /\ l <= Len(m)
    BY <1>1, <1>2, PrefixGrows
  <2>2. h \in Seq(Characters)
    BY <1>2, PrefixGrows
  <2>3. SubSeq(h, 1, Len(h)) = h
    BY <2>2, SubSeqFull
  <2>. QED  BY <1>2, <2>1, <2>3 DEF IsPrefix
<1>3. CASE Searching(m, p, h, s)
  <2>1. h = <<>> /\ s < 3
    BY <1>3 DEF Searching
  <2>2. WholeAt(m, s) = {}
    BY <1>1, <2>1, AtGrows DEF WholeAt
  <2>3. 0 \in 0..Len(m) /\ h = SubSeq(m, 1, 0)
    BY <1>1, <2>1, SubSeqEmpty
  <2>. QED  BY <1>2, <2>2, <2>3 DEF HeardWhole
<1>4. ASSUME NEW l \in 0..Len(m), Reading(m, p, h, s, l)
      PROVE  HeardWhole(m, h, s) /\ \E k \in 0..Len(m) : h = SubSeq(m, 1, k)
  <2>1. h = SubSeq(m, 1, l) /\ At(m, l) <= s /\ (l < Len(m) => s < At(m, l + 1))
    BY <1>4 DEF Reading
  <2>2. l \in WholeAt(m, s)
    BY <2>1 DEF WholeAt
  <2>3. ASSUME NEW j \in WholeAt(m, s) PROVE j <= l
    <3>1. j \in 0..Len(m) /\ At(m, j) <= s
      BY <2>3 DEF WholeAt
    <3>2. SUFFICES ASSUME l < j PROVE FALSE
      BY <3>1, <1>1
    <3>3. l + 1 \in 0..Len(m) /\ l + 1 <= j /\ l < Len(m)
      BY <1>1, <3>1, <3>2
    <3>4. At(m, l + 1) <= At(m, j) /\ At(m, l + 1) \in Nat /\ At(m, j) \in Nat
      BY <3>1, <3>3, AtGrows
    <3>. QED  BY <1>1, <2>1, <3>1, <3>3, <3>4
  <2>4. WholeAt(m, s) \subseteq 0..Len(m)
    BY DEF WholeAt
  <2>5. Max(WholeAt(m, s)) = l
    <3> DEFINE W == WholeAt(m, s)
    <3> HIDE DEF W
    <3>1. Max(W) \in W /\ \A j \in W : j <= Max(W)
      BY <1>1, <2>2, <2>4, MaxOf DEF W
    <3>2. Max(W) <= l /\ l <= Max(W) /\ Max(W) \in Nat
      BY <1>1, <2>2, <2>3, <2>4, <3>1 DEF W
    <3>. QED  BY <3>2 DEF W
  <2>. QED  BY <1>2, <2>1, <2>5 DEF HeardWhole
<1>. QED  BY <1>3, <1>4 DEF Parsed

\* Whatever the message and however its JSON is split into events, in the middle of
\* the key, an escape or a surrogate pair, the text put out is the message up to the
\* last character that has arrived whole (AssistantMessageStreamParser.feed).
THEOREM HeardCorrect == Spec => []HeardIsWhatArrived
<1>1. StreamInv => HeardIsWhatArrived
  <2>1. SUFFICES ASSUME StreamInv, NEW m \in message
        PROVE  /\ IsPrefix(heard, m)
               /\ phase \in {"streaming", "said"} /\ WholeAt(m, sent) # {} =>
                    Len(heard) = Max(WholeAt(m, sent))
    <3>1. Len(Prelude) = 3
      BY DEF Prelude
    <3>2. \A m \in message : {j \in 0..Len(m) : Len(Prelude) + Len(Encoded(SubSeq(m, 1, j))) <= sent}
                             = WholeAt(m, sent)
      BY <3>1 DEF WholeAt, At, Place
    <3>. QED  BY <3>2, Zenon DEF HeardIsWhatArrived
  <2>2. m \in Seq(Characters)
    BY <2>1, MessagesAre DEF StreamInv, RequestInv
  <2>3. PICK s \in 0..sent : /\ s <= Len(Json(m)) /\ Parsed(m, parser, heard, s)
                             /\ phase \in {"streaming", "said"} => s = sent
    BY <2>1 DEF StreamInv, ParserInv
  <2>4. s \in 0..Len(Json(m))
    BY <2>1, <2>2, <2>3, JsonIs, LenProperties DEF StreamInv, RequestInv
  <2>5. HeardWhole(m, heard, s)
    BY <2>2, <2>3, <2>4, ParsedIsHeard
  <2>. QED  BY <2>3, <2>5 DEF HeardWhole
<1>. QED  BY <1>1, StreamInvariant, PTL

\* Neither consumer holds back Maximum characters of a reply that does not begin with
\* blanks, and no chunk is more than one longer (StreamingTextChunker.feed,
\* FirstSpeechChunkBuffer.feed).
THEOREM SpeechCorrect == Spec => []SpeechIsNotDelayed
<1>1. StreamInv => SpeechIsNotDelayed
  BY ShortAre DEF StreamInv, ConsumersInv, FirstNotDelayed, SpeechIsNotDelayed
<1>. QED  BY <1>1, StreamInvariant, PTL

-----------------------------------------------------------------------------
(* The refinement *)

\* An answer that goes on with u after what is told has been told from its beginning.
Continues(a, before, after, x) ==
  /\ Len(before) + Len(x) = Len(after) /\ Len(after) <= Len(a)
  /\ Len(x) \in Nat /\ Len(before) \in Nat /\ Len(a) \in Nat
  /\ after = SubSeq(a, 1, Len(after)) /\ (Len(x) = 0 => after = before)

LEMMA ContinuesIs ==
  ASSUME NEW S, NEW before \in Seq(S), NEW x \in Seq(S), NEW u \in Seq(S),
         NEW after, after = before \o x, NEW a, a = after \o u
  PROVE  Continues(a, before, after, x)
<1>1. after \in Seq(S) /\ Len(after) = Len(before) + Len(x)
  BY ConcatProperties
<1>2. a \in Seq(S) /\ Len(a) = Len(after) + Len(u)
  BY <1>1, ConcatProperties
<1>3. /\ Len(x) \in Nat /\ Len(before) \in Nat /\ Len(u) \in Nat /\ Len(after) \in Nat
      /\ Len(a) \in Nat
  BY <1>1, <1>2, LenProperties
<1>4. after = SubSeq(a, 1, Len(after))
  <2>1. \A i \in 1..Len(after) : a[i] = after[i]
    BY <1>1, ConcatAt
  <2>2. Len(after) \in 0..Len(a)
    BY <1>2, <1>3
  <2> DEFINE n == Len(after)
             b == SubSeq(a, 1, n)
  <2>3. b \in Seq(S) /\ Len(b) = n /\ \A i \in 1..n : b[i] = a[i]
    BY <1>2, <2>2, PrefixGrows
  <2> HIDE DEF b
  <2>4. after = b
    BY <1>1, <2>1, <2>3, SeqEqual
  <2>. QED  BY <2>4 DEF b
<1>5. Len(x) = 0 => after = before
  <2>1. Len(x) = 0 => x = <<>>
    BY EmptySeq
  <2>2. before \o <<>> = before
    BY ConcatEmptySeq
  <2>. QED  BY <2>1, <2>2
<1>. QED  BY <1>1, <1>2, <1>3, <1>4, <1>5 DEF Continues

\* What SpokenReply sees.
Given == {Solid(m) : m \in message}
Told == SolidOf(chunks)
EndIs == CASE phase = "said" -> "said" [] phase = "failed" -> "broken" [] OTHER -> "no"

LEMMA PromiseIs ==
  /\ Promise!vars = <<Given, Told, EndIs>>
  /\ Promise!Init = (Given = {} /\ Told = <<>> /\ EndIs = "no")
  /\ Promise!Begins = (/\ EndIs = "no" /\ Told = <<>> /\ \E m \in Messages : Given' = {Solid(m)}
                       /\ Told' = Told /\ EndIs' = EndIs)
  /\ Promise!Ends = (/\ EndIs = "no"
                     /\ \/ EndIs' = "said" /\ Given = {Told'}
                        \/ EndIs' = "broken" /\ Told' = Told
                     /\ Given' = Given)
  /\ Promise!Tells = (/\ EndIs = "no"
                      /\ \E a \in Given : \E n \in Len(Told) + 1..Len(a) : Told' = SubSeq(a, 1, n)
                      /\ EndIs' \in {"no", "broken"} /\ Given' = Given)
BY DEF Promise!vars, Promise!Init, Promise!Begins, Promise!Tells, Promise!Ends,
       Given, Told, EndIs, SolidOf

PromiseNext == [Promise!Next]_(Promise!vars)

\* A step after which as much is told, of the same message, is none of SpokenReply, or
\* the reply breaks off.
LEMMA StopImplements ==
  ASSUME phase \in {"ready", "streaming"}, phase' \in {"ready", "streaming", "failed"},
         message' = message, Told' = Told
  PROVE  PromiseNext
<1>1. EndIs = "no" /\ EndIs' = IF phase' = "failed" THEN "broken" ELSE "no"
  BY DEF EndIs
<1>2. Given' = Given
  BY DEF Given
<1>3. CASE phase' = "failed"
  <2>1. Promise!Ends
    BY <1>1, <1>2, <1>3, PromiseIs
  <2>. QED  BY <2>1 DEF PromiseNext, Promise!Next
<1>4. CASE phase' # "failed"
  <2>1. Promise!vars' = Promise!vars
    <3>1. EndIs' = EndIs
      BY <1>1, <1>4
    <3>. QED  BY <1>2, <3>1 DEF Given, Told, EndIs, SolidOf, Promise!vars
  <2>. QED  BY <2>1 DEF PromiseNext
<1>. QED  BY <1>3, <1>4

\* An event tells more of the same answer, tells nothing, or ends the reply.
LEMMA DeltaImplements ==
  ASSUME StreamInv, StreamInv', NEW m \in message, Delta(Json(m))
  PROVE  PromiseNext
<1>1. Arrives(m) /\ (Dropped \/ PassedOn(m))
  BY DeltaIs
<1>2. /\ message = {m} /\ m \in Seq(Characters) /\ phase = "streaming" /\ message' = message
      /\ sent' \in 0..Len(Json(m))
  <2>1. m \in Seq(Characters)
    BY <1>1 DEF Arrives
  <2>2. Len(Json(m)) \in Nat
    BY <2>1, JsonIs, LenProperties
  <2>. QED  BY <1>1, <2>1, <2>2 DEF Arrives
<1>3. CASE Dropped
  <2>1. phase' = "failed" /\ Told' = Told
    BY <1>3 DEF Dropped, text, Told
  <2>. QED  BY <1>2, <2>1, StopImplements
<1>4. CASE PassedOn(m)
  <2>1. PICK x \in Seq(Short(Characters)), left \in Seq(Characters) :
           /\ SolidOf(chunks') = SolidOf(chunks) \o SolidOf(x)
           /\ SolidOf(chunks') \o left = Solid(heard')
    BY <1>4 DEF PassedOn
  <2>2. phase' \in {"streaming", "failed"} /\ Parsed(m, parser', heard', sent')
    BY <1>4 DEF PassedOn
  <2>3. PICK l \in 0..Len(m) : heard' = SubSeq(m, 1, l)
    BY <1>2, <2>2, ParsedIsHeard
  <2> DEFINE rest == SubSeq(m, l + 1, Len(m))
  <2>4. heard' \in Seq(Characters) /\ rest \in Seq(Characters) /\ m = heard' \o rest
    <3>1. 0 \in Nat /\ l \in 0..Len(m) /\ Len(m) \in l..Len(m) /\ l \in Nat /\ 0 + 1 = 1
      BY <1>2, LenProperties
    <3>2. SubSeq(m, 0 + 1, l) \o rest = SubSeq(m, 0 + 1, Len(m))
      BY <1>2, <3>1, AdjacentParts
    <3>3. SubSeq(m, 1, Len(m)) = m
      BY <1>2, SubSeqFull
    <3>4. heard' \in Seq(Characters)
      BY <1>4 DEF PassedOn
    <3>5. rest \in Seq(Characters)
      BY <1>2, <3>1, PartOf
    <3> HIDE DEF rest
    <3>. QED  BY <2>3, <3>1, <3>2, <3>3, <3>4, <3>5, Zenon
  <2> HIDE DEF rest
  <2> DEFINE before == SolidOf(chunks)
             after == SolidOf(chunks')
             y == SolidOf(x)
             r == Solid(rest)
             a == Solid(m)
             h == Solid(heard')
  <2>5. before \in Seq(Characters) /\ y \in Seq(Characters) /\ r \in Seq(Characters)
    <3>1. chunks \in Seq(Short(Characters))
      BY DEF StreamInv, ConsumersInv
    <3>. QED  BY <2>1, <2>4, <3>1, ShortAre, SolidsAre
  <2>6. a = h \o r
    BY <2>4, SolidConcat
  <2>7. after = before \o y /\ after \o left = h
    BY <2>1
  <2>8. Told = before /\ Told' = after /\ Given = {a} /\ Given' = Given
    BY <1>2 DEF Told, Given
  <2> HIDE DEF before, after, y, r, a, h
  <2>9. after \in Seq(Characters) /\ left \o r \in Seq(Characters)
    BY <2>1, <2>5, <2>7, ConcatProperties
  <2>10. a = after \o (left \o r)
    <3>1. Associate(after, left, r)
      BY <2>1, <2>5, <2>9, Associates
    <3>. QED  BY <2>6, <2>7, <3>1 DEF Associate
  <2>11. Continues(a, before, after, y)
    BY <2>5, <2>7, <2>9, <2>10, ContinuesIs
  <2>12. CASE Len(y) = 0
    <3>1. Told' = Told
      BY <2>8, <2>11, <2>12 DEF Continues
    <3>. QED  BY <1>2, <2>2, <3>1, StopImplements
  <2>13. CASE Len(y) # 0
    <3>1. Len(after) \in Len(before) + 1..Len(a) /\ after = SubSeq(a, 1, Len(after))
      BY <2>11, <2>13 DEF Continues
    <3>2. \E b \in Given : \E n \in Len(Told) + 1..Len(b) : Told' = SubSeq(b, 1, n)
      BY <2>8, <3>1
    <3>3. EndIs = "no" /\ EndIs' \in {"no", "broken"}
      BY <1>2, <2>2 DEF EndIs
    <3>4. Promise!Tells
      BY <2>8, <3>2, <3>3, PromiseIs
    <3>. QED  BY <3>4 DEF PromiseNext, Promise!Next
  <2>. QED  BY <2>12, <2>13
<1>. QED  BY <1>1, <1>3, <1>4

\* Requests, retries, splits, failures and chunks together keep the promise of
\* SpokenReply: one answer is told, without repetition or gap, to its end if the reply
\* succeeds (stream_generate, _llm_turn, StreamingTextChunker).
THEOREM OneAnswerToldOnce == Spec => OneAnswerIsTold
<1>1. Init => Promise!Init
  <2>1. SUFFICES ASSUME Init PROVE Given = {} /\ Told = <<>> /\ EndIs = "no"
    BY PromiseIs
  <2>. QED  BY <2>1, SolidOfNone DEF Init, Given, Told, EndIs
<1>2. StreamInv /\ StreamInv' /\ [Next]_vars => PromiseNext
  <2>1. SUFFICES ASSUME StreamInv, StreamInv', [Next]_vars PROVE PromiseNext
    OBVIOUS
  <2>2. CASE UNCHANGED vars
    BY <2>2 DEF vars, PromiseNext, Promise!vars
  <2>3. ASSUME Again, phase \in {"ready", "streaming"}, UNCHANGED <<message, sent, text>>
        PROVE  PromiseNext
    <3>1. phase' \in {"ready", "failed"} /\ message' = message /\ Told' = Told
      BY <2>3 DEF Again, text, Told
    <3>. QED  BY <2>3, <3>1, StopImplements
  <2>4. CASE RequestFails
    BY <2>3, <2>4 DEF RequestFails
  <2>5. CASE Breaks
    BY <2>3, <2>5 DEF Breaks
  <2>6. CASE Refused \/ Spoils
    <3>1. /\ phase \in {"ready", "streaming"} /\ phase' = "failed"
          /\ message' = message /\ Told' = Told
      BY <2>6 DEF Refused, Spoils, text, Told
    <3>. QED  BY <3>1, StopImplements
  <2>7. CASE Opened
    <3>1. PICK m \in Messages : message' = {m}
      BY <2>7 DEF Opened
    <3>2. phase = "ready" /\ phase' = "streaming" /\ Told' = Told
      BY <2>7 DEF Opened, text, Told
    <3>3. chunks = <<>>
      BY <2>1, <3>2 DEF StreamInv, RequestInv, Beginning
    <3>4. Told = <<>>
      BY <3>3, SolidOfNone DEF Told
    <3>5. EndIs = "no" /\ EndIs' = EndIs
      BY <3>2 DEF EndIs
    <3>6. Given' = {Solid(m)}
      BY <3>1 DEF Given
    <3>7. Promise!Begins
      BY <3>2, <3>4, <3>5, <3>6, PromiseIs
    <3>. QED  BY <3>7 DEF PromiseNext, Promise!Next
  <2>8. CASE Ends
    <3>1. phase = "streaming" /\ message' = message
      BY <2>8 DEF Ends
    <3>2. CASE Dropped
      <4>1. phase' = "failed" /\ Told' = Told
        BY <3>2 DEF Dropped, text, Told
      <4>. QED  BY <3>1, <4>1, StopImplements
    <3>3. ASSUME NEW m \in message, SaidAll(m) PROVE PromiseNext
      <4>1. message = {m} /\ phase' = "said" /\ SolidOf(chunks') = Solid(m)
        BY <3>3 DEF SaidAll
      <4>2. Given = {Told'} /\ Given' = Given
        BY <3>1, <4>1 DEF Given, Told
      <4>3. EndIs = "no" /\ EndIs' = "said"
        BY <3>1, <4>1 DEF EndIs
      <4>4. Promise!Ends
        BY <4>2, <4>3, PromiseIs
      <4>. QED  BY <4>4 DEF PromiseNext, Promise!Next
    <3>. QED  BY <2>1, <2>8, <3>2, <3>3, EndsIs
  <2>9. ASSUME NEW m \in message, Delta(Json(m)) PROVE PromiseNext
    BY <2>1, <2>9, DeltaImplements
  <2>. QED  BY <2>1, <2>2, <2>4, <2>5, <2>6, <2>7, <2>8, <2>9 DEF Next
<1>3. StreamInv /\ StreamInv' /\ [Next]_vars => [Promise!Next]_(Promise!vars)
  BY <1>2 DEF PromiseNext
<1>. QED  BY <1>1, <1>3, StreamInvariant, PTL DEF Spec, OneAnswerIsTold, Promise!Spec

=============================================================================
