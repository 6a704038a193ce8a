----------------------------- MODULE StreamProofs -----------------------------
(***************************************************************************)
(* Proofs about the streams of both providers, for every vault, every text *)
(* and every way of cutting it into chunks: first what FlattenSeq, Restore *)
(* and Feed do, then an inductive invariant of each generator.  A stream   *)
(* is of one provider or of the other: the theorems are of Spec, OpenAI's, *)
(* or of MessageSpec, Anthropic's.                                         *)
(***************************************************************************)
EXTENDS StreamOpenAI, StreamAnthropic, SequenceTheorems, WellFoundedInduction, TLAPS

LEMMA LeastNatural ==
  ASSUME NEW T, T \subseteq Nat, T # {}
  PROVE  \E m \in T : \A n \in T : m <= n
<1>1. PICK x \in T : \A y \in T : <<y, x>> \notin OpToRel(<, Nat)
  BY NatLessThanWellFounded, WFMin
<1>2. \A y \in T : ~(y < x)
  BY <1>1 DEF OpToRel
<1> QED BY <1>2

-----------------------------------------------------------------------------
(* Putting pieces of text together (FlattenSeq).                           *)

(* f is the texts put together of the first, the first two, ... pieces.    *)
Growing(f, pieces) ==
    f = [i \in 1..Len(pieces) |->
            IF i = 1 THEN pieces[i] ELSE f[i - 1] \o pieces[i]]

LEMMA GrowingTypes ==
  ASSUME NEW S, NEW pieces \in Seq(Seq(S)), NEW f, Growing(f, pieces)
  PROVE  \A i \in 1..Len(pieces) : f[i] \in Seq(S)
<1> SUFFICES ASSUME NEW i \in 1..Len(pieces), f[i] \notin Seq(S) PROVE FALSE
  OBVIOUS
<1> DEFINE T == {n \in 1..Len(pieces) : f[n] \notin Seq(S)}
<1>0. Len(pieces) \in Nat
  BY LenProperties
<1>1. T \subseteq Nat /\ T # {}
  <2>1. 1..Len(pieces) \subseteq Nat
    BY <1>0
  <2>2. i \in T
    OBVIOUS
  <2> QED BY <2>1, <2>2
<1>2. PICK m \in T : \A n \in T : m <= n
  <2> HIDE DEF T
  <2> QED BY <1>1, LeastNatural
<1>3. m \in 1..Len(pieces) /\ f[m] \notin Seq(S)
  OBVIOUS
<1>4. pieces[m] \in Seq(S)
  BY <1>3, ElementOfSeq
<1>5. f[m] = IF m = 1 THEN pieces[m] ELSE f[m - 1] \o pieces[m]
  BY <1>3 DEF Growing
<1>6. CASE m = 1
  BY <1>3, <1>4, <1>5, <1>6
<1>7. CASE m # 1
  <2>1. m - 1 \in 1..Len(pieces) /\ m - 1 \notin T
    BY <1>2, <1>3, <1>7
  <2>2. f[m - 1] \in Seq(S)
    BY <2>1
  <2> QED BY <1>3, <1>4, <1>5, <1>7, <2>2, ConcatProperties
<1> QED BY <1>6, <1>7

LEMMA GrowingExists ==
  ASSUME NEW S, NEW pieces \in Seq(Seq(S))
  PROVE  \E f : Growing(f, pieces)
<1> DEFINE Has(n) == \E f : f = [i \in 1..n |->
                         IF i = 1 THEN pieces[i] ELSE f[i - 1] \o pieces[i]]
           T == {n \in 0..Len(pieces) : ~Has(n)}
<1>1. Len(pieces) \in Nat
  BY LenProperties
<1>2. Has(Len(pieces))
  <2> SUFFICES ASSUME ~Has(Len(pieces)) PROVE FALSE
    OBVIOUS
  <2>1. T \subseteq Nat /\ T # {}
    <3>1. 0..Len(pieces) \subseteq Nat /\ Len(pieces) \in 0..Len(pieces)
      BY <1>1
    <3>2. Len(pieces) \in T
      BY <3>1
    <3> QED BY <3>1, <3>2
  <2>2. PICK m \in T : \A n \in T : m <= n
    <3> HIDE DEF T
    <3> QED BY <2>1, LeastNatural
  <2>3. m \in 0..Len(pieces) /\ ~Has(m)
    OBVIOUS
  <2>4. CASE m = 0
    <3>1. \E f : f = [i \in 1..0 |-> IF i = 1 THEN pieces[i] ELSE f[i - 1] \o pieces[i]]
      <4>1. [i \in 1..0 |-> pieces[i]] = [i \in 1..0 |->
               IF i = 1 THEN pieces[i] ELSE [j \in 1..0 |-> pieces[j]][i - 1] \o pieces[i]]
        OBVIOUS
      <4> QED BY <4>1
    <3> QED BY <2>3, <2>4, <3>1
  <2>5. CASE m # 0
    <3>1. m - 1 \in 0..Len(pieces) /\ m - 1 \notin T
      <4> HIDE DEF T
      <4> QED BY <1>1, <2>2, <2>3, <2>5
    <3>2. Has(m - 1)
      BY <3>1
    <3>3. PICK f : f = [i \in 1..(m - 1) |->
                           IF i = 1 THEN pieces[i] ELSE f[i - 1] \o pieces[i]]
      BY <3>2
    <3> DEFINE last == IF m = 1 THEN pieces[m] ELSE f[m - 1] \o pieces[m]
               g == [i \in 1..m |-> IF i = m THEN last ELSE f[i]]
    <3>4. ASSUME NEW i \in 1..m
          PROVE  g[i] = IF i = 1 THEN pieces[i] ELSE g[i - 1] \o pieces[i]
      <4>1. CASE i = m
        <5>1. m # 1 => m - 1 \in 1..m /\ m - 1 # m
          BY <2>3, <2>5
        <5>2. m # 1 => g[m - 1] = f[m - 1]
          BY <5>1
        <5>3. g[m] = last
          BY <3>4, <4>1
        <5> QED BY <4>1, <5>2, <5>3
      <4>2. CASE i # m
        <5>1. i \in 1..(m - 1)
          BY <2>3, <3>4, <4>2
        <5>2. f[i] = IF i = 1 THEN pieces[i] ELSE f[i - 1] \o pieces[i]
          BY <3>3, <5>1
        <5>3. g[i] = f[i]
          BY <3>4, <4>2
        <5>4. i # 1 => i - 1 \in 1..m /\ i - 1 # m
          BY <2>3, <5>1
        <5>5. i # 1 => g[i - 1] = f[i - 1]
          BY <5>4
        <5> QED BY <5>2, <5>3, <5>5
      <4> QED BY <4>1, <4>2
    <3>5. g = [i \in 1..m |-> g[i]]
      OBVIOUS
    <3> HIDE DEF g
    <3>6. g = [i \in 1..m |-> IF i = 1 THEN pieces[i] ELSE g[i - 1] \o pieces[i]]
      BY <3>4, <3>5
    <3> QED BY <2>3, <3>6
  <2> QED BY <2>4, <2>5
<1> QED BY <1>2 DEF Growing

LEMMA Flattened ==
  ASSUME NEW S, NEW pieces \in Seq(Seq(S)), Len(pieces) # 0
  PROVE  \E f : Growing(f, pieces) /\ FlattenSeq(pieces) = f[Len(pieces)]
<1> DEFINE f == CHOOSE g : g = [i \in 1..Len(pieces) |->
                    IF i = 1 THEN pieces[i] ELSE g[i - 1] \o pieces[i]]
<1>1. \E g : g = [i \in 1..Len(pieces) |->
                    IF i = 1 THEN pieces[i] ELSE g[i - 1] \o pieces[i]]
  BY GrowingExists DEF Growing
<1>2. f = [i \in 1..Len(pieces) |-> IF i = 1 THEN pieces[i] ELSE f[i - 1] \o pieces[i]]
  BY <1>1
<1>3. FlattenSeq(pieces) = f[Len(pieces)]
  BY DEF FlattenSeq
<1> QED BY <1>2, <1>3 DEF Growing

LEMMA FlattenEmpty == FlattenSeq(<<>>) = <<>>
BY DEF FlattenSeq

LEMMA FlattenType ==
  ASSUME NEW S, NEW pieces \in Seq(Seq(S))
  PROVE  FlattenSeq(pieces) \in Seq(S)
<1>1. Len(pieces) \in Nat
  BY LenProperties
<1>2. CASE Len(pieces) = 0
  <2>1. pieces = <<>>
    BY <1>2, EmptySeq
  <2>2. <<>> \in Seq(S)
    BY EmptySeq
  <2> QED BY <2>1, <2>2, FlattenEmpty
<1>3. CASE Len(pieces) # 0
  <2>1. PICK f : Growing(f, pieces) /\ FlattenSeq(pieces) = f[Len(pieces)]
    BY <1>3, Flattened
  <2>2. Len(pieces) \in 1..Len(pieces)
    BY <1>1, <1>3
  <2> QED BY <2>1, <2>2, GrowingTypes
<1> QED BY <1>2, <1>3
(* q goes on where p ends.                                                 *)
GoesOn(p, q) == Len(p) <= Len(q) /\ \A i \in 1..Len(p) : q[i] = p[i]

(* They are the same of two sequences of pieces as far as these agree.     *)
LEMMA GrowingAgree ==
  ASSUME NEW S, NEW p \in Seq(Seq(S)), NEW q \in Seq(Seq(S)), NEW f, NEW g,
         Growing(f, p), Growing(g, q), GoesOn(p, q)
  PROVE  \A i \in 1..Len(p) : f[i] = g[i]
<1> SUFFICES ASSUME NEW i \in 1..Len(p), f[i] # g[i] PROVE FALSE
  OBVIOUS
<1> DEFINE T == {n \in 1..Len(p) : f[n] # g[n]}
<1>1. Len(p) \in Nat /\ Len(q) \in Nat
  BY LenProperties
<1>2. T \subseteq Nat /\ T # {}
  <2>1. 1..Len(p) \subseteq Nat
    BY <1>1
  <2>2. i \in T
    OBVIOUS
  <2> QED BY <2>1, <2>2
<1>3. PICK m \in T : \A n \in T : m <= n
  <2> HIDE DEF T
  <2> QED BY <1>2, LeastNatural
<1>4. m \in 1..Len(p) /\ m \in 1..Len(q) /\ f[m] # g[m]
  BY <1>1 DEF GoesOn
<1>5. /\ f[m] = IF m = 1 THEN p[m] ELSE f[m - 1] \o p[m]
      /\ g[m] = IF m = 1 THEN p[m] ELSE g[m - 1] \o p[m]
  BY <1>4 DEF Growing, GoesOn
<1>6. m # 1 => m - 1 \in 1..Len(p) /\ m - 1 \notin T
  BY <1>1, <1>3, <1>4
<1>7. m # 1 => f[m - 1] = g[m - 1]
  BY <1>6
<1> QED BY <1>4, <1>5, <1>7

LEMMA FlattenConcat ==
  ASSUME NEW S, NEW a \in Seq(Seq(S)), NEW b \in Seq(Seq(S))
  PROVE  FlattenSeq(a \o b) = FlattenSeq(a) \o FlattenSeq(b)
<1> DEFINE c == a \o b
           A == FlattenSeq(a)
<1>1. /\ c \in Seq(Seq(S)) /\ Len(c) = Len(a) + Len(b)
      /\ \A i \in 1..(Len(a) + Len(b)) : c[i] = IF i <= Len(a) THEN a[i] ELSE b[i - Len(a)]
  BY ConcatProperties
<1>2. Len(a) \in Nat /\ Len(b) \in Nat
  BY LenProperties
<1>3. A \in Seq(S) /\ FlattenSeq(b) \in Seq(S)
  BY FlattenType
<1>4. CASE Len(b) = 0
  <2>1. b = <<>> /\ c = a
    BY <1>4, EmptySeq, ConcatEmptySeq
  <2> QED BY <1>3, <2>1, FlattenEmpty, ConcatEmptySeq
<1>5. CASE Len(b) # 0
  <2>1. Len(c) # 0
    BY <1>1, <1>2, <1>5
  <2> HIDE DEF c, A
  <2>0. \A x, y \in Seq(S) : (A \o x) \o y = A \o (x \o y)
    <3> SUFFICES ASSUME NEW x \in Seq(S), NEW y \in Seq(S)
                 PROVE  (A \o x) \o y = A \o (x \o y)
      OBVIOUS
    <3>1. A \in Seq(S)
      BY <1>3
    <3> QED BY <3>1, ConcatAssociative
  <2>2. PICK f : Growing(f, c) /\ FlattenSeq(c) = f[Len(c)]
    BY <1>1, <2>1, Flattened
  <2>3. PICK g : Growing(g, b) /\ FlattenSeq(b) = g[Len(b)]
    BY <1>5, Flattened
  <2>4. Len(a) # 0 => f[Len(a)] = A
    <3> SUFFICES ASSUME Len(a) # 0 PROVE f[Len(a)] = A
      OBVIOUS
    <3>1. PICK e : Growing(e, a) /\ FlattenSeq(a) = e[Len(a)]
      BY Flattened
    <3>2. GoesOn(a, c)
      BY <1>1, <1>2 DEF GoesOn
    <3>3. \A i \in 1..Len(a) : e[i] = f[i]
      <4>1. c \in Seq(Seq(S)) /\ Growing(e, a) /\ Growing(f, c)
        BY <1>1, <2>2, <3>1
      <4> QED BY <3>2, <4>1, GrowingAgree
    <3>4. Len(a) \in 1..Len(a)
      BY <1>2
    <3> QED BY <3>1, <3>3, <3>4 DEF A
  <2>5. \A i \in 1..Len(b) : f[Len(a) + i] = A \o g[i]
    <3> SUFFICES ASSUME NEW i \in 1..Len(b), f[Len(a) + i] # A \o g[i] PROVE FALSE
      OBVIOUS
    <3> DEFINE T == {n \in 1..Len(b) : f[Len(a) + n] # A \o g[n]}
    <3>1. T \subseteq Nat /\ T # {}
      <4>1. 1..Len(b) \subseteq Nat
        BY <1>2
      <4>2. i \in T
        OBVIOUS
      <4> QED BY <4>1, <4>2
    <3>2. PICK m \in T : \A n \in T : m <= n
      <4> HIDE DEF T
      <4> QED BY <3>1, LeastNatural
    <3>3. m \in 1..Len(b) /\ f[Len(a) + m] # A \o g[m]
      OBVIOUS
    <3> HIDE DEF T
    <3>4. /\ Len(a) + m \in 1..Len(c) /\ (Len(a) + m = 1 <=> Len(a) = 0 /\ m = 1)
          /\ Len(a) + m - 1 = Len(a) + (m - 1) /\ Len(a) + 1 - 1 = Len(a)
          /\ c[Len(a) + m] = b[m]
      <4>1. PICK k : k = Len(a) + m
        OBVIOUS
      <4>2. k \in 1..(Len(a) + Len(b)) /\ ~(k <= Len(a)) /\ k - Len(a) = m
        <5>1. m \in 1..Len(b)
          BY <3>3
        <5> QED BY <1>2, <4>1, <5>1
      <4>3. c[k] = b[m]
        BY <1>1, <4>2
      <4>4. /\ Len(a) + m - 1 = Len(a) + (m - 1) /\ Len(a) + 1 - 1 = Len(a)
            /\ Len(a) + m = 1 <=> Len(a) = 0 /\ m = 1
        BY <1>2, <3>3
      <4>5. k \in 1..Len(c)
        BY <1>1, <4>2
      <4> QED BY <4>1, <4>3, <4>4, <4>5
    <3>5. /\ f[Len(a) + m] = IF Len(a) + m = 1 THEN b[m] ELSE f[Len(a) + m - 1] \o b[m]
          /\ g[m] = IF m = 1 THEN b[m] ELSE g[m - 1] \o b[m]
      <4>1. PICK k : k = Len(a) + m
        OBVIOUS
      <4>2. f[k] = IF k = 1 THEN c[k] ELSE f[k - 1] \o c[k]
        BY <2>2, <3>4, <4>1 DEF Growing
      <4>3. g[m] = IF m = 1 THEN b[m] ELSE g[m - 1] \o b[m]
        BY <2>3, <3>3 DEF Growing
      <4>4. c[k] = b[m]
        BY <3>4, <4>1
      <4>5. f[k] = IF k = 1 THEN b[m] ELSE f[k - 1] \o b[m]
        BY <4>2, <4>4
      <4>6. /\ k = 1 <=> Len(a) + m = 1
            /\ k - 1 = Len(a) + m - 1
        BY <1>2, <3>3, <4>1
      <4>7. f[k - 1] = f[Len(a) + m - 1] /\ f[k] = f[Len(a) + m]
        BY <4>1, <4>6
      <4> QED BY <4>3, <4>5, <4>6, <4>7
    <3>6. b[m] \in Seq(S)
      BY <3>3, ElementOfSeq
    <3>7. CASE m = 1 /\ Len(a) = 0
      <4>1. A = <<>>
        BY <3>7, EmptySeq, FlattenEmpty DEF A
      <4>2. f[Len(a) + m] = b[m] /\ g[m] = b[m]
        BY <3>4, <3>5, <3>7
      <4> QED BY <3>3, <3>6, <4>1, <4>2, ConcatEmptySeq
    <3>8. CASE m = 1 /\ Len(a) # 0
      <4>1. f[Len(a) + m] = f[Len(a)] \o b[m] /\ g[m] = b[m]
        BY <3>4, <3>5, <3>8
      <4> QED BY <2>4, <3>3, <3>8, <4>1
    <3>9. CASE m # 1
      <4>1. m - 1 \in 1..Len(b) /\ m - 1 \notin T
        BY <1>2, <3>2, <3>3, <3>9
      <4>2. f[Len(a) + (m - 1)] = A \o g[m - 1]
        BY <4>1 DEF T
      <4>3. f[Len(a) + m] = (A \o g[m - 1]) \o b[m]
        BY <3>4, <3>5, <3>9, <4>2
      <4>4. g[m - 1] \in Seq(S)
        BY <2>3, <4>1, GrowingTypes
      <4>5. (A \o g[m - 1]) \o b[m] = A \o (g[m - 1] \o b[m])
        BY <2>0, <3>6, <4>4
      <4> QED BY <3>3, <3>5, <3>9, <4>3, <4>5
    <3> QED BY <3>7, <3>8, <3>9
  <2>6. Len(b) \in 1..Len(b)
    BY <1>2, <1>5
  <2> QED BY <1>1, <2>2, <2>3, <2>5, <2>6 DEF A, c
<1> QED BY <1>4, <1>5

LEMMA FlattenOne ==
  ASSUME NEW S, NEW x \in Seq(S)
  PROVE  FlattenSeq(<<x>>) = x
<1> DEFINE p == <<x>>
<1>1. p \in Seq(Seq(S)) /\ Len(p) = 1 /\ Len(p) # 0 /\ p[1] = x
  OBVIOUS
<1> HIDE DEF p
<1>2. PICK f : Growing(f, p) /\ FlattenSeq(p) = f[Len(p)]
  BY <1>1, Flattened
<1>3. FlattenSeq(p) = x
  BY <1>1, <1>2 DEF Growing
<1> QED BY <1>3 DEF p
-----------------------------------------------------------------------------
(* Tokens in a text (TokenAt, RestoredAt).                                 *)

(* u is the part of s that comes after its first k symbols.                *)
Within(u, s, k) ==
    /\ k + Len(u) <= Len(s)
    /\ \A i \in 1..Len(u) : u[i] = s[k + i]

LEMMA TokenInside ==
  ASSUME NEW s, NEW a \in Int, NEW b \in Int, TokenAt(s, a, b)
  PROVE  /\ a + 3 <= b /\ s[a] = "[" /\ s[b] = "]"
         /\ \A q \in (a + 1)..(b - 1) : s[q] = "N" \/ s[q] = "1"
<1>1. /\ a + 3 <= b /\ s[a] = "[" /\ s[b] = "]"
      /\ \E k \in (a + 1)..(b - 2) : AllAre(s, a + 1, k, "N") /\ AllAre(s, k + 1, b - 1, "1")
  BY DEF TokenAt
<1>2. PICK k \in (a + 1)..(b - 2) : AllAre(s, a + 1, k, "N") /\ AllAre(s, k + 1, b - 1, "1")
  BY <1>1
<1>3. ASSUME NEW q \in (a + 1)..(b - 1) PROVE s[q] = "N" \/ s[q] = "1"
  <2>1. q \in (a + 1)..k \/ q \in (k + 1)..(b - 1)
    OBVIOUS
  <2> QED BY <1>2, <2>1 DEF AllAre
<1> QED BY <1>1, <1>3

(* Tokens do not overlap.                                                  *)
LEMMA TokensApart ==
  ASSUME NEW s, NEW a \in Int, NEW b \in Int, NEW c \in Int, NEW d \in Int, NEW p \in Int,
         TokenAt(s, a, b), TokenAt(s, c, d), a <= p, p <= b, c <= p, p <= d
  PROVE  a = c /\ b = d
<1>1. /\ a + 3 <= b /\ s[a] = "[" /\ s[b] = "]"
      /\ \A q \in (a + 1)..(b - 1) : s[q] = "N" \/ s[q] = "1"
  BY TokenInside
<1>2. /\ c + 3 <= d /\ s[c] = "[" /\ s[d] = "]"
      /\ \A q \in (c + 1)..(d - 1) : s[q] = "N" \/ s[q] = "1"
  BY TokenInside
<1>3. a = c
  <2>1. ~(c \in (a + 1)..(b - 1)) /\ c # b
    BY <1>1, <1>2
  <2>2. ~(a \in (c + 1)..(d - 1)) /\ a # d
    BY <1>1, <1>2
  <2> QED BY <2>1, <2>2
<1>4. b = d
  <2>1. ~(b \in (c + 1)..(d - 1)) /\ ~(d \in (a + 1)..(b - 1))
    BY <1>1, <1>2
  <2> QED BY <1>1, <1>2, <1>3, <2>1
<1> QED BY <1>3, <1>4

LEMMA AllAreMoves ==
  ASSUME NEW s, NEW u, NEW k \in Nat, Len(u) \in Nat, Within(u, s, k),
         NEW i \in Int, NEW j \in Int, 1 <= i, j <= Len(u), NEW symbol
  PROVE  AllAre(u, i, j, symbol) <=> AllAre(s, k + i, k + j, symbol)
<1>1. ASSUME AllAre(u, i, j, symbol), NEW q \in (k + i)..(k + j) PROVE s[q] = symbol
  <2>1. PICK p : p = q - k
    OBVIOUS
  <2>2. p \in i..j /\ p \in 1..Len(u) /\ k + p = q
    BY <2>1
  <2>3. u[p] = s[k + p] /\ u[p] = symbol
    BY <1>1, <2>2 DEF Within, AllAre
  <2> QED BY <2>2, <2>3
<1>2. ASSUME AllAre(s, k + i, k + j, symbol), NEW p \in i..j PROVE u[p] = symbol
  <2>1. k + p \in (k + i)..(k + j) /\ p \in 1..Len(u)
    OBVIOUS
  <2> QED BY <1>2, <2>1 DEF Within, AllAre
<1> QED BY <1>1, <1>2 DEF AllAre

LEMMA TokenMoves ==
  ASSUME NEW s, NEW u, NEW k \in Nat, Len(u) \in Nat, Within(u, s, k),
         NEW i \in 1..Len(u), NEW j \in 1..Len(u)
  PROVE  TokenAt(u, i, j) <=> TokenAt(s, k + i, k + j)
<1> DEFINE Body(v, a, b, q) == AllAre(v, a + 1, q, "N") /\ AllAre(v, q + 1, b - 1, "1")
<1>1. u[i] = s[k + i] /\ u[j] = s[k + j]
  BY DEF Within
<1>2. \A q \in (i + 1)..(j - 2) : Body(u, i, j, q) <=> Body(s, k + i, k + j, k + q)
  <2> SUFFICES ASSUME NEW q \in (i + 1)..(j - 2)
               PROVE  Body(u, i, j, q) <=> Body(s, k + i, k + j, k + q)
    OBVIOUS
  <2>1. /\ i + 1 \in Int /\ q \in Int /\ q + 1 \in Int /\ j - 1 \in Int
        /\ 1 <= i + 1 /\ q <= Len(u) /\ 1 <= q + 1 /\ j - 1 <= Len(u)
        /\ k + (i + 1) = k + i + 1 /\ k + (q + 1) = k + q + 1 /\ k + (j - 1) = k + j - 1
    OBVIOUS
  <2>2. AllAre(u, i + 1, q, "N") <=> AllAre(s, k + (i + 1), k + q, "N")
    BY <2>1, AllAreMoves
  <2>3. AllAre(u, q + 1, j - 1, "1") <=> AllAre(s, k + (q + 1), k + (j - 1), "1")
    BY <2>1, AllAreMoves
  <2> QED BY <2>1, <2>2, <2>3
<1> HIDE DEF Body
<1>3. (\E q \in (i + 1)..(j - 2) : Body(u, i, j, q))
        <=> (\E q \in (k + i + 1)..(k + j - 2) : Body(s, k + i, k + j, q))
  <2>1. ASSUME NEW q \in (i + 1)..(j - 2), Body(u, i, j, q)
        PROVE  \E p \in (k + i + 1)..(k + j - 2) : Body(s, k + i, k + j, p)
    <3>1. k + q \in (k + i + 1)..(k + j - 2) /\ Body(s, k + i, k + j, k + q)
      BY <1>2, <2>1
    <3> QED BY <3>1
  <2>2. ASSUME NEW p \in (k + i + 1)..(k + j - 2), Body(s, k + i, k + j, p)
        PROVE  \E q \in (i + 1)..(j - 2) : Body(u, i, j, q)
    <3>1. PICK q : q = p - k
      OBVIOUS
    <3>2. q \in (i + 1)..(j - 2) /\ k + q = p
      BY <3>1
    <3>3. Body(s, k + i, k + j, k + q)
      BY <2>2, <3>2
    <3> QED BY <1>2, <3>2, <3>3
  <2> QED BY <2>1, <2>2
<1>4. /\ TokenAt(u, i, j) <=> /\ i + 3 <= j /\ u[i] = "[" /\ u[j] = "]"
                              /\ \E q \in (i + 1)..(j - 2) : Body(u, i, j, q)
      /\ TokenAt(s, k + i, k + j) <=>
             /\ k + i + 3 <= k + j /\ s[k + i] = "[" /\ s[k + j] = "]"
             /\ \E q \in (k + i + 1)..(k + j - 2) : Body(s, k + i, k + j, q)
  BY DEF TokenAt, Body
<1>5. i + 3 <= j <=> k + i + 3 <= k + j
  OBVIOUS
<1> QED BY <1>1, <1>3, <1>4, <1>5

LEMMA PartMoves ==
  ASSUME NEW S, NEW s \in Seq(S), NEW u \in Seq(S), NEW k \in Nat, Within(u, s, k),
         NEW i \in 1..Len(u), NEW j \in i..Len(u)
  PROVE  SubSeq(u, i, j) = SubSeq(s, k + i, k + j)
<1>1. Len(u) \in Nat /\ Len(s) \in Nat
  BY LenProperties
<1>2. /\ \A n \in i..j : u[n] \in S
      /\ \A n \in (k + i)..(k + j) : s[n] \in S
  <2>1. \A n \in i..j : n \in 1..Len(u)
    BY <1>1
  <2>2. \A n \in (k + i)..(k + j) : n \in 1..Len(s)
    BY <1>1 DEF Within
  <2> QED BY <2>1, <2>2, ElementOfSeq
<1>3. PICK x, y : x = SubSeq(u, i, j) /\ y = SubSeq(s, k + i, k + j)
  OBVIOUS
<1>4. /\ x \in Seq(S) /\ Len(x) = j - i + 1
      /\ \A n \in 1..(j - i + 1) : x[n] = u[i + n - 1]
  BY <1>1, <1>2, <1>3, SubSeqProperties
<1>5. /\ y \in Seq(S) /\ Len(y) = (k + j) - (k + i) + 1
      /\ \A n \in 1..((k + j) - (k + i) + 1) : y[n] = s[(k + i) + n - 1]
  BY <1>1, <1>2, <1>3, SubSeqProperties
<1>6. (k + j) - (k + i) + 1 = j - i + 1
  BY <1>1
<1>7. ASSUME NEW n \in 1..Len(x) PROVE x[n] = y[n]
  <2>1. n \in 1..(j - i + 1) /\ i + n - 1 \in 1..Len(u) /\ (k + i) + n - 1 = k + (i + n - 1)
    BY <1>1, <1>4
  <2>2. u[i + n - 1] = s[k + (i + n - 1)]
    BY <2>1 DEF Within
  <2> QED BY <1>4, <1>5, <1>6, <2>1, <2>2
<1>8. Len(x) = Len(y)
  BY <1>4, <1>5, <1>6
<1>9. x = y
  BY <1>4, <1>5, <1>7, <1>8, SeqEqual
<1> QED BY <1>3, <1>9
(* The tokens over position i of s that the vault knows.                   *)
Over(s, i) ==
    {span \in (1..i) \X (i..Len(s)) :
        /\ TokenAt(s, span[1], span[2])
        /\ SubSeq(s, span[1], span[2]) \in DOMAIN Vault}

LEMMA RestoredToken ==
  ASSUME NEW s, Len(s) \in Nat, NEW i \in 1..Len(s), NEW a \in 1..i, NEW b \in i..Len(s),
         TokenAt(s, a, b), SubSeq(s, a, b) \in DOMAIN Vault
  PROVE  RestoredAt(s, i) = IF a = i THEN Vault[SubSeq(s, a, b)] ELSE <<>>
<1>1. <<a, b>> \in Over(s, i)
  BY DEF Over
<1>2. PICK span : span = CHOOSE p \in Over(s, i) : TRUE
  OBVIOUS
<1>3. span \in Over(s, i)
  BY <1>1, <1>2
<1>4. /\ span \in (1..i) \X (i..Len(s)) /\ span[1] \in 1..i /\ span[2] \in i..Len(s)
      /\ TokenAt(s, span[1], span[2])
  BY <1>3 DEF Over
<1>5. span[1] = a /\ span[2] = b
  <2>1. PICK c, d : c = span[1] /\ d = span[2]
    OBVIOUS
  <2>2. /\ a \in Int /\ b \in Int /\ c \in Int /\ d \in Int /\ i \in Int
        /\ a <= i /\ i <= b /\ c <= i /\ i <= d /\ TokenAt(s, c, d)
    BY <1>4, <2>1
  <2>3. c = a /\ d = b
    BY <2>2, TokensApart
  <2> QED BY <2>1, <2>3
<1>6. RestoredAt(s, i) =
          IF span[1] = i THEN Vault[SubSeq(s, span[1], span[2])] ELSE <<>>
  BY <1>1, <1>2 DEF RestoredAt, Over
<1> QED BY <1>5, <1>6

LEMMA RestoredSymbol ==
  ASSUME NEW s, NEW i, Over(s, i) = {}
  PROVE  RestoredAt(s, i) = <<s[i]>>
BY DEF RestoredAt, Over

LEMMA Known ==
  ASSUME NEW s, Len(s) \in Nat, NEW i \in 1..Len(s), Over(s, i) # {}
  PROVE  \E a \in 1..i, b \in i..Len(s) :
            TokenAt(s, a, b) /\ SubSeq(s, a, b) \in DOMAIN Vault
<1>1. PICK span \in Over(s, i) : TRUE
  OBVIOUS
<1>2. /\ span[1] \in 1..i /\ span[2] \in i..Len(s) /\ TokenAt(s, span[1], span[2])
      /\ SubSeq(s, span[1], span[2]) \in DOMAIN Vault
  BY <1>1 DEF Over
<1> QED BY <1>2

(* No token of s reaches from its first k symbols into the others.         *)
NoneAcross(s, k) == \A a \in 1..k, b \in (k + 1)..Len(s) : ~TokenAt(s, a, b)

(* A part of a text that no token reaches into or out of is restored as it *)
(* would be alone.                                                         *)
LEMMA RestoredMoves ==
  ASSUME NEW S, NEW s \in Seq(S), NEW u \in Seq(S), NEW k \in Nat, Within(u, s, k),
         NoneAcross(s, k), NoneAcross(s, k + Len(u)), NEW i \in 1..Len(u)
  PROVE  RestoredAt(u, i) = RestoredAt(s, k + i)
<1>1. Len(u) \in Nat /\ Len(s) \in Nat /\ k + i \in 1..Len(s) /\ k + Len(u) <= Len(s)
  <2>1. Len(u) \in Nat /\ Len(s) \in Nat
    BY LenProperties
  <2> QED BY <2>1 DEF Within
<1>2. CASE Over(u, i) # {}
  <2>1. PICK a \in 1..i, b \in i..Len(u) :
            TokenAt(u, a, b) /\ SubSeq(u, a, b) \in DOMAIN Vault
    BY <1>1, <1>2, Known
  <2>2. a \in 1..Len(u) /\ b \in 1..Len(u) /\ b \in a..Len(u)
    BY <1>1
  <2>3. TokenAt(s, k + a, k + b) /\ SubSeq(u, a, b) = SubSeq(s, k + a, k + b)
    BY <1>1, <2>1, <2>2, TokenMoves, PartMoves
  <2>4. RestoredAt(u, i) = IF a = i THEN Vault[SubSeq(u, a, b)] ELSE <<>>
    BY <1>1, <2>1, RestoredToken
  <2>5. k + a \in 1..(k + i) /\ k + b \in (k + i)..Len(s)
    BY <1>1, <2>2
  <2>6. RestoredAt(s, k + i)
          = IF k + a = k + i THEN Vault[SubSeq(s, k + a, k + b)] ELSE <<>>
    <3>1. SubSeq(s, k + a, k + b) \in DOMAIN Vault
      BY <2>1, <2>3
    <3>2. PICK x, y, z : x = k + a /\ y = k + b /\ z = k + i
      OBVIOUS
    <3>3. z \in 1..Len(s) /\ x \in 1..z /\ y \in z..Len(s)
      BY <1>1, <2>5, <3>2
    <3>4. TokenAt(s, x, y) /\ SubSeq(s, x, y) \in DOMAIN Vault
      BY <2>3, <3>1, <3>2
    <3>5. RestoredAt(s, z) = IF x = z THEN Vault[SubSeq(s, x, y)] ELSE <<>>
      BY <1>1, <3>3, <3>4, RestoredToken
    <3> QED BY <3>2, <3>5
  <2>7. a = i <=> k + a = k + i
    OBVIOUS
  <2> QED BY <2>3, <2>4, <2>6, <2>7
<1>3. CASE Over(u, i) = {}
  <2>1. ASSUME Over(s, k + i) # {} PROVE FALSE
    <3>1. PICK x \in 1..(k + i), y \in (k + i)..Len(s) :
              TokenAt(s, x, y) /\ SubSeq(s, x, y) \in DOMAIN Vault
      BY <1>1, <2>1, Known
    <3>2. x > k /\ y <= k + Len(u)
      <4>1. ~(x \in 1..k /\ y \in (k + 1)..Len(s))
        BY <3>1 DEF NoneAcross
      <4>2. ~(x \in 1..(k + Len(u)) /\ y \in (k + Len(u) + 1)..Len(s))
        BY <3>1 DEF NoneAcross
      <4> QED BY <1>1, <4>1, <4>2
    <3>3. PICK a, b : a = x - k /\ b = y - k
      OBVIOUS
    <3>4. /\ a \in 1..i /\ b \in i..Len(u) /\ a \in 1..Len(u) /\ b \in 1..Len(u)
          /\ b \in a..Len(u) /\ k + a = x /\ k + b = y
      BY <1>1, <3>2, <3>3
    <3>5. TokenAt(u, a, b)
      <4>1. TokenAt(s, k + a, k + b)
        BY <3>1, <3>4
      <4> QED BY <1>1, <3>4, <4>1, TokenMoves
    <3>6. SubSeq(u, a, b) \in DOMAIN Vault
      <4>1. SubSeq(u, a, b) = SubSeq(s, k + a, k + b)
        BY <3>4, PartMoves
      <4> QED BY <3>1, <3>4, <4>1
    <3>7. <<a, b>> \in Over(u, i)
      BY <3>4, <3>5, <3>6 DEF Over
    <3> QED BY <1>3, <3>7
  <2>2. RestoredAt(u, i) = <<u[i]>> /\ RestoredAt(s, k + i) = <<s[k + i]>>
    BY <1>3, <2>1, RestoredSymbol
  <2> QED BY <2>2 DEF Within
<1> QED BY <1>2, <1>3
(* What may come out of a text over S: its symbols and those of values.    *)
WithValues(S) == S \cup UNION {ToSet(Vault[token]) : token \in DOMAIN Vault}

LEMMA RestoredType ==
  ASSUME NEW S, NEW s \in Seq(S), NEW i \in 1..Len(s)
  PROVE  RestoredAt(s, i) \in Seq(WithValues(S))
<1>1. Len(s) \in Nat /\ s[i] \in S
  BY LenProperties, ElementOfSeq
<1>2. CASE Over(s, i) # {}
  <2>1. PICK a \in 1..i, b \in i..Len(s) :
            TokenAt(s, a, b) /\ SubSeq(s, a, b) \in DOMAIN Vault
    BY <1>1, <1>2, Known
  <2>2. PICK token \in DOMAIN Vault : token = SubSeq(s, a, b)
    BY <2>1
  <2>3. RestoredAt(s, i) = Vault[token] \/ RestoredAt(s, i) = <<>>
    BY <1>1, <2>1, <2>2, RestoredToken
  <2>4. Vault[token] \in Seq(ToSet(Vault[token]))
    BY VaultAssumption
  <2>5. ToSet(Vault[token]) \subseteq WithValues(S)
    BY DEF WithValues
  <2>6. Vault[token] \in Seq(WithValues(S))
    BY <2>4, <2>5, SeqMonotonic
  <2>7. <<>> \in Seq(WithValues(S))
    BY EmptySeq
  <2> QED BY <2>3, <2>6, <2>7
<1>3. CASE Over(s, i) = {}
  <2>1. RestoredAt(s, i) = <<s[i]>>
    BY <1>3, RestoredSymbol
  <2>2. s[i] \in WithValues(S)
    BY <1>1 DEF WithValues
  <2> QED BY <2>1, <2>2
<1> QED BY <1>2, <1>3

Pieces(s) == [i \in 1..Len(s) |-> RestoredAt(s, i)]

LEMMA PiecesType ==
  ASSUME NEW S, NEW s \in Seq(S)
  PROVE  Pieces(s) \in Seq(Seq(WithValues(S))) /\ Len(Pieces(s)) = Len(s)
<1>1. Len(s) \in Nat
  BY LenProperties
<1>2. \A i \in 1..Len(s) : RestoredAt(s, i) \in Seq(WithValues(S))
  BY RestoredType
<1> DEFINE T == Seq(WithValues(S))
<1> HIDE DEF T
<1>3. \A i \in 1..Len(s) : RestoredAt(s, i) \in T
  BY <1>2 DEF T
<1>4. Pieces(s) \in Seq(T) /\ Len(Pieces(s)) = Len(s)
  BY <1>1, <1>3 DEF Pieces
<1> QED BY <1>4 DEF T

LEMMA RestoreType ==
  ASSUME NEW S, NEW s \in Seq(S)
  PROVE  Restore(s) \in Seq(WithValues(S))
BY PiecesType, FlattenType DEF Restore, Pieces

LEMMA RestoreEmpty == Restore(<<>>) = <<>>
<1>1. Len(<<>>) = 0
  OBVIOUS
<1>2. [i \in 1..Len(<<>>) |-> RestoredAt(<<>>, i)] = <<>>
  BY <1>1
<1> QED BY <1>2, FlattenEmpty DEF Restore

(* The two parts of a text at k.                                           *)
LEMMA Parts ==
  ASSUME NEW S, NEW s \in Seq(S), NEW k \in 0..Len(s)
  PROVE  /\ SubSeq(s, 1, k) \in Seq(S) /\ Len(SubSeq(s, 1, k)) = k
         /\ Within(SubSeq(s, 1, k), s, 0)
         /\ SubSeq(s, k + 1, Len(s)) \in Seq(S) /\ Len(SubSeq(s, k + 1, Len(s))) = Len(s) - k
         /\ Within(SubSeq(s, k + 1, Len(s)), s, k)
         /\ s = SubSeq(s, 1, k) \o SubSeq(s, k + 1, Len(s))
<1>1. Len(s) \in Nat /\ k \in Nat /\ k <= Len(s)
  BY LenProperties
<1>2. PICK u, v : u = SubSeq(s, 1, k) /\ v = SubSeq(s, k + 1, Len(s))
  OBVIOUS
<1>3. \A i \in 1..Len(s) : s[i] \in S
  BY ElementOfSeq
<1>4. /\ u \in Seq(S) /\ Len(u) = k /\ \A i \in 1..k : u[i] = s[i]
  <2>1. \A i \in 1..k : s[i] \in S
    BY <1>1, <1>3
  <2>2. /\ u \in Seq(S) /\ Len(u) = IF 1 <= k THEN k - 1 + 1 ELSE 0
        /\ \A i \in 1..(k - 1 + 1) : u[i] = s[1 + i - 1]
    BY <1>1, <1>2, <2>1, SubSeqProperties
  <2>3. k - 1 + 1 = k /\ \A i \in 1..k : 1 + i - 1 = i
    BY <1>1
  <2> QED BY <1>1, <2>2, <2>3
<1>5. /\ v \in Seq(S) /\ Len(v) = Len(s) - k /\ \A i \in 1..(Len(s) - k) : v[i] = s[k + i]
  <2>1. \A i \in (k + 1)..Len(s) : s[i] \in S
    BY <1>1, <1>3
  <2>2. k + 1 \in Int /\ Len(s) \in Int
    BY <1>1
  <2>3. /\ v \in Seq(S)
        /\ Len(v) = IF k + 1 <= Len(s) THEN Len(s) - (k + 1) + 1 ELSE 0
        /\ \A i \in 1..(Len(s) - (k + 1) + 1) : v[i] = s[(k + 1) + i - 1]
    BY <1>2, <2>1, <2>2, SubSeqProperties
  <2>4. /\ Len(s) - (k + 1) + 1 = Len(s) - k
        /\ \A i \in 1..(Len(s) - k) : (k + 1) + i - 1 = k + i
    BY <1>1
  <2>5. Len(v) = Len(s) - k
    BY <1>1, <2>3
  <2>6. \A i \in 1..(Len(s) - k) : v[i] = s[(k + 1) + i - 1]
    BY <2>3, <2>4
  <2>7. ASSUME NEW i \in 1..(Len(s) - k) PROVE v[i] = s[k + i]
    BY <2>4, <2>6
  <2> QED BY <2>3, <2>5, <2>7
<1>6. Within(u, s, 0) /\ Within(v, s, k)
  BY <1>1, <1>4, <1>5 DEF Within
<1>7. s = u \o v
  <2>1. /\ u \o v \in Seq(S) /\ Len(u \o v) = Len(u) + Len(v)
        /\ \A i \in 1..(Len(u) + Len(v)) :
              (u \o v)[i] = IF i <= Len(u) THEN u[i] ELSE v[i - Len(u)]
    BY <1>4, <1>5, ConcatProperties
  <2>2. Len(u \o v) = Len(s) /\ Len(u) + Len(v) = Len(s)
    BY <1>1, <1>4, <1>5, <2>1
  <2>3. ASSUME NEW i \in 1..Len(s) PROVE s[i] = (u \o v)[i]
    <3>1. CASE i <= k
      BY <1>1, <1>4, <2>1, <2>2, <2>3, <3>1
    <3>2. CASE ~(i <= k)
      <4>1. PICK n : n = i - k
        OBVIOUS
      <4>2. n \in 1..(Len(s) - k) /\ k + n = i
        BY <1>1, <2>3, <3>2, <4>1
      <4>3. (u \o v)[i] = v[n]
        BY <1>1, <1>4, <2>1, <2>2, <2>3, <3>2, <4>1
      <4> QED BY <1>5, <4>2, <4>3
    <3> QED BY <3>1, <3>2
  <2> QED BY <2>1, <2>2, <2>3, SeqEqual
<1> QED BY <1>2, <1>4, <1>5, <1>6, <1>7

(* A text may be restored in two parts where no token is cut.              *)
LEMMA RestoreSplits ==
  ASSUME NEW S, NEW s \in Seq(S), NEW k \in 0..Len(s), NoneAcross(s, k)
  PROVE  Restore(s) = Restore(SubSeq(s, 1, k)) \o Restore(SubSeq(s, k + 1, Len(s)))
<1>1. PICK u, v : u = SubSeq(s, 1, k) /\ v = SubSeq(s, k + 1, Len(s))
  OBVIOUS
<1>2. /\ u \in Seq(S) /\ Len(u) = k /\ Within(u, s, 0)
      /\ v \in Seq(S) /\ Len(v) = Len(s) - k /\ Within(v, s, k)
  BY <1>1, Parts
<1>3. Len(s) \in Nat /\ k \in Nat /\ k <= Len(s)
  BY LenProperties
<1>4. NoneAcross(s, 0) /\ NoneAcross(s, Len(s))
  BY <1>3 DEF NoneAcross
<1>5. \A i \in 1..Len(u) : RestoredAt(u, i) = RestoredAt(s, i)
  <2> SUFFICES ASSUME NEW i \in 1..Len(u) PROVE RestoredAt(u, i) = RestoredAt(s, i)
    OBVIOUS
  <2>1. 0 + Len(u) = k /\ 0 + i = i /\ 0 \in Nat
    BY <1>2, <1>3
  <2>2. NoneAcross(s, 0 + Len(u))
    BY <2>1
  <2>3. RestoredAt(u, i) = RestoredAt(s, 0 + i)
    BY <1>2, <1>4, <2>1, <2>2, RestoredMoves
  <2> QED BY <2>1, <2>3
<1>6. \A i \in 1..Len(v) : RestoredAt(v, i) = RestoredAt(s, k + i)
  <2> SUFFICES ASSUME NEW i \in 1..Len(v) PROVE RestoredAt(v, i) = RestoredAt(s, k + i)
    OBVIOUS
  <2>1. k + Len(v) = Len(s)
    BY <1>2, <1>3
  <2>2. NoneAcross(s, k + Len(v))
    BY <1>4, <2>1
  <2>3. v \in Seq(S) /\ Within(v, s, k) /\ k \in Nat
    BY <1>2, <1>3
  <2> QED BY <2>2, <2>3, RestoredMoves
<1>7. Pieces(s) = Pieces(u) \o Pieces(v)
  <2> DEFINE T == Seq(WithValues(S))
  <2>1. /\ Pieces(s) \in Seq(T) /\ Len(Pieces(s)) = Len(s)
        /\ Pieces(u) \in Seq(T) /\ Len(Pieces(u)) = Len(u)
        /\ Pieces(v) \in Seq(T) /\ Len(Pieces(v)) = Len(v)
    BY <1>2, PiecesType
  <2> HIDE DEF T
  <2>2. PICK x, y, z : x = Pieces(s) /\ y = Pieces(u) /\ z = Pieces(v)
    OBVIOUS
  <2>3. /\ y \o z \in Seq(T) /\ Len(y \o z) = Len(y) + Len(z)
        /\ \A i \in 1..(Len(y) + Len(z)) :
              (y \o z)[i] = IF i <= Len(y) THEN y[i] ELSE z[i - Len(y)]
    BY <2>1, <2>2, ConcatProperties
  <2>4. Len(y) = k /\ Len(z) = Len(s) - k /\ Len(y) + Len(z) = Len(s) /\ Len(x) = Len(s)
    <3>1. Len(y) = Len(u) /\ Len(z) = Len(v) /\ Len(x) = Len(s)
      BY <2>1, <2>2
    <3> QED BY <1>2, <1>3, <3>1
  <2>5. ASSUME NEW i \in 1..Len(s) PROVE x[i] = (y \o z)[i]
    <3>1. x[i] = RestoredAt(s, i)
      BY <2>2 DEF Pieces
    <3>2. CASE i <= k
      <4>1. i \in 1..Len(u)
        BY <1>2, <1>3, <3>2
      <4>2. y[i] = RestoredAt(u, i)
        BY <2>2, <4>1 DEF Pieces
      <4>3. (y \o z)[i] = y[i]
        BY <2>3, <2>4, <3>2
      <4> QED BY <1>5, <3>1, <4>1, <4>2, <4>3
    <3>3. CASE ~(i <= k)
      <4>1. PICK n : n = i - k
        OBVIOUS
      <4>2. n \in 1..Len(v) /\ k + n = i
        BY <1>2, <1>3, <3>3, <4>1
      <4>3. (y \o z)[i] = z[n]
        BY <2>3, <2>4, <3>3, <4>1
      <4>4. z[n] = RestoredAt(v, n)
        BY <2>2, <4>2 DEF Pieces
      <4>5. RestoredAt(v, n) = RestoredAt(s, i)
        BY <1>6, <4>2
      <4> QED BY <3>1, <4>3, <4>4, <4>5
    <3> QED BY <3>2, <3>3
  <2>6. x = y \o z
    <3>1. x \in Seq(T) /\ y \o z \in Seq(T)
      BY <2>1, <2>2, <2>3
    <3>2. Len(x) = Len(y \o z) /\ \A i \in 1..Len(x) : x[i] = (y \o z)[i]
      BY <2>3, <2>4, <2>5
    <3> QED BY <3>1, <3>2, SeqEqual
  <2> QED BY <2>2, <2>6
<1>8. FlattenSeq(Pieces(u) \o Pieces(v)) = FlattenSeq(Pieces(u)) \o FlattenSeq(Pieces(v))
  <2> DEFINE T == WithValues(S)
  <2>1. Pieces(u) \in Seq(Seq(T)) /\ Pieces(v) \in Seq(Seq(T))
    BY <1>2, PiecesType
  <2> HIDE DEF T
  <2> QED BY <2>1, FlattenConcat
<1> QED BY <1>1, <1>7, <1>8 DEF Restore, Pieces
-----------------------------------------------------------------------------
(* What is held back (Partial, HoldFrom).                                  *)

(* s[i..n] could be the beginning of a token.                              *)
PartialAt(s, i, n) ==
    /\ s[i] = "["
    /\ i = n \/ \E k \in (i + 1)..n : AllAre(s, i + 1, k, "N") /\ AllAre(s, k + 1, n, "1")

LEMMA PartialMoves ==
  ASSUME NEW s, NEW u, NEW k \in Nat, Len(u) \in Nat, Within(u, s, k),
         NEW i \in 1..Len(u), NEW n \in i..Len(u)
  PROVE  PartialAt(u, i, n) <=> PartialAt(s, k + i, k + n)
<1> DEFINE Body(v, a, b, q) == AllAre(v, a + 1, q, "N") /\ AllAre(v, q + 1, b, "1")
<1>1. u[i] = s[k + i] /\ (i = n <=> k + i = k + n)
  BY DEF Within
<1>2. \A q \in (i + 1)..n : Body(u, i, n, q) <=> Body(s, k + i, k + n, k + q)
  <2> SUFFICES ASSUME NEW q \in (i + 1)..n
               PROVE  Body(u, i, n, q) <=> Body(s, k + i, k + n, k + q)
    OBVIOUS
  <2>1. /\ i + 1 \in Int /\ q \in Int /\ q + 1 \in Int /\ n \in Int
        /\ 1 <= i + 1 /\ q <= Len(u) /\ 1 <= q + 1 /\ n <= Len(u)
        /\ k + (i + 1) = k + i + 1 /\ k + (q + 1) = k + q + 1
    OBVIOUS
  <2>2. AllAre(u, i + 1, q, "N") <=> AllAre(s, k + (i + 1), k + q, "N")
    BY <2>1, AllAreMoves
  <2>3. AllAre(u, q + 1, n, "1") <=> AllAre(s, k + (q + 1), k + n, "1")
    BY <2>1, AllAreMoves
  <2> QED BY <2>1, <2>2, <2>3
<1> HIDE DEF Body
<1>3. (\E q \in (i + 1)..n : Body(u, i, n, q))
        <=> (\E q \in (k + i + 1)..(k + n) : Body(s, k + i, k + n, q))
  <2>1. ASSUME NEW q \in (i + 1)..n, Body(u, i, n, q)
        PROVE  \E p \in (k + i + 1)..(k + n) : Body(s, k + i, k + n, p)
    <3>1. k + q \in (k + i + 1)..(k + n) /\ Body(s, k + i, k + n, k + q)
      BY <1>2, <2>1
    <3> QED BY <3>1
  <2>2. ASSUME NEW p \in (k + i + 1)..(k + n), Body(s, k + i, k + n, p)
        PROVE  \E q \in (i + 1)..n : Body(u, i, n, q)
    <3>1. PICK q : q = p - k
      OBVIOUS
    <3>2. q \in (i + 1)..n /\ k + q = p
      BY <3>1
    <3>3. Body(s, k + i, k + n, k + q)
      BY <2>2, <3>2
    <3> QED BY <1>2, <3>2, <3>3
  <2> QED BY <2>1, <2>2
<1>4. /\ PartialAt(u, i, n) <=>
             u[i] = "[" /\ (i = n \/ \E q \in (i + 1)..n : Body(u, i, n, q))
      /\ PartialAt(s, k + i, k + n) <=>
             s[k + i] = "[" /\ (k + i = k + n \/
                                \E q \in (k + i + 1)..(k + n) : Body(s, k + i, k + n, q))
  BY DEF PartialAt, Body
<1> QED BY <1>1, <1>3, <1>4

LEMMA PartialShorter ==
  ASSUME NEW s, NEW i \in Int, NEW m \in Int, NEW n \in Int, i <= m, m <= n,
         PartialAt(s, i, n)
  PROVE  PartialAt(s, i, m)
<1>1. CASE m = i
  BY <1>1 DEF PartialAt
<1>2. CASE m # i
  <2>1. PICK k \in (i + 1)..n : AllAre(s, i + 1, k, "N") /\ AllAre(s, k + 1, n, "1")
    BY <1>2 DEF PartialAt
  <2>2. PICK q : q = IF k <= m THEN k ELSE m
    OBVIOUS
  <2>3. q \in (i + 1)..m
    BY <1>2, <2>2
  <2>4. AllAre(s, i + 1, q, "N") /\ AllAre(s, q + 1, m, "1")
    BY <2>1, <2>2, <2>3 DEF AllAre
  <2> QED BY <2>3, <2>4 DEF PartialAt
<1> QED BY <1>1, <1>2

LEMMA TokenBegins ==
  ASSUME NEW s, NEW a \in Int, NEW b \in Int, NEW m \in Int, a <= m, m < b,
         TokenAt(s, a, b)
  PROVE  PartialAt(s, a, m)
<1>1. s[a] = "["
  BY DEF TokenAt
<1>2. PICK k \in (a + 1)..(b - 2) : AllAre(s, a + 1, k, "N") /\ AllAre(s, k + 1, b - 1, "1")
  BY DEF TokenAt
<1>3. CASE m = a
  BY <1>1, <1>3 DEF PartialAt
<1>4. CASE m # a
  <2>1. PICK q : q = IF k <= m THEN k ELSE m
    OBVIOUS
  <2>2. q \in (a + 1)..m
    BY <1>4, <2>1
  <2>3. AllAre(s, a + 1, q, "N") /\ AllAre(s, q + 1, m, "1")
    BY <1>2, <2>1, <2>2 DEF AllAre
  <2> QED BY <1>1, <2>2, <2>3 DEF PartialAt
<1> QED BY <1>3, <1>4

LEMMA PartialWhole ==
  ASSUME NEW u, Len(u) \in Nat, Len(u) > 0
  PROVE  Partial(u) <=> PartialAt(u, 1, Len(u))
<1>1. 1 + 1 = 2 /\ (1 = Len(u) <=> Len(u) = 1)
  OBVIOUS
<1> QED BY <1>1 DEF Partial, PartialAt

LEMMA HeldBack ==
  ASSUME NEW S, NEW s \in Seq(S)
  PROVE  /\ HoldFrom(s) \in 1..(Len(s) + 1)
         /\ HoldFrom(s) <= Len(s) => PartialAt(s, HoldFrom(s), Len(s))
         /\ \A i \in 1..(HoldFrom(s) - 1) : ~PartialAt(s, i, Len(s))
<1> DEFINE T == {i \in 1..Len(s) : Partial(SubSeq(s, i, Len(s)))} \cup {Len(s) + 1}
<1>1. Len(s) \in Nat
  BY LenProperties
<1>2. ASSUME NEW i \in 1..Len(s)
      PROVE  Partial(SubSeq(s, i, Len(s))) <=> PartialAt(s, i, Len(s))
  <2>1. PICK k : k = i - 1
    OBVIOUS
  <2>2. k \in 0..Len(s) /\ k \in Nat /\ k + 1 = i
    BY <1>1, <2>1
  <2>3. PICK u : u = SubSeq(s, i, Len(s))
    OBVIOUS
  <2>4. Within(u, s, k) /\ Len(u) = Len(s) - k
    BY <2>2, <2>3, Parts
  <2>5. Len(u) \in Nat /\ Len(u) > 0 /\ 1 \in 1..Len(u) /\ Len(u) \in 1..Len(u)
        /\ k + Len(u) = Len(s)
    BY <1>1, <2>2, <2>4
  <2>6. Partial(u) <=> PartialAt(u, 1, Len(u))
    BY <2>5, PartialWhole
  <2>7. PartialAt(u, 1, Len(u)) <=> PartialAt(s, k + 1, k + Len(u))
    <3>1. Within(u, s, k)
      BY <2>4
    <3>2. k \in Nat
      BY <2>2
    <3>3. Len(u) \in Nat /\ 1 \in 1..Len(u) /\ Len(u) \in 1..Len(u)
      BY <2>5
    <3> QED BY <3>1, <3>2, <3>3, PartialMoves
  <2> QED BY <2>2, <2>3, <2>5, <2>6, <2>7
<1>3. T \subseteq Nat /\ Len(s) + 1 \in T
  BY <1>1
<1>4. PICK m \in T : \A n \in T : m <= n
  <2> HIDE DEF T
  <2> QED BY <1>3, LeastNatural
<1>5. PICK h : h = HoldFrom(s)
  OBVIOUS
<1>6. h \in T /\ \A n \in T : h <= n
  <2>1. h = CHOOSE x \in T : \A y \in T : x <= y
    BY <1>5 DEF HoldFrom, Min
  <2> HIDE DEF T
  <2> QED BY <1>4, <2>1
<1>7. h \in 1..(Len(s) + 1) /\ (h <= Len(s) => PartialAt(s, h, Len(s)))
  <2>1. (h \in 1..Len(s) /\ Partial(SubSeq(s, h, Len(s)))) \/ h = Len(s) + 1
    BY <1>6
  <2> HIDE DEF T
  <2> QED BY <1>1, <1>2, <2>1
<1>8. ASSUME NEW i \in 1..(h - 1) PROVE ~PartialAt(s, i, Len(s))
  <2>1. i \in 1..Len(s) /\ i < h
    BY <1>1, <1>7
  <2>2. i \notin T
    BY <1>6, <1>7, <2>1
  <2>3. ~Partial(SubSeq(s, i, Len(s)))
    BY <2>1, <2>2
  <2> QED BY <1>2, <2>1, <2>3
<1> QED BY <1>5, <1>7, <1>8
-----------------------------------------------------------------------------
(* The restorer's buffer (Feed).                                           *)

(* Of the text c the first p symbols may go out: what follows could be the *)
(* beginning of a token, and no token can begin earlier and end later.     *)
Held(c, p) ==
    /\ p \in 0..Len(c)
    /\ p < Len(c) => PartialAt(c, p + 1, Len(c))
    /\ \A i \in 1..p : ~PartialAt(c, i, Len(c))

LEMMA Longer ==
  ASSUME NEW S, NEW c \in Seq(S), NEW t \in Seq(S)
  PROVE  /\ c \o t \in Seq(S) /\ Len(c \o t) = Len(c) + Len(t)
         /\ Within(c, c \o t, 0) /\ Within(t, c \o t, Len(c))
         /\ Len(c) \in Nat /\ Len(t) \in Nat
<1>1. Len(c) \in Nat /\ Len(t) \in Nat
  BY LenProperties
<1>2. PICK d : d = c \o t
  OBVIOUS
<1>3. /\ d \in Seq(S) /\ Len(d) = Len(c) + Len(t)
      /\ \A i \in 1..(Len(c) + Len(t)) : d[i] = IF i <= Len(c) THEN c[i] ELSE t[i - Len(c)]
  BY <1>2, ConcatProperties
<1>4. \A i \in 1..Len(c) : c[i] = d[i] /\ 0 + i = i
  BY <1>1, <1>3
<1>5. ASSUME NEW i \in 1..Len(t) PROVE t[i] = d[Len(c) + i]
  <2>1. PICK n : n = Len(c) + i
    OBVIOUS
  <2>2. n \in 1..(Len(c) + Len(t)) /\ ~(n <= Len(c)) /\ n - Len(c) = i
    BY <1>1, <2>1
  <2> QED BY <1>3, <2>1, <2>2
<1> QED BY <1>1, <1>2, <1>3, <1>4, <1>5 DEF Within

(* Whatever comes, no token will be cut between what is out and what is    *)
(* held back.                                                              *)
LEMMA HeldCutsNone ==
  ASSUME NEW S, NEW c \in Seq(S), NEW t \in Seq(S), NEW p, Held(c, p)
  PROVE  NoneAcross(c \o t, p)
<1>1. PICK d : d = c \o t
  OBVIOUS
<1>2. /\ d \in Seq(S) /\ Len(d) = Len(c) + Len(t) /\ Within(c, d, 0)
      /\ Len(c) \in Nat /\ Len(t) \in Nat
  BY <1>1, Longer
<1>3. p \in 0..Len(c)
  BY DEF Held
<1>4. \A i \in 1..Len(c) : c[i] = d[i]
  BY <1>2 DEF Within
<1>5. ASSUME NEW a \in 1..p, NEW b \in (p + 1)..Len(d), TokenAt(d, a, b) PROVE FALSE
  <2>1. a \in Int /\ b \in Int /\ a <= p /\ p < b
    BY <1>2, <1>3
  <2>2. CASE p < Len(c)
    <3>1. c[p + 1] = "["
      BY <2>2 DEF Held, PartialAt
    <3>2. d[p + 1] = "["
      BY <1>2, <1>3, <1>4, <2>2, <3>1
    <3>3. /\ d[b] = "]" /\ \A q \in (a + 1)..(b - 1) : d[q] = "N" \/ d[q] = "1"
      BY <1>5, <2>1, TokenInside
    <3>4. p + 1 = b \/ p + 1 \in (a + 1)..(b - 1)
      BY <1>3, <2>1
    <3> QED BY <3>2, <3>3, <3>4
  <2>3. CASE p = Len(c)
    <3>1. PartialAt(d, a, p)
      BY <1>2, <1>3, <1>5, <2>1, TokenBegins
    <3>2. a \in 1..Len(c) /\ Len(c) \in a..Len(c) /\ 0 + a = a /\ 0 + Len(c) = Len(c)
      BY <1>2, <1>3, <2>3
    <3>3. PartialAt(c, a, Len(c)) <=> PartialAt(d, 0 + a, 0 + Len(c))
      BY <1>2, <3>2, PartialMoves
    <3>4. PartialAt(c, a, Len(c))
      BY <2>3, <3>1, <3>2, <3>3
    <3> QED BY <2>3, <3>4 DEF Held
  <2> QED BY <1>2, <1>3, <2>2, <2>3
<1> QED BY <1>1, <1>5 DEF NoneAcross

(* Feeding the buffer continues what was fed before.                       *)
LEMMA FeedGoesOn ==
  ASSUME NEW S, NEW c \in Seq(S), NEW t \in Seq(S), NEW p, Held(c, p)
  PROVE  LET fed == Feed(SubSeq(c, p + 1, Len(c)), t)
         IN  \E n \in p..Len(c \o t) :
                /\ Held(c \o t, n)
                /\ fed.buf = SubSeq(c \o t, n + 1, Len(c \o t))
                /\ Restore(SubSeq(c \o t, 1, n)) = Restore(SubSeq(c, 1, p)) \o fed.out
<1>1. PICK d, b, s : d = c \o t /\ b = SubSeq(c, p + 1, Len(c)) /\ s = b \o t
  OBVIOUS
<1>2. /\ d \in Seq(S) /\ Len(d) = Len(c) + Len(t) /\ Within(c, d, 0) /\ Within(t, d, Len(c))
      /\ Len(c) \in Nat /\ Len(t) \in Nat
  BY <1>1, Longer
<1>3. p \in 0..Len(c) /\ p \in Nat
  BY <1>2 DEF Held
<1>4. b \in Seq(S) /\ Len(b) = Len(c) - p /\ Within(b, c, p)
  BY <1>1, <1>3, Parts
<1>5. /\ s \in Seq(S) /\ Len(s) = Len(b) + Len(t) /\ Within(b, s, 0) /\ Within(t, s, Len(b))
  BY <1>1, <1>4, Longer
<1>6. Within(s, d, p) /\ Len(s) = Len(d) - p /\ Len(s) \in Nat
  <2>1. Len(s) = Len(d) - p /\ Len(s) \in Nat /\ p + Len(s) <= Len(d)
    BY <1>2, <1>3, <1>4, <1>5
  <2>2. ASSUME NEW i \in 1..Len(s) PROVE s[i] = d[p + i]
    <3>1. CASE i <= Len(b)
      <4>1. /\ i \in 1..Len(b) /\ p + i \in 1..Len(c) /\ 0 + i = i /\ 0 + (p + i) = p + i
        BY <1>2, <1>3, <1>4, <2>1, <2>2, <3>1
      <4>2. b[i] = s[i]
        BY <1>5, <4>1 DEF Within
      <4>3. b[i] = c[p + i]
        BY <1>4, <4>1 DEF Within
      <4>4. c[p + i] = d[p + i]
        BY <1>2, <4>1 DEF Within
      <4> QED BY <4>2, <4>3, <4>4
    <3>2. CASE ~(i <= Len(b))
      <4>1. PICK n : n = i - Len(b)
        OBVIOUS
      <4>2. n \in 1..Len(t) /\ Len(b) + n = i /\ Len(c) + n = p + i
        BY <1>2, <1>3, <1>4, <1>5, <2>2, <3>2, <4>1
      <4>3. t[n] = s[Len(b) + n]
        BY <1>5, <4>2 DEF Within
      <4>4. t[n] = d[Len(c) + n]
        BY <1>2, <4>2 DEF Within
      <4> QED BY <4>2, <4>3, <4>4
    <3> QED BY <3>1, <3>2
  <2> QED BY <2>1, <2>2 DEF Within
<1>6a. s \in Seq(S) /\ d \in Seq(S) /\ p \in Nat /\ Within(s, d, p)
  BY <1>2, <1>3, <1>5, <1>6
<1>7. PICK h : h = HoldFrom(s)
  OBVIOUS
<1>8. /\ h \in 1..(Len(s) + 1)
      /\ h <= Len(s) => PartialAt(s, h, Len(s))
      /\ \A i \in 1..(h - 1) : ~PartialAt(s, i, Len(s))
  BY <1>5, <1>7, HeldBack
<1>9. PICK n : n = p + h - 1
  OBVIOUS
<1>10. n \in p..Len(d) /\ n \in 0..Len(d) /\ n - p = h - 1 /\ p + h = n + 1
       /\ p + Len(s) = Len(d) /\ (n < Len(d) <=> h <= Len(s)) /\ n \in Nat
  BY <1>2, <1>3, <1>6, <1>8, <1>9
<1>11. Held(d, n)
  <2>1. ASSUME n < Len(d) PROVE PartialAt(d, n + 1, Len(d))
    <3>1. h \in 1..Len(s) /\ Len(s) \in h..Len(s)
      BY <1>6, <1>8, <1>10, <2>1
    <3>2. PartialAt(s, h, Len(s)) <=> PartialAt(d, p + h, p + Len(s))
      <4>1. Within(s, d, p) /\ Len(s) \in Nat
        BY <1>6
      <4> QED BY <1>3, <3>1, <4>1, PartialMoves
    <3> QED BY <1>8, <1>10, <2>1, <3>2
  <2>2. ASSUME NEW i \in 1..n, PartialAt(d, i, Len(d)) PROVE FALSE
    <3>1. CASE i <= p
      <4>1. /\ i \in 1..Len(c) /\ Len(c) \in i..Len(c) /\ i \in Int /\ Len(c) \in Int
            /\ Len(d) \in Int /\ i <= Len(c) /\ Len(c) <= Len(d)
            /\ 0 + i = i /\ 0 + Len(c) = Len(c)
        BY <1>2, <1>3, <3>1
      <4>2. PartialAt(d, i, Len(c))
        BY <2>2, <4>1, PartialShorter
      <4>3. PartialAt(c, i, Len(c)) <=> PartialAt(d, 0 + i, 0 + Len(c))
        BY <1>2, <4>1, PartialMoves
      <4>4. PartialAt(c, i, Len(c))
        BY <4>1, <4>2, <4>3
      <4> QED BY <3>1, <4>4 DEF Held
    <3>2. CASE ~(i <= p)
      <4>1. PICK k : k = i - p
        OBVIOUS
      <4>2. k \in 1..(h - 1) /\ k \in 1..Len(s) /\ Len(s) \in k..Len(s) /\ p + k = i
        BY <1>3, <1>6, <1>8, <1>10, <2>2, <3>2, <4>1
      <4>3. PartialAt(s, k, Len(s)) <=> PartialAt(d, p + k, p + Len(s))
        <5>1. Within(s, d, p) /\ Len(s) \in Nat
          BY <1>6
        <5> QED BY <1>3, <4>2, <5>1, PartialMoves
      <4>4. PartialAt(s, k, Len(s))
        BY <1>10, <2>2, <4>2, <4>3
      <4> QED BY <1>8, <4>2, <4>4
    <3> QED BY <3>1, <3>2
  <2> QED BY <1>10, <2>1, <2>2 DEF Held
<1>12. SubSeq(s, h, Len(s)) = SubSeq(d, n + 1, Len(d))
  <2>1. CASE h <= Len(s)
    <3>1. h \in 1..Len(s) /\ Len(s) \in h..Len(s)
      BY <1>6, <1>8, <2>1
    <3>2. SubSeq(s, h, Len(s)) = SubSeq(d, p + h, p + Len(s))
      BY <1>6a, <3>1, PartMoves, SMTT(30)
    <3> QED BY <1>10, <3>2
  <2>2. CASE ~(h <= Len(s))
    <3>1. SubSeq(s, h, Len(s)) = <<>>
      BY <1>6, <1>8, <2>2, SubSeqEmpty
    <3>2. SubSeq(d, n + 1, Len(d)) = <<>>
      <4>1. Len(d) < n + 1 /\ n + 1 \in Int /\ Len(d) \in Int
        BY <1>2, <1>10, <2>2
      <4> QED BY <4>1, SubSeqEmpty
    <3> QED BY <3>1, <3>2
  <2> QED BY <2>1, <2>2
<1>13. Restore(SubSeq(d, 1, n)) = Restore(SubSeq(c, 1, p)) \o Restore(SubSeq(s, 1, h - 1))
  <2>1. PICK u : u = SubSeq(d, 1, n)
    OBVIOUS
  <2>2. u \in Seq(S) /\ Len(u) = n /\ Within(u, d, 0)
    BY <1>2, <1>10, <2>1, Parts
  <2>3. p \in 0..Len(u)
    BY <1>3, <1>10, <2>2
  <2>4. NoneAcross(u, p)
    <3>1. NoneAcross(d, p)
      BY <1>1, HeldCutsNone
    <3>2. ASSUME NEW a \in 1..p, NEW e \in (p + 1)..Len(u), TokenAt(u, a, e) PROVE FALSE
      <4>1. /\ a \in 1..Len(u) /\ e \in 1..Len(u) /\ e \in (p + 1)..Len(d)
            /\ 0 + a = a /\ 0 + e = e
        BY <1>2, <1>3, <1>10, <2>2
      <4>2. TokenAt(u, a, e) <=> TokenAt(d, 0 + a, 0 + e)
        <5>1. Len(u) \in Nat
          BY <1>10, <2>2
        <5> QED BY <2>2, <4>1, <5>1, TokenMoves
      <4>3. TokenAt(d, a, e)
        BY <3>2, <4>1, <4>2
      <4> QED BY <3>1, <4>1, <4>3 DEF NoneAcross
    <3> QED BY <3>2 DEF NoneAcross
  <2>5. Restore(u) = Restore(SubSeq(u, 1, p)) \o Restore(SubSeq(u, p + 1, Len(u)))
    BY <2>2, <2>3, <2>4, RestoreSplits
  <2>6. SubSeq(u, 1, p) = SubSeq(c, 1, p)
    <3>1. CASE p = 0
      BY <3>1, SubSeqEmpty
    <3>2. CASE p # 0
      <4>1. /\ 1 \in 1..Len(u) /\ p \in 1..Len(u) /\ 1 \in 1..Len(c) /\ p \in 1..Len(c)
            /\ 0 + 1 = 1 /\ 0 + p = p
        BY <1>3, <1>10, <2>2, <3>2
      <4>2. SubSeq(u, 1, p) = SubSeq(d, 0 + 1, 0 + p)
        BY <1>2, <2>2, <4>1, PartMoves
      <4>3. SubSeq(c, 1, p) = SubSeq(d, 0 + 1, 0 + p)
        BY <1>2, <4>1, PartMoves
      <4> QED BY <4>2, <4>3
    <3> QED BY <3>1, <3>2
  <2>7. SubSeq(u, p + 1, Len(u)) = SubSeq(s, 1, h - 1)
    <3>1. CASE h = 1
      <4>1. Len(u) < p + 1 /\ p + 1 \in Int /\ Len(u) \in Int /\ h - 1 < 1
        BY <1>3, <1>10, <2>2, <3>1
      <4>2. SubSeq(u, p + 1, Len(u)) = <<>>
        BY <4>1, SubSeqEmpty
      <4>3. SubSeq(s, 1, h - 1) = <<>>
        BY <3>1, SubSeqEmpty
      <4> QED BY <4>2, <4>3
    <3>2. CASE h # 1
      <4>1. /\ p + 1 \in 1..Len(u) /\ Len(u) \in (p + 1)..Len(u)
            /\ 1 \in 1..Len(s) /\ h - 1 \in 1..Len(s) /\ p + (h - 1) = n
            /\ 0 + (p + 1) = p + 1 /\ 0 + Len(u) = n
        BY <1>3, <1>6, <1>8, <1>10, <2>2, <3>2
      <4>2. SubSeq(u, p + 1, Len(u)) = SubSeq(d, 0 + (p + 1), 0 + Len(u))
        <5>1. PICK x : x = p + 1
          OBVIOUS
        <5>2. /\ x \in 1..Len(u) /\ Len(u) \in x..Len(u)
              /\ u \in Seq(S) /\ d \in Seq(S) /\ 0 \in Nat /\ Within(u, d, 0)
          BY <1>6a, <2>2, <4>1, <5>1
        <5>3. SubSeq(u, x, Len(u)) = SubSeq(d, 0 + x, 0 + Len(u))
          BY <5>2, PartMoves
        <5> QED BY <5>1, <5>3
      <4>3. SubSeq(s, 1, h - 1) = SubSeq(d, p + 1, p + (h - 1))
        <5>1. PICK x : x = h - 1
          OBVIOUS
        <5>2. 1 \in 1..Len(s) /\ x \in 1..Len(s) /\ x \in 1..x /\ x \in 1..Len(s)
          BY <4>1, <5>1
        <5>3. SubSeq(s, 1, x) = SubSeq(d, p + 1, p + x)
          BY <1>6a, <5>2, PartMoves
        <5> QED BY <5>1, <5>3
      <4> QED BY <4>1, <4>2, <4>3
    <3> QED BY <3>1, <3>2
  <2> QED BY <2>1, <2>5, <2>6, <2>7
<1>14. /\ Feed(b, t).buf = SubSeq(s, h, Len(s))
       /\ Feed(b, t).out = Restore(SubSeq(s, 1, h - 1))
  BY <1>1, <1>7 DEF Feed
<1> QED BY <1>1, <1>10, <1>11, <1>12, <1>13, <1>14

LEMMA PartIs ==
  ASSUME NEW S, NEW s \in Seq(S), NEW u \in Seq(S), NEW k \in Nat, Within(u, s, k)
  PROVE  SubSeq(s, k + 1, k + Len(u)) = u
<1>1. Len(u) \in Nat
  BY LenProperties
<1>2. CASE Len(u) = 0
  <2>1. u = <<>>
    BY <1>2, EmptySeq
  <2>2. k + Len(u) < k + 1 /\ k + 1 \in Int /\ k + Len(u) \in Int
    BY <1>2
  <2> QED BY <2>1, <2>2, SubSeqEmpty
<1>3. CASE Len(u) # 0
  <2>1. 1 \in 1..Len(u) /\ Len(u) \in 1..Len(u)
    BY <1>1, <1>3
  <2>2. SubSeq(u, 1, Len(u)) = SubSeq(s, k + 1, k + Len(u))
    BY <2>1, PartMoves
  <2>3. SubSeq(u, 1, Len(u)) = u
    BY SubSeqFull
  <2> QED BY <2>2, <2>3
<1> QED BY <1>2, <1>3

LEMMA PrefixOf ==
  ASSUME NEW S, NEW a \in Seq(S), NEW b \in Seq(S)
  PROVE  IsPrefix(a, a \o b)
<1>1. PICK d : d = a \o b
  OBVIOUS
<1>2. /\ Len(d) = Len(a) + Len(b) /\ Len(a) \in Nat /\ Len(b) \in Nat
      /\ d \in Seq(S) /\ Within(a, d, 0)
  BY <1>1, Longer
<1>3. SubSeq(d, 0 + 1, 0 + Len(a)) = a
  BY <1>2, PartIs
<1>4. SubSeq(a, 1, Len(a)) = a
  BY SubSeqFull
<1>5. 0 + 1 = 1 /\ 0 + Len(a) = Len(a) /\ Len(a) <= Len(d)
  BY <1>2
<1> QED BY <1>1, <1>3, <1>4, <1>5 DEF IsPrefix

LEMMA PrefixOfItself ==
  ASSUME NEW S, NEW a \in Seq(S)
  PROVE  IsPrefix(a, a)
BY LenProperties DEF IsPrefix

(* Of the text c the part d has gone out, restored, and b is held back.    *)
Filled(c, b, d) ==
    \E p \in 0..Len(c) :
        /\ Held(c, p)
        /\ b = SubSeq(c, p + 1, Len(c))
        /\ d = Restore(SubSeq(c, 1, p))

(* The part d has gone out, restored, and then no more of the text c.      *)
PartlyFilled(c, d) ==
    \E p \in 0..Len(c) : NoneAcross(c, p) /\ d = Restore(SubSeq(c, 1, p))

LEMMA FilledEmpty == Filled(<<>>, <<>>, <<>>)
<1>1. Len(<<>>) = 0
  OBVIOUS
<1>2. 0 \in 0..Len(<<>>) /\ Held(<<>>, 0)
  BY <1>1 DEF Held
<1>3. SubSeq(<<>>, 0 + 1, Len(<<>>)) = <<>> /\ SubSeq(<<>>, 1, 0) = <<>>
  BY <1>1, SubSeqEmpty
<1>4. <<>> = Restore(SubSeq(<<>>, 1, 0))
  BY <1>3, RestoreEmpty
<1> QED BY <1>2, <1>3, <1>4 DEF Filled

LEMMA FilledEnds ==
  ASSUME NEW S, NEW c \in Seq(S), NEW b, NEW d, Filled(c, b, d)
  PROVE  Restore(c) = d \o Restore(b)
<1>1. PICK p \in 0..Len(c) :
          /\ Held(c, p)
          /\ b = SubSeq(c, p + 1, Len(c))
          /\ d = Restore(SubSeq(c, 1, p))
  BY DEF Filled
<1>2. c \o <<>> = c /\ <<>> \in Seq(S)
  BY ConcatEmptySeq, EmptySeq
<1>3. NoneAcross(c, p)
  BY <1>1, <1>2, HeldCutsNone
<1> QED BY <1>1, <1>3, RestoreSplits

LEMMA FilledType ==
  ASSUME NEW S, NEW c \in Seq(S), NEW b, NEW d, Filled(c, b, d)
  PROVE  b \in Seq(S) /\ d \in Seq(WithValues(S))
<1>1. PICK p \in 0..Len(c) :
          b = SubSeq(c, p + 1, Len(c)) /\ d = Restore(SubSeq(c, 1, p))
  BY DEF Filled
<1>2. SubSeq(c, p + 1, Len(c)) \in Seq(S) /\ SubSeq(c, 1, p) \in Seq(S)
  BY Parts
<1> QED BY <1>1, <1>2, RestoreType

(* What has gone out stays so when more text comes that does not go by.    *)
LEMMA FilledThenStopped ==
  ASSUME NEW S, NEW c \in Seq(S), NEW t \in Seq(S), NEW b, NEW d, Filled(c, b, d)
  PROVE  PartlyFilled(c \o t, d)
<1>1. PICK p \in 0..Len(c) : Held(c, p) /\ d = Restore(SubSeq(c, 1, p))
  BY DEF Filled
<1>2. PICK e : e = c \o t
  OBVIOUS
<1>3. /\ e \in Seq(S) /\ Len(e) = Len(c) + Len(t) /\ Within(c, e, 0)
      /\ Len(c) \in Nat /\ Len(t) \in Nat
  BY <1>2, Longer
<1>4. NoneAcross(e, p)
  BY <1>1, <1>2, HeldCutsNone
<1>5. p \in 0..Len(e)
  BY <1>3
<1>6. SubSeq(c, 1, p) = SubSeq(e, 1, p)
  <2>1. CASE p = 0
    BY <2>1, SubSeqEmpty
  <2>2. CASE p # 0
    <3>1. 1 \in 1..Len(c) /\ p \in 1..Len(c) /\ 0 + 1 = 1 /\ 0 + p = p
      BY <1>3, <2>2
    <3>2. SubSeq(c, 1, p) = SubSeq(e, 0 + 1, 0 + p)
      BY <1>3, <3>1, PartMoves
    <3> QED BY <3>1, <3>2
  <2> QED BY <2>1, <2>2
<1>7. PartlyFilled(e, d)
  BY <1>1, <1>4, <1>5, <1>6 DEF PartlyFilled
<1> QED BY <1>2, <1>7

LEMMA FilledGoesOn ==
  ASSUME NEW S, NEW c \in Seq(S), NEW t \in Seq(S), NEW b, NEW d, Filled(c, b, d)
  PROVE  Filled(c \o t, Feed(b, t).buf, d \o Feed(b, t).out)
<1>1. PICK p \in 0..Len(c) :
          /\ Held(c, p)
          /\ b = SubSeq(c, p + 1, Len(c))
          /\ d = Restore(SubSeq(c, 1, p))
  BY DEF Filled
<1>2. PICK e, fed : e = c \o t /\ fed = Feed(b, t)
  OBVIOUS
<1>3. PICK n \in p..Len(e) :
          /\ Held(e, n)
          /\ fed.buf = SubSeq(e, n + 1, Len(e))
          /\ Restore(SubSeq(e, 1, n)) = Restore(SubSeq(c, 1, p)) \o fed.out
  BY <1>1, <1>2, FeedGoesOn
<1>4. n \in 0..Len(e)
  BY <1>3 DEF Held
<1>5. Filled(e, fed.buf, d \o fed.out)
  BY <1>1, <1>3, <1>4 DEF Filled
<1> QED BY <1>2, <1>5

LEMMA FedType ==
  ASSUME NEW S, NEW b \in Seq(S), NEW t \in Seq(S)
  PROVE  Feed(b, t).out \in Seq(WithValues(S)) /\ Feed(b, t).buf \in Seq(S)
<1>1. PICK s, k : s = b \o t /\ k = HoldFrom(s) - 1
  OBVIOUS
<1>2. s \in Seq(S)
  BY <1>1, ConcatProperties
<1>3. k \in 0..Len(s)
  <2>1. HoldFrom(s) \in 1..(Len(s) + 1) /\ Len(s) \in Nat
    BY <1>2, HeldBack, LenProperties
  <2> QED BY <1>1, <2>1
<1>4. SubSeq(s, 1, k) \in Seq(S) /\ SubSeq(s, k + 1, Len(s)) \in Seq(S)
  BY <1>2, <1>3, Parts
<1>5. Feed(b, t).out = Restore(SubSeq(s, 1, k))
  BY <1>1 DEF Feed
<1>6. Feed(b, t).buf = SubSeq(s, k + 1, Len(s))
  <2>1. HoldFrom(s) \in 1..(Len(s) + 1) /\ Len(s) \in Nat
    BY <1>2, HeldBack, LenProperties
  <2>2. HoldFrom(s) = k + 1
    BY <1>1, <2>1
  <2> QED BY <1>1, <2>2 DEF Feed
<1> QED BY <1>4, <1>5, <1>6, RestoreType

LEMMA PartlyFilledIsPrefix ==
  ASSUME NEW S, NEW c \in Seq(S), NEW d, PartlyFilled(c, d)
  PROVE  IsPrefix(d, Restore(c))
<1>1. PICK p \in 0..Len(c) : NoneAcross(c, p) /\ d = Restore(SubSeq(c, 1, p))
  BY DEF PartlyFilled
<1>2. PICK r : r = Restore(SubSeq(c, p + 1, Len(c)))
  OBVIOUS
<1>3. d \in Seq(WithValues(S)) /\ r \in Seq(WithValues(S))
  <2>1. SubSeq(c, p + 1, Len(c)) \in Seq(S) /\ SubSeq(c, 1, p) \in Seq(S)
    BY Parts
  <2> QED BY <1>1, <1>2, <2>1, RestoreType
<1>4. Restore(c) = d \o r
  BY <1>1, <1>2, RestoreSplits
<1> QED BY <1>3, <1>4, PrefixOf

LEMMA FilledIsPrefix ==
  ASSUME NEW S, NEW c \in Seq(S), NEW b, NEW d, Filled(c, b, d)
  PROVE  IsPrefix(d, Restore(c))
<1>1. PICK r : r = Restore(b)
  OBVIOUS
<1>2. b \in Seq(S) /\ d \in Seq(WithValues(S))
  BY FilledType
<1>3. r \in Seq(WithValues(S))
  BY <1>1, <1>2, RestoreType
<1>4. Restore(c) = d \o r
  BY <1>1, FilledEnds
<1> QED BY <1>2, <1>3, <1>4, PrefixOf

-----------------------------------------------------------------------------
(* The stream of OpenAI.                                                   *)

(* Only of a stream that was refused has more arrived than was cleared.    *)
InStep == state # "blocked" => cleared = accumulated

(* A text, so far or at last, that is too long or one for the word list.   *)
Overrun(s) ==
    \/ Len(s) > MaxLength
    \/ provider = "wordlist" /\ Toxic(s)

Verdict ==
    provider # "ml" =>
        IF state = "blocked" THEN Overrun(accumulated) ELSE ~Overrun(cleared)

(* What has gone out, while the stream goes on: what may go out.           *)
Going ==
    /\ Filled(cleared, buf, delivered)
    /\ ahead[1] = 0 /\ ahead[2] <= Len(delivered)
    /\ lastChunk \/ cleared = <<>>

(* And after the finish: everything, but for the order.                    *)
Gone == Straightened = Restore(cleared) /\ buf = <<>>

Sent ==
    IF hasTokens
    THEN IF finished # {} \/ state = "passed" THEN Gone ELSE Going
    ELSE delivered = cleared /\ buf = <<>> /\ ahead = <<0, 0>>

IInv ==
    /\ TypeOK /\ RowMatchesEnd /\ InStep /\ Verdict /\ UnjudgedBounded
    /\ ChoiceCount = 1 => Sent

Straight(d, t, o) ==
    SubSeq(d, 1, Len(d) - t - o) \o SubSeq(d, Len(d) - o + 1, Len(d))
    \o SubSeq(d, Len(d) - t - o + 1, Len(d) - o)

(* What was sent ahead of its turn, put where it belongs.                  *)
LEMMA Straighten ==
  ASSUME NEW S, NEW a \in Seq(S), NEW b \in Seq(S), NEW c \in Seq(S)
  PROVE  Straight((a \o b) \o c, Len(b), Len(c)) = (a \o c) \o b
<1>1. PICK e, d : e = a \o b /\ d = e \o c
  OBVIOUS
<1>2. /\ e \in Seq(S) /\ Len(e) = Len(a) + Len(b) /\ Within(a, e, 0) /\ Within(b, e, Len(a))
      /\ Len(a) \in Nat /\ Len(b) \in Nat
  BY <1>1, Longer
<1>3. /\ d \in Seq(S) /\ Len(d) = Len(e) + Len(c) /\ Within(e, d, 0) /\ Within(c, d, Len(e))
      /\ Len(e) \in Nat /\ Len(c) \in Nat
  BY <1>1, <1>2, Longer
<1>4. Within(a, d, 0)
  <2>1. \A i \in 1..Len(a) : 0 + i = i /\ i \in 1..Len(e)
    BY <1>2
  <2>2. \A i \in 1..Len(a) : a[i] = e[0 + i] /\ e[i] = d[0 + i]
    BY <1>2, <1>3, <2>1 DEF Within
  <2> QED BY <1>2, <1>3, <2>1, <2>2 DEF Within
<1>5. Within(b, d, Len(a))
  <2>1. \A i \in 1..Len(b) : Len(a) + i \in 1..Len(e) /\ 0 + (Len(a) + i) = Len(a) + i
    BY <1>2
  <2>2. \A i \in 1..Len(e) : e[i] = d[0 + i] /\ 0 + i = i
    BY <1>2, <1>3 DEF Within
  <2>3. \A i \in 1..Len(b) : b[i] = e[Len(a) + i]
    BY <1>2 DEF Within
  <2>4. \A i \in 1..Len(b) : b[i] = d[Len(a) + i]
    <3> SUFFICES ASSUME NEW i \in 1..Len(b) PROVE b[i] = d[Len(a) + i]
      OBVIOUS
    <3>1. PICK n : n = Len(a) + i
      OBVIOUS
    <3>2. n \in 1..Len(e)
      BY <2>1, <3>1
    <3>3. e[n] = d[n]
      BY <2>2, <3>2
    <3> QED BY <2>3, <3>1, <3>3
  <2> QED BY <1>2, <1>3, <2>4 DEF Within
<1>6. SubSeq(d, 0 + 1, 0 + Len(a)) = a
  BY <1>3, <1>4, PartIs
<1>7. SubSeq(d, Len(a) + 1, Len(a) + Len(b)) = b
  BY <1>2, <1>3, <1>5, PartIs
<1>8. SubSeq(d, Len(e) + 1, Len(e) + Len(c)) = c
  BY <1>3, PartIs
<1>9. /\ 0 + 1 = 1 /\ Len(d) - Len(b) - Len(c) = 0 + Len(a)
      /\ Len(d) - Len(c) + 1 = Len(e) + 1 /\ Len(d) = Len(e) + Len(c)
      /\ Len(d) - Len(b) - Len(c) + 1 = Len(a) + 1 /\ Len(d) - Len(c) = Len(a) + Len(b)
  BY <1>2, <1>3
<1>10. Straight(d, Len(b), Len(c)) = (a \o c) \o b
  BY <1>6, <1>7, <1>8, <1>9 DEF Straight
<1> QED BY <1>1, <1>10

LEMMA NothingAhead ==
  ASSUME NEW S, NEW d \in Seq(S), NEW o \in Nat, o <= Len(d)
  PROVE  Straight(d, 0, o) = d
<1>1. PICK k : k = Len(d) - o
  OBVIOUS
<1>2. k \in 0..Len(d) /\ Len(d) \in Nat
  <2>1. Len(d) \in Nat
    BY LenProperties
  <2> QED BY <1>1, <2>1
<1>3. /\ Len(d) - 0 - o = k /\ Len(d) - o + 1 = k + 1
      /\ Len(d) - 0 - o + 1 = k + 1 /\ Len(d) - o = k
  BY <1>1, <1>2
<1>4. SubSeq(d, 1, k) \o SubSeq(d, k + 1, Len(d)) = d
  BY <1>2, Parts
<1>5. SubSeq(d, k + 1, k) = <<>>
  <2>1. k < k + 1 /\ k + 1 \in Int /\ k \in Int
    BY <1>2
  <2> QED BY <2>1, SubSeqEmpty
<1>6. d \o <<>> = d
  BY ConcatEmptySeq
<1> QED BY <1>3, <1>4, <1>5, <1>6 DEF Straight

LEMMA StraightenedIs == Straightened = Straight(delivered, ahead[1], ahead[2])
BY DEF Straightened, Straight

LEMMA SymbolIs == Symbol = WithValues(Symbols)
BY DEF Symbol, WithValues

LEMMA TextType ==
  ASSUME NEW text \in Text
  PROVE  text \in Seq(Symbols) /\ Len(text) \in Nat \ {0} /\ text # <<>>
<1>1. PICK n \in 1..MaxChunk : text \in [1..n -> Symbols]
  BY DEF Text
<1>2. n \in Nat \ {0} /\ Len(text) = n
  BY <1>1, GuardsAssumption
<1> QED BY <1>1, <1>2, EmptySeq

LEMMA NothingYet == ~Overrun(<<>>)
<1>1. Len(<<>>) = 0
  OBVIOUS
<1>2. ~Toxic(<<>>)
  BY <1>1, GuardsAssumption DEF Toxic
<1>3. ~(Len(<<>>) > MaxLength)
  BY <1>1, GuardsAssumption
<1> QED BY <1>2, <1>3 DEF Overrun

(* A text that is too long or one for the word list stays so.              *)
LEMMA OverrunStays ==
  ASSUME NEW s \in Seq(Symbols), NEW t \in Seq(Symbols), Overrun(s)
  PROVE  Overrun(s \o t)
<1>1. PICK e : e = s \o t
  OBVIOUS
<1>2. /\ e \in Seq(Symbols) /\ Len(e) = Len(s) + Len(t) /\ Within(s, e, 0)
      /\ Len(s) \in Nat /\ Len(t) \in Nat
  BY <1>1, Longer
<1>3. Len(s) > MaxLength => Len(e) > MaxLength
  BY <1>2, GuardsAssumption
<1>4. Toxic(s) => Toxic(e)
  <2> SUFFICES ASSUME Toxic(s) PROVE Toxic(e)
    OBVIOUS
  <2>1. PICK i \in 0..(Len(s) - Len(Phrase)) : SubSeq(s, i + 1, i + Len(Phrase)) = Phrase
    BY DEF Toxic
  <2>2. Len(Phrase) \in Nat \ {0}
    BY GuardsAssumption
  <2>3. /\ i + 1 \in 1..Len(s) /\ i + Len(Phrase) \in (i + 1)..Len(s)
        /\ i \in 0..(Len(e) - Len(Phrase))
        /\ 0 + (i + 1) = i + 1 /\ 0 + (i + Len(Phrase)) = i + Len(Phrase)
    BY <1>2, <2>2
  <2>4. SubSeq(s, i + 1, i + Len(Phrase)) = SubSeq(e, 0 + (i + 1), 0 + (i + Len(Phrase)))
    BY <1>2, <2>3, PartMoves
  <2>5. SubSeq(e, i + 1, i + Len(Phrase)) = Phrase
    BY <2>1, <2>3, <2>4
  <2> QED BY <2>3, <2>5 DEF Toxic
<1> QED BY <1>1, <1>3, <1>4 DEF Overrun

LEMMA InitIInv == Init => IInv
<1> SUFFICES ASSUME Init PROVE IInv
  OBVIOUS
<1>1. Len(<<>>) = 0 /\ \A S : <<>> \in Seq(S)
  BY EmptySeq
<1>2. TypeOK
  <2>1. provider \in Providers /\ hasTokens \in BOOLEAN
    BY DEF Init, PolicyInit
  <2>2. Len(accumulated) <= MaxText /\ toxLast \in 0..MaxText /\ ahead \in Nat \X Nat
    BY <1>1, GuardsAssumption DEF Init
  <2>3. /\ accumulated \in Seq(Symbols) /\ cleared \in Seq(Symbols)
        /\ buf \in Seq(Symbols) /\ delivered \in Seq(Symbol)
        /\ rows \in Seq({"passed", "output_blocked"})
    BY <1>1 DEF Init
  <2>4. /\ lastChunk \in BOOLEAN /\ finished \subseteq 1..ChoiceCount /\ state = "open"
        /\ texts \in [1..ChoiceCount -> Seq(Symbols)]
    BY <1>1 DEF Init
  <2> QED BY <2>1, <2>2, <2>3, <2>4 DEF TypeOK
<1>3. RowMatchesEnd /\ InStep
  BY DEF Init, RowMatchesEnd, InStep
<1>4. Verdict
  BY NothingYet DEF Init, Verdict
<1>5. UnjudgedBounded
  BY <1>1, GuardsAssumption DEF Init, UnjudgedBounded
<1>6. Sent
  <2>1. CASE hasTokens
    <3>3. Filled(cleared, buf, delivered)
      BY FilledEmpty DEF Init
    <3>4. ahead[1] = 0 /\ ahead[2] <= Len(delivered) /\ cleared = <<>>
      BY <1>1 DEF Init
    <3>5. Going
      BY <3>3, <3>4 DEF Going
    <3> QED BY <2>1, <3>5 DEF Init, Sent
  <2>2. CASE ~hasTokens
    BY <2>2 DEF Init, Sent
  <2> QED BY <2>1, <2>2
<1> QED BY <1>2, <1>3, <1>4, <1>5, <1>6 DEF IInv

(* A step that sends nothing and clears nothing: a refusal or the end.     *)
LEMMA SilentKeepsSent ==
  ASSUME ChoiceCount = 1, IInv, state # "passed", state' # "passed",
         UNCHANGED <<cleared, buf, delivered, lastChunk, finished, ahead, policy>>
  PROVE  Sent'
<1>1. Straightened' = Straightened
  BY DEF Straightened
<1>2. Going => Going'
  BY DEF Going
<1>3. Gone => Gone'
  BY <1>1 DEF Gone
<1> QED BY <1>2, <1>3 DEF IInv, Sent, policy

LEMMA AskedType ==
  ASSUME NEW s, Len(s) \in 0..MaxText, NEW last \in 0..MaxText
  PROVE  LastAsked(s, last) \in 0..MaxText
BY DEF LastAsked

LEMMA BlockKeeps ==
  ASSUME IInv, state = "open", NEW text \in Text, Block(text), UNCHANGED policy,
         Len(accumulated) + Len(text) <= MaxText, texts' \in [1..ChoiceCount -> Seq(Symbols)]
  PROVE  IInv'
<1>1. text \in Seq(Symbols) /\ Len(text) \in Nat
  BY TextType
<1>2. accumulated \in Seq(Symbols) /\ toxLast \in 0..MaxText /\ cleared = accumulated
  BY DEF IInv, TypeOK, InStep
<1>3. /\ accumulated' = accumulated \o text /\ accumulated' \in Seq(Symbols)
      /\ Len(accumulated') = Len(accumulated) + Len(text) /\ Len(accumulated) \in Nat
  <2>1. PICK d : d = accumulated \o text
    OBVIOUS
  <2>2. d \in Seq(Symbols) /\ Len(d) = Len(accumulated) + Len(text) /\ Len(accumulated) \in Nat
    BY <1>1, <1>2, <2>1, Longer
  <2>3. accumulated' = d
    BY <2>1 DEF Block
  <2> QED BY <2>1, <2>2, <2>3
<1>4. Len(accumulated') \in 0..MaxText
  BY <1>1, <1>3, GuardsAssumption
<1>5. toxLast' \in 0..MaxText
  <2>1. PICK d : d = accumulated'
    OBVIOUS
  <2>2. toxLast' = LastAsked(d, toxLast)
    BY <2>1 DEF Block
  <2> QED BY <1>2, <1>4, <2>1, <2>2, AskedType
<1>6. TypeOK'
  <2>1. rows = <<>> /\ rows' = <<"output_blocked">>
    BY DEF Block, IInv, RowMatchesEnd
  <2>2. rows' \in Seq({"passed", "output_blocked"})
    BY <2>1
  <2> QED BY <1>3, <1>4, <1>5, <2>2 DEF Block, IInv, TypeOK, policy
<1>7. RowMatchesEnd'
  BY DEF Block, IInv, RowMatchesEnd
<1>8. InStep'
  BY DEF Block, InStep
<1>9. Verdict'
  <2>1. provider' # "ml" => Overrun(accumulated')
    BY DEF Block, Rejected, Overrun, TooLong, policy
  <2> QED BY <2>1 DEF Block, Verdict, Overrun, policy
<1>10. UnjudgedBounded'
  <2>1. toxLast' = toxLast \/ toxLast' = Len(accumulated')
    BY DEF Block, LastAsked
  <2>2. Len(cleared') = Len(accumulated) /\ provider' = provider
    BY <1>2 DEF Block, policy
  <2>3. provider = "ml" => Len(accumulated) - toxLast < Interval
    BY <1>2 DEF IInv, UnjudgedBounded
  <2> QED BY <1>1, <1>2, <1>3, <2>1, <2>2, <2>3, GuardsAssumption DEF UnjudgedBounded
<1>11. ChoiceCount = 1 => Sent'
  <2>1. state' # "passed"
    BY DEF Block
  <2> QED BY <2>1, SilentKeepsSent DEF Block
<1> QED BY <1>6, <1>7, <1>8, <1>9, <1>10, <1>11 DEF IInv

(* Of any number of choices.                                               *)
LEMMA PassTypes ==
  ASSUME TypeOK, NEW choice, NEW text \in Seq(Symbols), NEW finish \in BOOLEAN,
         Pass(choice, text, finish), UNCHANGED policy
  PROVE  delivered' \in Seq(Symbol) /\ buf' \in Seq(Symbols) /\ ahead' \in Nat \X Nat
<1>1. /\ buf \in Seq(Symbols) /\ delivered \in Seq(Symbol) /\ ahead \in Nat \X Nat
      /\ <<>> \in Seq(Symbols) /\ <<>> \in Seq(Symbol)
  BY EmptySeq DEF TypeOK
<1>2. CASE hasTokens
  <2>1. PICK fed : fed = IF text = <<>> THEN [out |-> <<>>, buf |-> buf] ELSE Feed(buf, text)
    OBVIOUS
  <2>2. PICK out, kept, tail :
            out = fed.out /\ kept = fed.buf /\ tail = IF finish THEN Restore(kept) ELSE <<>>
    OBVIOUS
  <2>3. out \in Seq(Symbol) /\ kept \in Seq(Symbols)
    <3>1. CASE text = <<>>
      BY <1>1, <2>1, <2>2, <3>1
    <3>2. CASE text # <<>>
      <4>1. out = Feed(buf, text).out /\ kept = Feed(buf, text).buf
        BY <2>1, <2>2, <3>2
      <4> QED BY <1>1, <4>1, FedType, SymbolIs
    <3> QED BY <3>1, <3>2
  <2>4. tail \in Seq(Symbol)
    BY <1>1, <2>2, <2>3, RestoreType, SymbolIs
  <2>5. /\ delivered' = (delivered \o tail) \o out
        /\ buf' = IF finish THEN <<>> ELSE kept
        /\ ahead' = <<Len(tail), Len(out)>>
    BY <1>2, <2>1, <2>2 DEF Pass, Reinject
  <2>6. delivered' \in Seq(Symbol)
    BY <1>1, <2>3, <2>4, <2>5, ConcatProperties
  <2>7. Len(tail) \in Nat /\ Len(out) \in Nat
    BY <2>3, <2>4, LenProperties
  <2> QED BY <1>1, <2>3, <2>5, <2>6, <2>7
<1>3. CASE ~hasTokens
  <2>1. delivered' = delivered \o text /\ buf' = buf /\ ahead' = ahead
    BY <1>3 DEF Pass, Reinject
  <2>2. text \in Seq(Symbol)
    <3>1. Symbols \subseteq Symbol
      BY DEF Symbol
    <3> QED BY <3>1, SeqMonotonic
  <2>3. delivered' \in Seq(Symbol)
    BY <1>1, <2>1, <2>2, ConcatProperties
  <2> QED BY <1>1, <2>1, <2>3
<1> QED BY <1>2, <1>3

LEMMA PassKeepsSent ==
  ASSUME ChoiceCount = 1, IInv, state = "open", NEW choice \in (1..ChoiceCount) \ finished,
         NEW text \in Seq(Symbols), NEW finish \in BOOLEAN,
         Pass(choice, text, finish), UNCHANGED policy
  PROVE  Sent'
<1>0. finished = {}
  <2>1. finished \subseteq {1} /\ choice = 1 /\ choice \notin finished
    BY DEF IInv, TypeOK
  <2> QED BY <2>1
<1>1. /\ cleared \in Seq(Symbols) /\ buf \in Seq(Symbols) /\ delivered \in Seq(Symbol)
      /\ ahead \in Nat \X Nat /\ cleared = accumulated
  BY DEF IInv, TypeOK, InStep
<1>2. PICK d : d = cleared \o text
  OBVIOUS
<1>3. /\ cleared' = d /\ state' = "open" /\ hasTokens' = hasTokens
      /\ finished' = IF finish THEN {choice} ELSE {}
  <2>1. finished' = finished \cup {c \in {choice} : finish}
    BY DEF Pass
  <2>2. finished' = IF finish THEN {choice} ELSE {}
    BY <1>0, <2>1
  <2> QED BY <1>1, <1>2, <2>2 DEF Pass, Judge, policy
<1>4. d \in Seq(Symbols)
  BY <1>1, <1>2, Longer
<1>5. CASE hasTokens
  <2>1. PICK fed : fed = IF text = <<>> THEN [out |-> <<>>, buf |-> buf] ELSE Feed(buf, text)
    OBVIOUS
  <2>2. PICK out, kept : out = fed.out /\ kept = fed.buf
    OBVIOUS
  <2>3. Filled(d, kept, delivered \o out)
    <3>1. Filled(cleared, buf, delivered)
      BY <1>0, <1>1, <1>5 DEF IInv, Sent, Going
    <3>2. CASE text = <<>>
      <4>1. kept = buf /\ out = <<>>
        BY <2>1, <2>2, <3>2
      <4>2. d = cleared /\ delivered \o out = delivered
        BY <1>1, <1>2, <3>2, <4>1, ConcatEmptySeq
      <4> QED BY <3>1, <4>1, <4>2
    <3>3. CASE text # <<>>
      <4>1. kept = Feed(buf, text).buf /\ out = Feed(buf, text).out
        BY <2>1, <2>2, <3>3
      <4> QED BY <1>1, <1>2, <3>1, <4>1, FilledGoesOn
    <3> QED BY <3>2, <3>3
  <2>4. /\ out \in Seq(Symbol) /\ kept \in Seq(Symbols) /\ Restore(kept) \in Seq(Symbol)
        /\ Len(out) \in Nat
    <3>1. kept \in Seq(Symbols)
      BY <1>4, <2>3, FilledType
    <3>2. out \in Seq(Symbol)
      <4>1. CASE text = <<>>
        BY <2>1, <2>2, <4>1, EmptySeq
      <4>2. CASE text # <<>>
        <5>1. out = Feed(buf, text).out
          BY <2>1, <2>2, <4>2
        <5> QED BY <1>1, <5>1, FedType, SymbolIs
      <4> QED BY <4>1, <4>2
    <3> QED BY <3>1, <3>2, RestoreType, SymbolIs, LenProperties
  <2>5. CASE finish
    <3>1. PICK tail : tail = Restore(kept)
      OBVIOUS
    <3>2. /\ delivered' = (delivered \o tail) \o out /\ buf' = <<>>
          /\ ahead' = <<Len(tail), Len(out)>>
      BY <1>5, <2>1, <2>2, <2>5, <3>1 DEF Pass, Reinject
    <3>3. tail \in Seq(Symbol) /\ Len(tail) \in Nat
      BY <2>4, <3>1, LenProperties
    <3>4. delivered' \in Seq(Symbol)
      BY <1>1, <2>4, <3>2, <3>3, ConcatProperties
    <3>5. Straight((delivered \o tail) \o out, Len(tail), Len(out)) = (delivered \o out) \o tail
      <4>1. PICK S : S = Symbol
        OBVIOUS
      <4>2. delivered \in Seq(S) /\ tail \in Seq(S) /\ out \in Seq(S)
        BY <1>1, <2>4, <3>3, <4>1
      <4> QED BY ONLY <4>2, Straighten
    <3>6. Restore(d) = (delivered \o out) \o tail
      BY <1>4, <2>3, <3>1, FilledEnds
    <3>7. Straightened' = (delivered \o out) \o tail
      <4>1. Straightened' = Straight(delivered', ahead'[1], ahead'[2])
        BY DEF Straightened, Straight
      <4>2. ahead'[1] = Len(tail) /\ ahead'[2] = Len(out)
        BY <3>2
      <4> QED BY <3>2, <3>5, <4>1, <4>2
    <3>8. Straightened' = Restore(cleared')
      BY <1>3, <3>6, <3>7
    <3>9. Gone'
      BY <3>2, <3>8 DEF Gone
    <3>10. buf' \in Seq(Symbols) /\ ahead' \in Nat \X Nat
      BY <2>4, <3>2, <3>3, EmptySeq
    <3> QED BY <1>3, <1>5, <2>5, <3>4, <3>9, <3>10 DEF Sent
  <2>6. CASE ~finish
    <3>1. /\ delivered' = (delivered \o <<>>) \o out /\ buf' = kept
          /\ ahead' = <<Len(<<>>), Len(out)>> /\ lastChunk' = TRUE
      BY <1>5, <2>1, <2>2, <2>6 DEF Pass, Reinject
    <3>2. delivered \o <<>> = delivered /\ Len(<<>>) = 0
      BY <1>1, ConcatEmptySeq
    <3>3. delivered' = delivered \o out /\ ahead'[1] = 0 /\ ahead'[2] = Len(out)
      BY <3>1, <3>2
    <3>4. delivered' \in Seq(Symbol) /\ Len(out) <= Len(delivered')
      <4>1. /\ delivered \o out \in Seq(Symbol)
            /\ Len(delivered \o out) = Len(delivered) + Len(out) /\ Len(delivered) \in Nat
        BY <1>1, <2>4, Longer
      <4> QED BY <2>4, <3>3, <4>1
    <3>5. Going'
      <4>1. Filled(cleared', buf', delivered')
        BY <1>3, <2>3, <3>1, <3>3
      <4>2. ahead'[1] = 0 /\ ahead'[2] <= Len(delivered') /\ lastChunk'
        BY <3>1, <3>3, <3>4
      <4> QED BY <4>1, <4>2 DEF Going
    <3>6. ahead' \in Nat \X Nat
      BY <2>4, <3>1, <3>2
    <3> QED BY <1>3, <1>5, <2>4, <2>6, <3>1, <3>4, <3>5, <3>6 DEF Sent
  <2> QED BY <2>5, <2>6
<1>6. CASE ~hasTokens
  <2>1. delivered' = delivered \o text /\ buf' = buf /\ ahead' = ahead
    BY <1>6 DEF Pass, Reinject
  <2>2. delivered = cleared /\ buf = <<>> /\ ahead = <<0, 0>>
    BY <1>6 DEF IInv, Sent
  <2>3. Sent'
    BY <1>2, <1>3, <1>6, <2>1, <2>2 DEF Sent
  <2>4. Symbols \subseteq Symbol
    BY DEF Symbol
  <2>5. delivered' \in Seq(Symbol)
    BY <1>2, <1>4, <2>1, <2>2, <2>4, SeqMonotonic
  <2> QED BY <1>1, <2>1, <2>3, <2>5
<1> QED BY <1>5, <1>6

LEMMA PassKeeps ==
  ASSUME IInv, state = "open", NEW choice \in (1..ChoiceCount) \ finished,
         NEW text \in Seq(Symbols), NEW finish \in BOOLEAN,
         Pass(choice, text, finish), UNCHANGED policy,
         Len(accumulated) + Len(text) <= MaxText, texts' \in [1..ChoiceCount -> Seq(Symbols)]
  PROVE  IInv'
<1>1. PICK d : d = accumulated \o text
  OBVIOUS
<1>2. /\ accumulated \in Seq(Symbols) /\ toxLast \in 0..MaxText /\ cleared = accumulated
      /\ provider' = provider /\ hasTokens' = hasTokens
  BY DEF IInv, TypeOK, InStep, policy
<1>3. /\ d \in Seq(Symbols) /\ Len(d) = Len(accumulated) + Len(text)
      /\ Len(accumulated) \in Nat /\ Len(text) \in Nat /\ Len(d) \in 0..MaxText
  BY <1>1, <1>2, Longer, GuardsAssumption
<1>4. /\ accumulated' = d /\ cleared' = d /\ state' = state /\ rows' = rows
      /\ finished' = finished \cup {c \in {choice} : finish}
  BY <1>1 DEF Pass, Judge
<1>5. text = <<>> => d = accumulated /\ toxLast' = toxLast
  BY <1>1, <1>2, ConcatEmptySeq DEF Pass, Judge
<1>6. text # <<>> => Accepted(d, toxLast) /\ toxLast' = LastAsked(d, toxLast)
  BY <1>4 DEF Pass, Judge
<1>7. toxLast' \in 0..MaxText
  BY <1>2, <1>3, <1>5, <1>6, AskedType
<1>8. lastChunk' \in BOOLEAN
  BY DEF Pass, Reinject, IInv, TypeOK
<1>9. TypeOK'
  <2>1. delivered' \in Seq(Symbol) /\ buf' \in Seq(Symbols) /\ ahead' \in Nat \X Nat
    BY PassTypes DEF IInv
  <2>2. finished' \subseteq 1..ChoiceCount
    BY <1>4 DEF IInv, TypeOK
  <2> QED BY <1>2, <1>3, <1>4, <1>7, <1>8, <2>1, <2>2 DEF IInv, TypeOK
<1>10. RowMatchesEnd' /\ InStep'
  BY <1>4 DEF IInv, RowMatchesEnd, InStep
<1>11. Verdict'
  <2>1. provider # "ml" => ~Overrun(d)
    <3>1. CASE text = <<>>
      BY <1>2, <1>5, <3>1 DEF IInv, Verdict
    <3>2. CASE text # <<>>
      BY <1>6, <3>2 DEF Accepted, Overrun, TooLong
    <3> QED BY <3>1, <3>2
  <2> QED BY <1>2, <1>4, <2>1 DEF Verdict, Overrun
<1>12. UnjudgedBounded'
  <2>1. provider = "ml" => Len(d) - toxLast' < Interval
    <3>1. CASE text = <<>>
      BY <1>2, <1>5, <3>1 DEF IInv, UnjudgedBounded
    <3>2. CASE text # <<>>
      BY <1>2, <1>3, <1>6, <3>2, GuardsAssumption DEF Accepted, LastAsked, Due
    <3> QED BY <3>1, <3>2
  <2> QED BY <1>2, <1>4, <2>1 DEF UnjudgedBounded
<1> QED BY <1>9, <1>10, <1>11, <1>12, PassKeepsSent DEF IInv

(* A stream that ends with nothing sent: the upstream failed, or is gone.  *)
LEMMA AbortKeeps ==
  ASSUME IInv, EmptyChoices \/ Abort, UNCHANGED policy
  PROVE  IInv'
<1>1. /\ state = "open" /\ state' \in {"raised", "failed", "cut"}
      /\ UNCHANGED <<texts, accumulated, cleared, buf, delivered, toxLast, lastChunk,
                     finished, rows, ahead, provider, hasTokens>>
  BY DEF EmptyChoices, Abort, policy
<1>2. ChoiceCount = 1 => Sent'
  BY <1>1, SilentKeepsSent DEF policy
<1>3. TypeOK'
  BY <1>1 DEF IInv, TypeOK
<1>4. RowMatchesEnd' /\ InStep'
  BY <1>1 DEF IInv, RowMatchesEnd, InStep
<1>5. Verdict' /\ UnjudgedBounded'
  BY <1>1 DEF IInv, Verdict, UnjudgedBounded, Overrun
<1> QED BY <1>2, <1>3, <1>4, <1>5 DEF IInv

LEMMA DoneKeepsSent ==
  ASSUME ChoiceCount = 1, IInv, Done, UNCHANGED policy
  PROVE  Sent'
<1>1. /\ cleared \in Seq(Symbols) /\ buf \in Seq(Symbols) /\ delivered \in Seq(Symbol)
      /\ ahead \in Nat \X Nat /\ state = "open"
  BY DEF IInv, TypeOK, Done
<1>2. /\ state' = "passed" /\ hasTokens' = hasTokens /\ cleared' = cleared
      /\ ahead' = ahead /\ finished' = finished
  BY DEF Done, policy
<1>3. <<>> \in Seq(Symbols) /\ <<>> \in Seq(Symbol) /\ Restore(<<>>) = <<>>
  BY EmptySeq, RestoreEmpty
<1>4. delivered \o <<>> = delivered
  BY <1>1, ConcatEmptySeq
<1>5. CASE ~hasTokens
  BY <1>1, <1>2, <1>5 DEF Done, IInv, Sent
<1>6. CASE hasTokens /\ finished # {}
  <2>1. Gone
    BY <1>6 DEF IInv, Sent
  <2>2. delivered' = delivered /\ buf' = <<>>
    BY <1>3, <1>4, <2>1 DEF Done, Gone
  <2>3. Gone'
    BY <1>2, <2>1, <2>2 DEF Gone, Straightened
  <2> QED BY <1>1, <1>2, <1>3, <1>6, <2>2, <2>3 DEF Sent
<1>7. CASE hasTokens /\ finished = {}
  <2>1. Filled(cleared, buf, delivered)
    BY <1>1, <1>7 DEF IInv, Sent, Going
  <2>2. /\ ahead[1] = 0 /\ ahead[2] \in Nat /\ ahead[2] <= Len(delivered)
        /\ lastChunk \/ cleared = <<>>
    BY <1>1, <1>7 DEF IInv, Sent, Going
  <2>3. Restore(cleared) = delivered \o Restore(buf)
    BY <1>1, <2>1, FilledEnds
  <2>4. delivered' = Restore(cleared) /\ buf' = <<>>
    <3>1. CASE lastChunk
      BY <1>7, <2>3, <3>1 DEF Done
    <3>2. CASE ~lastChunk
      <4>1. cleared = <<>>
        BY <2>2, <3>2
      <4>2. buf = <<>> /\ delivered = <<>>
        <5>1. PICK p \in 0..Len(cleared) :
                  buf = SubSeq(cleared, p + 1, Len(cleared))
                  /\ delivered = Restore(SubSeq(cleared, 1, p))
          BY <2>1 DEF Filled
        <5>2. p = 0 /\ Len(cleared) = 0
          BY <4>1, <5>1
        <5>3. SubSeq(cleared, p + 1, Len(cleared)) = <<>> /\ SubSeq(cleared, 1, p) = <<>>
          BY <5>2, SubSeqEmpty
        <5> QED BY <1>3, <5>1, <5>3
      <4> QED BY <1>3, <3>2, <4>1, <4>2 DEF Done
    <3> QED BY <3>1, <3>2
  <2>5. delivered' \in Seq(Symbol)
    BY <1>1, <2>4, RestoreType, SymbolIs
  <2>6. ahead[2] <= Len(delivered')
    <3>1. PICK r : r = Restore(buf)
      OBVIOUS
    <3>2. r \in Seq(Symbol)
      BY <1>1, <3>1, RestoreType, SymbolIs
    <3>3. /\ Len(delivered \o r) = Len(delivered) + Len(r)
          /\ Len(delivered) \in Nat /\ Len(r) \in Nat
      BY <1>1, <3>2, Longer
    <3>4. delivered' = delivered \o r
      BY <2>3, <2>4, <3>1
    <3> QED BY <2>2, <3>3, <3>4
  <2>7. Straightened' = delivered'
    <3>1. PICK d, o : d = delivered' /\ o = ahead[2]
      OBVIOUS
    <3>2. Straight(d, 0, o) = d
      BY <2>2, <2>5, <2>6, <3>1, NothingAhead
    <3>3. Straightened' = Straight(delivered', ahead'[1], ahead'[2])
      BY DEF Straightened, Straight
    <3> QED BY <1>2, <2>2, <3>1, <3>2, <3>3
  <2>8. Gone'
    BY <1>2, <2>4, <2>7 DEF Gone
  <2> QED BY <1>2, <1>3, <1>7, <2>4, <2>5, <2>8 DEF Sent
<1> QED BY <1>5, <1>6, <1>7

LEMMA DoneKeeps ==
  ASSUME IInv, Done, UNCHANGED policy
  PROVE  IInv'
<1>1. /\ state = "open" /\ state' = "passed" /\ rows' = Append(rows, "passed")
      /\ UNCHANGED <<texts, accumulated, cleared, toxLast, lastChunk, finished, ahead,
                     provider, hasTokens>>
  BY DEF Done, policy
<1>2. rows = <<>> /\ rows' = <<"passed">>
  BY <1>1 DEF IInv, RowMatchesEnd
<1>3. rows' \in Seq({"passed", "output_blocked"})
  BY <1>2
<1>4. TypeOK'
  <2>1. buf' \in Seq(Symbols) /\ delivered' \in Seq(Symbol)
    <3>1. buf \in Seq(Symbols) /\ delivered \in Seq(Symbol) /\ <<>> \in Seq(Symbols)
      BY EmptySeq DEF IInv, TypeOK
    <3>2. Restore(buf) \in Seq(Symbol)
      BY <3>1, RestoreType, SymbolIs
    <3>3. delivered \o Restore(buf) \in Seq(Symbol)
      BY <3>1, <3>2, ConcatProperties
    <3> QED BY <3>1, <3>3 DEF Done
  <2> QED BY <1>1, <1>3, <2>1 DEF IInv, TypeOK
<1>5. RowMatchesEnd' /\ InStep'
  BY <1>1, <1>2 DEF IInv, RowMatchesEnd, InStep
<1>6. Verdict' /\ UnjudgedBounded'
  BY <1>1 DEF IInv, Verdict, UnjudgedBounded, Overrun
<1> QED BY <1>4, <1>5, <1>6, DoneKeepsSent DEF IInv

LEMMA NextKeeps == IInv /\ [Next]_vars => IInv'
<1> SUFFICES ASSUME IInv, [Next]_vars PROVE IInv'
  OBVIOUS
<1>1. CASE Chunk /\ UNCHANGED policy
  <2>1. state = "open"
    BY <1>1 DEF Chunk
  <2>2. PICK choice \in (1..ChoiceCount) \ finished, finish \in BOOLEAN :
            \/ \E text \in Text :
                  /\ Len(accumulated) + Len(text) <= MaxText
                  /\ texts' = [texts EXCEPT ![choice] = @ \o text]
                  /\ Block(text) \/ Pass(choice, text, finish)
            \/ Pass(choice, <<>>, finish) /\ UNCHANGED texts
    BY <1>1 DEF Chunk
  <2>3. texts \in [1..ChoiceCount -> Seq(Symbols)]
    BY DEF IInv, TypeOK
  <2>4. CASE \E text \in Text :
                /\ Len(accumulated) + Len(text) <= MaxText
                /\ texts' = [texts EXCEPT ![choice] = @ \o text]
                /\ Block(text) \/ Pass(choice, text, finish)
    <3>1. PICK text \in Text :
              /\ Len(accumulated) + Len(text) <= MaxText
              /\ texts' = [texts EXCEPT ![choice] = @ \o text]
              /\ Block(text) \/ Pass(choice, text, finish)
      BY <2>4
    <3>2. text \in Seq(Symbols)
      BY TextType
    <3>3. texts' \in [1..ChoiceCount -> Seq(Symbols)]
      <4>1. PICK e, S : e = texts[choice] \o text /\ S = Seq(Symbols)
        OBVIOUS
      <4>2. e \in S
        BY <2>3, <3>2, <4>1, ConcatProperties
      <4>3. texts' = [texts EXCEPT ![choice] = e] /\ texts \in [1..ChoiceCount -> S]
        BY <2>3, <3>1, <4>1
      <4>4. texts' \in [1..ChoiceCount -> S]
        BY <4>2, <4>3
      <4> QED BY <4>1, <4>4
    <3> QED BY <1>1, <2>1, <3>1, <3>2, <3>3, BlockKeeps, PassKeeps
  <2>5. CASE Pass(choice, <<>>, finish) /\ UNCHANGED texts
    <3>1. Len(accumulated) + Len(<<>>) <= MaxText /\ <<>> \in Seq(Symbols)
      BY EmptySeq DEF IInv, TypeOK
    <3>2. texts' \in [1..ChoiceCount -> Seq(Symbols)]
      BY <2>3, <2>5
    <3> QED BY <1>1, <2>1, <2>5, <3>1, <3>2, PassKeeps
  <2> QED BY <2>2, <2>4, <2>5
<1>2. CASE (EmptyChoices \/ Abort) /\ UNCHANGED policy
  BY <1>2, AbortKeeps
<1>3. CASE Done /\ UNCHANGED policy
  BY <1>3, DoneKeeps
<1>4. CASE UNCHANGED vars
  <2>1. UNCHANGED <<texts, accumulated, cleared, buf, delivered, toxLast, lastChunk,
                    finished, state, rows, ahead, provider, hasTokens>>
    BY <1>4 DEF vars, policy
  <2>2. TypeOK' /\ RowMatchesEnd' /\ InStep'
    BY <2>1 DEF IInv, TypeOK, RowMatchesEnd, InStep
  <2>3. Verdict' /\ UnjudgedBounded'
    BY <2>1 DEF IInv, Verdict, UnjudgedBounded, Overrun
  <2>4. Going = Going' /\ Gone = Gone'
    BY <2>1 DEF Going, Gone, Straightened
  <2>5. ChoiceCount = 1 => Sent'
    BY <2>1, <2>4 DEF IInv, Sent
  <2> QED BY <2>2, <2>3, <2>5 DEF IInv
<1> QED BY <1>1, <1>2, <1>3, <1>4 DEF Next

LEMMA IInvHolds == Spec => []IInv
BY InitIInv, NextKeeps, PTL DEF Spec

(***************************************************************************)
(* What generate() of stream_openai (proxy.py) puts into its variables.    *)
(***************************************************************************)
THEOREM TypeCorrect == Spec => []TypeOK
<1>1. IInv => TypeOK
  BY DEF IInv
<1> QED BY <1>1, IInvHolds, PTL

(***************************************************************************)
(* A stream leaves one audit row, with the outcome the client saw, when it *)
(* was closed by its end marker or refused, and no row when it broke off.  *)
(***************************************************************************)
THEOREM RowTellsTheEnd == Spec => []RowMatchesEnd
<1>1. IInv => RowMatchesEnd
  BY DEF IInv
<1> QED BY <1>1, IInvHolds, PTL

(***************************************************************************)
(* Less than one interval of the text that went by came after the last     *)
(* time the ML provider was asked, wherever the upstream cuts its chunks   *)
(* (check_stream).                                                         *)
(***************************************************************************)
THEOREM LagIsBounded == Spec => []UnjudgedBounded
<1>1. IInv => UnjudgedBounded
  BY DEF IInv
<1> QED BY <1>1, IInvHolds, PTL

(***************************************************************************)
(* Where there is nothing to restore: what a stream is refused for, the    *)
(* complete response would be refused for, however it went on; and of a    *)
(* stream that passes the complete response would be refused over its      *)
(* schema or not at all.                                                   *)
(***************************************************************************)
THEOREM JudgedAsComplete == Spec => []StreamJudgedAsComplete
<1>1. IInv => StreamJudgedAsComplete
  <2> SUFFICES ASSUME IInv, provider # "ml" PROVE
               /\ state = "blocked" =>
                     \A more \in UNION {[1..n -> Symbols] : n \in 0..(MaxText - Len(accumulated))} :
                        CompleteRejected(accumulated \o more)
               /\ state = "passed" =>
                     (CompleteRejected(accumulated) <=> accumulated \notin Conforming)
    BY DEF StreamJudgedAsComplete
  <2>1. accumulated \in Seq(Symbols) /\ Len(accumulated) \in Nat
    BY LenProperties DEF IInv, TypeOK
  <2>2. \A s : CompleteRejected(s) <=> Overrun(s) \/ s \notin Conforming
    BY DEF CompleteRejected, Overrun
  <2>3. ASSUME state = "blocked", NEW n \in 0..(MaxText - Len(accumulated)),
               NEW more \in [1..n -> Symbols]
        PROVE  CompleteRejected(accumulated \o more)
    <3>1. n \in Nat
      BY <2>1, GuardsAssumption
    <3>2. more \in Seq(Symbols)
      BY <3>1
    <3>3. Overrun(accumulated)
      BY <2>3 DEF IInv, Verdict
    <3> QED BY <2>1, <2>2, <3>2, <3>3, OverrunStays
  <2>4. state = "passed" => ~Overrun(accumulated)
    BY DEF IInv, InStep, Verdict
  <2> QED BY <2>2, <2>3, <2>4
<1> QED BY <1>1, IInvHolds, PTL

(***************************************************************************)
(* However the upstream cuts its chunks, a token in as many pieces as it   *)
(* has symbols included: once a stream of one choice is done, the client   *)
(* was sent what PIIVault.restore makes of the whole text, but that the    *)
(* restorer's last text went out ahead of the one that came with the       *)
(* finish_reason.                                                          *)
(***************************************************************************)
THEOREM RestoredAtTheEnd == Spec => []RestoredWhenDone
<1>1. IInv => RestoredWhenDone
  <2> SUFFICES ASSUME IInv, ChoiceCount = 1, state = "passed"
               PROVE  Straightened = Reply(accumulated)
    BY DEF RestoredWhenDone
  <2>1. cleared = accumulated
    BY DEF IInv, InStep
  <2>2. CASE hasTokens
    BY <2>1, <2>2 DEF IInv, Sent, Gone, Reply
  <2>3. CASE ~hasTokens
    <3>1. delivered = cleared /\ ahead = <<0, 0>> /\ delivered \in Seq(Symbol)
      BY <2>3 DEF IInv, Sent, TypeOK
    <3>2. Straight(delivered, 0, 0) = delivered
      <4>1. 0 \in Nat /\ 0 <= Len(delivered)
        BY <3>1, LenProperties
      <4> QED BY <3>1, <4>1, NothingAhead
    <3> QED BY <2>1, <2>3, <3>1, <3>2, StraightenedIs DEF Reply
  <2> QED BY <2>2, <2>3
<1> QED BY <1>1, IInvHolds, PTL

(***************************************************************************)
(* At any time the client of a stream of one choice was sent a beginning   *)
(* of what the text that went past the guardrails restores to: no part of  *)
(* a token, nothing twice and nothing of a chunk that was refused.         *)
(***************************************************************************)
THEOREM OnlyClearedText == Spec => []DeliveredIsClearedPrefix
<1>1. IInv => DeliveredIsClearedPrefix
  <2> SUFFICES ASSUME IInv, ChoiceCount = 1 PROVE IsPrefix(Straightened, Reply(cleared))
    BY DEF DeliveredIsClearedPrefix
  <2>1. /\ cleared \in Seq(Symbols) /\ buf \in Seq(Symbols) /\ delivered \in Seq(Symbol)
        /\ ahead \in Nat \X Nat
    BY DEF IInv, TypeOK
  <2>2. /\ Restore(cleared) \in Seq(Symbol) /\ Restore(buf) \in Seq(Symbol)
        /\ cleared \in Seq(Symbol)
    <3>1. Symbols \subseteq Symbol
      BY DEF Symbol
    <3> QED BY <2>1, <3>1, RestoreType, SymbolIs, SeqMonotonic
  <2>3. CASE hasTokens /\ (finished # {} \/ state = "passed")
    <3>1. Straightened = Restore(cleared) /\ Reply(cleared) = Restore(cleared)
      BY <2>3 DEF IInv, Sent, Gone, Reply
    <3> QED BY <2>2, <3>1, PrefixOfItself
  <2>4. CASE hasTokens /\ ~(finished # {} \/ state = "passed")
    <3>1. Filled(cleared, buf, delivered)
      BY <2>4 DEF IInv, Sent, Going
    <3>2. ahead[1] = 0 /\ ahead[2] \in Nat /\ ahead[2] <= Len(delivered)
      BY <2>1, <2>4 DEF IInv, Sent, Going
    <3>3. Straightened = delivered
      <4>1. PICK o : o = ahead[2]
        OBVIOUS
      <4>2. Straight(delivered, 0, o) = delivered
        BY <2>1, <3>2, <4>1, NothingAhead
      <4> QED BY <3>2, <4>1, <4>2, StraightenedIs
    <3>4. IsPrefix(delivered, Restore(cleared))
      BY <2>1, <3>1, FilledIsPrefix
    <3> QED BY <2>4, <3>3, <3>4 DEF Reply
  <2>5. CASE ~hasTokens
    <3>1. delivered = cleared /\ ahead = <<0, 0>>
      BY <2>5 DEF IInv, Sent
    <3>2. Straight(delivered, 0, 0) = delivered
      <4>1. 0 \in Nat /\ 0 <= Len(delivered)
        BY <2>1, LenProperties
      <4> QED BY <2>1, <4>1, NothingAhead
    <3>3. Straightened = cleared /\ Reply(cleared) = cleared
      BY <2>5, <3>1, <3>2, StraightenedIs DEF Reply
    <3> QED BY <2>2, <3>3, PrefixOfItself
  <2> QED BY <2>3, <2>4, <2>5
<1> QED BY <1>1, IInvHolds, PTL-----------------------------------------------------------------------------
(* The stream of Anthropic, whose blocks are restored one by one.          *)

InBlock == upstream \in {"text", "other"}

MessageTyped ==
    /\ accumulated \in Seq(Symbols) /\ passed \in 0..Len(accumulated)
    /\ sent \in Seq(Seq(Symbols))
    /\ received \in Seq(Seq(Symbol)) /\ Len(received) = Len(sent)
    /\ upstream \in {"between", "text", "other", "stopped"}
    /\ state \in {"open", "closed", "blocked", "failed", "cut"}

(* The block that is open: what came of it, what went out of it, and what  *)
(* is held back, which is of this block.                                   *)
OpenBlock ==
    InBlock =>
        /\ Len(sent) > 0
        /\ LET c == sent[Len(sent)]
               d == received[Len(sent)]
           IN  IF hasTokens
               THEN IF state = "blocked" THEN PartlyFilled(c, d)
                    ELSE Filled(c, buf, d) /\ (buf # <<>> => lastIndex = Len(sent))
               ELSE IF state = "blocked" THEN IsPrefix(d, c) ELSE d = c

ClosedBlocks ==
    \A i \in 1..Len(sent) : i < Len(sent) \/ ~InBlock => received[i] = Reply(sent[i])

BufferEmpty == ~InBlock \/ ~hasTokens => buf = <<>>

OneRow ==
    rows = IF upstream = "stopped" THEN <<"passed">>
           ELSE IF state = "blocked" THEN <<"output_blocked">> ELSE <<>>

MessageInStep == IF state = "blocked" THEN upstream = "text" ELSE passed = Len(accumulated)

ClearedIsClean == Accepted(SubSeq(accumulated, 1, passed), 0)

(* What is judged is what the blocks hold.                                 *)
Arrived == FlattenSeq(sent) = accumulated

(* A refusal leaves what the client has as it was.                         *)
CleanWhenRefused == state = "blocked" => SentTextIsClean

MessageInv ==
    /\ MessageTyped /\ OpenBlock /\ ClosedBlocks /\ BufferEmpty
    /\ OneRow /\ MessageInStep /\ ClearedIsClean /\ Arrived /\ CleanWhenRefused

LEMMA MessageInitInv == MessageInit => MessageInv
<1> SUFFICES ASSUME MessageInit PROVE MessageInv
  OBVIOUS
<1>1. /\ upstream = "between" /\ sent = <<>> /\ accumulated = <<>> /\ passed = 0
      /\ buf = <<>> /\ received = <<>> /\ state = "open" /\ rows = <<>>
  BY DEF MessageInit
<1>2. Len(<<>>) = 0 /\ \A S : <<>> \in Seq(S)
  BY EmptySeq
<1>3. MessageTyped
  BY <1>1, <1>2 DEF MessageTyped
<1>4. OpenBlock /\ BufferEmpty /\ OneRow
  BY <1>1 DEF OpenBlock, InBlock, BufferEmpty, OneRow
<1>5. ClosedBlocks /\ MessageInStep
  BY <1>1, <1>2 DEF ClosedBlocks, MessageInStep
<1>6. SubSeq(<<>>, 1, 0) = <<>>
  BY SubSeqEmpty
<1>7. ClearedIsClean
  BY <1>1, <1>6, NothingYet DEF ClearedIsClean, Overrun, Accepted, TooLong
<1>8. Arrived /\ CleanWhenRefused
  BY <1>1, FlattenEmpty DEF Arrived, CleanWhenRefused
<1> QED BY <1>3, <1>4, <1>5, <1>7, <1>8 DEF MessageInv

LEMMA BlockStartKeeps ==
  ASSUME MessageInv, BlockStart, UNCHANGED policy
  PROVE  MessageInv'
<1>1. /\ state = "open" /\ upstream = "between" /\ upstream' \in {"text", "other"}
      /\ sent' = Append(sent, <<>>) /\ received' = Append(received, <<>>)
      /\ UNCHANGED <<accumulated, passed, buf, state, rows, provider, hasTokens>>
  BY DEF BlockStart, policy
<1>2. PICK n : n = Len(sent) + 1
  OBVIOUS
<1>3. /\ sent \in Seq(Seq(Symbols)) /\ received \in Seq(Seq(Symbol))
      /\ Len(received) = Len(sent) /\ Len(sent) \in Nat
      /\ <<>> \in Seq(Symbols) /\ <<>> \in Seq(Symbol)
  BY EmptySeq, LenProperties DEF MessageInv, MessageTyped
<1>4. /\ sent' \in Seq(Seq(Symbols)) /\ Len(sent') = n /\ sent'[n] = <<>>
      /\ \A i \in 1..Len(sent) : sent'[i] = sent[i]
  BY <1>1, <1>2, <1>3, AppendProperties
<1>5. /\ received' \in Seq(Seq(Symbol)) /\ Len(received') = n /\ received'[n] = <<>>
      /\ \A i \in 1..Len(sent) : received'[i] = received[i]
  BY <1>1, <1>2, <1>3, AppendProperties
<1>6. MessageTyped'
  BY <1>1, <1>4, <1>5 DEF MessageInv, MessageTyped
<1>7. buf = <<>>
  BY <1>1 DEF MessageInv, BufferEmpty, InBlock
<1>8. OpenBlock'
  <2>1. Len(sent') > 0 /\ sent'[Len(sent')] = <<>> /\ received'[Len(sent')] = <<>>
    BY <1>2, <1>3, <1>4, <1>5
  <2>2. Filled(sent'[Len(sent')], buf', received'[Len(sent')])
    BY <1>1, <1>7, <2>1, FilledEmpty
  <2> QED BY <1>1, <1>7, <2>1, <2>2 DEF OpenBlock
<1>9. ClosedBlocks'
  <2> SUFFICES ASSUME NEW i \in 1..Len(sent'), i < Len(sent') \/ ~InBlock'
               PROVE  (received[i] = Reply(sent[i]))'
    BY DEF ClosedBlocks
  <2>1. i \in 1..Len(sent) /\ ~InBlock
    BY <1>1, <1>2, <1>3, <1>4 DEF InBlock
  <2>2. received[i] = Reply(sent[i])
    BY <2>1 DEF MessageInv, ClosedBlocks
  <2> QED BY <1>1, <1>4, <1>5, <2>1, <2>2 DEF Reply
<1>10. BufferEmpty'
  BY <1>1, <1>7 DEF BufferEmpty
<1>11. OneRow' /\ MessageInStep'
  BY <1>1 DEF MessageInv, OneRow, MessageInStep
<1>12. ClearedIsClean'
  BY <1>1 DEF MessageInv, ClearedIsClean, Accepted
<1>13. Arrived' /\ CleanWhenRefused'
  <2>1. PICK new : new = <<<<>>>>
    OBVIOUS
  <2>2. new \in Seq(Seq(Symbols)) /\ FlattenSeq(new) = <<>>
    <3>1. <<>> \in Seq(Symbols)
      BY <1>3
    <3>2. FlattenSeq(<<<<>>>>) = <<>>
      BY <3>1, FlattenOne
    <3>3. PICK e : e = <<>>
      OBVIOUS
    <3>4. <<e>> \in Seq(Seq(Symbols))
      BY <3>1, <3>3
    <3> QED BY <2>1, <3>2, <3>3, <3>4
  <2>3. sent' = sent \o new
    BY <1>1, <1>3, <2>1, AppendProperties, ConcatProperties
  <2>4. FlattenSeq(sent \o new) = FlattenSeq(sent) \o <<>>
    BY <1>3, <2>2, FlattenConcat
  <2>5. FlattenSeq(sent) = accumulated /\ accumulated \o <<>> = accumulated
    BY ConcatEmptySeq DEF MessageInv, MessageTyped, Arrived
  <2> QED BY <1>1, <2>3, <2>4, <2>5 DEF Arrived, CleanWhenRefused
<1> QED BY <1>6, <1>8, <1>9, <1>10, <1>11, <1>12, <1>13 DEF MessageInv

(* The text of a delta is the open block's.                                *)
LEMMA DeltaExtends ==
  ASSUME MessageInv, state = "open", upstream = "text", NEW text \in Seq(Symbols),
         sent' = [sent EXCEPT ![Len(sent)] = @ \o text],
         accumulated' = accumulated \o text
  PROVE  /\ Len(sent) \in 1..Len(sent)
         /\ sent[Len(sent)] \in Seq(Symbols)
         /\ sent' \in Seq(Seq(Symbols)) /\ Len(sent') = Len(sent)
         /\ sent'[Len(sent)] = sent[Len(sent)] \o text
         /\ \A i \in 1..Len(sent) : i # Len(sent) => sent'[i] = sent[i]
         /\ accumulated' \in Seq(Symbols)
         /\ Len(accumulated') = Len(accumulated) + Len(text)
         /\ SubSeq(accumulated', 1, passed) = accumulated
         /\ Len(accumulated) \in Nat /\ Len(text) \in Nat
<1>1. /\ sent \in Seq(Seq(Symbols)) /\ accumulated \in Seq(Symbols)
      /\ passed = Len(accumulated) /\ Len(sent) > 0 /\ Len(sent) \in Nat
  BY LenProperties DEF MessageInv, MessageTyped, MessageInStep, OpenBlock, InBlock
<1>2. Len(sent) \in 1..Len(sent)
  BY <1>1
<1>3. sent[Len(sent)] \in Seq(Symbols)
  BY <1>1, <1>2, ElementOfSeq
<1>4. PICK e : e = sent[Len(sent)] \o text
  OBVIOUS
<1>5. e \in Seq(Symbols)
  BY <1>3, <1>4, ConcatProperties
<1>6. PICK n : n = Len(sent)
  OBVIOUS
<1>7. sent' = [sent EXCEPT ![n] = e] /\ n \in 1..Len(sent)
  BY <1>2, <1>4, <1>6
<1>8. /\ sent' \in Seq(Seq(Symbols)) /\ Len(sent') = Len(sent)
      /\ \A i \in 1..Len(sent) : sent'[i] = IF i = n THEN e ELSE sent[i]
  <2>1. PICK S, f : S = Seq(Symbols) /\ f = [sent EXCEPT ![n] = e]
    OBVIOUS
  <2>2. sent \in Seq(S) /\ e \in S /\ n \in 1..Len(sent)
    BY <1>1, <1>5, <1>7, <2>1
  <2>3. /\ f \in Seq(S) /\ Len(f) = Len(sent)
        /\ \A i \in 1..Len(sent) : f[i] = IF i = n THEN e ELSE sent[i]
    BY <2>1, <2>2, ExceptSeq
  <2> QED BY <1>7, <2>1, <2>3
<1>9. PICK a : a = accumulated \o text
  OBVIOUS
<1>10. /\ a \in Seq(Symbols) /\ Len(a) = Len(accumulated) + Len(text)
       /\ Within(accumulated, a, 0) /\ Len(accumulated) \in Nat /\ Len(text) \in Nat
  BY <1>1, <1>9, Longer
<1>11. SubSeq(a, 0 + 1, 0 + Len(accumulated)) = accumulated
  BY <1>1, <1>10, PartIs
<1>12. 0 + 1 = 1 /\ 0 + Len(accumulated) = passed
  BY <1>1, <1>10
<1> QED BY <1>1, <1>2, <1>3, <1>4, <1>6, <1>8, <1>9, <1>10, <1>11, <1>12

(* r is s, its last piece longer by t.                                     *)
LastGrew(s, r, t) ==
    \E n \in Nat \ {0} :
        /\ Len(s) = n /\ Len(r) = n /\ r[n] = s[n] \o t
        /\ \A i \in 1..n : i # n => r[i] = s[i]

(* The text of the blocks put together grows by what the last one's does.  *)
LEMMA FlattenExtended ==
  ASSUME NEW S, NEW s \in Seq(Seq(S)), NEW r \in Seq(Seq(S)), NEW t \in Seq(S),
         LastGrew(s, r, t)
  PROVE  FlattenSeq(r) = FlattenSeq(s) \o t
<1>0. PICK n \in Nat \ {0} :
          /\ Len(s) = n /\ Len(r) = n /\ r[n] = s[n] \o t
          /\ \A i \in 1..n : i # n => r[i] = s[i]
  BY DEF LastGrew
<1>1. n - 1 \in 0..n /\ n \in 1..n /\ n - 1 + 1 = n
  OBVIOUS
<1>2. PICK h, k : h = SubSeq(s, 1, n - 1) /\ k = SubSeq(r, 1, n - 1)
  OBVIOUS
<1>3. s[n] \in Seq(S) /\ r[n] \in Seq(S)
  BY <1>0, <1>1, ElementOfSeq
<1>4. h \in Seq(Seq(S)) /\ Len(h) = n - 1 /\ \A i \in 1..(n - 1) : h[i] = s[i]
  <2>1. PICK T, m : T = Seq(S) /\ m = n - 1
    OBVIOUS
  <2>2. s \in Seq(T) /\ m \in 0..Len(s) /\ h = SubSeq(s, 1, m)
    BY <1>0, <1>1, <1>2, <2>1
  <2>3. Within(h, s, 0) /\ h \in Seq(T) /\ Len(h) = m
    BY <2>2, Parts
  <2>4. \A i \in 1..m : 0 + i = i
    BY <2>1
  <2> QED BY <2>1, <2>3, <2>4 DEF Within
<1>5. k \in Seq(Seq(S)) /\ Len(k) = n - 1 /\ \A i \in 1..(n - 1) : k[i] = r[i]
  <2>1. PICK T, m : T = Seq(S) /\ m = n - 1
    OBVIOUS
  <2>2. r \in Seq(T) /\ m \in 0..Len(r) /\ k = SubSeq(r, 1, m)
    BY <1>0, <1>1, <1>2, <2>1
  <2>3. Within(k, r, 0) /\ k \in Seq(T) /\ Len(k) = m
    BY <2>2, Parts
  <2>4. \A i \in 1..m : 0 + i = i
    BY <2>1
  <2> QED BY <2>1, <2>3, <2>4 DEF Within
<1>6. h = k
  <2>1. \A i \in 1..(n - 1) : h[i] = k[i]
    BY <1>0, <1>1, <1>4, <1>5
  <2> QED BY <1>4, <1>5, <2>1, SeqEqual
<1>7. s = h \o <<s[n]>> /\ r = h \o <<r[n]>>
  <2>1. PICK T, m : T = Seq(S) /\ m = n - 1
    OBVIOUS
  <2>2. /\ s \in Seq(T) /\ m \in 0..Len(s) /\ h = SubSeq(s, 1, m)
        /\ r \in Seq(T) /\ m \in 0..Len(r) /\ k = SubSeq(r, 1, m) /\ m + 1 = n
    BY <1>0, <1>1, <1>2, <2>1
  <2>3. s = h \o SubSeq(s, m + 1, Len(s)) /\ r = k \o SubSeq(r, m + 1, Len(r))
    BY <2>2, Parts
  <2>4. SubSeq(s, n, n) = <<s[n]>> /\ SubSeq(r, n, n) = <<r[n]>>
    <3>1. n \in 1..Len(s) /\ n \in 1..Len(r)
      BY <1>0, <1>1
    <3>2. PICK u, v : u = SubSeq(s, n, n) /\ v = SubSeq(r, n, n)
      OBVIOUS
    <3>3. /\ u \in Seq(T) /\ Len(u) = 1 /\ u[1] = s[n]
          /\ v \in Seq(T) /\ Len(v) = 1 /\ v[1] = r[n]
      BY <2>2, <3>1, <3>2
    <3>4. u = <<u[1]>> /\ v = <<v[1]>>
      BY <3>3
    <3> QED BY <3>2, <3>3, <3>4
  <2> QED BY <1>0, <1>6, <2>2, <2>3, <2>4
<1>8. FlattenSeq(<<s[n]>>) = s[n] /\ FlattenSeq(<<r[n]>>) = r[n]
  BY <1>3, FlattenOne
<1>9. <<s[n]>> \in Seq(Seq(S)) /\ <<r[n]>> \in Seq(Seq(S))
  BY <1>3
<1>10. PICK f : f = FlattenSeq(h)
  OBVIOUS
<1>11. FlattenSeq(s) = f \o s[n] /\ FlattenSeq(r) = f \o r[n]
  BY <1>4, <1>7, <1>8, <1>9, <1>10, FlattenConcat
<1>12. f \in Seq(S)
  BY <1>4, <1>10, FlattenType
<1>13. f \o (s[n] \o t) = (f \o s[n]) \o t
  <2>1. PICK c : c = s[n]
    OBVIOUS
  <2>2. c \in Seq(S)
    BY <1>3, <2>1
  <2>3. f \in Seq(S) /\ t \in Seq(S)
    BY <1>12
  <2>4. (f \o c) \o t = f \o (c \o t)
    BY ONLY <2>2, <2>3, ConcatAssociative
  <2> QED BY <2>1, <2>4
<1> QED BY <1>0, <1>11, <1>13

LEMMA DeltaArrives ==
  ASSUME MessageInv, state = "open", upstream = "text", NEW text \in Seq(Symbols),
         sent' = [sent EXCEPT ![Len(sent)] = @ \o text],
         accumulated' = accumulated \o text
  PROVE  Arrived'
<1>1. PICK n, r : n = Len(sent) /\ r = sent'
  OBVIOUS
<1>2. /\ n \in Nat \ {0} /\ sent \in Seq(Seq(Symbols))
      /\ r \in Seq(Seq(Symbols)) /\ Len(r) = n
      /\ r[n] = sent[n] \o text
      /\ \A i \in 1..n : i # n => r[i] = sent[i]
  <2>1. Len(sent) \in Nat /\ sent \in Seq(Seq(Symbols))
    BY LenProperties DEF MessageInv, MessageTyped
  <2>2. /\ Len(sent) \in 1..Len(sent)
        /\ sent' \in Seq(Seq(Symbols)) /\ Len(sent') = Len(sent)
        /\ sent'[Len(sent)] = sent[Len(sent)] \o text
        /\ \A i \in 1..Len(sent) : i # Len(sent) => sent'[i] = sent[i]
    BY DeltaExtends
  <2>3. n \in Nat \ {0}
    BY <1>1, <2>1, <2>2
  <2> QED BY <1>1, <2>1, <2>2, <2>3
<1>3. FlattenSeq(r) = FlattenSeq(sent) \o text
  <2>1. PICK s, S : s = sent /\ S = Symbols
    OBVIOUS
  <2>2. s \in Seq(Seq(S)) /\ r \in Seq(Seq(S)) /\ text \in Seq(S)
    BY <1>1, <1>2, <2>1
  <2>3. LastGrew(s, r, text)
    BY <1>1, <1>2, <2>1 DEF LastGrew
  <2>4. FlattenSeq(r) = FlattenSeq(s) \o text
    BY ONLY <2>2, <2>3, FlattenExtended
  <2> QED BY <2>1, <2>4
<1> QED BY <1>1, <1>3 DEF MessageInv, Arrived

(* A delta leaves the blocks that are closed alone.                        *)
LEMMA DeltaLeavesClosed ==
  ASSUME MessageInv, upstream = "text", upstream' = upstream, hasTokens' = hasTokens,
         Len(sent') = Len(sent),
         \A i \in 1..Len(sent) : i # Len(sent) => sent'[i] = sent[i],
         \A i \in 1..Len(sent) : i # Len(sent) => received'[i] = received[i]
  PROVE  ClosedBlocks'
<1> SUFFICES ASSUME NEW i \in 1..Len(sent'), i < Len(sent') \/ ~InBlock'
             PROVE  (received[i] = Reply(sent[i]))'
  BY DEF ClosedBlocks
<1>1. Len(sent) \in Nat
  BY LenProperties DEF MessageInv, MessageTyped
<1>2. i \in 1..Len(sent) /\ i < Len(sent) /\ i # Len(sent)
  BY <1>1 DEF InBlock
<1>3. received[i] = Reply(sent[i])
  BY <1>2 DEF MessageInv, ClosedBlocks
<1> QED BY <1>2, <1>3 DEF Reply

LEMMA RestoredBlocks == MessageInv => BlocksRestored
<1> SUFFICES ASSUME MessageInv, NEW i \in DOMAIN sent
             PROVE  /\ Closed(i) => received[i] = Reply(sent[i])
                    /\ IsPrefix(received[i], Reply(sent[i]))
  BY DEF BlocksRestored
<1>1. sent \in Seq(Seq(Symbols)) /\ Len(sent) \in Nat /\ i \in 1..Len(sent)
  BY LenProperties DEF MessageInv, MessageTyped
<1>2. sent[i] \in Seq(Symbols)
  BY <1>1, ElementOfSeq
<1>3. PICK whole, S : whole = Reply(sent[i]) /\ S = Symbol
  OBVIOUS
<1>4. whole \in Seq(S)
  <2>1. Symbols \subseteq Symbol
    BY DEF Symbol
  <2> QED BY <1>2, <1>3, <2>1, RestoreType, SymbolIs, SeqMonotonic DEF Reply
<1>5. CASE i < Len(sent) \/ ~InBlock
  <2>1. received[i] = whole
    BY <1>1, <1>3, <1>5 DEF MessageInv, ClosedBlocks
  <2>2. IsPrefix(whole, whole)
    BY <1>4, PrefixOfItself
  <2> QED BY <1>3, <2>1, <2>2
<1>6. CASE ~(i < Len(sent)) /\ InBlock
  <2>1. i = Len(sent) /\ ~Closed(i)
    BY <1>1, <1>6 DEF Closed, InBlock
  <2>2. CASE hasTokens
    <3>1. PartlyFilled(sent[i], received[i]) \/ Filled(sent[i], buf, received[i])
      BY <1>6, <2>1, <2>2 DEF MessageInv, OpenBlock
    <3>2. IsPrefix(received[i], Restore(sent[i]))
      BY <1>2, <3>1, PartlyFilledIsPrefix, FilledIsPrefix
    <3> QED BY <2>1, <2>2, <3>2 DEF Reply
  <2>3. CASE ~hasTokens
    <3>1. IsPrefix(received[i], sent[i]) \/ received[i] = sent[i]
      BY <1>6, <2>1, <2>3 DEF MessageInv, OpenBlock
    <3>2. IsPrefix(sent[i], sent[i])
      BY <1>2, PrefixOfItself
    <3> QED BY <2>1, <2>3, <3>1, <3>2 DEF Reply
  <2> QED BY <2>2, <2>3
<1>7. Closed(i) => i < Len(sent) \/ ~InBlock
  BY DEF Closed, InBlock
<1> QED BY <1>5, <1>6, <1>7

(* As long as nothing was refused, all the text was let pass.              *)
LEMMA CleanUntilRefused ==
  ASSUME MessageInv, state # "blocked"
  PROVE  SentTextIsClean /\ \A i \in DOMAIN sent : PassedOf(i) = sent[i]
<1>1. /\ sent \in Seq(Seq(Symbols)) /\ accumulated \in Seq(Symbols)
      /\ passed = Len(accumulated) /\ Len(accumulated) \in Nat
  BY LenProperties DEF MessageInv, MessageTyped, MessageInStep
<1>2. ASSUME NEW i \in DOMAIN sent PROVE PassedOf(i) = sent[i]
  <2>1. PICK c : c = sent[i]
    OBVIOUS
  <2>2. c \in Seq(Symbols) /\ Len(c) \in Nat
    <3>1. i \in 1..Len(sent)
      BY <1>1, <1>2
    <3>2. c \in Seq(Symbols)
      BY <1>1, <2>1, <3>1, ElementOfSeq
    <3> QED BY <3>2, LenProperties
  <2>3. SubSeq(c, 1, Len(c)) = c
    BY <2>2, SubSeqFull
  <2>4. Len(c) - (IF i = Len(sent) THEN Len(accumulated) - passed ELSE 0) = Len(c)
    BY <1>1, <2>2
  <2> QED BY <2>1, <2>3, <2>4 DEF PassedOf
<1>3. [i \in DOMAIN sent |-> PassedOf(i)] = sent
  <2>1. [i \in DOMAIN sent |-> PassedOf(i)] = [i \in DOMAIN sent |-> sent[i]]
    BY <1>2
  <2>2. sent = [i \in DOMAIN sent |-> sent[i]]
    BY <1>1
  <2> QED BY <2>1, <2>2
<1>4. Accepted(accumulated, 0)
  <2>1. SubSeq(accumulated, 1, passed) = accumulated
    BY <1>1, SubSeqFull
  <2> QED BY <2>1 DEF MessageInv, ClearedIsClean
<1>5. Accepted(FlattenSeq([i \in DOMAIN sent |-> PassedOf(i)]), 0)
  BY <1>3, <1>4 DEF MessageInv, Arrived
<1>6. \A i \in DOMAIN sent : IsPrefix(received[i], Reply(PassedOf(i)))
  BY <1>2, RestoredBlocks DEF BlocksRestored
<1> QED BY <1>2, <1>5, <1>6 DEF SentTextIsClean

LEMMA RefusalKeeps ==
  ASSUME MessageInv, state = "open", upstream = "text", NEW text \in Seq(Symbols),
         sent' = [sent EXCEPT ![Len(sent)] = @ \o text], RefuseDelta(text),
         UNCHANGED <<upstream, policy>>
  PROVE  MessageInv'
<1>1. /\ accumulated' = accumulated \o text /\ state' = "blocked"
      /\ rows' = Append(rows, "output_blocked")
      /\ UNCHANGED <<passed, buf, received, upstream, provider, hasTokens>>
  BY DEF RefuseDelta, policy
<1>2. /\ Len(sent) \in 1..Len(sent)
      /\ sent[Len(sent)] \in Seq(Symbols)
      /\ sent' \in Seq(Seq(Symbols)) /\ Len(sent') = Len(sent)
      /\ sent'[Len(sent)] = sent[Len(sent)] \o text
      /\ \A i \in 1..Len(sent) : i # Len(sent) => sent'[i] = sent[i]
      /\ accumulated' \in Seq(Symbols)
      /\ Len(accumulated') = Len(accumulated) + Len(text)
      /\ SubSeq(accumulated', 1, passed) = accumulated
      /\ Len(accumulated) \in Nat /\ Len(text) \in Nat
  BY <1>1, DeltaExtends
<1>3. passed = Len(accumulated)
  BY DEF MessageInv, MessageInStep
<1>4. MessageTyped'
  BY <1>1, <1>2, <1>3 DEF MessageInv, MessageTyped
<1>5. PICK c, d : c = sent[Len(sent)] /\ d = received[Len(sent)]
  OBVIOUS
<1>6. OpenBlock'
  <2>1. sent'[Len(sent')] = c \o text /\ received'[Len(sent')] = d /\ Len(sent') > 0
    <3>1. Len(sent') = Len(sent) /\ sent'[Len(sent)] = c \o text
      BY <1>2, <1>5
    <3>2. received'[Len(sent)] = d
      BY <1>1, <1>5
    <3>3. Len(sent) > 0
      BY DEF MessageInv, OpenBlock, InBlock
    <3> QED BY <3>1, <3>2, <3>3
  <2>2. CASE hasTokens
    <3>1. Filled(c, buf, d)
      BY <1>5, <2>2 DEF MessageInv, OpenBlock, InBlock
    <3>2. c \in Seq(Symbols)
      BY <1>2, <1>5
    <3>3. PartlyFilled(c \o text, d)
      BY <3>1, <3>2, FilledThenStopped
    <3> QED BY <1>1, <2>1, <2>2, <3>3 DEF OpenBlock
  <2>3. CASE ~hasTokens
    <3>1. d = c
      BY <1>5, <2>3 DEF MessageInv, OpenBlock, InBlock
    <3>2. IsPrefix(c, c \o text)
      BY <1>2, <1>5, PrefixOf
    <3> QED BY <1>1, <2>1, <2>3, <3>1, <3>2 DEF OpenBlock
  <2> QED BY <2>2, <2>3
<1>7. ClosedBlocks'
  BY <1>1, <1>2, DeltaLeavesClosed
<1>8. BufferEmpty'
  BY <1>1 DEF MessageInv, BufferEmpty, InBlock
<1>9. OneRow' /\ MessageInStep'
  BY <1>1 DEF MessageInv, OneRow, MessageInStep
<1>10. ClearedIsClean'
  <2>1. SubSeq(accumulated, 1, passed) = accumulated
    BY <1>3, SubSeqFull DEF MessageInv, MessageTyped
  <2>2. Accepted(accumulated, 0)
    BY <2>1 DEF MessageInv, ClearedIsClean
  <2> QED BY <1>1, <1>2, <2>2 DEF ClearedIsClean, Accepted
<1>11. Arrived'
  BY <1>1, DeltaArrives
<1>12. SentTextIsClean'
  <2>1. PICK n : n = Len(sent) /\ n \in 1..Len(sent)
    BY <1>2
  <2>2. /\ sent \in Seq(Seq(Symbols)) /\ DOMAIN sent = 1..n /\ DOMAIN sent' = 1..n
        /\ Len(sent') = n
    BY <1>2, <2>1 DEF MessageInv, MessageTyped
  <2>3. \A i \in 1..n : PassedOf(i) = sent[i]
    BY <2>2, CleanUntilRefused
  <2>4. ASSUME NEW i \in 1..n PROVE PassedOf(i)' = PassedOf(i)
    <3>1. CASE i = n
      <4>1. PICK e, k : e = c \o text /\ k = Len(c)
        OBVIOUS
      <4>2. c \in Seq(Symbols) /\ c = sent[n]
        BY <1>2, <1>5, <2>1
      <4>3. /\ e \in Seq(Symbols) /\ Len(e) = k + Len(text) /\ Within(c, e, 0)
            /\ k \in Nat /\ Len(text) \in Nat
        BY <4>1, <4>2, Longer
      <4>4. SubSeq(e, 0 + 1, 0 + k) = c
        BY <4>1, <4>2, <4>3, PartIs
      <4>5. Len(e) - (Len(accumulated') - passed') = 0 + k /\ 0 + 1 = 1
        <5>1. passed' = Len(accumulated) /\ Len(accumulated) \in Nat
          BY <1>1, <1>2, <1>3
        <5>2. Len(accumulated') = Len(accumulated) + Len(text)
          BY <1>2
        <5> QED BY <4>3, <5>1, <5>2
      <4>6. sent'[n] = e
        BY <1>2, <2>1, <4>1, <4>2
      <4>7. PassedOf(n)' = SubSeq(e, 1, Len(e) - (Len(accumulated') - passed'))
        BY <2>2, <4>6 DEF PassedOf
      <4> QED BY <2>3, <3>1, <4>2, <4>4, <4>5, <4>7
    <3>2. CASE i # n
      <4>1. sent'[i] = sent[i] /\ i # Len(sent) /\ i # Len(sent')
        BY <1>2, <2>1, <2>2, <3>2
      <4> QED BY <4>1 DEF PassedOf
    <3> QED BY <3>1, <3>2
  <2>5. [i \in 1..n |-> PassedOf(i)]' = [i \in 1..n |-> PassedOf(i)]
    BY <2>4
  <2>6. SentTextIsClean
    BY CleanUntilRefused
  <2>7. Accepted(FlattenSeq([i \in 1..n |-> PassedOf(i)]), 0)
    BY <2>2, <2>6 DEF SentTextIsClean
  <2>8. \A i \in 1..n : IsPrefix(received[i], Reply(PassedOf(i)))
    BY <2>2, <2>6 DEF SentTextIsClean
  <2>9. \A i \in 1..n : (IsPrefix(received[i], Reply(PassedOf(i))))'
    BY <1>1, <2>4, <2>8 DEF Reply
  <2>10. Accepted(FlattenSeq([i \in 1..n |-> PassedOf(i)]), 0)'
    BY <1>1, <2>5, <2>7 DEF Accepted
  <2> QED BY <2>2, <2>9, <2>10 DEF SentTextIsClean
<1> QED BY <1>4, <1>6, <1>7, <1>8, <1>9, <1>10, <1>11, <1>12 DEF MessageInv, CleanWhenRefused

LEMMA DeltaPassKeeps ==
  ASSUME MessageInv, state = "open", upstream = "text", NEW text \in Seq(Symbols),
         sent' = [sent EXCEPT ![Len(sent)] = @ \o text], PassDelta(text),
         UNCHANGED <<upstream, policy>>
  PROVE  MessageInv'
<1>1. /\ accumulated' = accumulated \o text /\ passed' = Len(accumulated')
      /\ Accepted(accumulated', toxLast)
      /\ UNCHANGED <<state, rows, upstream, provider, hasTokens>>
  BY DEF PassDelta, policy
<1>2. /\ Len(sent) \in 1..Len(sent)
      /\ sent[Len(sent)] \in Seq(Symbols)
      /\ sent' \in Seq(Seq(Symbols)) /\ Len(sent') = Len(sent)
      /\ sent'[Len(sent)] = sent[Len(sent)] \o text
      /\ \A i \in 1..Len(sent) : i # Len(sent) => sent'[i] = sent[i]
      /\ accumulated' \in Seq(Symbols)
      /\ Len(accumulated') = Len(accumulated) + Len(text)
      /\ Len(accumulated) \in Nat /\ Len(text) \in Nat
  BY <1>1, DeltaExtends
<1>3. received \in Seq(Seq(Symbol)) /\ Len(received) = Len(sent)
  BY DEF MessageInv, MessageTyped
<1>4. PICK n, c, d, fed :
          /\ n = Len(sent) /\ c = sent[Len(sent)] /\ d = received[Len(sent)]
          /\ fed = Feed(buf, text)
  OBVIOUS
<1>5. c \in Seq(Symbols) /\ c \o text \in Seq(Symbols) /\ d \in Seq(Symbol) /\ n \in 1..n
  BY <1>2, <1>3, <1>4, ElementOfSeq, ConcatProperties
<1>6. PICK out :
          /\ out = IF hasTokens THEN d \o fed.out ELSE d \o text
          /\ received' = [received EXCEPT ![n] = out]
  <2>1. received' = [received EXCEPT ![n] = IF hasTokens THEN d \o fed.out ELSE d \o text]
    BY <1>4 DEF PassDelta
  <2> QED BY <2>1
<1>7. IF hasTokens THEN lastIndex' = n /\ buf' = fed.buf ELSE buf' = buf
  BY <1>4 DEF PassDelta
<1>8. hasTokens => Filled(c \o text, buf', out)
  <2> SUFFICES ASSUME hasTokens PROVE Filled(c \o text, buf', out)
    OBVIOUS
  <2>1. Filled(c, buf, d)
    BY <1>4 DEF MessageInv, OpenBlock, InBlock
  <2>2. Filled(c \o text, fed.buf, d \o fed.out)
    BY <1>4, <1>5, <2>1, FilledGoesOn
  <2> QED BY <1>6, <1>7, <2>2
<1>9. ~hasTokens => out = c \o text
  <2> SUFFICES ASSUME ~hasTokens PROVE out = c \o text
    OBVIOUS
  <2>1. d = c
    BY <1>4 DEF MessageInv, OpenBlock, InBlock
  <2> QED BY <1>6, <2>1
<1>10. out \in Seq(Symbol)
  <2>1. CASE hasTokens
    BY <1>5, <1>8, <2>1, FilledType, SymbolIs
  <2>2. CASE ~hasTokens
    <3>1. Symbols \subseteq Symbol
      BY DEF Symbol
    <3> QED BY <1>5, <1>9, <2>2, <3>1, SeqMonotonic
  <2> QED BY <2>1, <2>2
<1>11. /\ received' \in Seq(Seq(Symbol)) /\ Len(received') = Len(received)
       /\ \A i \in 1..Len(received) : received'[i] = IF i = n THEN out ELSE received[i]
  <2>1. n \in 1..Len(received)
    BY <1>3, <1>4, <1>5
  <2> QED BY <1>3, <1>6, <1>10, <2>1, ExceptSeq
<1>12. MessageTyped'
  BY <1>1, <1>2, <1>3, <1>11 DEF MessageInv, MessageTyped
<1>13. OpenBlock'
  <2>1. sent'[Len(sent')] = c \o text /\ received'[Len(sent')] = out /\ Len(sent') > 0
    <3>1. Len(sent') = n /\ sent'[n] = c \o text /\ n \in 1..Len(received)
      BY <1>2, <1>3, <1>4
    <3>2. received'[n] = out
      BY <1>11, <3>1
    <3>3. n > 0
      BY <1>5
    <3> QED BY <3>1, <3>2, <3>3
  <2> QED BY <1>1, <1>2, <1>4, <1>7, <1>8, <1>9, <2>1 DEF OpenBlock
<1>14. ClosedBlocks'
  <2>1. \A i \in 1..Len(sent) : i # Len(sent) => received'[i] = received[i]
    BY <1>3, <1>4, <1>11
  <2> QED BY <1>1, <1>2, <2>1, DeltaLeavesClosed
<1>15. BufferEmpty'
  BY <1>1, <1>7 DEF MessageInv, BufferEmpty, InBlock
<1>16. OneRow' /\ MessageInStep'
  BY <1>1 DEF MessageInv, OneRow, MessageInStep
<1>17. ClearedIsClean'
  <2>1. SubSeq(accumulated', 1, passed') = accumulated'
    BY <1>1, <1>2, SubSeqFull
  <2> QED BY <1>1, <2>1 DEF ClearedIsClean, Accepted
<1>18. Arrived' /\ CleanWhenRefused'
  BY <1>1, DeltaArrives DEF CleanWhenRefused
<1> QED BY <1>12, <1>13, <1>14, <1>15, <1>16, <1>17, <1>18 DEF MessageInv

LEMMA BlockStopKeeps ==
  ASSUME MessageInv, BlockStop, UNCHANGED policy
  PROVE  MessageInv'
<1>1. /\ state = "open" /\ InBlock /\ upstream' = "between" /\ buf' = <<>>
      /\ UNCHANGED <<sent, accumulated, passed, state, rows, provider, hasTokens>>
  BY DEF BlockStop, InBlock, policy
<1>2. PICK n, c, d : n = Len(sent) /\ c = sent[Len(sent)] /\ d = received[Len(sent)]
  OBVIOUS
<1>3. /\ sent \in Seq(Seq(Symbols)) /\ received \in Seq(Seq(Symbol))
      /\ Len(received) = n /\ n \in 1..n
  BY <1>1, <1>2, LenProperties DEF MessageInv, MessageTyped, OpenBlock
<1>4. c \in Seq(Symbols) /\ d \in Seq(Symbol)
  BY <1>2, <1>3, ElementOfSeq
<1>5. /\ received' \in Seq(Seq(Symbol)) /\ Len(received') = n
      /\ received'[n] = Reply(c)
      /\ \A i \in 1..n : i # n => received'[i] = received[i]
  <2>1. CASE hasTokens
    <3>1. Filled(c, buf, d) /\ (buf # <<>> => lastIndex = n)
      BY <1>1, <1>2, <2>1 DEF MessageInv, OpenBlock
    <3>2. Reply(c) = d \o Restore(buf)
      BY <1>4, <2>1, <3>1, FilledEnds DEF Reply
    <3>3. CASE buf = <<>>
      <4>1. received' = received
        BY <3>3 DEF BlockStop
      <4>2. Reply(c) = d
        BY <1>4, <3>2, <3>3, RestoreEmpty, ConcatEmptySeq
      <4> QED BY <1>2, <1>3, <4>1, <4>2
    <3>4. CASE buf # <<>>
      <4>1. PICK e : e = d \o Restore(buf)
        OBVIOUS
      <4>2. received' = [received EXCEPT ![n] = e]
        BY <1>2, <2>1, <3>1, <3>4, <4>1 DEF BlockStop
      <4>3. e \in Seq(Symbol)
        <5>1. Restore(c) \in Seq(Symbol)
          BY <1>4, RestoreType, SymbolIs
        <5> QED BY <2>1, <3>2, <4>1, <5>1 DEF Reply
      <4>4. n \in 1..Len(received)
        BY <1>3
      <4>5. /\ received' \in Seq(Seq(Symbol)) /\ Len(received') = Len(received)
            /\ \A i \in 1..Len(received) : received'[i] = IF i = n THEN e ELSE received[i]
        BY <1>3, <4>2, <4>3, <4>4, ExceptSeq
      <4> QED BY <1>3, <3>2, <4>1, <4>4, <4>5
    <3> QED BY <3>3, <3>4
  <2>2. CASE ~hasTokens
    <3>1. received' = received /\ d = c
      BY <1>1, <1>2, <2>2 DEF BlockStop, MessageInv, OpenBlock
    <3> QED BY <1>2, <1>3, <2>2, <3>1 DEF Reply
  <2> QED BY <2>1, <2>2
<1>6. MessageTyped'
  BY <1>1, <1>2, <1>3, <1>5 DEF MessageInv, MessageTyped
<1>7. OpenBlock' /\ BufferEmpty'
  BY <1>1 DEF OpenBlock, BufferEmpty, InBlock
<1>8. ClosedBlocks'
  <2> SUFFICES ASSUME NEW i \in 1..Len(sent') PROVE (received[i] = Reply(sent[i]))'
    BY DEF ClosedBlocks
  <2>1. CASE i = n
    BY <1>1, <1>2, <1>5, <2>1 DEF Reply
  <2>2. CASE i # n
    <3>1. i \in 1..n /\ i < Len(sent)
      BY <1>1, <1>2, <1>3, <2>2
    <3>2. received[i] = Reply(sent[i])
      BY <1>2, <3>1 DEF MessageInv, ClosedBlocks
    <3> QED BY <1>1, <1>5, <2>2, <3>1, <3>2 DEF Reply
  <2> QED BY <2>1, <2>2
<1>9. OneRow' /\ MessageInStep'
  BY <1>1 DEF MessageInv, OneRow, MessageInStep, InBlock
<1>10. ClearedIsClean'
  BY <1>1 DEF MessageInv, ClearedIsClean, Accepted
<1>11. Arrived' /\ CleanWhenRefused'
  BY <1>1 DEF MessageInv, Arrived, CleanWhenRefused
<1> QED BY <1>6, <1>7, <1>8, <1>9, <1>10, <1>11 DEF MessageInv

LEMMA MessageEndKeeps ==
  ASSUME MessageInv, MessageStop \/ Close, UNCHANGED policy
  PROVE  MessageInv'
<1>1. /\ state = "open" /\ InBlock' = InBlock
      /\ UNCHANGED <<sent, accumulated, passed, buf, received, lastIndex, provider, hasTokens>>
      /\ upstream' \in {upstream, "stopped"} /\ state' \in {"open", "closed", "failed", "cut"}
  BY DEF MessageStop, Close, InBlock, policy
<1>2. MessageTyped' /\ BufferEmpty' /\ MessageInStep'
  BY <1>1 DEF MessageInv, MessageTyped, BufferEmpty, MessageInStep
<1>3. OpenBlock' /\ ClosedBlocks'
  BY <1>1 DEF MessageInv, OpenBlock, ClosedBlocks, Reply
<1>4. OneRow'
  BY DEF MessageInv, OneRow, MessageStop, Close
<1>5. ClearedIsClean'
  BY <1>1 DEF MessageInv, ClearedIsClean, Accepted
<1>6. Arrived' /\ CleanWhenRefused'
  BY <1>1 DEF MessageInv, Arrived, CleanWhenRefused
<1> QED BY <1>2, <1>3, <1>4, <1>5, <1>6 DEF MessageInv

LEMMA MessageNextKeeps == MessageInv /\ [MessageNext]_(messageVars) => MessageInv'
<1> SUFFICES ASSUME MessageInv, [MessageNext]_(messageVars) PROVE MessageInv'
  OBVIOUS
<1>1. CASE BlockStart /\ UNCHANGED policy
  BY <1>1, BlockStartKeeps
<1>2. CASE Delta /\ UNCHANGED policy
  <2>1. state = "open" /\ upstream = "text" /\ UNCHANGED <<upstream, policy>>
    BY <1>2 DEF Delta
  <2>2. PICK text \in Text :
            /\ sent' = [sent EXCEPT ![Len(sent)] = @ \o text]
            /\ RefuseDelta(text) \/ PassDelta(text)
    BY <1>2 DEF Delta
  <2>3. text \in Seq(Symbols)
    BY TextType
  <2> QED BY <2>1, <2>2, <2>3, RefusalKeeps, DeltaPassKeeps
<1>3. CASE BlockStop /\ UNCHANGED policy
  BY <1>3, BlockStopKeeps
<1>4. CASE (MessageStop \/ Close) /\ UNCHANGED policy
  BY <1>4, MessageEndKeeps
<1>5. CASE UNCHANGED messageVars
  <2>1. UNCHANGED <<upstream, sent, accumulated, passed, buf, lastIndex, received,
                    toxLast, state, rows, provider, hasTokens>>
    BY <1>5 DEF messageVars, policy
  <2>2. InBlock' = InBlock
    BY <2>1 DEF InBlock
  <2>3. MessageTyped' /\ BufferEmpty' /\ OneRow' /\ MessageInStep'
    BY <2>1, <2>2 DEF MessageInv, MessageTyped, BufferEmpty, OneRow, MessageInStep
  <2>4. OpenBlock' /\ ClosedBlocks'
    BY <2>1, <2>2 DEF MessageInv, OpenBlock, ClosedBlocks, Reply
  <2>5. ClearedIsClean'
    BY <2>1 DEF MessageInv, ClearedIsClean, Accepted
  <2>6. Arrived' /\ CleanWhenRefused'
    BY <2>1 DEF MessageInv, Arrived, CleanWhenRefused, SentTextIsClean, PassedOf, Reply, Accepted
  <2> QED BY <2>3, <2>4, <2>5, <2>6 DEF MessageInv
<1> QED BY <1>1, <1>2, <1>3, <1>4, <1>5 DEF MessageNext, policy

LEMMA MessageInvHolds == MessageSpec => []MessageInv
BY MessageInitInv, MessageNextKeeps, PTL DEF MessageSpec

(***************************************************************************)
(* A closed block has reached the client with every token in it replaced,  *)
(* in that block and no other, and an open one is a beginning of it,       *)
(* wherever the upstream cuts its deltas (stream_anthropic).               *)
(***************************************************************************)
THEOREM BlocksAreRestored == MessageSpec => []BlocksRestored
<1>1. MessageInv => BlocksRestored
  BY RestoredBlocks
<1> QED BY <1>1, MessageInvHolds, PTL

(***************************************************************************)
(* No block of the client's holds more than what restoring makes of the    *)
(* part of it the guardrails let pass, and these parts together are not    *)
(* too long and nothing the word list objects to, though they come in      *)
(* deltas of several blocks.                                               *)
(***************************************************************************)
THEOREM OnlyCleanText == MessageSpec => []SentTextIsClean
<1>1. MessageInv => SentTextIsClean
  BY CleanUntilRefused DEF MessageInv, CleanWhenRefused
<1> QED BY <1>1, MessageInvHolds, PTL

(***************************************************************************)
(* "passed" is the one row of a message that came to its end, all of whose *)
(* text went by; a refused one has its own row and a broken one has none.  *)
(***************************************************************************)
THEOREM RowTellsTheMessage == MessageSpec => []RowMeansComplete
<1>1. MessageInv => RowMeansComplete
  <2> SUFFICES ASSUME MessageInv PROVE RowMeansComplete
    OBVIOUS
  <2>1. Len(<<>>) = 0 /\ Len(<<"passed">>) = 1 /\ Len(<<"output_blocked">>) = 1
    OBVIOUS
  <2>2. rows = IF upstream = "stopped" THEN <<"passed">>
               ELSE IF state = "blocked" THEN <<"output_blocked">> ELSE <<>>
    BY DEF MessageInv, OneRow
  <2>3. IF state = "blocked" THEN upstream = "text" ELSE passed = Len(accumulated)
    BY DEF MessageInv, MessageInStep
  <2>4. Len(rows) <= 1
    BY <2>1, <2>2
  <2>5. /\ (rows = <<"passed">>) <=> (upstream = "stopped")
        /\ (rows = <<"output_blocked">>) <=> (state = "blocked")
    <3>1. /\ <<"passed">>[1] = "passed" /\ <<"output_blocked">>[1] = "output_blocked"
          /\ "passed" # "output_blocked"
      OBVIOUS
    <3>2. <<"passed">> # <<"output_blocked">>
      BY <3>1
    <3>3. <<"passed">> # <<>> /\ <<"output_blocked">> # <<>>
      BY <2>1
    <3> QED BY <2>2, <2>3, <3>2, <3>3
  <2> QED BY <2>2, <2>3, <2>4, <2>5 DEF RowMeansComplete
<1> QED BY <1>1, MessageInvHolds, PTL
===============================================================================
