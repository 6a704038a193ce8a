---------------------------- MODULE PipelineProofs ----------------------------

(***************************************************************************)
(* Proofs about the guardrail pipeline, for any conversations, policies    *)
(* and replies.                                                            *)
(***************************************************************************)
EXTENDS Pipeline, SequenceTheorems, FiniteSetTheorems, WellFoundedInduction, TLAPS

LEMMA LeastNatural ==
  ASSUME NEW T, T \subseteq Nat, T # {}
  PROVE  \E m \in T : \A n \in T : m <= n
<1>1. PICK x \in T : \A y \in T : <<y, x>> \notin OpToRel(<, Nat)
  BY NatLessThanWellFounded, WFMin
<1>2. \A y \in T : ~(y < x)
  BY <1>1 DEF OpToRel
<1> QED BY <1>2

-----------------------------------------------------------------------------

(* Adding up (Scan of InjectionScore, Length of Pipeline).                 *)

(* Among the sets of a nonempty B there is one without a smaller one.      *)
LEMMA SmallestSet ==
  ASSUME NEW S, IsFiniteSet(S), NEW B, B \subseteq SUBSET S, B # {}
  PROVE  \E s \in B : \A t \in SUBSET s : t # s => t \notin B
<1>1. B \subseteq FiniteSubsetsOf(S)
  BY FS_Subset DEF FiniteSubsetsOf
<1>2. PICK s \in B : \A t \in B : <<t, s>> \notin StrictSubsetOrdering(S)
  BY <1>1, FS_StrictSubsetOrderingWellFounded, WFMin
<1>3. ASSUME NEW t \in SUBSET s, t # s, t \in B PROVE FALSE
  BY <1>2, <1>3 DEF StrictSubsetOrdering
<1> QED BY <1>3

(* g is what the subsets of S weigh together, one element after the other. *)
Summing(g, w, S) ==
    g = [s \in SUBSET S |-> IF s = {} THEN 0
                            ELSE LET x == CHOOSE x \in s : TRUE IN w[x] + g[s \ {x}]]

Total(w, S) == (CHOOSE g : Summing(g, w, S))[S]

LEMMA SummingAgree ==
  ASSUME NEW S, IsFiniteSet(S), NEW R, NEW w, NEW v, NEW g, NEW h,
         Summing(g, w, S), Summing(h, v, R), \A x \in S : w[x] = v[x]
  PROVE  \A s \in SUBSET S : s \in SUBSET R => g[s] = h[s]
<1> DEFINE B == {s \in SUBSET S : s \in SUBSET R /\ g[s] # h[s]}
<1> SUFFICES ASSUME B # {} PROVE FALSE
  OBVIOUS
<1>1. PICK s \in B : \A t \in SUBSET s : t # s => t \notin B
  <2>1. B \subseteq SUBSET S
    OBVIOUS
  <2> HIDE DEF B
  <2> QED BY <2>1, SmallestSet
<1>2. s \in SUBSET S /\ s \in SUBSET R /\ g[s] # h[s]
  OBVIOUS
<1>3. CASE s = {}
  BY <1>2, <1>3 DEF Summing
<1>4. CASE s # {}
  <2> DEFINE x == CHOOSE x \in s : TRUE
  <2>1. x \in s
    BY <1>4
  <2>2. g[s] = w[x] + g[s \ {x}] /\ h[s] = v[x] + h[s \ {x}]
    BY <1>2, <1>4 DEF Summing
  <2> HIDE DEF x
  <2>3. s \ {x} \in SUBSET s /\ s \ {x} # s
    BY <2>1
  <2>4. s \ {x} \notin B
    BY <1>1, <2>3
  <2>5. g[s \ {x}] = h[s \ {x}]
    BY <1>2, <2>3, <2>4
  <2>6. w[x] = v[x]
    BY <1>2, <2>1
  <2> QED BY <1>2, <2>2, <2>5, <2>6
<1> QED BY <1>3, <1>4

LEMMA SummingExists ==
  ASSUME NEW S, IsFiniteSet(S), NEW w
  PROVE  \E g : Summing(g, w, S)
<1> DEFINE B == {s \in SUBSET S : ~ \E g : Summing(g, w, s)}
<1> SUFFICES ASSUME B # {} PROVE FALSE
  OBVIOUS
<1>1. PICK s \in B : \A t \in SUBSET s : t # s => t \notin B
  <2>1. B \subseteq SUBSET S
    OBVIOUS
  <2> HIDE DEF B
  <2> QED BY <2>1, SmallestSet
<1>2. s \in SUBSET S /\ ~ \E g : Summing(g, w, s)
  OBVIOUS
<1>3. \A t \in SUBSET s : t # s => \E g : Summing(g, w, t)
  BY <1>1, <1>2
<1> HIDE DEF B
<1> DEFINE G(t) == CHOOSE g : Summing(g, w, t)
<1>4. \A t \in SUBSET s : t # s => Summing(G(t), w, t)
  BY <1>3
<1> DEFINE h == [t \in SUBSET s |-> IF t = {} THEN 0
                            ELSE LET x == CHOOSE x \in t : TRUE IN w[x] + G(t \ {x})[t \ {x}]]
<1>5. ASSUME NEW t \in SUBSET s, t # s PROVE h[t] = G(t)[t]
  <2>0. IsFiniteSet(t)
    BY <1>2, FS_Subset
  <2>1. Summing(G(t), w, t)
    BY <1>4, <1>5
  <2>2. CASE t = {}
    <3>1. h[t] = 0
      BY <2>2
    <3>2. G(t)[t] = 0
      <4> HIDE DEF G
      <4> QED BY <2>1, <2>2 DEF Summing
    <3> QED BY <3>1, <3>2
  <2>3. CASE t # {}
    <3> DEFINE x == CHOOSE x \in t : TRUE
               u == t \ {x}
    <3>1. x \in t
      BY <2>3
    <3>2. h[t] = w[x] + G(u)[u]
      BY <2>3
    <3>3. G(t)[t] = w[x] + G(t)[u]
      <4> HIDE DEF G
      <4> QED BY <2>1, <2>3 DEF Summing
    <3> HIDE DEF h, x
    <3>4. u \in SUBSET s /\ u # s /\ u \in SUBSET t
      BY <3>1
    <3>5. Summing(G(u), w, u)
      BY <1>4, <3>4
    <3>6. G(t)[u] = G(u)[u]
      <4>1. IsFiniteSet(u)
        BY <2>0, <3>4, FS_Subset
      <4>2. u \in SUBSET u
        OBVIOUS
      <4> HIDE DEF G, u
      <4>3. \A r \in SUBSET u : r \in SUBSET t => G(u)[r] = G(t)[r]
        BY <2>1, <3>5, <4>1, SummingAgree
      <4> QED BY <3>4, <4>2, <4>3
    <3> QED BY <3>2, <3>3, <3>6
  <2> QED BY <2>2, <2>3
<1>6. h = [t \in SUBSET s |-> IF t = {} THEN 0
                            ELSE LET x == CHOOSE x \in t : TRUE IN w[x] + h[t \ {x}]]
  <2> DEFINE c(t) == CHOOSE x \in t : TRUE
  <2>1. ASSUME NEW t \in SUBSET s, t # {}
        PROVE  w[c(t)] + G(t \ {c(t)})[t \ {c(t)}] = w[c(t)] + h[t \ {c(t)}]
    <3>1. c(t) \in t
      BY <2>1
    <3> HIDE DEF h, G, c
    <3>2. t \ {c(t)} \in SUBSET s /\ t \ {c(t)} # s
      BY <3>1
    <3> QED BY <1>5, <3>2
  <2>2. h = [t \in SUBSET s |-> IF t = {} THEN 0 ELSE w[c(t)] + G(t \ {c(t)})[t \ {c(t)}]]
    OBVIOUS
  <2> HIDE DEF h, G, c
  <2>3. h = [t \in SUBSET s |-> IF t = {} THEN 0 ELSE w[c(t)] + h[t \ {c(t)}]]
    BY <2>1, <2>2
  <2> QED BY <2>3 DEF c
<1> QED
  <2>1. Summing(h, w, s)
    <3> HIDE DEF h
    <3> QED BY <1>6 DEF Summing
  <2> QED BY <1>2, <2>1

LEMMA TotalUnfolds ==
  ASSUME NEW S, IsFiniteSet(S), NEW w
  PROVE  /\ S = {} => Total(w, S) = 0
         /\ S # {} => \E x \in S : Total(w, S) = w[x] + Total(w, S \ {x})
<1>1. PICK g : Summing(g, w, S) /\ Total(w, S) = g[S]
  BY SummingExists DEF Total
<1>2. CASE S = {}
  BY <1>1, <1>2 DEF Summing
<1>3. CASE S # {}
  <2> DEFINE x == CHOOSE x \in S : TRUE
  <2>1. x \in S
    BY <1>3
  <2>2. g[S] = w[x] + g[S \ {x}]
    BY <1>1, <1>3 DEF Summing
  <2> HIDE DEF x
  <2>3. IsFiniteSet(S \ {x})
    BY FS_Subset
  <2>4. PICK h : Summing(h, w, S \ {x}) /\ Total(w, S \ {x}) = h[S \ {x}]
    BY <2>3, SummingExists DEF Total
  <2>5. \A s \in SUBSET (S \ {x}) : s \in SUBSET S => h[s] = g[s]
    BY <1>1, <2>3, <2>4, SummingAgree
  <2>6. h[S \ {x}] = g[S \ {x}]
    BY <2>5
  <2> QED BY <1>1, <1>3, <2>1, <2>2, <2>4, <2>6
<1> QED BY <1>2, <1>3

LEMMA TotalType ==
  ASSUME NEW S, IsFiniteSet(S), NEW w, \A x \in S : w[x] \in Nat
  PROVE  Total(w, S) \in Nat
<1> DEFINE B == {s \in SUBSET S : Total(w, s) \notin Nat}
<1> SUFFICES ASSUME B # {} PROVE FALSE
  OBVIOUS
<1>1. PICK s \in B : \A t \in SUBSET s : t # s => t \notin B
  <2>1. B \subseteq SUBSET S
    OBVIOUS
  <2> HIDE DEF B
  <2> QED BY <2>1, SmallestSet
<1>2. s \in SUBSET S /\ Total(w, s) \notin Nat /\ IsFiniteSet(s)
  BY FS_Subset
<1>3. s # {}
  BY <1>2, TotalUnfolds
<1>4. PICK x \in s : Total(w, s) = w[x] + Total(w, s \ {x})
  BY <1>2, <1>3, TotalUnfolds
<1>5. s \ {x} \in SUBSET s /\ s \ {x} # s
  OBVIOUS
<1>6. Total(w, s \ {x}) \in Nat
  BY <1>1, <1>2, <1>5
<1> QED BY <1>2, <1>4, <1>6

(* Whichever element is taken away first.                                  *)
LEMMA TotalLess ==
  ASSUME NEW S, IsFiniteSet(S), NEW w, \A x \in S : w[x] \in Nat, NEW z \in S
  PROVE  Total(w, S) = w[z] + Total(w, S \ {z})
<1> DEFINE Apart(s, y) == Total(w, s) = w[y] + Total(w, s \ {y})
           B == {s \in SUBSET S : \E y \in s : ~Apart(s, y)}
<1>0. SUFFICES ASSUME B # {} PROVE FALSE
  OBVIOUS
<1>1. PICK s \in B : \A t \in SUBSET s : t # s => t \notin B
  <2>1. B \subseteq SUBSET S
    OBVIOUS
  <2> HIDE DEF B
  <2> QED BY <1>0, <2>1, SmallestSet
<1>2. PICK y \in s : ~Apart(s, y)
  OBVIOUS
<1>3. s \in SUBSET S /\ \A t \in SUBSET S : IsFiniteSet(t) /\ Total(w, t) \in Nat
  BY FS_Subset, TotalType
<1>4. PICK x \in s : Total(w, s) = w[x] + Total(w, s \ {x})
  BY <1>2, <1>3, TotalUnfolds
<1>5. x # y
  BY <1>2, <1>4
<1>6. ASSUME NEW p \in s, NEW q \in s, p # q
      PROVE  Total(w, s \ {p}) = w[q] + Total(w, s \ {x, y})  \/ {p, q} # {x, y}
  <2>1. /\ s \ {p} \in SUBSET s /\ s \ {p} # s /\ s \ {p} \in SUBSET S /\ q \in s \ {p}
        /\ {p, q} = {x, y} => (s \ {p}) \ {q} = s \ {x, y}
    BY <1>3, <1>6
  <2>2. Apart(s \ {p}, q)
    <3>1. s \ {p} \notin B
      BY <1>1, <2>1
    <3> HIDE DEF Apart
    <3> QED BY <2>1, <3>1
  <2> QED BY <2>1, <2>2
<1>7. /\ Total(w, s \ {x}) = w[y] + Total(w, s \ {x, y})
      /\ Total(w, s \ {y}) = w[x] + Total(w, s \ {x, y})
  BY <1>5, <1>6
<1>8. w[x] \in Nat /\ w[y] \in Nat /\ Total(w, s \ {x, y}) \in Nat
  BY <1>3
<1> QED BY <1>2, <1>4, <1>7, <1>8

LEMMA TotalUnion ==
  ASSUME NEW S, IsFiniteSet(S), NEW w, \A x \in S : w[x] \in Nat,
         NEW R \in SUBSET S, NEW P \in SUBSET S, R \cap P = {}
  PROVE  Total(w, R \cup P) = Total(w, R) + Total(w, P)
<1> DEFINE Adds(s) == Total(w, R \cup s) = Total(w, R) + Total(w, s)
           B == {s \in SUBSET P : ~Adds(s)}
<1>0. SUFFICES ASSUME B # {} PROVE FALSE
  OBVIOUS
<1>1. PICK s \in B : \A t \in SUBSET s : t # s => t \notin B
  <2>1. B \subseteq SUBSET P /\ IsFiniteSet(P)
    BY FS_Subset
  <2> HIDE DEF B
  <2> QED BY <1>0, <2>1, SmallestSet
<1>2. s \in SUBSET P /\ ~Adds(s)
  OBVIOUS
<1>3. \A t \in SUBSET S : IsFiniteSet(t) /\ Total(w, t) \in Nat
  BY FS_Subset, TotalType
<1>4. CASE s = {}
  <2>1. Total(w, s) = 0 /\ R \cup s = R
    BY <1>3, <1>4, TotalUnfolds
  <2> QED BY <1>2, <1>3, <2>1
<1>5. CASE s # {}
  <2>1. PICK y \in s : TRUE
    BY <1>5
  <2>2. s \ {y} \in SUBSET s /\ s \ {y} # s /\ s \ {y} \in SUBSET P
    BY <1>2
  <2>3. Adds(s \ {y})
    BY <1>1, <2>2
  <2>4. y \in R \cup s /\ (R \cup s) \ {y} = R \cup (s \ {y})
    BY <1>2
  <2>5. R \cup s \in SUBSET S /\ s \in SUBSET S /\ s \ {y} \in SUBSET S
    BY <1>2
  <2>6. Total(w, s) = w[y] + Total(w, s \ {y})
    BY <1>3, <2>5, TotalLess
  <2>7. Total(w, R \cup s) = w[y] + Total(w, R \cup (s \ {y}))
    BY <1>3, <2>4, <2>5, TotalLess
  <2>8. w[y] \in Nat /\ Total(w, R) \in Nat /\ Total(w, s \ {y}) \in Nat
    BY <1>3, <2>5
  <2> QED BY <1>2, <2>3, <2>6, <2>7, <2>8
<1> QED BY <1>4, <1>5

LEMMA TotalOfPart ==
  ASSUME NEW S, IsFiniteSet(S), NEW w, \A x \in S : w[x] \in Nat, NEW R \in SUBSET S
  PROVE  /\ Total(w, R) \in Nat /\ Total(w, R) <= Total(w, S)
         /\ \A x \in R : w[x] <= Total(w, R)
<1>1. \A t \in SUBSET S : IsFiniteSet(t) /\ Total(w, t) \in Nat
  BY FS_Subset, TotalType
<1>2. Total(w, R \cup (S \ R)) = Total(w, R) + Total(w, S \ R) /\ R \cup (S \ R) = S
  <2>1. S \ R \in SUBSET S /\ R \cap (S \ R) = {}
    OBVIOUS
  <2> QED BY <2>1, TotalUnion
<1>3. Total(w, R) \in Nat /\ Total(w, S \ R) \in Nat
  BY <1>1
<1>4. ASSUME NEW x \in R PROVE w[x] <= Total(w, R)
  <2>1. Total(w, R) = w[x] + Total(w, R \ {x})
    BY <1>1, TotalLess
  <2>2. w[x] \in Nat /\ Total(w, R \ {x}) \in Nat
    BY <1>1
  <2> QED BY <2>1, <2>2
<1>5. Total(w, R) <= Total(w, S)
  <2>1. PICK r, q, t \in Nat : r = Total(w, R) /\ q = Total(w, S \ R) /\ t = Total(w, S)
    BY <1>1, <1>3
  <2>2. t = r + q
    BY <1>2, <2>1
  <2> QED BY <2>1, <2>2
<1> QED BY <1>3, <1>4, <1>5

LEMMA ScanIsTotal == \A S : Scan(S) = Total(Weight, S)
BY DEF Scan, MapThenSumSet, MapThenFoldSet, Total, Summing

LEMMA LengthIsTotal ==
  \A words : Length(words) = Total([i \in DOMAIN words |-> Width[words[i].kind]], DOMAIN words)
BY DEF Length, FoldSeq, FoldFunction, FoldFunctionOnSet, MapThenFoldSet, Total, Summing

-----------------------------------------------------------------------------

(* The injection score.                                                    *)

LEMMA ScanOfPart ==
  ASSUME NEW S \in SUBSET Signatures, NEW R \in SUBSET S
  PROVE  /\ Scan(S) \in Nat /\ Scan(R) \in Nat /\ Scan(R) <= Scan(S)
         /\ S # {} => Scan(S) >= 1
         /\ S = {} => Scan(S) = 0
<1>1. IsFiniteSet(S) /\ \A x \in S : Weight[x] \in Nat /\ Weight[x] >= 1
  BY SignaturesAssumption, FS_Subset
<1>2. Total(Weight, S) \in Nat /\ \A x \in S : Weight[x] <= Total(Weight, S)
  BY <1>1, TotalOfPart
<1>3. Total(Weight, R) \in Nat /\ Total(Weight, R) <= Total(Weight, S)
  BY <1>1, TotalOfPart
<1>4. S = {} => Total(Weight, S) = 0
  BY <1>1, TotalUnfolds
<1>5. S # {} => Total(Weight, S) >= 1
  BY <1>1, <1>2
<1> QED BY <1>2, <1>3, <1>4, <1>5, ScanIsTotal

LEMMA ScanOfUnion ==
  ASSUME NEW R \in SUBSET Signatures, NEW P \in SUBSET Signatures, R \cap P = {}
  PROVE  Scan(R \cup P) = Scan(R) + Scan(P)
<1>1. IsFiniteSet(Signatures) /\ \A x \in Signatures : Weight[x] \in Nat
  BY SignaturesAssumption
<1> QED BY <1>1, TotalUnion, ScanIsTotal

LEMMA PayloadCounts ==
  ASSUME NEW p \in Profile
  PROVE  /\ (\A i \in DOMAIN p.payloads : p.payloads[i] = {}) => PayloadScore(p) = 0
         /\ (\E i \in DOMAIN p.payloads : p.payloads[i] # {}) =>
                PayloadScore(p) \in Nat /\ PayloadScore(p) >= Block
<1> DEFINE hot == {i \in DOMAIN p.payloads : Scan(p.payloads[i]) > 0}
<1>1. /\ DOMAIN p.payloads \subseteq Nat
      /\ \A i \in DOMAIN p.payloads : p.payloads[i] \in SUBSET Signatures
  BY ElementOfSeq, LenProperties DEF Profile
<1>2. \A i \in DOMAIN p.payloads :
          Scan(p.payloads[i]) \in Nat /\ (Scan(p.payloads[i]) > 0 <=> p.payloads[i] # {})
  BY <1>1, ScanOfPart
<1>3. PayloadScore(p) = IF hot = {} THEN 0 ELSE Max({Scan(p.payloads[Min(hot)]), Block})
  BY DEF PayloadScore
<1>4. (\A i \in DOMAIN p.payloads : p.payloads[i] = {}) => hot = {}
  BY <1>2
<1>5. ASSUME NEW i \in DOMAIN p.payloads, p.payloads[i] # {}
      PROVE  PayloadScore(p) \in Nat /\ PayloadScore(p) >= Block
  <2>1. hot # {} /\ hot \subseteq Nat
    BY <1>1, <1>2, <1>5
  <2>2. Min(hot) \in hot
    <3> HIDE DEF hot
    <3>1. \E m \in hot : \A n \in hot : m <= n
      BY <2>1, LeastNatural
    <3> QED BY <3>1 DEF Min
  <2>3. PICK n \in Nat : n = Scan(p.payloads[Min(hot)])
    BY <1>2, <2>2
  <2>4. Max({n, Block}) \in Nat /\ Max({n, Block}) >= Block
    <3>1. \E x \in {n, Block} : \A y \in {n, Block} : x >= y
      BY DEF Block
    <3>2. /\ Max({n, Block}) \in {n, Block}
          /\ \A y \in {n, Block} : Max({n, Block}) >= y
      BY <3>1 DEF Max
    <3> QED BY <3>2 DEF Block
  <2> QED BY <1>3, <2>1, <2>3, <2>4
<1> QED BY <1>3, <1>4, <1>5

(* A fold that counts signals of the plain text again has at least two     *)
(* halves to count without them.                                           *)
LEMMA ScoreAsDocumented ==
  ASSUME NEW p \in Profile, NEW t \in Int, t <= Block
  PROVE  Flagged(p, t) <=> Suspicious(p, t)
<1> DEFINE fresh == {s \in p.folded : Category[s] \in NewCategories(p)}
<1>1. /\ p.plain \in SUBSET Signatures /\ p.folded \in SUBSET Signatures
      /\ p.bidi \in BOOLEAN /\ p.spliced \in BOOLEAN
  BY DEF Profile
<1>2. PICK T \in Int : T = Threshold(t) /\ T <= 2
  BY DEF Threshold, Block
<1>3. PICK tricks \in Nat : tricks = Half(p.bidi) + Half(p.spliced)
  BY DEF Half
<1>4. /\ fresh \in SUBSET Signatures /\ fresh \in SUBSET p.folded /\ p.plain \cap fresh = {}
      /\ NewCategories(p) # {} => fresh # {}
      /\ NewCategories(p) = {} => fresh = {}
      /\ p.plain = {} => fresh = p.folded
  BY <1>1 DEF NewCategories
<1> HIDE DEF fresh
<1>5. PICK plain, folded, new \in Nat :
          plain = Scan(p.plain) /\ folded = Scan(p.folded) /\ new = Scan(fresh)
  BY <1>1, <1>4, ScanOfPart
<1>6. Scan(p.plain \cup fresh) = plain + new
  BY <1>1, <1>4, <1>5, ScanOfUnion
<1>7. /\ new <= folded
      /\ NewCategories(p) # {} => new >= 1
      /\ NewCategories(p) = {} => new = 0
      /\ p.plain # {} => plain >= 1
      /\ p.plain = {} => new = folded
  BY <1>1, <1>4, <1>5, ScanOfPart
<1>8. PICK fold \in Nat : fold = FoldScore(p) /\ new <= fold
                          /\ (plain + fold + tricks >= T <=> plain + new + tricks >= T)
  <2>1. FoldScore(p) = IF NewCategories(p) = {} THEN 0 ELSE folded
    BY <1>5 DEF FoldScore
  <2>2. CASE NewCategories(p) = {}
    BY <1>7, <2>1, <2>2
  <2>3. CASE NewCategories(p) # {} /\ p.plain = {}
    BY <1>7, <2>1, <2>3
  <2>4. CASE NewCategories(p) # {} /\ p.plain # {}
    BY <1>2, <1>7, <2>1, <2>4
  <2> QED BY <2>2, <2>3, <2>4
<1>9. Suspicious(p, t) <=> \/ \E i \in DOMAIN p.payloads : p.payloads[i] # {}
                           \/ plain + new + tricks >= T
  <2>1. Scan(p.plain \cup {s \in p.folded : Category[s] \in NewCategories(p)})
           + Half(p.bidi) + Half(p.spliced) = plain + new + tricks
    <3>1. PICK a, b \in Nat : a = Half(p.bidi) /\ b = Half(p.spliced)
      BY DEF Half
    <3> QED BY <1>3, <1>6, <3>1 DEF fresh
  <2> QED BY <1>2, <2>1 DEF Suspicious
<1>10. ASSUME NEW n \in Nat, n = PayloadScore(p)
       PROVE  Flagged(p, t) <=> plain + fold + n + tricks >= T
  <2>1. PICK a, b \in Nat : a = Half(p.bidi) /\ b = Half(p.spliced)
    BY DEF Half
  <2>2. Score(p) = plain + fold + n + tricks
    BY <1>3, <1>5, <1>8, <1>10, <2>1 DEF Score
  <2> QED BY <1>2, <2>2 DEF Flagged
<1>11. CASE \E i \in DOMAIN p.payloads : p.payloads[i] # {}
  <2>1. PICK n \in Nat : n = PayloadScore(p) /\ n >= 2
    BY <1>11, PayloadCounts DEF Block
  <2>2. plain + fold + n + tricks >= T
    BY <1>2, <2>1
  <2> QED BY <1>9, <1>10, <1>11, <2>1, <2>2
<1>12. CASE ~ \E i \in DOMAIN p.payloads : p.payloads[i] # {}
  <2>1. PICK n \in Nat : n = PayloadScore(p) /\ n = 0
    BY <1>12, PayloadCounts
  <2>2. Flagged(p, t) <=> plain + fold + tricks >= T
    BY <1>10, <2>1
  <2> QED BY <1>8, <1>9, <1>12, <2>2
<1> QED BY <1>11, <1>12

-----------------------------------------------------------------------------

(* Putting pieces of text together (FlattenSeq).                           *)

(* f is the texts put together of the first, the first two, ... pieces.    *)
Growing(f, pieces) ==
    f = [i \in 1..Len(pieces) |->
            IF i = 1 THEN pieces[i] ELSE f[i - 1] \o pieces[i]]

LEMMA GrowingTypes ==
  ASSUME NEW S, NEW pieces \in Seq(Seq(S)), NEW f, Growing(f, pieces)
  PROVE  \A i \in 1..Len(pieces) : f[i] \in Seq(S)
<1> SUFFICES ASSUME NEW i \in 1..Len(pieces), f[i] \notin Seq(S) PROVE FALSE
  OBVIOUS
<1> DEFINE T == {n \in 1..Len(pieces) : f[n] \notin Seq(S)}
<1>0. Len(pieces) \in Nat
  BY LenProperties
<1>1. T \subseteq Nat /\ T # {}
  <2>1. 1..Len(pieces) \subseteq Nat
    BY <1>0
  <2>2. i \in T
    OBVIOUS
  <2> QED BY <2>1, <2>2
<1>2. PICK m \in T : \A n \in T : m <= n
  <2> HIDE DEF T
  <2> QED BY <1>1, LeastNatural
<1>3. m \in 1..Len(pieces) /\ f[m] \notin Seq(S)
  OBVIOUS
<1>4. pieces[m] \in Seq(S)
  BY <1>3, ElementOfSeq
<1>5. f[m] = IF m = 1 THEN pieces[m] ELSE f[m - 1] \o pieces[m]
  BY <1>3 DEF Growing
<1>6. CASE m = 1
  BY <1>3, <1>4, <1>5, <1>6
<1>7. CASE m # 1
  <2>1. m - 1 \in 1..Len(pieces) /\ m - 1 \notin T
    BY <1>2, <1>3, <1>7
  <2>2. f[m - 1] \in Seq(S)
    BY <2>1
  <2> QED BY <1>3, <1>4, <1>5, <1>7, <2>2, ConcatProperties
<1> QED BY <1>6, <1>7

LEMMA GrowingExists ==
  ASSUME NEW S, NEW pieces \in Seq(Seq(S))
  PROVE  \E f : Growing(f, pieces)
<1> DEFINE Has(n) == \E f : f = [i \in 1..n |->
                         IF i = 1 THEN pieces[i] ELSE f[i - 1] \o pieces[i]]
           T == {n \in 0..Len(pieces) : ~Has(n)}
<1>1. Len(pieces) \in Nat
  BY LenProperties
<1>2. Has(Len(pieces))
  <2> SUFFICES ASSUME ~Has(Len(pieces)) PROVE FALSE
    OBVIOUS
  <2>1. T \subseteq Nat /\ T # {}
    <3>1. 0..Len(pieces) \subseteq Nat /\ Len(pieces) \in 0..Len(pieces)
      BY <1>1
    <3>2. Len(pieces) \in T
      BY <3>1
    <3> QED BY <3>1, <3>2
  <2>2. PICK m \in T : \A n \in T : m <= n
    <3> HIDE DEF T
    <3> QED BY <2>1, LeastNatural
  <2>3. m \in 0..Len(pieces) /\ ~Has(m)
    OBVIOUS
  <2>4. CASE m = 0
    <3>1. \E f : f = [i \in 1..0 |-> IF i = 1 THEN pieces[i] ELSE f[i - 1] \o pieces[i]]
      <4>1. [i \in 1..0 |-> pieces[i]] = [i \in 1..0 |->
               IF i = 1 THEN pieces[i] ELSE [j \in 1..0 |-> pieces[j]][i - 1] \o pieces[i]]
        OBVIOUS
      <4> QED BY <4>1
    <3> QED BY <2>3, <2>4, <3>1
  <2>5. CASE m # 0
    <3>1. m - 1 \in 0..Len(pieces) /\ m - 1 \notin T
      <4> HIDE DEF T
      <4> QED BY <1>1, <2>2, <2>3, <2>5
    <3>2. Has(m - 1)
      BY <3>1
    <3>3. PICK f : f = [i \in 1..(m - 1) |->
                           IF i = 1 THEN pieces[i] ELSE f[i - 1] \o pieces[i]]
      BY <3>2
    <3> DEFINE last == IF m = 1 THEN pieces[m] ELSE f[m - 1] \o pieces[m]
               g == [i \in 1..m |-> IF i = m THEN last ELSE f[i]]
    <3>4. ASSUME NEW i \in 1..m
          PROVE  g[i] = IF i = 1 THEN pieces[i] ELSE g[i - 1] \o pieces[i]
      <4>1. CASE i = m
        <5>1. m # 1 => m - 1 \in 1..m /\ m - 1 # m
          BY <2>3, <2>5
        <5>2. m # 1 => g[m - 1] = f[m - 1]
          BY <5>1
        <5>3. g[m] = last
          BY <3>4, <4>1
        <5> QED BY <4>1, <5>2, <5>3
      <4>2. CASE i # m
        <5>1. i \in 1..(m - 1)
          BY <2>3, <3>4, <4>2
        <5>2. f[i] = IF i = 1 THEN pieces[i] ELSE f[i - 1] \o pieces[i]
          BY <3>3, <5>1
        <5>3. g[i] = f[i]
          BY <3>4, <4>2
        <5>4. i # 1 => i - 1 \in 1..m /\ i - 1 # m
          BY <2>3, <5>1
        <5>5. i # 1 => g[i - 1] = f[i - 1]
          BY <5>4
        <5> QED BY <5>2, <5>3, <5>5
      <4> QED BY <4>1, <4>2
    <3>5. g = [i \in 1..m |-> g[i]]
      OBVIOUS
    <3> HIDE DEF g
    <3>6. g = [i \in 1..m |-> IF i = 1 THEN pieces[i] ELSE g[i - 1] \o pieces[i]]
      BY <3>4, <3>5
    <3> QED BY <2>3, <3>6
  <2> QED BY <2>4, <2>5
<1> QED BY <1>2 DEF Growing

LEMMA Flattened ==
  ASSUME NEW S, NEW pieces \in Seq(Seq(S)), Len(pieces) # 0
  PROVE  \E f : Growing(f, pieces) /\ FlattenSeq(pieces) = f[Len(pieces)]
<1> DEFINE f == CHOOSE g : g = [i \in 1..Len(pieces) |->
                    IF i = 1 THEN pieces[i] ELSE g[i - 1] \o pieces[i]]
<1>1. \E g : g = [i \in 1..Len(pieces) |->
                    IF i = 1 THEN pieces[i] ELSE g[i - 1] \o pieces[i]]
  BY GrowingExists DEF Growing
<1>2. f = [i \in 1..Len(pieces) |-> IF i = 1 THEN pieces[i] ELSE f[i - 1] \o pieces[i]]
  BY <1>1
<1>3. FlattenSeq(pieces) = f[Len(pieces)]
  BY DEF FlattenSeq
<1> QED BY <1>2, <1>3 DEF Growing(* u is the part of s that comes after its first k words.                  *)
Within(u, s, k) ==
    /\ k + Len(u) <= Len(s)
    /\ \A i \in 1..Len(u) : s[k + i] = u[i]

(* Each piece is a part of what they are put together to.                  *)
LEMMA PieceInside ==
  ASSUME NEW S, NEW pieces \in Seq(Seq(S)), NEW i \in DOMAIN pieces
  PROVE  /\ FlattenSeq(pieces) \in Seq(S)
         /\ \E k \in Nat : Within(pieces[i], FlattenSeq(pieces), k)
<1>1. PICK n \in Nat : n = Len(pieces) /\ n # 0 /\ i \in 1..n /\ DOMAIN pieces = 1..n
  <2>1. Len(pieces) \in Nat /\ DOMAIN pieces = 1..Len(pieces)
    BY LenProperties
  <2>2. i \in 1..Len(pieces) /\ Len(pieces) # 0
    BY <2>1
  <2> QED BY <2>1, <2>2
<1>2. PICK f : Growing(f, pieces) /\ FlattenSeq(pieces) = f[n]
  BY <1>1, Flattened
<1>3. \A m \in 1..n : f[m] \in Seq(S) /\ Len(f[m]) \in Nat
  BY <1>1, <1>2, GrowingTypes, LenProperties
<1>4. pieces[i] \in Seq(S) /\ Len(pieces[i]) \in Nat
  BY <1>1, ElementOfSeq, LenProperties
<1>5. \A m \in 1..n : f[m] = IF m = 1 THEN pieces[m] ELSE f[m - 1] \o pieces[m]
  BY <1>1, <1>2 DEF Growing
<1>6. PICK k \in Nat : Within(pieces[i], f[i], k)
  <2>1. CASE i = 1
    <3>1. Within(pieces[i], f[i], 0)
      BY <1>1, <1>4, <1>5, <2>1 DEF Within
    <3> QED BY <3>1
  <2>2. CASE i # 1
    <3>1. i - 1 \in 1..n /\ f[i] = f[i - 1] \o pieces[i]
      <4>1. i \in 1..n
        BY <1>1
      <4>2. f[i] = IF i = 1 THEN pieces[i] ELSE f[i - 1] \o pieces[i]
        BY <1>5, <4>1
      <4>3. i - 1 \in 1..n
        BY <2>2, <4>1
      <4> QED BY <2>2, <4>2, <4>3
    <3>2. PICK a, u : a = f[i - 1] /\ u = pieces[i] /\ a \in Seq(S) /\ u \in Seq(S)
                      /\ Len(a) \in Nat /\ Len(u) \in Nat /\ f[i] = a \o u
      BY <1>3, <1>4, <3>1
    <3>3. /\ Len(a \o u) = Len(a) + Len(u)
          /\ \A j \in 1..(Len(a) + Len(u)) : (a \o u)[j] = IF j <= Len(a) THEN a[j] ELSE u[j - Len(a)]
      BY <3>2, ConcatProperties
    <3>4. ASSUME NEW j \in 1..Len(u) PROVE (a \o u)[Len(a) + j] = u[j]
      <4>1. PICK q \in Int : q = Len(a) + j
        BY <3>2
      <4>2. q \in 1..(Len(a) + Len(u)) /\ ~(q <= Len(a)) /\ q - Len(a) = j
        BY <3>2, <4>1
      <4> QED BY <3>3, <4>1, <4>2
    <3>5. Within(u, a \o u, Len(a))
      BY <3>2, <3>3, <3>4 DEF Within
    <3> QED BY <3>2, <3>5
  <2> QED BY <2>1, <2>2
<1> DEFINE T == {m \in i..n : ~Within(pieces[i], f[m], k)}
<1>7. SUFFICES ASSUME T # {} PROVE FALSE
  <2>1. n \in i..n /\ n \in 1..n
    BY <1>1
  <2>2. f[n] \in Seq(S)
    BY <1>3, <2>1
  <2>3. T = {} => Within(pieces[i], f[n], k)
    BY <2>1
  <2> QED BY <1>2, <2>2, <2>3
<1>8. PICK m \in T : \A j \in T : m <= j
  <2>1. T \subseteq Nat
    BY <1>1
  <2> HIDE DEF T
  <2> QED BY <1>7, <2>1, LeastNatural
<1>9. m \in i..n /\ m \in 1..n /\ ~Within(pieces[i], f[m], k) /\ m # i /\ m # 1
  BY <1>1, <1>6
<1>10. m - 1 \in i..n /\ m - 1 \in 1..n /\ m - 1 \notin T
  BY <1>1, <1>8, <1>9
<1>11. Within(pieces[i], f[m - 1], k)
  BY <1>10
<1>12. f[m] = f[m - 1] \o pieces[m]
  <2>1. f[m] = IF m = 1 THEN pieces[m] ELSE f[m - 1] \o pieces[m]
    BY <1>5, <1>9
  <2> QED BY <1>9, <2>1
<1>13. PICK a, u : a = f[m - 1] /\ u = pieces[m] /\ a \in Seq(S) /\ u \in Seq(S)
                   /\ Len(a) \in Nat /\ Len(u) \in Nat /\ f[m] = a \o u
  BY <1>1, <1>3, <1>9, <1>10, <1>12, ElementOfSeq, LenProperties
<1>14. /\ Len(a \o u) = Len(a) + Len(u)
       /\ \A j \in 1..(Len(a) + Len(u)) : (a \o u)[j] = IF j <= Len(a) THEN a[j] ELSE u[j - Len(a)]
  <2>1. a \in Seq(S) /\ u \in Seq(S)
    BY <1>13
  <2> QED BY <2>1, ConcatProperties
<1>15. PICK v : v = pieces[i] /\ Within(v, a, k) /\ ~Within(v, a \o u, k) /\ Len(v) \in Nat
  BY <1>4, <1>9, <1>11, <1>13
<1>16. ASSUME NEW j \in 1..Len(v) PROVE (a \o u)[k + j] = v[j]
  <2>1. Len(a) \in Nat /\ Len(u) \in Nat /\ Len(v) \in Nat
    BY <1>13, <1>15
  <2>2. k + Len(v) <= Len(a) /\ a[k + j] = v[j]
    BY <1>15 DEF Within
  <2>3. k + j \in 1..(Len(a) + Len(u)) /\ k + j <= Len(a)
    BY <2>1, <2>2
  <2> QED BY <1>14, <2>2, <2>3
<1>17. k + Len(v) <= Len(a \o u)
  <2>1. Len(a) \in Nat /\ Len(u) \in Nat /\ Len(v) \in Nat
    BY <1>13, <1>15
  <2>2. k + Len(v) <= Len(a)
    BY <1>15 DEF Within
  <2> QED BY <1>14, <2>1, <2>2
<1> QED BY <1>15, <1>16, <1>17 DEF Within

LEMMA MentionedInside ==
  ASSUME NEW S, NEW s \in Seq(S), NEW u \in Seq(S), NEW phrase \in Seq(S), NEW k \in Nat,
         Within(u, s, k), Mentions(u, phrase)
  PROVE  Mentions(s, phrase)
<1>1. Len(s) \in Nat /\ Len(u) \in Nat /\ Len(phrase) \in Nat
  BY LenProperties
<1>2. PICK n \in Nat : n = Len(phrase)
  BY <1>1
<1>3. PICK i \in 0..(Len(u) - n) : SubSeq(u, i + 1, i + n) = phrase
  BY <1>2 DEF Mentions
<1>4. PICK j : j = k + i /\ j \in 0..(Len(s) - n)
  BY <1>1, <1>2, <1>3 DEF Within
<1>5. /\ Len(SubSeq(s, j + 1, j + n)) = n /\ SubSeq(s, j + 1, j + n) \in Seq(S)
      /\ \A q \in 1..n : SubSeq(s, j + 1, j + n)[q] = s[j + q]
      /\ \A q \in 1..n : SubSeq(u, i + 1, i + n)[q] = u[i + q]
  BY <1>1, <1>2, <1>3, <1>4
<1>6. ASSUME NEW q \in 1..n PROVE s[j + q] = phrase[q]
  <2>1. i + q \in 1..Len(u) /\ k + (i + q) = j + q
    BY <1>1, <1>2, <1>3, <1>4
  <2>2. s[k + (i + q)] = u[i + q]
    BY <2>1 DEF Within
  <2> QED BY <1>3, <1>5, <2>1, <2>2
<1>7. SubSeq(s, j + 1, j + n) = phrase
  BY <1>2, <1>5, <1>6, SeqEqual
<1> QED BY <1>2, <1>4, <1>7 DEF Mentions

LEMMA LengthInside ==
  ASSUME NEW s \in Seq(Word), NEW u \in Seq(Word), NEW k \in Nat, Within(u, s, k)
  PROVE  Length(u) \in Nat /\ Length(s) \in Nat /\ Length(u) <= Length(s)
<1> DEFINE wide(x) == [i \in DOMAIN x |-> Width[x[i].kind]]
<1>1. PICK n, l \in Nat : n = Len(u) /\ l = Len(s) /\ DOMAIN u = 1..n /\ DOMAIN s = 1..l
  BY LenProperties
<1>2. PICK a, b : a = wide(u) /\ b = wide(s)
  OBVIOUS
<1>3. Length(u) = Total(a, 1..n) /\ Length(s) = Total(b, 1..l)
  BY <1>1, <1>2, LengthIsTotal
<1>0. \A w \in Word : Width[w.kind] \in Nat
  BY RepliesAssumption DEF Word
<1>4. \A i \in 1..n : a[i] \in Nat
  <2>1. \A i \in 1..n : u[i] \in Word
    BY <1>1, ElementOfSeq
  <2> QED BY <1>0, <1>1, <1>2, <2>1
<1>5. \A i \in 1..l : b[i] \in Nat
  <2>1. \A i \in 1..l : s[i] \in Word
    BY <1>1, ElementOfSeq
  <2> QED BY <1>0, <1>1, <1>2, <2>1
<1>6. k + n <= l /\ \A i \in 1..n : k + i \in 1..l /\ b[k + i] = a[i]
  BY <1>1, <1>2 DEF Within
<1> HIDE DEF wide
<1>7. IsFiniteSet(1..n) /\ IsFiniteSet(1..l)
  BY FS_Interval
<1> DEFINE T == {m \in 0..n : Total(b, (k + 1)..(k + m)) # Total(a, 1..m)}
<1>8. T = {}
  <2> SUFFICES ASSUME T # {} PROVE FALSE
    OBVIOUS
  <2>1. PICK m \in T : \A j \in T : m <= j
    <3>1. T \subseteq Nat
      OBVIOUS
    <3> HIDE DEF T
    <3> QED BY <3>1, LeastNatural
  <2>2. m \in 0..n /\ Total(b, (k + 1)..(k + m)) # Total(a, 1..m)
    OBVIOUS
  <2>3. m # 0
    <3>1. m = 0 => (k + 1)..(k + m) = {} /\ 1..m = {}
      OBVIOUS
    <3>2. IsFiniteSet({})
      BY FS_EmptySet
    <3> QED BY <2>2, <3>1, <3>2, TotalUnfolds
  <2>4. m - 1 \in 0..n /\ m - 1 \notin T
    BY <2>1, <2>2, <2>3
  <2>5. PICK r : r = m - 1 /\ Total(b, (k + 1)..(k + r)) = Total(a, 1..r)
    BY <2>4
  <2>6. PICK A : A = 1..m /\ A \in SUBSET (1..n) /\ A \ {m} = 1..r /\ m \in A
    BY <2>2, <2>3, <2>5
  <2>7. PICK B : B = (k + 1)..(k + m) /\ B \in SUBSET (1..l) /\ B \ {k + m} = (k + 1)..(k + r)
                 /\ k + m \in B
    <3>1. k + n <= l /\ r = m - 1 /\ m \in 1..n
      BY <1>6, <2>2, <2>3, <2>5
    <3>2. (k + 1)..(k + m) \in SUBSET (1..l) /\ k + m \in (k + 1)..(k + m)
      BY <3>1
    <3>3. ((k + 1)..(k + m)) \ {k + m} = (k + 1)..(k + r)
      BY <3>1
    <3> QED BY <3>2, <3>3
  <2>8. Total(a, A) = a[m] + Total(a, A \ {m})
    <3>1. A \in SUBSET (1..n) /\ m \in A /\ IsFiniteSet(A)
      BY <1>7, <2>6, FS_Subset
    <3>2. \A x \in A : a[x] \in Nat
      BY <1>4, <3>1
    <3> QED BY <3>1, <3>2, TotalLess
  <2>9. Total(b, B) = b[k + m] + Total(b, B \ {k + m})
    <3>1. B \in SUBSET (1..l) /\ k + m \in B /\ IsFiniteSet(B)
      BY <1>7, <2>7, FS_Subset
    <3>2. \A x \in B : b[x] \in Nat
      BY <1>5, <3>1
    <3> QED BY <3>1, <3>2, TotalLess
  <2>10. b[k + m] = a[m]
    BY <1>6, <2>2, <2>3
  <2> QED BY <2>2, <2>5, <2>6, <2>7, <2>8, <2>9, <2>10
<1>9. Total(b, (k + 1)..(k + n)) = Total(a, 1..n)
  BY <1>8
<1>10. PICK B : B = (k + 1)..(k + n) /\ B \in SUBSET (1..l)
  BY <1>6
<1>11. Total(b, B) \in Nat /\ Total(b, B) <= Total(b, 1..l)
  BY <1>5, <1>7, <1>10, TotalOfPart
<1>12. Total(b, 1..l) \in Nat
  BY <1>5, <1>7, TotalType
<1> QED BY <1>3, <1>9, <1>10, <1>11, <1>12

-----------------------------------------------------------------------------

(* The way of a conversation to the upstream and back.                     *)
Cleaned(messages) ==
    [i \in DOMAIN messages |-> [messages[i] EXCEPT !.text = Sanitized(@)]]

Untouched ==
    working = conversation.messages /\ system = conversation.system /\ vault = {}

NoPIIBlocked(texts) == policy.pii = "block" => \A text \in texts : ~HasPII(text)

(* The messages are done, the system prompt is not. *)
HalfProtected ==
    /\ policy.pii # "off"
    /\ NoPIIBlocked(TextsOf(conversation.messages))
    /\ working = Cleaned(conversation.messages)
    /\ system = conversation.system
    /\ vault = Tokenized(TextsOf(conversation.messages))

(* What went upstream is what came, or what the guardrail made of it. *)
Protected ==
    IF policy.pii = "off" THEN Untouched
    ELSE /\ NoPIIBlocked(TextsOf(conversation.messages) \cup {conversation.system})
         /\ working = Cleaned(conversation.messages)
         /\ system = Sanitized(conversation.system)
         /\ vault = Tokenized(TextsOf(conversation.messages) \cup {conversation.system})

(* How far the conversation has come, and what has become of it there. *)
OnItsWay ==
    /\ stage \in {"injection", "topic", "pii"} => Untouched
    /\ stage = "system" => HalfProtected
    /\ Forwarded => Protected

(* A refusal has its reason, and what was not refused gave none. *)
Reasoned ==
    /\ stage # "injection" =>
          (verdict = "prompt_injection" <=> policy.injection /\ Injected(conversation.messages))
    /\ stage \notin {"injection", "topic"} /\ verdict # "prompt_injection" =>
          (verdict = "topic_filter" <=> OffTopic(conversation.messages))
    /\ verdict = "pii" =>
          /\ policy.pii = "block"
          /\ \E text \in TextsOf(conversation.messages) \cup {conversation.system} : HasPII(text)

Stages == {"injection", "topic", "pii", "system", "upstream", "reinject", "validate",
           "toxicity", "done"}

Typed ==
    /\ policy \in Policies /\ conversation \in Conversations
    /\ stage \in Stages /\ (stage = "done" <=> verdict # "none")
    /\ verdict \in InputRefusals \cup {"none", "output_validator", "toxicity", "ok"}
    /\ reply \in Seq(Seq(Word))

(* The reply is whole again before it is judged, and judged before it goes. *)
ReplyJudged ==
    /\ stage \in {"validate", "toxicity"} \/ verdict = "ok" =>
          \A i \in DOMAIN reply : reply[i] = Restored(reply[i])
    /\ stage = "toxicity" \/ verdict = "ok" => ~InvalidReply
    /\ verdict = "ok" => ~(policy.toxicity /\ Mentions(Judged, Toxic))

IInv == Typed /\ OnItsWay /\ Reasoned /\ ReplyJudged

LEMMA InitIInv == Init => IInv
<1> SUFFICES ASSUME Init PROVE IInv
  OBVIOUS
<1>1. Typed
  BY EmptySeq DEF Init, Typed, Stages
<1>2. OnItsWay
  BY DEF Init, OnItsWay, Untouched, Forwarded
<1>3. Reasoned /\ ReplyJudged
  BY DEF Init, Reasoned, ReplyJudged
<1> QED BY <1>1, <1>2, <1>3 DEF IInv

LEMMA InjectionKeeps == IInv /\ CheckInjection => IInv'
<1> SUFFICES ASSUME IInv, CheckInjection PROVE IInv'
  OBVIOUS
<1>1. stage = "injection" /\ working = conversation.messages /\ verdict = "none"
  BY DEF IInv, OnItsWay, Untouched, CheckInjection, Typed
<1>2. UNCHANGED <<policy, conversation, working, system, vault, reply>>
  BY DEF CheckInjection, Refuse, GoOn, given
<1>3. CASE policy.injection /\ Injected(conversation.messages)
  <2>1. stage' = "done" /\ verdict' = "prompt_injection"
    BY <1>1, <1>3 DEF CheckInjection, Refuse
  <2>2. Typed' /\ OnItsWay' /\ ReplyJudged'
    BY <1>1, <1>2, <2>1
       DEF IInv, Typed, Stages, InputRefusals, OnItsWay, Forwarded, ReplyJudged
  <2>3. Reasoned'
    BY <1>2, <1>3, <2>1 DEF Reasoned, Injected
  <2> QED BY <2>2, <2>3 DEF IInv
<1>4. CASE ~(policy.injection /\ Injected(conversation.messages))
  <2>1. stage' = "topic" /\ verdict' = "none"
    BY <1>1, <1>4 DEF CheckInjection, GoOn
  <2>2. Typed' /\ OnItsWay' /\ ReplyJudged'
    BY <1>1, <1>2, <2>1
       DEF IInv, Typed, Stages, OnItsWay, Untouched, Forwarded, ReplyJudged
  <2>3. Reasoned'
    BY <1>2, <1>4, <2>1 DEF Reasoned, Injected
  <2> QED BY <2>2, <2>3 DEF IInv
<1> QED BY <1>3, <1>4

LEMMA TopicsKeep == IInv /\ CheckTopics => IInv'
<1> SUFFICES ASSUME IInv, CheckTopics PROVE IInv'
  OBVIOUS
<1>1. stage = "topic" /\ working = conversation.messages /\ verdict = "none"
  BY DEF IInv, OnItsWay, Untouched, CheckTopics, Typed
<1>2. UNCHANGED <<policy, conversation, working, system, vault, reply>>
  BY DEF CheckTopics, Refuse, GoOn, given
<1>3. ~(policy.injection /\ Injected(conversation.messages))
  BY <1>1 DEF IInv, Reasoned
<1>4. /\ Injected(conversation.messages)' <=> Injected(conversation.messages)
      /\ OffTopic(conversation.messages)' <=> OffTopic(conversation.messages)
  BY <1>2 DEF Injected, OffTopic
<1>5. CASE OffTopic(conversation.messages)
  <2>1. stage' = "done" /\ verdict' = "topic_filter"
    BY <1>1, <1>5 DEF CheckTopics, Refuse
  <2>2. Typed' /\ OnItsWay' /\ ReplyJudged'
    BY <1>1, <1>2, <2>1
       DEF IInv, Typed, Stages, InputRefusals, OnItsWay, Forwarded, ReplyJudged
  <2>3. Reasoned'
    BY <1>2, <1>3, <1>4, <1>5, <2>1 DEF Reasoned
  <2> QED BY <2>2, <2>3 DEF IInv
<1>6. CASE ~OffTopic(conversation.messages)
  <2>1. stage' = "pii" /\ verdict' = "none"
    BY <1>1, <1>6 DEF CheckTopics, GoOn
  <2>2. Typed' /\ OnItsWay' /\ ReplyJudged'
    BY <1>1, <1>2, <2>1
       DEF IInv, Typed, Stages, OnItsWay, Untouched, Forwarded, ReplyJudged
  <2>3. Reasoned'
    BY <1>2, <1>3, <1>4, <1>6, <2>1 DEF Reasoned
  <2> QED BY <2>2, <2>3 DEF IInv
<1> QED BY <1>5, <1>6

(* Past the first two checks a conversation gave them no reason.           *)
Unobjectionable ==
    ~(policy.injection /\ Injected(conversation.messages)) /\ ~OffTopic(conversation.messages)

LEMMA ReasonsStay ==
  ASSUME Unobjectionable, UNCHANGED given, stage' \notin {"injection", "topic"},
         verdict' \notin {"prompt_injection", "topic_filter", "pii"}
  PROVE  Reasoned'
<1>1. /\ Injected(conversation.messages)' <=> Injected(conversation.messages)
      /\ OffTopic(conversation.messages)' <=> OffTopic(conversation.messages)
      /\ policy' = policy
  BY DEF Injected, OffTopic, given
<1> QED BY <1>1 DEF Unobjectionable, Reasoned

LEMMA RefusedForPII ==
  ASSUME IInv, Unobjectionable, stage \in {"pii", "system"}, Refuse("pii"), policy.pii = "block",
         NEW text \in TextsOf(conversation.messages) \cup {conversation.system}, HasPII(text)
  PROVE  IInv'
<1>1. /\ stage' = "done" /\ verdict' = "pii"
      /\ UNCHANGED <<policy, conversation, working, system, vault, reply>>
  BY DEF Refuse, given
<1>2. Typed' /\ OnItsWay' /\ ReplyJudged'
  BY <1>1 DEF IInv, Typed, Stages, InputRefusals, OnItsWay, Forwarded, ReplyJudged
<1>3. /\ Injected(conversation.messages)' <=> Injected(conversation.messages)
      /\ OffTopic(conversation.messages)' <=> OffTopic(conversation.messages)
  BY <1>1 DEF Injected, OffTopic
<1>4. (\E t \in TextsOf(conversation.messages) \cup {conversation.system} : HasPII(t))'
  BY <1>1
<1>5. Reasoned'
  BY <1>1, <1>3, <1>4 DEF Reasoned, Unobjectionable
<1> QED BY <1>2, <1>5 DEF IInv

LEMMA MessagesKeep == IInv /\ SanitizeMessages => IInv'
<1> SUFFICES ASSUME IInv, SanitizeMessages PROVE IInv'
  OBVIOUS
<1>1. /\ stage = "pii" /\ working = conversation.messages /\ system = conversation.system
      /\ vault = {} /\ verdict = "none"
  BY DEF IInv, OnItsWay, Untouched, SanitizeMessages, Typed
<1>2. Unobjectionable
  BY <1>1 DEF IInv, Reasoned, Unobjectionable
<1>3. CASE policy.pii = "off"
  <2>1. /\ stage' = "upstream" /\ verdict' = "none"
        /\ UNCHANGED <<policy, conversation, working, system, vault, reply>>
    BY <1>1, <1>3 DEF SanitizeMessages, GoOn, given
  <2>2. Typed' /\ ReplyJudged'
    BY <1>1, <2>1 DEF IInv, Typed, Stages, ReplyJudged
  <2>3. OnItsWay'
    BY <1>1, <1>3, <2>1 DEF OnItsWay, Protected, Untouched
  <2>4. Reasoned'
    BY <1>2, <2>1, ReasonsStay DEF given
  <2> QED BY <2>2, <2>3, <2>4 DEF IInv
<1>4. CASE policy.pii = "block" /\ \E text \in TextsOf(working) : HasPII(text)
  <2>1. Refuse("pii")
    BY <1>4 DEF SanitizeMessages
  <2>2. PICK text \in TextsOf(conversation.messages) : HasPII(text)
    BY <1>1, <1>4
  <2> QED BY <1>1, <1>2, <1>4, <2>1, <2>2, RefusedForPII
<1>5. CASE /\ policy.pii # "off"
           /\ ~(policy.pii = "block" /\ \E text \in TextsOf(working) : HasPII(text))
  <2>1. /\ stage' = "system" /\ verdict' = "none"
        /\ working' = Cleaned(working) /\ vault' = vault \cup Tokenized(TextsOf(working))
        /\ UNCHANGED <<policy, conversation, system, reply>>
    BY <1>1, <1>5 DEF SanitizeMessages, given, Cleaned
  <2>2. Typed' /\ ReplyJudged'
    BY <1>1, <2>1 DEF IInv, Typed, Stages, ReplyJudged
  <2>3. HalfProtected'
    <3>1. /\ working' = Cleaned(conversation.messages)
          /\ vault' = Tokenized(TextsOf(conversation.messages))
      BY <1>1, <2>1
    <3>2. \A text : Sanitized(text)' = Sanitized(text)
      BY <2>1 DEF Sanitized, Masked
    <3>3. Cleaned(conversation.messages)' = Cleaned(conversation.messages)
      BY <2>1, <3>2 DEF Cleaned
    <3>4. Tokenized(TextsOf(conversation.messages))' = Tokenized(TextsOf(conversation.messages))
      BY <2>1 DEF Tokenized, TextsOf
    <3>5. NoPIIBlocked(TextsOf(conversation.messages))'
      BY <1>1, <1>5, <2>1 DEF NoPIIBlocked, TextsOf
    <3> QED BY <1>1, <1>5, <2>1, <3>1, <3>3, <3>4, <3>5 DEF HalfProtected
  <2>5. OnItsWay'
    BY <2>1, <2>3 DEF OnItsWay, Forwarded
  <2>4. Reasoned'
    BY <1>2, <2>1, ReasonsStay DEF given
  <2> QED BY <2>2, <2>4, <2>5 DEF IInv
<1> QED BY <1>3, <1>4, <1>5

(* Behind the upstream nothing is done to what went there.                 *)
LEMMA ProtectedStays ==
  ASSUME Protected, UNCHANGED <<policy, conversation, working, system, vault>>
  PROVE  Protected'
<1>1. Untouched' <=> Untouched
  BY DEF Untouched
<1>2. \A text : Sanitized(text)' = Sanitized(text)
  BY DEF Sanitized, Masked
<1>3. Cleaned(conversation.messages)' = Cleaned(conversation.messages)
  BY <1>2 DEF Cleaned
<1>4. \A texts : /\ Tokenized(texts)' = Tokenized(texts)
                 /\ NoPIIBlocked(texts)' <=> NoPIIBlocked(texts)
  BY DEF Tokenized, NoPIIBlocked
<1>5. TextsOf(conversation.messages)' = TextsOf(conversation.messages)
  BY DEF TextsOf
<1>6. /\ (NoPIIBlocked(TextsOf(conversation.messages) \cup {conversation.system}))'
            <=> NoPIIBlocked(TextsOf(conversation.messages) \cup {conversation.system})
      /\ (Tokenized(TextsOf(conversation.messages) \cup {conversation.system}))'
            = Tokenized(TextsOf(conversation.messages) \cup {conversation.system})
      /\ Sanitized(conversation.system)' = Sanitized(conversation.system)
  BY <1>2 DEF Tokenized, NoPIIBlocked, TextsOf, Sanitized, Masked
<1>7. CASE policy.pii = "off"
  BY <1>1, <1>7 DEF Protected
<1>8. CASE policy.pii # "off"
  BY <1>3, <1>6, <1>8 DEF Protected
<1> QED BY <1>7, <1>8

LEMMA SystemKeeps == IInv /\ SanitizeSystem => IInv'
<1> SUFFICES ASSUME IInv, SanitizeSystem PROVE IInv'
  OBVIOUS
<1>1. stage = "system" /\ verdict = "none" /\ HalfProtected
  BY DEF IInv, OnItsWay, SanitizeSystem, Typed
<1>2. Unobjectionable
  BY <1>1 DEF IInv, Reasoned, Unobjectionable
<1>3. system = conversation.system
  BY <1>1 DEF HalfProtected
<1>4. CASE policy.pii = "block" /\ HasPII(system)
  <2>1. Refuse("pii")
    BY <1>4 DEF SanitizeSystem
  <2>2. /\ conversation.system \in TextsOf(conversation.messages) \cup {conversation.system}
        /\ HasPII(conversation.system)
    BY <1>3, <1>4
  <2> QED BY <1>1, <1>2, <1>4, <2>1, <2>2, RefusedForPII
<1>5. CASE ~(policy.pii = "block" /\ HasPII(system))
  <2>1. /\ stage' = "upstream" /\ verdict' = "none"
        /\ system' = Sanitized(system) /\ vault' = vault \cup Tokenized({system})
        /\ UNCHANGED <<policy, conversation, working, reply>>
    BY <1>1, <1>5 DEF SanitizeSystem, given
  <2>2. Typed' /\ ReplyJudged'
    BY <1>1, <2>1 DEF IInv, Typed, Stages, ReplyJudged
  <2>3. PICK texts : texts = TextsOf(conversation.messages) \cup {conversation.system}
    OBVIOUS
  <2>4. vault' = Tokenized(texts)
    <3>1. vault = Tokenized(TextsOf(conversation.messages))
      BY <1>1 DEF HalfProtected
    <3>2. Tokenized(texts) = Tokenized(TextsOf(conversation.messages))
                                \cup Tokenized({conversation.system})
      BY <2>3 DEF Tokenized
    <3> QED BY <1>3, <2>1, <3>1, <3>2
  <2>5. NoPIIBlocked(texts)
    BY <1>1, <1>3, <1>5, <2>3 DEF HalfProtected, NoPIIBlocked
  <2>7. Protected'
    <3>1. \A text : Sanitized(text)' = Sanitized(text)
      BY <2>1 DEF Sanitized, Masked
    <3>2. Cleaned(conversation.messages)' = Cleaned(conversation.messages)
      BY <2>1, <3>1 DEF Cleaned
    <3>3. (TextsOf(conversation.messages) \cup {conversation.system})' = texts
      BY <2>1, <2>3 DEF TextsOf
    <3>4. (Tokenized(TextsOf(conversation.messages) \cup {conversation.system}))'
             = Tokenized(texts)
      BY <2>1, <2>3 DEF Tokenized, TextsOf
    <3>5. (NoPIIBlocked(TextsOf(conversation.messages) \cup {conversation.system}))'
      BY <2>1, <2>3, <2>5 DEF NoPIIBlocked, TextsOf
    <3>6. working' = Cleaned(conversation.messages) /\ policy'.pii # "off"
      BY <1>1, <2>1 DEF HalfProtected
    <3>7. Sanitized(conversation.system)' = Sanitized(conversation.system)
      BY <2>1 DEF Sanitized, Masked
    <3> QED BY <1>3, <2>1, <2>4, <3>2, <3>4, <3>5, <3>6, <3>7 DEF Protected
  <2>8. OnItsWay'
    BY <2>1, <2>7 DEF OnItsWay
  <2>9. Reasoned'
    BY <1>2, <2>1, ReasonsStay DEF given
  <2> QED BY <2>2, <2>8, <2>9 DEF IInv
<1> QED BY <1>4, <1>5

LEMMA AnswerKeeps == IInv /\ Answer => IInv'
<1> SUFFICES ASSUME IInv, Answer PROVE IInv'
  OBVIOUS
<1>1. stage = "upstream" /\ verdict = "none" /\ Protected
  BY DEF IInv, OnItsWay, Forwarded, Answer, Typed
<1>2. /\ stage' = "reinject" /\ verdict' = "none" /\ reply' \in Replies
      /\ UNCHANGED <<policy, conversation, working, system, vault>>
  BY <1>1 DEF Answer, given
<1>3. Typed' /\ ReplyJudged'
  BY <1>1, <1>2, RepliesAssumption DEF IInv, Typed, Stages, ReplyJudged
<1>4. OnItsWay'
  BY <1>1, <1>2, ProtectedStays DEF OnItsWay
<1>5. Unobjectionable
  BY <1>1 DEF IInv, Reasoned, Unobjectionable
<1>6. Reasoned'
  BY <1>2, <1>5, ReasonsStay DEF given
<1> QED BY <1>3, <1>4, <1>6 DEF IInv

(* Restoring gives words, and a second time changes nothing.               *)
LEMMA RestoredWords ==
  ASSUME NEW words \in Seq(Word)
  PROVE  Restored(words) \in Seq(Word) /\ Restored(Restored(words)) = Restored(words)
<1>1. Len(words) \in Nat /\ DOMAIN words = 1..Len(words)
  BY LenProperties
<1>2. \A i \in 1..Len(words) : words[i] \in Word
  BY ElementOfSeq
<1>3. PICK r : r = Restored(words)
  OBVIOUS
<1>4. /\ DOMAIN r = 1..Len(words)
      /\ \A i \in 1..Len(words) :
            r[i] = IF words[i].kind = "token" /\ words[i].name \in vault
                   THEN [kind |-> "pii", name |-> words[i].name] ELSE words[i]
  BY <1>1, <1>3 DEF Restored
<1>5. \A i \in 1..Len(words) : r[i] \in Word
  BY <1>2, <1>4 DEF Word
<1>6. r \in [1..Len(words) -> Word]
  BY <1>3, <1>4, <1>5 DEF Restored
<1>7. r \in Seq(Word)
  BY <1>1, <1>6
<1>8. \A i \in 1..Len(words) : ~(r[i].kind = "token" /\ r[i].name \in vault)
  BY <1>2, <1>4 DEF Word
<1>9. Restored(r) = r
  BY <1>4, <1>6, <1>8 DEF Restored
<1> QED BY <1>3, <1>7, <1>9

LEMMA ReinjectKeeps == IInv /\ Reinject => IInv'
<1> SUFFICES ASSUME IInv, Reinject PROVE IInv'
  OBVIOUS
<1>1. stage = "reinject" /\ verdict = "none" /\ Protected /\ reply \in Seq(Seq(Word))
  BY DEF IInv, OnItsWay, Forwarded, Reinject, Typed
<1>2. /\ stage' = "validate" /\ verdict' = "none"
      /\ reply' = [i \in DOMAIN reply |-> Restored(reply[i])]
      /\ UNCHANGED <<policy, conversation, working, system, vault>>
  BY <1>1 DEF Reinject, given
<1>3. Len(reply) \in Nat /\ DOMAIN reply = 1..Len(reply)
  BY <1>1, LenProperties
<1>4. \A i \in 1..Len(reply) : reply[i] \in Seq(Word)
  BY <1>1, ElementOfSeq
<1>5. \A i \in 1..Len(reply) : Restored(reply[i]) \in Seq(Word)
  BY <1>4, RestoredWords
<1>6. reply' \in Seq(Seq(Word))
  BY <1>2, <1>3, <1>5
<1>7. Typed'
  BY <1>1, <1>2, <1>6 DEF IInv, Typed, Stages
<1>8. OnItsWay'
  BY <1>1, <1>2, ProtectedStays DEF OnItsWay
<1>9. ReplyJudged'
  <2>1. \A words : Restored(words)' = Restored(words)
    BY <1>2 DEF Restored
  <2>2. \A i \in DOMAIN reply' : reply'[i] = Restored(reply'[i])
    BY <1>2, <1>3, <1>4, RestoredWords
  <2>3. (\A i \in DOMAIN reply : reply[i] = Restored(reply[i]))'
    BY <1>2, <2>2 DEF Restored
  <2> QED BY <1>2, <2>3 DEF ReplyJudged
<1>10. Unobjectionable
  BY <1>1 DEF IInv, Reasoned, Unobjectionable
<1>11. Reasoned'
  BY <1>2, <1>10, ReasonsStay DEF given
<1> QED BY <1>7, <1>8, <1>9, <1>11 DEF IInv

(* What judges the reply leaves it as it is.                               *)
LEMMA JudgingStays ==
  ASSUME IInv, stage \in {"validate", "toxicity"},
         UNCHANGED <<policy, conversation, working, system, vault, reply>>,
         \/ stage' = "toxicity" /\ verdict' = "none"
         \/ stage' = "done" /\ verdict' \in {"output_validator", "toxicity", "ok"}
  PROVE  /\ Typed' /\ OnItsWay' /\ Reasoned'
         /\ InvalidReply' <=> InvalidReply
         /\ Judged' = Judged
         /\ (\A i \in DOMAIN reply : reply[i] = Restored(reply[i]))'
<1>1. verdict = "none" /\ Protected /\ Unobjectionable
  BY DEF IInv, OnItsWay, Forwarded, Typed, Reasoned, Unobjectionable
<1>2. Typed'
  BY DEF IInv, Typed, Stages
<1>3. OnItsWay'
  BY <1>1, ProtectedStays DEF OnItsWay
<1>4. Reasoned'
  BY <1>1, ReasonsStay DEF given
<1>5. (InvalidReply' <=> InvalidReply) /\ Judged' = Judged
  BY DEF InvalidReply, Invalid, Judged
<1>6. (\A i \in DOMAIN reply : reply[i] = Restored(reply[i]))'
  BY DEF IInv, ReplyJudged, Restored
<1> QED BY <1>2, <1>3, <1>4, <1>5, <1>6

LEMMA ValidateKeeps == IInv /\ Validate => IInv'
<1> SUFFICES ASSUME IInv, Validate PROVE IInv'
  OBVIOUS
<1>1. stage = "validate" /\ verdict = "none"
  BY DEF IInv, Validate, Typed
<1>2. UNCHANGED <<policy, conversation, working, system, vault, reply>>
  BY DEF Validate, Refuse, GoOn, given
<1>3. CASE InvalidReply
  <2>1. stage' = "done" /\ verdict' = "output_validator"
    BY <1>3 DEF Validate, Refuse
  <2> QED BY <1>1, <1>2, <2>1, JudgingStays DEF IInv, ReplyJudged
<1>4. CASE ~InvalidReply
  <2>1. stage' = "toxicity" /\ verdict' = "none"
    BY <1>1, <1>4 DEF Validate, GoOn
  <2> QED BY <1>1, <1>2, <1>4, <2>1, JudgingStays DEF IInv, ReplyJudged
<1> QED BY <1>3, <1>4

LEMMA ToxicityKeeps == IInv /\ JudgeToxicity => IInv'
<1> SUFFICES ASSUME IInv, JudgeToxicity PROVE IInv'
  OBVIOUS
<1>1. stage = "toxicity" /\ verdict = "none" /\ ~InvalidReply
  BY DEF IInv, JudgeToxicity, Typed, ReplyJudged
<1>2. UNCHANGED <<policy, conversation, working, system, vault, reply>>
  BY DEF JudgeToxicity, Refuse, given
<1>3. CASE policy.toxicity /\ Mentions(Judged, Toxic)
  <2>1. stage' = "done" /\ verdict' = "toxicity"
    BY <1>3 DEF JudgeToxicity, Refuse
  <2> QED BY <1>1, <1>2, <2>1, JudgingStays DEF IInv, ReplyJudged
<1>4. CASE ~(policy.toxicity /\ Mentions(Judged, Toxic))
  <2>1. stage' = "done" /\ verdict' = "ok"
    BY <1>4 DEF JudgeToxicity
  <2>2. Judged' = Judged /\ ~InvalidReply'
    BY <1>1, <1>2, <2>1, JudgingStays
  <2>3. (~(policy.toxicity /\ Mentions(Judged, Toxic)))'
    BY <1>2, <1>4, <2>2 DEF Mentions
  <2> QED BY <1>1, <1>2, <2>1, <2>2, <2>3, JudgingStays DEF IInv, ReplyJudged
<1> QED BY <1>3, <1>4

LEMMA NextKeeps == IInv /\ [Next]_vars => IInv'
<1> SUFFICES ASSUME IInv, [Next]_vars PROVE IInv'
  OBVIOUS
<1>1. CASE Next
  BY <1>1, InjectionKeeps, TopicsKeep, MessagesKeep, SystemKeeps, AnswerKeeps,
     ReinjectKeeps, ValidateKeeps, ToxicityKeeps DEF Next
<1>2. CASE UNCHANGED vars
  <2>1. UNCHANGED <<policy, conversation, stage, working, system, vault, reply, verdict>>
    BY <1>2 DEF vars, given
  <2>2. Typed'
    BY <2>1 DEF IInv, Typed
  <2>3. OnItsWay'
    <3>1. Forwarded' <=> Forwarded
      BY <2>1 DEF Forwarded
    <3>2. stage = "system" => HalfProtected'
      <4> SUFFICES ASSUME stage = "system" PROVE HalfProtected'
        OBVIOUS
      <4>1. HalfProtected
        BY DEF IInv, OnItsWay
      <4>2. /\ Cleaned(conversation.messages)' = Cleaned(conversation.messages)
            /\ (Tokenized(TextsOf(conversation.messages)))' = Tokenized(TextsOf(conversation.messages))
            /\ (NoPIIBlocked(TextsOf(conversation.messages)))'
                  <=> NoPIIBlocked(TextsOf(conversation.messages))
        BY <2>1 DEF Cleaned, Sanitized, Masked, Tokenized, NoPIIBlocked, TextsOf
      <4> QED BY <2>1, <4>1, <4>2 DEF HalfProtected
    <3> QED BY <2>1, <3>1, <3>2, ProtectedStays DEF IInv, OnItsWay, Untouched
  <2>4. Reasoned'
    BY <2>1 DEF IInv, Reasoned, Injected, OffTopic, TextsOf
  <2>5. ReplyJudged'
    BY <2>1 DEF IInv, ReplyJudged, InvalidReply, Invalid, Judged, Mentions, Restored
  <2> QED BY <2>2, <2>3, <2>4, <2>5 DEF IInv
<1> QED BY <1>1, <1>2

LEMMA IInvHolds == Spec => []IInv
BY InitIInv, NextKeeps, PTL DEF Spec

(* The texts of a conversation and what is made of them.                   *)
LEMMA GivenTexts ==
  ASSUME conversation \in Conversations,
         NEW text \in TextsOf(conversation.messages) \cup {conversation.system}
  PROVE  text \in GivenText
<1>1. /\ conversation.messages \in Seq([role : STRING, text : GivenText])
      /\ conversation.system \in GivenText
  BY ConversationsAssumption
<1>2. CASE text \in TextsOf(conversation.messages)
  <2>1. PICK i \in DOMAIN conversation.messages : text = conversation.messages[i].text
    BY <1>2 DEF TextsOf
  <2>2. conversation.messages[i] \in [role : STRING, text : GivenText]
    BY <1>1, <2>1, LenProperties, ElementOfSeq
  <2> QED BY <2>1, <2>2
<1>3. CASE text = conversation.system
  BY <1>1, <1>3
<1> QED BY <1>2, <1>3

LEMMA CleanedTexts ==
  ASSUME conversation \in Conversations,
         NEW text \in TextsOf(Cleaned(conversation.messages))
  PROVE  \E source \in TextsOf(conversation.messages) : text = Sanitized(source)
<1>1. conversation.messages \in Seq([role : STRING, text : GivenText])
  BY ConversationsAssumption
<1>2. DOMAIN Cleaned(conversation.messages) = DOMAIN conversation.messages
  BY DEF Cleaned
<1>3. PICK i \in DOMAIN conversation.messages : text = Cleaned(conversation.messages)[i].text
  BY <1>2 DEF TextsOf
<1>4. conversation.messages[i] \in [role : STRING, text : GivenText]
  BY <1>1, <1>3, LenProperties, ElementOfSeq
<1>5. text = Sanitized(conversation.messages[i].text)
  BY <1>3, <1>4 DEF Cleaned
<1>6. conversation.messages[i].text \in TextsOf(conversation.messages)
  BY <1>3 DEF TextsOf
<1> QED BY <1>5, <1>6

LEMMA SanitizedWords ==
  ASSUME NEW text \in GivenText
  PROVE  /\ Sanitized(text).words =
               [i \in DOMAIN text.words |->
                   IF IsPII(text.words[i]) THEN Masked(text.words[i]) ELSE text.words[i]]
         /\ DOMAIN Sanitized(text).words = DOMAIN text.words
         /\ \A i \in DOMAIN text.words :
               text.words[i].kind \in {"plain", "pii"} /\ text.words[i].name \in STRING
<1>1. text.words \in Seq([kind : {"plain", "pii"}, name : STRING])
  BY DEF GivenText
<1>2. \A i \in DOMAIN text.words : text.words[i] \in [kind : {"plain", "pii"}, name : STRING]
  BY <1>1, LenProperties, ElementOfSeq
<1>3. Sanitized(text).words =
         [i \in DOMAIN text.words |->
             IF IsPII(text.words[i]) THEN Masked(text.words[i]) ELSE text.words[i]]
  BY DEF Sanitized, GivenText
<1> QED BY <1>2, <1>3

LEMMA NothingToSanitize ==
  ASSUME NEW text \in GivenText, ~HasPII(text)
  PROVE  Sanitized(text) = text
<1>1. PICK w : w = text.words
  OBVIOUS
<1>2. [i \in DOMAIN w |-> IF IsPII(w[i]) THEN Masked(w[i]) ELSE w[i]] = w
  <2>1. w \in Seq([kind : {"plain", "pii"}, name : STRING])
    BY <1>1 DEF GivenText
  <2>2. \A i \in DOMAIN w : ~IsPII(w[i])
    BY <1>1 DEF HasPII
  <2>3. w = [i \in DOMAIN w |-> w[i]]
    BY <2>1
  <2>4. [i \in DOMAIN w |-> IF IsPII(w[i]) THEN Masked(w[i]) ELSE w[i]] = [i \in DOMAIN w |-> w[i]]
    BY <2>2
  <2> QED BY <2>3, <2>4
<1>3. Sanitized(text) = [text EXCEPT !.words = w]
  BY <1>1, <1>2 DEF Sanitized
<1> QED BY <1>1, <1>3 DEF GivenText

(***************************************************************************)
(* With the PII guardrail on, nothing personal of any message or of the    *)
(* system prompt goes upstream, whatever a conversation holds, and every   *)
(* token that went can be brought back (run_input, PIIGuardrail.check).    *)
(***************************************************************************)
THEOREM NothingRawLeaves == Spec => []NothingRawUpstream
<1>1. IInv => NothingRawUpstream
  <2> SUFFICES ASSUME IInv, Forwarded, policy.pii # "off",
                      NEW text \in TextsOf(working) \cup {system}
               PROVE  /\ ~HasPII(text)
                      /\ \A i \in DOMAIN text.words :
                            text.words[i].kind = "token" => text.words[i].name \in vault
    BY DEF NothingRawUpstream
  <2> DEFINE sources == TextsOf(conversation.messages) \cup {conversation.system}
  <2>1. /\ NoPIIBlocked(sources) /\ working = Cleaned(conversation.messages)
        /\ system = Sanitized(conversation.system) /\ vault = Tokenized(sources)
        /\ conversation \in Conversations /\ policy \in Policies
    BY DEF IInv, OnItsWay, Protected, Typed
  <2>2. PICK source \in sources : text = Sanitized(source)
    BY <2>1, CleanedTexts
  <2>3. source \in GivenText
    BY <2>1, GivenTexts
  <2>4. /\ text.words = [i \in DOMAIN source.words |->
                           IF IsPII(source.words[i]) THEN Masked(source.words[i])
                           ELSE source.words[i]]
        /\ DOMAIN text.words = DOMAIN source.words
        /\ \A i \in DOMAIN source.words : source.words[i].kind \in {"plain", "pii"}
    BY <2>2, <2>3, SanitizedWords
  <2>5. policy.pii \in {"redact", "tokenize", "block"}
    BY <2>1, PoliciesAssumption DEF Action
  <2>6. policy.pii = "block" => \A i \in DOMAIN source.words : ~IsPII(source.words[i])
    BY <2>1 DEF NoPIIBlocked, HasPII
  <2>7. ASSUME NEW i \in DOMAIN text.words
        PROVE  /\ text.words[i].kind # "pii"
               /\ text.words[i].kind = "token" => text.words[i].name \in vault
    <3>1. CASE ~IsPII(source.words[i])
      BY <2>4, <2>7, <3>1 DEF IsPII
    <3>2. CASE IsPII(source.words[i])
      <4>1. text.words[i] = Masked(source.words[i]) /\ policy.pii \in {"redact", "tokenize"}
        BY <2>4, <2>5, <2>6, <2>7, <3>2
      <4>2. CASE policy.pii = "redact"
        BY <4>1, <4>2 DEF Masked
      <4>3. CASE policy.pii = "tokenize"
        <5>1. text.words[i].kind = "token" /\ text.words[i].name = source.words[i].name
          BY <4>1, <4>3 DEF Masked
        <5>2. source.words[i].name \in PIIOf(source)
          BY <2>4, <2>7, <3>2 DEF PIIOf
        <5>3. source.words[i].name \in vault
          BY <2>1, <2>2, <4>3, <5>2 DEF Tokenized
        <5> QED BY <5>1, <5>3
      <4> QED BY <4>1, <4>2, <4>3
    <3> QED BY <3>1, <3>2
  <2> QED BY <2>7 DEF HasPII, IsPII
<1> QED BY <1>1, IInvHolds, PTL

(***************************************************************************)
(* The playground's test of a message, which runs every guardrail, says    *)
(* what the proxy, which stops at the first to object, does with it: it    *)
(* refuses it, or forwards it as shown (main.py 292-366).                  *)
(***************************************************************************)
THEOREM TestForetells == Spec => []PlaygroundForetells
<1>1. IInv => PlaygroundForetells
  <2> DEFINE text == conversation.messages[1].text
             message == <<[role |-> "user", text |-> text]>>
             test == PlaygroundTest(text)
  <2> SUFFICES ASSUME IInv, Len(conversation.messages) = 1,
                      conversation.messages[1].role = "user",
                      conversation.system.words = <<>>
               PROVE  /\ verdict \in InputRefusals => test.overall = "blocked"
                      /\ Forwarded => /\ test.overall = IF working[1].text = text
                                                        THEN "passed" ELSE "redacted"
                                      /\ working[1].text = test.sanitized
    BY DEF PlaygroundForetells
  <2>1. /\ conversation \in Conversations /\ policy \in Policies
        /\ conversation.messages \in Seq([role : STRING, text : GivenText])
    BY ConversationsAssumption DEF IInv, Typed
  <2>2. /\ DOMAIN conversation.messages = {1} /\ DOMAIN message = {1}
        /\ message[1].role = "user" /\ message[1].text = text
    BY <2>1, LenProperties
  <2>3. conversation.messages[1] \in [role : STRING, text : GivenText] /\ text \in GivenText
    <3>1. 1 \in 1..Len(conversation.messages)
      OBVIOUS
    <3>2. conversation.messages[1] \in [role : STRING, text : GivenText]
      BY <2>1, <3>1, ElementOfSeq
    <3> QED BY <3>2
  <2> HIDE DEF message
  <2>4. Injected(message) <=> Injected(conversation.messages)
    BY <2>2 DEF Injected
  <2>5. OffTopic(message) <=> OffTopic(conversation.messages)
    <3>1. [i \in DOMAIN message |-> message[i].text.words]
             = [i \in DOMAIN conversation.messages |-> conversation.messages[i].text.words]
      BY <2>2
    <3> QED BY <3>1 DEF OffTopic
  <2>6. /\ TextsOf(conversation.messages) = {text}
        /\ ~HasPII(conversation.system)
    <3>1. TextsOf(conversation.messages) = {text}
      BY <2>2 DEF TextsOf
    <3>2. ~HasPII(conversation.system)
      BY DEF HasPII
    <3> QED BY <3>1, <3>2
  <2> DEFINE refused == \/ policy.injection /\ Injected(message)
                        \/ OffTopic(message)
                        \/ policy.pii = "block" /\ HasPII(text)
             sanitized == IF policy.pii \in {"redact", "tokenize"} THEN Sanitized(text) ELSE text
  <2>7. /\ test.overall = IF refused THEN "blocked"
                          ELSE IF sanitized # text THEN "redacted" ELSE "passed"
        /\ test.sanitized = sanitized
    BY DEF PlaygroundTest, message
  <2> HIDE DEF test
  <2>8. ASSUME verdict \in InputRefusals PROVE refused
    <3>1. stage \notin {"injection", "topic"} \/ stage \in {"injection", "topic"}
      OBVIOUS
    <3>2. stage = "done"
      BY <2>8 DEF IInv, Typed, InputRefusals
    <3>3. CASE verdict = "prompt_injection"
      BY <2>4, <3>2, <3>3 DEF IInv, Reasoned
    <3>4. CASE verdict = "topic_filter"
      BY <2>5, <3>2, <3>4 DEF IInv, Reasoned
    <3>5. CASE verdict = "pii"
      BY <2>6, <3>5 DEF IInv, Reasoned
    <3> QED BY <2>8, <3>3, <3>4, <3>5 DEF InputRefusals
  <2>9. ASSUME Forwarded PROVE ~refused /\ working[1].text = sanitized
    <3>1. Protected
      BY <2>9 DEF IInv, OnItsWay
    <3>2. /\ stage \notin {"injection", "topic"}
          /\ verdict \notin {"prompt_injection", "topic_filter"}
      BY <2>9 DEF IInv, Typed, Forwarded, InputRefusals
    <3>3. ~(policy.injection /\ Injected(message)) /\ ~OffTopic(message)
      BY <2>4, <2>5, <3>2 DEF IInv, Reasoned
    <3>4. CASE policy.pii = "off"
      BY <3>1, <3>3, <3>4 DEF Protected, Untouched
    <3>5. CASE policy.pii # "off"
      <4>1. policy.pii = "block" => ~HasPII(text)
        BY <2>6, <3>1, <3>5 DEF Protected, NoPIIBlocked
      <4>2. working[1].text = Sanitized(text)
        BY <2>2, <2>3, <3>1, <3>5 DEF Protected, Cleaned
      <4>3. policy.pii \in {"redact", "tokenize", "block"}
        BY <2>1, <3>5, PoliciesAssumption DEF Action
      <4>4. policy.pii = "block" => Sanitized(text) = text
        BY <2>3, <4>1, NothingToSanitize
      <4> QED BY <3>3, <4>1, <4>2, <4>3, <4>4
    <3> QED BY <3>4, <3>5
  <2> HIDE DEF refused, sanitized
  <2> QED BY <2>7, <2>8, <2>9
<1> QED BY <1>1, IInvHolds, PTL

(***************************************************************************)
(* What a client gets was whole when it was judged, of any answer of the   *)
(* upstream: every text is restored and within the policy's length with    *)
(* the values in it, the choices one by one and the blocks together are of *)
(* the schema, and none that the check looks at has what the word list     *)
(* objects to (run_output_*, OutputValidator, ToxicityChecker).            *)
(***************************************************************************)
THEOREM PassedIsJudged == Spec => []PassedReplyWasJudged
<1>1. IInv => PassedReplyWasJudged
  <2> SUFFICES ASSUME IInv, verdict = "ok" PROVE PassedReplyWasJudged
    BY DEF PassedReplyWasJudged
  <2>1. /\ \A i \in DOMAIN reply : reply[i] = Restored(reply[i])
        /\ ~InvalidReply /\ ~(policy.toxicity /\ Mentions(Judged, Toxic))
        /\ reply \in Seq(Seq(Word)) /\ policy \in Policies
    BY DEF IInv, Typed, ReplyJudged
  <2>2. PICK n \in Nat : n = Len(reply) /\ DOMAIN reply = 1..n
    <3>1. Len(reply) \in Nat /\ DOMAIN reply = 1..Len(reply)
      BY <2>1, LenProperties
    <3> QED BY <3>1
  <2>3. \A i \in DOMAIN reply : reply[i] \in Seq(Word)
    BY <2>1, <2>2, ElementOfSeq
  <2>4. \A i \in DOMAIN reply : \E k \in Nat : Within(reply[i], Joined(reply), k)
    BY <2>1, PieceInside DEF Joined
  <2>5. Joined(reply) \in Seq(Word) \/ DOMAIN reply = {}
    BY <2>1, PieceInside DEF Joined
  <2>6. ASSUME policy.maxLength # 0, NEW i \in DOMAIN reply
        PROVE  Length(reply[i]) <= policy.maxLength
    <3>1. policy.maxLength \in Nat
      BY <2>1, PoliciesAssumption
    <3>2. Joined(reply) \in Seq(Word) /\ reply[i] \in Seq(Word)
      BY <2>3, <2>5
    <3>3. PICK k \in Nat : Within(reply[i], Joined(reply), k)
      BY <2>4
    <3>4. /\ Length(reply[i]) \in Nat /\ Length(Joined(reply)) \in Nat
          /\ Length(reply[i]) <= Length(Joined(reply))
      BY <3>2, <3>3, LengthInside
    <3>5. CASE conversation.api = "openai"
      <4>1. ~(Length(reply[i]) + (1 - 1) > policy.maxLength)
        BY <2>1, <2>6, <3>5 DEF InvalidReply, Invalid
      <4> QED BY <3>1, <3>4, <4>1
    <3>6. CASE conversation.api # "openai"
      <4>1. PICK m : m = Max({Len(reply), 1})
        OBVIOUS
      <4>2. m \in Nat /\ m >= 1
        <5>1. \E x \in {n, 1} : \A y \in {n, 1} : x >= y
          OBVIOUS
        <5>2. m \in {n, 1} /\ \A y \in {n, 1} : m >= y
          BY <2>2, <4>1, <5>1 DEF Max
        <5> QED BY <5>2
      <4>3. ~(Length(Joined(reply)) + (m - 1) > policy.maxLength)
        BY <2>1, <2>6, <3>6, <4>1 DEF InvalidReply, Invalid
      <4> QED BY <3>1, <3>4, <4>2, <4>3
    <3> QED BY <3>5, <3>6
  <2>7. ASSUME policy.toxicity, conversation.api # "openai", NEW i \in DOMAIN reply
        PROVE  ~Mentions(reply[i], Toxic)
    <3>1. ~Mentions(Joined(reply), Toxic)
      BY <2>1, <2>7 DEF Judged
    <3>2. Joined(reply) \in Seq(Word) /\ reply[i] \in Seq(Word) /\ Toxic \in Seq(Word)
      BY <2>3, <2>5, RepliesAssumption
    <3>3. PICK k \in Nat : Within(reply[i], Joined(reply), k)
      BY <2>4
    <3> QED BY <3>1, <3>2, <3>3, MentionedInside
  <2>8. ASSUME policy.toxicity, reply # <<>> PROVE ~Mentions(reply[1], Toxic)
    <3>1. CASE conversation.api = "openai"
      BY <2>1, <2>8, <3>1 DEF Judged
    <3>2. CASE conversation.api # "openai"
      <4>1. 1 \in DOMAIN reply
        BY <2>1, <2>2, <2>8, EmptySeq
      <4> QED BY <2>7, <2>8, <3>2, <4>1
    <3> QED BY <3>1, <3>2
  <2>9. ASSUME policy.maxLength # 0, conversation.api # "openai"
        PROVE  Length(Joined(reply)) + Len(reply) - 1 <= policy.maxLength
    <3>1. policy.maxLength \in Nat
      BY <2>1, PoliciesAssumption
    <3>2. PICK m : m = Max({Len(reply), 1})
      OBVIOUS
    <3>3. m \in Nat /\ m >= n
      <4>1. \E x \in {n, 1} : \A y \in {n, 1} : x >= y
        OBVIOUS
      <4>2. m \in {n, 1} /\ \A y \in {n, 1} : m >= y
        BY <2>2, <3>2, <4>1 DEF Max
      <4> QED BY <4>2
    <3>4. ~(Length(Joined(reply)) + (m - 1) > policy.maxLength)
      BY <2>1, <2>9, <3>2 DEF InvalidReply, Invalid
    <3>5. Length(Joined(reply)) \in Nat
      <4>1. PICK s : s = Joined(reply)
        OBVIOUS
      <4>2. s \in Seq(Word)
        <5>1. CASE DOMAIN reply = {}
          <6>1. reply = <<>>
            BY <2>1, <2>2, <5>1, EmptySeq
          <6>2. Joined(reply) = <<>>
            BY <6>1 DEF Joined, FlattenSeq
          <6> QED BY <4>1, <6>2, EmptySeq
        <5>2. CASE DOMAIN reply # {}
          BY <2>5, <4>1, <5>2
        <5> QED BY <5>1, <5>2
      <4>3. Len(s) \in Nat /\ \A i \in 1..Len(s) : 0 + i = i
        BY <4>2, LenProperties
      <4>4. Within(s, s, 0)
        BY <4>3 DEF Within
      <4> QED BY <4>1, <4>2, <4>4, LengthInside
    <3> QED BY <2>2, <3>1, <3>3, <3>4, <3>5
  <2>10. ASSUME policy.schema
         PROVE  IF conversation.api = "openai"
                THEN \A i \in DOMAIN reply : Conforms(reply[i])
                ELSE Conforms(Joined(reply))
    BY <2>1, <2>10 DEF InvalidReply, Invalid
  <2>11. ASSUME policy.toxicity, conversation.api # "openai"
         PROVE  ~Mentions(Joined(reply), Toxic)
    BY <2>1, <2>11 DEF Judged
  <2> QED BY <2>1, <2>6, <2>7, <2>8, <2>9, <2>10, <2>11 DEF PassedReplyWasJudged
<1> QED BY <1>1, IInvHolds, PTL

(***************************************************************************)
(* Up to the default threshold a conversation is refused as an injection   *)
(* exactly when a message of a user is as suspicious as the comments of    *)
(* _analyze have it, whatever the patterns, their categories and weights:  *)
(* the fold's double count never tips the balance.                         *)
(***************************************************************************)
THEOREM InjectionIsAsDocumented == Spec => []InjectionAsDocumented
<1>1. IInv => InjectionAsDocumented
  <2> SUFFICES ASSUME IInv, stage # "injection", policy.injection, policy.threshold <= Block
               PROVE  verdict = "prompt_injection" <=>
                        \E i \in DOMAIN conversation.messages :
                            /\ conversation.messages[i].role = "user"
                            /\ Suspicious(conversation.messages[i].text.profile, policy.threshold)
    BY DEF InjectionAsDocumented
  <2>1. policy.threshold \in Int
    BY PoliciesAssumption DEF IInv, Typed
  <2>2. \A i \in DOMAIN conversation.messages : conversation.messages[i].text.profile \in Profile
    <3>1. conversation \in Conversations
      BY DEF IInv, Typed
    <3>2. \A i \in DOMAIN conversation.messages :
              conversation.messages[i].text \in TextsOf(conversation.messages)
      BY DEF TextsOf
    <3> QED BY <3>1, <3>2, GivenTexts DEF GivenText
  <2>3. \A i \in DOMAIN conversation.messages :
            Flagged(conversation.messages[i].text.profile, policy.threshold)
              <=> Suspicious(conversation.messages[i].text.profile, policy.threshold)
    BY <2>1, <2>2, ScoreAsDocumented
  <2>4. verdict = "prompt_injection" <=> Injected(conversation.messages)
    BY DEF IInv, Reasoned
  <2> QED BY <2>3, <2>4 DEF Injected
<1> QED BY <1>1, IInvHolds, PTL
===============================================================================
