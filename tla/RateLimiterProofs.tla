-------------------------- MODULE RateLimiterProofs --------------------------
(***************************************************************************)
(* Proofs about RateLimiter, for every set of tenants, window lengths,     *)
(* configurations and clock bound.                                         *)
(***************************************************************************)
EXTENDS RateLimiter, TLAPS, SequenceTheorems, FiniteSetTheorems,
        WellFoundedInduction

(* A set of naturals that is not empty has a least element. *)
LEMMA LeastNatural ==
  ASSUME NEW T, T \subseteq Nat, T # {}
  PROVE  \E m \in T : \A n \in T : m <= n
<1>1. \E x \in T : \A y \in T : <<y, x>> \notin OpToRel(<, Nat)
  BY NatLessThanWellFounded, WFMin
<1>2. PICK x \in T : \A y \in T : <<y, x>> \notin OpToRel(<, Nat)
  BY <1>1
<1>3. \A y \in T : ~(y < x)
  BY <1>2 DEF OpToRel
<1> QED
  BY <1>3

(* Evicting pops a leading part of the deque: all of it is older than the  *)
(* cutoff, and the entry after it is not.                                  *)
LEMMA EvictedPops ==
  ASSUME NEW s \in Seq(Int), NEW c \in Int
  PROVE  \E k \in 0..Len(s) :
            /\ Evicted(s, c) = SubSeq(s, k + 1, Len(s))
            /\ \A i \in 1..k : s[i] < c
            /\ k < Len(s) => s[k + 1] >= c
<1> DEFINE T == {n \in 0..Len(s) : n < Len(s) => s[n + 1] >= c}
<1>1. T \subseteq Nat /\ Len(s) \in T
  BY LenProperties
<1>2. PICK m \in T : \A n \in T : m <= n
  BY <1>1, LeastNatural
<1>3. \A i \in 1..m : s[i] < c
  <2> SUFFICES ASSUME NEW i \in 1..m PROVE s[i] < c
    OBVIOUS
  <2>1. /\ m \in Nat /\ i \in Nat
        /\ i - 1 \in 0..Len(s)
        /\ ~(m <= i - 1)
    BY <1>2, LenProperties
  <2>2. i - 1 \notin T
    <3> HIDE DEF T
    <3> QED
      BY <1>2, <2>1
  <2>3. s[(i - 1) + 1] \in Int /\ ~(s[(i - 1) + 1] >= c)
    BY <2>1, <2>2, <1>2, LenProperties, ElementOfSeq
  <2> QED
    BY <2>3
<1> DEFINE Good(n) == /\ \A i \in 1..n : s[i] < c
                      /\ n < Len(s) => s[n + 1] >= c
           k == CHOOSE n \in 0..Len(s) : Good(n)
<1>4. k \in 0..Len(s) /\ Good(k)
  BY <1>2, <1>3
<1>5. Evicted(s, c) = SubSeq(s, k + 1, Len(s))
  BY DEF Evicted
<1> QED
  BY <1>4, <1>5

-----------------------------------------------------------------------------

(* Popping the leading entries below c from the end part q of an ordered   *)
(* sequence h, none of whose earlier entries reaches c, leaves exactly the *)
(* entries of h that reach c.                                              *)
LEMMA EvictedIsRecent ==
  ASSUME NEW h \in Seq(Int), NEW q \in Seq(Int), NEW c \in Int,
         NEW n0 \in Int, Trails(q, h, c), Ascending(h, n0)
  PROVE  \E d \in 0..Len(h) :
            /\ Evicted(q, c) \in Seq(Int)
            /\ Len(Evicted(q, c)) = Len(h) - d
            /\ Len(Evicted(q, c)) <= Len(q)
            /\ \A i \in 1..Len(Evicted(q, c)) : Evicted(q, c)[i] = h[i + d]
            /\ \A i \in 1..d : h[i] < c
            /\ \A i \in (d + 1)..Len(h) : h[i] >= c
<1>1. PICK k \in 0..Len(q) :
         /\ Evicted(q, c) = SubSeq(q, k + 1, Len(q))
         /\ \A i \in 1..k : q[i] < c
         /\ k < Len(q) => q[k + 1] >= c
  BY EvictedPops
<1>2. PICK n \in Nat : n = Len(h)
  BY LenProperties
<1>3. PICK m \in Nat : m = Len(q)
  BY LenProperties
<1>4. PICK e \in Nat : e + m = n
  <2>1. n - m \in Nat /\ (n - m) + m = n
    BY <1>2, <1>3 DEF Trails
  <2> QED
    BY <2>1
<1>5. /\ \A i \in 1..m : q[i] = h[i + e]
      /\ \A i \in 1..e : h[i] < c
      /\ \A i \in 1..n, j \in 1..n : i <= j => h[i] <= h[j]
  <2>1. Len(h) - Len(q) = e
    <3>1. n - m = e
      BY <1>4
    <3> QED
      BY <3>1, <1>2, <1>3
  <2> QED
    BY <2>1, <1>2, <1>3 DEF Trails, Ascending
<1>6. k \in Nat /\ k <= m
  BY <1>1, <1>3
<1>7. PICK d \in Nat : d = e + k
  BY <1>4, <1>6
<1>8. PICK s \in Seq(Int) : s = Evicted(q, c)
  <2>1. SubSeq(q, k + 1, Len(q)) \in Seq(Int)
    BY <1>3, <1>6, SubSeqProperties
  <2> QED
    BY <2>1, <1>1
<1>9. Len(s) = n - d /\ Len(s) <= m /\ \A i \in 1..Len(s) : s[i] = q[i + k]
  <2>1. /\ Len(s) = m - k
        /\ \A i \in 1..(m - k) : s[i] = q[k + 1 + i - 1]
    BY <1>1, <1>3, <1>6, <1>8, SubSeqProperties
  <2> QED
    BY <2>1, <1>4, <1>6, <1>7
<1>10. \A i \in 1..Len(s) : s[i] = h[i + d]
  <2> TAKE i \in 1..Len(s)
  <2>1. i + k \in 1..m /\ (i + k) + e = i + d
    BY <1>9, <1>4, <1>6, <1>7
  <2>2. q[i + k] = h[(i + k) + e]
    BY <2>1, <1>5
  <2> QED
    BY <2>1, <2>2, <1>9
<1>11. \A i \in 1..d : h[i] < c
  <2> TAKE i \in 1..d
  <2>1. CASE i <= e
    BY <2>1, <1>5
  <2>2. CASE ~(i <= e)
    <3>1. i - e \in 1..k /\ i - e \in 1..m /\ (i - e) + e = i
      BY <2>2, <1>4, <1>6, <1>7
    <3>2. q[i - e] < c
      BY <3>1, <1>1
    <3>3. q[i - e] = h[(i - e) + e]
      BY <3>1, <1>5
    <3> QED
      BY <3>1, <3>2, <3>3
  <2> QED
    BY <2>1, <2>2
<1>12. \A i \in (d + 1)..n : h[i] >= c
  <2> TAKE i \in (d + 1)..n
  <2>1. /\ d + 1 \in 1..n /\ i \in 1..n /\ d + 1 <= i
        /\ k + 1 \in 1..m /\ (k + 1) + e = d + 1 /\ k < m
    BY <1>4, <1>6, <1>7
  <2>2. h[d + 1] <= h[i]
    BY <2>1, <1>5
  <2>3. q[k + 1] = h[(k + 1) + e]
    BY <2>1, <1>5
  <2>4. q[k + 1] >= c
    BY <2>1, <1>1, <1>3
  <2>5. h[d + 1] \in Int /\ h[i] \in Int
    BY <2>1, <1>2, ElementOfSeq
  <2>6. h[d + 1] >= c
    BY <2>1, <2>3, <2>4
  <2> QED
    BY <2>2, <2>5, <2>6
<1>13. d \in 0..n
  BY <1>4, <1>6, <1>7
<1> QED
  BY <1>2, <1>3, <1>8, <1>9, <1>10, <1>11, <1>12, <1>13

(* The deque keeps trailing the history when it is swept, ... *)
LEMMA TrailsSwept ==
  ASSUME NEW h \in Seq(Int), NEW q \in Seq(Int), NEW c \in Int,
         NEW n \in Int, Trails(q, h, c), Ascending(h, n)
  PROVE  Evicted(q, c) \in Seq(Int) /\ Trails(Evicted(q, c), h, c)
<1>1. PICK d \in 0..Len(h) :
         /\ Evicted(q, c) \in Seq(Int)
         /\ Len(Evicted(q, c)) = Len(h) - d
         /\ \A i \in 1..Len(Evicted(q, c)) : Evicted(q, c)[i] = h[i + d]
         /\ \A i \in 1..d : h[i] < c
  BY EvictedIsRecent
<1>2. PICK s \in Seq(Int) : s = Evicted(q, c)
  BY <1>1
<1>3. Len(h) \in Nat /\ Len(h) - Len(s) = d /\ Len(s) <= Len(h)
  BY <1>1, <1>2, LenProperties
<1> QED
  BY <1>1, <1>2, <1>3 DEF Trails

(* ... when a request is recorded in both, ... *)
LEMMA TrailsAppend ==
  ASSUME NEW h \in Seq(Int), NEW q \in Seq(Int), NEW c \in Int,
         NEW n \in Int, Trails(q, h, c)
  PROVE  Trails(Append(q, n), Append(h, n), c)
<1>1. PICK l \in Nat : l = Len(h)
  BY LenProperties
<1>2. PICK m \in Nat : m = Len(q)
  BY LenProperties
<1>3. PICK e \in Nat : e = l - m
  BY <1>1, <1>2 DEF Trails
<1>4. PICK hh \in Seq(Int) :
         /\ hh = Append(h, n)
         /\ Len(hh) = l + 1
         /\ \A i \in 1..l : hh[i] = h[i]
         /\ hh[l + 1] = n
  BY <1>1, AppendProperties
<1>5. PICK qq \in Seq(Int) :
         /\ qq = Append(q, n)
         /\ Len(qq) = m + 1
         /\ \A i \in 1..m : qq[i] = q[i]
         /\ qq[m + 1] = n
  BY <1>2, AppendProperties
<1>6. /\ m <= l
      /\ \A i \in 1..m : q[i] = h[i + e]
      /\ \A i \in 1..e : h[i] < c
  BY <1>1, <1>2, <1>3 DEF Trails
<1>7. \A i \in 1..(m + 1) : qq[i] = hh[i + e]
  <2> TAKE i \in 1..(m + 1)
  <2>1. CASE i \in 1..m
    <3>1. i + e \in 1..l
      BY <2>1, <1>3, <1>6
    <3> QED
      BY <2>1, <3>1, <1>4, <1>5, <1>6
  <2>2. CASE i = m + 1
    <3>1. i + e = l + 1
      BY <2>2, <1>3
    <3> QED
      BY <2>2, <3>1, <1>4, <1>5
  <2> QED
    BY <2>1, <2>2
<1>8. \A i \in 1..e : hh[i] < c
  <2> TAKE i \in 1..e
  <2>1. i \in 1..l
    BY <1>3, <1>6
  <2> QED
    BY <2>1, <1>4, <1>6
<1>9. Len(hh) - Len(qq) = e /\ Len(qq) <= Len(hh)
  BY <1>3, <1>4, <1>5, <1>6
<1>10. Trails(qq, hh, c)
  BY <1>5, <1>7, <1>8, <1>9 DEF Trails
<1> QED
  BY <1>4, <1>5, <1>10

(* ... and when time passes. *)
LEMMA TrailsLater ==
  ASSUME NEW h \in Seq(Int), NEW q \in Seq(Int), NEW c \in Int,
         NEW e \in Int, c <= e, Trails(q, h, c)
  PROVE  Trails(q, h, e)
<1>1. PICK d \in Nat : d = Len(h) - Len(q)
  <2>1. Len(h) \in Nat /\ Len(q) \in Nat
    BY LenProperties
  <2>2. Len(h) >= Len(q)
    BY DEF Trails
  <2>3. Len(h) - Len(q) \in Nat
    BY <2>1, <2>2
  <2> QED BY <2>3
<1>2. \A i \in 1..d : h[i] \in Int /\ h[i] < c
  BY <1>1, LenProperties, ElementOfSeq DEF Trails
<1>3. \A i \in 1..d : h[i] < e
  BY <1>2
<1> QED
  BY <1>1, <1>3 DEF Trails

(* The history stays in order when a request is recorded now ... *)
LEMMA AscendingAppend ==
  ASSUME NEW h \in Seq(Int), NEW n \in Int, Ascending(h, n)
  PROVE  Ascending(Append(h, n), n)
<1>1. PICK l \in Nat : l = Len(h)
  BY LenProperties
<1>2. PICK hh \in Seq(Int) :
         /\ hh = Append(h, n)
         /\ Len(hh) = l + 1
         /\ \A i \in 1..l : hh[i] = h[i]
         /\ hh[l + 1] = n
  BY <1>1, AppendProperties
<1>3. /\ \A i \in 1..l : h[i] <= n
      /\ \A i \in 1..l, j \in 1..l : i <= j => h[i] <= h[j]
  BY <1>1 DEF Ascending
<1>4. \A i \in 1..(l + 1) : hh[i] <= n
  BY <1>2, <1>3
<1>5. \A i \in 1..(l + 1), j \in 1..(l + 1) : i <= j => hh[i] <= hh[j]
  <2> SUFFICES ASSUME NEW i \in 1..(l + 1), NEW j \in 1..(l + 1), i <= j
               PROVE  hh[i] <= hh[j]
    OBVIOUS
  <2>1. CASE j = l + 1
    BY <2>1, <1>2, <1>4
  <2>2. CASE j \in 1..l
    <3>1. i \in 1..l
      BY <2>2
    <3> QED
      BY <2>2, <3>1, <1>2, <1>3
  <2> QED
    BY <2>1, <2>2
<1> QED
  BY <1>2, <1>4, <1>5 DEF Ascending

(* ... and when time passes. *)
LEMMA AscendingLater ==
  ASSUME NEW h \in Seq(Int), NEW n \in Int, NEW m \in Int, n <= m,
         Ascending(h, n)
  PROVE  Ascending(h, m)
<1>1. \A i \in 1..Len(h) : h[i] \in Int /\ h[i] <= n
  BY ElementOfSeq DEF Ascending
<1>2. \A i \in 1..Len(h) : h[i] <= m
  BY <1>1
<1> QED
  BY <1>2 DEF Ascending

-----------------------------------------------------------------------------

LEMMA SweptType ==
  ASSUME TypeOK, NEW t \in Tenants, NEW w \in Window
  PROVE  Swept(t, w) \in Seq(Int)
<1>1. PICK q \in Seq(Int) : q = store[t][w]
  BY DEF TypeOK
<1>2. now - Span[w] \in Int
  BY SpanAssumption, MaxTimeAssumption DEF TypeOK
<1>3. PICK k \in 0..Len(q) :
         Evicted(q, now - Span[w]) = SubSeq(q, k + 1, Len(q))
  BY <1>2, EvictedPops
<1>4. SubSeq(q, k + 1, Len(q)) \in Seq(Int)
  BY <1>3, SubSeqProperties, LenProperties, ElementOfSeq
<1> QED
  BY <1>1, <1>3, <1>4 DEF Swept

(* Every variable keeps its type (rate_limiter.py 28-72). *)
THEOREM TypeCorrect == Spec => []TypeOK
<1>1. Init => TypeOK
  BY MaxTimeAssumption DEF Init, TypeOK, NoAnswer, Answer, Window
<1>2. TypeOK /\ [Next]_vars => TypeOK'
  <2> SUFFICES ASSUME TypeOK, [Next]_vars PROVE TypeOK'
    OBVIOUS
  <2> USE MaxTimeAssumption
  <2>1. CASE Tick
    BY <2>1 DEF Tick, TypeOK
  <2>2. CASE Restart
    BY <2>2 DEF Restart, TypeOK, NoAnswer, Answer, Window
  <2>3. ASSUME NEW t \in Tenants, SetConfig(t) PROVE TypeOK'
    BY <2>3 DEF SetConfig, TypeOK, NoAnswer, Answer, Window
  <2>4. ASSUME NEW t \in Tenants, Admit(t) PROVE TypeOK'
    <3>1. \A w \in Window :
             /\ Append(Swept(t, w), now) \in Seq(Int)
             /\ Append(history[t][w], now) \in Seq(Int)
             /\ Metered(t, w) =>
                   Append(granted[t][w], config[t].limit[w]) \in Seq(Nat)
      <4> TAKE w \in Window
      <4>1. Swept(t, w) \in Seq(Int)
        BY SweptType
      <4>2. now \in Int /\ history[t][w] \in Seq(Int) /\ granted[t][w] \in Seq(Nat)
        BY DEF TypeOK
      <4>3. Metered(t, w) => config[t].limit[w] \in Nat
        BY ConfigsAssumption DEF TypeOK, Metered
      <4> QED
        BY <4>1, <4>2, <4>3, AppendProperties
    <3>2. store' \in [Tenants -> [Window -> Seq(Int)]]
      BY <2>4, <3>1 DEF Admit, TypeOK
    <3>3. history' \in [Tenants -> [Window -> Seq(Int)]]
      BY <2>4, <3>1 DEF Admit, TypeOK
    <3>4. granted' \in [Tenants -> [Window -> Seq(Nat)]]
      BY <2>4, <3>1 DEF Admit, TypeOK
    <3> QED
      BY <2>4, <3>2, <3>3, <3>4 DEF Admit, TypeOK, Allowed, Answer, Window
  <2>5. ASSUME NEW t \in Tenants, NEW w \in Window, Refuse(t, w) PROVE TypeOK'
    <3>1. store' \in [Tenants -> [Window -> Seq(Int)]]
      BY <2>5, SweptType DEF Refuse, TypeOK
    <3>2. Swept(t, w) # <<>> =>
             now + RetryAfter(Swept(t, w), w) * TicksPerSecond \in Int
      <4> SUFFICES ASSUME Swept(t, w) # <<>>
                   PROVE  now + RetryAfter(Swept(t, w), w) * TicksPerSecond \in Int
        OBVIOUS
      <4>1. Swept(t, w)[1] \in Int
        BY SweptType, LenProperties, ElementOfSeq, EmptySeq
      <4>2. now \in Int /\ Span[w] \in Int
        BY SpanAssumption DEF TypeOK
      <4>3. RetryAfter(Swept(t, w), w) \in Int
        BY <4>1, <4>2, TicksAssumption DEF RetryAfter
      <4> QED
        BY <4>2, <4>3, TicksAssumption
    <3> QED
      BY <2>5, <3>1, <3>2 DEF Refuse, TypeOK, Answer
  <2>6. CASE UNCHANGED vars
    BY <2>6 DEF vars, TypeOK
  <2> QED
    BY <2>1, <2>2, <2>3, <2>4, <2>5, <2>6 DEF Next
<1> QED
  BY <1>1, <1>2, PTL DEF Spec

(* The deques trail the history at every step, so lazy eviction never      *)
(* drops a request that still counts (_check_window 82-86).                *)
LEMMA RecentStep ==
  ASSUME TypeOK, TypeOK', StoreIsRecentHistory, [Next]_vars
  PROVE  StoreIsRecentHistory'
<1> DEFINE P(q, h, g, n, w) == /\ Trails(q, h, n - Span[w])
                               /\ Ascending(h, n)
                               /\ Len(g) = Len(h)
<1>1. \A t \in Tenants, w \in Window :
         P(store[t][w], history[t][w], granted[t][w], now, w)
  BY DEF StoreIsRecentHistory
<1>2. SUFFICES ASSUME NEW u \in Tenants, NEW v \in Window
               PROVE  P(store[u][v]', history[u][v]', granted[u][v]', now', v)
  BY DEF StoreIsRecentHistory
<1> DEFINE q == store[u][v]
           h == history[u][v]
           g == granted[u][v]
<1>3. /\ q \in Seq(Int) /\ h \in Seq(Int) /\ g \in Seq(Nat)
      /\ now \in Int /\ now' \in Int
      /\ now - Span[v] \in Int /\ now' - Span[v] \in Int
  <2>1. now \in Int /\ now' \in Int /\ Span[v] \in Int
    BY SpanAssumption, MaxTimeAssumption DEF TypeOK
  <2>2. q \in Seq(Int) /\ h \in Seq(Int) /\ g \in Seq(Nat)
    BY DEF TypeOK
  <2> QED
    BY <2>1, <2>2
<1>4. P(q, h, g, now, v)
  BY <1>1
<1> HIDE DEF q, h, g
<1>5. Trails(Evicted(q, now - Span[v]), h, now - Span[v])
  BY <1>3, <1>4, TrailsSwept
<1>6. CASE Tick
  <2>1. now <= now' /\ now - Span[v] <= now' - Span[v]
    BY <1>6, <1>3, SpanAssumption DEF Tick
  <2>2. P(q, h, g, now', v)
    BY <2>1, <1>3, <1>4, TrailsLater, AscendingLater
  <2> QED
    BY <2>2, <1>6 DEF Tick, q, h, g
<1>7. CASE Restart
  <2>1. P(<<>>, <<>>, <<>>, now, v)
    BY <1>3 DEF Trails, Ascending
  <2> QED
    BY <2>1, <1>7 DEF Restart
<1>8. ASSUME NEW t \in Tenants, SetConfig(t)
      PROVE  P(store[u][v]', history[u][v]', granted[u][v]', now', v)
  BY <1>8, <1>4 DEF SetConfig, q, h, g
<1>9. ASSUME NEW t \in Tenants, Admit(t)
      PROVE  P(store[u][v]', history[u][v]', granted[u][v]', now', v)
  <2>1. CASE u = t /\ Metered(t, v)
    <3> DEFINE s == Evicted(q, now - Span[v])
               l == config[t].limit[v]
    <3>1. /\ store[u][v]' = Append(s, now)
          /\ history[u][v]' = Append(h, now)
          /\ granted[u][v]' = Append(g, l)
          /\ now' = now
      BY <1>9, <2>1 DEF Admit, Swept, TypeOK, q, h, g
    <3>2. l \in Nat
      BY <2>1, ConfigsAssumption DEF Metered, TypeOK
    <3>3. s \in Seq(Int)
      BY <1>3, <1>4, TrailsSwept
    <3> HIDE DEF s, l
    <3>4. Trails(Append(s, now), Append(h, now), now - Span[v])
      BY <1>3, <1>5, <3>3, TrailsAppend DEF s
    <3>5. Ascending(Append(h, now), now)
      BY <1>3, <1>4, AscendingAppend
    <3>6. Len(Append(g, l)) = Len(Append(h, now))
      BY <1>3, <1>4, <3>2, AppendProperties
    <3> QED
      BY <3>1, <3>4, <3>5, <3>6
  <2>2. CASE ~(u = t /\ Metered(t, v))
    <3>1. /\ store[u][v]' = q /\ history[u][v]' = h /\ granted[u][v]' = g
          /\ now' = now
      <4>1. CASE u # t
        BY <1>9, <4>1 DEF Admit, TypeOK, q, h, g
      <4>2. CASE u = t /\ ~Metered(t, v)
        BY <1>9, <4>2 DEF Admit, TypeOK, q, h, g
      <4> QED
        BY <2>2, <4>1, <4>2
    <3> QED
      BY <3>1, <1>4
  <2> QED
    BY <2>1, <2>2
<1>10. ASSUME NEW t \in Tenants, NEW w \in Window, Refuse(t, w)
       PROVE  P(store[u][v]', history[u][v]', granted[u][v]', now', v)
  <2>1. /\ history[u][v]' = h /\ granted[u][v]' = g /\ now' = now
        /\ store[u][v]' = q \/ store[u][v]' = Evicted(q, now - Span[v])
    BY <1>10 DEF Refuse, Swept, TypeOK, q, h, g
  <2> QED
    BY <2>1, <1>4, <1>5
<1>11. CASE UNCHANGED vars
  BY <1>11, <1>4 DEF vars, q, h, g
<1> QED
  BY <1>6, <1>7, <1>8, <1>9, <1>10, <1>11 DEF Next

(* The deques are the recent history in every reachable state.             *)
THEOREM RecentHistory == Spec => []StoreIsRecentHistory
<1>1. Init => StoreIsRecentHistory
  BY DEF Init, StoreIsRecentHistory, Trails, Ascending
<1>2. TypeOK /\ TypeOK' /\ StoreIsRecentHistory /\ [Next]_vars
         => StoreIsRecentHistory'
  BY RecentStep
<1> QED
  BY <1>1, <1>2, TypeCorrect, PTL DEF Spec

(* What a sweep leaves is what the history has in the window: d recorded   *)
(* requests are out of it, and they are the first ones.                    *)
LEMMA SweptCounts ==
  ASSUME TypeOK, StoreIsRecentHistory, NEW t \in Tenants, NEW w \in Window
  PROVE  \E d \in 0..Len(history[t][w]) :
            /\ Len(Swept(t, w)) = Len(history[t][w]) - d
            /\ \A i \in 1..d : history[t][w][i] < now - Span[w]
            /\ \A i \in (d + 1)..Len(history[t][w]) :
                   history[t][w][i] >= now - Span[w]
<1> DEFINE q == store[t][w]
           h == history[t][w]
<1>1. now \in Int /\ now - Span[w] \in Int
  BY SpanAssumption, MaxTimeAssumption DEF TypeOK
<1>2. q \in Seq(Int) /\ h \in Seq(Int)
  BY DEF TypeOK
<1>3. Trails(q, h, now - Span[w]) /\ Ascending(h, now)
  BY DEF StoreIsRecentHistory
<1> HIDE DEF q, h
<1>4. \E d \in 0..Len(h) :
         /\ Len(Evicted(q, now - Span[w])) = Len(h) - d
         /\ \A i \in 1..d : h[i] < now - Span[w]
         /\ \A i \in (d + 1)..Len(h) : h[i] >= now - Span[w]
  BY <1>1, <1>2, <1>3, EvictedIsRecent
<1> QED
  BY <1>4 DEF Swept, q, h

(* A window never holds more admissions than the limit in force at its     *)
(* last one (check 34-72).                                                 *)
LEMMA WindowLimitStep ==
  ASSUME TypeOK, TypeOK', StoreIsRecentHistory, WindowLimit, [Next]_vars
  PROVE  WindowLimit'
<1> DEFINE P(h, g, w) == \A i \in DOMAIN h : i > g[i] => h[i - g[i]] < h[i] - Span[w]
<1>1. \A t \in Tenants, w \in Window : P(history[t][w], granted[t][w], w)
  BY DEF WindowLimit
<1>2. SUFFICES ASSUME NEW u \in Tenants, NEW v \in Window
               PROVE  P(history[u][v]', granted[u][v]', v)
  BY DEF WindowLimit
<1>3. ASSUME NEW t \in Tenants, Admit(t), u = t, Metered(t, v)
      PROVE  P(history[u][v]', granted[u][v]', v)
  <2>0. /\ history[t][v] \in Seq(Int)
        /\ granted[t][v] \in Seq(Nat)
        /\ config[t].limit[v] \in Nat
    <3>1. history[t][v] \in Seq(Int) /\ granted[t][v] \in Seq(Nat)
      BY DEF TypeOK
    <3>2. config[t].limit[v] \in Nat
      BY <1>3, ConfigsAssumption DEF Metered, TypeOK
    <3> QED
      BY <3>1, <3>2
  <2>1. PICK h \in Seq(Int) : h = history[t][v]
    BY <2>0
  <2>2. PICK g \in Seq(Nat) : g = granted[t][v]
    BY <2>0
  <2>3. PICK l \in Nat : l = config[t].limit[v]
    BY <2>0
  <2>4. now \in Int /\ now - Span[v] \in Int
    BY SpanAssumption, MaxTimeAssumption DEF TypeOK
  <2>5. PICK n \in Nat : n = Len(h) /\ n = Len(g)
    BY <2>1, <2>2, LenProperties DEF StoreIsRecentHistory
  <2>6. PICK d \in 0..n :
           /\ Len(Swept(t, v)) = n - d
           /\ \A i \in 1..d : h[i] < now - Span[v]
    BY <2>1, <2>5, SweptCounts
  <2>7. n - d < l
    BY <1>3, <2>3, <2>6 DEF Admit, Full
  <2>8. PICK hh \in Seq(Int) :
           /\ hh = Append(h, now)
           /\ Len(hh) = n + 1
           /\ \A i \in 1..n : hh[i] = h[i]
           /\ hh[n + 1] = now
    <3>1. /\ Append(h, now) \in Seq(Int)
          /\ Len(Append(h, now)) = Len(h) + 1
          /\ \A i \in 1..Len(h) : Append(h, now)[i] = h[i]
          /\ Append(h, now)[Len(h) + 1] = now
      BY <2>4, AppendProperties
    <3> QED
      BY <2>5, <3>1
  <2>9. PICK gg \in Seq(Nat) :
           /\ gg = Append(g, l)
           /\ \A i \in 1..n : gg[i] = g[i]
           /\ gg[n + 1] = l
    <3>1. /\ Append(g, l) \in Seq(Nat)
          /\ \A i \in 1..Len(g) : Append(g, l)[i] = g[i]
          /\ Append(g, l)[Len(g) + 1] = l
      BY AppendProperties
    <3> QED
      BY <2>5, <3>1
  <2>10. \A i \in 1..n : i > g[i] => h[i - g[i]] < h[i] - Span[v]
    BY <1>1, <2>1, <2>2, <2>5, LenProperties
  <2>11. \A i \in 1..(n + 1) : i > gg[i] => hh[i - gg[i]] < hh[i] - Span[v]
    <3> SUFFICES ASSUME NEW i \in 1..(n + 1), i > gg[i]
                 PROVE  hh[i - gg[i]] < hh[i] - Span[v]
      OBVIOUS
    <3>1. CASE i = n + 1
      <4>1. i - l \in 1..d /\ i - l \in 1..n
        BY <3>1, <2>6, <2>7, <2>9
      <4>2. hh[i - l] < now - Span[v]
        BY <4>1, <2>6, <2>8
      <4> QED
        BY <3>1, <4>2, <2>8, <2>9
    <3>2. CASE i \in 1..n
      <4>1. g[i] \in Nat
        BY <3>2, <2>5, ElementOfSeq
      <4>2. gg[i] = g[i] /\ hh[i] = h[i]
        BY <3>2, <2>8, <2>9
      <4>3. i - g[i] \in 1..n
        <5>1. PICK k : k = g[i]
          OBVIOUS
        <5>2. k \in Nat /\ i \in 1..n /\ i > k
          BY <3>2, <4>1, <4>2, <5>1
        <5>3. i - k \in 1..n
          BY <5>2
        <5> QED
          BY <5>1, <5>3
      <4>4. h[i - g[i]] < h[i] - Span[v]
        BY <3>2, <4>2, <2>10
      <4> QED
        BY <4>2, <4>3, <4>4, <2>8
    <3> QED
      BY <3>1, <3>2
  <2>12. history[u][v]' = hh /\ granted[u][v]' = gg
    BY <1>3, <2>1, <2>2, <2>3, <2>8, <2>9 DEF Admit, TypeOK
  <2>13. DOMAIN hh = 1..(n + 1)
    BY <2>8, LenProperties
  <2> QED
    BY <2>11, <2>12, <2>13
<1>4. CASE Restart
  <2>1. history[u][v]' = <<>>
    BY <1>4 DEF Restart
  <2> QED
    BY <2>1
<1>5. ASSUME history[u][v]' = history[u][v], granted[u][v]' = granted[u][v]
      PROVE  P(history[u][v]', granted[u][v]', v)
  BY <1>1, <1>5
<1>6. ASSUME NEW t \in Tenants, Admit(t), ~(u = t /\ Metered(t, v))
      PROVE  history[u][v]' = history[u][v] /\ granted[u][v]' = granted[u][v]
  <2>1. CASE u # t
    BY <1>6, <2>1 DEF Admit, TypeOK
  <2>2. CASE u = t /\ ~Metered(t, v)
    BY <1>6, <2>2 DEF Admit, TypeOK
  <2> QED
    BY <1>6, <2>1, <2>2
<1>7. Tick => UNCHANGED <<history, granted>>
  BY DEF Tick
<1>8. \A t \in Tenants : SetConfig(t) => UNCHANGED <<history, granted>>
  BY DEF SetConfig
<1>9. \A t \in Tenants, w \in Window : Refuse(t, w) => UNCHANGED <<history, granted>>
  BY DEF Refuse
<1>10. UNCHANGED vars => UNCHANGED <<history, granted>>
  BY DEF vars
<1> QED
  BY <1>3, <1>4, <1>5, <1>6, <1>7, <1>8, <1>9, <1>10 DEF Next

(* The limiter limits: no window that ends at an admission holds more      *)
(* admissions than the limit it was checked against.                       *)
THEOREM LimitHolds == Spec => []WindowLimit
<1>1. Init => WindowLimit
  BY DEF Init, WindowLimit
<1>2. TypeOK /\ TypeOK' /\ StoreIsRecentHistory /\ WindowLimit /\ [Next]_vars
         => WindowLimit'
  BY WindowLimitStep
<1> QED
  BY <1>1, <1>2, TypeCorrect, RecentHistory, PTL DEF Spec

-----------------------------------------------------------------------------

(* Counting afresh the recorded requests inside the window gives what a    *)
(* sweep leaves in the deque.                                              *)
LEMMA CountedAfresh ==
  ASSUME TypeOK, StoreIsRecentHistory, NEW t \in Tenants, NEW w \in Window
  PROVE  /\ Cardinality(Abstract!InWindow(t, w)) = Len(Swept(t, w))
         /\ Abstract!InWindow(t, w) = {} <=> Swept(t, w) = <<>>
<1>1. PICK h \in Seq(Int) : h = history[t][w]
  <2>1. history[t][w] \in Seq(Int)
    BY DEF TypeOK
  <2> QED
    BY <2>1
<1>2. PICK c \in Int : c = now - Span[w]
  <2>1. now - Span[w] \in Int
    BY SpanAssumption DEF TypeOK
  <2> QED
    BY <2>1
<1>3. PICK n \in Nat : n = Len(h)
  BY LenProperties
<1>4. PICK d \in 0..n : /\ Len(Swept(t, w)) = n - d
                        /\ \A i \in 1..d : h[i] < c
                        /\ \A i \in (d + 1)..n : h[i] >= c
  BY <1>1, <1>2, <1>3, SweptCounts
<1>5. DOMAIN h = 1..n /\ \A i \in 1..n : h[i] \in Int
  BY <1>3, LenProperties, ElementOfSeq
<1>6. Abstract!InWindow(t, w) = {i \in DOMAIN h : h[i] >= c}
  BY <1>1, <1>2 DEF Abstract!InWindow
<1>7. {i \in DOMAIN h : h[i] >= c} = (d + 1)..n
  <2>1. \A i \in 1..n : h[i] >= c <=> i \in (d + 1)..n
    <3> TAKE i \in 1..n
    <3>1. i \in 1..d \/ i \in (d + 1)..n
      OBVIOUS
    <3>2. i \in 1..d => ~(i \in (d + 1)..n)
      OBVIOUS
    <3> QED
      BY <3>1, <3>2, <1>2, <1>4, <1>5
  <2>2. (d + 1)..n \subseteq 1..n
    OBVIOUS
  <2> QED
    BY <2>1, <2>2, <1>5
<1>8. Cardinality((d + 1)..n) = n - d
  <2>1. Cardinality((d + 1)..n) = IF d + 1 > n THEN 0 ELSE n - (d + 1) + 1
    <3>1. d + 1 \in Int /\ n \in Int
      OBVIOUS
    <3> QED
      BY <3>1, FS_Interval
  <2> QED
    BY <2>1
<1>9. Swept(t, w) = <<>> <=> n - d = 0
  BY <1>4, SweptType, EmptySeq
<1>10. (d + 1)..n = {} <=> n - d = 0
  OBVIOUS
<1> QED
  BY <1>4, <1>6, <1>7, <1>8, <1>9, <1>10

(* SlidingWindow counts with the Cardinality it brings along. *)
LEMMA SameCardinality ==
  ASSUME NEW S
  PROVE  Abstract!Cardinality(S) = Cardinality(S)
BY DEF Abstract!Cardinality, Cardinality

LEMMA FullIsExhausted ==
  ASSUME TypeOK, StoreIsRecentHistory, NEW t \in Tenants, NEW w \in Window
  PROVE  /\ Metered(t, w) <=> Abstract!Metered(t, w)
         /\ Full(t, w) <=> Abstract!Exhausted(t, w)
<1>1. Metered(t, w) <=> Abstract!Metered(t, w)
  BY DEF Metered, Abstract!Metered
<1>2. Cardinality(Abstract!InWindow(t, w)) = Len(Swept(t, w))
  BY CountedAfresh
<1>3. Full(t, w) <=> Abstract!Exhausted(t, w)
  <2>1. Full(t, w) <=> Metered(t, w) /\ Len(Swept(t, w)) >= config[t].limit[w]
    BY DEF Full
  <2>2. Abstract!Exhausted(t, w)
          <=> /\ Abstract!Metered(t, w)
              /\ Cardinality(Abstract!InWindow(t, w)) >= config[t].limit[w]
    BY SameCardinality DEF Abstract!Exhausted
  <2> QED
    BY <1>1, <1>2, <2>1, <2>2
<1> QED
  BY <1>1, <1>3

(* The deques implement the promise of SlidingWindow: requests are let     *)
(* through and refused as if the whole history were counted each time.     *)
THEOREM Implements == Spec => Refinement
<1>1. Init => Abstract!Init
  BY DEF Init, Abstract!Init, NoAnswer, Answer, Window, Abstract!Window
<1>2. TypeOK /\ StoreIsRecentHistory /\ [Next]_vars
         => [Abstract!Next]_(Abstract!vars)
  <2> SUFFICES ASSUME TypeOK, StoreIsRecentHistory, [Next]_vars
               PROVE  [Abstract!Next]_(Abstract!vars)
    OBVIOUS
  <2> DEFINE verdict == [t \in Tenants |-> answer[t].outcome]
  <2>1. CASE Tick
    BY <2>1 DEF Tick, Abstract!Next, Abstract!Advance
  <2>2. CASE Restart
    BY <2>2 DEF Restart, NoAnswer, Answer, Abstract!Next, Abstract!Forget,
                Window, Abstract!Window
  <2>3. ASSUME NEW t \in Tenants, SetConfig(t) PROVE Abstract!Next
    <3>1. verdict' = [verdict EXCEPT ![t] = "none"]
      BY <2>3 DEF SetConfig, NoAnswer, Answer, TypeOK
    <3>2. Abstract!Reconfigure(t)
      BY <2>3, <3>1 DEF SetConfig, Abstract!Reconfigure
    <3> QED
      BY <3>2 DEF Abstract!Next
  <2>4. ASSUME NEW t \in Tenants, Admit(t) PROVE Abstract!Next
    <3>1. verdict' = [verdict EXCEPT ![t] = "allowed"]
      BY <2>4 DEF Admit, Allowed, Answer, TypeOK
    <3>2. \A w \in Abstract!Window : ~Abstract!Exhausted(t, w)
      BY <2>4, FullIsExhausted DEF Admit, Window, Abstract!Window
    <3>3. history' = [history EXCEPT ![t] =
             [w \in Abstract!Window |->
                IF Abstract!Metered(t, w) THEN Append(@[w], now) ELSE @[w]]]
      BY <2>4 DEF Admit, Window, Abstract!Window, Metered, Abstract!Metered
    <3>4. Abstract!Allow(t)
      BY <2>4, <3>1, <3>2, <3>3 DEF Admit, Abstract!Allow
    <3> QED
      BY <3>4 DEF Abstract!Next
  <2>5. ASSUME NEW t \in Tenants, NEW w \in Window, Refuse(t, w)
        PROVE  Abstract!Next
    <3>1. Abstract!Exhausted(t, w) /\ w \in Abstract!Window
      BY <2>5, FullIsExhausted DEF Refuse, Window, Abstract!Window
    <3>2. verdict' = [verdict EXCEPT ![t] =
             IF Abstract!InWindow(t, w) = {} THEN "raised" ELSE "limited"]
      BY <2>5, CountedAfresh DEF Refuse, Answer, TypeOK
    <3>3. Abstract!Limit(t)
      BY <2>5, <3>1, <3>2 DEF Refuse, Abstract!Limit
    <3> QED
      BY <3>3 DEF Abstract!Next
  <2>6. CASE UNCHANGED vars
    BY <2>6 DEF vars, Abstract!vars
  <2> QED
    BY <2>1, <2>2, <2>3, <2>4, <2>5, <2>6 DEF Next
<1> QED
  BY <1>1, <1>2, TypeCorrect, RecentHistory, PTL
     DEF Spec, Refinement, Abstract!Spec

-----------------------------------------------------------------------------

(* Where the entries ascend, what a sweep leaves are the entries that      *)
(* reach the cutoff.                                                       *)
LEMMA SweptAreTheRecent ==
  ASSUME TypeOK, StoreIsRecentHistory, NEW t \in Tenants, NEW w \in Window
  PROVE  Used(t, w) = Len(Swept(t, w))
<1>1. PICK q \in Seq(Int) : q = store[t][w]
  BY DEF TypeOK
<1>2. PICK h \in Seq(Int) : h = history[t][w]
  BY DEF TypeOK
<1>3. PICK c \in Int : c = now - Span[w]
  BY SpanAssumption DEF TypeOK
<1>4. PICK n \in Nat : n = Len(q)
  BY LenProperties
<1>5. PICK k \in 0..n :
         /\ Evicted(q, c) = SubSeq(q, k + 1, n)
         /\ \A i \in 1..k : q[i] < c
         /\ k < n => q[k + 1] >= c
  BY <1>4, EvictedPops
<1>6. \A i \in 1..n, j \in 1..n : i <= j => q[i] <= q[j]
  <2>0. Trails(q, h, c) /\ Len(h) \in Nat
    BY <1>1, <1>2, <1>3, LenProperties DEF StoreIsRecentHistory
  <2>1. PICK e \in Nat : e + n = Len(h)
    <3>1. Len(h) - n \in Nat /\ (Len(h) - n) + n = Len(h)
      BY <2>0, <1>4 DEF Trails
    <3> QED
      BY <3>1
  <2>2. \A i \in 1..n : i + e \in 1..Len(h) /\ q[i] = h[i + e]
    <3>1. Len(h) - n = e
      BY <2>0, <2>1
    <3>2. \A i \in 1..n : q[i] = h[i + (Len(h) - n)]
      BY <2>0, <1>4 DEF Trails
    <3> TAKE i \in 1..n
    <3>3. i + e \in 1..Len(h)
      BY <2>0, <2>1
    <3>4. q[i] = h[i + e]
      BY <3>1, <3>2
    <3> QED
      BY <3>3, <3>4
  <2>3. \A i \in 1..Len(h), j \in 1..Len(h) : i <= j => h[i] <= h[j]
    BY <1>2 DEF StoreIsRecentHistory, Ascending
  <2> SUFFICES ASSUME NEW i \in 1..n, NEW j \in 1..n, i <= j PROVE q[i] <= q[j]
    OBVIOUS
  <2>4. i + e <= j + e
    OBVIOUS
  <2> QED
    BY <2>2, <2>3, <2>4
<1>7. \A i \in 1..n : q[i] \in Int
  BY <1>4, ElementOfSeq
<1>8. {i \in DOMAIN q : q[i] >= c} = (k + 1)..n
  <2>1. \A i \in 1..n : q[i] >= c <=> i \in (k + 1)..n
    <3> TAKE i \in 1..n
    <3>1. CASE i \in 1..k
      BY <3>1, <1>3, <1>5, <1>7
    <3>2. CASE i \in (k + 1)..n
      <4>1. k + 1 \in 1..n /\ k + 1 <= i
        BY <3>2
      <4>2. q[k + 1] <= q[i] /\ q[k + 1] >= c
        BY <4>1, <1>5, <1>6
      <4> QED
        BY <3>2, <4>1, <4>2, <1>3, <1>7
    <3> QED
      BY <3>1, <3>2
  <2>2. DOMAIN q = 1..n
    BY <1>4, LenProperties
  <2> QED
    BY <2>1, <2>2
<1>9. Cardinality((k + 1)..n) = n - k
  <2>1. k + 1 \in Int /\ n \in Int
    OBVIOUS
  <2>2. Cardinality((k + 1)..n) = IF k + 1 > n THEN 0 ELSE n - (k + 1) + 1
    BY <2>1, FS_Interval
  <2> QED
    BY <2>2
<1>10. Len(Evicted(q, c)) = n - k
  BY <1>4, <1>5, <1>7, SubSeqProperties
<1> QED
  BY <1>1, <1>3, <1>8, <1>9, <1>10 DEF Used, Swept

(* A section that is switched on is shown by GET /rate-limits with nothing *)
(* remaining exactly when the next check would refuse; one switched off is *)
(* shown so too, and refuses nobody (status 99-124, check 34-72).          *)
THEOREM StatusAgrees == Spec => []StatusMatchesCheck
<1>1. TypeOK /\ StoreIsRecentHistory => StatusMatchesCheck
  <2> SUFFICES ASSUME TypeOK, StoreIsRecentHistory,
                      NEW t \in Tenants, NEW w \in Window, config[t].limit[w] # NoLimit
               PROVE  Full(t, w) <=> config[t].enabled /\ Remaining(t, w) = 0
    BY DEF StatusMatchesCheck
  <2>1. PICK n \in Nat : n = Len(Swept(t, w)) /\ n = Used(t, w)
    BY SweptType, SweptAreTheRecent, LenProperties
  <2>2. config[t].limit[w] \in Nat /\ config[t].enabled \in BOOLEAN
    BY ConfigsAssumption DEF TypeOK
  <2>3. Remaining(t, w) = 0 <=> n >= config[t].limit[w]
    BY <2>1, <2>2 DEF Remaining
  <2> QED
    BY <2>1, <2>2, <2>3 DEF Full, Metered
<1> QED
  BY <1>1, TypeCorrect, RecentHistory, PTL

-----------------------------------------------------------------------------

(* A sweep makes no deque longer. *)
LEMMA SweptShorter ==
  ASSUME TypeOK, NEW t \in Tenants, NEW w \in Window
  PROVE  /\ Len(Swept(t, w)) \in Nat
         /\ Len(Swept(t, w)) <= Len(store[t][w])
         /\ store[t][w] = <<>> => Swept(t, w) = <<>>
<1>1. PICK q \in Seq(Int) : q = store[t][w]
  BY DEF TypeOK
<1>2. PICK c \in Int : c = now - Span[w]
  BY SpanAssumption DEF TypeOK
<1>3. PICK k \in 0..Len(q) : Evicted(q, c) = SubSeq(q, k + 1, Len(q))
  BY EvictedPops
<1>4. Len(q) \in Nat /\ \A i \in 1..Len(q) : q[i] \in Int
  BY LenProperties, ElementOfSeq
<1>5. Len(SubSeq(q, k + 1, Len(q))) = Len(q) - k
  BY <1>3, <1>4, SubSeqProperties
<1>6. Swept(t, w) = SubSeq(q, k + 1, Len(q))
  BY <1>1, <1>2, <1>3 DEF Swept
<1>7. q = <<>> => SubSeq(q, k + 1, Len(q)) = <<>>
  <2> SUFFICES ASSUME q = <<>> PROVE Len(q) < k + 1
    BY <1>3, <1>4, SubSeqEmpty
  <2> QED
    BY <1>3, EmptySeq
<1> QED
  BY <1>1, <1>3, <1>4, <1>5, <1>6, <1>7

(* No deque outgrows the limits it was filled under (_check_window 82-97). *)
LEMMA StoreBoundedStep ==
  ASSUME TypeOK, TypeOK', StoreIsRecentHistory, StoreBounded, [Next]_vars
  PROVE  StoreBounded'
<1> DEFINE B(q, g) == q # <<>> => \E i \in DOMAIN g : Len(q) <= g[i]
<1>1. \A t \in Tenants, w \in Window : B(store[t][w], granted[t][w])
  BY DEF StoreBounded
<1> SUFFICES ASSUME NEW u \in Tenants, NEW v \in Window
             PROVE  B(store[u][v]', granted[u][v]')
  BY DEF StoreBounded
<1>2. ASSUME store[u][v]' = store[u][v], granted[u][v]' = granted[u][v]
      PROVE  B(store[u][v]', granted[u][v]')
  BY <1>1, <1>2
<1>3. ASSUME store[u][v]' = Swept(u, v), granted[u][v]' = granted[u][v]
      PROVE  B(store[u][v]', granted[u][v]')
  <2> SUFFICES ASSUME Swept(u, v) # <<>>
               PROVE  \E i \in DOMAIN granted[u][v] : Len(Swept(u, v)) <= granted[u][v][i]
    BY <1>3
  <2>1. PICK i \in DOMAIN granted[u][v] : Len(store[u][v]) <= granted[u][v][i]
    BY <1>1, SweptShorter
  <2>2. granted[u][v][i] \in Nat
    <3>1. granted[u][v] \in Seq(Nat)
      BY DEF TypeOK
    <3> QED
      BY <2>1, <3>1, LenProperties
  <2>3. Len(store[u][v]) \in Nat
    <3>1. store[u][v] \in Seq(Int)
      BY DEF TypeOK
    <3> QED
      BY <3>1, LenProperties
  <2> QED
    BY <2>1, <2>2, <2>3, SweptShorter
<1>4. ASSUME NEW t \in Tenants, Admit(t)
      PROVE  B(store[u][v]', granted[u][v]')
  <2>1. CASE u # t \/ ~Metered(t, v)
    BY <1>2, <1>4, <2>1 DEF Admit, TypeOK
  <2>2. CASE u = t /\ Metered(t, v)
    <3>0. config[t].limit[v] \in Nat
      BY <2>2, ConfigsAssumption DEF Metered, TypeOK
    <3>1. PICK l \in Nat : l = config[t].limit[v]
      BY <3>0
    <3>2. PICK s \in Seq(Int) : s = Swept(t, v)
      BY SweptType
    <3>3. PICK g \in Seq(Nat) : g = granted[t][v]
      BY DEF TypeOK
    <3>4. Len(s) < l
      BY <1>4, <2>2, <3>1, <3>2, LenProperties DEF Admit, Full
    <3>5. now \in Int
      BY DEF TypeOK
    <3>6. store[u][v]' = Append(s, now) /\ granted[u][v]' = Append(g, l)
      BY <1>4, <2>2, <3>1, <3>2, <3>3 DEF Admit, TypeOK
    <3>7. Len(Append(s, now)) = Len(s) + 1 /\ Len(s) \in Nat
      BY <3>5, AppendProperties, LenProperties
    <3>8. Len(g) + 1 \in DOMAIN Append(g, l) /\ Append(g, l)[Len(g) + 1] = l
      <4>1. Append(g, l) \in Seq(Nat) /\ Len(Append(g, l)) = Len(g) + 1 /\ Len(g) \in Nat
        BY AppendProperties, LenProperties
      <4> QED
        BY <4>1, AppendProperties, LenProperties
    <3>9. Len(s) + 1 <= l
      BY <3>1, <3>4, <3>7
    <3> QED
      BY <3>6, <3>7, <3>8, <3>9
  <2> QED
    BY <2>1, <2>2
<1>5. ASSUME NEW t \in Tenants, NEW w \in Window, Refuse(t, w)
      PROVE  B(store[u][v]', granted[u][v]')
  <2>1. granted[u][v]' = granted[u][v]
    BY <1>5 DEF Refuse
  <2>2. store[u][v]' = store[u][v] \/ store[u][v]' = Swept(u, v)
    BY <1>5 DEF Refuse, TypeOK
  <2> QED
    BY <1>2, <1>3, <2>1, <2>2
<1>6. CASE Tick
  BY <1>2, <1>6 DEF Tick
<1>7. CASE Restart
  BY <1>7 DEF Restart
<1>8. ASSUME NEW t \in Tenants, SetConfig(t)
      PROVE  B(store[u][v]', granted[u][v]')
  BY <1>2, <1>8 DEF SetConfig
<1>9. CASE UNCHANGED vars
  BY <1>2, <1>9 DEF vars
<1> QED
  BY <1>4, <1>5, <1>6, <1>7, <1>8, <1>9 DEF Next

(* The lazy eviction lets no deque grow without bound. *)
THEOREM DequesStayBounded == Spec => []StoreBounded
<1>1. Init => StoreBounded
  BY DEF Init, StoreBounded
<1>2. TypeOK /\ TypeOK' /\ StoreIsRecentHistory /\ StoreBounded /\ [Next]_vars
         => StoreBounded'
  BY StoreBoundedStep
<1> QED
  BY <1>1, <1>2, TypeCorrect, RecentHistory, PTL DEF Spec

-----------------------------------------------------------------------------

(* a \div b in terms of multiplication. *)
LEMMA DivBounds ==
  ASSUME NEW a \in Int, NEW b \in Nat \ {0}
  PROVE  /\ a \div b \in Int
         /\ (a \div b) * b <= a
         /\ a < (a \div b) * b + b
OBVIOUS

(* The retry announced from the oldest entry is over after that entry has  *)
(* left the window, and by less than a second.                             *)
LEMMA RetryAfterBounds ==
  ASSUME NEW s \in Seq(Int), NEW w \in Window, now \in Int, s # <<>>,
         s[1] >= now - Span[w]
  PROVE  LET due == now + RetryAfter(s, w) * TicksPerSecond
         IN  /\ due \in Int
             /\ due > s[1] + Span[w]
             /\ due <= s[1] + Span[w] + TicksPerSecond
<1>1. PICK tps \in Nat \ {0} : tps = TicksPerSecond
  BY TicksAssumption
<1>2. Span[w] \in Int
  BY SpanAssumption
<1>3. s[1] \in Int
  BY EmptySeq, ElementOfSeq
<1>4. PICK left \in Nat : left = s[1] + Span[w] - now
  <2>1. s[1] + Span[w] - now \in Nat
    BY <1>2, <1>3
  <2> QED
    BY <2>1
<1>5. PICK d \in Int : d = left \div tps
  <2>1. left \div tps \in Int
    BY <1>1, DivBounds
  <2> QED
    BY <2>1
<1>6. d * tps <= left /\ left < d * tps + tps
  BY <1>1, <1>5, DivBounds
<1>7. d >= 0
  <2> SUFFICES ASSUME d <= -1 PROVE FALSE
    OBVIOUS
  <2>1. d * tps <= (-1) * tps
    BY <1>1
  <2> QED
    BY <1>1, <1>6, <2>1
<1>8. RetryAfter(s, w) = d + 1
  BY <1>1, <1>4, <1>5, <1>7 DEF RetryAfter
<1>9. (d + 1) * tps = d * tps + tps /\ d * tps \in Int
  BY <1>1
<1>10. s[1] + Span[w] = now + left
  BY <1>2, <1>3, <1>4
<1> QED
  BY <1>1, <1>2, <1>3, <1>6, <1>8, <1>9, <1>10

(* What a refusal leaves behind until the next answer, the next change of  *)
(* the limits or the next restart: the deque it has seen, full, and the    *)
(* end of the wait just after its oldest entry leaves the window.          *)
RefusalStands ==
    \A t \in Tenants :
        LET w == answer[t].window
            q == store[t][w]
        IN  answer[t].outcome = "limited" =>
                /\ Metered(t, w)
                /\ q # <<>>
                /\ Len(q) >= config[t].limit[w]
                /\ answer[t].due > q[1] + Span[w]
                /\ answer[t].due <= q[1] + Span[w] + TicksPerSecond

LEMMA RefusalStandsStep ==
  ASSUME TypeOK, TypeOK', StoreIsRecentHistory, RefusalStands, [Next]_vars
  PROVE  RefusalStands'
<1> DEFINE R(a, c, q) == LET w == a.window IN
               a.outcome = "limited" =>
                /\ c.enabled /\ c.limit[w] # NoLimit
                /\ q[w] # <<>>
                /\ Len(q[w]) >= c.limit[w]
                /\ a.due > q[w][1] + Span[w]
                /\ a.due <= q[w][1] + Span[w] + TicksPerSecond
<1>1. \A t \in Tenants : R(answer[t], config[t], store[t])
  BY DEF RefusalStands, Metered
<1> SUFFICES ASSUME NEW u \in Tenants
             PROVE  R(answer[u]', config[u]', store[u]')
  BY DEF RefusalStands, Metered
<1>2. ASSUME answer[u]' = answer[u], config[u]' = config[u], store[u]' = store[u]
      PROVE  R(answer[u]', config[u]', store[u]')
  BY <1>1, <1>2
<1>3. ASSUME answer[u]'.outcome # "limited"
      PROVE  R(answer[u]', config[u]', store[u]')
  BY <1>3
<1>4. ASSUME NEW t \in Tenants, Admit(t)
      PROVE  R(answer[u]', config[u]', store[u]')
  <2>1. CASE u = t
    BY <1>3, <1>4, <2>1 DEF Admit, Allowed, Answer, TypeOK
  <2>2. CASE u # t
    BY <1>2, <1>4, <2>2 DEF Admit, TypeOK
  <2> QED
    BY <2>1, <2>2
<1>5. ASSUME NEW t \in Tenants, NEW w \in Window, Refuse(t, w)
      PROVE  R(answer[u]', config[u]', store[u]')
  <2>1. CASE u # t
    BY <1>2, <1>5, <2>1 DEF Refuse, TypeOK
  <2>2. CASE u = t /\ Swept(t, w) = <<>>
    BY <1>3, <1>5, <2>2 DEF Refuse, Answer, TypeOK
  <2>3. CASE u = t /\ Swept(t, w) # <<>>
    <3>1. PICK s \in Seq(Int) : s = Swept(t, w)
      BY SweptType
    <3>2. s[1] >= now - Span[w]
      <4>1. PICK h \in Seq(Int) : h = history[t][w]
        <5>1. history[t][w] \in Seq(Int)
          BY DEF TypeOK
        <5> QED
          BY <5>1
      <4>2. PICK q \in Seq(Int) : q = store[t][w]
        <5>1. store[t][w] \in Seq(Int)
          BY DEF TypeOK
        <5> QED
          BY <5>1
      <4>3. PICK c \in Int : c = now - Span[w]
        BY SpanAssumption DEF TypeOK
      <4>4. now \in Int /\ Trails(q, h, c) /\ Ascending(h, now)
        BY <4>1, <4>2, <4>3 DEF StoreIsRecentHistory, TypeOK
      <4>5. PICK d \in 0..Len(h) :
               /\ Len(Evicted(q, c)) = Len(h) - d
               /\ \A i \in 1..Len(Evicted(q, c)) : Evicted(q, c)[i] = h[i + d]
               /\ \A i \in (d + 1)..Len(h) : h[i] >= c
        BY <4>4, EvictedIsRecent
      <4>6. Evicted(q, c) = s
        BY <3>1, <4>2, <4>3 DEF Swept
      <4>7. Len(s) \in Nat \ {0} /\ Len(h) \in Nat
        BY <2>3, <3>1, EmptySeq, LenProperties
      <4>8. 1 \in 1..Len(s) /\ 1 + d \in (d + 1)..Len(h)
        BY <4>5, <4>6, <4>7
      <4> QED
        BY <4>3, <4>5, <4>6, <4>8
    <3>3. /\ answer'[t].outcome = "limited"
          /\ answer'[t].window = w
          /\ answer'[t].due = now + RetryAfter(s, w) * TicksPerSecond
      BY <1>5, <2>3, <3>1 DEF Refuse, Answer, TypeOK
    <3>4. store'[t][w] = s
      BY <1>5, <3>1 DEF Refuse, SweptBy, Full, TypeOK, Window
    <3>5. config' = config
      BY <1>5 DEF Refuse
    <3>6. Metered(t, w) /\ Len(s) >= config[t].limit[w]
      BY <1>5, <3>1 DEF Refuse, Full
    <3>7. /\ answer'[t].due > s[1] + Span[w]
          /\ answer'[t].due <= s[1] + Span[w] + TicksPerSecond
      <4>1. now \in Int
        BY DEF TypeOK
      <4> QED
        BY <2>3, <3>1, <3>2, <3>3, <4>1, RetryAfterBounds
    <3> QED
      BY <2>3, <3>1, <3>3, <3>4, <3>5, <3>6, <3>7 DEF Metered
  <2> QED
    BY <2>1, <2>2, <2>3
<1>6. CASE Tick
  BY <1>2, <1>6 DEF Tick
<1>7. CASE Restart
  BY <1>3, <1>7 DEF Restart, NoAnswer, Answer
<1>8. ASSUME NEW t \in Tenants, SetConfig(t)
      PROVE  R(answer[u]', config[u]', store[u]')
  <2>1. CASE u = t
    BY <1>3, <1>8, <2>1 DEF SetConfig, NoAnswer, Answer, TypeOK
  <2>2. CASE u # t
    BY <1>2, <1>8, <2>2 DEF SetConfig, TypeOK
  <2> QED
    BY <2>1, <2>2
<1>9. CASE UNCHANGED vars
  BY <1>2, <1>9 DEF vars
<1> QED
  BY <1>4, <1>5, <1>6, <1>7, <1>8, <1>9 DEF Next

(* Before its oldest entry leaves the window a deque is swept of nothing,  *)
(* after that of that entry at least.                                      *)
LEMMA SweptOfOldest ==
  ASSUME TypeOK, NEW t \in Tenants, NEW w \in Window, store[t][w] # <<>>
  PROVE  /\ now <= store[t][w][1] + Span[w] => Swept(t, w) = store[t][w]
         /\ now > store[t][w][1] + Span[w] => Len(Swept(t, w)) < Len(store[t][w])
<1>1. PICK q \in Seq(Int) : q = store[t][w]
  BY DEF TypeOK
<1>2. PICK c \in Int : c = now - Span[w]
  BY SpanAssumption DEF TypeOK
<1>3. PICK n \in Nat \ {0} : n = Len(q)
  BY <1>1, EmptySeq
<1>4. PICK k \in 0..n :
         /\ Evicted(q, c) = SubSeq(q, k + 1, n)
         /\ \A i \in 1..k : q[i] < c
         /\ k < n => q[k + 1] >= c
  BY <1>3, EvictedPops
<1>5. \A i \in 1..n : q[i] \in Int
  BY <1>3, ElementOfSeq
<1>6. Span[w] \in Int /\ now \in Int
  BY SpanAssumption DEF TypeOK
<1>7. now <= q[1] + Span[w] => k = 0
  BY <1>2, <1>3, <1>4, <1>5, <1>6
<1>8. now > q[1] + Span[w] => k > 0
  BY <1>2, <1>3, <1>4, <1>5, <1>6
<1>9. Len(Evicted(q, c)) = n - k
  BY <1>3, <1>4, <1>5, SubSeqProperties
<1>10. k = 0 => Evicted(q, c) = q
  BY <1>3, <1>4, SubSeqFull
<1> QED
  BY <1>1, <1>2, <1>3, <1>4, <1>7, <1>8, <1>9, <1>10 DEF Swept

(* The announced wait is long enough, and no more than a second too long,  *)
(* whatever the lengths of windows and ticks (rate_limiter.py 25 and 90).  *)
THEOREM RetryAfterHonest == Spec => []RetryAfterIsExact
<1>1. Init => RefusalStands
  BY DEF Init, RefusalStands, NoAnswer, Answer
<1>2. TypeOK /\ TypeOK' /\ StoreIsRecentHistory /\ RefusalStands /\ [Next]_vars
         => RefusalStands'
  BY RefusalStandsStep
<1>3. TypeOK /\ RefusalStands => RetryAfterIsExact
  <2> SUFFICES ASSUME TypeOK, RefusalStands,
                      NEW t \in Tenants, answer[t].outcome = "limited"
               PROVE  /\ (/\ now >= answer[t].due
                          /\ Len(store[t][answer[t].window])
                                <= config[t].limit[answer[t].window])
                            => ~Full(t, answer[t].window)
                      /\ now < answer[t].due - TicksPerSecond
                            => Full(t, answer[t].window)
    BY DEF RetryAfterIsExact
  <2>1. PICK w \in Window : w = answer[t].window
    BY DEF TypeOK
  <2>2. PICK q \in Seq(Int) : q = store[t][w]
    BY DEF TypeOK
  <2>3. PICK due \in Int : due = answer[t].due
    BY DEF TypeOK
  <2>4. PICK tps \in Nat : tps = TicksPerSecond
    BY TicksAssumption
  <2>5. /\ Metered(t, w)
        /\ q # <<>>
        /\ Len(q) >= config[t].limit[w]
        /\ due > q[1] + Span[w]
        /\ due <= q[1] + Span[w] + tps
    BY <2>1, <2>2, <2>3, <2>4 DEF RefusalStands
  <2>6. PICK limit \in Nat : limit = config[t].limit[w]
    BY <2>5, ConfigsAssumption DEF Metered, TypeOK
  <2>7. PICK edge \in Int : edge = q[1] + Span[w]
    <3>1. q[1] \in Int /\ Span[w] \in Int
      BY <2>5, EmptySeq, ElementOfSeq, SpanAssumption
    <3> QED
      BY <3>1
  <2>8. now \in Int /\ Len(q) \in Nat /\ Len(Swept(t, w)) \in Nat
    BY LenProperties, SweptType DEF TypeOK
  <2>9. /\ now <= edge => Swept(t, w) = q
        /\ now > edge => Len(Swept(t, w)) < Len(q)
    BY <2>2, <2>5, <2>7, SweptOfOldest
  <2>10. ASSUME now >= due, Len(q) <= limit PROVE ~Full(t, w)
    <3>1. now > edge
      BY <2>5, <2>7, <2>8, <2>10
    <3> QED
      BY <3>1, <2>6, <2>8, <2>9, <2>10 DEF Full
  <2>11. ASSUME now < due - tps PROVE Full(t, w)
    <3>1. now <= edge
      BY <2>4, <2>5, <2>7, <2>8, <2>11
    <3> QED
      BY <3>1, <2>5, <2>9 DEF Full
  <2> QED
    BY <2>1, <2>2, <2>3, <2>4, <2>6, <2>10, <2>11
<1> QED
  BY <1>1, <1>2, <1>3, TypeCorrect, RecentHistory, PTL DEF Spec
=============================================================================
