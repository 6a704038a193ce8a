----------------------------- MODULE RateLimiter -----------------------------
(***************************************************************************)
(* The sliding window rate limiter of rate_limiter.py: per tenant one      *)
(* deque of timestamps for the last minute and one for the last hour,      *)
(* evicted lazily by the requests themselves.                              *)
(*                                                                         *)
(* RateLimiter.check has no await, so one call is one step.  The clock is  *)
(* counted in ticks, TicksPerSecond to the second, because the code        *)
(* compares float timestamps but answers Retry-After in whole seconds.     *)
(***************************************************************************)
EXTENDS Integers, Sequences, FiniteSets

CONSTANTS
    Tenants,         \* the tenants that send requests
    Span,            \* the length of the "minute" and of the "hour", in ticks
    TicksPerSecond,  \* clock resolution
    Configs,         \* the rate_limit sections a tenant's policy may hold
    NoLimit,         \* a limit that is None
    MaxTime          \* bound: the clock stops here

Window == {"minute", "hour"}

ASSUME SpanAssumption == Span \in [Window -> Nat \ {0}]
ASSUME TicksAssumption == TicksPerSecond \in Nat \ {0}
ASSUME ConfigsAssumption ==
    Configs \subseteq [enabled : BOOLEAN, limit : [Window -> Nat \cup {NoLimit}]]
ASSUME NoLimitAssumption == NoLimit \notin Int
ASSUME MaxTimeAssumption == MaxTime \in Nat

VARIABLES
    now,      \* time.time(), in ticks
    config,   \* config[t]: policy.rate_limit of t, read afresh by each request
    store,    \* store[t][w]: the deque of tenant t for window w
    answer,   \* answer[t]: the last RateLimitResult t got under config[t]
    history,  \* history[t][w]: every timestamp appended to store[t][w]
    granted   \* granted[t][w][i]: the limit history[t][w][i] was admitted under

vars == <<now, config, store, answer, history, granted>>

(***************************************************************************)
(* The answer of a check.  due is the tick at which the announced          *)
(* retry_after is over.                                                    *)
(***************************************************************************)
Answer(outcome, window, due) ==
    [outcome |-> outcome, window |-> window, due |-> due]

NoAnswer == Answer("none", "minute", 0)
Allowed  == Answer("allowed", "minute", 0)

Metered(t, w) == config[t].enabled /\ config[t].limit[w] # NoLimit

(* Mutated forms (of Evicted): the eviction is skipped; the boundary entry goes too. *)
EvictedNever(s, cutoff) == s
EvictedInclusive(s, cutoff) ==
    LET k == CHOOSE n \in 0..Len(s) :
                 /\ \A i \in 1..n : s[i] <= cutoff
                 /\ n < Len(s) => s[n + 1] > cutoff
    IN  SubSeq(s, k + 1, Len(s))

(***************************************************************************)
(* The deque s after its leading entries older than cutoff were popped.    *)
(* Only leading ones go: an entry the clock has not passed keeps what is   *)
(* behind it.                                                              *)
(***************************************************************************)
Evicted(s, cutoff) ==
    LET k == CHOOSE n \in 0..Len(s) :
                 /\ \A i \in 1..n : s[i] < cutoff
                 /\ n < Len(s) => s[n + 1] >= cutoff
    IN  SubSeq(s, k + 1, Len(s))

Swept(t, w) == Evicted(store[t][w], now - Span[w])

(* Mutated form (of Full): off by one, the limit itself still let through. *)
FullLate(t, w) == Metered(t, w) /\ Len(Swept(t, w)) > config[t].limit[w]

Full(t, w) == Metered(t, w) /\ Len(Swept(t, w)) >= config[t].limit[w]

(* Mutated form (of RetryAfter): the part of a second is dropped, not rounded up. *)
RetryAfterShort(s, w) ==
    LET secs == (s[1] + Span[w] - now) \div TicksPerSecond
    IN  IF secs > 1 THEN secs ELSE 1

(* max(1, int(store[0] + window_seconds - now) + 1), in seconds *)
RetryAfter(s, w) ==
    LET left == s[1] + Span[w] - now
        secs == (left \div TicksPerSecond) + 1
    IN  IF secs > 1 THEN secs ELSE 1

-----------------------------------------------------------------------------

Init ==
    /\ now = 0
    /\ config \in [Tenants -> Configs]
    /\ store = [t \in Tenants |-> [w \in Window |-> <<>>]]
    /\ answer = [t \in Tenants |-> NoAnswer]
    /\ history = [t \in Tenants |-> [w \in Window |-> <<>>]]
    /\ granted = [t \in Tenants |-> [w \in Window |-> <<>>]]

Tick ==
    /\ now < MaxTime
    /\ now' = now + 1
    /\ UNCHANGED <<config, store, answer, history, granted>>

(* A plan change or a policy edit; the deques are left as they are. *)
SetConfig(t) ==
    /\ \E c \in Configs : config' = [config EXCEPT ![t] = c]
    /\ answer' = [answer EXCEPT ![t] = NoAnswer]
    /\ UNCHANGED <<now, store, history, granted>>

(* Mutated form (of Admit): the request is appended to the unswept deque. *)
AdmitUnswept(t) ==
    /\ \A w \in Window : ~Full(t, w)
    /\ store' = [store EXCEPT ![t] = [w \in Window |->
           IF Metered(t, w) THEN Append(@[w], now) ELSE @[w]]]
    /\ history' = [history EXCEPT ![t] = [w \in Window |->
           IF Metered(t, w) THEN Append(@[w], now) ELSE @[w]]]
    /\ granted' = [granted EXCEPT ![t] = [w \in Window |->
           IF Metered(t, w) THEN Append(@[w], config[t].limit[w]) ELSE @[w]]]
    /\ answer' = [answer EXCEPT ![t] = Allowed]
    /\ UNCHANGED <<now, config>>

(* Mutated form (of Admit): a window without limit is recorded as well. *)
AdmitUnmetered(t) ==
    /\ \A w \in Window : ~Full(t, w)
    /\ store' = [store EXCEPT ![t] = [w \in Window |-> Append(Swept(t, w), now)]]
    /\ history' = [history EXCEPT ![t] = [w \in Window |-> Append(@[w], now)]]
    /\ granted' = [granted EXCEPT ![t] = [w \in Window |->
           Append(@[w], config[t].limit[w])]]
    /\ answer' = [answer EXCEPT ![t] = Allowed]
    /\ UNCHANGED <<now, config>>

(* Both windows have room: the timestamp is appended to each metered deque. *)
Admit(t) ==
    /\ \A w \in Window : ~Full(t, w)
    /\ store' = [store EXCEPT ![t] = [w \in Window |->
           IF Metered(t, w) THEN Append(Swept(t, w), now) ELSE @[w]]]
    /\ history' = [history EXCEPT ![t] = [w \in Window |->
           IF Metered(t, w) THEN Append(@[w], now) ELSE @[w]]]
    /\ granted' = [granted EXCEPT ![t] = [w \in Window |->
           IF Metered(t, w) THEN Append(@[w], config[t].limit[w]) ELSE @[w]]]
    /\ answer' = [answer EXCEPT ![t] = Allowed]
    /\ UNCHANGED <<now, config>>

(* The windows a check has swept by the time window w turns out to be full: *)
(* the minute is looked at first, and the hour is not looked at after it.   *)
SweptBy(w) == IF w = "minute" THEN {"minute"} ELSE Window

Refuse(t, w) ==
    /\ Full(t, w)
    /\ \A v \in SweptBy(w) \ {w} : ~Full(t, v)
    /\ store' = [store EXCEPT ![t] = [v \in Window |->
           IF v \in SweptBy(w) /\ Metered(t, v) THEN Swept(t, v) ELSE @[v]]]
    /\ answer' = [answer EXCEPT ![t] =
           IF Swept(t, w) = <<>>
           THEN Answer("raised", w, 0)       \* store[0] of an empty deque
           ELSE Answer("limited", w,
                       now + RetryAfter(Swept(t, w), w) * TicksPerSecond)]
    /\ UNCHANGED <<now, config, history, granted>>

(* The deques live in the process: a restart empties them. *)
Restart ==
    /\ store' = [t \in Tenants |-> [w \in Window |-> <<>>]]
    /\ history' = [t \in Tenants |-> [w \in Window |-> <<>>]]
    /\ granted' = [t \in Tenants |-> [w \in Window |-> <<>>]]
    /\ answer' = [t \in Tenants |-> NoAnswer]
    /\ UNCHANGED <<now, config>>

Next ==
    \/ Tick
    \/ Restart
    \/ \E t \in Tenants : SetConfig(t) \/ Admit(t)
    \/ \E t \in Tenants, w \in Window : Refuse(t, w)

Spec == Init /\ [][Next]_vars

-----------------------------------------------------------------------------

(* Mutated form (of Used): the boundary entry is not counted. *)
UsedExclusive(t, w) ==
    Cardinality({i \in DOMAIN store[t][w] : store[t][w][i] > now - Span[w]})

(* What GET /rate-limits reports: entries inside the window, counted       *)
(* without evicting anything, and what is left of the limit.               *)
Used(t, w) ==
    Cardinality({i \in DOMAIN store[t][w] : store[t][w][i] >= now - Span[w]})

Remaining(t, w) ==
    LET left == config[t].limit[w] - Used(t, w) IN IF left > 0 THEN left ELSE 0
-----------------------------------------------------------------------------

(* Every variable holds what check() puts there (rate_limiter.py 28-72). *)
TypeOK ==
    /\ now \in 0..MaxTime
    /\ config \in [Tenants -> Configs]
    /\ store \in [Tenants -> [Window -> Seq(Int)]]
    /\ history \in [Tenants -> [Window -> Seq(Int)]]
    /\ granted \in [Tenants -> [Window -> Seq(Nat)]]
    /\ answer \in [Tenants -> [outcome : {"none", "allowed", "limited", "raised"},
                                window  : Window,
                                due     : Int]]

(* q is the end of h, and what is missing of h is older than c. *)
Trails(q, h, c) ==
    /\ Len(q) <= Len(h)
    /\ \A i \in 1..Len(q) : q[i] = h[i + (Len(h) - Len(q))]
    /\ \A i \in 1..(Len(h) - Len(q)) : h[i] < c

(* h is in the order of time and nothing in it is later than n. *)
Ascending(h, n) ==
    /\ \A i \in 1..Len(h) : h[i] <= n
    /\ \A i \in 1..Len(h), j \in 1..Len(h) : i <= j => h[i] <= h[j]

(* Lazy eviction loses nothing that counts: the deque of each window is    *)
(* the history, in order, without requests already out of the window       *)
(* (_check_window 82-86).                                                  *)
StoreIsRecentHistory ==
    \A t \in Tenants, w \in Window :
        /\ Trails(store[t][w], history[t][w], now - Span[w])
        /\ Ascending(history[t][w], now)
        /\ Len(granted[t][w]) = Len(history[t][w])

(* The limit really limits: whatever the configuration changes in between, *)
(* when a request was let through under a limit of n, the n-th request     *)
(* before it was already more than a whole window old.  In other words no  *)
(* window that ends at an admission holds more admissions than the limit   *)
(* then in force (check, _check_window: evict, count, append).             *)
WindowLimit ==
    \A t \in Tenants, w \in Window :
        LET h == history[t][w]
            g == granted[t][w]
        IN  \A i \in DOMAIN h : i > g[i] => h[i - g[i]] < h[i] - Span[w]

(* The announced retry_after is honest in both directions as long as the   *)
(* limit was not lowered below what the deque holds: whoever comes back    *)
(* when it is over is not refused for that window, whoever comes back more *)
(* than a second early is (rate_limiter.py:25 and 90).                     *)
RetryAfterIsExact ==
    \A t \in Tenants :
        LET a == answer[t]
        IN  a.outcome = "limited" =>
                /\ (/\ now >= a.due
                     /\ Len(store[t][a.window]) <= config[t].limit[a.window])
                       => ~Full(t, a.window)
                /\ now < a.due - TicksPerSecond => Full(t, a.window)

(* The usage endpoint and the limiter count alike although one counts and  *)
(* the other evicts: a section that is switched on shows nothing remaining *)
(* exactly when the next check would refuse.  One that is switched off is  *)
(* shown like any other, for status (104-124) does not look at enabled, as *)
(* check does (39): it may show nothing remaining, and refuses nobody.     *)
StatusMatchesCheck ==
    \A t \in Tenants, w \in Window :
        config[t].limit[w] # NoLimit =>
            (Full(t, w) <=> config[t].enabled /\ Remaining(t, w) = 0)

(* The deques stay small: what one holds was admitted under a limit at     *)
(* least as large, so lazy eviction never lets one grow without bound.     *)
StoreBounded ==
    \A t \in Tenants, w \in Window :
        store[t][w] # <<>> =>
            \E i \in DOMAIN granted[t][w] : Len(store[t][w]) <= granted[t][w][i]

(* The deques implement the promise of SlidingWindow: counting afresh the  *)
(* whole history would let through and refuse the same requests.           *)
Abstract == INSTANCE SlidingWindow WITH
                admitted <- history,
                verdict <- [t \in Tenants |-> answer[t].outcome]

Refinement == Abstract!Spec
=============================================================================
