---------------------------- MODULE SlidingWindow ----------------------------
(***************************************************************************)
(* What the rate limiter promises, without the deques it keeps: a request  *)
(* is let through exactly when every window its tenant has a limit for     *)
(* holds fewer admissions than the limit.  The whole history of admissions *)
(* is kept and counted afresh at every request.                            *)
(***************************************************************************)
EXTENDS Integers, Sequences, FiniteSets

CONSTANTS
    Tenants,   \* the tenants that send requests
    Span,      \* the length of the "minute" and of the "hour", in clock ticks
    Configs,   \* the rate_limit sections a tenant's policy may hold
    NoLimit    \* the value of a limit that is not configured

Window == {"minute", "hour"}

VARIABLES
    now,       \* the wall clock, in ticks
    config,    \* config[t]: the limits tenant t is under
    admitted,  \* admitted[t][w]: when t's requests recorded for window w came
    verdict    \* verdict[t]: the answer to t's last request

vars == <<now, config, admitted, verdict>>

Verdicts == {"none", "allowed", "limited", "raised"}

Metered(t, w) == config[t].enabled /\ config[t].limit[w] # NoLimit

(* The recorded requests of t still inside window w; the bounds are        *)
(* inclusive: a request exactly one window old counts.                     *)
InWindow(t, w) ==
    {i \in DOMAIN admitted[t][w] : admitted[t][w][i] >= now - Span[w]}

Exhausted(t, w) ==
    Metered(t, w) /\ Cardinality(InWindow(t, w)) >= config[t].limit[w]

Init ==
    /\ now = 0
    /\ config \in [Tenants -> Configs]
    /\ admitted = [t \in Tenants |-> [w \in Window |-> <<>>]]
    /\ verdict = [t \in Tenants |-> "none"]

Advance ==
    /\ now' = now + 1
    /\ UNCHANGED <<config, admitted, verdict>>

Reconfigure(t) ==
    /\ \E c \in Configs : config' = [config EXCEPT ![t] = c]
    /\ verdict' = [verdict EXCEPT ![t] = "none"]
    /\ UNCHANGED <<now, admitted>>

Allow(t) ==
    /\ \A w \in Window : ~Exhausted(t, w)
    /\ admitted' = [admitted EXCEPT ![t] =
           [w \in Window |-> IF Metered(t, w) THEN Append(@[w], now) ELSE @[w]]]
    /\ verdict' = [verdict EXCEPT ![t] = "allowed"]
    /\ UNCHANGED <<now, config>>

(* A refused request is not recorded.  A limit of zero is answered by an   *)
(* exception when there is no request whose expiry could be announced.     *)
Limit(t) ==
    \E w \in Window :
       /\ Exhausted(t, w)
       /\ verdict' = [verdict EXCEPT ![t] =
              IF InWindow(t, w) = {} THEN "raised" ELSE "limited"]
       /\ UNCHANGED <<now, config, admitted>>

(* A restart of the process forgets every admission.                       *)
Forget ==
    /\ admitted' = [t \in Tenants |-> [w \in Window |-> <<>>]]
    /\ verdict' = [t \in Tenants |-> "none"]
    /\ UNCHANGED <<now, config>>

Next ==
    \/ Advance
    \/ Forget
    \/ \E t \in Tenants : Reconfigure(t) \/ Allow(t) \/ Limit(t)

Spec == Init /\ [][Next]_vars
=============================================================================
