---------------------------- MODULE MCRateLimiter ----------------------------
(***************************************************************************)
(* RateLimiter on a small instance: half-second ticks, a "minute" of three *)
(* and an "hour" of five of them, so that both windows slide past several  *)
(* admissions before the clock stops.                                      *)
(***************************************************************************)
EXTENDS RateLimiter

MCSpan == [w \in Window |-> IF w = "minute" THEN 3 ELSE 5]

Limits(on, perMinute, perHour) ==
    [enabled |-> on,
     limit |-> [w \in Window |-> IF w = "minute" THEN perMinute ELSE perHour]]

(* Raised, lowered, removed and switched off limits, and a limit of zero. *)
MCConfigs ==
    {Limits(TRUE, 1, 2), Limits(TRUE, 2, 3), Limits(TRUE, 2, NoLimit),
     Limits(FALSE, 1, 1), Limits(TRUE, 0, 2)}
=============================================================================
