---------------------------- MODULE MCProxyRequest ----------------------------
(***************************************************************************)
(* ProxyRequest with two requests of one tenant, whose plan changes        *)
(* between one of an hourly limit of one request and one of two.  Both     *)
(* allow one request in a "minute" of one tick, and one in a month.  A     *)
(* tenant without account may also have a limit of zero.                   *)
(***************************************************************************)
EXTENDS ProxyRequest, TLC

MCSpan == [w \in {"minute", "hour"} |-> IF w = "minute" THEN 1 ELSE 2]

Limits(minute, hour) ==
    [enabled |-> TRUE,
     limit   |-> [w \in {"minute", "hour"} |-> IF w = "minute" THEN minute ELSE hour]]

MCPlans == {"free", "growth"}
MCCap == [p \in MCPlans |-> 1]
MCPlanLimits == [p \in MCPlans |-> Limits(1, IF p = "free" THEN 1 ELSE 2)]

MCConfigs == {Limits(0, 2), Limits(1, 1), Limits(1, 2)}

RequestSymmetry == Permutations(Requests)
=============================================================================
