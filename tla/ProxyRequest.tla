----------------------------- MODULE ProxyRequest -----------------------------
(***************************************************************************)
(* The life of the requests in one worker process: the two proxy routes    *)
(* and the live playground of main.py, on the rate limiter of RateLimiter, *)
(* the plan of each account and the audit log.                             *)
(*                                                                         *)
(* All handlers are coroutines of one event loop: what they do between two *)
(* awaits is one step, and other requests run while one awaits its body,   *)
(* the upstream or a moderation service.  What the guardrails and the      *)
(* upstream answer is left open.                                           *)
(***************************************************************************)
EXTENDS Integers, Sequences, FiniteSets

CONSTANTS
    Requests,        \* the requests that may arrive
    Routes,          \* the routes in use
    Kinds,           \* the kinds of requests in use
    Tenants,         \* tenants; one with an account has a plan
    Plans,           \* the plans of users.PLANS
    NoPlan,          \* the plan of a tenant without account (self-hosted)
    Cap,             \* Cap[p]: monthly_requests of plan p, 0 for no cap
    PlanLimits,      \* PlanLimits[p]: the rate_limit section plan p is given
    WriteMayFail,    \* whether an audit row may be lost (audit.log swallows it)
    On,              \* the events the policies' webhook lists, {} if it is off
    Turn,            \* the tick at which a new month begins, by UTC
    Zone,            \* how many ticks local time is ahead of UTC
    Span, TicksPerSecond, Configs, NoLimit, MaxTime   \* as in RateLimiter

Route == {"openai", "anthropic", "playground"}

(* A request streams, or awaits an ML toxicity provider, or does neither;  *)
(* what streams do about toxicity is left to their own model.              *)
Kind == {"plain", "ml", "stream"}

ASSUME RoutesAssumption == Routes \subseteq Route /\ Kinds \subseteq Kind
ASSUME PlansAssumption == NoPlan \notin Plans /\ IsFiniteSet(Plans)
ASSUME CapAssumption == Cap \in [Plans -> Nat]
ASSUME PlanLimitsAssumption == PlanLimits \in [Plans -> Configs]
ASSUME RequestsAssumption == IsFiniteSet(Requests) /\ Tenants # {}
ASSUME CalendarAssumption == Turn \in Nat \ {0} /\ Zone \in Int /\ MaxTime \in Nat
ASSUME LimiterAssumption ==
    /\ Span \in [{"minute", "hour"} -> Nat \ {0}]
    /\ TicksPerSecond \in Nat \ {0} /\ NoLimit \notin Int
    /\ IsFiniteSet(Configs)
    /\ Configs \subseteq [enabled : BOOLEAN, limit : [{"minute", "hour"} -> Nat \cup {NoLimit}]]

VARIABLES
    now, config, store, answer, history, granted,   \* the rate limiter
    plan,      \* plan[t]: users.plan of t's account
    phase,     \* phase[r]: what r is waiting for
    req,       \* req[r]: what its handler holds on to across awaits
    admitted,  \* admitted[r]: when the checks let it through (-1: they did not)
    sent,      \* sent[r]: when its upstream call started (-1: it did not)
    rows,      \* rows[r]: outcomes of the audit rows written for r
    passedAt,  \* passedAt[r]: ts of r's row, if it is a passed one (-1: none)
    alerts,    \* alerts[r]: webhook events dispatched for r
    response,  \* response[r]: how r was answered
    peak       \* peak[t]: most proxied requests of t past the cap check at once

limiterVars == <<now, config, store, answer, history, granted>>
vars == <<now, config, store, answer, history, granted, plan, phase, req,
          admitted, sent, rows, passedAt, alerts, response, peak>>
log == <<rows, passedAt>>
calls == <<admitted, sent>>

Limiter == INSTANCE RateLimiter

Key      == {"account", "keyfile", "session"}
Phase    == {"idle", "body", "upstream", "moderation", "opening", "stream",
             "done"}
Outcome  == {"passed", "rate_limited", "input_blocked", "output_blocked"}
Alert    == Outcome \ {"passed"}
Response == {"none", "401", "limited", "capped", "blocked", "rejected", "ok",
             "failed", "streamed", "stream_rejected", "stream_cut"}

Request == [tenant : Tenants, route : Route, key : Key, kind : Kind,
            plan : Plans \cup {NoPlan}]

-----------------------------------------------------------------------------

(* audit.log appends one row; when the write fails the error is printed    *)
(* and the request goes on.                                                *)
Log(r, outcome) ==
    \/ /\ rows' = [rows EXCEPT ![r] = Append(@, outcome)]
       /\ passedAt' = [passedAt EXCEPT ![r] = IF outcome = "passed" THEN now ELSE @]
    \/ WriteMayFail /\ UNCHANGED log

(* webhook.dispatch starts a delivery, if the webhook is on for the event. *)
Dispatch(r, event) ==
    alerts' = [alerts EXCEPT ![r] = IF event \in On THEN Append(@, event) ELSE @]

Finish(r, how) ==
    /\ phase' = [phase EXCEPT ![r] = "done"]
    /\ response' = [response EXCEPT ![r] = how]

Of(t) == {r \in Requests : phase[r] # "idle" /\ req[r].tenant = t}

(***************************************************************************)
(* month_start: mktime reads the first of the month, taken from gmtime, as *)
(* local time, so the month counted begins that much before the UTC month, *)
(* or, west of UTC, after it.                                              *)
(***************************************************************************)
MonthStart == (IF now >= Turn THEN Turn ELSE 0) - Zone

(* get_monthly_request_count: the passed rows of the tenant since then. *)
Used(t) ==
    Cardinality({r \in Of(t) : passedAt[r] >= 0 /\ passedAt[r] >= MonthStart})

(* Mutated form (of CapReached): the last request of the month goes twice. *)
CapReachedLate(r) ==
    LET p == IF req[r].key = "account" THEN req[r].plan ELSE plan[req[r].tenant]
    IN  p # NoPlan /\ Cap[p] # 0 /\ Used(req[r].tenant) > Cap[p]

(***************************************************************************)
(* _check_monthly_limit.  A request that came with an account's proxy key  *)
(* is held to the plan read when it was authenticated, any other to the    *)
(* plan the tenant has now.                                                *)
(***************************************************************************)
CapReached(r) ==
    LET p == IF req[r].key = "account" THEN req[r].plan ELSE plan[req[r].tenant]
    IN  p # NoPlan /\ Cap[p] # 0 /\ Used(req[r].tenant) >= Cap[p]

(* Proxied requests of t the cap check has let through and not yet done. *)
PastCheck(t) ==
    {r \in Of(t) : req[r].route # "playground"
                   /\ phase[r] \in {"upstream", "moderation", "opening", "stream"}}

Init ==
    /\ Limiter!Init
    /\ plan \in [Tenants -> Plans \cup {NoPlan}]
    /\ \A t \in Tenants : plan[t] # NoPlan => config[t] = PlanLimits[plan[t]]
    /\ phase = [r \in Requests |-> "idle"]
    /\ req \in [Requests -> {[tenant |-> CHOOSE t \in Tenants : TRUE,
                              route |-> "openai", key |-> "keyfile",
                              kind |-> "plain", plan |-> NoPlan]}]
    /\ admitted = [r \in Requests |-> -1]
    /\ sent = [r \in Requests |-> -1]
    /\ rows = [r \in Requests |-> <<>>]
    /\ passedAt = [r \in Requests |-> -1]
    /\ alerts = [r \in Requests |-> <<>>]
    /\ response = [r \in Requests |-> "none"]
    /\ peak = [t \in Tenants |-> 0]

-----------------------------------------------------------------------------
(* Steps shared by the routes.                                             *)

(***************************************************************************)
(* The key is looked up before the body is read, so the user row in hand   *)
(* is as old as the body is slow.                                          *)
(***************************************************************************)
Authenticate(r, route) ==
    /\ route \in Routes /\ phase[r] = "idle"
    /\ \E t \in Tenants, k \in {"account", "keyfile"}, kind \in Kinds :
          /\ k = "account" => plan[t] # NoPlan
          /\ req' = [req EXCEPT ![r] =
                 [tenant |-> t, route |-> route, key |-> k, kind |-> kind,
                  plan |-> IF k = "account" THEN plan[t] ELSE NoPlan]]
    /\ \/ phase' = [phase EXCEPT ![r] = "body"] /\ UNCHANGED response
       \/ Finish(r, "401")                       \* no such key
    /\ UNCHANGED <<limiterVars, plan, calls, log, alerts, peak>>

Refused(r) ==
    \E w \in Limiter!Window :
       /\ Limiter!Refuse(req[r].tenant, w)
       /\ \/ /\ answer'[req[r].tenant].outcome = "limited"
             /\ Log(r, "rate_limited")
             /\ Dispatch(r, "rate_limited")
             /\ Finish(r, "limited")
          \/ /\ answer'[req[r].tenant].outcome = "raised"
             /\ Finish(r, "failed")
             /\ UNCHANGED <<log, alerts>>
       /\ UNCHANGED <<plan, req, calls, peak>>

(* Mutated form (of Capped): the refusal is announced like the limiter's. *)
CappedAnnounced(r) ==
    /\ CapReached(r)
    /\ Log(r, "rate_limited")
    /\ Dispatch(r, "rate_limited")
    /\ Finish(r, "capped")
    /\ UNCHANGED <<calls, peak>>

(* Over the cap: audited, but not announced. *)
Capped(r) ==
    /\ CapReached(r)
    /\ Log(r, "rate_limited")
    /\ Finish(r, "capped")
    /\ UNCHANGED <<alerts, calls, peak>>

(* Mutated form (of InputBlocked): the row has the playground's word for it. *)
InputBlockedMisnamed(r) ==
    /\ ~CapReached(r)
    /\ Log(r, "blocked")
    /\ Dispatch(r, "input_blocked")
    /\ Finish(r, "blocked")
    /\ UNCHANGED <<calls, peak>>

InputBlocked(r) ==
    /\ ~CapReached(r)
    /\ Log(r, "input_blocked")
    /\ Dispatch(r, "input_blocked")
    /\ Finish(r, "blocked")
    /\ UNCHANGED <<calls, peak>>

(* The call is made at once, but a stream is handed to the server as a     *)
(* generator, which makes the call when it is first asked for data.        *)
Forward(r) ==
    /\ ~CapReached(r)
    /\ admitted' = [admitted EXCEPT ![r] = now]
    /\ \/ /\ req[r].kind = "stream"
          /\ phase' = [phase EXCEPT ![r] = "opening"]
          /\ UNCHANGED sent
       \/ /\ req[r].kind # "stream"
          /\ phase' = [phase EXCEPT ![r] = "upstream"]
          /\ sent' = [sent EXCEPT ![r] = now]
    /\ peak' = [peak EXCEPT ![req[r].tenant] =
           LET n == Cardinality(PastCheck(req[r].tenant)) + 1
           IN  IF n > @ THEN n ELSE @]
    /\ UNCHANGED <<log, alerts, response>>

(* Mutated form (of Decide): a request is forwarded without being recorded *)
(* by the limiter.                                                         *)
DecideUnmetered(r) ==
    /\ phase[r] = "body"
    /\ UNCHANGED limiterVars
    /\ Capped(r) \/ InputBlocked(r) \/ Forward(r)
    /\ UNCHANGED <<plan, req>>

(* The body is there: limiter, monthly cap, input guardrails, in one step. *)
(* A body that is not JSON ends the request before any of them.            *)
Decide(r) ==
    /\ phase[r] = "body"
    /\ \/ /\ Finish(r, "failed")
          /\ UNCHANGED <<limiterVars, plan, req, calls, log, alerts, peak>>
       \/ Refused(r)
       \/ /\ Limiter!Admit(req[r].tenant)
          /\ Capped(r) \/ InputBlocked(r) \/ Forward(r)
          /\ UNCHANGED <<plan, req>>

(* Mutated form (of OutputBlocked): the refused answer is logged as passed. *)
OutputBlockedPassed(r) ==
    /\ Log(r, "passed")
    /\ Dispatch(r, "output_blocked")
    /\ Finish(r, "rejected")

OutputBlocked(r) ==
    /\ Log(r, "output_blocked")
    /\ Dispatch(r, "output_blocked")
    /\ Finish(r, "rejected")

Passed(r) ==
    /\ Log(r, "passed")
    /\ Finish(r, "ok")
    /\ UNCHANGED alerts

(***************************************************************************)
(* The upstream answered with an error status, could not be reached or     *)
(* timed out, sent something that is not JSON, or sent an answer the       *)
(* output guardrails judge; one without text passes at once.  Only an ML   *)
(* toxicity provider is awaited.                                           *)
(***************************************************************************)
Upstream(r) ==
    /\ phase[r] = "upstream"
    /\ \/ /\ Finish(r, "failed")
          /\ UNCHANGED <<log, alerts>>
       \/ OutputBlocked(r)
       \/ Passed(r)
       \/ /\ req[r].kind = "ml"
          /\ phase' = [phase EXCEPT ![r] = "moderation"]
          /\ UNCHANGED <<log, alerts, response>>
    /\ UNCHANGED <<limiterVars, plan, req, calls, peak>>

Moderated(r) ==
    /\ phase[r] = "moderation"
    /\ OutputBlocked(r) \/ Passed(r)
    /\ UNCHANGED <<limiterVars, plan, req, calls, peak>>

(* The server asks the generator of a stream for data: it calls upstream.  *)
StreamOpens(r) ==
    /\ phase[r] = "opening"
    /\ phase' = [phase EXCEPT ![r] = "stream"]
    /\ sent' = [sent EXCEPT ![r] = now]
    /\ UNCHANGED <<limiterVars, plan, req, admitted, log, alerts, response, peak>>

(***************************************************************************)
(* A stream ends: completely, refused by a guardrail half way, or cut: by  *)
(* an upstream error, by an upstream that stops without its end marker, by *)
(* an exception in the generator, or by a client that goes away, even      *)
(* before anything was asked of the generator.                             *)
(***************************************************************************)
StreamEnds(r) ==
    /\ \/ /\ phase[r] = "stream"
          /\ Log(r, "passed")
          /\ Finish(r, "streamed")
          /\ UNCHANGED alerts
       \/ /\ phase[r] = "stream"
          /\ Log(r, "output_blocked")
          /\ Dispatch(r, "output_blocked")
          /\ Finish(r, "stream_rejected")
       \/ /\ phase[r] \in {"opening", "stream"}
          /\ Finish(r, "stream_cut")
          /\ UNCHANGED <<log, alerts>>
    /\ UNCHANGED <<limiterVars, plan, req, calls, peak>>

-----------------------------------------------------------------------------
(* The routes.                                                             *)

ProxyOpenAI(r) ==
    \/ Authenticate(r, "openai")
    \/ req[r].route = "openai"
       /\ (\/ Decide(r) \/ Upstream(r) \/ Moderated(r)
           \/ StreamOpens(r) \/ StreamEnds(r))

ProxyAnthropic(r) ==
    \/ Authenticate(r, "anthropic")
    \/ req[r].route = "anthropic"
       /\ (\/ Decide(r) \/ Upstream(r) \/ Moderated(r)
           \/ StreamOpens(r) \/ StreamEnds(r))

(* A logged-in user's own test call: neither limited nor capped, and       *)
(* logged as passed whatever the provider answered.                        *)
PlaygroundOpen(r) ==
    /\ "playground" \in Routes /\ phase[r] = "idle"
    /\ \E t \in Tenants :
          /\ plan[t] # NoPlan
          /\ req' = [req EXCEPT ![r] =
                 [tenant |-> t, route |-> "playground", key |-> "session",
                  kind |-> "plain", plan |-> plan[t]]]
    /\ phase' = [phase EXCEPT ![r] = "body"]
    /\ UNCHANGED <<limiterVars, plan, calls, log, alerts, response, peak>>

PlaygroundForward(r) ==
    /\ phase[r] = "body"
    /\ \/ /\ \E how \in {"blocked", "failed"} : Finish(r, how)   \* failed: no key saved
          /\ UNCHANGED sent
       \/ /\ phase' = [phase EXCEPT ![r] = "upstream"]
          /\ sent' = [sent EXCEPT ![r] = now]
          /\ UNCHANGED response
    /\ UNCHANGED <<limiterVars, plan, req, admitted, log, alerts, peak>>

PlaygroundReply(r) ==
    /\ phase[r] = "upstream"
    /\ Passed(r)
    /\ UNCHANGED <<limiterVars, plan, req, calls, peak>>

PlaygroundLive(r) ==
    \/ PlaygroundOpen(r)
    \/ req[r].route = "playground" /\ (PlaygroundForward(r) \/ PlaygroundReply(r))

(* A plan bought or lost: UserStore.set_plan writes the account, then the  *)
(* rate_limit section of the tenant's policy.                              *)
SetPlan(t) ==
    /\ plan[t] # NoPlan
    /\ \E p \in Plans :
          /\ plan' = [plan EXCEPT ![t] = p]
          /\ Limiter!SetConfig(t)
          /\ config'[t] = PlanLimits[p]
    /\ UNCHANGED <<phase, req, calls, log, alerts, response, peak>>

Tick ==
    /\ Limiter!Tick
    /\ UNCHANGED <<plan, phase, req, calls, log, alerts, response, peak>>

(***************************************************************************)
(* The process stops and is started again.  What waited is never answered; *)
(* the audit log and the accounts are on disk, the limiter's deques not.   *)
(* The calls looked at are those of the process that runs now.             *)
(***************************************************************************)
Restart ==
    /\ Limiter!Restart
    /\ phase' = [r \in Requests |-> IF phase[r] = "idle" THEN "idle" ELSE "done"]
    /\ response' = [r \in Requests |->
           IF phase[r] \in {"idle", "done"} THEN response[r] ELSE "failed"]
    /\ admitted' = [r \in Requests |-> -1]
    /\ sent' = [r \in Requests |-> -1]
    /\ UNCHANGED <<plan, req, log, alerts, peak>>

Next ==
    \/ Tick
    \/ Restart
    \/ \E t \in Tenants : SetPlan(t)
    \/ \E r \in Requests : ProxyOpenAI(r) \/ ProxyAnthropic(r) \/ PlaygroundLive(r)

Spec == Init /\ [][Next]_vars

-----------------------------------------------------------------------------

(* Every variable holds what the handlers put there. *)
TypeOK ==
    /\ plan \in [Tenants -> Plans \cup {NoPlan}]
    /\ phase \in [Requests -> Phase]
    /\ req \in [Requests -> Request]
    /\ admitted \in [Requests -> {-1} \cup 0..MaxTime]
    /\ sent \in [Requests -> {-1} \cup 0..MaxTime]
    /\ rows \in [Requests -> Seq(Outcome)]
    /\ passedAt \in [Requests -> {-1} \cup 0..MaxTime]
    /\ alerts \in [Requests -> Seq(Alert)]
    /\ response \in [Requests -> Response]
    /\ peak \in [Tenants -> Nat]

(* The outcome an answer is recorded under; the answers not named here are *)
(* the ones the code records nowhere.                                      *)
OutcomeOf(how) ==
    CASE how \in {"ok", "streamed"}              -> "passed"
      [] how \in {"limited", "capped"}           -> "rate_limited"
      [] how = "blocked"                         -> "input_blocked"
      [] how \in {"rejected", "stream_rejected"} -> "output_blocked"
      [] OTHER                                   -> "none"

(* Whatever else happens meanwhile, a restart included, the audit log      *)
(* never contradicts the answer the client got: at most one row, with the  *)
(* outcome of the answer, and none before there is an answer (606-717,     *)
(* 722-854).                                                               *)
AuditMatchesResponse ==
    \A r \in Requests :
        /\ Len(rows[r]) <= 1
        /\ rows[r] # <<>> => rows[r][1] = OutcomeOf(response[r])

(* Exactly the refusals by limiter and guardrails of a proxied request     *)
(* that the webhook lists are announced to it, once, under the name the    *)
(* audit log uses; a refusal for the monthly cap is not announced          *)
(* (main.py 637-709, webhooks.py 54-57).                                   *)
RefusalsAlertOnce ==
    \A r \in Requests :
        alerts[r] =
            IF /\ req[r].route # "playground"
               /\ response[r] \in {"limited", "blocked", "rejected", "stream_rejected"}
               /\ OutcomeOf(response[r]) \in On
            THEN <<OutcomeOf(response[r])>>
            ELSE <<>>

(* The requests of one tenant that the cap check let through and that      *)
(* passed from one tick on and before another.                             *)
Gated(t, from, before) ==
    {r \in Of(t) : req[r].route # "playground" /\ passedAt[r] >= 0
                   /\ passedAt[r] >= from /\ passedAt[r] < before}

MaxOf(S) == CHOOSE x \in S : \A y \in S : y <= x

(* The monthly cap is checked before the upstream call and the request is  *)
(* counted after it (587-588, 716), so it can be overrun, but only by the  *)
(* requests that were under way together: by less than the most that ever  *)
(* were, whatever the plan changes and playground calls in between.  This  *)
(* is so from each month's start as audit.py 139 computes it to the end of *)
(* the UTC month: a whole month, and more, unless local time is behind UTC,*)
(* where nothing is counted for the first -Zone ticks of a month.          *)
CapOverrunBounded ==
    \A t \in Tenants, month \in {<<-Zone, Turn>>, <<Turn - Zone, MaxTime + 1>>} :
        LET gated == Gated(t, month[1], month[2])
        IN  (gated # {} /\ plan[t] # NoPlan /\ \A p \in Plans : Cap[p] # 0) =>
                Cardinality(gated) < MaxOf({Cap[p] : p \in Plans}) + peak[t]

(* The upstream calls a tenant's proxied requests start in the window w    *)
(* that ends at time end.                                                  *)
Calls(t, w, end) ==
    {r \in Of(t) : /\ req[r].route # "playground"
                   /\ sent[r] >= 0 /\ sent[r] >= end - Span[w] /\ sent[r] <= end}

(* Those of streams that were let through before that window.              *)
Waited(t, w, end) ==
    {r \in Calls(t, w, end) : req[r].kind = "stream" /\ admitted[r] < end - Span[w]}

(* How far the limiter protects the upstream: of the calls a process       *)
(* starts for a tenant in any window, at most the largest limit any of its *)
(* policies has are other than streams held up between being let through   *)
(* and being asked for data.  Nothing else is held up: what is let through *)
(* is sent at once (main.py 637-681, streaming.py 53-55).  Calls of the    *)
(* playground are not limited at all.                                      *)
UpstreamPaced ==
    \A t \in Tenants, w \in Limiter!Window, end \in 0..now :
        (\A c \in Configs : c.enabled /\ c.limit[w] # NoLimit) =>
            Cardinality(Calls(t, w, end) \ Waited(t, w, end))
                <= MaxOf({c.limit[w] : c \in Configs})
=============================================================================
