----------------------------- MODULE ProxyProofs -----------------------------

(***************************************************************************)
(* Proofs about ProxyRequest, for any number of requests and tenants and   *)
(* any plans and limits: types, that neither the audit log nor the webhook *)
(* contradicts what a client was told, how far a cap can be overrun, and   *)
(* how many calls of a tenant reach the upstream in a window.              *)
(***************************************************************************)
EXTENDS ProxyRequest, FiniteSetTheorems, SequenceTheorems, WellFoundedInduction, TLAPS

(* Whether a request answered so is dispatched to the webhook. *)
Announced(route, how) ==
    /\ route # "playground"
    /\ how \in {"limited", "blocked", "rejected", "stream_rejected"}

(* The books about r: nothing before it is answered, then at most one row, *)
(* and an event for a refusal, all of the same outcome.                    *)
BooksOf(r) ==
    /\ phase[r] # "done" => rows[r] = <<>> /\ response[r] = "none"
    /\ rows[r] # <<>> => rows[r] = <<OutcomeOf(response[r])>>
    /\ alerts[r] = IF Announced(req[r].route, response[r]) /\ OutcomeOf(response[r]) \in On
                   THEN <<OutcomeOf(response[r])>> ELSE <<>>

(* The types of what a request's handler keeps. *)
HandlerOK ==
    /\ phase \in [Requests -> Phase]
    /\ req \in [Requests -> Request]
    /\ rows \in [Requests -> Seq(Outcome)]
    /\ passedAt \in [Requests -> {-1} \cup 0..MaxTime]
    /\ alerts \in [Requests -> Seq(Alert)]
    /\ response \in [Requests -> Response]

(* And the types of what the requests share. *)
SharedOK ==
    /\ now \in 0..MaxTime
    /\ plan \in [Tenants -> Plans \cup {NoPlan}]
    /\ admitted \in [Requests -> {-1} \cup 0..MaxTime]
    /\ sent \in [Requests -> {-1} \cup 0..MaxTime]
    /\ peak \in [Tenants -> Nat]

Books == \A r \in Requests : BooksOf(r)

IInv == HandlerOK /\ SharedOK /\ Books

-----------------------------------------------------------------------------

LEMMA InitIInv == Init => IInv
<1> SUFFICES ASSUME Init PROVE IInv
  OBVIOUS
<1>1. (CHOOSE t \in Tenants : TRUE) \in Tenants
  BY RequestsAssumption
<1>2. now = 0 /\ MaxTime \in Nat
  BY CalendarAssumption DEF Init, Limiter!Init
<1>3. req \in [Requests -> Request]
  BY <1>1 DEF Init, Request, Route, Key, Kind
<1>4. HandlerOK
  BY <1>2, <1>3 DEF Init, HandlerOK, Phase, Response
<1>5. SharedOK
  BY <1>2 DEF Init, SharedOK
<1>6. Books
  BY DEF Init, Books, BooksOf, Announced
<1> QED BY <1>4, <1>5, <1>6 DEF IInv

LEMMA SingleRow == \A x : Append(<<>>, x) = <<x>>
OBVIOUS

(* A handler that answers keeps the books, if it logs and announces under  *)
(* the outcome of its answer, and announces what is to be announced.       *)
LEMMA FinishKeeps ==
  ASSUME IInv, NEW r \in Requests, phase[r] # "done",
         NEW how \in Response \ {"none"}, Finish(r, how),
         req' \in [Requests -> Request], \A q \in Requests \ {r} : req'[q] = req[q],
         (OutcomeOf(how) \in Outcome /\ Log(r, OutcomeOf(how))) \/ UNCHANGED log,
         IF Announced(req'[r].route, how)
         THEN Dispatch(r, OutcomeOf(how)) ELSE UNCHANGED alerts
  PROVE  HandlerOK' /\ Books'
<1>1. rows[r] = <<>> /\ alerts[r] = <<>>
  BY DEF IInv, Books, BooksOf, Announced
<1>2. /\ phase' = [phase EXCEPT ![r] = "done"]
      /\ response' = [response EXCEPT ![r] = how]
  BY DEF Finish
<1>3. \/ rows' = [rows EXCEPT ![r] = <<OutcomeOf(how)>>] /\ OutcomeOf(how) \in Outcome
      \/ rows' = rows
  BY <1>1, SingleRow DEF Log, log
<1>4. passedAt' \in [Requests -> {-1} \cup 0..MaxTime]
  BY DEF Log, log, IInv, HandlerOK, SharedOK
<1>5. alerts' = [alerts EXCEPT ![r] =
          IF Announced(req'[r].route, how) /\ OutcomeOf(how) \in On
          THEN <<OutcomeOf(how)>> ELSE <<>>]
  <2>1. alerts \in [Requests -> Seq(Alert)]
    BY DEF IInv, HandlerOK
  <2>2. CASE Announced(req'[r].route, how)
    <3>1. Dispatch(r, OutcomeOf(how))
      BY <2>2
    <3>2. alerts' = [alerts EXCEPT ![r] =
              IF OutcomeOf(how) \in On THEN Append(<<>>, OutcomeOf(how)) ELSE <<>>]
      BY <1>1, <2>1, <3>1 DEF Dispatch
    <3> QED BY <2>2, <3>2, SingleRow
  <2>3. CASE ~Announced(req'[r].route, how)
    <3>1. alerts' = alerts
      BY <2>3
    <3> QED BY <1>1, <2>1, <2>3, <3>1
  <2> QED BY <2>2, <2>3
<1>6. Announced(req'[r].route, how) => OutcomeOf(how) \in Alert
  BY DEF Announced, OutcomeOf, Alert, Outcome
<1>7. HandlerOK'
  <2>1. rows' \in [Requests -> Seq(Outcome)]
    <3>1. OutcomeOf(how) \in Outcome => <<OutcomeOf(how)>> \in Seq(Outcome)
      OBVIOUS
    <3> QED BY <1>3, <3>1 DEF IInv, HandlerOK
  <2>2. alerts' \in [Requests -> Seq(Alert)]
    BY <1>5, <1>6 DEF IInv, HandlerOK
  <2> QED BY <1>2, <1>4, <2>1, <2>2 DEF IInv, HandlerOK, Phase
<1>8. Books'
  <2>1. BooksOf(r)'
    BY <1>1, <1>2, <1>3, <1>5 DEF BooksOf, IInv, HandlerOK
  <2>2. ASSUME NEW q \in Requests, q # r PROVE BooksOf(q)'
    <3>1. /\ phase'[q] = phase[q] /\ response'[q] = response[q] /\ rows'[q] = rows[q]
          /\ alerts'[q] = alerts[q] /\ req'[q] = req[q]
      BY <1>2, <1>3, <1>5, <2>2 DEF IInv, HandlerOK
    <3> QED BY <3>1 DEF IInv, Books, BooksOf
  <2> QED BY <2>1, <2>2 DEF Books
<1> QED BY <1>7, <1>8

(* A handler that only goes on, or starts, changes no books. *)
LEMMA MoveKeeps ==
  ASSUME IInv, NEW r \in Requests, phase[r] # "done",
         NEW p \in Phase \ {"done"}, phase' = [phase EXCEPT ![r] = p],
         req' \in [Requests -> Request], \A q \in Requests \ {r} : req'[q] = req[q],
         UNCHANGED <<log, alerts, response>>
  PROVE  HandlerOK' /\ Books'
<1>1. HandlerOK'
  BY DEF IInv, HandlerOK, log
<1>2. ASSUME NEW q \in Requests PROVE BooksOf(q)'
  <2>1. rows' = rows /\ alerts' = alerts /\ response' = response
    BY DEF log
  <2>2. CASE q = r
    BY <2>1, <2>2 DEF IInv, HandlerOK, Books, BooksOf, Announced
  <2>3. CASE q # r
    BY <2>1, <2>3 DEF IInv, HandlerOK, Books, BooksOf
  <2> QED BY <2>2, <2>3
<1> QED BY <1>1, <1>2 DEF Books

LEMMA SharedUntouched ==
  ASSUME IInv, now' = now, UNCHANGED <<plan, calls, peak>>
  PROVE  SharedOK'
BY DEF IInv, SharedOK, calls

LEMMA RequestKept ==
  ASSUME IInv, UNCHANGED req
  PROVE  req' \in [Requests -> Request] /\ \A q \in Requests : req'[q] = req[q]
BY DEF IInv, HandlerOK

LEMMA Outcomes ==
  /\ \A how \in {"ok", "streamed"} : OutcomeOf(how) = "passed"
  /\ \A how \in {"limited", "capped"} : OutcomeOf(how) = "rate_limited"
  /\ OutcomeOf("blocked") = "input_blocked"
  /\ \A how \in {"rejected", "stream_rejected"} : OutcomeOf(how) = "output_blocked"
BY DEF OutcomeOf

(* Forwarding a request counts it among those past the cap check. *)
LEMMA ForwardKeeps ==
  ASSUME IInv, NEW r \in Requests, phase[r] = "body", Forward(r), now' = now,
         UNCHANGED <<plan, req>>
  PROVE  IInv'
<1>1. HandlerOK' /\ Books'
  <2>1. PICK p \in {"opening", "upstream"} : phase' = [phase EXCEPT ![r] = p]
    BY DEF Forward
  <2>3. p \in Phase \ {"done"} /\ phase[r] # "done"
    BY <2>1 DEF Phase
  <2>2. UNCHANGED <<log, alerts, response>>
    BY DEF Forward
  <2> QED BY <2>1, <2>2, <2>3, RequestKept, MoveKeeps
<1>2. SharedOK'
  <2>1. /\ sent' \in [Requests -> {-1} \cup 0..MaxTime]
        /\ admitted' \in [Requests -> {-1} \cup 0..MaxTime]
    BY DEF Forward, IInv, SharedOK
  <2>2. ASSUME NEW t \in Tenants PROVE Cardinality(PastCheck(t)) \in Nat
    <3>1. PastCheck(t) \subseteq Requests
      BY DEF PastCheck, Of
    <3> QED BY <3>1, RequestsAssumption, FS_Subset, FS_CardinalityType
  <2>3. req[r].tenant \in Tenants
    BY DEF IInv, HandlerOK, Request
  <2>4. peak' \in [Tenants -> Nat]
    BY <2>2, <2>3 DEF Forward, IInv, SharedOK
  <2> QED BY <2>1, <2>4 DEF IInv, SharedOK
<1> QED BY <1>1, <1>2 DEF IInv

LEMMA AuthenticateKeeps ==
  ASSUME IInv, NEW r \in Requests, NEW route \in {"openai", "anthropic"},
         Authenticate(r, route)
  PROVE  IInv'
<1>1. /\ now' = now /\ phase[r] = "idle"
      /\ UNCHANGED <<plan, calls, log, alerts, peak>>
  BY DEF Authenticate, limiterVars
<1>2. PICK t \in Tenants, k \in {"account", "keyfile"}, kind \in Kinds :
          /\ k = "account" => plan[t] # NoPlan
          /\ req' = [req EXCEPT ![r] =
                 [tenant |-> t, route |-> route, key |-> k, kind |-> kind,
                  plan |-> IF k = "account" THEN plan[t] ELSE NoPlan]]
  BY DEF Authenticate
<1>3. [tenant |-> t, route |-> route, key |-> k, kind |-> kind,
       plan |-> IF k = "account" THEN plan[t] ELSE NoPlan] \in Request
  BY RoutesAssumption DEF Request, Route, Key, Kind, IInv, SharedOK
<1>4. req' \in [Requests -> Request] /\ \A q \in Requests \ {r} : req'[q] = req[q]
  BY <1>2, <1>3 DEF IInv, HandlerOK
<1>5. HandlerOK' /\ Books'
  <2>1. CASE phase' = [phase EXCEPT ![r] = "body"] /\ UNCHANGED response
    BY <1>1, <1>4, <2>1, MoveKeeps DEF Phase
  <2>2. CASE Finish(r, "401")
    BY <1>1, <1>4, <2>2, FinishKeeps DEF Announced, Response
  <2> QED BY <2>1, <2>2 DEF Authenticate
<1> QED BY <1>1, <1>5, SharedUntouched DEF IInv

LEMMA DecideKeeps ==
  ASSUME IInv, NEW r \in Requests, req[r].route # "playground", Decide(r)
  PROVE  IInv'
<1> USE RequestKept
<1>1. CASE /\ Finish(r, "failed")
           /\ UNCHANGED <<limiterVars, plan, req, calls, log, alerts, peak>>
  <2>1. phase[r] # "done" /\ now' = now
    BY <1>1 DEF Decide, limiterVars
  <2>2. HandlerOK' /\ Books'
    BY <1>1, <2>1, FinishKeeps DEF Announced, Response
  <2> QED BY <1>1, <2>1, <2>2, SharedUntouched DEF IInv
<1>2. CASE Refused(r)
  <2>1. /\ phase[r] # "done" /\ now' = now
        /\ UNCHANGED <<plan, req, calls, peak>>
    BY <1>2 DEF Decide, Refused, Limiter!Refuse
  <2>2. HandlerOK' /\ Books'
    <3>1. CASE Log(r, "rate_limited") /\ Dispatch(r, "rate_limited") /\ Finish(r, "limited")
      BY <2>1, <3>1, FinishKeeps, Outcomes DEF Announced, Response, Outcome
    <3>2. CASE Finish(r, "failed") /\ UNCHANGED <<log, alerts>>
      BY <2>1, <3>2, FinishKeeps DEF Announced, Response
    <3> QED BY <1>2, <3>1, <3>2 DEF Refused
  <2> QED BY <2>1, <2>2, SharedUntouched DEF IInv
<1>3. CASE /\ Limiter!Admit(req[r].tenant)
           /\ Capped(r) \/ InputBlocked(r) \/ Forward(r)
           /\ UNCHANGED <<plan, req>>
  <2>1. phase[r] = "body" /\ now' = now /\ UNCHANGED <<plan, req>>
    BY <1>3 DEF Decide, Limiter!Admit
  <2>2. CASE Capped(r)
    <3>1. HandlerOK' /\ Books'
      BY <2>1, <2>2, FinishKeeps, Outcomes DEF Capped, Announced, Response, Outcome
    <3>2. SharedOK'
      BY <2>1, <2>2, SharedUntouched DEF Capped
    <3> QED BY <3>1, <3>2 DEF IInv
  <2>3. CASE InputBlocked(r)
    <3>1. HandlerOK' /\ Books'
      BY <2>1, <2>3, FinishKeeps, Outcomes DEF InputBlocked, Announced, Response, Outcome
    <3>2. SharedOK'
      BY <2>1, <2>3, SharedUntouched DEF InputBlocked
    <3> QED BY <3>1, <3>2 DEF IInv
  <2>4. CASE Forward(r)
    BY <2>1, <2>4, ForwardKeeps
  <2> QED BY <1>3, <2>2, <2>3, <2>4
<1> QED BY <1>1, <1>2, <1>3 DEF Decide

(* The ways a complete answer is passed on or refused. *)
LEMMA AnswerKeeps ==
  ASSUME IInv, NEW r \in Requests, phase[r] # "done", UNCHANGED req,
         (req[r].route # "playground" /\ OutputBlocked(r)) \/ Passed(r)
  PROVE  HandlerOK' /\ Books'
<1> USE RequestKept
<1>1. CASE req[r].route # "playground" /\ OutputBlocked(r)
  BY <1>1, FinishKeeps, Outcomes DEF OutputBlocked, Announced, Response, Outcome
<1>2. CASE Passed(r)
  BY <1>2, FinishKeeps, Outcomes DEF Passed, Announced, Response, Outcome
<1> QED BY <1>1, <1>2

LEMMA UpstreamKeeps ==
  ASSUME IInv, NEW r \in Requests, req[r].route # "playground",
         Upstream(r) \/ Moderated(r)
  PROVE  IInv'
<1> USE RequestKept
<1>1. phase[r] # "done" /\ now' = now /\ UNCHANGED <<plan, req, calls, peak>>
  BY DEF Upstream, Moderated, limiterVars
<1>2. HandlerOK' /\ Books'
  <2>1. CASE OutputBlocked(r) \/ Passed(r)
    BY <1>1, <2>1, AnswerKeeps
  <2>2. CASE Finish(r, "failed") /\ UNCHANGED <<log, alerts>>
    BY <1>1, <2>2, FinishKeeps DEF Announced, Response
  <2>3. CASE /\ phase' = [phase EXCEPT ![r] = "moderation"]
             /\ UNCHANGED <<log, alerts, response>>
    BY <1>1, <2>3, MoveKeeps DEF Phase
  <2> QED BY <2>1, <2>2, <2>3 DEF Upstream, Moderated
<1> QED BY <1>1, <1>2, SharedUntouched DEF IInv

LEMMA StreamOpenKeeps ==
  ASSUME IInv, NEW r \in Requests, StreamOpens(r)
  PROVE  IInv'
<1>1. /\ phase[r] # "done" /\ now' = now /\ "stream" \in Phase \ {"done"}
      /\ phase' = [phase EXCEPT ![r] = "stream"]
      /\ UNCHANGED <<log, alerts, response, req>>
  BY DEF StreamOpens, limiterVars, Phase
<1>2. HandlerOK' /\ Books'
  BY <1>1, RequestKept, MoveKeeps
<1>3. SharedOK'
  BY <1>1 DEF StreamOpens, IInv, SharedOK
<1> QED BY <1>2, <1>3 DEF IInv

LEMMA StreamEndKeeps ==
  ASSUME IInv, NEW r \in Requests, req[r].route # "playground", StreamEnds(r)
  PROVE  IInv'
<1> USE RequestKept
<1>1. phase[r] # "done" /\ now' = now /\ UNCHANGED <<plan, req, calls, peak>>
  BY DEF StreamEnds, limiterVars
<1>2. HandlerOK' /\ Books'
  <2>1. CASE Log(r, "passed") /\ Finish(r, "streamed") /\ UNCHANGED alerts
    BY <1>1, <2>1, FinishKeeps, Outcomes DEF Announced, Response, Outcome
  <2>2. CASE /\ Log(r, "output_blocked") /\ Dispatch(r, "output_blocked")
             /\ Finish(r, "stream_rejected")
    BY <1>1, <2>2, FinishKeeps, Outcomes DEF Announced, Response, Outcome
  <2>3. CASE Finish(r, "stream_cut") /\ UNCHANGED <<log, alerts>>
    BY <1>1, <2>3, FinishKeeps DEF Announced, Response
  <2> QED BY <2>1, <2>2, <2>3 DEF StreamEnds
<1> QED BY <1>1, <1>2, SharedUntouched DEF IInv

LEMMA PlaygroundKeeps ==
  ASSUME IInv, NEW r \in Requests, PlaygroundLive(r)
  PROVE  IInv'
<1>1. CASE PlaygroundOpen(r)
  <2>1. /\ now' = now /\ phase[r] = "idle" /\ phase' = [phase EXCEPT ![r] = "body"]
        /\ UNCHANGED <<plan, calls, log, alerts, response, peak>>
    BY <1>1 DEF PlaygroundOpen, limiterVars
  <2>2. PICK t \in Tenants :
            /\ plan[t] # NoPlan
            /\ req' = [req EXCEPT ![r] =
                   [tenant |-> t, route |-> "playground", key |-> "session",
                    kind |-> "plain", plan |-> plan[t]]]
    BY <1>1 DEF PlaygroundOpen
  <2>3. [tenant |-> t, route |-> "playground", key |-> "session",
         kind |-> "plain", plan |-> plan[t]] \in Request
    BY DEF Request, Route, Key, Kind, IInv, SharedOK
  <2>4. req' \in [Requests -> Request] /\ \A q \in Requests \ {r} : req'[q] = req[q]
    BY <2>2, <2>3 DEF IInv, HandlerOK
  <2>5. HandlerOK' /\ Books'
    BY <2>1, <2>4, MoveKeeps DEF Phase
  <2> QED BY <2>1, <2>5, SharedUntouched DEF IInv
<1>2. CASE req[r].route = "playground" /\ PlaygroundForward(r)
  <2>1. /\ now' = now /\ phase[r] # "done"
        /\ UNCHANGED <<plan, req, admitted, log, alerts, peak>>
    BY <1>2 DEF PlaygroundForward, limiterVars
  <2>2. HandlerOK' /\ Books'
    <3>1. ASSUME NEW how \in {"blocked", "failed"}, Finish(r, how)
          PROVE  HandlerOK' /\ Books'
      BY <1>2, <2>1, <3>1, RequestKept, FinishKeeps DEF Announced, Response
    <3>2. CASE phase' = [phase EXCEPT ![r] = "upstream"] /\ UNCHANGED response
      BY <2>1, <3>2, RequestKept, MoveKeeps DEF Phase
    <3> QED BY <1>2, <3>1, <3>2 DEF PlaygroundForward
  <2>3. SharedOK'
    BY <1>2, <2>1 DEF PlaygroundForward, IInv, SharedOK
  <2> QED BY <2>2, <2>3 DEF IInv
<1>3. CASE req[r].route = "playground" /\ PlaygroundReply(r)
  <2>1. /\ now' = now /\ phase[r] # "done" /\ UNCHANGED <<plan, req, calls, peak>>
        /\ Passed(r)
    BY <1>3 DEF PlaygroundReply, limiterVars
  <2> QED BY <2>1, AnswerKeeps, SharedUntouched DEF IInv
<1> QED BY <1>1, <1>2, <1>3 DEF PlaygroundLive

LEMMA RestartKeeps ==
  ASSUME IInv, Restart
  PROVE  IInv'
<1>1. now' = now /\ UNCHANGED <<plan, req, rows, passedAt, alerts, peak>>
  BY DEF Restart, Limiter!Restart, log
<1>2. phase' = [r \in Requests |-> IF phase[r] = "idle" THEN "idle" ELSE "done"]
  BY DEF Restart
<1>3. response' = [r \in Requests |->
          IF phase[r] \in {"idle", "done"} THEN response[r] ELSE "failed"]
  BY DEF Restart
<1>4. HandlerOK'
  BY <1>1, <1>2, <1>3 DEF IInv, HandlerOK, Phase, Response
<1>5. SharedOK'
  BY <1>1 DEF Restart, IInv, SharedOK
<1>6. ASSUME NEW r \in Requests PROVE BooksOf(r)'
  <2>1. BooksOf(r) /\ rows'[r] = rows[r] /\ alerts'[r] = alerts[r] /\ req'[r] = req[r]
    BY <1>1 DEF IInv, Books
  <2>2. CASE phase[r] \in {"idle", "done"}
    <3>1. phase'[r] = phase[r] /\ response'[r] = response[r]
      BY <1>2, <1>3, <2>2
    <3> QED BY <2>1, <3>1 DEF BooksOf
  <2>3. CASE phase[r] \notin {"idle", "done"}
    <3>1. phase'[r] = "done" /\ response'[r] = "failed" /\ rows[r] = <<>> /\ alerts[r] = <<>>
      BY <1>2, <1>3, <2>1, <2>3 DEF BooksOf, Announced
    <3> QED BY <2>1, <3>1 DEF BooksOf, Announced
  <2> QED BY <2>2, <2>3
<1> QED BY <1>4, <1>5, <1>6 DEF IInv, Books

LEMMA NextKeeps ==
  ASSUME IInv, [Next]_vars
  PROVE  IInv'
<1>1. CASE Tick
  <2>1. now' \in 0..MaxTime
    BY <1>1, CalendarAssumption DEF Tick, Limiter!Tick, IInv, SharedOK
  <2> QED BY <1>1, <2>1
      DEF Tick, IInv, HandlerOK, SharedOK, Books, BooksOf, log, calls
<1>2. ASSUME NEW t \in Tenants, SetPlan(t) PROVE IInv'
  <2>1. /\ now' = now /\ UNCHANGED <<phase, req, calls, log, alerts, response, peak>>
    BY <1>2 DEF SetPlan, Limiter!SetConfig
  <2>2. plan' \in [Tenants -> Plans \cup {NoPlan}]
    BY <1>2 DEF SetPlan, IInv, SharedOK
  <2> QED BY <2>1, <2>2 DEF IInv, HandlerOK, SharedOK, Books, BooksOf, log, calls
<1>3. ASSUME NEW r \in Requests, ProxyOpenAI(r) PROVE IInv'
  BY <1>3, AuthenticateKeeps, DecideKeeps, UpstreamKeeps, StreamOpenKeeps,
     StreamEndKeeps DEF ProxyOpenAI
<1>4. ASSUME NEW r \in Requests, ProxyAnthropic(r) PROVE IInv'
  BY <1>4, AuthenticateKeeps, DecideKeeps, UpstreamKeeps, StreamOpenKeeps,
     StreamEndKeeps DEF ProxyAnthropic
<1>5. ASSUME NEW r \in Requests, PlaygroundLive(r) PROVE IInv'
  BY <1>5, PlaygroundKeeps
<1>6. CASE UNCHANGED vars
  BY <1>6 DEF vars, IInv, HandlerOK, SharedOK, Books, BooksOf
<1> QED BY <1>1, <1>2, <1>3, <1>4, <1>5, <1>6, RestartKeeps DEF Next

LEMMA IInvHolds == Spec => []IInv
BY InitIInv, NextKeeps, PTL DEF Spec

-----------------------------------------------------------------------------

(* Every variable keeps its type, whatever requests, plan changes and lost *)
(* rows come together.                                                     *)
THEOREM TypeCorrect == Spec => []TypeOK
<1>1. IInv => TypeOK
  BY DEF IInv, HandlerOK, SharedOK, TypeOK
<1> QED BY <1>1, IInvHolds, PTL

(* No request has more than one audit row, nor one that contradicts the    *)
(* answer its client got (main.py 606-717, 722-854).                       *)
THEOREM AuditNeverContradicts == Spec => []AuditMatchesResponse
<1>1. IInv => AuditMatchesResponse
  <2>1. ASSUME IInv, NEW r \in Requests
        PROVE  Len(rows[r]) <= 1 /\ (rows[r] # <<>> => rows[r][1] = OutcomeOf(response[r]))
    <3>1. rows[r] = <<>> \/ rows[r] = <<OutcomeOf(response[r])>>
      BY <2>1 DEF IInv, Books, BooksOf
    <3>2. \A x : Len(<<x>>) = 1 /\ <<x>>[1] = x /\ Len(<<>>) = 0
      OBVIOUS
    <3>3. CASE rows[r] = <<>>
      BY <3>2, <3>3
    <3>4. CASE rows[r] = <<OutcomeOf(response[r])>>
      BY <3>2, <3>4
    <3> QED BY <3>1, <3>3, <3>4
  <2> QED BY <2>1 DEF AuditMatchesResponse
<1> QED BY <1>1, IInvHolds, PTL

(* Each refusal of a proxied request by limiter or guardrail is announced  *)
(* exactly once, under its outcome, and nothing else is (main.py 637-709). *)
THEOREM RefusalsAreAnnouncedOnce == Spec => []RefusalsAlertOnce
<1>1. IInv => RefusalsAlertOnce
  BY DEF IInv, Books, BooksOf, Announced, RefusalsAlertOnce
<1> QED BY <1>1, IInvHolds, PTL-----------------------------------------------------------------------------

(* The monthly cap.                                                        *)

Months == {<<-Zone, Turn>>, <<Turn - Zone, MaxTime + 1>>}

Live == {"upstream", "moderation", "opening", "stream"}

(* The requests of t let through by the cap check that the month may yet   *)
(* be charged with: those it holds, and while it lasts those under way.    *)
Charge(t, month) ==
    {q \in Of(t) :
        /\ req[q].route # "playground"
        /\ \/ passedAt[q] >= 0 /\ passedAt[q] >= month[1] /\ passedAt[q] < month[2]
           \/ now < month[2] /\ phase[q] \in Live}

(* The cap check bounds what it lets through by the cap and by how many    *)
(* were let through together.                                              *)
WithinCap(t, month) ==
    (Charge(t, month) # {} /\ plan[t] # NoPlan /\ \A p \in Plans : Cap[p] # 0) =>
        Cardinality(Charge(t, month)) < MaxOf({Cap[p] : p \in Plans}) + peak[t]

(* Only a request that is done has passed, and one that came with an       *)
(* account's key has the plan of an account.                               *)
CapFacts ==
    /\ \A r \in Requests : phase[r] # "done" => passedAt[r] = -1
    /\ \A r \in Requests : req[r].key = "account" => req[r].plan \in Plans

CapInv == CapFacts /\ \A t \in Tenants, month \in Months : WithinCap(t, month)

(* The largest of finitely many numbers. *)
LEMMA FiniteMax ==
  ASSUME NEW S, S \subseteq Nat, S # {}, IsFiniteSet(S)
  PROVE  MaxOf(S) \in S /\ \A y \in S : y <= MaxOf(S)
<1> DEFINE HasMax(A) == \E x \in A : \A y \in A : y <= x
           T == {A \in FiniteSubsetsOf(Nat) : A # {} /\ ~HasMax(A)}
<1>1. HasMax(S)
  <2> SUFFICES ASSUME ~HasMax(S) PROVE FALSE
    OBVIOUS
  <2>1. T # {} /\ T \subseteq FiniteSubsetsOf(Nat)
    BY DEF FiniteSubsetsOf
  <2>2. PICK A \in T : \A B \in T : <<B, A>> \notin StrictSubsetOrdering(Nat)
    <3>1. IsWellFoundedOn(StrictSubsetOrdering(Nat), FiniteSubsetsOf(Nat))
      BY FS_StrictSubsetOrderingWellFounded
    <3> HIDE DEF T
    <3> QED BY <2>1, <3>1, WFMin
  <2>3. PICK x \in A : TRUE
    OBVIOUS
  <2>4. /\ A \ {x} \in FiniteSubsetsOf(Nat)
        /\ <<A \ {x}, A>> \in StrictSubsetOrdering(Nat)
    BY <2>3, FS_RemoveElement DEF StrictSubsetOrdering, FiniteSubsetsOf
  <2>5. A \ {x} = {} \/ HasMax(A \ {x})
    BY <2>2, <2>4
  <2>6. HasMax(A)
    BY <2>3, <2>5 DEF FiniteSubsetsOf
  <2> QED BY <2>2, <2>6
<1> QED BY <1>1 DEF MaxOf

Caps == {Cap[p] : p \in Plans}

LEMMA CapBound ==
  ASSUME NEW p \in Plans
  PROVE  MaxOf(Caps) \in Nat /\ Cap[p] \in Nat /\ Cap[p] <= MaxOf(Caps)
<1>1. Caps \subseteq Nat /\ Cap[p] \in Caps
  BY CapAssumption DEF Caps
<1>2. IsFiniteSet(Caps)
  <2>1. Cap \in [Plans -> Caps] /\ \A c \in Caps : \E q \in Plans : Cap[q] = c
    BY CapAssumption DEF Caps
  <2>2. Cap \in Surjection(Plans, Caps)
    BY <2>1 DEF Surjection
  <2> QED BY <2>2, PlansAssumption, FS_Surjection
<1> QED BY <1>1, <1>2, FiniteMax

LEMMA MonthTypes ==
  ASSUME NEW month \in Months
  PROVE  month[1] \in Int /\ month[2] \in Int
BY CalendarAssumption DEF Months

LEMMA Finite ==
  ASSUME NEW S, S \subseteq Requests
  PROVE  IsFiniteSet(S) /\ Cardinality(S) \in Nat
BY RequestsAssumption, FS_Subset, FS_CardinalityType

(* A month charged with fewer requests stays within the cap. *)
LEMMA LessIsWithin ==
  ASSUME IInv, NEW t \in Tenants, NEW month \in Months, WithinCap(t, month),
         Charge(t, month)' \subseteq Charge(t, month),
         plan'[t] # NoPlan => plan[t] # NoPlan, peak'[t] \in Nat, peak[t] <= peak'[t]
  PROVE  WithinCap(t, month)'
<1> SUFFICES ASSUME Charge(t, month)' # {}, plan'[t] # NoPlan, \A p \in Plans : Cap[p] # 0
             PROVE  Cardinality(Charge(t, month)') < MaxOf(Caps) + peak'[t]
  BY DEF WithinCap, Caps
<1>1. Cardinality(Charge(t, month)) < MaxOf(Caps) + peak[t]
  BY DEF WithinCap, Caps
<1>2. Charge(t, month) \subseteq Requests
  BY DEF Charge, Of
<1>3. /\ Cardinality(Charge(t, month)') <= Cardinality(Charge(t, month))
      /\ Cardinality(Charge(t, month)) \in Nat /\ Cardinality(Charge(t, month)') \in Nat
  BY <1>2, Finite, FS_Subset
<1>4. plan[t] \in Plans /\ peak[t] \in Nat
  BY DEF IInv, SharedOK
<1>5. MaxOf(Caps) \in Nat
  BY <1>4, CapBound
<1> QED BY <1>1, <1>3, <1>4, <1>5

(* What a step that lets nothing through does with a request: nothing that *)
(* counts, or it ends or waits without having passed, or, let through      *)
(* before, it may pass now, or it is a playground's.                       *)
Idles(q) ==
    \/ phase'[q] = phase[q] /\ req'[q] = req[q] /\ passedAt'[q] = passedAt[q]
    \/ phase'[q] \notin Live /\ passedAt'[q] = -1
    \/ phase[q] \in Live /\ req'[q] = req[q] /\ passedAt'[q] \in {-1, now}
    \/ req'[q].route = "playground"

LEMMA IdlesKeep ==
  ASSUME IInv, CapInv, CapFacts', now' \in Nat, now <= now', \A q \in Requests : Idles(q),
         \A t \in Tenants : (plan'[t] # NoPlan => plan[t] # NoPlan) /\ peak'[t] = peak[t]
  PROVE  CapInv'
<1>1. ASSUME NEW t \in Tenants, NEW month \in Months PROVE WithinCap(t, month)'
  <2>1. ASSUME NEW q \in Charge(t, month)' PROVE q \in Charge(t, month)
    <3>1. /\ q \in Requests /\ phase'[q] # "idle" /\ req'[q].tenant = t
          /\ req'[q].route # "playground"
          /\ \/ passedAt'[q] >= 0 /\ passedAt'[q] >= month[1] /\ passedAt'[q] < month[2]
             \/ now' < month[2] /\ phase'[q] \in Live
      BY <2>1 DEF Charge, Of
    <3>2. now \in Int /\ month[1] \in Int /\ month[2] \in Int
      BY MonthTypes DEF IInv, SharedOK
    <3>3. CASE phase'[q] = phase[q] /\ req'[q] = req[q] /\ passedAt'[q] = passedAt[q]
      BY <3>1, <3>2, <3>3 DEF Charge, Of
    <3>4. CASE phase[q] \in Live /\ req'[q] = req[q] /\ passedAt'[q] \in {-1, now}
      BY <3>1, <3>2, <3>4 DEF Charge, Of, Live
    <3>5. ~(phase'[q] \notin Live /\ passedAt'[q] = -1)
      BY <3>1
    <3> QED BY <3>1, <3>3, <3>4, <3>5 DEF Idles
  <2>2. peak'[t] \in Nat /\ peak[t] <= peak'[t]
    BY DEF IInv, SharedOK
  <2> QED BY <2>1, <2>2, LessIsWithin DEF CapInv
<1> QED BY <1>1 DEF CapInv

(* A handler that answers, or goes on past its cap check. *)
LEMMA SettleKeeps ==
  ASSUME IInv, CapInv, NEW r \in Requests, UNCHANGED <<plan, req, peak>>, now' = now,
         \A q \in Requests \ {r} : phase'[q] = phase[q],
         \/ phase[r] = "body" /\ phase'[r] = "done"
            /\ \/ Log(r, "rate_limited") \/ Log(r, "input_blocked") \/ UNCHANGED log
         \/ phase[r] \in Live /\ phase'[r] = "done"
            /\ \/ Log(r, "output_blocked") \/ Log(r, "passed") \/ UNCHANGED log
         \/ phase[r] \in Live /\ UNCHANGED log
         \/ phase[r] \in {"body"} /\ req[r].route = "playground" /\ UNCHANGED log
  PROVE  CapInv'
<1>1. now \in Nat /\ passedAt \in [Requests -> {-1} \cup 0..MaxTime] /\ phase[r] # "done"
  BY DEF IInv, SharedOK, HandlerOK, Live
<1>2. passedAt[r] = -1
  BY <1>1 DEF CapInv, CapFacts
<1>3. \A q \in Requests \ {r} : passedAt'[q] = passedAt[q]
  BY <1>1 DEF Log, log
<1>4. passedAt'[r] \in {-1, now} /\ (phase[r] = "body" => passedAt'[r] = -1)
  BY <1>1, <1>2 DEF Log, log, Live
<1>5. CapFacts'
  BY <1>1, <1>2, <1>3, <1>4 DEF CapInv, CapFacts, log
<1>6. \A q \in Requests : Idles(q)
  <2>1. \A q \in Requests \ {r} : Idles(q)
    BY <1>3 DEF Idles
  <2>2. Idles(r)
    BY <1>4 DEF Idles, Live
  <2> QED BY <2>1, <2>2
<1> QED BY <1>1, <1>5, <1>6, IdlesKeep

(* Nothing gated in a month that is not counted while the month lasts.     *)
LEMMA GatedIsUsed ==
  ASSUME IInv, NEW t \in Tenants, NEW month \in Months, now < month[2]
  PROVE  Cardinality(Gated(t, month[1], month[2])) <= Used(t)
<1>1. month[1] \in Int /\ MonthStart \in Int /\ MonthStart <= month[1]
  BY CalendarAssumption DEF Months, MonthStart, IInv, SharedOK
<1> DEFINE counted == {r \in Of(t) : passedAt[r] >= 0 /\ passedAt[r] >= MonthStart}
<1>2. \A r \in Requests : passedAt[r] \in Int
  BY CalendarAssumption DEF IInv, HandlerOK
<1>3. Gated(t, month[1], month[2]) \subseteq counted
  BY <1>1, <1>2 DEF Gated, Of
<1>4. counted \subseteq Requests
  BY DEF Of
<1> HIDE DEF counted
<1>5. Cardinality(Gated(t, month[1], month[2])) <= Cardinality(counted)
  BY <1>3, <1>4, Finite, FS_Subset
<1> QED BY <1>5 DEF Used, counted

(* Who is let through was counted against the cap together with everything *)
(* passed so far, and with all that are under way in the peak.             *)
LEMMA ForwardCharges ==
  ASSUME IInv, CapInv, NEW r \in Requests, phase[r] = "body", Forward(r),
         UNCHANGED <<plan, req>>, now' = now,
         NEW month \in Months, now < month[2]
  PROVE  WithinCap(req[r].tenant, month)'
<1> DEFINE t == req[r].tenant
           gated == Gated(t, month[1], month[2])
<1> SUFFICES ASSUME plan[t] # NoPlan, \A p \in Plans : Cap[p] # 0
             PROVE  Cardinality(Charge(t, month)') < MaxOf(Caps) + peak'[t]
  BY DEF WithinCap, Caps
<1>1. t \in Tenants /\ plan[t] \in Plans /\ peak[t] \in Nat
  BY DEF IInv, HandlerOK, SharedOK, Request
<1>2. Cardinality(gated) < MaxOf(Caps)
  <2>1. PICK p \in Plans : p = IF req[r].key = "account" THEN req[r].plan ELSE plan[t]
    BY <1>1 DEF CapInv, CapFacts
  <2>2. Used(t) < Cap[p]
    <3>1. ~(p # NoPlan /\ Cap[p] # 0 /\ Used(t) >= Cap[p])
      BY <2>1 DEF Forward, CapReached
    <3>2. p # NoPlan /\ Cap[p] # 0 /\ Cap[p] \in Nat
      BY PlansAssumption, CapAssumption
    <3>3. Used(t) \in Nat
      <4>1. {q \in Of(t) : passedAt[q] >= 0 /\ passedAt[q] >= MonthStart} \subseteq Requests
        BY DEF Of
      <4> QED BY <4>1, Finite DEF Used
    <3> QED BY <3>1, <3>2, <3>3
  <2>3. Cardinality(gated) <= Used(t)
    BY <1>1, GatedIsUsed
  <2>4. Cardinality(gated) \in Nat /\ Used(t) \in Nat
    <3>1. /\ gated \subseteq Requests
          /\ {q \in Of(t) : passedAt[q] >= 0 /\ passedAt[q] >= MonthStart} \subseteq Requests
      BY DEF Gated, Of
    <3> QED BY <3>1, Finite DEF Used
  <2>5. Cap[p] \in Nat /\ Cap[p] <= MaxOf(Caps) /\ MaxOf(Caps) \in Nat
    BY CapBound
  <2> HIDE DEF gated
  <2> QED BY <2>2, <2>3, <2>4, <2>5
<1>3. Charge(t, month)' \subseteq (gated \cup PastCheck(t)) \cup {r}
  <2>1. ASSUME NEW q \in Charge(t, month)', q # r
        PROVE  q \in gated \/ q \in PastCheck(t)
    <3>1. phase'[q] = phase[q] /\ req'[q] = req[q] /\ passedAt'[q] = passedAt[q]
      BY <2>1 DEF Forward, IInv, HandlerOK, log, Charge, Of
    <3> QED BY <2>1, <3>1 DEF Charge, Gated, PastCheck, Of, Live
  <2> HIDE DEF gated
  <2> QED BY <2>1
<1>4. Cardinality(PastCheck(t)) + 1 <= peak'[t] /\ Cardinality(PastCheck(t)) \in Nat
      /\ peak'[t] \in Nat
  <2>1. PastCheck(t) \subseteq Requests
    BY DEF PastCheck, Of
  <2>2. Cardinality(PastCheck(t)) \in Nat
    BY <2>1, Finite
  <2> QED BY <1>1, <2>2 DEF Forward, IInv, SharedOK
<1>5. Cardinality(Charge(t, month)')
        <= Cardinality(gated) + Cardinality(PastCheck(t)) + 1
  <2>1. gated \subseteq Requests /\ PastCheck(t) \subseteq Requests
    BY DEF Gated, PastCheck, Of
  <2> HIDE DEF gated
  <2> DEFINE both == gated \cup PastCheck(t)
  <2>2. /\ IsFiniteSet(gated) /\ IsFiniteSet(PastCheck(t)) /\ IsFiniteSet(both)
        /\ both \cup {r} \subseteq Requests /\ both \subseteq Requests
    BY <2>1, Finite
  <2>3. Cardinality(both) <= Cardinality(gated) + Cardinality(PastCheck(t))
    <3>1. /\ Cardinality(both) = Cardinality(gated) + Cardinality(PastCheck(t))
                - Cardinality(gated \cap PastCheck(t))
      BY <2>2, FS_Union
    <3>2. Cardinality(gated \cap PastCheck(t)) \in Nat
      BY <2>1, Finite
    <3>3. Cardinality(gated) \in Nat /\ Cardinality(PastCheck(t)) \in Nat
      BY <2>1, Finite
    <3> QED BY <3>1, <3>2, <3>3
  <2>4. Cardinality(both \cup {r}) <= Cardinality(both) + 1
    <3>1. Cardinality(both) \in Nat
      BY <2>2, Finite
    <3>2. CASE r \in both
      <4> HIDE DEF both
      <4>1. Cardinality(both \cup {r}) = Cardinality(both)
        BY <2>2, <3>2, FS_AddElement
      <4> QED BY <3>1, <4>1
    <3>3. CASE r \notin both
      <4> HIDE DEF both
      <4>1. Cardinality(both \cup {r}) = Cardinality(both) + 1
        BY <2>2, <3>3, FS_AddElement
      <4> QED BY <3>1, <4>1
    <3> QED BY <3>2, <3>3
  <2>5. Cardinality(Charge(t, month)') <= Cardinality(both \cup {r})
    BY <1>3, <2>2, Finite, FS_Subset
  <2>6. /\ Cardinality(both) \in Nat /\ Cardinality(both \cup {r}) \in Nat
        /\ Cardinality(gated) \in Nat /\ Cardinality(PastCheck(t)) \in Nat
        /\ Cardinality(Charge(t, month)') \in Nat
    BY <1>3, <2>1, <2>2, Finite
  <2> HIDE DEF both
  <2> QED BY <2>3, <2>4, <2>5, <2>6
<1>6. /\ Cardinality(gated) \in Nat /\ MaxOf(Caps) \in Nat
      /\ Cardinality(Charge(t, month)') \in Nat
  <2>1. gated \subseteq Requests /\ PastCheck(t) \subseteq Requests
    BY DEF Gated, PastCheck, Of
  <2>2. Charge(t, month)' \subseteq Requests
    BY <1>3, <2>1
  <2> QED BY <1>1, <2>1, <2>2, Finite, CapBound
<1> HIDE DEF gated
<1> QED BY <1>2, <1>4, <1>5, <1>6

LEMMA ForwardWithinCap ==
  ASSUME IInv, CapInv, NEW r \in Requests, phase[r] = "body", Forward(r),
         UNCHANGED <<plan, req>>, now' = now
  PROVE  CapInv'
<1>1. /\ \A q \in Requests \ {r} : phase'[q] = phase[q]
      /\ phase'[r] \in Live /\ phase'[r] # "done" /\ passedAt' = passedAt
  BY DEF Forward, IInv, HandlerOK, log, Live
<1>2. passedAt[r] = -1
  BY DEF CapInv, CapFacts
<1>3. CapFacts'
  BY <1>1, <1>2 DEF CapInv, CapFacts
<1>4. \A t \in Tenants : peak'[t] >= peak[t] /\ peak[t] \in Nat /\ peak'[t] \in Nat
  <2>1. ASSUME NEW t \in Tenants PROVE Cardinality(PastCheck(t)) \in Nat
    <3>1. PastCheck(t) \subseteq Requests
      BY DEF PastCheck, Of
    <3> QED BY <3>1, Finite
  <2>2. req[r].tenant \in Tenants
    BY DEF IInv, HandlerOK, Request
  <2> QED BY <2>1, <2>2 DEF Forward, IInv, SharedOK
<1>5. ASSUME NEW t \in Tenants, NEW month \in Months PROVE WithinCap(t, month)'
  <2>1. CASE now < month[2] /\ t = req[r].tenant
    <3>1. req'[r].tenant = t
      BY <2>1
    <3>2. WithinCap(req[r].tenant, month)'
      BY <2>1, ForwardCharges
    <3> QED BY <2>1, <3>1, <3>2
  <2>2. CASE ~(now < month[2] /\ t = req[r].tenant)
    <3>1. ASSUME NEW q \in Charge(t, month)' PROVE q \in Charge(t, month)
      <4>1. q # r
        BY <1>1, <1>2, <2>2, <3>1 DEF Charge, Of
      <4>2. phase'[q] = phase[q] /\ req'[q] = req[q] /\ passedAt'[q] = passedAt[q]
        BY <1>1, <3>1, <4>1 DEF Charge, Of
      <4> QED BY <3>1, <4>2 DEF Charge, Of
    <3> QED BY <1>4, <3>1, LessIsWithin DEF CapInv
  <2> QED BY <2>1, <2>2
<1> QED BY <1>3, <1>5 DEF CapInv

LEMMA InitCap == Init => CapInv
<1> SUFFICES ASSUME Init PROVE CapInv
  OBVIOUS
<1>1. CapFacts
  BY DEF Init, CapFacts
<1>2. ASSUME NEW t \in Tenants, NEW month \in Months PROVE Charge(t, month) = {}
  BY DEF Init, Charge, Of
<1> QED BY <1>1, <1>2 DEF CapInv, WithinCap

(* A request that arrives waits for its body or is turned away at once.    *)
LEMMA ArrivalKeeps ==
  ASSUME IInv, CapInv, NEW r \in Requests, phase[r] = "idle", now' = now,
         UNCHANGED <<plan, peak, passedAt>>,
         \A q \in Requests \ {r} : phase'[q] = phase[q] /\ req'[q] = req[q],
         phase'[r] \in {"body", "done"},
         req'[r].key = "account" => req'[r].plan \in Plans
  PROVE  CapInv'
<1>1. passedAt[r] = -1
  BY DEF CapInv, CapFacts
<1>2. CapFacts'
  BY <1>1 DEF CapInv, CapFacts
<1>3. \A q \in Requests : Idles(q)
  BY <1>1 DEF Idles, Live
<1>4. now \in Nat /\ now <= now' /\ now' \in Nat
  BY DEF IInv, SharedOK
<1> QED BY <1>2, <1>3, <1>4, IdlesKeep

LEMMA RouteKeepsCap ==
  ASSUME IInv, CapInv, NEW r \in Requests,
         ProxyOpenAI(r) \/ ProxyAnthropic(r)
  PROVE  CapInv'
<1>0. phase \in [Requests -> Phase] /\ req \in [Requests -> Request]
      /\ plan \in [Tenants -> Plans \cup {NoPlan}]
  BY DEF IInv, HandlerOK, SharedOK
<1>1. ASSUME NEW route \in Route, Authenticate(r, route) PROVE CapInv'
  <2>1. /\ phase[r] = "idle" /\ now' = now /\ UNCHANGED <<plan, peak, passedAt>>
    BY <1>1 DEF Authenticate, limiterVars, log
  <2>2. /\ phase'[r] \in {"body", "done"}
        /\ \A q \in Requests \ {r} : phase'[q] = phase[q]
    BY <1>0, <1>1 DEF Authenticate, Finish
  <2>3. /\ \A q \in Requests \ {r} : req'[q] = req[q]
        /\ req'[r].key = "account" => req'[r].plan \in Plans
    BY <1>0, <1>1 DEF Authenticate
  <2> QED BY <2>1, <2>2, <2>3, ArrivalKeeps
<1>2. CASE Decide(r)
  <2>1. phase[r] = "body" /\ now' = now /\ UNCHANGED <<plan, req>>
    BY <1>2 DEF Decide, limiterVars, Refused, Limiter!Refuse, Limiter!Admit
  <2>2. CASE Forward(r)
    BY <2>1, <2>2, ForwardWithinCap
  <2>3. CASE ~Forward(r)
    <3>1. \E how : Finish(r, how)
      BY <1>2, <2>3 DEF Decide, Refused, Capped, InputBlocked
    <3>2. phase'[r] = "done" /\ \A q \in Requests \ {r} : phase'[q] = phase[q]
      BY <1>0, <3>1 DEF Finish
    <3>3. /\ UNCHANGED peak
          /\ Log(r, "rate_limited") \/ Log(r, "input_blocked") \/ UNCHANGED log
      BY <1>2, <2>3 DEF Decide, Refused, Capped, InputBlocked
    <3> QED BY <2>1, <3>2, <3>3, SettleKeeps
  <2> QED BY <2>2, <2>3
<1>4. CASE StreamOpens(r)
  <2>1. phase[r] \in Live /\ now' = now /\ UNCHANGED <<plan, req, peak, log>>
    BY <1>4 DEF StreamOpens, limiterVars, Live
  <2>2. \A q \in Requests \ {r} : phase'[q] = phase[q]
    BY <1>0, <1>4 DEF StreamOpens
  <2> QED BY <2>1, <2>2, SettleKeeps
<1>3. CASE Upstream(r) \/ Moderated(r) \/ StreamEnds(r)
  <2>1. phase[r] \in Live /\ now' = now /\ UNCHANGED <<plan, req, peak>>
    BY <1>3 DEF Upstream, Moderated, StreamEnds, limiterVars, Live
  <2>2. CASE phase' = [phase EXCEPT ![r] = "moderation"] /\ UNCHANGED log
    BY <1>0, <2>1, <2>2, SettleKeeps
  <2>3. CASE /\ \E how : Finish(r, how)
             /\ Log(r, "output_blocked") \/ Log(r, "passed") \/ UNCHANGED log
    <3>1. phase'[r] = "done" /\ \A q \in Requests \ {r} : phase'[q] = phase[q]
      BY <1>0, <2>3 DEF Finish
    <3> QED BY <2>1, <2>3, <3>1, SettleKeeps
  <2> QED BY <1>3, <2>2, <2>3
      DEF Upstream, Moderated, StreamEnds, OutputBlocked, Passed
<1> QED BY <1>1, <1>2, <1>3, <1>4 DEF ProxyOpenAI, ProxyAnthropic, Route

LEMMA PlaygroundKeepsCap ==
  ASSUME IInv, CapInv, NEW r \in Requests, PlaygroundLive(r)
  PROVE  CapInv'
<1>0. phase \in [Requests -> Phase] /\ req \in [Requests -> Request]
  BY DEF IInv, HandlerOK
<1>1. CASE PlaygroundOpen(r)
  <2>1. /\ phase[r] = "idle" /\ now' = now /\ UNCHANGED <<plan, peak, passedAt>>
        /\ phase'[r] = "body" /\ \A q \in Requests \ {r} : phase'[q] = phase[q]
    BY <1>0, <1>1 DEF PlaygroundOpen, limiterVars, log
  <2>2. /\ \A q \in Requests \ {r} : req'[q] = req[q]
        /\ req'[r].key # "account"
    BY <1>0, <1>1 DEF PlaygroundOpen
  <2> QED BY <2>1, <2>2, ArrivalKeeps
<1>2. CASE req[r].route = "playground" /\ PlaygroundForward(r)
  <2>1. /\ phase[r] = "body" /\ now' = now /\ UNCHANGED <<plan, req, peak, log>>
        /\ \A q \in Requests \ {r} : phase'[q] = phase[q]
    BY <1>0, <1>2 DEF PlaygroundForward, Finish, limiterVars
  <2> QED BY <1>2, <2>1, SettleKeeps
<1>3. CASE req[r].route = "playground" /\ PlaygroundReply(r)
  <2>1. /\ phase[r] \in Live /\ now' = now /\ UNCHANGED <<plan, req, peak>>
        /\ Log(r, "passed") /\ phase'[r] = "done"
        /\ \A q \in Requests \ {r} : phase'[q] = phase[q]
    BY <1>0, <1>3 DEF PlaygroundReply, Passed, Finish, limiterVars, Live
  <2> QED BY <2>1, SettleKeeps
<1> QED BY <1>1, <1>2, <1>3 DEF PlaygroundLive

LEMMA NextKeepsCap ==
  ASSUME IInv, CapInv, [Next]_vars
  PROVE  CapInv'
<1>1. CASE Tick \/ UNCHANGED vars \/ \E t \in Tenants : SetPlan(t)
  <2>1. /\ now \in Nat /\ now' \in Nat /\ now <= now'
        /\ UNCHANGED <<phase, req, log, peak>>
    BY <1>1 DEF Tick, Limiter!Tick, SetPlan, Limiter!SetConfig, vars, IInv, SharedOK, log
  <2>2. \A t \in Tenants : plan'[t] # NoPlan => plan[t] # NoPlan
    BY <1>1 DEF Tick, SetPlan, vars, IInv, SharedOK
  <2>3. CapFacts' /\ \A q \in Requests : Idles(q)
    BY <2>1 DEF CapInv, CapFacts, Idles, log
  <2> QED BY <2>1, <2>2, <2>3, IdlesKeep
<1>2. CASE Restart
  <2>1. /\ now \in Nat /\ now' = now /\ UNCHANGED <<plan, req, log, peak>>
    BY <1>2 DEF Restart, Limiter!Restart, IInv, SharedOK
  <2>2. ASSUME NEW q \in Requests
        PROVE  /\ phase'[q] = phase[q] \/ (phase'[q] = "done" /\ phase[q] # "done")
               /\ passedAt'[q] = passedAt[q] /\ req'[q] = req[q]
    BY <1>2, <2>1 DEF Restart, log
  <2>3. CapFacts'
    BY <2>1, <2>2 DEF CapInv, CapFacts
  <2>4. \A q \in Requests : Idles(q)
    BY <2>2 DEF CapInv, CapFacts, Idles, Live
  <2> QED BY <2>1, <2>3, <2>4, IdlesKeep
<1> QED BY <1>1, <1>2, RouteKeepsCap, PlaygroundKeepsCap DEF Next

(* However many requests wait upstream together when the cap is reached,   *)
(* and whatever plans are bought and playground calls made meanwhile, what *)
(* the cap check lets through in a month exceeds the largest cap by less   *)
(* than the most that were ever under way together (main.py 587-591, 716). *)
THEOREM CapOverrun == Spec => []CapOverrunBounded
<1>1. IInv /\ CapInv => CapOverrunBounded
  <2> SUFFICES ASSUME IInv, CapInv, NEW t \in Tenants, NEW month \in Months,
                      Gated(t, month[1], month[2]) # {}, plan[t] # NoPlan,
                      \A p \in Plans : Cap[p] # 0
               PROVE  Cardinality(Gated(t, month[1], month[2])) < MaxOf(Caps) + peak[t]
    BY DEF CapOverrunBounded, Months, Caps
  <2>1. Gated(t, month[1], month[2]) \subseteq Charge(t, month)
    BY DEF Gated, Charge
  <2>2. Charge(t, month) \subseteq Requests
    BY DEF Charge, Of
  <2>3. Cardinality(Charge(t, month)) < MaxOf(Caps) + peak[t]
    BY <2>1 DEF CapInv, WithinCap, Caps
  <2>4. /\ Cardinality(Gated(t, month[1], month[2])) <= Cardinality(Charge(t, month))
        /\ Cardinality(Gated(t, month[1], month[2])) \in Nat
        /\ Cardinality(Charge(t, month)) \in Nat
    BY <2>1, <2>2, Finite, FS_Subset
  <2>5. plan[t] \in Plans /\ peak[t] \in Nat
    BY DEF IInv, SharedOK
  <2>6. MaxOf(Caps) \in Nat
    BY <2>5, CapBound
  <2> QED BY <2>3, <2>4, <2>5, <2>6
<1>2. Spec => []CapInv
  BY InitCap, IInvHolds, NextKeepsCap, PTL DEF Spec
<1> QED BY <1>1, <1>2, IInvHolds, PTL

-----------------------------------------------------------------------------

(* The limiter inside: a worker's steps are steps of RateLimiter.          *)

Metering == INSTANCE RateLimiterProofs

LEMMA SameInit == Limiter!Init => Metering!Init
BY DEF Limiter!Init, Metering!Init, Limiter!NoAnswer, Metering!NoAnswer, Limiter!Answer, Metering!Answer,
       Limiter!Window, Metering!Window

LEMMA SameEvicted == \A s, c : Limiter!Evicted(s, c) = Metering!Evicted(s, c)
BY DEF Limiter!Evicted, Metering!Evicted

LEMMA SameFull == \A t, w : /\ Limiter!Swept(t, w) = Metering!Swept(t, w)
                            /\ Limiter!Metered(t, w) <=> Metering!Metered(t, w)
                            /\ Limiter!Full(t, w) <=> Metering!Full(t, w)
BY SameEvicted DEF Limiter!Swept, Metering!Swept, Limiter!Metered, Metering!Metered, Limiter!Full, Metering!Full

LEMMA SameAdmit == \A t : Limiter!Admit(t) => Metering!Admit(t)
BY SameFull DEF Limiter!Admit, Metering!Admit, Limiter!Window, Metering!Window,
   Limiter!Allowed, Metering!Allowed, Limiter!Answer, Metering!Answer

LEMMA SameRefuse == \A t, w : Limiter!Refuse(t, w) => Metering!Refuse(t, w)
BY SameFull DEF Limiter!Refuse, Metering!Refuse, Limiter!Window, Metering!Window,
   Limiter!SweptBy, Metering!SweptBy, Limiter!RetryAfter, Metering!RetryAfter, Limiter!Answer, Metering!Answer

LEMMA MeteringAssumptions ==
    /\ Metering!SpanAssumption /\ Metering!TicksAssumption /\ Metering!ConfigsAssumption
    /\ Metering!NoLimitAssumption /\ Metering!MaxTimeAssumption
BY LimiterAssumption, CalendarAssumption
   DEF Metering!SpanAssumption, Metering!TicksAssumption, Metering!ConfigsAssumption,
       Metering!NoLimitAssumption, Metering!MaxTimeAssumption, Metering!Window


(* What a step of the worker does to a request that has come.              *)
LEMMA RequestsStay ==
  ASSUME IInv, [Next]_vars, NEW q \in Requests
  PROVE  /\ phase[q] # "idle" => phase'[q] # "idle" /\ req'[q] = req[q]
         /\ phase'[q] \in {"idle", "body"} => phase[q] \in {"idle", "body"}
<1>0. phase \in [Requests -> Phase] /\ req \in [Requests -> Request]
  BY DEF IInv, HandlerOK
<1>1. CASE Tick \/ UNCHANGED vars \/ \E t \in Tenants : SetPlan(t)
  BY <1>1 DEF Tick, SetPlan, vars
<1>2. ASSUME NEW r \in Requests, NEW route \in Route, Authenticate(r, route)
      PROVE  /\ phase[q] # "idle" => phase'[q] # "idle" /\ req'[q] = req[q]
             /\ phase'[q] \in {"idle", "body"} => phase[q] \in {"idle", "body"}
  BY <1>0, <1>2 DEF Authenticate, Finish
<1>3. ASSUME NEW r \in Requests, PlaygroundOpen(r)
      PROVE  /\ phase[q] # "idle" => phase'[q] # "idle" /\ req'[q] = req[q]
             /\ phase'[q] \in {"idle", "body"} => phase[q] \in {"idle", "body"}
  BY <1>0, <1>3 DEF PlaygroundOpen
<1>4. ASSUME NEW r \in Requests,
             Decide(r) \/ Upstream(r) \/ Moderated(r) \/ StreamOpens(r) \/ StreamEnds(r)
               \/ PlaygroundForward(r) \/ PlaygroundReply(r)
      PROVE  /\ phase[q] # "idle" => phase'[q] # "idle" /\ req'[q] = req[q]
             /\ phase'[q] \in {"idle", "body"} => phase[q] \in {"idle", "body"}
  <2>1. UNCHANGED req
    BY <1>4 DEF Decide, Refused, Upstream, Moderated, StreamOpens, StreamEnds,
                PlaygroundForward, PlaygroundReply
  <2>2. \E p \in {"done", "opening", "stream", "upstream", "moderation"} :
            phase' = [phase EXCEPT ![r] = p]
    BY <1>4 DEF Decide, Refused, Upstream, Moderated, StreamOpens, StreamEnds, PlaygroundForward,
                PlaygroundReply, Capped, InputBlocked, Forward, OutputBlocked, Passed, Finish
  <2> QED BY <1>0, <2>1, <2>2
<1>5. CASE Restart
  BY <1>5 DEF Restart
<1> QED BY <1>1, <1>2, <1>3, <1>4, <1>5
        DEF Next, ProxyOpenAI, ProxyAnthropic, PlaygroundLive, Route

(* A step lets through the request the limiter has just admitted, or lets  *)
(* a stream or the playground make its call, or neither.                   *)
LetsThrough(r) ==
    /\ phase[r] = "body" /\ UNCHANGED req /\ Limiter!Admit(req[r].tenant)
    /\ admitted' = [admitted EXCEPT ![r] = now]
    /\ \/ req[r].kind = "stream" /\ sent' = sent
       \/ req[r].kind # "stream" /\ sent' = [sent EXCEPT ![r] = now]
              /\ phase' = [phase EXCEPT ![r] = "upstream"]
    /\ \E p \in {"opening", "upstream"} : phase' = [phase EXCEPT ![r] = p]

CallsLate(r) ==
    /\ UNCHANGED <<req, admitted>>
    /\ phase[r] = "opening" \/ req[r].route = "playground"
    /\ sent' = [sent EXCEPT ![r] = now]
    /\ \E p \in {"stream", "upstream"} : phase' = [phase EXCEPT ![r] = p]

CallsNothing ==
    /\ UNCHANGED <<admitted, sent>>
    /\ \A q \in Requests : phase'[q] = "opening" => phase[q] = "opening"

LEMMA CallingSteps ==
  ASSUME IInv, [Next]_vars, ~Restart
  PROVE  CallsNothing \/ \E r \in Requests : LetsThrough(r) \/ CallsLate(r)
<1>0. phase \in [Requests -> Phase]
  BY DEF IInv, HandlerOK
<1>1. CASE Tick \/ UNCHANGED vars \/ \E t \in Tenants : SetPlan(t)
  BY <1>1 DEF Tick, SetPlan, vars, calls, CallsNothing
<1>2. ASSUME NEW r \in Requests, NEW route \in Route, Authenticate(r, route)
      PROVE  CallsNothing
  BY <1>0, <1>2 DEF Authenticate, calls, CallsNothing, Finish
<1>3. ASSUME NEW r \in Requests,
             Upstream(r) \/ Moderated(r) \/ StreamEnds(r) \/ PlaygroundOpen(r) \/ PlaygroundReply(r)
      PROVE  CallsNothing
  <2>1. UNCHANGED <<admitted, sent>>
    BY <1>3 DEF Upstream, Moderated, StreamEnds, PlaygroundOpen, PlaygroundReply, calls
  <2>2. \E p \in {"done", "body", "moderation"} : phase' = [phase EXCEPT ![r] = p]
    BY <1>3 DEF Upstream, Moderated, StreamEnds, PlaygroundOpen, PlaygroundReply,
                OutputBlocked, Passed, Finish
  <2> QED BY <1>0, <2>1, <2>2 DEF CallsNothing
<1>4. ASSUME NEW r \in Requests, req[r].route = "playground", PlaygroundForward(r)
      PROVE  CallsNothing \/ CallsLate(r)
  <2>1. CASE UNCHANGED sent /\ \E how : Finish(r, how)
    BY <1>0, <1>4, <2>1 DEF PlaygroundForward, CallsNothing, Finish
  <2>2. CASE phase' = [phase EXCEPT ![r] = "upstream"] /\ sent' = [sent EXCEPT ![r] = now]
    BY <1>4, <2>2 DEF PlaygroundForward, CallsLate
  <2> QED BY <1>4, <2>1, <2>2 DEF PlaygroundForward
<1>5. ASSUME NEW r \in Requests, StreamOpens(r)
      PROVE  CallsLate(r)
  BY <1>5 DEF StreamOpens, CallsLate
<1>6. ASSUME NEW r \in Requests, Decide(r)
      PROVE  CallsNothing \/ LetsThrough(r)
  <2>1. CASE Forward(r)
    <3>1. phase[r] = "body" /\ Limiter!Admit(req[r].tenant) /\ UNCHANGED req
      BY <1>6, <2>1 DEF Decide, Refused, Finish, Forward, IInv, HandlerOK
    <3> QED BY <2>1, <3>1 DEF Forward, LetsThrough
  <2>2. CASE ~Forward(r)
    <3>1. UNCHANGED <<admitted, sent>> /\ \E how : Finish(r, how)
      BY <1>6, <2>2 DEF Decide, Refused, Capped, InputBlocked, calls
    <3> QED BY <1>0, <3>1 DEF CallsNothing, Finish
  <2> QED BY <2>1, <2>2
<1> QED BY <1>1, <1>2, <1>3, <1>4, <1>5, <1>6
        DEF Next, ProxyOpenAI, ProxyAnthropic, PlaygroundLive, Route

(* The limiter takes only steps of its own.                                *)
LEMMA MeteringSteps ==
  ASSUME IInv, [Next]_vars
  PROVE  \/ UNCHANGED limiterVars
         \/ Metering!Tick
         \/ Restart /\ Metering!Restart
         \/ \E t \in Tenants : Metering!SetConfig(t) \/ Metering!Admit(t)
         \/ \E t \in Tenants, w \in Metering!Window : Metering!Refuse(t, w)
<1>0. req \in [Requests -> Request] /\ \A r \in Requests : req[r].tenant \in Tenants
  BY DEF IInv, HandlerOK, Request
<1>1. CASE Tick
  BY <1>1 DEF Tick, Limiter!Tick, Metering!Tick
<1>2. CASE UNCHANGED vars
  BY <1>2 DEF vars, limiterVars
<1>3. ASSUME NEW t \in Tenants, SetPlan(t) PROVE Metering!SetConfig(t)
  BY <1>3 DEF SetPlan, Limiter!SetConfig, Metering!SetConfig, Limiter!NoAnswer,
              Metering!NoAnswer, Limiter!Answer, Metering!Answer
<1>4. ASSUME NEW r \in Requests, NEW route \in Route, Authenticate(r, route)
      PROVE  UNCHANGED limiterVars
  BY <1>4 DEF Authenticate
<1>5. ASSUME NEW r \in Requests,
             Upstream(r) \/ Moderated(r) \/ StreamOpens(r) \/ StreamEnds(r) \/ PlaygroundOpen(r)
               \/ PlaygroundForward(r) \/ PlaygroundReply(r)
      PROVE  UNCHANGED limiterVars
  BY <1>5 DEF Upstream, Moderated, StreamOpens, StreamEnds, PlaygroundOpen, PlaygroundForward,
              PlaygroundReply
<1>6. ASSUME NEW r \in Requests, Decide(r)
      PROVE  \/ UNCHANGED limiterVars
             \/ Metering!Admit(req[r].tenant)
             \/ \E w \in Metering!Window : Metering!Refuse(req[r].tenant, w)
  <2>1. \/ UNCHANGED limiterVars
        \/ Limiter!Admit(req[r].tenant)
        \/ \E w \in Limiter!Window : Limiter!Refuse(req[r].tenant, w)
    BY <1>6 DEF Decide, Refused
  <2>2. Limiter!Window = Metering!Window
    BY DEF Limiter!Window, Metering!Window
  <2> QED BY <2>1, <2>2, SameAdmit, SameRefuse
<1>7. CASE Restart
  BY <1>7 DEF Restart, Limiter!Restart, Metering!Restart, Limiter!NoAnswer, Metering!NoAnswer,
              Limiter!Answer, Metering!Answer, Limiter!Window, Metering!Window
<1> QED BY <1>0, <1>1, <1>2, <1>3, <1>4, <1>5, <1>6, <1>7
        DEF Next, ProxyOpenAI, ProxyAnthropic, PlaygroundLive, Route

(***************************************************************************)
(* Among all the requests of a worker the limiter behaves as it does by    *)
(* itself: what is proved of it holds here too.                            *)
(***************************************************************************)
THEOREM LimiterInside == Spec => Metering!Spec
<1>1. Init => Metering!Init
  BY SameInit DEF Init
<1>2. IInv /\ [Next]_vars => [Metering!Next]_(Metering!vars)
  <2> SUFFICES ASSUME IInv, [Next]_vars PROVE [Metering!Next]_(Metering!vars)
    OBVIOUS
  <2>1. UNCHANGED limiterVars => UNCHANGED Metering!vars
    BY DEF limiterVars, Metering!vars
  <2> QED BY <2>1, MeteringSteps DEF Metering!Next
<1> QED BY <1>1, <1>2, IInvHolds, PTL DEF Spec, Metering!Spec

-----------------------------------------------------------------------------

(* What goes upstream.                                                     *)

(* The tenant's requests that were let through. *)
Through(t) == {q \in Of(t) : admitted[q] >= 0}

(* Every policy has a limit for the window. *)
AlwaysLimited(w) == \A c \in Configs : c.enabled /\ c.limit[w] # NoLimit

(* The limits a tenant may have. *)
Limits(w) == {c.limit[w] : c \in Configs}

(* Each request that was let through was admitted at that very time.       *)
Recorded(t, w) ==
    \E f \in [Through(t) -> 1..Len(history[t][w])] :
        /\ \A p, q \in Through(t) : f[p] = f[q] => p = q
        /\ \A q \in Through(t) : history[t][w][f[q]] = admitted[q]

(* The limits requests were admitted under are the tenants'.               *)
GrantedLimits(t, w) == \A i \in 1..Len(granted[t][w]) : granted[t][w][i] \in Limits(w)

(* A proxied request makes its call once it was let through, and at once   *)
(* unless it streams.                                                      *)
CallOf(q) ==
    /\ phase[q] \in {"idle", "body"} => admitted[q] = -1 /\ sent[q] = -1
    /\ admitted[q] <= now
    /\ phase[q] = "opening" => admitted[q] >= 0 /\ req[q].kind = "stream"
    /\ (sent[q] >= 0 /\ req[q].route # "playground") =>
           /\ admitted[q] >= 0 /\ admitted[q] <= sent[q]
           /\ req[q].kind # "stream" => admitted[q] = sent[q]

CallFacts == \A q \in Requests : CallOf(q)

PacedInv ==
    /\ CallFacts
    /\ \A t \in Tenants, w \in Metering!Window :
          AlwaysLimited(w) => Recorded(t, w) /\ GrantedLimits(t, w)

LEMMA NothingRecorded ==
  ASSUME NEW t \in Tenants, NEW w \in Metering!Window,
         \A q \in Requests : admitted[q] = -1,
         history[t][w] = <<>>, granted[t][w] = <<>>
  PROVE  Recorded(t, w) /\ GrantedLimits(t, w)
<1>1. Through(t) = {}
  BY DEF Through, Of
<1>2. [q \in Through(t) |-> 0] \in [Through(t) -> 1..Len(history[t][w])]
  BY <1>1
<1>3. Recorded(t, w)
  BY <1>1, <1>2 DEF Recorded
<1>4. GrantedLimits(t, w)
  BY DEF GrantedLimits
<1> QED BY <1>3, <1>4

LEMMA InitPaced == Init => PacedInv
<1> SUFFICES ASSUME Init PROVE PacedInv
  OBVIOUS
<1>1. CallFacts
  BY DEF Init, Limiter!Init, CallFacts, CallOf
<1>2. ASSUME NEW t \in Tenants, NEW w \in Metering!Window PROVE Recorded(t, w) /\ GrantedLimits(t, w)
  <2>1. history[t][w] = <<>> /\ granted[t][w] = <<>>
    BY DEF Init, Limiter!Init, Limiter!Window, Metering!Window
  <2> QED BY <2>1, NothingRecorded DEF Init
<1> QED BY <1>1, <1>2 DEF PacedInv

(* The limiter's record of a tenant grows by the time, or stays.           *)
LEMMA RecordGrows ==
  ASSUME IInv, Metering!TypeOK, [Next]_vars, ~Restart,
         NEW t \in Tenants, NEW w \in Metering!Window, AlwaysLimited(w)
  PROVE  LET h == history[t][w] IN LET g == granted[t][w] IN
         /\ \/ history'[t][w] = h /\ granted'[t][w] = g
            \/ history'[t][w] = Append(h, now) /\ \E l \in Limits(w) : granted'[t][w] = Append(g, l)
         /\ Metering!Admit(t) => history'[t][w] = Append(h, now)
<1>0. /\ history \in [Tenants -> [Metering!Window -> Seq(Int)]]
      /\ granted \in [Tenants -> [Metering!Window -> Seq(Nat)]]
      /\ config \in [Tenants -> Configs]
  BY DEF Metering!TypeOK
<1>1. Metering!Metered(t, w) /\ config[t].limit[w] \in Limits(w)
  BY <1>0 DEF Metering!Metered, AlwaysLimited, Limits
<1>2. ASSUME NEW u \in Tenants, Metering!Admit(u), u # t
      PROVE  history'[t][w] = history[t][w] /\ granted'[t][w] = granted[t][w]
  BY <1>0, <1>2 DEF Metering!Admit
<1>3. ASSUME Metering!Admit(t)
      PROVE  /\ history'[t][w] = Append(history[t][w], now)
             /\ granted'[t][w] = Append(granted[t][w], config[t].limit[w])
  BY <1>0, <1>1, <1>3 DEF Metering!Admit
<1>4. CASE UNCHANGED <<history, granted>>
  BY <1>1, <1>3, <1>4
<1>5. \/ UNCHANGED <<history, granted>>
      \/ \E u \in Tenants : Metering!Admit(u)
  BY MeteringSteps DEF limiterVars, Metering!Tick, Metering!SetConfig, Metering!Refuse
<1> QED BY <1>1, <1>2, <1>3, <1>4, <1>5

(* A tenant's requests that were let through are the ones before and, of   *)
(* the tenant's own, the one let through now.                              *)
LEMMA ThroughBefore ==
  ASSUME IInv, CallFacts, [Next]_vars, NEW t, NEW q \in Through(t)', admitted'[q] = admitted[q]
  PROVE  q \in Through(t)
<1>1. q \in Requests /\ admitted[q] >= 0 /\ req'[q].tenant = t
  BY DEF Through, Of
<1>2. phase[q] # "idle"
  BY <1>1 DEF CallFacts, CallOf
<1>3. req'[q] = req[q]
  BY <1>1, <1>2, RequestsStay
<1> QED BY <1>1, <1>2, <1>3 DEF Through, Of

LEMMA CallsKeep ==
  ASSUME IInv, CallFacts, [Next]_vars
  PROVE  CallFacts'
<1> SUFFICES ASSUME NEW q \in Requests PROVE CallOf(q)'
  BY DEF CallFacts
<1>0. /\ CallOf(q) /\ now \in Nat /\ now' \in Nat /\ now <= now'
      /\ admitted[q] \in Int /\ sent[q] \in Int
      /\ phase \in [Requests -> Phase]
      /\ admitted \in [Requests -> {-1} \cup 0..MaxTime]
      /\ sent \in [Requests -> {-1} \cup 0..MaxTime]
  <2>1. now <= now'
    <3>1. now \in Nat
      BY DEF IInv, SharedOK
    <3> QED BY <3>1, MeteringSteps DEF limiterVars, Metering!Tick, Metering!Restart,
               Metering!SetConfig, Metering!Admit, Metering!Refuse
  <2> QED BY <2>1, NextKeeps, CalendarAssumption DEF IInv, SharedOK, HandlerOK, CallFacts
<1>1. /\ phase[q] # "idle" => req'[q] = req[q]
      /\ phase'[q] \in {"idle", "body"} => phase[q] \in {"idle", "body"}
  BY RequestsStay
<1>2. CASE Restart
  BY <1>0, <1>2 DEF Restart, CallOf
<1>3. CASE CallsNothing
  <2>1. admitted'[q] = admitted[q] /\ sent'[q] = sent[q]
        /\ (phase'[q] = "opening" => phase[q] = "opening")
    BY <1>3 DEF CallsNothing
  <2> QED BY <1>0, <1>1, <2>1 DEF CallOf
<1>4. ASSUME NEW r \in Requests, LetsThrough(r) PROVE CallOf(q)'
  <2>1. now' = now
    BY <1>4 DEF LetsThrough, Limiter!Admit
  <2>2. CASE q = r
    <3>1. admitted'[q] = now /\ req'[q] = req[q]
      BY <1>0, <1>4, <2>2 DEF LetsThrough
    <3>2. PICK p \in {"opening", "upstream"} : phase'[q] = p
      BY <1>0, <1>4, <2>2 DEF LetsThrough
    <3>3. CASE req[r].kind = "stream" /\ sent' = sent
      <4>1. sent'[q] = -1
        BY <1>0, <1>4, <2>2, <3>3 DEF LetsThrough, CallOf
      <4> QED BY <1>0, <2>1, <2>2, <3>1, <3>2, <3>3, <4>1 DEF CallOf
    <3>4. CASE /\ req[r].kind # "stream" /\ sent' = [sent EXCEPT ![r] = now]
               /\ phase' = [phase EXCEPT ![r] = "upstream"]
      <4>1. sent'[q] = now /\ phase'[q] = "upstream"
        BY <1>0, <2>2, <3>4
      <4> QED BY <1>0, <2>1, <3>1, <4>1 DEF CallOf
    <3> QED BY <1>4, <3>3, <3>4 DEF LetsThrough
  <2>3. CASE q # r
    <3>1. admitted'[q] = admitted[q] /\ sent'[q] = sent[q] /\ phase'[q] = phase[q] /\ req'[q] = req[q]
      BY <1>0, <1>4, <2>3 DEF LetsThrough
    <3> QED BY <1>0, <2>1, <3>1 DEF CallOf
  <2> QED BY <2>2, <2>3
<1>5. ASSUME NEW r \in Requests, CallsLate(r) PROVE CallOf(q)'
  <2>1. admitted'[q] = admitted[q] /\ req'[q] = req[q]
    BY <1>5 DEF CallsLate
  <2>2. CASE q = r
    <3>1. sent'[q] = now /\ phase'[q] \in {"stream", "upstream"}
      BY <1>0, <1>5, <2>2 DEF CallsLate
    <3>2. (phase[q] = "opening" /\ req[q].kind = "stream" /\ admitted[q] >= 0)
            \/ req[q].route = "playground"
      BY <1>0, <1>5, <2>2 DEF CallsLate, CallOf
    <3> QED BY <1>0, <2>1, <3>1, <3>2 DEF CallOf
  <2>3. CASE q # r
    <3>1. sent'[q] = sent[q] /\ phase'[q] = phase[q]
      BY <1>5, <2>3 DEF CallsLate
    <3> QED BY <1>0, <2>1, <3>1 DEF CallOf
  <2> QED BY <2>2, <2>3
<1> QED BY <1>2, <1>3, <1>4, <1>5, CallingSteps

LEMMA RecordedKeeps ==
  ASSUME IInv, Metering!TypeOK, PacedInv, [Next]_vars, ~Restart,
         NEW t \in Tenants, NEW w \in Metering!Window, AlwaysLimited(w)
  PROVE  Recorded(t, w)' /\ GrantedLimits(t, w)'
<1> DEFINE h == history[t][w]
           g == granted[t][w]
           S == Through(t)
<1>1. h \in Seq(Int) /\ g \in Seq(Nat) /\ now \in Int
  BY DEF Metering!TypeOK, IInv, SharedOK
<1>2. /\ \/ history'[t][w] = h /\ granted'[t][w] = g
         \/ history'[t][w] = Append(h, now) /\ \E l \in Limits(w) : granted'[t][w] = Append(g, l)
      /\ Metering!Admit(t) => history'[t][w] = Append(h, now)
  BY RecordGrows
<1>3. PICK f \in [S -> 1..Len(h)] :
          /\ \A p, q \in S : f[p] = f[q] => p = q
          /\ \A q \in S : h[f[q]] = admitted[q]
  BY DEF PacedInv, Recorded
<1>4. GrantedLimits(t, w)'
  <2>1. \A i \in 1..Len(g) : g[i] \in Limits(w)
    BY DEF PacedInv, GrantedLimits
  <2>2. ASSUME NEW l \in Limits(w), granted'[t][w] = Append(g, l), NEW i \in 1..Len(granted'[t][w])
        PROVE  granted'[t][w][i] \in Limits(w)
    <3>1. Len(Append(g, l)) = Len(g) + 1 /\ Append(g, l)[i] = IF i <= Len(g) THEN g[i] ELSE l
      BY <1>1, <2>2
    <3> QED BY <1>1, <2>1, <2>2, <3>1
  <2>3. \A i \in 1..Len(granted'[t][w]) : granted'[t][w][i] \in Limits(w)
    BY <1>2, <2>1, <2>2
  <2> QED BY <2>3 DEF GrantedLimits, Limits
<1>5. PICK k : k = history'[t][w]
  OBVIOUS
<1>6. /\ Len(h) \in Nat /\ Len(k) \in Nat /\ Len(h) <= Len(k)
      /\ \A i \in 1..Len(h) : k[i] = h[i]
      /\ Metering!Admit(t) => Len(k) = Len(h) + 1 /\ k[Len(h) + 1] = now
  <2>1. /\ Len(Append(h, now)) = Len(h) + 1 /\ Len(h) \in Nat
        /\ \A i \in 1..Len(h) : Append(h, now)[i] = h[i]
        /\ Append(h, now)[Len(h) + 1] = now
    BY <1>1
  <2> HIDE DEF h, g
  <2>2. CASE k = Append(h, now)
    BY <2>1, <2>2
  <2>3. CASE k = h
    <3>1. ~Metering!Admit(t)
      <4>1. Append(h, now) # h
        BY <2>1
      <4> QED BY <1>2, <1>5, <2>3, <4>1
    <3> QED BY <2>1, <2>3, <3>1
  <2> QED BY <1>2, <1>5, <2>2, <2>3
<1> HIDE DEF h, g
<1>7. PICK new : new = Through(t)' /\ \A q \in new : admitted'[q] = admitted[q] => q \in S
  BY ThroughBefore DEF PacedInv
<1>8. PICK was, is : was = admitted /\ is = admitted'
  OBVIOUS
<1>9. CASE UNCHANGED admitted
  <2>1. new \subseteq S
    BY <1>7, <1>9
  <2> DEFINE e == [q \in new |-> f[q]]
  <2>2. /\ e \in [new -> 1..Len(k)]
        /\ \A p, q \in new : e[p] = e[q] => p = q
        /\ \A q \in new : k[e[q]] = admitted'[q]
    BY <1>3, <1>6, <1>9, <2>1
  <2> HIDE DEF e
  <2>3. Recorded(t, w)'
    BY <1>5, <1>7, <2>2 DEF Recorded
  <2> QED BY <1>4, <2>3
<1>10. ASSUME NEW r \in Requests, UNCHANGED req, Limiter!Admit(req[r].tenant),
              admitted' = [admitted EXCEPT ![r] = now]
       PROVE  Recorded(t, w)'
  <2>1. \A q \in new : q = r \/ (admitted'[q] = admitted[q] /\ q \in S)
    BY <1>7, <1>10 DEF Through, Of, IInv, SharedOK
  <2>2. r \in new => Metering!Admit(t) /\ admitted'[r] = now
    <3>1. r \in new => req[r].tenant = t
      BY <1>7, <1>10 DEF Through, Of
    <3>2. admitted'[r] = now
      BY <1>10 DEF IInv, SharedOK
    <3> QED BY <1>10, <3>1, <3>2, SameAdmit
  <2> DEFINE e == [q \in new |-> IF q = r THEN Len(h) + 1 ELSE f[q]]
  <2>3. ASSUME NEW q \in new
        PROVE  /\ e[q] \in 1..Len(k) /\ k[e[q]] = admitted'[q]
               /\ q # r => q \in S /\ e[q] = f[q] /\ f[q] \in 1..Len(h)
               /\ q = r => e[q] = Len(h) + 1
    <3>1. CASE q = r
      BY <1>6, <2>2, <2>3, <3>1
    <3>2. CASE q # r
      <4>1. q \in S /\ e[q] = f[q] /\ f[q] \in 1..Len(h) /\ admitted'[q] = admitted[q]
        BY <1>3, <2>1, <2>3, <3>2
      <4> QED BY <1>3, <1>6, <3>2, <4>1
    <3> QED BY <3>1, <3>2
  <2>4. e \in [new -> 1..Len(k)]
    BY <2>3
  <2> HIDE DEF e
  <2>5. ASSUME NEW p \in new, NEW q \in new, e[p] = e[q] PROVE p = q
    BY <1>3, <1>6, <2>3, <2>5
  <2> QED BY <1>5, <1>7, <2>3, <2>4, <2>5 DEF Recorded
<1> QED BY <1>4, <1>9, <1>10, CallingSteps DEF CallsNothing, CallsLate, LetsThrough

(* Entries of a record no more than a window before the time of one are no *)
(* more than one of them was admitted under.                               *)
LEMMA FewInWindow ==
  ASSUME NEW h \in Seq(Int), NEW g \in Seq(Nat), Len(g) = Len(h), NEW n, NEW span \in Nat,
         \A i \in 1..Len(h), j \in 1..Len(h) : i <= j => h[i] <= h[j],
         \A i \in 1..Len(h) : i > g[i] => h[i - g[i]] < h[i] - span,
         NEW s \in Int, NEW P, P # {}, P \subseteq 1..Len(h),
         \A i \in P : h[i] >= s - span /\ h[i] <= s
  PROVE  \E i \in P : IsFiniteSet(P) /\ Cardinality(P) <= g[i]
<1>0. Len(h) \in Nat /\ \A i \in 1..Len(h) : h[i] \in Int /\ g[i] \in Nat
  BY ElementOfSeq, LenProperties
<1>1. IsFiniteSet(P) /\ P \subseteq Nat
  <2>1. PICK N \in Nat : N = Len(h)
    BY <1>0
  <2>2. IsFiniteSet(1..N) /\ P \subseteq 1..N
    BY ONLY <2>1, P \subseteq 1..Len(h), FS_Interval
  <2>3. IsFiniteSet(P)
    BY ONLY <2>2, FS_Subset
  <2> QED BY ONLY <2>1, <2>2, <2>3
<1>2. PICK i \in P : \A j \in P : j <= i
  BY <1>1, FiniteMax
<1>3. PICK k \in Nat : k = g[i]
  BY <1>0
<1>4. i \in 1..Len(h) /\ h[i] <= s
  BY <1>2
<1>5. PICK low \in Int : low = i - k + 1
  BY <1>0, <1>4
<1>6. P \subseteq low..i
  <2> SUFFICES ASSUME NEW j \in P, j < low PROVE FALSE
    BY <1>0, <1>2, <1>4
  <2>1. PICK m \in 1..Len(h) : m = i - k /\ j <= m
    BY <1>0, <1>4, <1>5
  <2>2. h[j] <= h[m]
    BY <1>0, <2>1
  <2>3. h[m] < h[i] - span
    <3>1. i > g[i] /\ i - g[i] = m
      BY ONLY <1>0, <1>3, <1>4, <2>1
    <3>2. i > g[i] => h[i - g[i]] < h[i] - span
      BY ONLY <1>4, \A x \in 1..Len(h) : x > g[x] => h[x - g[x]] < h[x] - span
    <3> QED BY ONLY <3>1, <3>2
  <2>4. h[j] \in Int /\ h[m] \in Int /\ h[i] \in Int /\ h[j] >= s - span
    BY <1>0, <1>4, <2>1
  <2> QED BY <1>4, <2>2, <2>3, <2>4
<1>7. /\ IsFiniteSet(low..i) /\ Cardinality(low..i) = IF low > i THEN 0 ELSE i - low + 1
  <2>1. i \in Int
    BY <1>0, <1>4
  <2> QED BY ONLY <1>5, <2>1, FS_Interval
<1>8. Cardinality(P) <= Cardinality(low..i) /\ Cardinality(P) \in Nat
  BY <1>1, <1>6, <1>7, FS_Subset, FS_CardinalityType
<1>9. Cardinality(low..i) <= k
  BY <1>0, <1>4, <1>5, <1>7
<1>10. Cardinality(P) <= g[i]
  BY <1>3, <1>7, <1>8, <1>9
<1> QED BY <1>1, <1>10

LEMMA LimitBound ==
  ASSUME NEW w \in Metering!Window, AlwaysLimited(w), NEW l \in Limits(w)
  PROVE  MaxOf(Limits(w)) \in Nat /\ l \in Nat /\ l <= MaxOf(Limits(w))
<1>1. Limits(w) \subseteq Nat
  BY LimiterAssumption DEF Limits, AlwaysLimited, Metering!Window
<1>2. IsFiniteSet(Limits(w))
  <2> DEFINE f == [c \in Configs |-> c.limit[w]]
  <2>1. f \in [Configs -> Limits(w)] /\ \A x \in Limits(w) : \E c \in Configs : f[c] = x
    BY DEF Limits
  <2> HIDE DEF f
  <2>2. f \in Surjection(Configs, Limits(w))
    BY <2>1 DEF Surjection
  <2> QED BY <2>2, LimiterAssumption, FS_Surjection
<1> QED BY <1>1, <1>2, FiniteMax

(***************************************************************************)
(* How far the limiter protects the upstream: however the requests of a    *)
(* worker interleave, wait and are refused, of the calls it starts for a   *)
(* tenant in any window at most the largest limit any of the policies has  *)
(* are other than streams let through before that window (main.py 637-681, *)
(* streaming.py 53-55, rate_limiter.py 28-72).                             *)
(***************************************************************************)
THEOREM UpstreamIsPaced == Spec => []UpstreamPaced
<1>1. IInv /\ PacedInv /\ Metering!TypeOK /\ Metering!StoreIsRecentHistory /\ Metering!WindowLimit
        => UpstreamPaced
  <2> SUFFICES ASSUME IInv, PacedInv, Metering!TypeOK, Metering!StoreIsRecentHistory,
                      Metering!WindowLimit,
                      NEW t \in Tenants, NEW w \in Metering!Window, NEW s \in 0..now,
                      AlwaysLimited(w)
               PROVE  Cardinality(Calls(t, w, s) \ Waited(t, w, s)) <= MaxOf(Limits(w))
    BY DEF UpstreamPaced, AlwaysLimited, Limits, Limiter!Window, Metering!Window
  <2>1. s \in Int
    BY DEF IInv, SharedOK
  <2>2. PICK Q : Q = Calls(t, w, s) \ Waited(t, w, s)
    OBVIOUS
  <2>3. PICK span \in Nat : span = Span[w]
    BY LimiterAssumption DEF Metering!Window
  <2>4. Q \subseteq Requests /\ IsFiniteSet(Q) /\ Cardinality(Q) \in Nat
    <3>1. Q \subseteq Requests
      BY <2>2 DEF Calls, Of
    <3> QED BY <3>1, Finite
  <2>5. ASSUME NEW q \in Q
        PROVE  q \in Through(t) /\ admitted[q] >= s - span /\ admitted[q] <= s
    <3>1. /\ q \in Of(t) /\ q \in Requests /\ req[q].route # "playground"
          /\ sent[q] >= 0 /\ sent[q] >= s - span /\ sent[q] <= s
          /\ ~(req[q].kind = "stream" /\ admitted[q] < s - span)
      BY <2>2, <2>3, <2>5 DEF Calls, Waited, Of
    <3>2. /\ admitted[q] >= 0 /\ admitted[q] <= sent[q]
          /\ req[q].kind # "stream" => admitted[q] = sent[q]
      BY <3>1 DEF PacedInv, CallFacts, CallOf
    <3>3. admitted[q] \in Int /\ sent[q] \in Int
      BY <3>1, CalendarAssumption DEF IInv, SharedOK
    <3> QED BY <2>1, <3>1, <3>2, <3>3 DEF Through
  <2>6. PICK h, g : /\ h = history[t][w] /\ g = granted[t][w]
                    /\ h \in Seq(Int) /\ g \in Seq(Nat)
    BY DEF Metering!TypeOK
  <2>7. PICK n : n = now
    OBVIOUS
  <2>8. /\ Len(g) = Len(h) /\ Len(h) \in Nat
        /\ \A i \in 1..Len(h), j \in 1..Len(h) : i <= j => h[i] <= h[j]
        /\ \A i \in 1..Len(h) : i > g[i] => h[i - g[i]] < h[i] - span
    <3>1. Len(g) = Len(h) /\ Metering!Ascending(h, now)
      BY <2>6 DEF Metering!StoreIsRecentHistory
    <3>2. DOMAIN h = 1..Len(h) /\ Len(h) \in Nat
      BY <2>6, LenProperties
    <3>3. \A i \in DOMAIN h : i > g[i] => h[i - g[i]] < h[i] - span
      BY <2>3, <2>6 DEF Metering!WindowLimit
    <3> QED BY <3>1, <3>2, <3>3 DEF Metering!Ascending
  <2>9. PICK f \in [Through(t) -> 1..Len(h)] :
            /\ \A p, q \in Through(t) : f[p] = f[q] => p = q
            /\ \A q \in Through(t) : h[f[q]] = admitted[q]
    BY <2>6 DEF PacedInv, Recorded
  <2>10. CASE Q = {}
    <3>1. config[t].limit[w] \in Limits(w)
      <4>1. config[t] \in Configs
        BY DEF Metering!TypeOK
      <4> QED BY <4>1 DEF Limits
    <3>2. MaxOf(Limits(w)) \in Nat
      BY <3>1, LimitBound
    <3>3. Cardinality(Q) = 0
      BY <2>4, <2>10, FS_EmptySet
    <3> QED BY <2>2, <3>2, <3>3
  <2>11. CASE Q # {}
    <3>1. PICK P : P = {f[q] : q \in Q}
      OBVIOUS
    <3>2. /\ P # {} /\ P \subseteq 1..Len(h)
          /\ \A i \in P : h[i] >= s - span /\ h[i] <= s
      BY <2>5, <2>9, <2>11, <3>1
    <3>3. PICK i \in P : IsFiniteSet(P) /\ Cardinality(P) <= g[i]
      BY <2>1, <2>6, <2>8, <3>2, FewInWindow
    <3>4. Cardinality(P) = Cardinality(Q)
      <4> DEFINE e == [q \in Q |-> f[q]]
      <4>1. e \in [Q -> P] /\ \A x \in P : \E q \in Q : e[q] = x
        BY <3>1
      <4>2. \A p, q \in Q : e[p] = e[q] => p = q
        BY <2>5, <2>9
      <4> HIDE DEF e
      <4>3. ExistsBijection(Q, P)
        BY <4>1, <4>2 DEF ExistsBijection, Bijection, Injection, Surjection, IsInjective
      <4> QED BY <2>4, <4>3, FS_Bijection
    <3>5. g[i] \in Limits(w)
      BY <2>6, <2>8, <3>2 DEF PacedInv, GrantedLimits
    <3>6. MaxOf(Limits(w)) \in Nat /\ g[i] \in Nat /\ g[i] <= MaxOf(Limits(w))
      BY <3>5, LimitBound
    <3> QED BY <2>2, <2>4, <3>3, <3>4, <3>6
  <2> QED BY <2>10, <2>11
<1>2. Spec => [](Metering!TypeOK /\ Metering!StoreIsRecentHistory /\ Metering!WindowLimit)
  <2>1. /\ Metering!Spec => []Metering!TypeOK
        /\ Metering!Spec => []Metering!StoreIsRecentHistory
        /\ Metering!Spec => []Metering!WindowLimit
    BY MeteringAssumptions, Metering!TypeCorrect, Metering!RecentHistory, Metering!LimitHolds
  <2> QED BY <2>1, LimiterInside, PTL
<1>3. ASSUME IInv, Metering!TypeOK, PacedInv, [Next]_vars
      PROVE  PacedInv'
  <2>1. CallFacts'
    BY <1>3, CallsKeep DEF PacedInv
  <2>2. ASSUME NEW t \in Tenants, NEW w \in Metering!Window, AlwaysLimited(w)
        PROVE  Recorded(t, w)' /\ GrantedLimits(t, w)'
    <3>1. CASE Restart
      <4>1. /\ \A q \in Requests : admitted'[q] = -1
            /\ history'[t][w] = <<>> /\ granted'[t][w] = <<>>
        BY <3>1 DEF Restart, Limiter!Restart, Limiter!Window, Metering!Window
      <4>2. Through(t)' = {}
        BY <4>1 DEF Through, Of
      <4>3. [q \in Through(t)' |-> 0] \in [Through(t)' -> 1..Len(history'[t][w])]
        BY <4>2
      <4>4. Recorded(t, w)'
        BY <4>2, <4>3 DEF Recorded
      <4> QED BY <4>1, <4>4 DEF GrantedLimits
    <3>2. CASE ~Restart
      BY <1>3, <2>2, <3>2, RecordedKeeps
    <3> QED BY <3>1, <3>2
  <2> QED BY <2>1, <2>2 DEF PacedInv, AlwaysLimited
<1>4. Spec => []PacedInv
  BY <1>2, <1>3, InitPaced, IInvHolds, PTL DEF Spec
<1> QED BY <1>1, <1>2, <1>4, IInvHolds, PTL
=============================================================================
