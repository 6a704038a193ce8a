# A formal model of sAIfety

sAIfety is a proxy in front of the OpenAI and Anthropic APIs: it authenticates
the caller, limits its rate and its monthly volume, runs guardrails over the
request and the answer, replaces personal data by tokens on the way out and
back on the way in, records what happened and announces refusals to a webhook.
It also is a small SaaS: accounts, plans, billing, a dashboard.

This directory holds TLA+ modules of the parts of it where order, concurrency
or failure matter, TLC configurations that check them on small instances, and
proofs checked by TLAPS. Every definition is translated from the source; the
`map` of `PROJECT.json` names the lines.

    tlasany M.tla                          # parse
    tlc -workers 2 -config X.cfg M.tla     # check a run of PROJECT.json
    tlapm M.tla                            # check the proofs of M

## The system

| Part | State it keeps | Operations | Interacts with |
|---|---|---|---|
| Rate limiter, `rate_limiter.py` | per tenant two deques of timestamps, in the process | `check`, `status` | called by both proxy routes, with the limits of the policy just read |
| Request handling, `main.py` 573-854, 368-511 | nothing but what a handler holds across its awaits | `proxy_openai`, `proxy_anthropic`, `playground_live` | everything below |
| Streaming, `streaming.py` | per stream: text so far, restorer buffer, length last moderated | the two generators | upstream event stream in, client event stream out; audit, webhook, vault |
| PII guardrail, `guardrails/pii.py` | per request a vault: counters, value to token, token to value | `check`, `tokenize`, `reserve_existing`, `restore`, `StreamRestorer.feed/flush` | pipeline, streaming |
| Toxicity, `toxicity.py` | none (the stream carries `tox_last_len`) | `check`, `check_stream` | word list, or two external services, failing open |
| Pipeline and stateless guardrails, `pipeline.py`, `guardrails/*` | none | `run_input`, `run_output_*`, `check_stream_chunk` | request handling |
| Audit log, `audit.py` | a table, SQLite or Postgres | `log`, `get_monthly_request_count`, statistics | all handlers |
| Webhooks, `webhooks.py` | one task per announced event | `dispatch`, `_deliver_with_retry` | all refusals; an external receiver |
| Policies, `policy.py`, `policy.yaml` | a YAML file | load and merge; edited by `main.py` 918-970 and `users.py` 130-191 | read by every request |
| Accounts, `users.py` | a SQLite table, reset tokens, sections of `policy.yaml` | sign-up, keys, plans, password reset | request handling, billing |
| Billing, `billing.py` | none; Stripe's events | `handle_webhook` | accounts |
| Keys and sessions, `auth.py`, `dashboard_auth.py` | `keys.yaml`; sessions in the memory of each process | validate, create, revoke | middleware, log-in routes, proxy routes |
| E-mail, pages, deployment | | | |

What is hard in it:

- **Concurrency.** One event loop runs the handlers as coroutines, and they
  interleave at each `await` (body, upstream, moderation). What was read before
  an await is used after it: the account's plan, the count of requests. Several
  worker processes share the database and `policy.yaml`, but neither the
  limiter's deques nor the lock on that file.
- **Failure.** The upstream fails, times out, sends an event stream that stops
  half way; the client goes away; an audit insert fails and is swallowed; the
  receiver of a webhook takes the event and its answer is lost; the process
  stops.
- **Order.** Text arrives cut at arbitrary places, tokens in pieces; Stripe's
  events in any order.
- **Time and numbers.** Windows slide over float timestamps, `Retry-After` is
  in whole seconds, a month has a boundary.

`PROJECT.json` lists these under `hazards`, each at its line, with the property
that would catch it or the reason why there is none yet.

## The modules

### The rate limiter: `SlidingWindow`, `RateLimiter`

`RateLimiter.check` has no await, so a call is one step: `Admit` appends the
time to the deque of each window with a limit, `Refuse` is the early return of
`_check_window` for one window (the minute is looked at first; what was looked
at has been evicted, what was not has not). `Used` and `Remaining` are `status`.
`SetConfig` is the policy that the next request will read. `Restart` empties
the deques. `Tick` is the clock, which is finer than the second in which
`Retry-After` is announced (`TicksPerSecond`). `history` and `granted` are
history variables: every admission, and the limit it was admitted under.

`SlidingWindow` says what is promised, without deques: it keeps the admissions
for ever and counts them afresh. `RateLimiter` implements it (`Refinement`,
with `history` for the admissions).

`WindowLimit` is the promise in one line: if a request was admitted under a
limit of n, the n-th admission before it is more than a window older. It holds
however limits are raised, lowered or switched off in between.
`RetryAfterIsExact` says that the announced time is neither too short nor more
than a second too long. `StatusMatchesCheck` relates two pieces of code that
count in two ways, of which one does not look at `enabled`: a section that is
switched on shows nothing remaining exactly when the next check would refuse,
and one that is switched off may show it too, and refuses nobody. `StoreBounded` says the lazy eviction does not let a deque
outgrow the limits.

### Requests: `ProxyRequest`, on `RateLimiter`

One variable per thing a request is: `phase` (what its coroutine waits for),
`req` (what the handler holds on to across awaits, the plan read at
authentication among it), `admitted` and `sent` (when the checks let it through
and when its upstream call started), `rows` (its audit rows), `alerts` (its
webhook events), `response`. `Authenticate` ends at `await request.json()`; `Decide` is
all that happens from there to the call of the upstream, in one step: limiter
(an instance of `RateLimiter`, its actions conjoined), monthly cap, input
guardrails; `Upstream` is what happens when the upstream has answered,
`Moderated` when an ML toxicity provider has. A stream is handed to the server
as a generator and waits in phase `opening` until the server first asks it for
data; `StreamOpens` is its upstream call, `StreamEnds` its end, abstracted from
the stream modules: one row, one or none announcement.
`PlaygroundLive` neither limits nor caps but its rows count, and its call is
sent too. `SetPlan` changes account and limits. `On` is the list of events of
the policies' webhook, empty if it is off. `Restart` ends what waited and empties
the limiter, and the calls counted from there on are those of the new process;
a process that is killed within a step, between a row and its announcement, is
not modelled. What a guardrail or the upstream answers is an open choice.

`AuditMatchesResponse` and `RefusalsAlertOnce` relate what the client was told
to what was recorded and announced. `CapOverrunBounded` states what the cap
does guarantee: it is checked before the upstream call and counted after it, so
it is overrun, but by less than the number of requests that were past the check
at the same time (`peak`). It does so month by month: `MonthStart` is what
`mktime` makes of the first of the UTC month, `Zone` ticks before or, west of
UTC, after it; `Turn` is the tick at which the month turns. `UpstreamPaced`
says how far the limiter protects the upstream: of the proxied calls a process
starts in any window, no more than the largest limit were let through in that
window. Plain requests are sent in the step that admits them; streams are not,
so that those let through earlier come on top.

### Streams: `TokenText`, `StreamGuards`, `StreamOpenAI`, `StreamAnthropic`

A text is a sequence of symbols: `[`, `N` for a piece of a token's name, `1`
for a digit, `]`, and others. `TokenText` has the matching of tokens, `Restore`
and the restorer's `Feed`; `StreamGuards` what is judged after each piece of
text (length; word list; or an ML provider, asked when the text has grown by
`Interval`, and failing open), and `CompleteRejected`, what the validator and
the word list say of a complete response: `Conforming` are the texts the
policy's JSON schema lets pass. The two stream modules are the two generators:
one action per kind of event, in the order in which the code accumulates,
judges, restores and yields. `delivered` is the text the client has been sent,
`received` of Anthropic's the same per content block. With `ChoiceCount` above
one an OpenAI stream has several choices, each with a finish of its own, in any
order, one in each chunk; `texts` is what the upstream sent of each. Of a chunk
with several choices the code looks at the first and passes on the others
unseen, which is not modelled. The audit row of a complete stream is written
before its end marker is passed on; a client that goes away at that very moment
is not told apart from one that has got it. What the two have in
common, the text so far, the restorer's buffer, the provider, the rows, is
declared in `StreamGuards`, and Anthropic's actions and specification have
names of their own (`MessageInit`, `MessageNext`, `MessageSpec`), so that one
module can prove about both.

`RestoredWhenDone` and `BlocksRestored` compare with `Restore` of the whole
text, the reference: wherever the upstream cuts, the client ends up with what
it would have got in one piece. `DeliveredIsClearedPrefix` and
`SentTextIsClean` say that nothing goes out of a text that was refused as a
whole, even if none of its pieces would be; the latter about what each block
`received`, in terms of what restoring makes of the part of it that was let
pass. `UnjudgedBounded` bounds what came
after an ML provider was last asked. `StreamJudgedAsComplete` compares the
verdict on a stream with that on the complete text, where there is nothing to
restore: a stream is refused only for what the complete response would be
refused for, however it went on, and one that passes would be refused over its
schema or not at all, since the schema is not applied to streams.
`TokensComeBack` is what the README says of tokens; streams of several choices
violate it.
Those about the order of the text, `RestoredWhenDone` and
`DeliveredIsClearedPrefix`, are about streams of one choice. When the chunk with the finish reason has text,
what was held back goes out ahead of it; the history variable `ahead` notes how
much, and `Straightened` is the client's text put right, so that the properties
say that this is all that goes out of order. `RowMatchesEnd` and
`RowMeansComplete` tie the audit row to how the stream ended.

### The vault: `PIIVault`

A text is what the guardrail sees of it: a sequence of pieces of PII and of
strings that look like tokens. `Begin` takes up the next text and reserves the
lookalikes' numbers if the text has PII (`_sanitize`, `reserve_existing`);
`Copy` and `Tokenize` write the next item. `VaultIsOneToOne`, `EchoIsRestored`
(a reply that repeats the request gives back the caller's values) and
`ReservedLiteralsSurvive` (a reserved lookalike is never given to a value first
met from that text on).

### Accounts, policies and billing: `Accounts`

Two stores that must agree: the users table (`accounts`) and the tenants'
sections of `policy.yaml` (`file`). An operation starts with its database
transaction (`SignUp`, `SaveKey`, `HandleWebhook` with `SetPlan`; `EditPolicy`
of the editor has none) and leaves a job: `ReadFile`, `Truncate`, `Dump` the
whole file, then `SetStripeIds` for a checkout. No step of it is awaited, so
each worker has one job; `Crash` may cut it anywhere, and a file cut between
`Truncate` and `Dump` stays empty. While truncated, the file reads as empty; a
larger file is flushed in parts, which is not modelled. At Stripe `Happens`
queues an event, named by the plan it sets; deliveries are taken in any order
and repeated until acknowledged. `Load` is what a request gets of the file. The
history variables `overtaken` and `excused` say what may be out of step: an
event handled before an older one, a setting whose write was cut by a crash and
will not be repeated, or that the editor replaced. `Custom` stands for limits
that are no plan's.

`LimitsFollowPlan` is the self-repair of the two writes by Stripe's redelivery;
an interrupted plan change is not excused. `KeyInForce` says whose key goes
upstream. `PlanFollowsStripe` says that repeated and interrupted handling ends
in the plan of the last event, which needs the customer id stored before the
checkout is acknowledged.

### Webhooks: `WebhookDelivery`

A task per event: `Dispatch`, `Delivered` (a status below 500), `Failed` (500
and above, network error or timeout; the receiver may have got the copy),
`Wake` after the backoff, `Shutdown`, which ends the tasks with the process.
`waited` is the sequence of the sleeps of a task.
`CopiesExplained` bounds the copies by what happened and says that giving up
takes all attempts and the whole backoff, `SettledStays` that nothing
is sent after an answer, `DeliveryEnds` that every delivery ends.

### The guardrails: `InjectionScore`, `Pipeline`

`Pipeline` follows one conversation: `CheckInjection`, `CheckTopics`,
`SanitizeMessages` and `SanitizeSystem` are the steps of `run_input`, each of
which may end it; then the upstream's `Answer`; `Reinject` and `Validate` are
`run_output_openai` and `run_output_anthropic`, `JudgeToxicity` the check of
the routes. `working`, `system` and `vault` are the variables of that name, with
which one step hands over to the next. `PlaygroundTest` is the other place
that runs the guardrails, `POST /playground/test`, as an operator. A text is a
sequence of words with an injection profile: which signatures match the text,
its leetspeak fold and each base64 payload in it, and which tricks it shows.
`InjectionScore` is `_analyze` on such a profile, in halves.

`NothingRawUpstream` says that no personal data of messages or system prompt is
forwarded, and that each token forwarded can be brought back;
`PlaygroundForetells` that the playground's verdict and text are the proxy's;
`PassedReplyWasJudged` that what is passed on is what was judged: restored,
short enough with the values in it, of the schema, free of the word list as far
as it is looked at, choices one by one and blocks put together. `InjectionAsDocumented` compares the score with what the comments of
`_analyze` say counts (`Suspicious`), up to a threshold of 1.0.

### Log-in and password reset: `Sessions`

Several processes share `password` and `tokens`, two tables of the database;
`sessions` is `_SESSIONS` of each. A log-in makes a session in the process that
serves it and a cookie in a browser's `jar`; a log-out reaches one process.
`RequestReset` is one transaction, `use_reset_token` is two, `LookUpToken` and
`CommitReset` or `DropExpired`, between which other processes go on; `job` is
the reset a process has under way. `Restart` forgets sessions and job.
`Identity` is what the middleware takes a request for. `issued` and `resets`
are history.

`ResetsJustified`: a reset that takes effect began with a token of that user
that was the newest, unused and not expired. What the gap between the
transactions does allow is that overlapping resets both happen.
`CookieIdentity`: a cookie is taken for its owner's or for none's, wherever the
request goes.

## The runs

| Run | Instance | Shows |
|---|---|---|
| `RateLimiter` | one tenant, half-second ticks, windows of 3 and 5 ticks, clock to 7, five policies (raised, lowered, one limit missing, switched off, a limit of zero), restarts | type, five invariants, the refinement |
| `ProxyRequest` | two requests, all routes, with an ML provider or streamed; two plans that change, with hourly limits of 1 and 2, one request a minute, a cap of one; windows of 1 and 2 ticks, clock to 2, where the month turns, local time one tick ahead of UTC; lost audit rows, restarts, a webhook for two of the three events | type, four invariants |
| `StreamOpenAI` | all texts of up to 6 symbols in pieces of 1 and 2, one token of 4 symbols with a longer value, word list and ML provider, with and without tokens; one choice; the finish may have text | type, five invariants |
| `StreamOpenAIChoices` | the same with two choices, 5 symbols and no toxicity check | **violated**: `TokensComeBack` |
| `StreamAnthropic` | two blocks, 6 symbols, pieces of 1 and 2 | three invariants |
| `PIIVault` | three texts of up to two of six items: three pieces of PII (one value with two types), three lookalikes | type, three invariants |
| `PIIVaultLiteral` | the same | **violated**: `LiteralsSurvive` |
| `WebhookDelivery` | two events, three attempts | type, an invariant, an action property, liveness |
| `Accounts` | one process, two users of one file, one of whom is a customer and is edited; two paid plans, up to two events waiting, crashes anywhere | type, three invariants |
| `Sessions` | two users, two processes with restarts, two reset tokens, three sessions, clock to 2, with and without an admin password | type, `ResetsJustified`, `CookieIdentity` |
| `Pipeline` | one and two messages, both APIs, four signatures in two categories, a topic of two words, 25 policies, replies of up to two texts | four invariants |
| `AccountsWorkers` | two processes, sign-ups and keys only | **violated**: `EveryUserProvisioned` |

Why the bounds are enough. The limiter's tenants do not share state, so one
stands for all; its clock runs past two minutes and one hour with up to three
admissions in each, so that windows slide, fill and empty, and limits change at
every point of it. A cap of one is overrun by two requests that are under
way together, as far as the bound allows; larger caps only take more requests,
and `CapOverrun` is proved for all of them. Under a limit of one, two calls in a
window are one too many, and in two ticks a stream can wait until a window has
passed and another request was let through. An `ml` request may be answered
without the provider being asked, so that kind `plain` adds nothing. Requests
are symmetric, and the symmetry set is declared. In six symbols a token of four
fits with something before and after it, cut in all ways, and the longest text
that passes is one shorter. Two texts are needed for
the aliasing of a lookalike, three for a vault that has grown between them. Two
deliveries share nothing but the process that ends.

An edit of one user's section truncates both users' file, which is all that
users share; two waiting events are what it takes for one to overtake another;
the two paid plans are exchanged by a declared symmetry.

Two tokens are one that replaces another, or one for each user; three sessions
are two in one process and one in the other, or two of one person. With a
token's and an admin cookie's life of one tick and a clock to 2 both expire.
Conversations have two messages because a topic may be spread over two; the
profiles have signals in the text only, in the fold only, in both, in the same
and in another category, in the second of two payloads. A topic and a word of
the word list are spread over two texts. `Width` makes a value longer than its
token, so that restoring can exceed the maximal length.

Deadlock is not checked where the system simply is done: all requests answered,
the stream ended, the texts written, the deliveries settled.

### Fairness

Only `WebhookDelivery` has liveness. Its fairness is weak fairness of the end
of a post and of the end of a sleep. What justifies the former is the client's
timeout (webhooks.py 88): ten seconds for each connect, write and read, so that
a receiver that is silent ends the post. One that keeps sending its answer drop
by drop can hold it longer; that it stops at some time is the one thing assumed
about the receiver. `Shutdown` may come at any time. Streams have no liveness: the read timeout of the upstream
is switched off (streaming.py 25-26), so a stream may hang for ever.

### Disagreements between code and documents

Each is a run marked **violated** above and an entry of `findings`:

- A lookalike in a text without PII is not reserved (pii.py 175).
- The lock around `policy.yaml` is one of threads (users.py 135): with the four
  workers of README 720 a sign-up can drop another tenant's section.
- Tokens split across chunks are "restored mid-stream" (README 258), but the
  choices of a stream share one restorer (streaming.py 46, 121): where they
  interleave, a token goes out as it is (`StreamOpenAIChoices`).

More were met on the way and have no run of their own:

Concurrent requests exceed the monthly cap (main.py 587 and 716), which the
docstring of `_check_monthly_limit` does not say; `CapOverrunBounded` says by
how much. West of UTC nothing counts for the first hours of a month (audit.py
139). Text in the chunk with the finish reason is sent after the text that was
held back ahead of it, and so out of order (streaming.py 127; `Straightened`).
`run_input` says that the system prompt is checked for injection and that the
topic filter looks at user messages only (pipeline.py 47 and 59): injection
looks at messages of users only, the filter at all of them, OpenAI's system
prompt included. Above a threshold of 1.0 a fold with a new category counts the
signals of the plain text twice (injection.py 176-182). Only the first choice
of a reply is checked for toxicity (main.py 704). README 472 says that sessions
expire after 24 hours: a user's cookie lives 30 days, and the server's entry
until a log-out reaches its process, or a restart. The docstring of
`dashboard_auth.py` opens the dashboard if there is no password and no account;
the middleware looks at the password only (main.py 81; `Identity`).

"Response character count exceeds your limit" is refused (README 281), and
complete replies are measured as the client will see them (pipeline.py 98); a
stream is measured with its tokens and sent with the values, which may be longer
(streaming.py 93; `StreamJudgedAsComplete` and `SentTextIsClean` speak of the
text before restoring). A JSON schema is not applied to streams, which streaming.py 9-10 says and the
table of README 279-283 does not (`StreamJudgedAsComplete`). The usage endpoint
reports on a rate limit that is switched off as if it were on
(rate_limiter.py 104-124; `StatusMatchesCheck`). A stream is admitted before its
upstream call, so that calls of two windows may start in one (`UpstreamPaced`).

Then: a limit of 0 is answered by an `IndexError` (rate_limiter.py 90; the
answer `raised` of `Refuse`, within the run `RateLimiter`); a forwarded request
whose upstream fails or whose stream is cut has no audit row, where README 24
says every request is recorded (`AuditMatchesResponse` allows for it); an event
of Stripe that overtakes an older one sets the wrong plan (`overtaken`); who
buys a second plan and then ends the first is set to the free plan, because
billing.py 130-135 does not look at which subscription ended (`due` is free
then, so `PlanFollowsStripe` agrees); a subscription that is overdue, then
paid, stays on the free plan; the restorer's holdback has no bound, though
pii.py 138 names one; a chunk with an empty list of choices ends the stream
with an exception (streaming.py 86; the action `EmptyChoices`); a webhook is
posted three times, so retried twice, where README 524 speaks of three retries.

## The proofs

Every safety invariant and action property of the passing runs is a theorem
here, for every value of the constants that the named assumptions allow. The
shape is the same throughout: the invariant as the run states it is seldom
inductive; a strengthening is (`IInv` and its like), shown by one lemma per
action, and the property follows from it.

`RateLimiterProofs`, for all tenants, window lengths, limits, configurations
and clocks (from the assumptions of `RateLimiter`: windows and ticks are
positive, limits natural or absent):

- `TypeCorrect`: `Spec => []TypeOK`.
- `RecentHistory`: `Spec => []StoreIsRecentHistory`. It is inductive with
  `TypeOK`: what `Evicted` takes away is older than the cutoff because the
  history ascends and the clock does not go back.
- `LimitHolds`: `Spec => []WindowLimit`. An admission under n happens when the
  deque holds fewer than n; the deque is the end of the history from the cutoff
  on (`RecentHistory`), so the n-th admission before is out of it.
- `Implements`: `Spec => Refinement`. Under `RecentHistory` the length of the
  swept deque is the number of admissions in the window (a bijection between
  indices), so guards agree.
- `StatusAgrees`: `StatusMatchesCheck`. `status` filters the deque and `check`
  pops its head; both leave the same entries because the deque ascends. The
  statement is of every limit, and says of a section that is switched off that
  it refuses nobody whatever it shows.
- `DequesStayBounded`: `StoreBounded`. An admission sweeps first, and is only
  let in below the limit.
- `RetryAfterHonest`: `RetryAfterIsExact`, strengthened by `RefusalStands`
  (since the refusal the deque has not changed, and what was announced lies
  within a second after its oldest entry leaves the window). Rounding down by
  `int` and adding one is bounded by `DivBounds`.

`PIIVaultProofs`, for all types, values, sets of texts and numbers of texts:

- `FiniteMax` (a finite set of naturals that is not empty has a largest
  element, from the well-foundedness of the strict subset order) and
  `ReservePast` (reserving lowers no counter and passes every lookalike).
- `TypeCorrect`; in particular what stands upstream in the place of PII is a
  token.
- `OneToOne`: `Spec => []VaultIsOneToOne`, with the strengthening
  `NumbersUsed`: the counter of a type is past every number given. Without it
  the next token could be one that was given.
- `EchoRestored`: `Spec => []EchoIsRestored`, from `OutIsMasked` (every
  piece of PII was written as its value's token) and `OneToOne`.
- `LiteralsStayReserved`: `Spec => []ReservedLiteralsSurvive`, with
  `LiteralsPassed` (the counters are past every lookalike of a text with PII)
  and `AllGiven` (each token of the vault was given in some text).

`ProxyProofs`, for any finite set of requests, any tenants, plans, caps, limits
and months:

- `TypeCorrect`: `Spec => []TypeOK`.
- `AuditNeverContradicts` and `RefusalsAreAnnouncedOnce`:
  `AuditMatchesResponse` and `RefusalsAlertOnce`. Neither is inductive: they
  say nothing of a request that is still under way. `Books` adds that such a
  request has no row, no event and no answer yet; then each step either goes on
  and leaves the books alone (`MoveKeeps`) or answers, logs and announces under
  one outcome (`FinishKeeps`), and every branch of the handlers is one of the
  two.
- `CapOverrun`: `CapOverrunBounded`. What counts is not the requests that
  passed but the charge: those that passed or may still pass. `WithinCap`
  bounds the charge of each month by the largest cap and the peak. It can only
  grow at `Forward`, where the rows of the month are under the cap and all the
  others of the charge are past their check, so that they are among the peak
  (`ForwardCharges`, `ForwardWithinCap`).
- `LimiterInside`: `Spec => Metering!Spec`. The steps of a worker are steps of
  `RateLimiter` or leave it alone, so that every theorem of `RateLimiterProofs`
  holds of it (`Metering` is an instance of that module).
- `UpstreamIsPaced`: `UpstreamPaced`. Each proxied request that was let through
  since the process started has its own entry, with its time, in the limiter's
  history (`Recorded`, an injection); one that is no stream was sent at that
  very time, and a stream no earlier (`CallOf`). So the calls of a window,
  without the streams that waited since before it, were all admitted in it, and
  whatever lies within a window of the history is no more than the limit of its
  last entry (`FewInWindow`, from `LimitHolds`). A restart forgets both sides.

`SessionsProofs`, for any users, processes, bounds and lives of tokens:

- `TypeCorrect`: `Spec => []TypeOK`.
- `ResetsAreJustified`: `Spec => []ResetsJustified`, strengthened by
  `TokensFresh` (what is in the table is the newest of its user and unused) and
  `JobsJustified` (a reset under way has seen such a token).
- `CookiesKeepIdentity`: `Spec => []CookieIdentity`, strengthened by the fact
  that no number of a session or cookie is past `made`, so that a new one is
  new.

`AccountsProofs`, for any users, plans, numbers of waiting events, crashes and
edits, **assuming `OneWorker`**: one process serves all users, as the command of
the `Dockerfile` starts it. With the four workers of README 702 none of this is
true, and `AccountsWorkers` shows it.

- `TypeCorrect`, `LimitsAgree` (`LimitsFollowPlan`), `OwnKeyOrNone`
  (`KeyInForce`), `StripeSettlesThePlan` (`PlanFollowsStripe`), and
  `OneWorkerProvisions`: the very property that `AccountsWorkers` violates.
- The properties speak of quiet states; the invariant speaks of every state
  between. `Agrees` says of a section and its account that what differs is
  excused, is being written (`Busy`), or is `Owed`: the event that set the plan
  will come again and will not be ignored then. It must hold of the file, and,
  while the file is truncated, of what the job read from it (`Staged`).
  `EventHeld` says that the event a job handles is unacknowledged and the
  oldest, `InOrder` that the last waiting event is the one that is due and that
  the customer is known before anything can end the plan.
- `WithoutOne` is what taking an acknowledged event out of the queue does to
  it.

`WebhookProofs`, for any events and number of attempts:

- `TypeCorrect`, and `CopiesAreExplained` (`CopiesExplained`) by `Backoff`: the
  sleeps of a task are those after its failures so far (`Naps`), all of them but
  for the last attempt; and `Copies`.
- `NothingAfterTheEnd`: the action property `SettledStays`.

`StreamProofs`, for every vault, every text, every limit, and every way of
cutting the text into chunks; the theorems are of `Spec`, OpenAI's generator, or
of `MessageSpec`, Anthropic's:

- Lemmas about the operators. `Flattened` and `FlattenConcat` (what
  `FlattenSeq` does and that it is a homomorphism: the recursive function it is
  made of is shown to exist for sequences of each length, by the least length
  for which it would not), `RestoreSplits` (`Restore` of a text is `Restore` of
  two parts if no token lies across the cut), `HeldBack` and `HeldCutsNone`
  (what the restorer holds back begins with a partial token, and no token lies
  across the cut before it), and `FeedGoesOn`, which puts them together: a
  restorer that has taken `c` and is fed `x` is where one is that takes `c \o
  x` at once.
- `Filled(c, buf, d)` is the state of a restorer fed with `c`: it holds back
  `buf`, and has given `d`. `FilledGoesOn`, `FilledEnds`, `FilledThenStopped`
  are its life.
- OpenAI: `IInv` says that what has gone out is what the restorer gave
  (`Going`), and after the finish everything but for the order (`Gone`), that
  the verdict so far is that of the whole text (`Verdict`) and that less than
  an interval is unjudged. `JudgedAsComplete` rests on `OverrunStays`: a text
  that is refused stays refused whatever follows. From it `TypeCorrect`, `RestoredAtTheEnd`,
  `OnlyClearedText`, `RowTellsTheEnd`, `LagIsBounded`, `JudgedAsComplete`.
- Anthropic: `MessageInv` says of the open block what `IInv` says of a stream,
  with the block's own text (`OpenBlock`; what is held back is of this block),
  and that closed blocks are whole (`ClosedBlocks`). `OnlyCleanText` needs more:
  that the parts let pass, put together, are the text that was judged
  (`FlattenExtended`), and that a refused delta leaves its block what it had
  (`CleanWhenRefused`). From it
  `BlocksAreRestored`, `OnlyCleanText`, `RowTellsTheMessage`.

`PipelineProofs`, for any conversations, policies, replies, signatures and
weights:

- `ScoreAsDocumented`: the score, a sum by recursion over sets (`Total`, with
  `TotalUnion` and `TotalLess`), reaches a threshold up to 1.0 exactly when the
  comments of `_analyze` say so. From it `InjectionIsAsDocumented`.
- `MentionedInside` and `LengthInside`: what is mentioned in, and how long is,
  one text of a reply that was joined for judging.
- `IInv` follows the conversation: until the PII guardrail nothing is touched,
  between its two halves the messages are done and the system prompt is not
  (`HalfProtected`), upstream is what the guardrail made of both with a vault
  of exactly their values (`Protected`); a refusal has its reason (`Reasoned`);
  the reply is whole before it is judged (`ReplyJudged`).
- `NothingRawLeaves`, `TestForetells`, `PassedIsJudged` follow:
  `NothingRawUpstream`, `PlaygroundForetells`, `PassedReplyWasJudged`.

What the proofs assume of the constants are the modules' assumptions, which TLC
evaluates in every run. Those that are more than types: tenants' policies,
plans and signatures are finitely many, as the files and lists are that they
come from; a vault's values are texts and not empty; the word list's phrase is
not empty; a text that comes in has no tokens or masks of its own, since what
looks like one is a plain word there (how lookalikes are told apart is
`PIIVault`'s).

Only model-checked: `DeliveryEnds`. Liveness under fairness is out of the
prover's reach. The three properties of the violated runs are false:
`LiteralsSurvive`, `TokensComeBack`, and with two workers `EveryUserProvisioned`.

## Not modelled

Malformed event lines; several choices in one chunk of a stream; what patterns,
normalisation and decoding find in a string; JSON schemas but for one; the
limiter in several processes; clocks set back, for which no property of the
limiter holds; passwords and encryption; the keys of `keys.yaml`; Postgres;
statistics, pages and e-mail, which keep no state or leave it to a library.
`PROJECT.json` lists each component with its status.

## Plan

1. *(done)* Limiter with its abstract specification; requests; streams; vault;
   webhooks; proofs about limiter and vault.
2. *(done)* `Accounts`: two stores, crashes, Stripe's events, the editor.
   *(open)* an abstract atomic map of settings, implemented where one process
   runs without crash.
3. *(done)* `Sessions`: dashboard sessions, reset tokens, proved.
   *(open)* keys of `keys.yaml`, reloaded while requests come.
4. *(done)* `Pipeline`, `InjectionScore`: order of the guardrails, validation,
   streamed against complete answers; the calendar of the monthly cap.
5. *(done)* Proofs of every safety invariant and action property of the passing
   runs.
   *(open)* for two workers, what of `KeyInForce` remains true; the streams'
   generators as implementations of one abstract stream that restores and
   judges whole texts.
