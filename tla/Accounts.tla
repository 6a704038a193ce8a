------------------------------- MODULE Accounts -------------------------------
(***************************************************************************)
(* Accounts, their plans and keys (users.py), the tenants' sections of     *)
(* policy.yaml (users.py, policy.py, the policy editor's routes of         *)
(* main.py) and the Stripe events that change plans (billing.py).          *)
(*                                                                         *)
(* An operation commits to the database first and then reads, truncates    *)
(* and rewrites the whole file.  Nothing of it is awaited, so a worker     *)
(* process does one operation at a time; the lock around the file is one   *)
(* of threads and does not reach another process.  A process may stop      *)
(* anywhere.                                                               *)
(*                                                                         *)
(* A tenant is named by its user.  Of a section only the rate limits, by   *)
(* the plan they come from, and whether it has an upstream key are kept    *)
(* (the keys of the two APIs are handled alike).                           *)
(***************************************************************************)
EXTENDS Integers, Sequences

CONSTANTS
    Users,        \* the users who may sign up
    Workers,      \* the server's processes
    Default,      \* the section "default"
    PaidPlans,    \* the plans that are bought
    Free,         \* the plan "free"
    Custom,       \* rate limits that are not a plan's
    NoAccount, NoSection, NoEvent, Nobody,
    MaxPending,   \* bound: events of a user that Stripe still has to deliver
    Customers,    \* bound: the users who buy plans
    Edited        \* bound: the sections changed through the policy editor's routes

Plans   == PaidPlans \cup {Free}
Tenants == Users \cup {Default}
Section == [limits : Plans \cup {Custom}, key : BOOLEAN]
Account == [plan : Plans, key : BOOLEAN, billed : BOOLEAN]

ASSUME PlansAssumption == Free \notin PaidPlans /\ Custom \notin Plans
ASSUME TenantsAssumption == Default \notin Users
ASSUME NothingAssumption ==
    /\ NoAccount \notin Account
    /\ NoSection \notin Section
    /\ NoEvent \notin Plans
    /\ Nobody \notin Tenants
ASSUME BoundsAssumption ==
    MaxPending \in Nat /\ Customers \subseteq Users /\ Edited \subseteq Tenants

VARIABLES
    accounts,   \* accounts[u]: u's row of the users table
    file,       \* file[t]: the section of t in policy.yaml
    job,        \* job[w]: what worker w is in the middle of
    pending,    \* pending[u]: u's events not yet acknowledged; an event is the
                \* plan it sets, Free when a subscription lapses or ends (external)
    due,        \* due[u]: the plan the last event of u stands for, once there is one
    overtaken,  \* overtaken[u]: an event of u was delivered before an older one
    excused     \* excused[u]: settings a crash or the editor took out of step

vars == <<accounts, file, job, pending, due, overtaken, excused>>

Change == {"default", "limits", "key", "put", "delete"}
Settings == {"limits", "key"}

EmptyFile == [t \in Tenants |-> NoSection]
NewSection(plan, key) == [limits |-> plan, key |-> key]

Idle == [at |-> "idle", tenant |-> Default, change |-> "put",
         section |-> NewSection(Free, FALSE), raw |-> EmptyFile, event |-> NoEvent]

(* The job that is left once the database has the change: edit the file. *)
Edit(t, change, section, event) ==
    [at |-> "read", tenant |-> t, change |-> change, section |-> section,
     raw |-> EmptyFile, event |-> event]

Init ==
    /\ accounts = [u \in Users |-> NoAccount]
    /\ file = [EmptyFile EXCEPT ![Default] = NewSection(Custom, TRUE)]
    /\ job = [w \in Workers |-> Idle]
    /\ pending = [u \in Users |-> <<>>]
    /\ due = [u \in Users |-> NoEvent]
    /\ overtaken = [u \in Users |-> FALSE]
    /\ excused = [u \in Users |-> {}]

-----------------------------------------------------------------------------
(* What starts an operation, and commits its change to the database.       *)

(* Mutated form (of SignUp): the row is inserted without a plan. *)
SignUpPlanless(w, u) ==
    /\ job[w] = Idle
    /\ accounts[u] = NoAccount
    /\ accounts' = [accounts EXCEPT ![u] = [plan |-> NoEvent, key |-> FALSE, billed |-> FALSE]]
    /\ job' = [job EXCEPT ![w] = Edit(u, "default", NewSection(Free, FALSE), NoEvent)]
    /\ UNCHANGED <<file, pending, due, overtaken, excused>>

(* The e-mail is unique: a second sign-up inserts nothing and goes no further. *)
SignUp(w, u) ==
    /\ job[w] = Idle
    /\ accounts[u] = NoAccount
    /\ accounts' = [accounts EXCEPT ![u] = [plan |-> Free, key |-> FALSE, billed |-> FALSE]]
    /\ job' = [job EXCEPT ![w] = Edit(u, "default", NewSection(Free, FALSE), NoEvent)]
    /\ UNCHANGED <<file, pending, due, overtaken, excused>>

SaveKey(w, u) ==
    /\ job[w] = Idle
    /\ accounts[u] # NoAccount
    /\ accounts' = [accounts EXCEPT ![u].key = TRUE]
    /\ job' = [job EXCEPT ![w] = Edit(u, "key", NewSection(Free, TRUE), NoEvent)]
    /\ UNCHANGED <<file, pending, due, overtaken, excused>>

(* Mutated form (of SetPlan): a plan that is set already is not set again. *)
SetPlanIfNew(w, u, p) ==
    /\ accounts' = [accounts EXCEPT ![u].plan = p]
    /\ job' = [job EXCEPT ![w] =
           IF accounts[u].plan = p
           THEN [Idle EXCEPT !.at = "ids", !.tenant = u, !.event = p]
           ELSE Edit(u, "limits", NewSection(p, FALSE), p)]

SetPlan(w, u, p) ==
    /\ accounts' = [accounts EXCEPT ![u].plan = p]
    /\ job' = [job EXCEPT ![w] = Edit(u, "limits", NewSection(p, FALSE), p)]

(* The oldest event p is gone. *)
Without(s, p) ==
    LET i == CHOOSE n \in DOMAIN s : s[n] = p /\ \A m \in 1..(n - 1) : s[m] # p
    IN  SubSeq(s, 1, i - 1) \o SubSeq(s, i + 1, Len(s))

(* Stripe's delivery is answered; if the answer gets lost it comes again. *)
Acknowledge(u, p) ==
    \/ pending' = [pending EXCEPT ![u] = Without(@, p)]
    \/ UNCHANGED pending

(***************************************************************************)
(* Stripe delivers an event of u, not always the oldest.  A checkout names *)
(* the user.  What ends a plan names the customer, whom the server knows   *)
(* only since set_stripe_ids; otherwise the event is acknowledged and      *)
(* nothing happens.                                                        *)
(***************************************************************************)
HandleWebhook(w, u) ==
    /\ job[w] = Idle
    /\ \E i \in DOMAIN pending[u] :
          LET p == pending[u][i]
          IN  /\ overtaken' = [overtaken EXCEPT ![u] = @ \/ i > 1]
              /\ \/ /\ p \in PaidPlans \/ accounts[u].billed
                    /\ SetPlan(w, u, p)
                    /\ UNCHANGED pending
                 \/ /\ p = Free /\ ~accounts[u].billed
                    /\ Acknowledge(u, p)
                    /\ UNCHANGED <<accounts, job>>
    /\ UNCHANGED <<file, due, excused>>

(* PUT and DELETE /policy/{tenant_id}: no database, any section whatever. *)
EditPolicy(w, t) ==
    /\ job[w] = Idle
    /\ t # Default => accounts[t] # NoAccount
    /\ \/ \E s \in Section : job' = [job EXCEPT ![w] = Edit(t, "put", s, NoEvent)]
       \/ /\ t # Default
          /\ job' = [job EXCEPT ![w] = Edit(t, "delete", NewSection(Free, FALSE), NoEvent)]
    /\ UNCHANGED <<accounts, file, pending, due, overtaken, excused>>

-----------------------------------------------------------------------------
(* The edit of the file, and what comes after it.                          *)

(* A new section must not be there yet, any other change needs one. *)
Applies(j, sections) ==
    CASE j.change = "default" -> sections[j.tenant] = NoSection
      [] j.change = "put"     -> TRUE
      [] OTHER                -> sections[j.tenant] # NoSection

Changed(j) ==
    [j.raw EXCEPT ![j.tenant] =
        CASE j.change \in {"default", "put"} -> j.section
          [] j.change = "limits"             -> [@ EXCEPT !.limits = j.section.limits]
          [] j.change = "key"                -> [@ EXCEPT !.key = TRUE]
          [] j.change = "delete"             -> NoSection]

(* Mutated form (of Finish): a checkout is answered before its customer is stored. *)
FinishWithoutIds(w) ==
    /\ job' = [job EXCEPT ![w] = Idle]
    /\ IF job[w].event = NoEvent THEN UNCHANGED pending
       ELSE Acknowledge(job[w].tenant, job[w].event)

(* The edit is done or did not apply: a checkout goes on to its customer. *)
Finish(w) ==
    IF job[w].event \in PaidPlans
    THEN /\ job' = [job EXCEPT ![w] = [Idle EXCEPT !.at = "ids", !.tenant = job[w].tenant,
                                                   !.event = job[w].event]]
         /\ UNCHANGED pending
    ELSE /\ job' = [job EXCEPT ![w] = Idle]
         /\ IF job[w].event = NoEvent THEN UNCHANGED pending
            ELSE Acknowledge(job[w].tenant, job[w].event)

ReadFile(w) ==
    /\ job[w].at = "read"
    /\ IF Applies(job[w], file)
       THEN /\ job' = [job EXCEPT ![w].at = "truncate", ![w].raw = file]
            /\ UNCHANGED pending
       ELSE Finish(w)
    /\ UNCHANGED <<accounts, file, due, overtaken, excused>>

(* open(..., "w"): whoever reads now reads an empty file. *)
Truncate(w) ==
    /\ job[w].at = "truncate"
    /\ file' = EmptyFile
    /\ job' = [job EXCEPT ![w].at = "dump"]
    /\ UNCHANGED <<accounts, pending, due, overtaken, excused>>

Dump(w) ==
    LET j == job[w]
    IN  /\ j.at = "dump"
        /\ file' = Changed(j)
        /\ Finish(w)
        /\ excused' = IF j.tenant = Default THEN excused
                      ELSE [excused EXCEPT ![j.tenant] =
                               IF j.change \in {"put", "delete"} THEN Settings
                               ELSE @ \ {j.change}]
        /\ UNCHANGED <<accounts, due, overtaken>>

SetStripeIds(w) ==
    LET j == job[w]
    IN  /\ j.at = "ids"
        /\ accounts' = [accounts EXCEPT ![j.tenant].billed = TRUE]
        /\ job' = [job EXCEPT ![w] = Idle]
        /\ Acknowledge(j.tenant, j.event)
        /\ UNCHANGED <<file, due, overtaken, excused>>

(***************************************************************************)
(* The process stops in the middle of an operation and is started again.   *)
(* An event that was being handled will be delivered again; what else was  *)
(* under way will not, and a truncated file stays empty.                   *)
(***************************************************************************)
Crash(w) ==
    LET j == job[w]
    IN  /\ j # Idle
        /\ job' = [job EXCEPT ![w] = Idle]
        /\ excused' =
              CASE j.at = "dump"                                  -> [u \in Users |-> Settings]
                [] j.at \in {"read", "truncate"} /\ j.change = "default" ->
                                                [excused EXCEPT ![j.tenant] = Settings]
                [] j.at \in {"read", "truncate"} /\ j.change = "key" ->
                                                [excused EXCEPT ![j.tenant] = @ \cup {"key"}]
                [] OTHER                                          -> excused
        /\ UNCHANGED <<accounts, file, pending, due, overtaken>>

-----------------------------------------------------------------------------
(* External: at Stripe a user buys a plan, or a subscription lapses, is    *)
(* paused or ends.                                                         *)
Happens(u, p) ==
    /\ accounts[u] # NoAccount
    /\ Len(pending[u]) < MaxPending
    /\ p \in PaidPlans \/ due[u] # NoEvent
    /\ pending' = [pending EXCEPT ![u] = Append(@, p)]
    /\ due' = [due EXCEPT ![u] = p]
    /\ UNCHANGED <<accounts, file, job, overtaken, excused>>

Next ==
    \/ \E w \in Workers, u \in Users : SignUp(w, u) \/ SaveKey(w, u)
    \/ \E w \in Workers, u \in Customers : HandleWebhook(w, u)
    \/ \E w \in Workers, t \in Edited : EditPolicy(w, t)
    \/ \E w \in Workers :
          ReadFile(w) \/ Truncate(w) \/ Dump(w) \/ SetStripeIds(w) \/ Crash(w)
    \/ \E u \in Customers, p \in Plans : Happens(u, p)

Spec == Init /\ [][Next]_vars

-----------------------------------------------------------------------------

(* Mutated form (of Load): the keys of the section "default" are inherited. *)
LoadInheriting(t) ==
    LET own == file[t]
    IN  IF own = NoSection THEN [limits |-> Custom, key |-> Default]
        ELSE [limits |-> own.limits, key |-> IF own.key THEN t ELSE Default]

(***************************************************************************)
(* What a request of tenant t gets of policy.yaml: its limits, and whose   *)
(* key.  A section has its own limits and inherits no key; a tenant        *)
(* without section has all of "default", keys included; without that too,  *)
(* there are neither limits nor keys.                                      *)
(***************************************************************************)
Load(t) ==
    LET from == IF file[t] # NoSection THEN t ELSE Default
        cfg  == file[from]
    IN  IF cfg = NoSection THEN [limits |-> Custom, key |-> Nobody]
        ELSE [limits |-> cfg.limits, key |-> IF cfg.key THEN from ELSE Nobody]

(* Every variable holds what the code puts there. *)
TypeOK ==
    /\ accounts \in [Users -> Account \cup {NoAccount}]
    /\ file \in [Tenants -> Section \cup {NoSection}]
    /\ job \in [Workers ->
           [at : {"idle", "read", "truncate", "dump", "ids"}, tenant : Tenants,
            change : Change, section : Section,
            raw : [Tenants -> Section \cup {NoSection}], event : Plans \cup {NoEvent}]]
    /\ pending \in [Users -> Seq(Plans)]
    /\ due \in [Users -> Plans \cup {NoEvent}]
    /\ overtaken \in [Users -> BOOLEAN]
    /\ excused \in [Users -> SUBSET Settings]

Quiet == \A w \in Workers : job[w] = Idle

(* The two stores come together again whatever crash there was between     *)
(* them: once all events of a user are acknowledged, in any order, the     *)
(* limits a request gets are those of the plan in the database, unless the *)
(* section itself was lost or edited.  Plan and file are two writes        *)
(* (users.py 326-333), and it is the event that comes again which repairs  *)
(* them.                                                                   *)
LimitsFollowPlan ==
    \A u \in Users :
        (/\ Quiet
         /\ accounts[u] # NoAccount
         /\ pending[u] = <<>>
         /\ "limits" \notin excused[u])
            => Load(u).limits = accounts[u].plan

(* A request goes out with the key its own user has saved, or with none:   *)
(* never with that of the section "default", as long as no crash and no    *)
(* edit came in between (policy.py 102-117, users.py 288-308).             *)
KeyInForce ==
    \A u \in Users :
        (/\ Quiet
         /\ accounts[u] # NoAccount
         /\ "key" \notin excused[u])
            => Load(u).key = (IF accounts[u].key THEN u ELSE Nobody)

(* A plan is what Stripe says last: when all events of a user are          *)
(* acknowledged and none has overtaken another, crashes and repeated       *)
(* deliveries notwithstanding, the account has the plan of the last one    *)
(* (billing.py 116-161).                                                   *)
PlanFollowsStripe ==
    \A u \in Users :
        (/\ Quiet
         /\ due[u] # NoEvent
         /\ pending[u] = <<>>
         /\ ~overtaken[u])
            => accounts[u].plan = due[u]

(* "Each signed-up user gets: A unique tenant_id written to policy.yaml    *)
(* with default guardrail rules" (docstring of users.py, 4-5), where no    *)
(* process stops and nobody edits: once the operations are done, every     *)
(* account has its section.                                                *)
EveryUserProvisioned ==
    (Quiet /\ \A u \in Users : excused[u] = {}) =>
        \A u \in Users : accounts[u] # NoAccount => file[u] # NoSection
=============================================================================
