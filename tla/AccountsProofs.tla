---------------------------- MODULE AccountsProofs ----------------------------
(***************************************************************************)
(* Proofs about Accounts, for any users, plans and bounds, where one       *)
(* process serves them all.  Two processes may lose each other's edits of  *)
(* the file, so that none of this holds of them.                           *)
(***************************************************************************)
EXTENDS Accounts, TLAPS, SequenceTheorems, WellFoundedInduction

OneWorker == \A v, w \in Workers : v = w

Editing == {"read", "truncate", "dump"}

(* A change of u's section is in the database and on its way to the file. *)
Busy(u, change) ==
    \E w \in Workers :
        job[w].at \in Editing /\ job[w].tenant = u /\ job[w].change = change

(* The event that set the account's plan is still to be acknowledged, and  *)
(* will not be ignored when it comes again.                                *)
Owed(account, events) ==
    /\ \E n \in DOMAIN events : events[n] = account.plan
    /\ account.plan \in PaidPlans \/ account.billed

(* A section agrees with its account.  What is missing or different is     *)
(* excused, under way, or will be repaired by an event that comes again.   *)
Agrees(section, account, pardon, events, adding, keying) ==
    /\ section # NoSection => account # NoAccount
    /\ account # NoAccount /\ section = NoSection => pardon = Settings \/ adding
    /\ section # NoSection /\ "limits" \notin pardon
           => section.limits = account.plan \/ Owed(account, events)
    /\ section # NoSection /\ "key" \notin pardon
           => section.key = account.key \/ keying

(* The sections f agree with the database. *)
InStep(f) ==
    \A u \in Users :
        Agrees(f[u], accounts[u], excused[u], pending[u],
               Busy(u, "default"), Busy(u, "key"))

(* A job that handles an event: the plan is set, the event is not yet      *)
(* acknowledged, and it is the oldest of its user unless one was overtaken.*)
EventHeld(j) ==
    j.event # NoEvent =>
        /\ j.tenant \in Users
        /\ accounts[j.tenant] # NoAccount
        /\ accounts[j.tenant].plan = j.event
        /\ \E n \in DOMAIN pending[j.tenant] : pending[j.tenant][n] = j.event
        /\ j.event \in PaidPlans \/ accounts[j.tenant].billed
        /\ ~overtaken[j.tenant] => pending[j.tenant][1] = j.event
        /\ j.at = "ids" \/ (j.change = "limits" /\ j.section.limits = j.event)

(* What the database has when a section is being edited. *)
Committed(j) ==
    j.at \in Editing =>
        /\ j.change = "limits" => j.event # NoEvent
        /\ j.change # "limits" => j.event = NoEvent
        /\ j.tenant \in Users => accounts[j.tenant] # NoAccount
        /\ j.change = "default" =>
              /\ j.tenant \in Users
              /\ accounts[j.tenant].plan = Free /\ ~accounts[j.tenant].key
              /\ j.section = NewSection(Free, FALSE)
        /\ j.change = "key" => j.tenant \in Users /\ accounts[j.tenant].key

(* The stages of a job. *)
Staged(j) ==
    /\ j.at = "idle" => j = Idle
    /\ j.at \in {"truncate", "dump"} => InStep(j.raw) /\ Applies(j, j.raw)
    /\ j.at = "dump" => file = EmptyFile
    /\ j.at = "ids" =>
          /\ j.event \in PaidPlans
          /\ file[j.tenant] # NoSection => file[j.tenant].limits = j.event

JobOK(j) == EventHeld(j) /\ Committed(j) /\ Staged(j)

FileInStep == (\A w \in Workers : job[w].at # "dump") => InStep(file)

(* The events of u, none of which has overtaken another: the last one is   *)
(* due, the customer is known before anything can end the plan.            *)
InOrder(u) ==
    /\ due[u] # NoEvent => accounts[u] # NoAccount
    /\ due[u] = NoEvent => pending[u] = <<>>
    /\ due[u] # NoEvent /\ ~overtaken[u] =>
          /\ pending[u] = <<>> => accounts[u].plan = due[u]
          /\ pending[u] # <<>> => pending[u][Len(pending[u])] = due[u]
          /\ \/ accounts[u].billed
             \/ pending[u] # <<>> /\ pending[u][1] \in PaidPlans

IInv ==
    /\ TypeOK
    /\ \A w \in Workers : JobOK(job[w])
    /\ FileInStep
    /\ \A u \in Users : InOrder(u)

-----------------------------------------------------------------------------
(* Sequences of events.                                                    *)

(* A set of naturals that is not empty has a least element. *)
LEMMA LeastNatural ==
  ASSUME NEW T, T \subseteq Nat, T # {}
  PROVE  \E m \in T : \A n \in T : m <= n
<1>1. \E x \in T : \A y \in T : <<y, x>> \notin OpToRel(<, Nat)
  BY NatLessThanWellFounded, WFMin
<1>2. PICK x \in T : \A y \in T : <<y, x>> \notin OpToRel(<, Nat)
  BY <1>1
<1>3. \A y \in T : ~(y < x)
  BY <1>2 DEF OpToRel
<1> QED
  BY <1>3

(* The events r are the events s but for one p. *)
OneLess(s, p, r) ==
    /\ Len(r) = Len(s) - 1
    /\ \A x : (x # p /\ \E n \in DOMAIN s : s[n] = x) => \E n \in DOMAIN r : r[n] = x
    /\ s[1] = p => \A n \in 1..(Len(s) - 1) : r[n] = s[n + 1]

(* Without takes one p away, and no other event. *)
LEMMA WithoutOne ==
  ASSUME NEW S, NEW s \in Seq(S), NEW p, \E n \in DOMAIN s : s[n] = p
  PROVE  Without(s, p) \in Seq(S) /\ OneLess(s, p, Without(s, p))
<1> DEFINE First(n) == s[n] = p /\ \A m \in 1..(n - 1) : s[m] # p
           T == {n \in DOMAIN s : s[n] = p}
<1>1. PICK l \in Nat : l = Len(s) /\ DOMAIN s = 1..l
  BY LenProperties
<1>2. \E i \in DOMAIN s : First(i)
  <2>1. T \subseteq Nat /\ T # {}
    BY <1>1
  <2>2. PICK i \in T : \A n \in T : i <= n
    <3> HIDE DEF T
    <3> QED BY <2>1, LeastNatural
  <2>3. \A m \in 1..(i - 1) : s[m] # p
    BY <2>2, <1>1
  <2> QED BY <2>2, <2>3
<1> DEFINE c == CHOOSE n \in DOMAIN s : First(n)
<1>3. c \in DOMAIN s /\ First(c)
  BY <1>2
<1>4. PICK i \in 1..l : i = c
  BY <1>1, <1>3
<1>5. s[i] = p /\ \A m \in 1..(i - 1) : s[m] # p
  BY <1>3, <1>4
<1>6. Without(s, p) = SubSeq(s, 1, i - 1) \o SubSeq(s, i + 1, l)
  BY <1>1, <1>4 DEF Without
<1> HIDE DEF c, First, T
<1>7. \A n \in 1..l : s[n] \in S
  BY <1>1, ElementOfSeq
<1>8. PICK a \in Seq(S) : /\ a = SubSeq(s, 1, i - 1)
                          /\ Len(a) = i - 1
                          /\ \A n \in 1..(i - 1) : a[n] = s[n]
  <2>1. \A n \in 1..(i - 1) : s[n] \in S
    BY <1>7
  <2>2. /\ SubSeq(s, 1, i - 1) \in Seq(S)
        /\ Len(SubSeq(s, 1, i - 1)) = IF 1 <= i - 1 THEN (i - 1) - 1 + 1 ELSE 0
        /\ \A n \in 1..((i - 1) - 1 + 1) : SubSeq(s, 1, i - 1)[n] = s[1 + n - 1]
    BY <2>1, SubSeqProperties
  <2>3. /\ (IF 1 <= i - 1 THEN (i - 1) - 1 + 1 ELSE 0) = i - 1
        /\ (i - 1) - 1 + 1 = i - 1
        /\ \A n \in 1..(i - 1) : 1 + n - 1 = n
    OBVIOUS
  <2> DEFINE e == SubSeq(s, 1, i - 1)
  <2>4. e \in Seq(S) /\ Len(e) = i - 1 /\ \A n \in 1..(i - 1) : e[n] = s[n]
    BY <2>2, <2>3
  <2> HIDE DEF e
  <2> SUFFICES \E a \in Seq(S) : /\ a = e
                                 /\ Len(a) = i - 1
                                 /\ \A n \in 1..(i - 1) : a[n] = s[n]
    BY DEF e
  <2> QED BY <2>4
<1>9. PICK b \in Seq(S) : /\ b = SubSeq(s, i + 1, l)
                          /\ Len(b) = l - i
                          /\ \A n \in 1..(l - i) : b[n] = s[i + n]
  <2>1. \A n \in (i + 1)..l : s[n] \in S
    BY <1>7
  <2>2. /\ SubSeq(s, i + 1, l) \in Seq(S)
        /\ Len(SubSeq(s, i + 1, l)) = IF i + 1 <= l THEN l - (i + 1) + 1 ELSE 0
        /\ \A n \in 1..(l - (i + 1) + 1) : SubSeq(s, i + 1, l)[n] = s[(i + 1) + n - 1]
    BY <2>1, SubSeqProperties
  <2>3. /\ (IF i + 1 <= l THEN l - (i + 1) + 1 ELSE 0) = l - i
        /\ l - (i + 1) + 1 = l - i
        /\ \A n \in 1..(l - i) : (i + 1) + n - 1 = i + n
    OBVIOUS
  <2> DEFINE e == SubSeq(s, i + 1, l)
  <2>4. e \in Seq(S) /\ Len(e) = l - i /\ \A n \in 1..(l - i) : e[n] = s[i + n]
    BY <2>2, <2>3
  <2> HIDE DEF e
  <2> SUFFICES \E b \in Seq(S) : /\ b = e
                                 /\ Len(b) = l - i
                                 /\ \A n \in 1..(l - i) : b[n] = s[i + n]
    BY DEF e
  <2> QED BY <2>4
<1>10. PICK r \in Seq(S) :
          /\ r = Without(s, p)
          /\ Len(r) = l - 1
          /\ \A n \in 1..(l - 1) : r[n] = IF n <= i - 1 THEN a[n] ELSE b[n - (i - 1)]
  <2>1. /\ a \o b \in Seq(S)
        /\ Len(a \o b) = Len(a) + Len(b)
        /\ \A n \in 1..(Len(a) + Len(b)) :
              (a \o b)[n] = IF n <= Len(a) THEN a[n] ELSE b[n - Len(a)]
    BY ConcatProperties
  <2>2. Len(a) + Len(b) = l - 1
    BY <1>8, <1>9
  <2>3. Without(s, p) = a \o b
    BY <1>6, <1>8, <1>9
  <2> DEFINE e == a \o b
  <2>4. /\ e \in Seq(S) /\ Len(e) = l - 1
        /\ \A n \in 1..(l - 1) : e[n] = IF n <= i - 1 THEN a[n] ELSE b[n - (i - 1)]
    BY <2>1, <2>2, <1>8
  <2> HIDE DEF e
  <2>5. e = Without(s, p)
    BY <2>3 DEF e
  <2> QED BY <2>4, <2>5
<1>11. \A n \in 1..(l - 1) : r[n] = IF n <= i - 1 THEN s[n] ELSE s[n + 1]
  <2> TAKE n \in 1..(l - 1)
  <2>1. CASE n <= i - 1
    BY <2>1, <1>8, <1>10
  <2>2. CASE ~(n <= i - 1)
    <3>1. n - (i - 1) \in 1..(l - i) /\ i + (n - (i - 1)) = n + 1
      BY <2>2
    <3>2. b[n - (i - 1)] = s[i + (n - (i - 1))]
      BY <3>1, <1>9
    <3> QED BY <2>2, <3>1, <3>2, <1>10
  <2> QED BY <2>1, <2>2
<1>12. DOMAIN r = 1..(l - 1)
  BY <1>10, LenProperties
<1>13. ASSUME NEW x, x # p, NEW n \in 1..l, s[n] = x
       PROVE  \E m \in 1..(l - 1) : r[m] = x
  <2>1. CASE n < i
    <3>1. n \in 1..(l - 1) /\ n <= i - 1
      BY <2>1
    <3>2. r[n] = s[n]
      BY <3>1, <1>11
    <3> QED BY <3>1, <3>2, <1>13
  <2>2. CASE n > i
    <3>1. n - 1 \in 1..(l - 1) /\ ~(n - 1 <= i - 1) /\ (n - 1) + 1 = n
      BY <2>2
    <3>2. r[n - 1] = s[(n - 1) + 1]
      BY <3>1, <1>11
    <3> QED BY <3>1, <3>2, <1>13
  <2>3. CASE n = i
    BY <2>3, <1>5, <1>13
  <2> QED BY <2>1, <2>2, <2>3
<1>14. s[1] = p => \A n \in 1..(l - 1) : r[n] = s[n + 1]
  <2> SUFFICES ASSUME s[1] = p PROVE i = 1
    BY <1>11
  <2> QED BY <1>5
<1> QED BY <1>1, <1>10, <1>12, <1>13, <1>14 DEF OneLess
-----------------------------------------------------------------------------
(* Types.                                                                  *)

LEMMA InitType == Init => TypeOK
<1> SUFFICES ASSUME Init PROVE TypeOK
  OBVIOUS
<1> USE DEF Init, Section, Plans, Tenants
<1>1. NewSection(Free, FALSE) \in Section /\ NewSection(Custom, TRUE) \in Section
  BY DEF NewSection
<1>2. EmptyFile \in [Tenants -> Section \cup {NoSection}]
  BY DEF EmptyFile
<1>3. file \in [Tenants -> Section \cup {NoSection}]
  BY <1>1, <1>2
<1>4. Idle \in [at : {"idle", "read", "truncate", "dump", "ids"}, tenant : Tenants,
                change : Change, section : Section,
                raw : [Tenants -> Section \cup {NoSection}], event : Plans \cup {NoEvent}]
  BY <1>1, <1>2 DEF Idle, Change
<1>5. accounts \in [Users -> Account \cup {NoAccount}]
  OBVIOUS
<1>6. pending \in [Users -> Seq(PaidPlans \cup {Free})]
  <2>1. <<>> \in Seq(PaidPlans \cup {Free})
    OBVIOUS
  <2> QED BY <2>1
<1>7. /\ due \in [Users -> Plans \cup {NoEvent}]
      /\ overtaken \in [Users -> BOOLEAN]
      /\ excused \in [Users -> SUBSET Settings]
  OBVIOUS
<1>8. job \in [Workers ->
              [at : {"idle", "read", "truncate", "dump", "ids"}, tenant : Tenants,
               change : Change, section : Section,
               raw : [Tenants -> Section \cup {NoSection}], event : Plans \cup {NoEvent}]]
  <2>1. PICK Job : Job = [at : {"idle", "read", "truncate", "dump", "ids"}, tenant : Tenants,
                          change : Change, section : Section,
                          raw : [Tenants -> Section \cup {NoSection}],
                          event : Plans \cup {NoEvent}]
    OBVIOUS
  <2>2. Idle \in Job
    BY <1>4, <2>1
  <2>3. job = [w \in Workers |-> Idle]
    OBVIOUS
  <2>4. job \in [Workers -> Job]
    BY <2>2, <2>3
  <2> QED BY <2>1, <2>4
<1>9. pending \in [Users -> Seq(Plans)]
  BY <1>6
<1> QED
  BY <1>3, <1>5, <1>7, <1>8, <1>9 DEF TypeOK

(* What is left of a user's events once p is acknowledged, or is not.      *)
LEMMA Acknowledged ==
  ASSUME TypeOK, NEW u \in Users, NEW p,
         \E n \in DOMAIN pending[u] : pending[u][n] = p,
         Acknowledge(u, p)
  PROVE  /\ pending' \in [Users -> Seq(Plans)]
         /\ \A v \in Users : v # u => pending'[v] = pending[v]
         /\ pending' = pending \/ OneLess(pending[u], p, pending'[u])
<1>1. pending \in [Users -> Seq(Plans)] /\ pending[u] \in Seq(Plans)
  BY DEF TypeOK
<1>2. CASE pending' = pending
  BY <1>1, <1>2
<1>3. CASE pending' = [pending EXCEPT ![u] = Without(@, p)]
  <2>1. PICK k \in DOMAIN pending[u] : pending[u][k] = p
    OBVIOUS
  <2> DEFINE s == pending[u]
  <2>s. s \in Seq(Plans) /\ \E n \in DOMAIN s : s[n] = p
    BY <1>1, <2>1
  <2>2. pending'[u] = Without(s, p)
    BY <1>1, <1>3
  <2>3. Without(s, p) \in Seq(Plans) /\ OneLess(s, p, Without(s, p))
    <3> HIDE DEF s
    <3> QED BY <2>s, WithoutOne
  <2>4. pending' \in [Users -> Seq(Plans)] /\ \A v \in Users : v # u => pending'[v] = pending[v]
    BY <1>1, <1>3, <2>3
  <2> QED
    BY <2>2, <2>3, <2>4
<1> QED
  BY <1>2, <1>3 DEF Acknowledge

Job == [at : {"idle", "read", "truncate", "dump", "ids"}, tenant : Tenants,
        change : Change, section : Section,
        raw : [Tenants -> Section \cup {NoSection}], event : Plans \cup {NoEvent}]

LEMMA JobTypes ==
  /\ Idle \in Job
  /\ EmptyFile \in [Tenants -> Section \cup {NoSection}]
  /\ \A t \in Tenants, c \in Change, s \in Section, e \in Plans \cup {NoEvent} :
        Edit(t, c, s, e) \in Job
  /\ \A p \in Plans, k \in BOOLEAN : NewSection(p, k) \in Section
<1>1. EmptyFile \in [Tenants -> Section \cup {NoSection}]
  BY DEF EmptyFile
<1>2. \A p \in Plans, k \in BOOLEAN : NewSection(p, k) \in Section
  BY DEF NewSection, Section
<1>3. Free \in Plans /\ Default \in Tenants
  BY DEF Plans, Tenants
<1>4. Idle \in Job
  BY <1>1, <1>2, <1>3 DEF Idle, Job, Change
<1>5. \A t \in Tenants, c \in Change, s \in Section, e \in Plans \cup {NoEvent} :
         Edit(t, c, s, e) \in Job
  BY <1>1 DEF Edit, Job
<1> QED BY <1>1, <1>2, <1>4, <1>5

(* What Finish does to the events and the job. *)
LEMMA FinishType ==
  ASSUME TypeOK, NEW w \in Workers, EventHeld(job[w]), Finish(w)
  PROVE  /\ job' \in [Workers -> Job]
         /\ pending' \in [Users -> Seq(Plans)]
<1>1. job \in [Workers -> Job] /\ job[w] \in Job /\ pending \in [Users -> Seq(Plans)]
  BY DEF TypeOK, Job
<1>2. CASE job[w].event \in PaidPlans
  <2>1. [Idle EXCEPT !.at = "ids", !.tenant = job[w].tenant, !.event = job[w].event] \in Job
    BY <1>1, JobTypes DEF Job
  <2> QED BY <1>1, <1>2, <2>1 DEF Finish
<1>3. CASE job[w].event \notin PaidPlans
  <2>1. job' \in [Workers -> Job]
    BY <1>1, <1>3, JobTypes DEF Finish
  <2>2. CASE job[w].event = NoEvent
    BY <1>1, <1>3, <2>1, <2>2 DEF Finish
  <2>3. CASE job[w].event # NoEvent
    <3>1. /\ job[w].tenant \in Users
          /\ \E n \in DOMAIN pending[job[w].tenant] : pending[job[w].tenant][n] = job[w].event
      BY <2>3 DEF EventHeld
    <3>2. Acknowledge(job[w].tenant, job[w].event)
      BY <1>3, <2>3 DEF Finish
    <3>3. pending' \in [Users -> Seq(Plans)]
      BY <3>1, <3>2, Acknowledged
    <3> QED BY <2>1, <3>3
  <2> QED BY <2>2, <2>3
<1> QED BY <1>2, <1>3
LEMMA TypeStep ==
  ASSUME IInv, [Next]_vars
  PROVE  TypeOK'
<1>0. TypeOK /\ \A u \in Users : InOrder(u)
  BY DEF IInv
<1>1. /\ accounts \in [Users -> Account \cup {NoAccount}]
      /\ file \in [Tenants -> Section \cup {NoSection}]
      /\ job \in [Workers -> Job]
      /\ pending \in [Users -> Seq(Plans)]
      /\ due \in [Users -> Plans \cup {NoEvent}]
      /\ overtaken \in [Users -> BOOLEAN]
      /\ excused \in [Users -> SUBSET Settings]
  BY DEF IInv, TypeOK, Job
<1>2. SUFFICES /\ accounts' \in [Users -> Account \cup {NoAccount}]
               /\ file' \in [Tenants -> Section \cup {NoSection}]
               /\ job' \in [Workers -> Job]
               /\ pending' \in [Users -> Seq(Plans)]
               /\ due' \in [Users -> Plans \cup {NoEvent}]
               /\ overtaken' \in [Users -> BOOLEAN]
               /\ excused' \in [Users -> SUBSET Settings]
  BY DEF TypeOK, Job
<1>3. /\ Free \in Plans /\ Users \subseteq Tenants /\ Customers \subseteq Users
      /\ Edited \subseteq Tenants /\ PaidPlans \subseteq Plans
      /\ {"default", "limits", "key", "put", "delete"} = Change
  BY BoundsAssumption DEF Plans, Tenants, Change
<1>4. \A w \in Workers : EventHeld(job[w])
  BY DEF IInv, JobOK
<1>5. ASSUME NEW w \in Workers, NEW u \in Users, SignUp(w, u)
      PROVE  accounts' \in [Users -> Account \cup {NoAccount}] /\ job' \in [Workers -> Job]
  <2>1. [plan |-> Free, key |-> FALSE, billed |-> FALSE] \in Account
    BY <1>3 DEF Account
  <2>2. Edit(u, "default", NewSection(Free, FALSE), NoEvent) \in Job
    BY <1>3, JobTypes
  <2> QED BY <1>1, <1>5, <2>1, <2>2 DEF SignUp
<1>6. ASSUME NEW w \in Workers, NEW u \in Users, SaveKey(w, u)
      PROVE  accounts' \in [Users -> Account \cup {NoAccount}] /\ job' \in [Workers -> Job]
  <2>1. [accounts[u] EXCEPT !.key = TRUE] \in Account
    BY <1>1, <1>6 DEF SaveKey, Account
  <2>2. Edit(u, "key", NewSection(Free, TRUE), NoEvent) \in Job
    BY <1>3, JobTypes
  <2> QED BY <1>1, <1>6, <2>1, <2>2 DEF SaveKey
<1>7. ASSUME NEW w \in Workers, NEW u \in Users, HandleWebhook(w, u)
      PROVE  /\ accounts' \in [Users -> Account \cup {NoAccount}]
             /\ job' \in [Workers -> Job]
             /\ pending' \in [Users -> Seq(Plans)]
             /\ overtaken' \in [Users -> BOOLEAN]
  <2>1. PICK i \in DOMAIN pending[u] :
           /\ overtaken' = [overtaken EXCEPT ![u] = @ \/ i > 1]
           /\ \/ /\ pending[u][i] \in PaidPlans \/ accounts[u].billed
                 /\ SetPlan(w, u, pending[u][i])
                 /\ UNCHANGED pending
              \/ /\ pending[u][i] = Free /\ ~accounts[u].billed
                 /\ Acknowledge(u, pending[u][i])
                 /\ UNCHANGED <<accounts, job>>
    BY <1>7 DEF HandleWebhook
  <2>2. PICK p : p = pending[u][i]
    OBVIOUS
  <2>3. p \in Plans
    BY <1>1, <2>2, ElementOfSeq, LenProperties
  <2>4. overtaken' \in [Users -> BOOLEAN]
    BY <1>1, <2>1
  <2>5. CASE SetPlan(w, u, p) /\ UNCHANGED pending
    <3>1. accounts[u] \in Account => [accounts[u] EXCEPT !.plan = p] \in Account
      BY <2>3 DEF Account
    <3>2. accounts[u] # NoAccount
      BY <1>0, <2>1 DEF InOrder
    <3>3. Edit(u, "limits", NewSection(p, FALSE), p) \in Job
      BY <1>3, <2>3, JobTypes
    <3> QED BY <1>1, <2>4, <2>5, <3>1, <3>2, <3>3 DEF SetPlan
  <2>6. CASE Acknowledge(u, p) /\ UNCHANGED <<accounts, job>>
    <3>1. pending' \in [Users -> Seq(Plans)]
      BY <2>2, <2>6, Acknowledged, <1>0
    <3> QED BY <1>1, <2>4, <2>6, <3>1
  <2> QED BY <2>1, <2>2, <2>5, <2>6
<1>8. ASSUME NEW w \in Workers, NEW t \in Tenants, EditPolicy(w, t)
      PROVE  job' \in [Workers -> Job]
  <2>1. /\ \A s \in Section : Edit(t, "put", s, NoEvent) \in Job
        /\ Edit(t, "delete", NewSection(Free, FALSE), NoEvent) \in Job
    BY <1>3, JobTypes
  <2> QED BY <1>1, <1>8, <2>1 DEF EditPolicy
<1>9. ASSUME NEW w \in Workers, ReadFile(w)
      PROVE  job' \in [Workers -> Job] /\ pending' \in [Users -> Seq(Plans)]
  <2>1. CASE Finish(w)
    BY <1>4, <2>1, FinishType, <1>0
  <2>2. CASE /\ job' = [job EXCEPT ![w].at = "truncate", ![w].raw = file]
             /\ UNCHANGED pending
    <3>1. [job[w] EXCEPT !.at = "truncate", !.raw = file] \in Job
      BY <1>1 DEF Job
    <3> QED BY <1>1, <2>2, <3>1
  <2> QED BY <1>9, <2>1, <2>2 DEF ReadFile
<1>10. ASSUME NEW w \in Workers, Truncate(w)
       PROVE  job' \in [Workers -> Job] /\ file' \in [Tenants -> Section \cup {NoSection}]
  <2>1. [job[w] EXCEPT !.at = "dump"] \in Job
    BY <1>1 DEF Job
  <2> QED BY <1>1, <1>10, <2>1, JobTypes DEF Truncate
<1>11. ASSUME NEW w \in Workers, Dump(w)
       PROVE  /\ job' \in [Workers -> Job]
              /\ pending' \in [Users -> Seq(Plans)]
              /\ file' \in [Tenants -> Section \cup {NoSection}]
              /\ excused' \in [Users -> SUBSET Settings]
  <2>1. job' \in [Workers -> Job] /\ pending' \in [Users -> Seq(Plans)]
    BY <1>4, <1>11, FinishType, <1>0 DEF Dump
  <2>2. PICK j \in Job : j = job[w]
    BY <1>1
  <2>3. /\ j.section \in Section /\ j.raw \in [Tenants -> Section \cup {NoSection}]
        /\ j.tenant \in Tenants /\ j.change \in Change
    BY DEF Job
  <2>4. j.change \in {"limits", "key"} => j.raw[j.tenant] \in Section
    BY <1>11, <2>2, <2>3 DEF Dump, IInv, JobOK, Staged, Applies
  <2>5. Changed(j) \in [Tenants -> Section \cup {NoSection}]
    BY <2>3, <2>4 DEF Changed, Section, Change
  <2>6. excused' \in [Users -> SUBSET Settings]
    BY <1>1, <1>11, <2>2 DEF Dump, Settings
  <2> QED BY <1>11, <2>1, <2>2, <2>5, <2>6 DEF Dump
<1>12. ASSUME NEW w \in Workers, SetStripeIds(w)
       PROVE  /\ job' \in [Workers -> Job]
              /\ pending' \in [Users -> Seq(Plans)]
              /\ accounts' \in [Users -> Account \cup {NoAccount}]
  <2>1. job' \in [Workers -> Job]
    BY <1>1, <1>12, JobTypes DEF SetStripeIds
  <2>2. job[w].event # NoEvent
    BY <1>12, NothingAssumption DEF SetStripeIds, IInv, JobOK, Staged, Plans
  <2>3. /\ job[w].tenant \in Users
        /\ accounts[job[w].tenant] # NoAccount
        /\ \E n \in DOMAIN pending[job[w].tenant] : pending[job[w].tenant][n] = job[w].event
    BY <1>4, <2>2 DEF EventHeld
  <2>4. pending' \in [Users -> Seq(Plans)]
    BY <1>12, <2>3, Acknowledged, <1>0 DEF SetStripeIds
  <2>5. [accounts[job[w].tenant] EXCEPT !.billed = TRUE] \in Account
    BY <1>1, <2>3 DEF Account
  <2>6. accounts' \in [Users -> Account \cup {NoAccount}]
    BY <1>1, <1>12, <2>3, <2>5 DEF SetStripeIds
  <2> QED BY <2>1, <2>4, <2>6
<1>13. ASSUME NEW w \in Workers, Crash(w)
       PROVE  job' \in [Workers -> Job] /\ excused' \in [Users -> SUBSET Settings]
  <2>1. job' \in [Workers -> Job]
    BY <1>1, <1>13, JobTypes DEF Crash
  <2>2. {"key"} \subseteq Settings
    BY DEF Settings
  <2>3. excused' \in [Users -> SUBSET Settings]
    BY <1>1, <1>13, <2>2 DEF Crash
  <2> QED BY <2>1, <2>3
<1>14. ASSUME NEW u \in Users, NEW p \in Plans, Happens(u, p)
       PROVE  /\ pending' \in [Users -> Seq(Plans)]
              /\ due' \in [Users -> Plans \cup {NoEvent}]
  <2>1. Append(pending[u], p) \in Seq(Plans)
    BY <1>1, AppendProperties
  <2> QED BY <1>1, <1>14, <2>1 DEF Happens
<1> QED
  BY <1>1, <1>3, <1>5, <1>6, <1>7, <1>8, <1>9, <1>10, <1>11, <1>12, <1>13, <1>14
  DEF Next, vars, SignUp, SaveKey, HandleWebhook, EditPolicy, ReadFile, Truncate, Dump,
      SetStripeIds, Crash, Happens
-----------------------------------------------------------------------------
(* Every step keeps the invariant.  There being one worker, what is said   *)
(* of every job is said of one.                                            *)
Good(w) ==
    /\ JobOK(job[w])
    /\ job[w].at # "dump" => InStep(file)
    /\ \A u \in Users : InOrder(u)

LEMMA OneJob ==
  ASSUME OneWorker, NEW w \in Workers
  PROVE  /\ \A u, c : Busy(u, c) <=>
                job[w].at \in Editing /\ job[w].tenant = u /\ job[w].change = c
         /\ IInv <=> TypeOK /\ Good(w)
         /\ (\A u, c : Busy(u, c) <=>
                job[w].at \in Editing /\ job[w].tenant = u /\ job[w].change = c)'
         /\ (IInv <=> TypeOK /\ Good(w))'
<1>1. \A v \in Workers : v = w
  BY DEF OneWorker
<1>2. \A u, c : Busy(u, c) <=>
          job[w].at \in Editing /\ job[w].tenant = u /\ job[w].change = c
  BY <1>1 DEF Busy
<1>3. IInv <=> TypeOK /\ Good(w)
  BY <1>1 DEF IInv, Good, FileInStep
<1>4. (\A u, c : Busy(u, c) <=>
          job[w].at \in Editing /\ job[w].tenant = u /\ job[w].change = c)'
  BY <1>1 DEF Busy
<1>5. (IInv <=> TypeOK /\ Good(w))'
  BY <1>1 DEF IInv, Good, FileInStep
<1> QED BY <1>2, <1>3, <1>4, <1>5

(* An event is acknowledged in its turn: the order is kept. *)
LEMMA AcknowledgedInOrder ==
  ASSUME TypeOK, NEW u \in Users, NEW p,
         \E n \in DOMAIN pending[u] : pending[u][n] = p,
         Acknowledge(u, p),
         InOrder(u), due' = due, accounts'[u] # NoAccount,
         ~overtaken'[u] => /\ ~overtaken[u] /\ pending[u][1] = p
                           /\ accounts'[u].plan = p /\ accounts'[u].billed
  PROVE  InOrder(u)'
<1>1. pending' \in [Users -> Seq(Plans)] /\ (pending' = pending \/ OneLess(pending[u], p, pending'[u]))
  BY Acknowledged
<1>2. pending[u] \in Seq(Plans) /\ pending'[u] \in Seq(Plans)
  BY <1>1 DEF TypeOK
<1>3. pending[u] # <<>> /\ Len(pending[u]) \in Nat \ {0}
  BY <1>2, LenProperties, EmptySeq
<1>4. due[u] # NoEvent /\ due'[u] # NoEvent
  BY <1>3 DEF InOrder
<1>5. CASE pending' = pending
  BY <1>3, <1>4, <1>5 DEF InOrder
<1>6. CASE OneLess(pending[u], p, pending'[u])
  <2>1. Len(pending'[u]) = Len(pending[u]) - 1
    BY <1>6 DEF OneLess
  <2> SUFFICES ASSUME ~overtaken'[u]
               PROVE  /\ pending'[u] = <<>> => p = due[u]
                      /\ pending'[u] # <<>> => pending'[u][Len(pending'[u])] = due[u]
    BY <1>4 DEF InOrder
  <2>2. pending[u][1] = p /\ pending[u][Len(pending[u])] = due[u]
    BY <1>3, <1>4 DEF InOrder
  <2>3. CASE pending'[u] = <<>>
    <3>1. Len(pending[u]) = 1
      BY <2>1, <2>3, <1>3, EmptySeq
    <3> QED BY <3>1, <2>2, <2>3
  <2>4. CASE pending'[u] # <<>>
    <3>1. PICK l \in Nat : l = Len(pending[u])
      BY <1>3
    <3>2. l - 1 \in 1..(l - 1)
      BY <2>1, <2>4, <3>1, <1>2, EmptySeq, LenProperties
    <3>3. pending'[u][l - 1] = pending[u][(l - 1) + 1]
      BY <1>6, <2>2, <3>1, <3>2 DEF OneLess
    <3> QED BY <2>1, <2>2, <2>4, <3>1, <3>2, <3>3
  <2> QED BY <2>3, <2>4
<1> QED BY <1>1, <1>5, <1>6

LEMMA SignUpStep ==
  ASSUME OneWorker, IInv, TypeOK', NEW w \in Workers, NEW u \in Users, SignUp(w, u)
  PROVE  Good(w)'
<1>1. /\ TypeOK /\ Good(w)
      /\ \A v, c : Busy(v, c) <=>
             job[w].at \in Editing /\ job[w].tenant = v /\ job[w].change = c
      /\ \A v, c : Busy(v, c)' <=>
             job'[w].at \in Editing /\ job'[w].tenant = v /\ job'[w].change = c
  BY OneJob
<1>2. /\ job[w].at = "idle"
      /\ job'[w] = Edit(u, "default", NewSection(Free, FALSE), NoEvent)
      /\ accounts[u] = NoAccount
      /\ accounts'[u] = [plan |-> Free, key |-> FALSE, billed |-> FALSE]
      /\ accounts'[u] # NoAccount
      /\ \A v \in Users : v # u => accounts'[v] = accounts[v]
  <2>1. [plan |-> Free, key |-> FALSE, billed |-> FALSE] \in Account
    BY DEF Account, Plans
  <2>2. job[w] = Idle /\ Idle.at = "idle"
    BY DEF SignUp, Idle
  <2>3. job' = [job EXCEPT ![w] = Edit(u, "default", NewSection(Free, FALSE), NoEvent)]
    BY DEF SignUp
  <2>4. w \in DOMAIN job /\ DOMAIN accounts = Users
    BY <1>1 DEF TypeOK
  <2>5. job'[w] = Edit(u, "default", NewSection(Free, FALSE), NoEvent)
    BY <2>3, <2>4
  <2> QED BY <2>1, <2>2, <2>4, <2>5, NothingAssumption DEF SignUp
<1>3. JobOK(job[w])'
  BY <1>2 DEF JobOK, EventHeld, Committed, Staged, Edit, Editing
<1>4. InStep(file)
  BY <1>1, <1>2 DEF Good
<1>5. InStep(file)'
  <2> SUFFICES ASSUME NEW v \in Users
               PROVE  Agrees(file[v], accounts[v], excused[v], pending[v],
                             Busy(v, "default"), Busy(v, "key"))'
    BY DEF InStep
  <2>1. Agrees(file[v], accounts[v], excused[v], pending[v], FALSE, FALSE)
    BY <1>1, <1>2, <1>4 DEF InStep, Editing, Agrees
  <2>2. CASE v = u
    <3>1. file'[u] = NoSection /\ Busy(u, "default")'
      BY <1>1, <1>2, <2>1, <2>2 DEF Agrees, SignUp, Edit, Editing
    <3> QED BY <1>2, <2>2, <3>1 DEF Agrees
  <2>3. CASE v # u
    BY <1>2, <2>1, <2>3 DEF Agrees, SignUp, Owed
  <2> QED BY <2>2, <2>3
<1>6. ASSUME NEW v \in Users PROVE InOrder(v)'
  <2>1. InOrder(v)
    BY <1>1 DEF Good
  <2>2. CASE v = u
    BY <1>2, <2>1, <2>2 DEF InOrder, SignUp
  <2>3. CASE v # u
    BY <1>2, <2>1, <2>3 DEF InOrder, SignUp
  <2> QED BY <2>2, <2>3
<1> QED BY <1>3, <1>5, <1>6 DEF Good
LEMMA SaveKeyStep ==
  ASSUME OneWorker, IInv, TypeOK', NEW w \in Workers, NEW u \in Users, SaveKey(w, u)
  PROVE  Good(w)'
<1>1. /\ TypeOK /\ Good(w)
      /\ \A v, c : Busy(v, c) <=>
             job[w].at \in Editing /\ job[w].tenant = v /\ job[w].change = c
      /\ \A v, c : Busy(v, c)' <=>
             job'[w].at \in Editing /\ job'[w].tenant = v /\ job'[w].change = c
  BY OneJob
<1>2. job[w].at = "idle" /\ job'[w] = Edit(u, "key", NewSection(Free, TRUE), NoEvent)
  <2>1. job[w] = Idle /\ Idle.at = "idle"
    BY DEF SaveKey, Idle
  <2>2. job' = [job EXCEPT ![w] = Edit(u, "key", NewSection(Free, TRUE), NoEvent)]
    BY DEF SaveKey
  <2>3. w \in DOMAIN job
    BY <1>1 DEF TypeOK
  <2> QED BY <2>1, <2>2, <2>3
<1>3. /\ accounts[u] # NoAccount /\ accounts'[u] # NoAccount
      /\ accounts'[u].key /\ accounts'[u].plan = accounts[u].plan
      /\ accounts'[u].billed = accounts[u].billed
      /\ \A v \in Users : v # u => accounts'[v] = accounts[v]
  <2>1. accounts \in [Users -> Account \cup {NoAccount}] /\ accounts[u] \in Account
    BY <1>1 DEF TypeOK, SaveKey
  <2>2. accounts'[u] = [accounts[u] EXCEPT !.key = TRUE]
    BY <2>1 DEF SaveKey
  <2>3. accounts'[u] \in Account
    BY <2>1, <2>2 DEF Account
  <2>4. accounts[u] # NoAccount /\ accounts'[u] # NoAccount
    BY <2>1, <2>3, NothingAssumption
  <2>5. \A v \in Users : v # u => accounts'[v] = accounts[v]
    BY <2>1 DEF SaveKey
  <2>6. /\ accounts'[u].key /\ accounts'[u].plan = accounts[u].plan
        /\ accounts'[u].billed = accounts[u].billed
    BY <2>1, <2>2 DEF Account
  <2> QED BY <2>4, <2>5, <2>6
<1>4. JobOK(job[w])'
  BY <1>2, <1>3 DEF JobOK, EventHeld, Committed, Staged, Edit, Editing
<1>5. InStep(file)
  BY <1>1, <1>2 DEF Good
<1>6. InStep(file)'
  <2> SUFFICES ASSUME NEW v \in Users
               PROVE  Agrees(file[v], accounts[v], excused[v], pending[v],
                             Busy(v, "default"), Busy(v, "key"))'
    BY DEF InStep
  <2>1. ~Busy(v, "default") /\ ~Busy(v, "key")
    BY <1>1, <1>2 DEF Editing
  <2>2. Agrees(file[v], accounts[v], excused[v], pending[v],
               Busy(v, "default"), Busy(v, "key"))
    BY <1>5 DEF InStep
  <2>3. file' = file /\ excused' = excused /\ pending' = pending
    BY DEF SaveKey
  <2>4. CASE v = u
    <3>1. Busy(u, "key")'
      BY <1>1, <1>2 DEF Edit, Editing
    <3>2. Owed(accounts[u], pending[u]) <=> Owed(accounts'[u], pending[u])
      BY <1>3 DEF Owed
    <3> QED BY <1>3, <2>1, <2>2, <2>3, <2>4, <3>1, <3>2 DEF Agrees
  <2>5. CASE v # u
    BY <1>3, <2>1, <2>2, <2>3, <2>5 DEF Agrees
  <2> QED BY <2>4, <2>5
<1>7. ASSUME NEW v \in Users PROVE InOrder(v)'
  <2>1. InOrder(v)
    BY <1>1 DEF Good
  <2>2. due' = due /\ overtaken' = overtaken /\ pending' = pending
    BY DEF SaveKey
  <2>3. CASE v = u
    BY <1>3, <2>1, <2>2, <2>3 DEF InOrder
  <2>4. CASE v # u
    BY <1>3, <2>1, <2>2, <2>4 DEF InOrder
  <2> QED BY <2>3, <2>4
<1> QED BY <1>4, <1>6, <1>7 DEF Good

LEMMA EditPolicyStep ==
  ASSUME OneWorker, IInv, TypeOK', NEW w \in Workers, NEW t \in Tenants, EditPolicy(w, t)
  PROVE  Good(w)'
<1>1. /\ TypeOK /\ Good(w)
      /\ \A v, c : Busy(v, c) <=>
             job[w].at \in Editing /\ job[w].tenant = v /\ job[w].change = c
  BY OneJob
<1>2. PICK c \in {"put", "delete"}, s \in Section : job' = [job EXCEPT ![w] = Edit(t, c, s, NoEvent)]
  <2>1. NewSection(Free, FALSE) \in Section
    BY JobTypes DEF Plans
  <2> QED BY <2>1 DEF EditPolicy
<1>3. job[w].at = "idle" /\ job'[w] = Edit(t, c, s, NoEvent)
  <2>1. job[w] = Idle /\ Idle.at = "idle"
    BY DEF EditPolicy, Idle
  <2>2. w \in DOMAIN job
    BY <1>1 DEF TypeOK
  <2> QED BY <1>2, <2>1, <2>2
<1>4. t \in Users => accounts[t] # NoAccount
  BY TenantsAssumption DEF EditPolicy
<1>5. UNCHANGED <<accounts, file, pending, due, overtaken, excused>>
  BY DEF EditPolicy
<1>6. JobOK(job[w])'
  <2>1. /\ job'[w].at = "read" /\ job'[w].tenant = t /\ job'[w].change = c
        /\ job'[w].event = NoEvent
    BY <1>3 DEF Edit
  <2>2. c # "default" /\ c # "key" /\ c # "limits"
    OBVIOUS
  <2> QED BY <1>4, <1>5, <2>1, <2>2 DEF JobOK, EventHeld, Committed, Staged, Editing
<1>7. InStep(file)'
  BY <1>1, <1>3, <1>5 DEF Good, InStep, Agrees, Editing
<1>8. \A u \in Users : InOrder(u)'
  BY <1>1, <1>5 DEF Good, InOrder
<1> QED BY <1>6, <1>7, <1>8 DEF Good

LEMMA HandleWebhookStep ==
  ASSUME OneWorker, IInv, TypeOK', NEW w \in Workers, NEW u \in Users, HandleWebhook(w, u)
  PROVE  Good(w)'
<1>1. /\ TypeOK /\ Good(w)
      /\ \A v, c : Busy(v, c) <=>
             job[w].at \in Editing /\ job[w].tenant = v /\ job[w].change = c
  BY OneJob
<1>2. PICK i \in DOMAIN pending[u] :
           /\ overtaken' = [overtaken EXCEPT ![u] = @ \/ i > 1]
           /\ \/ /\ pending[u][i] \in PaidPlans \/ accounts[u].billed
                 /\ SetPlan(w, u, pending[u][i])
                 /\ UNCHANGED pending
              \/ /\ pending[u][i] = Free /\ ~accounts[u].billed
                 /\ Acknowledge(u, pending[u][i])
                 /\ UNCHANGED <<accounts, job>>
  BY DEF HandleWebhook
<1>3. PICK p : p = pending[u][i]
  OBVIOUS
<1>4. /\ job[w] = Idle /\ job[w].at = "idle" /\ w \in DOMAIN job
      /\ file' = file /\ due' = due /\ excused' = excused
  BY <1>1 DEF HandleWebhook, Idle, TypeOK
<1>5. InStep(file) /\ \A v \in Users : InOrder(v)
  BY <1>1, <1>4 DEF Good
<1>6. /\ pending[u] \in Seq(Plans) /\ i \in 1..Len(pending[u]) /\ Len(pending[u]) \in Nat
      /\ pending[u] # <<>> /\ p \in Plans
  <2>1. pending[u] \in Seq(Plans)
    BY <1>1 DEF TypeOK
  <2> QED BY <2>1, <1>3, LenProperties, ElementOfSeq, EmptySeq
<1>7. due[u] # NoEvent /\ accounts[u] # NoAccount
  BY <1>5, <1>6 DEF InOrder
<1>8. accounts[u] \in Account
  BY <1>1, <1>7 DEF TypeOK
<1>9. /\ ~overtaken'[u] => ~overtaken[u] /\ i = 1
      /\ \A v \in Users : v # u => overtaken'[v] = overtaken[v]
  <2>1. overtaken \in [Users -> BOOLEAN] /\ overtaken[u] \in BOOLEAN
    BY <1>1 DEF TypeOK
  <2>2. overtaken' = [overtaken EXCEPT ![u] = overtaken[u] \/ i > 1]
    BY <1>2
  <2>3. overtaken'[u] <=> (overtaken[u] \/ i > 1)
    BY <2>1, <2>2, Zenon
  <2>4. \A v \in Users : v # u => overtaken'[v] = overtaken[v]
    BY <2>1, <2>2, Zenon
  <2>5. ~(i > 1) => i = 1
    BY <1>6
  <2> QED BY <2>3, <2>4, <2>5
<1>10. \A v \in Users : ~Busy(v, "default") /\ ~Busy(v, "key")
  BY <1>1, <1>4 DEF Editing
<1>11. CASE /\ p \in PaidPlans \/ accounts[u].billed
            /\ SetPlan(w, u, p)
            /\ UNCHANGED pending
  <2>1. /\ job'[w] = Edit(u, "limits", NewSection(p, FALSE), p)
        /\ accounts'[u] = [accounts[u] EXCEPT !.plan = p]
        /\ \A v \in Users : v # u => accounts'[v] = accounts[v]
    BY <1>1, <1>4, <1>11 DEF SetPlan, TypeOK
  <2>2. /\ accounts'[u].plan = p /\ accounts'[u].key = accounts[u].key
        /\ accounts'[u].billed = accounts[u].billed /\ accounts'[u] # NoAccount
    <3>1. accounts'[u] \in Account
      BY <1>6, <1>8, <2>1 DEF Account
    <3> QED BY <1>8, <2>1, <3>1, NothingAssumption DEF Account
  <2>3. p # NoEvent
    BY <1>6, NothingAssumption
  <2>4. JobOK(job[w])'
    <3>1. EventHeld(job[w])'
      <4>1. /\ job'[w].event = p /\ job'[w].tenant = u /\ job'[w].change = "limits"
            /\ job'[w].section.limits = p
        BY <2>1 DEF Edit, NewSection
      <4>2. \E n \in DOMAIN pending'[u] : pending'[u][n] = p
        BY <1>3, <1>11
      <4>3. ~overtaken'[u] => pending'[u][1] = p
        BY <1>3, <1>9, <1>11
      <4> QED BY <1>11, <2>2, <4>1, <4>2, <4>3 DEF EventHeld
    <3> QED BY <2>1, <2>2, <2>3, <3>1 DEF JobOK, Committed, Staged, Edit, Editing
  <2>5. Owed(accounts'[u], pending[u])
    BY <1>3, <1>11, <2>2 DEF Owed
  <2>6. InStep(file)'
    <3> SUFFICES ASSUME NEW v \in Users
                 PROVE  Agrees(file[v], accounts[v], excused[v], pending[v],
                               Busy(v, "default"), Busy(v, "key"))'
      BY DEF InStep
    <3>1. Agrees(file[v], accounts[v], excused[v], pending[v],
                 Busy(v, "default"), Busy(v, "key"))
      BY <1>5 DEF InStep
    <3>2. CASE v = u
      BY <1>4, <1>7, <1>10, <1>11, <2>2, <2>5, <3>1, <3>2 DEF Agrees
    <3>3. CASE v # u
      BY <1>4, <1>10, <1>11, <2>1, <3>1, <3>3 DEF Agrees
    <3> QED BY <3>2, <3>3
  <2>7. ASSUME NEW v \in Users PROVE InOrder(v)'
    <3>1. CASE v = u
      BY <1>4, <1>5, <1>6, <1>7, <1>9, <1>11, <2>2, <3>1 DEF InOrder
    <3>2. CASE v # u
      BY <1>4, <1>5, <1>9, <1>11, <2>1, <3>2 DEF InOrder
    <3> QED BY <3>1, <3>2
  <2> QED BY <2>4, <2>6, <2>7 DEF Good
<1>12. CASE /\ p = Free /\ ~accounts[u].billed
            /\ Acknowledge(u, p)
            /\ UNCHANGED <<accounts, job>>
  <2>1. /\ \A v \in Users : v # u => pending'[v] = pending[v]
        /\ pending' = pending \/ OneLess(pending[u], p, pending'[u])
    BY <1>1, <1>3, <1>12, Acknowledged
  <2>2. JobOK(job[w])'
    <3>1. job'[w] = Idle
      BY <1>4, <1>12
    <3>2. Idle.at = "idle" /\ Idle.event = NoEvent
      BY DEF Idle
    <3> QED BY <3>1, <3>2 DEF JobOK, EventHeld, Committed, Staged, Editing
  <2>3. Owed(accounts[u], pending[u]) => Owed(accounts[u], pending'[u])
    <3>1. accounts[u].plan \in PaidPlans => accounts[u].plan # p
      BY <1>12, PlansAssumption
    <3> QED BY <2>1, <1>12, <3>1 DEF Owed, OneLess
  <2>4. InStep(file)'
    <3> SUFFICES ASSUME NEW v \in Users
                 PROVE  Agrees(file[v], accounts[v], excused[v], pending[v],
                               Busy(v, "default"), Busy(v, "key"))'
      BY DEF InStep
    <3>1. Agrees(file[v], accounts[v], excused[v], pending[v],
                 Busy(v, "default"), Busy(v, "key"))
      BY <1>5 DEF InStep
    <3>2. CASE v = u
      BY <1>4, <1>10, <1>12, <2>3, <3>1, <3>2 DEF Agrees
    <3>3. CASE v # u
      BY <1>4, <1>10, <1>12, <2>1, <3>1, <3>3 DEF Agrees
    <3> QED BY <3>2, <3>3
  <2>5. overtaken'[u]
    <3> SUFFICES ASSUME ~overtaken'[u] PROVE FALSE
      OBVIOUS
    <3>1. ~overtaken[u] /\ p = pending[u][1]
      BY <1>3, <1>9
    <3>2. pending[u][1] \in PaidPlans
      BY <1>5, <1>7, <1>12, <3>1 DEF InOrder
    <3> QED BY <1>12, <3>1, <3>2, PlansAssumption
  <2>6. ASSUME NEW v \in Users PROVE InOrder(v)'
    <3>1. CASE v = u
      BY <1>4, <1>7, <1>12, <2>5, <3>1 DEF InOrder
    <3>2. CASE v # u
      BY <1>4, <1>5, <1>9, <1>12, <2>1, <3>2 DEF InOrder
    <3> QED BY <3>1, <3>2
  <2> QED BY <1>4, <2>2, <2>4, <2>6 DEF Good
<1> QED BY <1>2, <1>3, <1>11, <1>12
LEMMA TruncateStep ==
  ASSUME OneWorker, IInv, TypeOK', NEW w \in Workers, Truncate(w)
  PROVE  Good(w)'
<1>1. /\ TypeOK /\ Good(w)
      /\ \A v, c : Busy(v, c) <=>
             job[w].at \in Editing /\ job[w].tenant = v /\ job[w].change = c
      /\ \A v, c : Busy(v, c)' <=>
             job'[w].at \in Editing /\ job'[w].tenant = v /\ job'[w].change = c
  BY OneJob
<1>2. PICK j \in Job : j = job[w]
  BY <1>1 DEF TypeOK, Job
<1>3. /\ j.at = "truncate" /\ file' = EmptyFile
      /\ accounts' = accounts /\ pending' = pending /\ due' = due
      /\ overtaken' = overtaken /\ excused' = excused
  BY <1>2 DEF Truncate
<1>4. job'[w] = [j EXCEPT !.at = "dump"]
  BY <1>1, <1>2 DEF Truncate, TypeOK
<1>5. /\ job'[w].at = "dump" /\ job'[w].tenant = j.tenant /\ job'[w].change = j.change
      /\ job'[w].section = j.section /\ job'[w].raw = j.raw /\ job'[w].event = j.event
  BY <1>4 DEF Job
<1>6. EventHeld(j) /\ Committed(j) /\ Staged(j)
  BY <1>1, <1>2 DEF Good, JobOK
<1>7. EventHeld(job[w])' /\ Committed(job[w])'
  BY <1>3, <1>5, <1>6 DEF EventHeld, Committed, Editing
<1>8. \A v, c : Busy(v, c)' <=> Busy(v, c)
  BY <1>1, <1>2, <1>3, <1>5 DEF Editing
<1>9. InStep(j.raw) /\ Applies(j, j.raw)
  BY <1>3, <1>6 DEF Staged
<1>10. InStep(job[w].raw)'
  BY <1>3, <1>5, <1>8, <1>9 DEF InStep, Agrees
<1>11. Staged(job[w])'
  BY <1>3, <1>5, <1>9, <1>10 DEF Staged, Applies
<1>12. \A u \in Users : InOrder(u)'
  BY <1>1, <1>3 DEF Good, InOrder
<1> QED BY <1>5, <1>7, <1>11, <1>12 DEF Good, JobOK

(* A process that stops loses nothing but what is then excused. *)
LEMMA CrashStep ==
  ASSUME OneWorker, IInv, TypeOK', NEW w \in Workers, Crash(w)
  PROVE  Good(w)'
<1>1. /\ TypeOK /\ Good(w)
      /\ \A v, c : Busy(v, c) <=>
             job[w].at \in Editing /\ job[w].tenant = v /\ job[w].change = c
  BY OneJob
<1>2. PICK j \in Job : j = job[w]
  BY <1>1 DEF TypeOK, Job
<1>3. UNCHANGED <<accounts, file, pending, due, overtaken>>
  BY DEF Crash
<1>4. job'[w] = Idle /\ Idle.at = "idle" /\ Idle.event = NoEvent
  BY <1>1 DEF Crash, Idle, TypeOK
<1>5. JobOK(job[w])'
  BY <1>4 DEF JobOK, EventHeld, Committed, Staged, Editing
<1>6. EventHeld(j) /\ Committed(j) /\ Staged(j) /\ (j.at # "dump" => InStep(file))
  BY <1>1, <1>2 DEF Good, JobOK
<1>7. excused \in [Users -> SUBSET Settings]
  BY <1>1 DEF TypeOK
<1>8. ASSUME NEW v \in Users
      PROVE  Agrees(file[v], accounts[v], excused[v], pending[v],
                    Busy(v, "default"), Busy(v, "key"))'
  <2>1. CASE j.at = "dump"
    <3>1. file = EmptyFile /\ file'[v] = NoSection
      BY <1>3, <1>6, <2>1 DEF Staged, EmptyFile, Tenants
    <3>2. excused'[v] = Settings
      BY <1>2, <2>1 DEF Crash
    <3> QED BY <3>1, <3>2 DEF Agrees
  <2>2. CASE j.at # "dump"
    <3>1. Agrees(file[v], accounts[v], excused[v], pending[v],
                 Busy(v, "default"), Busy(v, "key"))
      BY <1>6, <2>2 DEF InStep
    <3>2. CASE Busy(v, "default")
      <4>1. j.at \in {"read", "truncate"} /\ j.change = "default" /\ j.tenant = v
        BY <1>1, <1>2, <2>2, <3>2 DEF Editing
      <4>2. excused'[v] = Settings
        BY <1>2, <1>7, <4>1 DEF Crash
      <4> QED BY <1>3, <3>1, <4>2 DEF Agrees, Settings
    <3>3. CASE Busy(v, "key")
      <4>1. j.at \in {"read", "truncate"} /\ j.change = "key" /\ j.tenant = v
        BY <1>1, <1>2, <2>2, <3>3 DEF Editing
      <4>2. excused'[v] = excused[v] \cup {"key"}
        BY <1>2, <1>7, <4>1 DEF Crash
      <4>3. ~Busy(v, "default")
        BY <1>1, <1>2, <4>1
      <4>4. excused[v] = Settings => excused'[v] = Settings
        BY <4>2 DEF Settings
      <4> QED BY <1>3, <3>1, <4>2, <4>3, <4>4 DEF Agrees
    <3>4. CASE ~Busy(v, "default") /\ ~Busy(v, "key")
      <4>1. excused'[v] = excused[v]
        BY <1>1, <1>2, <1>6, <1>7, <2>2, <3>4 DEF Crash, Editing
      <4> QED BY <1>3, <3>1, <3>4, <4>1 DEF Agrees
    <3> QED BY <3>2, <3>3, <3>4
  <2> QED BY <2>1, <2>2
<1>9. \A u \in Users : InOrder(u)'
  BY <1>1, <1>3 DEF Good, InOrder
<1> QED BY <1>5, <1>8, <1>9 DEF Good, InStep

(* The end of a job: what is acknowledged is an event whose plan is set. *)
LEMMA AcknowledgeStep ==
  ASSUME TypeOK, TypeOK', NEW w \in Workers, EventHeld(job[w]), job[w].event # NoEvent,
         \A v \in Users : InOrder(v),
         Acknowledge(job[w].tenant, job[w].event),
         due' = due, overtaken' = overtaken,
         \A v \in Users : /\ accounts[v] # NoAccount => accounts'[v] # NoAccount
                          /\ accounts'[v].plan = accounts[v].plan
                          /\ accounts[v].billed => accounts'[v].billed,
         accounts'[job[w].tenant].billed
  PROVE  /\ \A v \in Users : InOrder(v)'
         /\ \A v \in Users : v # job[w].tenant => pending'[v] = pending[v]
<1>1. PICK u \in Users : u = job[w].tenant
  BY DEF EventHeld
<1>2. PICK p : p = job[w].event
  OBVIOUS
<1>3. /\ accounts[u] # NoAccount /\ accounts[u].plan = p
      /\ \E n \in DOMAIN pending[u] : pending[u][n] = p
      /\ ~overtaken[u] => pending[u][1] = p
  BY <1>1, <1>2 DEF EventHeld
<1>4. Acknowledge(u, p)
  BY <1>1, <1>2
<1>5. \A v \in Users : v # u => pending'[v] = pending[v]
  BY <1>3, <1>4, Acknowledged
<1>6. InOrder(u)'
  <2>1. /\ InOrder(u) /\ accounts'[u] # NoAccount
        /\ ~overtaken'[u] => /\ ~overtaken[u] /\ pending[u][1] = p
                             /\ accounts'[u].plan = p /\ accounts'[u].billed
    BY <1>1, <1>3
  <2> QED BY <1>3, <1>4, <2>1, AcknowledgedInOrder
<1>7. ASSUME NEW v \in Users, v # u PROVE InOrder(v)'
  BY <1>5, <1>7 DEF InOrder
<1> QED BY <1>1, <1>5, <1>6, <1>7
LEMMA FinishStep ==
  ASSUME TypeOK, TypeOK', NEW w \in Workers, EventHeld(job[w]),
         \A v \in Users : InOrder(v),
         Finish(w), UNCHANGED <<accounts, due, overtaken>>,
         (job[w].event # NoEvent /\ file'[job[w].tenant] # NoSection)
             => file'[job[w].tenant].limits = job[w].event
  PROVE  /\ JobOK(job[w])' /\ job'[w].at \notin Editing
         /\ \A v \in Users : InOrder(v)'
         /\ \A v \in Users : v # job[w].tenant => pending'[v] = pending[v]
         /\ job[w].event = NoEvent => pending' = pending
<1>1. PICK j \in Job : j = job[w]
  BY DEF TypeOK, Job
<1>2. w \in DOMAIN job
  BY DEF TypeOK
<1>3. NoEvent \notin PaidPlans
  BY NothingAssumption DEF Plans
<1>4. CASE j.event \in PaidPlans
  <2>1. /\ job'[w] = [Idle EXCEPT !.at = "ids", !.tenant = j.tenant, !.event = j.event]
        /\ pending' = pending
    BY <1>1, <1>2, <1>4 DEF Finish
  <2>2. job'[w].at = "ids" /\ job'[w].tenant = j.tenant /\ job'[w].event = j.event
    BY <2>1 DEF Idle
  <2>3. JobOK(job[w])'
    <3>1. EventHeld(job[w])'
      BY <1>1, <2>1, <2>2 DEF EventHeld
    <3>2. Staged(job[w])'
      BY <1>1, <1>3, <1>4, <2>2 DEF Staged
    <3>3. Committed(job[w])'
      BY <2>2 DEF Committed, Editing
    <3> QED BY <3>1, <3>2, <3>3 DEF JobOK
  <2> QED BY <2>1, <2>2, <2>3 DEF InOrder, Editing
<1>5. CASE j.event \notin PaidPlans
  <2>1. job'[w] = Idle /\ Idle.at = "idle" /\ Idle.event = NoEvent
    <3>1. job' = [job EXCEPT ![w] = Idle]
      BY <1>1, <1>5 DEF Finish
    <3>2. Idle.at = "idle" /\ Idle.event = NoEvent
      BY DEF Idle
    <3> QED BY <1>2, <3>1, <3>2
  <2>2. JobOK(job[w])' /\ job'[w].at \notin Editing
    BY <2>1 DEF JobOK, EventHeld, Committed, Staged, Editing
  <2>3. CASE j.event = NoEvent
    <3>1. pending' = pending
      BY <1>1, <1>5, <2>3 DEF Finish
    <3> QED BY <2>2, <3>1 DEF InOrder
  <2>4. CASE j.event # NoEvent
    <3>1. Acknowledge(j.tenant, j.event)
      BY <1>1, <1>5, <2>4 DEF Finish
    <3>2. accounts[j.tenant].billed /\ accounts' = accounts
      BY <1>1, <1>5, <2>4 DEF EventHeld
    <3>3. /\ \A v \in Users : InOrder(v)'
          /\ \A v \in Users : v # j.tenant => pending'[v] = pending[v]
      BY <1>1, <2>4, <3>1, <3>2, AcknowledgeStep
    <3> QED BY <1>1, <2>2, <2>4, <3>3
  <2> QED BY <2>3, <2>4
<1> QED BY <1>4, <1>5

LEMMA ReadFileStep ==
  ASSUME OneWorker, IInv, TypeOK', NEW w \in Workers, ReadFile(w)
  PROVE  Good(w)'
<1>1. /\ TypeOK /\ Good(w)
      /\ \A v, c : Busy(v, c) <=>
             job[w].at \in Editing /\ job[w].tenant = v /\ job[w].change = c
      /\ \A v, c : Busy(v, c)' <=>
             job'[w].at \in Editing /\ job'[w].tenant = v /\ job'[w].change = c
  BY OneJob
<1>2. PICK j \in Job : j = job[w]
  BY <1>1 DEF TypeOK, Job
<1>3. /\ j.at = "read"
      /\ accounts' = accounts /\ file' = file /\ due' = due
      /\ overtaken' = overtaken /\ excused' = excused
  BY <1>2 DEF ReadFile
<1>4. EventHeld(j) /\ Committed(j) /\ InStep(file)
  BY <1>1, <1>2, <1>3 DEF Good, JobOK
<1>5. CASE Applies(j, file)
  <2>1. job'[w] = [j EXCEPT !.at = "truncate", !.raw = file] /\ pending' = pending
    BY <1>1, <1>2, <1>5 DEF ReadFile, TypeOK
  <2>2. /\ job'[w].at = "truncate" /\ job'[w].tenant = j.tenant /\ job'[w].change = j.change
        /\ job'[w].section = j.section /\ job'[w].raw = file /\ job'[w].event = j.event
    BY <2>1 DEF Job
  <2>3. EventHeld(job[w])' /\ Committed(job[w])'
    BY <1>3, <1>4, <2>1, <2>2 DEF EventHeld, Committed, Editing
  <2>4. \A v, c : Busy(v, c)' <=> Busy(v, c)
    BY <1>1, <1>2, <1>3, <2>2 DEF Editing
  <2>5. InStep(file)' /\ InStep(job[w].raw)'
    BY <1>3, <1>4, <2>1, <2>2, <2>4 DEF InStep, Agrees
  <2>6. Staged(job[w])'
    BY <1>3, <1>5, <2>2, <2>5 DEF Staged, Applies
  <2>7. \A u \in Users : InOrder(u)'
    BY <1>1, <1>3, <2>1 DEF Good, InOrder
  <2> QED BY <2>3, <2>5, <2>6, <2>7 DEF Good, JobOK
<1>6. CASE ~Applies(j, file)
  <2>1. Finish(w)
    BY <1>2, <1>6 DEF ReadFile
  <2>2. /\ j.change \in {"default", "key", "limits", "delete"}
        /\ j.change = "default" => file[j.tenant] # NoSection
        /\ j.change # "default" => file[j.tenant] = NoSection
    BY <1>6 DEF Applies, Job, Change
  <2>3. (j.event # NoEvent /\ file'[j.tenant] # NoSection) => file'[j.tenant].limits = j.event
    BY <1>3, <1>4, <2>2 DEF Committed, Editing
  <2>4. /\ JobOK(job[w])' /\ job'[w].at \notin Editing
        /\ \A v \in Users : InOrder(v)'
        /\ \A v \in Users : v # j.tenant => pending'[v] = pending[v]
        /\ j.event = NoEvent => pending' = pending
    BY <1>1, <1>2, <1>3, <1>4, <2>1, <2>3, FinishStep DEF Good
  <2>5. ASSUME NEW v \in Users
        PROVE  Agrees(file[v], accounts[v], excused[v], pending[v],
                      Busy(v, "default"), Busy(v, "key"))'
    <3>1. Agrees(file[v], accounts[v], excused[v], pending[v],
                 Busy(v, "default"), Busy(v, "key"))
      BY <1>4 DEF InStep
    <3>2. CASE v # j.tenant
      <4>1. ~Busy(v, "default") /\ ~Busy(v, "key")
        BY <1>1, <1>2, <3>2
      <4>2. pending'[v] = pending[v]
        BY <2>4, <3>2
      <4> QED BY <1>3, <3>1, <4>1, <4>2 DEF Agrees
    <3>3. CASE v = j.tenant /\ j.change = "default"
      <4>1. file[v] # NoSection /\ ~Busy(v, "key")
        BY <1>1, <1>2, <2>2, <3>3
      <4>2. pending' = pending
        BY <1>3, <1>4, <2>4, <3>3 DEF Committed, Editing
      <4> QED BY <1>3, <3>1, <4>1, <4>2 DEF Agrees
    <3>4. CASE v = j.tenant /\ j.change # "default"
      <4>1. file[v] = NoSection /\ ~Busy(v, "default")
        BY <1>1, <1>2, <2>2, <3>4
      <4> QED BY <1>3, <3>1, <4>1 DEF Agrees
    <3> QED BY <3>2, <3>3, <3>4
  <2> QED BY <2>4, <2>5 DEF Good, InStep
<1> QED BY <1>5, <1>6

LEMMA DumpStep ==
  ASSUME OneWorker, IInv, TypeOK', NEW w \in Workers, Dump(w)
  PROVE  Good(w)'
<1>1. /\ TypeOK /\ Good(w)
      /\ \A v, c : Busy(v, c) <=>
             job[w].at \in Editing /\ job[w].tenant = v /\ job[w].change = c
  BY OneJob
<1>2. PICK j \in Job : j = job[w]
  BY <1>1 DEF TypeOK, Job
<1>3. /\ j.at = "dump" /\ file' = Changed(j) /\ Finish(w)
      /\ accounts' = accounts /\ due' = due /\ overtaken' = overtaken
  BY <1>2 DEF Dump
<1>4. EventHeld(j) /\ Committed(j) /\ InStep(j.raw) /\ Applies(j, j.raw)
  BY <1>1, <1>2, <1>3 DEF Good, JobOK, Staged
<1>5. /\ j.raw \in [Tenants -> Section \cup {NoSection}] /\ j.tenant \in Tenants
      /\ j.change \in Change /\ j.section \in Section
  BY DEF Job
<1>6. PICK t \in Tenants : t = j.tenant
  BY <1>5
<1>7. \A v \in Users : v # t => file'[v] = j.raw[v]
  BY <1>3, <1>5, <1>6 DEF Changed, Tenants
<1>8. /\ j.change \in {"default", "put"} => file'[t] = j.section
      /\ j.change = "limits" => file'[t] = [j.raw[t] EXCEPT !.limits = j.section.limits]
      /\ j.change = "key" => file'[t] = [j.raw[t] EXCEPT !.key = TRUE]
      /\ j.change = "delete" => file'[t] = NoSection
  BY <1>3, <1>5, <1>6 DEF Changed
<1>9. /\ j.change = "default" => j.raw[t] = NoSection
      /\ j.change \in {"limits", "key"} => j.raw[t] # NoSection /\ j.raw[t] \in Section
  BY <1>4, <1>5, <1>6 DEF Applies
<1>10. j.event # NoEvent => j.change = "limits" /\ j.section.limits = j.event
  BY <1>3, <1>4 DEF EventHeld
<1>11. (j.event # NoEvent /\ file'[t] # NoSection) => file'[t].limits = j.event
  BY <1>8, <1>9, <1>10 DEF Section
<1>12. /\ JobOK(job[w])' /\ job'[w].at \notin Editing
       /\ \A v \in Users : InOrder(v)'
       /\ \A v \in Users : v # t => pending'[v] = pending[v]
       /\ j.event = NoEvent => pending' = pending
  BY <1>1, <1>2, <1>3, <1>4, <1>6, <1>11, FinishStep DEF Good
<1>13. /\ \A v \in Users : v # t => excused'[v] = excused[v]
       /\ t \in Users => excused'[t] = IF j.change \in {"put", "delete"} THEN Settings
                                       ELSE excused[t] \ {j.change}
  BY <1>1, <1>2, <1>6, TenantsAssumption DEF Dump, TypeOK
<1>14. ASSUME NEW v \in Users
       PROVE  Agrees(file[v], accounts[v], excused[v], pending[v],
                     Busy(v, "default"), Busy(v, "key"))'
  <2>1. Agrees(j.raw[v], accounts[v], excused[v], pending[v],
               Busy(v, "default"), Busy(v, "key"))
    BY <1>4 DEF InStep
  <2>2. CASE v # t
    <3>1. ~Busy(v, "default") /\ ~Busy(v, "key")
      BY <1>1, <1>2, <1>6, <2>2
    <3> QED BY <1>3, <1>7, <1>12, <1>13, <2>1, <2>2, <3>1 DEF Agrees
  <2>3. CASE v = t
    <3>1. accounts[v] # NoAccount
      BY <1>3, <1>4, <1>6, <2>3 DEF Committed, Editing
    <3>2. CASE j.change = "default"
      <4>1. file'[v] = NewSection(Free, FALSE) /\ file'[v] # NoSection
        BY <1>3, <1>4, <1>5, <1>8, <2>3, <3>2, NothingAssumption DEF Committed, Editing
      <4>2. accounts[v].plan = Free /\ ~accounts[v].key
        BY <1>3, <1>4, <1>6, <2>3, <3>2 DEF Committed, Editing
      <4>3. accounts[v].key = FALSE
        BY <1>1, <3>1, <4>2 DEF TypeOK, Account
      <4>4. file'[v].limits = Free /\ file'[v].key = FALSE
        BY <4>1 DEF NewSection
      <4> QED BY <1>3, <3>1, <4>1, <4>2, <4>3, <4>4 DEF Agrees
    <3>3. CASE j.change = "limits"
      <4>1. file'[v] = [j.raw[v] EXCEPT !.limits = j.section.limits] /\ j.raw[v] \in Section
        BY <1>8, <1>9, <2>3, <3>3
      <4>2. j.raw[v] # NoSection /\ ~Busy(v, "key")
        BY <1>1, <1>2, <1>9, <2>3, <3>3
      <4>3. accounts[v].plan = j.section.limits
        BY <1>3, <1>4, <1>6, <1>10, <2>3, <3>3 DEF Committed, EventHeld, Editing
      <4>4. file'[v].limits = accounts[v].plan /\ file'[v].key = j.raw[v].key
        BY <4>1, <4>3 DEF Section
      <4>5. file'[v] # NoSection
        BY <1>5, <4>1, NothingAssumption DEF Section
      <4>6. "key" \notin excused'[v] => "key" \notin excused[v]
        BY <1>13, <2>3, <3>3
      <4> QED BY <1>3, <2>1, <3>1, <4>2, <4>4, <4>5, <4>6 DEF Agrees
    <3>4. CASE j.change = "key"
      <4>1. file'[v] = [j.raw[v] EXCEPT !.key = TRUE] /\ j.raw[v] \in Section
        BY <1>8, <1>9, <2>3, <3>4
      <4>2. j.raw[v] # NoSection
        BY <1>9, <2>3, <3>4
      <4>3. accounts[v].key
        BY <1>3, <1>4, <1>6, <2>3, <3>4 DEF Committed, Editing
      <4>4. accounts[v].key = TRUE
        BY <1>1, <3>1, <4>3 DEF TypeOK, Account
      <4>5. file'[v].limits = j.raw[v].limits /\ file'[v].key = TRUE
        BY <4>1 DEF Section
      <4>6. file'[v] # NoSection
        BY <4>1, NothingAssumption DEF Section
      <4>7. "limits" \notin excused'[v] => "limits" \notin excused[v]
        BY <1>13, <2>3, <3>4
      <4>8. pending' = pending
        BY <1>10, <1>12, <3>4
      <4> QED BY <1>3, <2>1, <3>1, <4>2, <4>4, <4>5, <4>6, <4>7, <4>8 DEF Agrees
    <3>5. CASE j.change \in {"put", "delete"}
      <4>1. excused'[v] = Settings
        BY <1>13, <2>3, <3>5
      <4> QED BY <1>3, <3>1, <4>1 DEF Agrees, Settings
    <3> QED BY <1>5, <3>2, <3>3, <3>4, <3>5 DEF Change
  <2> QED BY <2>2, <2>3
<1> QED BY <1>12, <1>14 DEF Good, InStep
LEMMA SetStripeIdsStep ==
  ASSUME OneWorker, IInv, TypeOK', NEW w \in Workers, SetStripeIds(w)
  PROVE  Good(w)'
<1>1. /\ TypeOK /\ Good(w)
      /\ \A v, c : Busy(v, c) <=>
             job[w].at \in Editing /\ job[w].tenant = v /\ job[w].change = c
  BY OneJob
<1>2. PICK j \in Job : j = job[w]
  BY <1>1 DEF TypeOK, Job
<1>3. /\ j.at = "ids" /\ Acknowledge(j.tenant, j.event)
      /\ accounts' = [accounts EXCEPT ![j.tenant].billed = TRUE]
      /\ UNCHANGED <<file, due, overtaken, excused>>
  BY <1>2 DEF SetStripeIds
<1>4. EventHeld(j) /\ Staged(j) /\ InStep(file) /\ \A v \in Users : InOrder(v)
  BY <1>1, <1>2, <1>3 DEF Good, JobOK
<1>5. /\ j.event \in PaidPlans /\ j.event # NoEvent
      /\ file[j.tenant] # NoSection => file[j.tenant].limits = j.event
  BY <1>3, <1>4, NothingAssumption DEF Staged, Plans
<1>6. PICK u \in Users : u = j.tenant
  BY <1>4, <1>5 DEF EventHeld
<1>7. accounts[u] # NoAccount /\ accounts[u].plan = j.event
  BY <1>4, <1>5, <1>6 DEF EventHeld
<1>8. /\ accounts'[u] # NoAccount /\ accounts'[u].billed
      /\ accounts'[u].plan = accounts[u].plan /\ accounts'[u].key = accounts[u].key
      /\ \A v \in Users : v # u => accounts'[v] = accounts[v]
  <2>1. accounts \in [Users -> Account \cup {NoAccount}] /\ accounts[u] \in Account
    BY <1>1, <1>7 DEF TypeOK
  <2>2. accounts'[u] = [accounts[u] EXCEPT !.billed = TRUE]
    BY <1>3, <1>6, <2>1
  <2>3. accounts'[u] \in Account
    BY <2>1, <2>2 DEF Account
  <2>4. accounts'[u] # NoAccount
    BY <2>3, NothingAssumption
  <2>5. \A v \in Users : v # u => accounts'[v] = accounts[v]
    BY <1>3, <1>6, <2>1
  <2> QED BY <2>1, <2>2, <2>4, <2>5 DEF Account
<1>9. /\ \A v \in Users : InOrder(v)'
      /\ \A v \in Users : v # u => pending'[v] = pending[v]
  <2>1. \A v \in Users : /\ accounts[v] # NoAccount => accounts'[v] # NoAccount
                         /\ accounts'[v].plan = accounts[v].plan
                         /\ accounts[v].billed => accounts'[v].billed
    BY <1>8
  <2> QED BY <1>1, <1>2, <1>3, <1>4, <1>5, <1>6, <1>8, <2>1, AcknowledgeStep
<1>10. job'[w] = Idle /\ Idle.at = "idle" /\ Idle.event = NoEvent
  BY <1>1 DEF SetStripeIds, Idle, TypeOK
<1>11. JobOK(job[w])'
  BY <1>10 DEF JobOK, EventHeld, Committed, Staged, Editing
<1>12. ASSUME NEW v \in Users
       PROVE  Agrees(file[v], accounts[v], excused[v], pending[v],
                     Busy(v, "default"), Busy(v, "key"))'
  <2>1. Agrees(file[v], accounts[v], excused[v], pending[v],
               Busy(v, "default"), Busy(v, "key"))
    BY <1>4 DEF InStep
  <2>2. ~Busy(v, "default") /\ ~Busy(v, "key")
    BY <1>1, <1>2, <1>3 DEF Editing
  <2>3. CASE v = u
    BY <1>3, <1>5, <1>6, <1>7, <1>8, <2>1, <2>2, <2>3 DEF Agrees
  <2>4. CASE v # u
    BY <1>3, <1>8, <1>9, <2>1, <2>2, <2>4 DEF Agrees
  <2> QED BY <2>3, <2>4
<1> QED BY <1>9, <1>11, <1>12 DEF Good, InStep

LEMMA HappensStep ==
  ASSUME IInv, TypeOK', NEW u \in Users, NEW p \in Plans, Happens(u, p)
  PROVE  IInv'
<1>1. /\ accounts' = accounts /\ file' = file /\ job' = job
      /\ overtaken' = overtaken /\ excused' = excused
      /\ accounts[u] # NoAccount /\ (p \in PaidPlans \/ due[u] # NoEvent)
  BY DEF Happens
<1>2. TypeOK /\ FileInStep /\ (\A w \in Workers : JobOK(job[w])) /\ \A v \in Users : InOrder(v)
  BY DEF IInv
<1>3. /\ pending'[u] = Append(pending[u], p) /\ due'[u] = p
      /\ \A v \in Users : v # u => pending'[v] = pending[v] /\ due'[v] = due[v]
  BY <1>2 DEF Happens, TypeOK
<1>4. PICK s \in Seq(Plans) : s = pending[u]
  BY <1>2 DEF TypeOK
<1>5. PICK l \in Nat : l = Len(s) /\ DOMAIN s = 1..l
  BY LenProperties
<1>6. /\ Len(pending'[u]) = l + 1 /\ pending'[u][l + 1] = p
      /\ \A n \in 1..l : pending'[u][n] = s[n]
      /\ DOMAIN pending'[u] = 1..(l + 1) /\ pending'[u] # <<>>
  <2>1. Append(s, p) \in Seq(Plans) /\ Len(Append(s, p)) = l + 1 /\ Append(s, p)[l + 1] = p
    BY <1>5, AppendProperties
  <2>2. \A n \in 1..l : Append(s, p)[n] = s[n]
    BY <1>5, AppendProperties
  <2>3. DOMAIN Append(s, p) = 1..(l + 1) /\ Append(s, p) # <<>>
    BY <2>1, LenProperties, EmptySeq
  <2> QED BY <1>3, <1>4, <2>1, <2>2, <2>3
<1>7. \A v \in Users : \A x :
         (\E n \in DOMAIN pending[v] : pending[v][n] = x)
             => /\ \E n \in DOMAIN pending'[v] : pending'[v][n] = x
                /\ pending'[v][1] = pending[v][1]
  <2> SUFFICES ASSUME NEW v \in Users, NEW x, NEW n \in DOMAIN pending[v],
                      pending[v][n] = x
               PROVE  /\ \E m \in DOMAIN pending'[v] : pending'[v][m] = x
                      /\ pending'[v][1] = pending[v][1]
    OBVIOUS
  <2>0. CASE v # u
    <3>1. pending'[v] = pending[v]
      BY <1>3, <2>0
    <3> QED BY <3>1
  <2> SUFFICES ASSUME v = u
               PROVE  /\ \E m \in DOMAIN pending'[v] : pending'[v][m] = x
                      /\ pending'[v][1] = pending[v][1]
    BY <2>0
  <2>1. n \in 1..l /\ n \in 1..(l + 1) /\ 1 \in 1..l
    BY <1>4, <1>5
  <2> QED BY <1>4, <1>6, <2>1
<1>8. ASSUME NEW f, InStep(f) PROVE InStep(f)'
  BY <1>1, <1>7, <1>8 DEF InStep, Agrees, Owed, Busy
<1>9. ASSUME NEW w \in Workers PROVE JobOK(job[w])'
  <2>1. JobOK(job[w])
    BY <1>2
  <2>2. EventHeld(job[w])'
    BY <1>1, <1>7, <2>1 DEF JobOK, EventHeld
  <2>3. Committed(job[w])'
    BY <1>1, <2>1 DEF JobOK, Committed
  <2>4. InStep(job[w].raw) => InStep(job[w].raw)'
    <3>1. PICK r : r = job[w].raw
      OBVIOUS
    <3>2. InStep(r) => InStep(r)'
      BY <1>8
    <3>3. job'[w].raw = r
      BY <1>1, <3>1
    <3>4. InStep(r)' <=> InStep(job[w].raw)'
      BY <3>3 DEF InStep
    <3> QED BY <3>1, <3>2, <3>4
  <2>5. Staged(job[w])'
    BY <1>1, <2>1, <2>4 DEF JobOK, Staged, Applies
  <2> QED BY <2>2, <2>3, <2>5 DEF JobOK
<1>10. FileInStep'
  <2>1. InStep(file) => InStep(file)'
    BY <1>1, <1>7 DEF InStep, Agrees, Owed, Busy
  <2> QED BY <1>1, <1>2, <2>1 DEF FileInStep
<1>11. ASSUME NEW v \in Users PROVE InOrder(v)'
  <2>1. CASE v # u
    BY <1>1, <1>2, <1>3, <2>1 DEF InOrder
  <2>2. CASE v = u
    <3>1. p # NoEvent
      BY NothingAssumption
    <3>2. CASE s = <<>>
      <4>1. l = 0 /\ pending'[u][1] = p
        BY <1>5, <1>6, <3>2, EmptySeq
      <4> QED BY <1>1, <1>2, <1>3, <1>4, <1>6, <2>2, <3>1, <3>2, <4>1 DEF InOrder
    <3>3. CASE s # <<>>
      <4>1. pending'[u][1] = s[1]
        BY <1>5, <1>6, <3>3, EmptySeq
      <4> QED BY <1>1, <1>2, <1>3, <1>4, <1>6, <2>2, <3>1, <3>3, <4>1 DEF InOrder
    <3> QED BY <3>2, <3>3
  <2> QED BY <2>1, <2>2
<1> QED BY <1>9, <1>10, <1>11 DEF IInv

-----------------------------------------------------------------------------
(* The theorems.                                                           *)

LEMMA InitInvariant == Init => IInv
<1> SUFFICES ASSUME Init PROVE IInv
  OBVIOUS
<1>1. TypeOK
  BY InitType
<1>2. Idle.at = "idle" /\ Idle.event = NoEvent
  BY DEF Idle
<1>3. \A w \in Workers : job[w] = Idle
  BY DEF Init
<1>4. \A w \in Workers : JobOK(job[w])
  BY <1>2, <1>3 DEF JobOK, EventHeld, Committed, Staged, Editing
<1>5. ASSUME NEW u \in Users
      PROVE  accounts[u] = NoAccount /\ file[u] = NoSection /\ pending[u] = <<>> /\ due[u] = NoEvent
  BY TenantsAssumption DEF Init, EmptyFile, Tenants
<1>6. FileInStep
  BY <1>5 DEF FileInStep, InStep, Agrees
<1>7. \A u \in Users : InOrder(u)
  BY <1>5 DEF InOrder
<1> QED BY <1>1, <1>4, <1>6, <1>7 DEF IInv

LEMMA StepInvariant ==
  ASSUME OneWorker, IInv, [Next]_vars
  PROVE  IInv'
<1>1. TypeOK'
  BY TypeStep
<1>2. ASSUME NEW w \in Workers, Good(w)' PROVE IInv'
  BY <1>1, <1>2, OneJob
<1>3. /\ Customers \subseteq Users /\ Edited \subseteq Tenants
  BY BoundsAssumption
<1>4. CASE UNCHANGED vars
  <2> USE <1>4 DEF vars
  <2>1. ASSUME NEW w \in Workers PROVE JobOK(job[w])'
    <3>1. JobOK(job[w])
      BY DEF IInv
    <3>2. EventHeld(job[w])' /\ Committed(job[w])'
      BY <3>1 DEF JobOK, EventHeld, Committed
    <3>3. InStep(job[w].raw) => InStep(job[w].raw)'
      BY DEF InStep, Agrees, Busy
    <3>4. Staged(job[w])'
      BY <3>1, <3>3 DEF JobOK, Staged, Applies
    <3> QED BY <3>2, <3>4 DEF JobOK
  <2>2. FileInStep'
    BY DEF IInv, FileInStep, InStep, Agrees, Busy, Owed
  <2>3. \A u \in Users : InOrder(u)'
    BY DEF IInv, InOrder
  <2> QED BY <1>1, <2>1, <2>2, <2>3 DEF IInv
<1>5. ASSUME NEW w \in Workers, NEW u \in Users, SignUp(w, u) PROVE IInv'
  BY <1>1, <1>2, <1>5, SignUpStep
<1>6. ASSUME NEW w \in Workers, NEW u \in Users, SaveKey(w, u) PROVE IInv'
  BY <1>1, <1>2, <1>6, SaveKeyStep
<1>7. ASSUME NEW w \in Workers, NEW u \in Users, HandleWebhook(w, u) PROVE IInv'
  BY <1>1, <1>2, <1>7, HandleWebhookStep
<1>8. ASSUME NEW w \in Workers, NEW t \in Tenants, EditPolicy(w, t) PROVE IInv'
  BY <1>1, <1>2, <1>8, EditPolicyStep
<1>9. ASSUME NEW w \in Workers, ReadFile(w) PROVE IInv'
  BY <1>1, <1>2, <1>9, ReadFileStep
<1>10. ASSUME NEW w \in Workers, Truncate(w) PROVE IInv'
  BY <1>1, <1>2, <1>10, TruncateStep
<1>11. ASSUME NEW w \in Workers, Dump(w) PROVE IInv'
  BY <1>1, <1>2, <1>11, DumpStep
<1>12. ASSUME NEW w \in Workers, SetStripeIds(w) PROVE IInv'
  BY <1>1, <1>2, <1>12, SetStripeIdsStep
<1>13. ASSUME NEW w \in Workers, Crash(w) PROVE IInv'
  BY <1>1, <1>2, <1>13, CrashStep
<1>14. ASSUME NEW u \in Users, NEW p \in Plans, Happens(u, p) PROVE IInv'
  BY <1>1, <1>14, HappensStep
<1> QED
  BY <1>3, <1>4, <1>5, <1>6, <1>7, <1>8, <1>9, <1>10, <1>11, <1>12, <1>13, <1>14 DEF Next

LEMMA Invariant == ASSUME OneWorker PROVE Spec => []IInv
<1>1. Init => IInv
  BY InitInvariant
<1>2. IInv /\ [Next]_vars => IInv'
  BY StepInvariant
<1> QED BY <1>1, <1>2, PTL DEF Spec

(* Where one process serves all, every variable holds what the code puts   *)
(* there: an event is acknowledged only while Stripe still has it to       *)
(* deliver.                                                                *)
THEOREM TypeCorrect == ASSUME OneWorker PROVE Spec => []TypeOK
<1>1. IInv => TypeOK
  BY DEF IInv
<1> QED BY <1>1, Invariant, PTL

(* Whatever crash there was between the database and the file, the limits  *)
(* a request gets are those of its user's plan once all events are         *)
(* acknowledged (users.py 326-333).                                        *)
THEOREM LimitsAgree == ASSUME OneWorker PROVE Spec => []LimitsFollowPlan
<1>1. IInv => LimitsFollowPlan
  <2> SUFFICES ASSUME IInv, Quiet, NEW u \in Users, accounts[u] # NoAccount,
                      pending[u] = <<>>, "limits" \notin excused[u]
               PROVE  Load(u).limits = accounts[u].plan
    BY DEF LimitsFollowPlan
  <2>1. Idle.at = "idle"
    BY DEF Idle
  <2>2. InStep(file) /\ ~Busy(u, "default") /\ ~Busy(u, "key")
    BY <2>1 DEF Quiet, IInv, FileInStep, Busy, Editing
  <2>3. ~Owed(accounts[u], pending[u])
    BY DEF Owed
  <2>4. file[u] # NoSection
    BY <2>2 DEF InStep, Agrees, Settings
  <2>5. file[u].limits = accounts[u].plan
    BY <2>2, <2>3, <2>4 DEF InStep, Agrees
  <2> QED BY <2>4, <2>5 DEF Load
<1> QED BY <1>1, Invariant, PTL

(* A request goes out with the key its own user has saved or with none,    *)
(* never with the key of the section "default", as long as no crash and no *)
(* edit came in between (policy.py 102-117, users.py 288-308).             *)
THEOREM OwnKeyOrNone == ASSUME OneWorker PROVE Spec => []KeyInForce
<1>1. IInv => KeyInForce
  <2> SUFFICES ASSUME IInv, Quiet, NEW u \in Users, accounts[u] # NoAccount,
                      "key" \notin excused[u]
               PROVE  Load(u).key = IF accounts[u].key THEN u ELSE Nobody
    BY DEF KeyInForce
  <2>1. Idle.at = "idle"
    BY DEF Idle
  <2>2. InStep(file) /\ ~Busy(u, "default") /\ ~Busy(u, "key")
    BY <2>1 DEF Quiet, IInv, FileInStep, Busy, Editing
  <2>3. file[u] # NoSection
    BY <2>2 DEF InStep, Agrees, Settings
  <2>4. file[u].key = accounts[u].key
    BY <2>2, <2>3 DEF InStep, Agrees
  <2> QED BY <2>3, <2>4 DEF Load
<1> QED BY <1>1, Invariant, PTL

(* When all events of a user are acknowledged and none has overtaken       *)
(* another, crashes and repeated deliveries notwithstanding, the account   *)
(* has the plan Stripe said last (billing.py 116-161).                     *)
THEOREM StripeSettlesThePlan == ASSUME OneWorker PROVE Spec => []PlanFollowsStripe
<1>1. IInv => PlanFollowsStripe
  BY DEF IInv, InOrder, PlanFollowsStripe
<1> QED BY <1>1, Invariant, PTL

(* With one process the docstring of users.py (4-5) holds: no account is   *)
(* without its section, unless a crash or the editor took it.  What the    *)
(* run AccountsWorkers shows is the work of a second process alone.        *)
THEOREM OneWorkerProvisions == ASSUME OneWorker PROVE Spec => []EveryUserProvisioned
<1>1. IInv => EveryUserProvisioned
  <2> SUFFICES ASSUME IInv, Quiet, NEW u \in Users, accounts[u] # NoAccount,
                      excused[u] = {}
               PROVE  file[u] # NoSection
    BY DEF EveryUserProvisioned
  <2>1. Idle.at = "idle"
    BY DEF Idle
  <2>2. InStep(file) /\ ~Busy(u, "default")
    BY <2>1 DEF Quiet, IInv, FileInStep, Busy, Editing
  <2>3. Settings # {}
    BY DEF Settings
  <2> QED BY <2>2, <2>3 DEF InStep, Agrees
<1> QED BY <1>1, Invariant, PTL
=============================================================================
