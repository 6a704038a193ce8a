----------------------------- MODULE WebhookProofs -----------------------------
(***************************************************************************)
(* Proofs about WebhookDelivery, for any events and number of attempts.    *)
(***************************************************************************)
EXTENDS WebhookDelivery, TLAPS, SequenceTheorems

Naps(n) == [k \in 1..n |-> Nap(k - 1)]

(* A task has slept after each failure but the last it could afford, and   *)
(* the receiver has a copy of each failed post at most.                    *)
Backoff(e) ==
    /\ task[e] = "gave_up" => attempt[e] = Attempts /\ waited[e] = Naps(Attempts - 1)
    /\ task[e] # "gave_up" => attempt[e] < Attempts /\ waited[e] = Naps(attempt[e])

Copies(e) ==
    received[e] <= attempt[e] + (IF task[e] \in {"delivered", "lost"} THEN 1 ELSE 0)

IInv == TypeOK /\ \A e \in Events : Backoff(e) /\ Copies(e)

LEMMA NapIndices == \A n \in Nat : \A k \in 1..n : Naps(n)[k] = Nap(k - 1)
BY DEF Naps

(* One nap more. *)
LEMMA AnotherNap ==
  ASSUME NEW n \in Nat
  PROVE  /\ Naps(n) \in Seq({Nap(k) : k \in 0..(n - 1)})
         /\ Append(Naps(n), Nap(n)) = Naps(n + 1)
<1>1. Naps(n) \in Seq({Nap(k) : k \in 0..(n - 1)})
  BY DEF Naps
<1>2. Len(Naps(n)) = n
  BY <1>1 DEF Naps
<1> DEFINE S == {Nap(k) : k \in 0..n}
<1>3. Naps(n) \in Seq(S) /\ Naps(n + 1) \in Seq(S) /\ Nap(n) \in S
  BY DEF Naps
<1>4. Len(Naps(n + 1)) = n + 1
  BY <1>3 DEF Naps
<1>5. PICK s \in Seq(S) : s = Naps(n)
  BY <1>3
<1>6. /\ Append(s, Nap(n)) \in Seq(S) /\ Len(Append(s, Nap(n))) = n + 1
      /\ Append(s, Nap(n))[n + 1] = Nap(n)
      /\ \A k \in 1..n : Append(s, Nap(n))[k] = s[k]
  BY <1>2, <1>3, <1>5, AppendProperties
<1>7. PICK r \in Seq(S) : r = Naps(n + 1)
  BY <1>3
<1>8. \A k \in 1..(n + 1) : Append(s, Nap(n))[k] = r[k]
  BY <1>5, <1>6, <1>7 DEF Naps
<1>9. Append(s, Nap(n)) = r
  BY <1>4, <1>6, <1>7, <1>8, SeqEqual
<1> QED BY <1>1, <1>5, <1>7, <1>9
LEMMA InitInvariant == Init => IInv
<1> SUFFICES ASSUME Init PROVE IInv
  OBVIOUS
<1>1. \A e \in Events : task[e] = "none" /\ attempt[e] = 0 /\ waited[e] = <<>> /\ received[e] = 0
  BY DEF Init
<1>2. Naps(0) = <<>>
  <2>1. Naps(0) \in Seq({Nap(k) : k \in {}}) /\ Len(Naps(0)) = 0
    BY DEF Naps
  <2> QED BY <2>1, EmptySeq
<1>3. /\ task \in [Events -> {"none", "filtered", "posting", "sleeping",
                              "delivered", "gave_up", "lost"}]
      /\ attempt \in [Events -> 0..Attempts]
      /\ received \in [Events -> 0..Attempts]
  BY AttemptsAssumption DEF Init
<1>4. waited \in [Events -> Seq({Nap(n) : n \in 0..(Attempts - 2)})]
  <2>1. <<>> \in Seq({Nap(n) : n \in 0..(Attempts - 2)})
    OBVIOUS
  <2> QED BY <2>1 DEF Init
<1>5. \A e \in Events : Backoff(e) /\ Copies(e)
  <2>1. 0 < Attempts
    BY AttemptsAssumption
  <2> TAKE e \in Events
  <2>2. task[e] = "none" /\ attempt[e] = 0 /\ waited[e] = Naps(attempt[e]) /\ received[e] = 0
    BY <1>1, <1>2
  <2>3. Backoff(e)
    BY <2>1, <2>2 DEF Backoff
  <2>4. Copies(e)
    BY <2>2 DEF Copies
  <2> QED BY <2>3, <2>4
<1> QED BY <1>3, <1>4, <1>5 DEF IInv, TypeOK

(* How the state of one task may go on.  Everything the invariant says of  *)
(* the task stays true.                                                    *)
Goes(e) ==
    \/ /\ task'[e] = task[e] \/ (task[e] = "none" /\ task'[e] = "filtered")
          \/ (task[e] \in {"none", "sleeping"} /\ task'[e] = "posting")
       /\ attempt'[e] = attempt[e] /\ waited'[e] = waited[e] /\ received'[e] = received[e]
    \/ /\ task[e] \in {"posting", "sleeping"} /\ task'[e] \in {"delivered", "lost"}
       /\ attempt'[e] = attempt[e] /\ waited'[e] = waited[e]
       /\ received'[e] = received[e] \/ received'[e] = received[e] + 1
    \/ /\ task[e] = "posting" /\ attempt'[e] = attempt[e] + 1
       /\ received'[e] = received[e] \/ received'[e] = received[e] + 1
       /\ \/ /\ attempt[e] + 1 < Attempts /\ task'[e] = "sleeping"
             /\ waited'[e] = Append(waited[e], Nap(attempt[e]))
          \/ /\ ~(attempt[e] + 1 < Attempts) /\ task'[e] = "gave_up"
             /\ waited'[e] = waited[e]

OnEvents ==
    /\ task = [e \in Events |-> task[e]]
    /\ attempt = [e \in Events |-> attempt[e]]
    /\ waited = [e \in Events |-> waited[e]]
    /\ received = [e \in Events |-> received[e]]

LEMMA EveryStepGoes ==
  ASSUME TypeOK, [Next]_vars
  PROVE  OnEvents' /\ \A e \in Events : Goes(e)
<1>1. OnEvents
  BY DEF TypeOK, OnEvents
<1>2. ASSUME NEW f \in Events,
             task'[f] = task[f], attempt'[f] = attempt[f], waited'[f] = waited[f],
             received'[f] = received[f]
      PROVE  Goes(f)
  BY <1>2 DEF Goes
<1>3. ASSUME NEW e \in Events, Dispatch(e) PROVE OnEvents' /\ \A f \in Events : Goes(f)
  <2>1. OnEvents'
    BY <1>1, <1>3 DEF OnEvents, Dispatch
  <2>2. Goes(e)
    BY <1>1, <1>3 DEF OnEvents, Dispatch, Goes
  <2>3. \A f \in Events : f # e => Goes(f)
    BY <1>1, <1>2, <1>3 DEF OnEvents, Dispatch
  <2> QED BY <2>1, <2>2, <2>3
<1>4. ASSUME NEW e \in Events, Delivered(e) PROVE OnEvents' /\ \A f \in Events : Goes(f)
  <2>1. OnEvents'
    BY <1>1, <1>4 DEF OnEvents, Delivered
  <2>2. Goes(e)
    BY <1>1, <1>4 DEF OnEvents, Delivered, Goes
  <2>3. \A f \in Events : f # e => Goes(f)
    BY <1>1, <1>2, <1>4 DEF OnEvents, Delivered
  <2> QED BY <2>1, <2>2, <2>3
<1>5. ASSUME NEW e \in Events, Failed(e) PROVE OnEvents' /\ \A f \in Events : Goes(f)
  <2>1. OnEvents'
    BY <1>1, <1>5 DEF OnEvents, Failed
  <2>2. /\ task[e] = "posting" /\ attempt'[e] = attempt[e] + 1
        /\ \/ /\ attempt[e] + 1 < Attempts /\ task'[e] = "sleeping"
              /\ waited'[e] = Append(waited[e], Nap(attempt[e]))
           \/ /\ ~(attempt[e] + 1 < Attempts) /\ task'[e] = "gave_up"
              /\ waited'[e] = waited[e]
    BY <1>1, <1>5 DEF OnEvents, Failed
  <2>3. received'[e] = received[e] \/ received'[e] = received[e] + 1
    <3>1. PICK copies \in 0..1 : received' = [received EXCEPT ![e] = @ + copies]
      BY <1>5 DEF Failed
    <3>2. received[e] \in Int
      BY DEF TypeOK
    <3> QED BY <1>1, <3>1, <3>2 DEF OnEvents
  <2>4. Goes(e)
    BY <2>2, <2>3 DEF Goes
  <2>5. \A f \in Events : f # e => Goes(f)
    BY <1>1, <1>2, <1>5 DEF OnEvents, Failed
  <2> QED BY <2>1, <2>4, <2>5
<1>6. ASSUME NEW e \in Events, Wake(e) PROVE OnEvents' /\ \A f \in Events : Goes(f)
  <2>1. OnEvents'
    BY <1>1, <1>6 DEF OnEvents, Wake
  <2>2. Goes(e)
    BY <1>1, <1>6 DEF OnEvents, Wake, Goes
  <2>3. \A f \in Events : f # e => Goes(f)
    BY <1>1, <1>2, <1>6 DEF OnEvents, Wake
  <2> QED BY <2>1, <2>2, <2>3
<1>7. ASSUME Shutdown PROVE OnEvents' /\ \A f \in Events : Goes(f)
  <2>1. OnEvents'
    BY <1>1, <1>7 DEF OnEvents, Shutdown
  <2>2. ASSUME NEW f \in Events PROVE Goes(f)
    <3>1. /\ task'[f] = IF Running(f) THEN "lost" ELSE task[f]
          /\ attempt'[f] = attempt[f] /\ waited'[f] = waited[f]
          /\ received'[f] = received[f] \/ (Running(f) /\ received'[f] = received[f] + 1)
      BY <1>7 DEF Shutdown, Running
    <3> QED BY <3>1 DEF Goes, Running
  <2> QED BY <2>1, <2>2
<1>8. CASE UNCHANGED vars
  BY <1>1, <1>2, <1>8 DEF vars, OnEvents
<1> QED BY <1>3, <1>4, <1>5, <1>6, <1>7, <1>8 DEF Next

LEMMA StepInvariant == ASSUME IInv, [Next]_vars PROVE IInv'
<1>1. TypeOK /\ \A e \in Events : Backoff(e) /\ Copies(e)
  BY DEF IInv
<1>2. OnEvents' /\ \A e \in Events : Goes(e)
  BY <1>1, EveryStepGoes
<1>3. PICK A \in Nat \ {0} : A = Attempts
  BY AttemptsAssumption
<1>4. ASSUME NEW e \in Events
      PROVE  /\ attempt[e] \in 0..A /\ received[e] \in 0..A
             /\ task[e] \in {"none", "filtered", "posting", "sleeping",
                             "delivered", "gave_up", "lost"}
             /\ Backoff(e) /\ Copies(e) /\ Goes(e)
  BY <1>1, <1>2, <1>3 DEF TypeOK
<1>5. ASSUME NEW e \in Events
      PROVE  /\ task'[e] \in {"none", "filtered", "posting", "sleeping",
                              "delivered", "gave_up", "lost"}
             /\ attempt'[e] \in 0..A /\ received'[e] \in 0..A
             /\ Copies(e)'
  BY <1>3, <1>4, <1>5 DEF Copies, Goes, Backoff
<1>6. ASSUME NEW e \in Events PROVE Backoff(e)'
  <2>1. CASE waited'[e] = waited[e] /\ attempt'[e] = attempt[e]
    BY <1>3, <1>4, <1>6, <2>1 DEF Goes, Backoff
  <2>2. CASE /\ task[e] = "posting" /\ attempt'[e] = attempt[e] + 1
             /\ attempt[e] + 1 < Attempts /\ task'[e] = "sleeping"
             /\ waited'[e] = Append(waited[e], Nap(attempt[e]))
    <3>1. attempt[e] \in Nat /\ waited[e] = Naps(attempt[e])
      BY <1>4, <2>2 DEF Backoff
    <3>2. waited'[e] = Naps(attempt[e] + 1)
      BY <2>2, <3>1, AnotherNap
    <3> QED BY <2>2, <3>2 DEF Backoff
  <2>3. CASE /\ task[e] = "posting" /\ attempt'[e] = attempt[e] + 1
             /\ ~(attempt[e] + 1 < Attempts) /\ task'[e] = "gave_up"
             /\ waited'[e] = waited[e]
    <3>1. attempt[e] < A /\ waited[e] = Naps(attempt[e])
      BY <1>3, <1>4, <2>3 DEF Backoff
    <3>2. attempt[e] = A - 1 /\ attempt[e] + 1 = A
      BY <1>3, <1>4, <2>3, <3>1
    <3> QED BY <1>3, <2>3, <3>1, <3>2 DEF Backoff
  <2> QED BY <1>4, <2>1, <2>2, <2>3 DEF Goes
<1>7. ASSUME NEW e \in Events
      PROVE  waited'[e] \in Seq({Nap(n) : n \in 0..(A - 2)})
  <2>1. PICK n \in 0..(A - 1) : waited'[e] = Naps(n)
    BY <1>3, <1>5, <1>6 DEF Backoff
  <2>2. Naps(n) \in Seq({Nap(k) : k \in 0..(n - 1)})
    BY <2>1, AnotherNap
  <2>3. {Nap(k) : k \in 0..(n - 1)} \subseteq {Nap(k) : k \in 0..(A - 2)}
    BY <2>1
  <2> QED BY <2>1, <2>2, <2>3
<1>8. TypeOK'
  BY <1>2, <1>3, <1>5, <1>7 DEF TypeOK, OnEvents
<1> QED BY <1>5, <1>6, <1>8 DEF IInv

LEMMA Invariant == Spec => []IInv
<1>1. IInv /\ [Next]_vars => IInv'
  BY StepInvariant
<1> QED BY <1>1, InitInvariant, PTL DEF Spec

(* Every variable holds what dispatch and the tasks put there; in          *)
(* particular no receiver gets more copies than there are attempts.        *)
THEOREM TypeCorrect == Spec => []TypeOK
<1>1. IInv => TypeOK
  BY DEF IInv
<1> QED BY <1>1, Invariant, PTL

(* A receiver has a copy for each failed post at most, and one for the     *)
(* post that succeeded or was under way when the process ended; a delivery *)
(* is given up after all attempts, with the whole backoff between them     *)
(* (86-99).                                                                *)
THEOREM CopiesAreExplained == Spec => []CopiesExplained
<1>1. IInv => CopiesExplained
  BY DEF IInv, Backoff, Copies, CopiesExplained, Naps
<1> QED BY <1>1, Invariant, PTL

(* Once an answer came, or the task gave up or was lost, no further copy   *)
(* is sent (90-91, 98-99).                                                 *)
THEOREM NothingAfterTheEnd == Spec => SettledStays
<1>1. IInv /\ [Next]_vars =>
        [\A e \in Events :
            task[e] \in {"filtered", "delivered", "gave_up", "lost"} =>
                task'[e] = task[e] /\ received'[e] = received[e]]_vars
  BY EveryStepGoes DEF IInv, Goes
<1> QED BY <1>1, Invariant, PTL DEF Spec, SettledStays
================================================================================
