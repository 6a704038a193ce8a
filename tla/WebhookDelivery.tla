---------------------------- MODULE WebhookDelivery ----------------------------
(***************************************************************************)
(* The delivery of webhook events (webhooks.py): dispatch filters an event *)
(* by the tenant's configuration and leaves it to a task of its own, which *)
(* posts it up to three times.  The tasks live in the process and end with *)
(* it.                                                                     *)
(***************************************************************************)
EXTENDS Integers, Sequences

CONSTANTS
    Events,     \* the events that may be dispatched
    Attempts    \* the number of posts, range(3)

ASSUME AttemptsAssumption == Attempts \in Nat \ {0}

VARIABLES
    task,       \* task[e]: what the delivery of e is doing
    attempt,    \* attempt[e]: posts that have failed so far
    waited,     \* waited[e]: the sleeps between posts, in seconds
    received    \* received[e]: copies the receiver has got (external)

vars == <<task, attempt, waited, received>>

(* The sleep after so many failures and one more. *)
Nap(failures) == 2 ^ failures

Init ==
    /\ task = [e \in Events |-> "none"]
    /\ attempt = [e \in Events |-> 0]
    /\ waited = [e \in Events |-> <<>>]
    /\ received = [e \in Events |-> 0]

(* An event that is not wanted, or whose tenant has no webhook, is dropped. *)
Dispatch(e) ==
    /\ task[e] = "none"
    /\ \E next \in {"filtered", "posting"} : task' = [task EXCEPT ![e] = next]
    /\ UNCHANGED <<attempt, waited, received>>

(* The receiver gets the copy and answers with a status below 500. *)
Delivered(e) ==
    /\ task[e] = "posting"
    /\ task' = [task EXCEPT ![e] = "delivered"]
    /\ received' = [received EXCEPT ![e] = @ + 1]
    /\ UNCHANGED <<attempt, waited>>

(* Mutated form (of Failed): the last attempt is made over and over. *)
FailedForever(e) ==
    /\ task[e] = "posting"
    /\ task' = [task EXCEPT ![e] = "sleeping"]
    /\ IF attempt[e] + 1 < Attempts
       THEN /\ attempt' = [attempt EXCEPT ![e] = @ + 1]
            /\ waited' = [waited EXCEPT ![e] = Append(@, Nap(attempt[e]))]
       ELSE UNCHANGED <<attempt, waited>>
    /\ UNCHANGED received

(* Mutated form (of Failed): the sleep comes after the last attempt too. *)
FailedSleepsLast(e) ==
    /\ task[e] = "posting"
    /\ attempt' = [attempt EXCEPT ![e] = @ + 1]
    /\ waited' = [waited EXCEPT ![e] = Append(@, Nap(attempt[e]))]
    /\ task' = [task EXCEPT ![e] = IF attempt'[e] < Attempts THEN "sleeping" ELSE "gave_up"]
    /\ \E copies \in 0..1 : received' = [received EXCEPT ![e] = @ + copies]

(* Mutated form (of Failed): a failure without answer is not counted. *)
FailedUncounted(e) ==
    /\ task[e] = "posting"
    /\ \E copies \in 0..1 :
          /\ received' = [received EXCEPT ![e] = IF @ < 9 THEN @ + copies ELSE @]
          /\ attempt' = [attempt EXCEPT ![e] = @ + 1 - copies]
    /\ task' = [task EXCEPT ![e] = IF attempt'[e] < Attempts THEN "sleeping" ELSE "gave_up"]
    /\ UNCHANGED waited

(***************************************************************************)
(* The post fails, by a status of 500 or more, by a network error or by    *)
(* the timeout of ten seconds; the receiver may have got the copy.  Then   *)
(* the task sleeps, 1 and 2 seconds, or gives up.                          *)
(***************************************************************************)
Failed(e) ==
    /\ task[e] = "posting"
    /\ attempt' = [attempt EXCEPT ![e] = @ + 1]
    /\ IF attempt'[e] < Attempts
       THEN /\ task' = [task EXCEPT ![e] = "sleeping"]
            /\ waited' = [waited EXCEPT ![e] = Append(@, Nap(attempt[e]))]
       ELSE /\ task' = [task EXCEPT ![e] = "gave_up"]
            /\ UNCHANGED waited
    /\ \E copies \in 0..1 : received' = [received EXCEPT ![e] = @ + copies]

(* Mutated form (of Wake): a delivered event is posted again. *)
WakeDelivered(e) ==
    /\ task[e] \in {"sleeping", "delivered"}
    /\ received[e] < 9
    /\ task' = [task EXCEPT ![e] = "posting"]
    /\ UNCHANGED <<attempt, waited, received>>

Wake(e) ==
    /\ task[e] = "sleeping"
    /\ task' = [task EXCEPT ![e] = "posting"]
    /\ UNCHANGED <<attempt, waited, received>>

Running(e) == task[e] \in {"posting", "sleeping"}

(* The process ends, and its tasks with it; a copy may be under way. *)
Shutdown ==
    /\ \E e \in Events : Running(e)
    /\ task' = [e \in Events |-> IF Running(e) THEN "lost" ELSE task[e]]
    /\ \E arrived \in SUBSET {e \in Events : task[e] = "posting"} :
          received' = [e \in Events |->
              IF e \in arrived THEN received[e] + 1 ELSE received[e]]
    /\ UNCHANGED <<attempt, waited>>

Next ==
    \/ \E e \in Events : Dispatch(e) \/ Delivered(e) \/ Failed(e) \/ Wake(e)
    \/ Shutdown

(* A post ends, by its timeout if nothing else, and so does a sleep. *)
Fairness ==
    \A e \in Events : WF_vars(Delivered(e) \/ Failed(e)) /\ WF_vars(Wake(e))

Spec == Init /\ [][Next]_vars /\ Fairness

-----------------------------------------------------------------------------

(* Every variable holds what dispatch and the tasks put there. *)
TypeOK ==
    /\ task \in [Events -> {"none", "filtered", "posting", "sleeping",
                            "delivered", "gave_up", "lost"}]
    /\ attempt \in [Events -> 0..Attempts]
    /\ waited \in [Events -> Seq({Nap(n) : n \in 0..(Attempts - 2)})]
    /\ received \in [Events -> 0..Attempts]

(* A receiver that got copies of an event got them for a reason: one for   *)
(* each failed post at most, and one for the post that succeeded or was    *)
(* under way when the process ended.  And a receiver that got none had its *)
(* chance: all attempts, with the whole backoff between them (86-99).      *)
CopiesExplained ==
    \A e \in Events :
        /\ received[e] <= attempt[e] + (IF task[e] \in {"delivered", "lost"} THEN 1 ELSE 0)
        /\ task[e] = "gave_up" =>
               /\ attempt[e] = Attempts
               /\ waited[e] = [n \in 1..(Attempts - 1) |-> Nap(n - 1)]

(* What is settled stays settled: once an answer came, or the task gave up *)
(* or was lost, no further copy is sent (90-91, 98-99).                    *)
SettledStays ==
    [][\A e \in Events :
          task[e] \in {"filtered", "delivered", "gave_up", "lost"} =>
              task'[e] = task[e] /\ received'[e] = received[e]]_vars

(* No delivery goes on for ever: each event that is posted is delivered or *)
(* given up in the end, or lost with the process.                          *)
DeliveryEnds ==
    \A e \in Events :
        task[e] = "posting" ~> task[e] \in {"delivered", "gave_up", "lost"}
================================================================================
