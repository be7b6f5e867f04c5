----------------------------- MODULE OutboxPromise -----------------------------
(***************************************************************************)
(* What the notification outbox promises of each delivery, with no worker, *)
(* lease or crash in sight: at-least-once delivery as it is described in   *)
(* docs/NOTIFICATION_DELIVERY.md.  An answer may come late, from a worker  *)
(* that has lost the delivery, so one that has been accepted may still be  *)
(* tried again.                                                            *)
(***************************************************************************)
EXTENDS Naturals

CONSTANTS
    Jobs,
    Results,   \* what a try comes to
    Limit,     \* tries of one delivery
    Redooms    \* a Boolean: the sweep of exhausted deliveries may hit others

VARIABLES
    state,     \* state[j]: where the delivery stands
    tries,     \* tries[j], since it was enqueued or replayed
    answers    \* answers[j]: what they came to, unless it was transient

vars == <<state, tries, answers>>

Init ==
    /\ state = [j \in Jobs |-> "none"]
    /\ tries = [j \in Jobs |-> 0]
    /\ answers = [j \in Jobs |-> {}]

Move(S, to) == state' = [j \in Jobs |-> IF j \in S THEN to ELSE state[j]]

\* One event is enqueued for several channels.
Enqueue(S) ==
    /\ \A j \in S : state[j] = "none" /\ answers[j] = {}
    /\ Move(S, "owed")
    /\ UNCHANGED <<tries, answers>>

Try(j) ==
    /\ state[j] = "owed" /\ tries[j] < Limit
    /\ tries' = [tries EXCEPT ![j] = @ + 1]
    /\ UNCHANGED <<state, answers>>

Answer(j, r) ==
    /\ state[j] # "none"
    /\ answers' = [answers EXCEPT ![j] = @ \cup {r}]
    /\ UNCHANGED <<state, tries>>

\* What is recorded is what a delivery came to, or that none is left.
Settle(j, to) ==
    /\ state[j] = "owed"
    /\ \/ to \in {"succeeded", "skipped"} /\ to \in answers[j]
       \/ to = "dead_letter" /\ (tries[j] = Limit \/ "permanent" \in answers[j])
    /\ Move({j}, to)
    /\ UNCHANGED <<tries, answers>>

\* The last attempts of these were never heard of again.
Expire(S) ==
    /\ \A j \in S : \/ state[j] = "owed" /\ tries[j] = Limit
                    \/ Redooms /\ state[j] \notin {"none", "removed"}
    /\ Move(S, "dead_letter")
    /\ UNCHANGED <<tries, answers>>

\* An administrator gives a dead letter a new life.
Replay(j) ==
    /\ state[j] = "dead_letter"
    /\ Move({j}, "owed")
    /\ tries' = [tries EXCEPT ![j] = 0]
    /\ answers' = [answers EXCEPT ![j] = {}]

\* Retention, or the deletion of the account or the scan.
Remove(S) ==
    /\ Move(S, "removed")
    /\ tries' = [j \in Jobs |-> IF j \in S THEN 0 ELSE tries[j]]
    /\ UNCHANGED answers

Next ==
    \/ \E S \in SUBSET Jobs : Enqueue(S) \/ Expire(S) \/ Remove(S)
    \/ \E j \in Jobs :
        \/ Try(j) \/ Replay(j)
        \/ \E r \in Results : Answer(j, r)
        \/ \E to \in {"succeeded", "skipped", "dead_letter"} : Settle(j, to)

Spec == Init /\ [][Next]_vars

===============================================================================
