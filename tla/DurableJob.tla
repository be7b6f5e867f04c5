------------------------------ MODULE DurableJob ------------------------------
(***************************************************************************)
(* What the export queue promises of each job, with no worker, lease,      *)
(* attempt or crash in sight: the state diagram of docs/ASYNC_EXPORTS.md   *)
(* and the meaning of an accepted cancellation.                            *)
(***************************************************************************)
CONSTANTS
    Jobs,
    Resettles  \* a Boolean: a sweep may settle again a job that is settled already

VARIABLES
    state,   \* state[j]: where the job stands for its owner
    refused  \* jobs that may no longer complete: a cancellation was accepted

vars == <<state, refused>>

Init ==
    /\ state = [j \in Jobs |-> "none"]
    /\ refused = {}

Move(j, from, to) ==
    /\ state[j] \in from
    /\ state' = [state EXCEPT ![j] = to]

Submit(j) == Move(j, {"none"}, "queued") /\ UNCHANGED refused

Begin(j) == Move(j, {"queued"}, "running") /\ UNCHANGED refused

Complete(j) ==
    /\ j \notin refused
    /\ Move(j, {"running"}, "completed")
    /\ UNCHANGED refused

GiveUp(j) == Move(j, {"running"}, "failed") /\ UNCHANGED refused

\* A worker that is told to stop cancels the job it is building.
Abandon(j) == Move(j, {"running"}, "cancelled") /\ UNCHANGED refused

\* The owner cancels queued work at once and running work cooperatively.
CancelQueued(j) == Move(j, {"queued"}, "cancelled") /\ refused' = refused \cup {j}

CancelRunning(j) ==
    /\ state[j] = "running"
    /\ refused' = refused \cup {j}
    /\ UNCHANGED state

\* Retention, or the deletion of the account or the scan.
Remove(j) ==
    /\ Move(j, {"queued", "running", "completed", "failed", "cancelled"}, "removed")
    /\ UNCHANGED refused

Step(j) ==
    \/ Submit(j) \/ Begin(j) \/ Complete(j) \/ GiveUp(j) \/ Abandon(j)
    \/ CancelQueued(j) \/ CancelRunning(j) \/ Remove(j)

Settled == {"completed", "failed", "cancelled"}

\* One statement may settle or remove several jobs: their steps happen at once.
Sweep(S, to) ==
    /\ \A j \in S : \/ state[j] = "running"
                    \/ Resettles /\ state[j] \in Settled
    /\ state' = [j \in Jobs |-> IF j \in S THEN to ELSE state[j]]
    /\ UNCHANGED refused

Retire(S) ==
    /\ \A j \in S : state[j] \in Settled
    /\ state' = [j \in Jobs |-> IF j \in S THEN "removed" ELSE state[j]]
    /\ UNCHANGED refused

Next ==
    \/ \E j \in Jobs : Step(j)
    \/ \E S \in SUBSET Jobs : Sweep(S, "failed") \/ Sweep(S, "cancelled") \/ Retire(S)

Spec == Init /\ [][Next]_vars

===============================================================================
