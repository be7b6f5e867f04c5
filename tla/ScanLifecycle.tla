----------------------------- MODULE ScanLifecycle -----------------------------
(***************************************************************************)
(* A scan from the request that starts it to its last status: the handler  *)
(* (ScanController.scan) with its reuse of earlier scans and its reaping of *)
(* orphans, the admission gate (ScanExecutionGate), the runner             *)
(* (ScanPluginRunner.run) that is a background Task of the process, and    *)
(* the sweep that a restarted process runs (InterruptedScanSweep).         *)
(*                                                                         *)
(* Scans are process-local, and the deployment runs one process that is    *)
(* restarted when it dies: gate, requests and Tasks are those of the       *)
(* process that is up.  A request is named by the scan it would create.    *)
(* What plugins do between admission and verdict is in other modules.      *)
(***************************************************************************)
EXTENDS Naturals, FiniteSets, Sequences

CONSTANTS
    Scans,          \* scan ids
    Inputs,         \* an input together with the account that asks for it
    None,           \* no input, no scan
    MaxConcurrent,  \* SCAN_MAX_CONCURRENT
    MaxQueued,      \* SCAN_MAX_QUEUED
    MaxCrashes      \* bound: how often the process dies

ASSUME GateAssumption == MaxConcurrent \in Nat \ {0} /\ MaxQueued \in Nat

ASSUME CrashesAssumption == MaxCrashes \in Nat

ASSUME NoneAssumption == None \notin Inputs \cup Scans

ASSUME ScansAssumption == IsFiniteSet(Scans)

VARIABLES
    scan,     \* scan[s]: the row
    request,  \* request[s]: the handler that would create s
    run,      \* run[s]: the background Task of s
    active,   \* ScanExecutionGate.active
    waiters,  \* ScanExecutionGate.waiters
    up,       \* whether the process is up
    crashes,  \* how often it has died
    sweep,    \* the boot sweep: "query", "save", "done"
    older,    \* scans created before the process booted
    stuck,    \* scans the sweep has read as pending and not yet saved
    lost      \* scans whose last save failed

vars == <<scan, request, run, active, waiters, up, crashes,
          sweep, older, stuck, lost>>

gate == <<active, waiters>>
process == <<up, crashes, sweep, older, stuck>>

-------------------------------------------------------------------------------

Ended == {"completed", "failed"}

\* born orders scans as created_at does; aged: pending, and more than 180 seconds
\* old.
Row == [status: {"absent", "pending", "deleted"} \cup Ended, input: Inputs \cup {None},
        born: 0..Cardinality(Scans), aged: BOOLEAN]

Blank(status) == [status |-> status, input |-> None, born |-> 0, aged |-> FALSE]

Created == {s \in Scans : scan[s].status # "absent"}

Exists(s) == scan[s].status \notin {"absent", "deleted"}

\* A handler: the input asked for, and the pending scan it has read and will reap.
Request == [at: {"none", "reap", "reuse", "insert"},
            input: Inputs \cup {None}, orphan: Scans \cup {None}]

Idle == [at |-> "none", input |-> None, orphan |-> None]

\* The Tasks that hold one of the gate's permits, release included.
Holders == {s \in Scans : run[s] \in {"running", "releasing"}}

TypeOK ==
    /\ scan \in [Scans -> Row]
    /\ request \in [Scans -> Request]
    /\ run \in [Scans -> {"none", "admit", "waiting", "running",
                          "releasing", "over"}]
    /\ active \in Nat
    /\ waiters \in Seq(Scans)
    /\ up \in BOOLEAN
    /\ crashes \in 0..MaxCrashes
    /\ sweep \in {"query", "save", "done"}
    /\ older \subseteq Scans
    /\ stuck \subseteq Scans
    /\ lost \subseteq Scans

Init ==
    /\ scan = [s \in Scans |-> Blank("absent")]
    /\ request = [s \in Scans |-> Idle]
    /\ run = [s \in Scans |-> "none"]
    /\ active = 0 /\ waiters = <<>>
    /\ up = TRUE /\ crashes = 0
    /\ sweep = "done" /\ older = {} /\ stuck = {}
    /\ lost = {}

\* The row's save writes the status by id: it does nothing to a deleted row.
Saved(s, status) ==
    IF Exists(s) THEN [scan EXCEPT ![s].status = status, ![s].aged = FALSE] ELSE scan

Latest(S) == {s \in S : \A t \in S : scan[t].born <= scan[s].born}

-------------------------------------------------------------------------------
(* The request *)

Goes(s, step) == request' = [request EXCEPT ![s].at = step]

Answers(s) == request' = [request EXCEPT ![s] = Idle]

InFlight(i) == {t \in Scans : scan[t].status = "pending" /\ scan[t].input = i}

Reusable(i) == {t \in Scans : scan[t].status \in {"pending", "completed"} /\ scan[t].input = i}

Asked(s, at, i, orphan) ==
    request' = [request EXCEPT ![s] = [at |-> at, input |-> i, orphan |-> orphan]]

\* A request with plugins chosen by name, a bulk, a scheduled or a watch scan
\* looks at no earlier scan.
AskAnew(s, i) ==
    /\ up /\ request[s].at = "none" /\ scan[s].status = "absent"
    /\ Asked(s, "insert", i, None)
    /\ UNCHANGED <<scan, run, gate, process, lost>>

\* The latest pending scan of the same input is the answer, unless it is too old;
\* without one, the request looks for a recent scan unless it was forced.
Ask(s, i) ==
    /\ up /\ request[s].at = "none" /\ scan[s].status = "absent"
    /\ LET S == InFlight(i) IN
       \/ S = {} /\ \E at \in {"reuse", "insert"} : Asked(s, at, i, None)
       \/ \E t \in Latest(S) : ~scan[t].aged /\ Answers(s)
       \/ \E t \in Latest(S) : scan[t].aged /\ Asked(s, "reap", i, t)
    /\ UNCHANGED <<scan, run, gate, process, lost>>

\* pendingScan.status = .failed, saved or not (try?).
Reap(s) ==
    /\ request[s].at = "reap"
    /\ \/ scan' = Saved(request[s].orphan, "failed")
       \/ UNCHANGED scan
    /\ Goes(s, "reuse") \/ Goes(s, "insert")
    /\ UNCHANGED <<run, gate, process, lost>>

\* The latest scan that has not failed is answered with if it is recent and
\* withheld nothing this one would check.
Reuse(s) ==
    /\ request[s].at = "reuse"
    /\ Goes(s, "insert") \/ (Reusable(request[s].input) # {} /\ Answers(s))
    /\ UNCHANGED <<scan, run, gate, process, lost>>

\* The row is saved and a Task is started for it.
Insert(s) ==
    /\ request[s].at = "insert"
    /\ scan' = [scan EXCEPT ![s] = [status |-> "pending", input |-> request[s].input,
                                    born |-> Cardinality(Created) + 1, aged |-> FALSE]]
    /\ run' = [run EXCEPT ![s] = "admit"]
    /\ Answers(s)
    /\ UNCHANGED <<gate, process, lost>>

\* A query or the insert throws.
RequestFails(s) ==
    /\ request[s].at \in {"reuse", "insert"}
    /\ Answers(s)
    /\ UNCHANGED <<scan, run, gate, process, lost>>

-------------------------------------------------------------------------------
(* The gate and the runner *)

Turns(s, phase) == run' = [run EXCEPT ![s] = phase]

\* acquire
Admit(s) ==
    /\ run[s] = "admit" /\ active < MaxConcurrent
    /\ active' = active + 1
    /\ Turns(s, "running")
    /\ UNCHANGED <<scan, request, waiters, process, lost>>

Enqueue(s) ==
    /\ run[s] = "admit" /\ active >= MaxConcurrent /\ Len(waiters) < MaxQueued
    /\ waiters' = Append(waiters, s)
    /\ Turns(s, "waiting")
    /\ UNCHANGED <<scan, request, active, process, lost>>

Full == active >= MaxConcurrent /\ Len(waiters) >= MaxQueued

\* Mutant: a refused scan is only logged.
RejectSilently(s) ==
    /\ run[s] = "admit" /\ Full
    /\ Turns(s, "over")
    /\ UNCHANGED <<scan, request, gate, process, lost>>

\* run, when the queue is full: the scan is marked failed, if the database lets it.
Reject(s) ==
    /\ run[s] = "admit" /\ Full
    /\ \/ scan' = Saved(s, "failed") /\ UNCHANGED lost
       \/ lost' = lost \cup {s} /\ UNCHANGED scan
    /\ Turns(s, "over")
    /\ UNCHANGED <<request, gate, process>>

\* run, to its end: some plugin answered or none did.  Without a database, or
\* when the last save fails, the scan stays pending.
Finish(s) ==
    /\ run[s] = "running"
    /\ \/ \E v \in Ended : scan' = Saved(s, v) /\ UNCHANGED lost
       \/ lost' = lost \cup {s} /\ UNCHANGED scan
    /\ Turns(s, "releasing")
    /\ UNCHANGED <<request, gate, process>>

\* Mutant: the permit is handed over and counted down.
ReleaseTwice(s) ==
    /\ run[s] = "releasing"
    /\ active' = active - 1
    /\ IF waiters # <<>>
       THEN /\ run' = [run EXCEPT ![s] = "over", ![Head(waiters)] = "running"]
            /\ waiters' = Tail(waiters)
       ELSE /\ Turns(s, "over")
            /\ UNCHANGED waiters
    /\ UNCHANGED <<scan, request, process, lost>>

\* release, in a Task of its own: the permit goes to the first waiter.
Release(s) ==
    /\ run[s] = "releasing"
    /\ IF waiters # <<>>
       THEN /\ run' = [run EXCEPT ![s] = "over", ![Head(waiters)] = "running"]
            /\ waiters' = Tail(waiters)
            /\ UNCHANGED active
       ELSE /\ Turns(s, "over")
            /\ active' = IF active = 0 THEN 0 ELSE active - 1
            /\ UNCHANGED waiters
    /\ UNCHANGED <<scan, request, process, lost>>

-------------------------------------------------------------------------------
(* Time, retention, crash and restart *)

\* created_at is more than 180 seconds ago: the older scans are older still.
Ages(s) ==
    /\ scan[s].status = "pending" /\ ~scan[s].aged
    /\ scan' = [t \in Scans |-> IF scan[t].status = "pending" /\ scan[t].born <= scan[s].born
                                THEN [scan[t] EXCEPT !.aged = TRUE] ELSE scan[t]]
    /\ UNCHANGED <<request, run, gate, process, lost>>

\* Retention deletes the scan, or its account is deleted.
Delete(s) ==
    /\ Exists(s)
    /\ scan' = [scan EXCEPT ![s] = Blank("deleted")]
    /\ lost' = lost \ {s}
    /\ UNCHANGED <<request, run, gate, process>>

\* Requests, Tasks and the gate are gone; rows stay.
Crash ==
    /\ up /\ crashes < MaxCrashes
    /\ up' = FALSE /\ crashes' = crashes + 1
    /\ request' = [s \in Scans |-> Idle]
    /\ run' = [s \in Scans |-> IF run[s] = "none" THEN "none" ELSE "over"]
    /\ active' = 0 /\ waiters' = <<>>
    /\ sweep' = "done" /\ older' = {} /\ stuck' = {} /\ lost' = {}
    /\ UNCHANGED scan

Boot ==
    /\ ~up
    /\ up' = TRUE
    /\ older' = Created
    /\ sweep' = "query"
    /\ UNCHANGED <<scan, request, run, gate, crashes, stuck, lost>>

\* Mutants: the sweep takes every pending scan, or every older one.
PendingNow == {s \in Scans : scan[s].status = "pending"}

OlderRows == {s \in older : Exists(s)}

\* What the sweep looks for, when its query runs.
Interrupted == {s \in older : scan[s].status = "pending"}

SweepQuery ==
    /\ up /\ sweep = "query"
    /\ stuck' = Interrupted
    /\ sweep' = "save"
    /\ UNCHANGED <<scan, request, run, gate, up, crashes, older, lost>>

SweepSave(s) ==
    /\ sweep = "save" /\ s \in stuck
    /\ scan' = Saved(s, "failed")
    /\ stuck' = stuck \ {s}
    /\ UNCHANGED <<request, run, gate, up, crashes, sweep, older, lost>>

\* The query or a save throws, and the sweep ends there.
SweepFails ==
    /\ up /\ sweep \in {"query", "save"}
    /\ lost' = lost \cup Interrupted
    /\ stuck' = {}
    /\ sweep' = "done"
    /\ UNCHANGED <<scan, request, run, gate, up, crashes, older>>

SweepEnds ==
    /\ sweep = "save" /\ stuck = {}
    /\ sweep' = "done"
    /\ UNCHANGED <<scan, request, run, gate, up, crashes, older, stuck, lost>>

-------------------------------------------------------------------------------

Handle(s) == Reap(s) \/ Reuse(s) \/ Insert(s) \/ RequestFails(s)

Runner(s) == Admit(s) \/ Enqueue(s) \/ Reject(s) \/ Finish(s) \/ Release(s)

Sweeper == SweepQuery \/ SweepFails \/ SweepEnds \/ \E s \in Scans : SweepSave(s)

Next ==
    \/ \E s \in Scans : \/ Handle(s) \/ Runner(s) \/ Ages(s) \/ Delete(s)
                        \/ \E i \in Inputs : Ask(s, i) \/ AskAnew(s, i)
    \/ Crash \/ Boot \/ Sweeper

Spec == Init /\ [][Next]_vars

-------------------------------------------------------------------------------
(* What is claimed of scans *)

\* The gate's counter is the number of Tasks that hold a permit, never more than
\* MaxConcurrent; its queue holds exactly the waiting Tasks, each once, and only
\* while every permit is out.
PermitsConserved ==
    /\ active = Cardinality(Holders)
    /\ active <= MaxConcurrent /\ Len(waiters) <= MaxQueued
    /\ waiters # <<>> => active = MaxConcurrent
    /\ \A s \in Scans : run[s] = "waiting" <=> \E n \in 1..Len(waiters) : waiters[n] = s
    /\ \A m, n \in 1..Len(waiters) : waiters[m] = waiters[n] => m = n

\* A scan that has ended keeps its verdict, unless a request takes it for an
\* orphan or its own runner, reaped while it ran, reports after all.
VerdictStands ==
    [][\A s \in Scans : scan[s].status \in Ended =>
          \/ scan'[s].status \in {scan[s].status, "deleted"}
          \/ run[s] = "running" /\ run'[s] = "releasing"
          \/ \E r \in Scans : Reap(r) /\ request[r].orphan = s]_vars

\* The boot sweep fails no scan of this process, nor one whose Task could still
\* save a verdict: between its query and its saves, requests go on.
SweepSparesLive ==
    [][\A s \in Scans : SweepSave(s) => run[s] \in {"none", "over"} /\ s \in older]_vars

\* ScanController: "Orphaned: the runner is gone."  A request reaps no scan whose
\* plugins are still running.
ReapsOrphansOnly ==
    [][\A s \in Scans : Reap(s) /\ scan' # scan => run[request[s].orphan] # "running"]_vars

-------------------------------------------------------------------------------
(* Liveness *)

\* The process is restarted, its Tasks and handlers run on.
Fairness ==
    /\ \A s \in Scans : WF_vars(Runner(s))
    /\ WF_vars(Boot) /\ WF_vars(Sweeper)

FairSpec == Spec /\ Fairness

\* No scan stays pending for ever, through restarts and a full queue, unless the
\* save that was to end it failed.
EveryScanEnds ==
    \A s \in Scans : scan[s].status = "pending" ~> (scan[s].status # "pending" \/ s \in lost)

================================================================================
