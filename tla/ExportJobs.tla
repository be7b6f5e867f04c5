------------------------------ MODULE ExportJobs ------------------------------
(***************************************************************************)
(* Durable export jobs: the export_jobs table, the HTTP handlers that      *)
(* create, cancel and delete rows (ExportJobController), and one           *)
(* ExportJobWorker actor per application process that claims rows under a  *)
(* lease, builds the artifact in a Task and publishes it by compare-and-   *)
(* set.  A worker id is one process incarnation (the code draws a fresh    *)
(* UUID per process), so a restarted process is another member of Workers. *)
(*                                                                         *)
(* Every action is one SQL statement or one step of an actor; whatever     *)
(* the code does between two awaits is atomic, everything else interleaves.*)
(* Wall-clock time is abstracted: a lease, a retention window and the      *)
(* 24-hour quota window may each run out at any moment.                    *)
(***************************************************************************)
EXTENDS Naturals, FiniteSets

CONSTANTS
    Users,           \* account ids
    Workers,         \* process incarnations
    Jobs,            \* export job ids
    None,            \* SQL NULL, and "no active task"
    MaxAttempts,     \* EXPORT_MAX_ATTEMPTS
    MaxOutstanding,  \* EXPORT_MAX_OUTSTANDING_PER_USER
    MaxPerDay,       \* EXPORT_MAX_JOBS_PER_USER_PER_DAY
    Dialect          \* the SQL dialect the code branches on

ASSUME LimitsAssumption ==
    /\ MaxAttempts \in Nat \ {0}
    /\ MaxOutstanding \in Nat \ {0}
    /\ MaxPerDay \in Nat \ {0}

ASSUME NoneAssumption == None \notin Users \cup Workers \cup Jobs

ASSUME DialectAssumption == Dialect \in {"postgres", "sqlite"}

ASSUME JobsAssumption == IsFiniteSet(Jobs)

VARIABLES
    job,     \* job[j]: the export_jobs row of j
    txn,     \* txn[j]: whose create transaction has counted and will insert j
    proc,    \* proc[w]: life of the process
    loop,    \* loop[w]: where the worker's tick stands
    picked,  \* picked[w]: rows the running sweep statement has selected
    active,  \* active[w]: job of activeTask, None when activeTask is nil
    tasks,   \* tasks[w]: the export Tasks alive in the process
    asked    \* jobs whose owner's cancel request was accepted (202)

vars == <<job, txn, proc, loop, picked, active, tasks, asked>>

-------------------------------------------------------------------------------
(* Rows *)

Terminal == {"completed", "failed", "cancelled"}

Outstanding == {"pending", "processing"}

\* "absent" and "deleted" stand for the lack of a row before creation and after
\* a purge or a cascade: ids are random and never used twice.
Status == Outstanding \cup Terminal \cup {"absent", "deleted"}

\* An artifact is told apart only by the attempt that built it; 0 is NULL.
Row == [user: Users \cup {None}, status: Status, cancel: BOOLEAN,
        attempts: 0..MaxAttempts, owner: Workers \cup {None},
        lease: {"none", "live", "expired"}, artifact: 0..MaxAttempts,
        stale: BOOLEAN, recent: BOOLEAN]

Blank(s) == [user |-> None, status |-> s, cancel |-> FALSE, attempts |-> 0,
             owner |-> None, lease |-> "none", artifact |-> 0,
             stale |-> FALSE, recent |-> FALSE]

NewRow(u) == [Blank("pending") EXCEPT !.user = u, !.recent = TRUE]

Exists(j) == job[j].status \notin {"absent", "deleted"}

\* Mutant: the statement leaves lease_until behind.
ClosedKeepsLease(r, s) == [r EXCEPT !.status = s, !.owner = None, !.artifact = 0]

\* The row leaves processing without an artifact.
Closed(r, s) == [r EXCEPT !.status = s, !.owner = None, !.lease = "none",
                          !.artifact = 0]

\* WHERE status = 'processing' AND lease_owner = w
Owns(w, j) == job[j].status = "processing" /\ job[j].owner = w

OwedBy(u) == {j \in Jobs : job[j].user = u /\ job[j].status \in Outstanding}

TodayBy(u) == {j \in Jobs : job[j].user = u /\ Exists(j) /\ job[j].recent}

-------------------------------------------------------------------------------
(* Tasks and processes *)

Task == [job: Jobs, attempt: 1..MaxAttempts, stop: BOOLEAN,
         phase: {"building", "publishing", "failing", "cancelling"}]

Running(w) == proc[w] \in {"up", "stopping"}

\* activeTask?.cancel()
Signalled(w) ==
    {IF t.job = active[w] THEN [t EXCEPT !.stop = TRUE] ELSE t : t \in tasks[w]}

TypeOK ==
    /\ job \in [Jobs -> Row]
    /\ txn \in [Jobs -> Users \cup {None}]
    /\ proc \in [Workers -> {"new", "up", "stopping", "dead"}]
    /\ loop \in [Workers -> {"wait", "purge", "sweepCancelled",
                             "sweepExhausted", "claim"}]
    /\ picked \in [Workers -> SUBSET Jobs]
    /\ active \in [Workers -> Jobs \cup {None}]
    /\ tasks \in [Workers -> SUBSET Task]
    /\ asked \subseteq Jobs

Init ==
    /\ job = [j \in Jobs |-> Blank("absent")]
    /\ txn = [j \in Jobs |-> None]
    /\ proc = [w \in Workers |-> "new"]
    /\ loop = [w \in Workers |-> "wait"]
    /\ picked = [w \in Workers |-> {}]
    /\ active = [w \in Workers |-> None]
    /\ tasks = [w \in Workers |-> {}]
    /\ asked = {}

-------------------------------------------------------------------------------
(* HTTP handlers *)

\* create: BEGIN, lock the users row (SELECT ... FOR UPDATE; SQLite has one
\* writer at a time), count, and pass both quotas.
Locked(u) == \E j \in Jobs : txn[j] = u

\* Mutant: the counts are read without locking the users row.
CreateCheckUnlocked(u, j) ==
    /\ job[j].status = "absent" /\ txn[j] = None
    /\ Cardinality(OwedBy(u)) < MaxOutstanding
    /\ Cardinality(TodayBy(u)) < MaxPerDay
    /\ txn' = [txn EXCEPT ![j] = u]
    /\ UNCHANGED <<job, proc, loop, picked, active, tasks, asked>>

CreateCheck(u, j) ==
    /\ job[j].status = "absent" /\ txn[j] = None
    /\ ~Locked(u)
    /\ Cardinality(OwedBy(u)) < MaxOutstanding
    /\ Cardinality(TodayBy(u)) < MaxPerDay
    /\ txn' = [txn EXCEPT ![j] = u]
    /\ UNCHANGED <<job, proc, loop, picked, active, tasks, asked>>

\* create: INSERT and COMMIT, which releases the lock.
CreateInsert(u, j) ==
    /\ txn[j] = u
    /\ job[j].status = "absent"
    /\ job' = [job EXCEPT ![j] = NewRow(u)]
    /\ txn' = [txn EXCEPT ![j] = None]
    /\ UNCHANGED <<proc, loop, picked, active, tasks, asked>>

\* The connection or the process fails inside the transaction: ROLLBACK.
CreateAbort(j) ==
    /\ txn[j] # None
    /\ txn' = [txn EXCEPT ![j] = None]
    /\ UNCHANGED <<job, proc, loop, picked, active, tasks, asked>>

\* Mutant: the update no longer repeats the status the handler has read.
CancelPendingUnguarded(j) ==
    /\ Exists(j)
    /\ job' = [job EXCEPT ![j].status = "cancelled", ![j].cancel = TRUE]
    /\ asked' = asked \cup {j}
    /\ UNCHANGED <<txn, proc, loop, picked, active, tasks>>

\* cancel: the handler reads the status and updates only a row that still has
\* it, so the read adds nothing to the update that succeeds.
CancelPending(j) ==
    /\ job[j].status = "pending"
    /\ job' = [job EXCEPT ![j].status = "cancelled", ![j].cancel = TRUE]
    /\ asked' = asked \cup {j}
    /\ UNCHANGED <<txn, proc, loop, picked, active, tasks>>

CancelProcessing(j) ==
    /\ job[j].status = "processing"
    /\ job' = [job EXCEPT ![j].cancel = TRUE]
    /\ asked' = asked \cup {j}
    /\ UNCHANGED <<txn, proc, loop, picked, active, tasks>>

\* requestCancellation, once the update has committed, in whichever process
\* served the request.
RequestCancellation(w) ==
    /\ Running(w)
    /\ active[w] \in asked
    /\ tasks' = [tasks EXCEPT ![w] = Signalled(w)]
    /\ UNCHANGED <<job, txn, proc, loop, picked, active, asked>>

\* ON DELETE CASCADE from the user or the scan.
DeleteRow(j) ==
    /\ Exists(j)
    /\ job' = [job EXCEPT ![j] = Blank("deleted")]
    /\ UNCHANGED <<txn, proc, loop, picked, active, tasks, asked>>

-------------------------------------------------------------------------------
(* Time *)

LeaseExpires(j) ==
    /\ job[j].lease = "live"
    /\ job' = [job EXCEPT ![j].lease = "expired"]
    /\ UNCHANGED <<txn, proc, loop, picked, active, tasks, asked>>

\* expires_at is read on terminal rows only, so it may as well pass there.
RetentionPasses(j) ==
    /\ job[j].status \in Terminal /\ ~job[j].stale
    /\ job' = [job EXCEPT ![j].stale = TRUE]
    /\ UNCHANGED <<txn, proc, loop, picked, active, tasks, asked>>

DayPasses(j) ==
    /\ job[j].recent
    /\ job' = [job EXCEPT ![j].recent = FALSE]
    /\ UNCHANGED <<txn, proc, loop, picked, active, tasks, asked>>

-------------------------------------------------------------------------------
(* Processes *)

Boot(w) ==
    /\ proc[w] = "new"
    /\ proc' = [proc EXCEPT ![w] = "up"]
    /\ UNCHANGED <<job, txn, loop, picked, active, tasks, asked>>

\* Bound: the fleet always has, or will boot, one more process.
Survivor(w) == \E v \in Workers \ {w} : proc[v] \in {"new", "up"}

\* stop: cancels the loop and the active task and forgets the task.  A tick
\* already under way is not interrupted.
Stop(w) ==
    /\ proc[w] = "up"
    /\ Survivor(w)
    /\ proc' = [proc EXCEPT ![w] = "stopping"]
    /\ tasks' = [tasks EXCEPT ![w] = Signalled(w)]
    /\ active' = [active EXCEPT ![w] = None]
    /\ UNCHANGED <<job, txn, loop, picked, asked>>

\* The process ends, after stop or without it: its Tasks are gone, its rows stay.
Die(w) ==
    /\ Running(w)
    /\ Survivor(w)
    /\ proc' = [proc EXCEPT ![w] = "dead"]
    /\ loop' = [loop EXCEPT ![w] = "wait"]
    /\ picked' = [picked EXCEPT ![w] = {}]
    /\ active' = [active EXCEPT ![w] = None]
    /\ tasks' = [tasks EXCEPT ![w] = {}]
    /\ UNCHANGED <<job, txn, asked>>

-------------------------------------------------------------------------------
(* The worker's tick *)

CancelledLeases ==
    {j \in Jobs : job[j].status = "processing" /\ job[j].cancel
                                               /\ job[j].lease = "expired"}

\* Mutant: the sweep forgets attempt_count >= max_attempts.
ExhaustedOrNot ==
    {j \in Jobs : job[j].status = "processing" /\ ~job[j].cancel
                                               /\ job[j].lease = "expired"}

\* Mutant: the sweep of the last attempt is left out.
NoneExhausted == {}

ExhaustedLeases ==
    {j \in Jobs : job[j].status = "processing" /\ ~job[j].cancel
                    /\ job[j].lease = "expired" /\ job[j].attempts >= MaxAttempts}

\* Mutant: the claim forgets attempt_count < max_attempts.
ClaimableForever ==
    {j \in Jobs : /\ ~job[j].cancel
                  /\ \/ job[j].status = "pending"
                     \/ job[j].status = "processing" /\ job[j].lease = "expired"}

Claimable ==
    {j \in Jobs : /\ ~job[j].cancel
                  /\ job[j].attempts < MaxAttempts
                  /\ \/ job[j].status = "pending"
                     \/ job[j].status = "processing" /\ job[j].lease = "expired"}

\* UPDATE ... WHERE id IN (SELECT ...): PostgreSQL at READ COMMITTED runs the
\* subquery on the statement's snapshot and rechecks only the id of a row that
\* another transaction has changed since; SQLite has one writer at a time.
Swept(w, now) == IF Dialect = "postgres" THEN {j \in picked[w] : Exists(j)} ELSE now

\* The retention sweep is due; while its DELETE runs the actor is reentrant.
TickPurge(w) ==
    /\ proc[w] = "up" /\ loop[w] = "wait"
    /\ loop' = [loop EXCEPT ![w] = "purge"]
    /\ UNCHANGED <<job, txn, proc, picked, active, tasks, asked>>

\* purgeExpired, whose errors are only logged, then the rest of the tick, which
\* stops at a busy worker.
PurgeExpired(w) ==
    /\ loop[w] = "purge"
    /\ \/ job' = [j \in Jobs |-> IF job[j].status \in Terminal /\ job[j].stale
                                 THEN Blank("deleted") ELSE job[j]]
       \/ UNCHANGED job
    /\ IF active[w] = None
       THEN /\ loop' = [loop EXCEPT ![w] = "sweepCancelled"]
            /\ picked' = [picked EXCEPT ![w] = CancelledLeases]
       ELSE /\ loop' = [loop EXCEPT ![w] = "wait"]
            /\ UNCHANGED picked
    /\ UNCHANGED <<txn, proc, active, tasks, asked>>

\* Mutant: the tick does not look at activeTask.
TickClaimBusy(w) ==
    /\ proc[w] = "up" /\ loop[w] = "wait"
    /\ loop' = [loop EXCEPT ![w] = "sweepCancelled"]
    /\ picked' = [picked EXCEPT ![w] = CancelledLeases]
    /\ UNCHANGED <<job, txn, proc, active, tasks, asked>>

\* No sweep due: a worker that already has a task does not claim another.
TickClaim(w) ==
    /\ proc[w] = "up" /\ loop[w] = "wait"
    /\ active[w] = None
    /\ loop' = [loop EXCEPT ![w] = "sweepCancelled"]
    /\ picked' = [picked EXCEPT ![w] = CancelledLeases]
    /\ UNCHANGED <<job, txn, proc, active, tasks, asked>>

\* expireTerminalLeases: the first statement's update, and the snapshot of the
\* second.  The first update leaves the second's selection as it is, so what
\* another process does between the two may as well come before the first.
SweepCancelled(w) ==
    /\ loop[w] = "sweepCancelled"
    /\ job' = [j \in Jobs |-> IF j \in Swept(w, CancelledLeases)
                              THEN Closed(job[j], "cancelled") ELSE job[j]]
    /\ loop' = [loop EXCEPT ![w] = "sweepExhausted"]
    /\ picked' = [picked EXCEPT ![w] = ExhaustedLeases]
    /\ UNCHANGED <<txn, proc, active, tasks, asked>>

\* expireTerminalLeases: the second statement's update.
SweepExhausted(w) ==
    /\ loop[w] = "sweepExhausted"
    /\ job' = [j \in Jobs |-> IF j \in Swept(w, ExhaustedLeases)
                              THEN Closed(job[j], "failed") ELSE job[j]]
    /\ loop' = [loop EXCEPT ![w] = "claim"]
    /\ picked' = [picked EXCEPT ![w] = {}]
    /\ UNCHANGED <<txn, proc, active, tasks, asked>>

Leased(r, w) == [r EXCEPT !.status = "processing", !.attempts = @ + 1,
                          !.owner = w, !.lease = "live"]

\* claimNext takes the oldest claimable row that no other statement has locked
\* (SKIP LOCKED may pass over the older ones), then reads it back.
Claim(w, j) ==
    /\ loop[w] = "claim"
    /\ j \in Claimable
    /\ job' = [job EXCEPT ![j] = Leased(job[j], w)]
    /\ loop' = [loop EXCEPT ![w] = "wait"]
    /\ active' = [active EXCEPT ![w] = j]
    /\ tasks' = [tasks EXCEPT ![w] = @ \cup
                   {[job |-> j, attempt |-> job[j].attempts + 1, stop |-> FALSE,
                     phase |-> "building"]}]
    /\ UNCHANGED <<txn, proc, picked, asked>>

\* The claim commits, but reading the row back fails: a lease and no task.
ClaimLost(w, j) ==
    /\ loop[w] = "claim"
    /\ j \in Claimable
    /\ job' = [job EXCEPT ![j] = Leased(job[j], w)]
    /\ loop' = [loop EXCEPT ![w] = "wait"]
    /\ UNCHANGED <<txn, proc, picked, active, tasks, asked>>

NothingToClaim(w) ==
    /\ loop[w] = "claim"
    /\ Claimable = {}
    /\ loop' = [loop EXCEPT ![w] = "wait"]
    /\ UNCHANGED <<job, txn, proc, picked, active, tasks, asked>>

\* A sweep or the claim throws; tick logs it and returns.
TickFails(w) ==
    /\ loop[w] \in {"sweepCancelled", "sweepExhausted", "claim"}
    /\ loop' = [loop EXCEPT ![w] = "wait"]
    /\ picked' = [picked EXCEPT ![w] = {}]
    /\ UNCHANGED <<job, txn, proc, active, tasks, asked>>

-------------------------------------------------------------------------------
(* execute: one Task per claim *)

Turn(w, t, phase) ==
    tasks' = [tasks EXCEPT ![w] = (@ \ {t}) \cup {[t EXCEPT !.phase = phase]}]

\* The Task returns and finished(jobID) clears the active slot of that job.
Ends(w, t) ==
    /\ tasks' = [tasks EXCEPT ![w] = @ \ {t}]
    /\ active' = [active EXCEPT ![w] = IF @ = t.job THEN None ELSE @]

\* The progress callback: not cancelled, then the heartbeat's compare-and-set.
Heartbeat(w, t) ==
    /\ t.phase = "building" /\ ~t.stop
    /\ IF Owns(w, t.job) /\ ~job[t.job].cancel
       THEN /\ job' = [job EXCEPT ![t.job].lease = "live"]
            /\ UNCHANGED tasks
       ELSE /\ Turn(w, t, "cancelling")
            /\ UNCHANGED job
    /\ UNCHANGED <<txn, proc, loop, picked, active, asked>>

\* Task.checkCancellation throws in the callback or after the build.
SeesStop(w, t) ==
    /\ t.phase = "building" /\ t.stop
    /\ Turn(w, t, "cancelling")
    /\ UNCHANGED <<job, txn, proc, loop, picked, active, asked>>

\* An invalid reference, an unreadable field, a limit, a database error.
BuildFails(w, t) ==
    /\ t.phase = "building"
    /\ Turn(w, t, "failing")
    /\ UNCHANGED <<job, txn, proc, loop, picked, active, asked>>

\* The artifact is built and the last checkCancellation passed.
BuildDone(w, t) ==
    /\ t.phase = "building" /\ ~t.stop
    /\ Turn(w, t, "publishing")
    /\ UNCHANGED <<job, txn, proc, loop, picked, active, asked>>

Published(r, a) == [r EXCEPT !.status = "completed", !.owner = None,
                             !.lease = "none", !.artifact = a, !.stale = FALSE]

\* Mutant: finishSuccess forgets cancel_requested = FALSE.
MayPublishCancelled(w, j) == Owns(w, j)

\* The WHERE clause of finishSuccess.
MayPublish(w, j) == Owns(w, j) /\ ~job[j].cancel

FinishSuccess(w, t) ==
    /\ t.phase = "publishing"
    /\ MayPublish(w, t.job)
    /\ job' = [job EXCEPT ![t.job] = Published(@, t.attempt)]
    /\ Ends(w, t)
    /\ UNCHANGED <<txn, proc, loop, picked, asked>>

\* finishSuccess returns false: execute goes on to finishCancelled.
FinishRefused(w, t) ==
    /\ t.phase = "publishing"
    /\ ~MayPublish(w, t.job)
    /\ Turn(w, t, "cancelling")
    /\ UNCHANGED <<job, txn, proc, loop, picked, active, asked>>

\* finishSuccess throws, its update committed or not: execute goes on to
\* finishFailure.
FinishThrows(w, t) ==
    /\ t.phase = "publishing"
    /\ \/ UNCHANGED job
       \/ /\ MayPublish(w, t.job)
          /\ job' = [job EXCEPT ![t.job] = Published(@, t.attempt)]
    /\ Turn(w, t, "failing")
    /\ UNCHANGED <<txn, proc, loop, picked, active, asked>>

\* Mutant: finishFailure trusts its Task and keeps only the id in the WHERE.
FinishFailureUnowned(w, t) ==
    /\ t.phase = "failing"
    /\ job' = IF Exists(t.job)
              THEN [job EXCEPT ![t.job] = Closed(@, "failed")] ELSE job
    /\ Ends(w, t)
    /\ UNCHANGED <<txn, proc, loop, picked, asked>>

FinishFailure(w, t) ==
    /\ t.phase = "failing"
    /\ job' = IF Owns(w, t.job)
              THEN [job EXCEPT ![t.job] = Closed(@, "failed")] ELSE job
    /\ Ends(w, t)
    /\ UNCHANGED <<txn, proc, loop, picked, asked>>

FinishCancelled(w, t) ==
    /\ t.phase = "cancelling"
    /\ job' = IF Owns(w, t.job)
              THEN [job EXCEPT ![t.job] = [Closed(@, "cancelled") EXCEPT !.cancel = TRUE]]
              ELSE job
    /\ Ends(w, t)
    /\ UNCHANGED <<txn, proc, loop, picked, asked>>

\* finishFailure or finishCancelled meets a database error and swallows it.
FinishLost(w, t) ==
    /\ t.phase \in {"failing", "cancelling"}
    /\ Ends(w, t)
    /\ UNCHANGED <<job, txn, proc, loop, picked, asked>>

-------------------------------------------------------------------------------

Request ==
    \/ \E u \in Users, j \in Jobs : CreateCheck(u, j) \/ CreateInsert(u, j)
    \/ \E j \in Jobs : CreateAbort(j) \/ CancelPending(j) \/ CancelProcessing(j) \/ DeleteRow(j)
    \/ \E w \in Workers : RequestCancellation(w)

Clock == \E j \in Jobs : LeaseExpires(j) \/ RetentionPasses(j) \/ DayPasses(j)

Process(w) == Boot(w) \/ Stop(w) \/ Die(w)

Tick(w) ==
    \/ TickPurge(w) \/ PurgeExpired(w) \/ TickClaim(w)
    \/ SweepCancelled(w) \/ SweepExhausted(w)
    \/ \E j \in Jobs : Claim(w, j) \/ ClaimLost(w, j)
    \/ NothingToClaim(w) \/ TickFails(w)

Execute(w, t) ==
    \/ Heartbeat(w, t) \/ SeesStop(w, t) \/ BuildFails(w, t) \/ BuildDone(w, t)
    \/ FinishSuccess(w, t) \/ FinishRefused(w, t) \/ FinishThrows(w, t)
    \/ FinishFailure(w, t) \/ FinishCancelled(w, t) \/ FinishLost(w, t)

Next ==
    \/ Request
    \/ Clock
    \/ \E w \in Workers : Process(w) \/ Tick(w) \/ \E t \in tasks[w] : Execute(w, t)

Spec == Init /\ [][Next]_vars

-------------------------------------------------------------------------------
(* What is claimed of the queue *)

\* The table's CHECK constraints (CreateExportJobs): a lease exactly on a
\* processing row, an artifact exactly on a completed one.  A statement that
\* broke one would be rejected and its transition lost.
RowChecks ==
    \A j \in Jobs :
        /\ job[j].status = "processing" <=> job[j].owner # None
        /\ job[j].status = "processing" <=> job[j].lease # "none"
        /\ job[j].status = "completed" <=> job[j].artifact # 0

\* docs/ASYNC_EXPORTS.md: a cancelled job cannot publish an artifact.  Once the
\* owner has been told 202, no attempt, stale or current, ever publishes.
CancelledNeverPublishes == \A j \in asked : job[j].artifact = 0

\* The lease owner is the only fencing token of the compare-and-sets, and it
\* names a process, not an attempt.  It is sound because a process that is not
\* shutting down runs one Task at a time: a Task whose worker owns the row is
\* the Task of the row's last claim.
OwnerFencesAttempt ==
    \A w \in Workers : proc[w] = "up" =>
        \A t \in tasks[w] :
            /\ tasks[w] = {t}
            /\ Owns(w, t.job) => t.attempt = job[t.job].attempts

\* Job creation locks the users row before it counts, so concurrent requests
\* cannot race past the outstanding limit.
OutstandingBound == \A u \in Users : Cardinality(OwedBy(u)) <= MaxOutstanding

\* A job whose owner never asked for cancellation is given up as failed by the
\* sweep of a lease only after MaxAttempts claims; until then a lost worker's
\* job goes back to another worker.
SweepSparesRetries ==
    [][\A w \in Workers, j \in Jobs :
          SweepExhausted(w) /\ job'[j] # job[j] => job[j].attempts = MaxAttempts]_vars

\* The state diagram of docs/ASYNC_EXPORTS.md has no edge out of completed: a
\* published artifact stays until retention or a cascade deletes the row.
CompletedIsFinal ==
    [][\A j \in Jobs : job[j].status = "completed" =>
          job'[j].status \in {"completed", "deleted"}]_vars

-------------------------------------------------------------------------------
(* The inductive invariant behind them *)

\* A cancelled row stays cancelled, whoever holds its lease.
CancelHeld ==
    \A j \in asked : \/ job[j].status = "deleted"
                     \/ job[j].cancel /\ job[j].status \notin {"absent", "completed"}

\* The active slot of a running process accounts for its only Task, and a tick
\* gets as far as the sweeps and the claim only while the slot is free.
OneTask ==
    \A w \in Workers :
        /\ proc[w] = "new" => tasks[w] = {} /\ active[w] = None /\ loop[w] = "wait"
        /\ proc[w] = "up" =>
             /\ \A t \in tasks[w] : tasks[w] = {t} /\ active[w] = t.job
             /\ loop[w] \in {"sweepCancelled", "sweepExhausted", "claim"} =>
                  active[w] = None

\* What the second sweep has selected stays out of attempts.
PickedSpent ==
    \A w \in Workers : loop[w] = "sweepExhausted" =>
        \A j \in picked[w] : \/ job[j].status = "deleted"
                             \/ job[j].status # "absent" /\ job[j].attempts = MaxAttempts

\* What a sweep has selected was running once.
PickedStarted ==
    \A w \in Workers : \A j \in picked[w] : job[j].status \notin {"absent", "pending"}

\* One create transaction of an account at a time has passed the count, and the
\* count stays valid until it inserts.
CountHolds ==
    \A u \in Users, j \in Jobs : txn[j] = u =>
        /\ \A i \in Jobs : txn[i] = u => i = j
        /\ Cardinality(OwedBy(u)) < MaxOutstanding

IInv ==
    /\ TypeOK /\ RowChecks /\ CancelHeld /\ OneTask /\ OwnerFencesAttempt
    /\ PickedSpent /\ PickedStarted /\ OutstandingBound /\ CountHolds

\* The queue implements the abstract job of DurableJob: leases, retries, stale
\* workers, crashes and lost updates are invisible to the owner.  On PostgreSQL
\* the sweeps may settle a settled job again (see Swept), on SQLite never.
Phase(s) ==
    CASE s = "absent" -> "none"
      [] s = "pending" -> "queued"
      [] s = "processing" -> "running"
      [] s = "deleted" -> "removed"
      [] OTHER -> s

Promise == INSTANCE DurableJob WITH
    Resettles <- Dialect = "postgres",
    state <- [j \in Jobs |-> Phase(job[j].status)], refused <- asked

ImplementsPromise == Promise!Spec

-------------------------------------------------------------------------------
(* Liveness *)

\* What one Task does besides reporting progress.
Advances(w) ==
    \E t \in tasks[w] :
        \/ SeesStop(w, t) \/ BuildFails(w, t) \/ BuildDone(w, t)
        \/ FinishSuccess(w, t) \/ FinishRefused(w, t) \/ FinishThrows(w, t)
        \/ FinishFailure(w, t) \/ FinishCancelled(w, t) \/ FinishLost(w, t)

\* Processes boot, Tasks and ticks run on, clocks advance, and a statement that
\* is retried on every tick does not fail every time (strong fairness).
Fairness ==
    /\ \A w \in Workers :
        /\ WF_vars(Boot(w)) /\ WF_vars(Advances(w))
        /\ WF_vars(TickClaim(w)) /\ WF_vars(PurgeExpired(w))
        /\ SF_vars(SweepCancelled(w)) /\ SF_vars(SweepExhausted(w))
        /\ SF_vars(\E j \in Jobs : Claim(w, j)) /\ WF_vars(NothingToClaim(w))
    /\ \A j \in Jobs : WF_vars(LeaseExpires(j))

FairSpec == Spec /\ Fairness

\* A crash, a lost update or a stalled worker delays a job but never strands it:
\* every queued or running job is settled in the end, or removed with its owner.
EverySubmissionSettles ==
    \A j \in Jobs : job[j].status \in Outstanding ~> job[j].status \notin Outstanding

===============================================================================
