-------------------------- MODULE NotificationDelivery --------------------------
(***************************************************************************)
(* The notification outbox: notification_outbox_events with one            *)
(* notification_delivery_jobs row per channel, the producers that enqueue  *)
(* (NotificationOutbox), the administrator's replay of dead letters, and   *)
(* one NotificationDeliveryWorker per process, which claims a row under a  *)
(* lease, calls the provider and records the verdict by compare-and-set.   *)
(*                                                                         *)
(* A worker delivers inside its tick, one job at a time and without a      *)
(* heartbeat: a slow provider call may outlive its lease.  As in           *)
(* ExportJobs a worker id is one process incarnation, a statement is one   *)
(* step, and wall-clock time may pass at any moment.                       *)
(***************************************************************************)
EXTENDS Naturals

CONSTANTS
    Events,       \* outbox events; a producer's retry names the same event
    Channels,     \* webhook, discord, telegram, slack, email
    Workers,      \* process incarnations
    None,         \* SQL NULL, and "no job in hand"
    MaxAttempts,  \* NOTIFICATION_MAX_ATTEMPTS
    Batch,        \* jobs one tick may deliver; 10 in the code
    Dialect       \* the SQL dialect the code branches on

ASSUME LimitsAssumption == MaxAttempts \in Nat \ {0} /\ Batch \in Nat \ {0}

ASSUME DialectAssumption == Dialect \in {"postgres", "sqlite"}

Jobs == Events \X Channels

VARIABLES
    event,     \* event[e]: the outbox event
    job,       \* job[j]: the delivery row of j
    proc,      \* proc[w]: life of the process
    step,      \* step[w]: where the worker's tick stands
    left,      \* left[w]: deliveries the tick may still make
    picked,    \* picked[w]: rows the running DELETE or sweep has selected
    hand,      \* hand[w]: the job being delivered, as read at the claim
    answers    \* answers[j]: what deliveries of j came to, since it was enqueued or replayed

vars == <<event, job, proc, step, left, picked, hand, answers>>

-------------------------------------------------------------------------------

Outstanding == {"pending", "processing"}

Status == Outstanding \cup {"succeeded", "skipped", "dead_letter", "absent", "deleted"}

\* due: next_attempt_at has come.
Row == [status: Status, attempts: 0..MaxAttempts, owner: Workers \cup {None},
        lease: {"none", "live", "expired"}, due: BOOLEAN]

Blank(s) == [status |-> s, attempts |-> 0, owner |-> None, lease |-> "none",
             due |-> TRUE]

Exists(j) == job[j].status \notin {"absent", "deleted"}

Results == {"succeeded", "skipped", "transient", "permanent"}

\* A transient failure may be an answer that was lost.
Answers == Results \ {"transient"}

Held == [job: Jobs, attempt: 1..MaxAttempts, result: Results \cup {"none"}]

ASSUME NoneAssumption == None \notin Workers \cup Held

Owns(w, j) == job[j].status = "processing" /\ job[j].owner = w

Running(w) == proc[w] \in {"up", "stopping"}

TypeOK ==
    /\ event \in [Events -> {"absent", "stored", "old", "deleted"}]
    /\ job \in [Jobs -> Row]
    /\ proc \in [Workers -> {"new", "up", "stopping", "dead"}]
    /\ step \in [Workers -> {"wait", "purge", "sweep", "claim", "deliver", "finish"}]
    /\ left \in [Workers -> 0..Batch]
    /\ picked \in [Workers -> SUBSET (Jobs \cup Events)]
    /\ hand \in [Workers -> Held \cup {None}]
    /\ answers \in [Jobs -> SUBSET Answers]

Init ==
    /\ event = [e \in Events |-> "absent"]
    /\ job = [j \in Jobs |-> Blank("absent")]
    /\ proc = [w \in Workers |-> "new"]
    /\ step = [w \in Workers |-> "wait"]
    /\ left = [w \in Workers |-> 0]
    /\ picked = [w \in Workers |-> {}]
    /\ hand = [w \in Workers |-> None]
    /\ answers = [j \in Jobs |-> {}]

-------------------------------------------------------------------------------
(* Producers and administrators *)

\* persist: one transaction stores the event unless its idempotency key is taken
\* and adds the channels that have no row yet (ON CONFLICT DO NOTHING).
Enqueue(e, C) ==
    /\ event[e] # "deleted" /\ C # {}
    /\ event' = [event EXCEPT ![e] = IF @ = "absent" THEN "stored" ELSE @]
    /\ job' = [j \in Jobs |-> IF j \in {e} \X C /\ job[j].status = "absent"
                              THEN Blank("pending") ELSE job[j]]
    /\ UNCHANGED <<proc, step, left, picked, hand, answers>>

\* retryNotificationDelivery: the update repeats the status the handler read.
Replay(j) ==
    /\ job[j].status = "dead_letter"
    /\ job' = [job EXCEPT ![j] = Blank("pending")]
    /\ answers' = [answers EXCEPT ![j] = {}]
    /\ UNCHANGED <<event, proc, step, left, picked, hand>>

Erased(gone) ==
    /\ event' = [e \in Events |-> IF e \in gone THEN "deleted" ELSE event[e]]
    /\ job' = [j \in Jobs |-> IF j[1] \in gone THEN Blank("deleted") ELSE job[j]]

\* ON DELETE CASCADE from the user or the scan.
DeleteEvent(e) ==
    /\ event[e] \in {"stored", "old"}
    /\ Erased({e})
    /\ UNCHANGED <<proc, step, left, picked, hand, answers>>

-------------------------------------------------------------------------------
(* Time and processes *)

EventAges(e) ==
    /\ event[e] = "stored"
    /\ event' = [event EXCEPT ![e] = "old"]
    /\ UNCHANGED <<job, proc, step, left, picked, hand, answers>>

LeaseExpires(j) ==
    /\ job[j].lease = "live"
    /\ job' = [job EXCEPT ![j].lease = "expired"]
    /\ UNCHANGED <<event, proc, step, left, picked, hand, answers>>

BackoffPasses(j) ==
    /\ ~job[j].due
    /\ job' = [job EXCEPT ![j].due = TRUE]
    /\ UNCHANGED <<event, proc, step, left, picked, hand, answers>>

Boot(w) ==
    /\ proc[w] = "new"
    /\ proc' = [proc EXCEPT ![w] = "up"]
    /\ UNCHANGED <<event, job, step, left, picked, hand, answers>>

\* Bound: the fleet always has, or will boot, one more process.
Survivor(w) == \E v \in Workers \ {w} : proc[v] \in {"new", "up"}

\* stop cancels the loop; the tick under way runs to its end.
Stop(w) ==
    /\ proc[w] = "up"
    /\ Survivor(w)
    /\ proc' = [proc EXCEPT ![w] = "stopping"]
    /\ UNCHANGED <<event, job, step, left, picked, hand, answers>>

Die(w) ==
    /\ Running(w)
    /\ Survivor(w)
    /\ proc' = [proc EXCEPT ![w] = "dead"]
    /\ step' = [step EXCEPT ![w] = "wait"]
    /\ left' = [left EXCEPT ![w] = 0]
    /\ picked' = [picked EXCEPT ![w] = {}]
    /\ hand' = [hand EXCEPT ![w] = None]
    /\ UNCHANGED <<event, job, answers>>

-------------------------------------------------------------------------------
(* The worker's tick *)

\* Mutant: the sweep forgets attempt_count >= max_attempts.
ExhaustedOrNot ==
    {j \in Jobs : job[j].status = "processing" /\ job[j].lease = "expired"}

Exhausted ==
    {j \in Jobs : job[j].status = "processing" /\ job[j].lease = "expired"
                                               /\ job[j].attempts >= MaxAttempts}

Purgeable ==
    {e \in Events : /\ event[e] = "old"
                    /\ \A j \in Jobs : j[1] = e => job[j].status \notin Outstanding}

\* Mutant: the claim forgets attempt_count < max_attempts.
ClaimableForever ==
    {j \in Jobs : \/ job[j].status = "pending" /\ job[j].due
                  \/ job[j].status = "processing" /\ job[j].lease = "expired"}

\* Mutant: an expired lease is left to the sweep, which wants a final attempt.
ClaimablePending ==
    {j \in Jobs : job[j].attempts < MaxAttempts /\ job[j].status = "pending"
                                                /\ job[j].due}

Claimable ==
    {j \in Jobs : /\ job[j].attempts < MaxAttempts
                  /\ \/ job[j].status = "pending" /\ job[j].due
                     \/ job[j].status = "processing" /\ job[j].lease = "expired"}

\* On PostgreSQL a statement works on the rows its subquery selected (Swept in
\* ExportJobs); SQLite has one writer at a time.
Selected(w, now) == IF Dialect = "postgres" THEN picked[w] ELSE now

\* The tick goes on to claimNext, whose first statement is the sweep.
ToSweep(w) ==
    /\ step' = [step EXCEPT ![w] = "sweep"]
    /\ picked' = [picked EXCEPT ![w] = Exhausted]

ToWait(w) ==
    /\ step' = [step EXCEPT ![w] = "wait"]
    /\ left' = [left EXCEPT ![w] = 0]
    /\ picked' = [picked EXCEPT ![w] = {}]
    /\ hand' = [hand EXCEPT ![w] = None]

\* The hourly retention sweep is due.
TickPurge(w) ==
    /\ proc[w] = "up" /\ step[w] = "wait"
    /\ step' = [step EXCEPT ![w] = "purge"]
    /\ picked' = [picked EXCEPT ![w] = Purgeable]
    /\ UNCHANGED <<event, job, proc, left, hand, answers>>

\* purgeTerminalEvents; its errors are logged and the tick goes on.
PurgeTerminalEvents(w) ==
    /\ step[w] = "purge"
    /\ \/ Erased({e \in Selected(w, Purgeable) : e \in Events /\ event[e] # "deleted"})
       \/ UNCHANGED <<event, job>>
    /\ left' = [left EXCEPT ![w] = Batch]
    /\ ToSweep(w)
    /\ UNCHANGED <<proc, hand, answers>>

Tick(w) ==
    /\ proc[w] = "up" /\ step[w] = "wait"
    /\ left' = [left EXCEPT ![w] = Batch]
    /\ ToSweep(w)
    /\ UNCHANGED <<event, job, proc, hand, answers>>

\* The row leaves processing: the lease goes, and only a retry has to wait.
Settled(r, s) ==
    [r EXCEPT !.status = s, !.owner = None, !.lease = "none", !.due = s # "pending"]

\* expireExhaustedLeases
SweepExhausted(w) ==
    /\ step[w] = "sweep"
    /\ job' = [j \in Jobs |-> IF j \in Selected(w, Exhausted) /\ Exists(j)
                              THEN Settled(job[j], "dead_letter") ELSE job[j]]
    /\ step' = [step EXCEPT ![w] = "claim"]
    /\ picked' = [picked EXCEPT ![w] = {}]
    /\ UNCHANGED <<event, proc, left, hand, answers>>

\* Mutant: lease_owner = COALESCE(lease_owner, w), as started_at is set elsewhere.
LeasedToFirst(r, w) == [r EXCEPT !.status = "processing", !.attempts = @ + 1,
                                 !.owner = IF @ = None THEN w ELSE @, !.lease = "live"]

Leased(r, w) == [r EXCEPT !.status = "processing", !.attempts = @ + 1,
                          !.owner = w, !.lease = "live"]

\* claimNext: take one due row that no other statement has locked, read it back.
Claim(w, j) ==
    /\ step[w] = "claim"
    /\ j \in Claimable
    /\ job' = [job EXCEPT ![j] = Leased(job[j], w)]
    /\ hand' = [hand EXCEPT ![w] = [job |-> j, attempt |-> job[j].attempts + 1,
                                    result |-> "none"]]
    /\ step' = [step EXCEPT ![w] = "deliver"]
    /\ UNCHANGED <<event, proc, left, picked, answers>>

\* The claim commits, but reading the row back fails: a lease and no delivery.
ClaimLost(w, j) ==
    /\ step[w] = "claim"
    /\ j \in Claimable
    /\ job' = [job EXCEPT ![j] = Leased(job[j], w)]
    /\ ToWait(w)
    /\ UNCHANGED <<event, proc, answers>>

NothingToClaim(w) ==
    /\ step[w] = "claim"
    /\ Claimable = {}
    /\ ToWait(w)
    /\ UNCHANGED <<event, job, proc, answers>>

\* The sweep, the claim or the read of the event throws; the tick ends.
TickFails(w) ==
    /\ step[w] \in {"sweep", "claim", "deliver"}
    /\ ToWait(w)
    /\ UNCHANGED <<event, job, proc, answers>>

-------------------------------------------------------------------------------
(* One delivery *)

\* deliver: the provider takes the message, refuses it now or for good, its
\* answer is lost (transient), or the channel is not configured (skipped).  An
\* event that is gone (cascade) is an invalid reference.
Deliver(w, r) ==
    /\ step[w] = "deliver"
    /\ event[hand[w].job[1]] = "deleted" => r = "permanent"
    /\ hand' = [hand EXCEPT ![w].result = r]
    /\ answers' = [answers EXCEPT ![hand[w].job] = @ \cup ({r} \cap Answers)]
    /\ step' = [step EXCEPT ![w] = "finish"]
    /\ UNCHANGED <<event, job, proc, left, picked>>

\* Mutant: the last attempt is given away.
VerdictEarly(h) ==
    IF h.result \in {"succeeded", "skipped"} THEN h.result
    ELSE IF h.result = "transient" /\ h.attempt + 1 < MaxAttempts THEN "pending"
    ELSE "dead_letter"

\* NotificationRetryPolicy.decision
Verdict(h) ==
    IF h.result \in {"succeeded", "skipped"} THEN h.result
    ELSE IF h.result = "transient" /\ h.attempt < MaxAttempts THEN "pending"
    ELSE "dead_letter"

\* Mutant: finish updates the row by its id alone.
RecordUnowned(w) ==
    LET h == hand[w] IN
    IF Exists(h.job)
    THEN job' = [job EXCEPT ![h.job] = Settled(@, Verdict(h))]
    ELSE UNCHANGED job

\* The update of finish, when its WHERE clause matches.
Record(w) ==
    LET h == hand[w] IN
    IF Owns(w, h.job)
    THEN job' = [job EXCEPT ![h.job] = Settled(@, Verdict(h))]
    ELSE UNCHANGED job

\* processNext returns and the tick claims the next job, up to Batch of them.
Finish(w) ==
    /\ step[w] = "finish"
    /\ Record(w)
    /\ left' = [left EXCEPT ![w] = @ - 1]
    /\ hand' = [hand EXCEPT ![w] = None]
    /\ IF left[w] > 1
       THEN ToSweep(w)
       ELSE step' = [step EXCEPT ![w] = "wait"] /\ UNCHANGED picked
    /\ UNCHANGED <<event, proc, answers>>

\* finish throws, its update committed or not; the tick ends.
FinishThrows(w) ==
    /\ step[w] = "finish"
    /\ Record(w) \/ UNCHANGED job
    /\ ToWait(w)
    /\ UNCHANGED <<event, proc, answers>>

-------------------------------------------------------------------------------

Request ==
    \/ \E e \in Events : DeleteEvent(e) \/ \E C \in SUBSET Channels : Enqueue(e, C)
    \/ \E j \in Jobs : Replay(j)

Clock ==
    \/ \E e \in Events : EventAges(e)
    \/ \E j \in Jobs : LeaseExpires(j) \/ BackoffPasses(j)

Process(w) == Boot(w) \/ Stop(w) \/ Die(w)

Work(w) ==
    \/ TickPurge(w) \/ PurgeTerminalEvents(w) \/ Tick(w) \/ SweepExhausted(w)
    \/ \E j \in Jobs : Claim(w, j) \/ ClaimLost(w, j)
    \/ NothingToClaim(w) \/ TickFails(w)
    \/ \E r \in Results : Deliver(w, r)
    \/ Finish(w) \/ FinishThrows(w)

Next == Request \/ Clock \/ \E w \in Workers : Process(w) \/ Work(w)

Spec == Init /\ [][Next]_vars

-------------------------------------------------------------------------------
(* What is claimed of the outbox *)

\* The lease owner names a process, not an attempt, and no heartbeat keeps the
\* lease alive: still, a worker that owns the row it is delivering is on the
\* row's last attempt, so a verdict is never recorded for an older one.
OwnerFencesAttempt ==
    \A w \in Workers : hand[w] # None /\ Owns(w, hand[w].job) =>
        hand[w].attempt = job[hand[w].job].attempts

\* docs/NOTIFICATION_DELIVERY.md: permanent failure or max attempts, and nothing
\* else, make a dead letter; a crash alone never does.
DeadLetterIsEarned ==
    Dialect = "sqlite" =>
        \A j \in Jobs : job[j].status = "dead_letter" =>
            job[j].attempts = MaxAttempts \/ "permanent" \in answers[j]

\* A delivery recorded as succeeded stays so: no stale worker, sweep or replay
\* reopens it, so the queue never sends again what it knows was accepted.
SucceededIsFinal ==
    [][Dialect = "sqlite" =>
        \A j \in Jobs : job[j].status = "succeeded" =>
            job'[j].status \in {"succeeded", "deleted"}]_vars

\* A worker with a job in hand is inside a tick that has deliveries left.
HandInTick ==
    \A w \in Workers :
        /\ step[w] \in {"deliver", "finish"} <=> hand[w] # None
        /\ step[w] = "finish" => hand[w].result # "none"
        /\ step[w] # "wait" /\ step[w] # "purge" => left[w] > 0
        /\ proc[w] = "new" => step[w] = "wait"

\* The ghost knows what a worker that owns its row is about to record, and nothing of a
\* row that is not there yet.
AnswersKnown ==
    /\ \A j \in Jobs : job[j].status = "absent" => answers[j] = {} /\ job[j].attempts = 0
    /\ \A w \in Workers : hand[w] # None =>
        LET h == hand[w] IN
        /\ job[h.job].status # "absent"
        /\ Owns(w, h.job) /\ h.result \in Answers => h.result \in answers[h.job]

IInv == TypeOK /\ HandInTick /\ OwnerFencesAttempt /\ AnswersKnown /\ DeadLetterIsEarned

-------------------------------------------------------------------------------
(* What is promised of each delivery *)

Phase(s) ==
    CASE s = "absent" -> "none"
      [] s \in Outstanding -> "owed"
      [] s = "deleted" -> "removed"
      [] OTHER -> s

Promise == INSTANCE OutboxPromise WITH
    Results <- Answers, Limit <- MaxAttempts, Redooms <- Dialect = "postgres",
    state <- [j \in Jobs |-> Phase(job[j].status)],
    tries <- [j \in Jobs |-> job[j].attempts]

\* The table, its workers and their crashes, stale verdicts and retries keep the promise:
\* recorded as accepted or skipped only after a delivery came to that, dead only out of
\* attempts or refused for good, and what was answered before a replay does not count.
ImplementsPromise == Promise!Spec

-------------------------------------------------------------------------------
(* Liveness *)

\* Processes boot, ticks and deliveries run on, clocks advance, and a statement
\* that is retried on every tick does not fail every time (strong fairness).
Fairness ==
    /\ \A w \in Workers :
        /\ WF_vars(Boot(w)) /\ WF_vars(Tick(w)) /\ WF_vars(PurgeTerminalEvents(w))
        /\ SF_vars(SweepExhausted(w)) /\ WF_vars(NothingToClaim(w))
        /\ \A j \in Jobs : SF_vars(Claim(w, j))
        /\ WF_vars(\E r \in Results : Deliver(w, r))
        /\ WF_vars(Finish(w))
    /\ \A j \in Jobs : WF_vars(LeaseExpires(j)) /\ WF_vars(BackoffPasses(j))

FairSpec == Spec /\ Fairness

\* Every enqueued delivery is settled in the end (recorded as accepted, skipped or
\* dead) or removed with its owner, whatever crashes and lost answers do.
EveryDeliverySettles ==
    \A j \in Jobs : job[j].status \in Outstanding ~> job[j].status \notin Outstanding

=================================================================================
