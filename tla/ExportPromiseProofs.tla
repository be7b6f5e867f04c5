-------------------------- MODULE ExportPromiseProofs --------------------------
(***************************************************************************)
(* The export queue implements DurableJob: every step of the table, the    *)
(* handlers and the workers is a step of one abstract job, of several      *)
(* settled by one statement, or invisible to the owner.                    *)
(***************************************************************************)
EXTENDS ExportJobsProofs

\* The abstract state the refinement mapping reads off the table.
Phases == [j \in Jobs |-> Phase(job[j].status)]

LEMMA PhaseOf ==
    /\ Phase("absent") = "none" /\ Phase("pending") = "queued"
    /\ Phase("processing") = "running" /\ Phase("completed") = "completed"
    /\ Phase("failed") = "failed" /\ Phase("cancelled") = "cancelled"
    /\ Phase("deleted") = "removed"
  BY DEF Phase

\* A statement that changes the status of one row moves one abstract job.
LEMMA OneRow ==
    ASSUME NEW j \in Jobs, \A i \in Jobs \ {j} : job'[i].status = job[i].status,
           NEW from, Phase(job[j].status) \in from
    PROVE  Promise!Move(j, from, Phase(job'[j].status))
  BY DEF Promise!Move

\* Steps that change no status and accept no cancellation are invisible.
LEMMA Invisible ==
    ASSUME \A j \in Jobs : job'[j].status = job[j].status, asked' = asked
    PROVE  UNCHANGED <<Phases, asked>>
  BY DEF Phases

LEMMA RequestImplements ==
    ASSUME TypeOK, Request PROVE [Promise!Next]_<<Phases, asked>>
<1>a. job \in [Jobs -> Row]
  BY DEF TypeOK
<1>1. ASSUME NEW u \in Users, NEW j \in Jobs, CreateInsert(u, j)
      PROVE  Promise!Submit(j)
  <2>1. job[j].status = "absent" /\ job'[j].status = "pending" /\ asked' = asked
    BY <1>1, <1>a, NewRowColumns DEF CreateInsert
  <2>2. \A i \in Jobs \ {j} : job'[i].status = job[i].status
    BY <1>1, <1>a DEF CreateInsert
  <2>3. Promise!Move(j, {"none"}, Phase(job'[j].status))
    BY <2>1, <2>2, OneRow, PhaseOf
  <2> QED BY <2>1, <2>3, PhaseOf DEF Promise!Submit
<1>2. ASSUME NEW j \in Jobs, CancelPending(j) PROVE Promise!CancelQueued(j)
  <2>1. job[j].status = "pending" /\ job'[j].status = "cancelled"
    BY <1>2, <1>a DEF CancelPending, Row
  <2>2. \A i \in Jobs \ {j} : job'[i].status = job[i].status
    BY <1>2, <1>a DEF CancelPending
  <2>3. Promise!Move(j, {"queued"}, Phase(job'[j].status))
    BY <2>1, <2>2, OneRow, PhaseOf
  <2> QED BY <1>2, <2>1, <2>3, PhaseOf DEF CancelPending, Promise!CancelQueued
<1>3. ASSUME NEW j \in Jobs, CancelProcessing(j) PROVE Promise!CancelRunning(j)
  <2>1. \A i \in Jobs : job'[i].status = job[i].status
    BY <1>3, <1>a DEF CancelProcessing, Row
  <2> QED BY <1>3, <2>1, PhaseOf DEF CancelProcessing, Promise!CancelRunning
<1>4. ASSUME NEW j \in Jobs, DeleteRow(j) PROVE Promise!Remove(j)
  <2>1. job[j].status \in {"pending", "processing", "completed", "failed", "cancelled"}
    BY <1>4, <1>a DEF DeleteRow, Exists, Row, Status, Outstanding, Terminal
  <2>2. job'[j].status = "deleted" /\ asked' = asked
    BY <1>4, <1>a, BlankColumns DEF DeleteRow
  <2>3. \A i \in Jobs \ {j} : job'[i].status = job[i].status
    BY <1>4, <1>a DEF DeleteRow
  <2>4. Phase(job[j].status) \in {"queued", "running", "completed", "failed", "cancelled"}
    BY <2>1, PhaseOf
  <2>5. Promise!Move(j, {"queued", "running", "completed", "failed", "cancelled"},
                     Phase(job'[j].status))
    BY <2>3, <2>4, OneRow
  <2> QED BY <2>2, <2>5, PhaseOf DEF Promise!Remove
<1>5. CASE job' = job /\ asked' = asked
  BY <1>5, Invisible
<1> QED BY <1>1, <1>2, <1>3, <1>4, <1>5 DEF Request, CreateCheck, CreateAbort,
        RequestCancellation, Promise!Next, Promise!Step

\* The sweeps settle what was running or, on PostgreSQL, settled meanwhile; the
\* purge removes settled jobs; a first claim begins a job.
LEMMA TickImplements ==
    ASSUME TypeOK, PickedStarted, NEW w \in Workers, Tick(w)
    PROVE  [Promise!Next]_<<Phases, asked>>
<1>a. job \in [Jobs -> Row] /\ picked[w] \subseteq Jobs /\ asked' = asked
  BY DEF TypeOK, Tick, TickPurge, PurgeExpired, TickClaim, SweepCancelled,
     SweepExhausted, Claim, ClaimLost, NothingToClaim, TickFails
<1>1. CASE job' = job
  BY <1>1, <1>a, Invisible
<1>2. CASE PurgeExpired(w) /\ job' # job
  <2> DEFINE S == {j \in Jobs : job[j].status \in Terminal /\ job[j].stale}
  <2>1. \A j \in Jobs : job'[j].status = IF j \in S THEN "deleted" ELSE job[j].status
    BY <1>2, <1>a, BlankColumns DEF PurgeExpired
  <2>2. \A j \in S : Phase(job[j].status) \in Promise!Settled
    BY PhaseOf DEF Terminal, Promise!Settled
  <2>3. Promise!Retire(S)
    BY <1>a, <2>1, <2>2, PhaseOf DEF Promise!Retire
  <2> QED BY <2>3 DEF Promise!Next
<1>3. ASSUME NEW now \in SUBSET Jobs, NEW to \in {"failed", "cancelled"},
             \A j \in now : job[j].status = "processing",
             job' = [j \in Jobs |-> IF j \in Swept(w, now) THEN Closed(job[j], to)
                                                          ELSE job[j]]
      PROVE  Promise!Next
  <2> DEFINE S == Swept(w, now)
  <2>1. S \subseteq Jobs
    BY <1>a DEF Swept
  <2>2. \A j \in Jobs : job'[j].status = IF j \in S THEN to ELSE job[j].status
    BY <1>3, <1>a, ClosedColumns
  <2>3. ASSUME NEW j \in S
        PROVE  \/ Phase(job[j].status) = "running"
               \/ Dialect = "postgres" /\ Phase(job[j].status) \in Promise!Settled
    <3>1. CASE j \in now
      BY <1>3, <3>1, PhaseOf
    <3>2. CASE Dialect = "postgres" /\ j \in picked[w] /\ Exists(j)
      <4>1. job[j].status \in {"processing", "completed", "failed", "cancelled"}
        BY <1>a, <3>2 DEF PickedStarted, Exists, Row, Status, Outstanding, Terminal
      <4> QED BY <3>2, <4>1, PhaseOf DEF Promise!Settled
    <3> QED BY <2>3, <3>1, <3>2 DEF Swept
  <2>4. Phase(to) = to
    BY PhaseOf
  <2> HIDE DEF S
  <2>5. Promise!Sweep(S, to)
    BY <1>a, <2>1, <2>2, <2>3, <2>4 DEF Promise!Sweep
  <2> QED BY <1>3, <2>1, <2>5 DEF Promise!Next
<1>4. CASE SweepCancelled(w)
  <2>1. \A j \in CancelledLeases : j \in Jobs /\ job[j].status = "processing"
    BY DEF CancelledLeases
  <2> QED BY <1>3, <1>4, <2>1 DEF SweepCancelled
<1>5. CASE SweepExhausted(w)
  <2>1. \A j \in ExhaustedLeases : j \in Jobs /\ job[j].status = "processing"
    BY DEF ExhaustedLeases
  <2> QED BY <1>3, <1>5, <2>1 DEF SweepExhausted
<1>6. ASSUME NEW j \in Jobs, Claim(w, j) \/ ClaimLost(w, j)
      PROVE  [Promise!Next]_<<Phases, asked>>
  <2>1. /\ job[j].status \in {"pending", "processing"} /\ job'[j].status = "processing"
        /\ \A i \in Jobs \ {j} : job'[i].status = job[i].status
    BY <1>6, <1>a, LeasedColumns DEF Claim, ClaimLost, Claimable
  <2>2. CASE job[j].status = "processing"
    BY <1>a, <2>1, <2>2, Invisible
  <2>3. CASE job[j].status = "pending"
    <3>1. Promise!Move(j, {"queued"}, Phase(job'[j].status))
      BY <2>1, <2>3, OneRow, PhaseOf
    <3>2. Promise!Begin(j)
      BY <1>a, <2>1, <3>1, PhaseOf DEF Promise!Begin
    <3> QED BY <3>2 DEF Promise!Next, Promise!Step
  <2> QED BY <2>1, <2>2, <2>3
<1> QED BY <1>1, <1>2, <1>4, <1>5, <1>6 DEF Tick, TickPurge, TickClaim, NothingToClaim,
           TickFails

\* A Task settles its job at most once, and never completes a refused one.
LEMMA ExecuteImplements ==
    ASSUME TypeOK, CancelHeld, NEW w \in Workers, NEW t \in tasks[w], Execute(w, t)
    PROVE  [Promise!Next]_<<Phases, asked>>
<1> DEFINE k == t.job
<1>a. job \in [Jobs -> Row] /\ k \in Jobs /\ asked' = asked
  BY DEF TypeOK, Task, Execute, Heartbeat, SeesStop, BuildFails, BuildDone, FinishSuccess,
     FinishRefused, FinishThrows, FinishFailure, FinishCancelled, FinishLost
<1>1. CASE job' = job
  BY <1>1, <1>a, Invisible
<1>2. CASE Heartbeat(w, t)
  <2>1. \A i \in Jobs : job'[i].status = job[i].status
    BY <1>2, <1>a DEF Heartbeat, Row
  <2> QED BY <1>a, <2>1, Invisible
<1>3. CASE /\ MayPublish(w, k)
           /\ job' = [job EXCEPT ![k] = Published(job[k], t.attempt)]
  <2>1. /\ job[k].status = "processing" /\ job'[k].status = "completed"
        /\ \A i \in Jobs \ {k} : job'[i].status = job[i].status
    BY <1>3, <1>a, PublishedColumns DEF MayPublish, Owns
  <2>2. k \notin asked
    BY <1>3, <2>1 DEF MayPublish, CancelHeld
  <2>3. Promise!Move(k, {"running"}, Phase(job'[k].status))
    BY <2>1, <1>a, OneRow, PhaseOf
  <2>4. Promise!Complete(k)
    BY <1>a, <2>1, <2>2, <2>3, PhaseOf DEF Promise!Complete
  <2> QED BY <1>a, <2>4 DEF Promise!Next, Promise!Step
<1>4. CASE Owns(w, k) /\ FinishFailure(w, t)
  <2>1. /\ job[k].status = "processing" /\ job'[k].status = "failed"
        /\ \A i \in Jobs \ {k} : job'[i].status = job[i].status
    BY <1>4, <1>a, ClosedColumns DEF FinishFailure, Owns
  <2>2. Promise!Move(k, {"running"}, Phase(job'[k].status))
    BY <2>1, <1>a, OneRow, PhaseOf
  <2>3. Promise!GiveUp(k)
    BY <1>a, <2>1, <2>2, PhaseOf DEF Promise!GiveUp
  <2> QED BY <1>a, <2>3 DEF Promise!Next, Promise!Step
<1>5. CASE Owns(w, k) /\ FinishCancelled(w, t)
  <2>1. /\ job[k].status = "processing" /\ job'[k].status = "cancelled"
        /\ \A i \in Jobs \ {k} : job'[i].status = job[i].status
    BY <1>5, <1>a, CancelledColumns DEF FinishCancelled, Owns
  <2>2. Promise!Move(k, {"running"}, Phase(job'[k].status))
    BY <2>1, <1>a, OneRow, PhaseOf
  <2>3. Promise!Abandon(k)
    BY <1>a, <2>1, <2>2, PhaseOf DEF Promise!Abandon
  <2> QED BY <1>a, <2>3 DEF Promise!Next, Promise!Step
<1> QED BY <1>1, <1>2, <1>3, <1>4, <1>5 DEF Execute, SeesStop, BuildFails, BuildDone,
           FinishSuccess, FinishRefused, FinishThrows, FinishFailure, FinishCancelled,
           FinishLost

LEMMA StepImplements == IInv /\ [Next]_vars => [Promise!Next]_<<Phases, asked>>
<1> SUFFICES ASSUME IInv, [Next]_vars PROVE [Promise!Next]_<<Phases, asked>>
  OBVIOUS
<1>a. TypeOK /\ CancelHeld /\ PickedStarted
  BY DEF IInv
<1>1. CASE UNCHANGED vars
  BY <1>1, Invisible DEF vars
<1>2. CASE Request
  BY <1>2, <1>a, RequestImplements
<1>3. CASE Clock
  <2>1. \A i \in Jobs : job'[i].status = job[i].status
    <3>1. job \in [Jobs -> Row]
      BY <1>a DEF TypeOK
    <3>2. ASSUME NEW j \in Jobs, LeaseExpires(j)
          PROVE  \A i \in Jobs : job'[i].status = job[i].status
      BY <3>1, <3>2 DEF LeaseExpires, Row
    <3>3. ASSUME NEW j \in Jobs, RetentionPasses(j)
          PROVE  \A i \in Jobs : job'[i].status = job[i].status
      BY <3>1, <3>3 DEF RetentionPasses, Row
    <3>4. ASSUME NEW j \in Jobs, DayPasses(j)
          PROVE  \A i \in Jobs : job'[i].status = job[i].status
      BY <3>1, <3>4 DEF DayPasses, Row
    <3> QED BY <1>3, <3>2, <3>3, <3>4 DEF Clock
  <2>2. asked' = asked
    BY <1>3 DEF Clock, LeaseExpires, RetentionPasses, DayPasses
  <2> QED BY <2>1, <2>2, Invisible
<1>4. ASSUME NEW w \in Workers, Process(w) PROVE [Promise!Next]_<<Phases, asked>>
  BY <1>4, Invisible DEF Process, Boot, Stop, Die
<1>5. ASSUME NEW w \in Workers, Tick(w) PROVE [Promise!Next]_<<Phases, asked>>
  BY <1>5, <1>a, TickImplements
<1>6. ASSUME NEW w \in Workers, NEW t \in tasks[w], Execute(w, t)
      PROVE  [Promise!Next]_<<Phases, asked>>
  BY <1>6, <1>a, ExecuteImplements
<1> QED BY <1>1, <1>2, <1>3, <1>4, <1>5, <1>6 DEF Next

\* The table, the handlers and the workers together implement DurableJob.
THEOREM QueueKeepsPromise == Spec => ImplementsPromise
<1>1. Init => Promise!Init
  <2> SUFFICES ASSUME Init PROVE Promise!Init
    OBVIOUS
  <2>1. \A j \in Jobs : job[j].status = "absent"
    BY BlankColumns DEF Init
  <2>2. \A j \in Jobs : Phase(job[j].status) = "none"
    BY <2>1, PhaseOf
  <2> QED BY <2>2 DEF Init, Promise!Init
<1>2. IInv /\ [Next]_vars => [Promise!Next]_Promise!vars
  BY StepImplements DEF Promise!vars, Phases
<1> QED BY <1>1, <1>2, Inductive, PTL DEF Spec, ImplementsPromise, Promise!Spec

===============================================================================
