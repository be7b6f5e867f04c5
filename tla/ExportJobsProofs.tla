--------------------------- MODULE ExportJobsProofs ---------------------------
(***************************************************************************)
(* Theorems about ExportJobs for every number of accounts, processes and   *)
(* jobs, every limit and both SQL dialects.                                *)
(***************************************************************************)
EXTENDS ExportJobs, FiniteSetTheorems, TLAPS

-------------------------------------------------------------------------------
(* Types *)

\* A row with one column changed is a row.
LEMMA ColumnTypes ==
    ASSUME NEW r \in Row
    PROVE  /\ \A v \in Users : [r EXCEPT !.user = v] \in Row
           /\ \A v \in Status : [r EXCEPT !.status = v] \in Row
           /\ \A v \in BOOLEAN : [r EXCEPT !.cancel = v] \in Row
           /\ \A v \in 0..MaxAttempts : [r EXCEPT !.attempts = v] \in Row
           /\ \A v \in Workers \cup {None} : [r EXCEPT !.owner = v] \in Row
           /\ \A v \in {"none", "live", "expired"} : [r EXCEPT !.lease = v] \in Row
           /\ \A v \in 0..MaxAttempts : [r EXCEPT !.artifact = v] \in Row
           /\ \A v \in BOOLEAN : [r EXCEPT !.stale = v] \in Row
           /\ \A v \in BOOLEAN : [r EXCEPT !.recent = v] \in Row
  BY DEF Row

LEMMA BlankType == \A s \in Status : Blank(s) \in Row
  BY LimitsAssumption DEF Blank, Row

LEMMA NewRowType == ASSUME NEW u \in Users PROVE NewRow(u) \in Row
<1> DEFINE a == Blank("pending")
           b == [a EXCEPT !.user = u]
<1>1. a \in Row
  BY BlankType DEF Status, Outstanding
<1>2. b \in Row
  BY <1>1, ColumnTypes
<1>3. [b EXCEPT !.recent = TRUE] \in Row
  BY <1>2, ColumnTypes
<1>4. NewRow(u) = [b EXCEPT !.recent = TRUE]
  BY DEF NewRow, Blank
<1> QED BY <1>3, <1>4

LEMMA ClosedType ==
    ASSUME NEW r \in Row, NEW s \in Status PROVE Closed(r, s) \in Row
<1> DEFINE a == [r EXCEPT !.status = s]
           b == [a EXCEPT !.owner = None]
           c == [b EXCEPT !.lease = "none"]
           d == [c EXCEPT !.artifact = 0]
<1>1. a \in Row
  BY ColumnTypes
<1>2. b \in Row
  BY <1>1, ColumnTypes
<1>3. c \in Row
  BY <1>2, ColumnTypes
<1>0. 0 \in 0..MaxAttempts
  BY LimitsAssumption
<1>4. d \in Row
  BY <1>3, <1>0, ColumnTypes
<1>5. Closed(r, s) = d
  BY DEF Closed, Row
<1> QED BY <1>4, <1>5

LEMMA LeasedType ==
    ASSUME NEW r \in Row, NEW w \in Workers, r.attempts < MaxAttempts
    PROVE  Leased(r, w) \in Row
<1> DEFINE a == [r EXCEPT !.status = "processing"]
           b == [a EXCEPT !.attempts = r.attempts + 1]
           c == [b EXCEPT !.owner = w]
           d == [c EXCEPT !.lease = "live"]
<1>1. a \in Row
  BY ColumnTypes DEF Status, Outstanding
<1>2. r.attempts + 1 \in 0..MaxAttempts
  BY LimitsAssumption DEF Row
<1>3. b \in Row
  BY <1>1, <1>2, ColumnTypes
<1>4. c \in Row
  BY <1>3, ColumnTypes
<1>5. d \in Row
  BY <1>4, ColumnTypes
<1>6. Leased(r, w) = d
  BY DEF Leased, Row
<1> QED BY <1>5, <1>6

LEMMA PublishedType ==
    ASSUME NEW r \in Row, NEW n \in 0..MaxAttempts PROVE Published(r, n) \in Row
<1> DEFINE a == [r EXCEPT !.status = "completed"]
           b == [a EXCEPT !.owner = None]
           c == [b EXCEPT !.lease = "none"]
           d == [c EXCEPT !.artifact = n]
           e == [d EXCEPT !.stale = FALSE]
<1>1. a \in Row
  BY ColumnTypes DEF Status, Terminal
<1>2. b \in Row
  BY <1>1, ColumnTypes
<1>3. c \in Row
  BY <1>2, ColumnTypes
<1>4. d \in Row
  BY <1>3, ColumnTypes
<1>5. e \in Row
  BY <1>4, ColumnTypes
<1>6. Published(r, n) = e
  BY DEF Published, Row
<1> QED BY <1>5, <1>6

\* What the helpers put in each column.
LEMMA BlankColumns ==
    ASSUME NEW s
    PROVE  /\ Blank(s).status = s /\ Blank(s).owner = None /\ Blank(s).lease = "none"
           /\ Blank(s).artifact = 0 /\ Blank(s).user = None /\ Blank(s).attempts = 0
           /\ Blank(s).cancel = FALSE
  BY DEF Blank

LEMMA NewRowColumns ==
    ASSUME NEW u
    PROVE  /\ NewRow(u).status = "pending" /\ NewRow(u).owner = None
           /\ NewRow(u).lease = "none" /\ NewRow(u).artifact = 0 /\ NewRow(u).user = u
  BY DEF NewRow, Blank

LEMMA ClosedColumns ==
    ASSUME NEW r \in Row, NEW s
    PROVE  /\ Closed(r, s).status = s /\ Closed(r, s).owner = None
           /\ Closed(r, s).lease = "none" /\ Closed(r, s).artifact = 0
           /\ Closed(r, s).user = r.user /\ Closed(r, s).attempts = r.attempts
           /\ Closed(r, s).cancel = r.cancel
  BY DEF Closed, Row

LEMMA LeasedColumns ==
    ASSUME NEW r \in Row, NEW w
    PROVE  /\ Leased(r, w).status = "processing" /\ Leased(r, w).owner = w
           /\ Leased(r, w).lease = "live" /\ Leased(r, w).artifact = r.artifact
           /\ Leased(r, w).user = r.user /\ Leased(r, w).attempts = r.attempts + 1
           /\ Leased(r, w).cancel = r.cancel
  BY DEF Leased, Row

LEMMA PublishedColumns ==
    ASSUME NEW r \in Row, NEW n
    PROVE  /\ Published(r, n).status = "completed" /\ Published(r, n).owner = None
           /\ Published(r, n).lease = "none" /\ Published(r, n).artifact = n
           /\ Published(r, n).user = r.user /\ Published(r, n).attempts = r.attempts
           /\ Published(r, n).cancel = r.cancel
  BY DEF Published, Row

\* A cancelled attempt is a closed row whose cancellation is recorded.
LEMMA CancelledColumns ==
    ASSUME NEW r \in Row
    PROVE  /\ [Closed(r, "cancelled") EXCEPT !.cancel = TRUE].status = "cancelled"
           /\ [Closed(r, "cancelled") EXCEPT !.cancel = TRUE].owner = None
           /\ [Closed(r, "cancelled") EXCEPT !.cancel = TRUE].lease = "none"
           /\ [Closed(r, "cancelled") EXCEPT !.cancel = TRUE].artifact = 0
           /\ [Closed(r, "cancelled") EXCEPT !.cancel = TRUE].user = r.user
           /\ [Closed(r, "cancelled") EXCEPT !.cancel = TRUE].attempts = r.attempts
           /\ [Closed(r, "cancelled") EXCEPT !.cancel = TRUE].cancel = TRUE
<1>1. Closed(r, "cancelled") \in Row
  BY ClosedType DEF Status, Terminal
<1> QED BY <1>1, ClosedColumns DEF Row

\* The helpers on tasks return tasks.
LEMMA TaskTypes ==
    ASSUME NEW t \in Task
    PROVE  /\ [t EXCEPT !.stop = TRUE] \in Task
           /\ \A p \in {"building", "publishing", "failing", "cancelling"} :
                 [t EXCEPT !.phase = p] \in Task
  BY DEF Task

LEMMA SignalledType ==
    ASSUME TypeOK, NEW w \in Workers PROVE Signalled(w) \subseteq Task
<1>1. \A t \in tasks[w] : t \in Task
  BY DEF TypeOK
<1> QED BY <1>1, TaskTypes DEF Signalled

LEMMA TurnType ==
    ASSUME TypeOK, NEW w \in Workers, NEW t \in tasks[w],
           NEW p \in {"building", "publishing", "failing", "cancelling"}, Turn(w, t, p)
    PROVE  tasks' \in [Workers -> SUBSET Task]
<1>1. t \in Task
  BY DEF TypeOK
<1>2. [t EXCEPT !.phase = p] \in Task
  BY <1>1, TaskTypes
<1> QED BY <1>2 DEF TypeOK, Turn

\* Every step keeps the types.
LEMMA TypeStep == TypeOK /\ [Next]_vars => TypeOK'
<1> SUFFICES ASSUME TypeOK, [Next]_vars PROVE TypeOK'
  OBVIOUS
<1> USE DEF TypeOK
<1>a. \A j \in Jobs : job[j] \in Row
  OBVIOUS
<1>1. CASE UNCHANGED vars
  BY <1>1 DEF vars
<1>2. CASE Request
  <2>1. ASSUME NEW u \in Users, NEW j \in Jobs, CreateCheck(u, j) PROVE TypeOK'
    BY <2>1 DEF CreateCheck
  <2>6. ASSUME NEW j \in Jobs, CreateAbort(j) PROVE TypeOK'
    BY <2>6 DEF CreateAbort
  <2>2. ASSUME NEW u \in Users, NEW j \in Jobs, CreateInsert(u, j) PROVE TypeOK'
    BY <2>2, <1>a, NewRowType DEF CreateInsert
  <2>3. ASSUME NEW j \in Jobs, CancelPending(j) \/ CancelProcessing(j) PROVE TypeOK'
    <3>1. [job[j] EXCEPT !.cancel = TRUE] \in Row
      BY <1>a, ColumnTypes
    <3>2. [job[j] EXCEPT !.status = "cancelled"] \in Row
      BY <1>a, ColumnTypes DEF Status, Terminal
    <3>3. [job[j] EXCEPT !.status = "cancelled", !.cancel = TRUE] \in Row
      <4>1. [[job[j] EXCEPT !.status = "cancelled"] EXCEPT !.cancel = TRUE] \in Row
        BY <3>2, ColumnTypes
      <4>2. [job[j] EXCEPT !.status = "cancelled", !.cancel = TRUE]
              = [[job[j] EXCEPT !.status = "cancelled"] EXCEPT !.cancel = TRUE]
        BY <1>a DEF Row
      <4> QED BY <4>1, <4>2
    <3>4. CASE CancelPending(j)
      <4>1. job' = [job EXCEPT ![j] = [@ EXCEPT !.status = "cancelled", !.cancel = TRUE]]
        BY <3>4, <1>a DEF CancelPending, Row
      <4> QED BY <3>3, <3>4, <4>1 DEF CancelPending
    <3>5. CASE CancelProcessing(j)
      BY <3>1, <3>5 DEF CancelProcessing
    <3> QED BY <2>3, <3>4, <3>5
  <2>4. ASSUME NEW j \in Jobs, DeleteRow(j) PROVE TypeOK'
    BY <2>4, <1>a, BlankType DEF DeleteRow, Status
  <2>5. ASSUME NEW w \in Workers, RequestCancellation(w) PROVE TypeOK'
    BY <2>5, SignalledType DEF RequestCancellation
  <2> QED BY <1>2, <2>1, <2>2, <2>3, <2>4, <2>5, <2>6 DEF Request
<1>3. CASE Clock
  <2>1. ASSUME NEW j \in Jobs, LeaseExpires(j) PROVE TypeOK'
    BY <2>1, <1>a, ColumnTypes DEF LeaseExpires
  <2>2. ASSUME NEW j \in Jobs, RetentionPasses(j) PROVE TypeOK'
    BY <2>2, <1>a, ColumnTypes DEF RetentionPasses
  <2>3. ASSUME NEW j \in Jobs, DayPasses(j) PROVE TypeOK'
    BY <2>3, <1>a, ColumnTypes DEF DayPasses
  <2> QED BY <1>3, <2>1, <2>2, <2>3 DEF Clock
<1>4. ASSUME NEW w \in Workers, Process(w) PROVE TypeOK'
  BY <1>4, SignalledType DEF Process, Boot, Stop, Die
<1>5. ASSUME NEW w \in Workers, Tick(w) PROVE TypeOK'
  <2>1. CASE TickPurge(w) \/ TickClaim(w) \/ NothingToClaim(w) \/ TickFails(w)
    BY <2>1 DEF TickPurge, TickClaim, NothingToClaim, TickFails, CancelledLeases
  <2>2. CASE PurgeExpired(w)
    BY <2>2, <1>a, BlankType DEF PurgeExpired, CancelledLeases, Status
  <2>3. CASE SweepCancelled(w)
    BY <2>3, <1>a, ClosedType DEF SweepCancelled, ExhaustedLeases, Status, Terminal
  <2>4. CASE SweepExhausted(w)
    BY <2>4, <1>a, ClosedType DEF SweepExhausted, Status, Terminal
  <2>5. ASSUME NEW j \in Jobs, Claim(w, j) PROVE TypeOK'
    <3>1. job[j].attempts < MaxAttempts /\ job[j].attempts \in Nat
      BY <2>5, <1>a DEF Claim, Claimable, Row
    <3>2. job[j].attempts + 1 \in 1..MaxAttempts
      BY <3>1, LimitsAssumption
    <3>3. Leased(job[j], w) \in Row
      BY <3>1, <1>a, LeasedType
    <3>4. [job |-> j, attempt |-> job[j].attempts + 1, stop |-> FALSE,
           phase |-> "building"] \in Task
      BY <3>2 DEF Task
    <3> QED BY <2>5, <3>3, <3>4 DEF Claim
  <2>6. ASSUME NEW j \in Jobs, ClaimLost(w, j) PROVE TypeOK'
    BY <2>6, <1>a, LeasedType DEF ClaimLost, Claimable
  <2> QED BY <1>5, <2>1, <2>2, <2>3, <2>4, <2>5, <2>6 DEF Tick
<1>6. ASSUME NEW w \in Workers, NEW t \in tasks[w], Execute(w, t) PROVE TypeOK'
  <2>0. t \in Task /\ t.job \in Jobs /\ t.attempt \in 0..MaxAttempts /\ job[t.job] \in Row
    BY <1>a DEF Task
  <2>1. CASE Heartbeat(w, t)
    <3>1. CASE Owns(w, t.job) /\ ~job[t.job].cancel
      BY <2>0, <2>1, <3>1, ColumnTypes DEF Heartbeat
    <3>2. CASE ~(Owns(w, t.job) /\ ~job[t.job].cancel)
      BY <2>1, <3>2, TurnType DEF Heartbeat
    <3> QED BY <3>1, <3>2
  <2>2. CASE SeesStop(w, t) \/ BuildFails(w, t) \/ BuildDone(w, t) \/ FinishRefused(w, t)
    BY <2>2, TurnType DEF SeesStop, BuildFails, BuildDone, FinishRefused
  <2>3. CASE FinishSuccess(w, t)
    BY <2>0, <2>3, PublishedType DEF FinishSuccess, Ends
  <2>4. CASE FinishThrows(w, t)
    <3>1. tasks' \in [Workers -> SUBSET Task]
      BY <2>4, TurnType DEF FinishThrows
    <3> QED BY <2>0, <2>4, <3>1, PublishedType DEF FinishThrows
  <2>5. CASE FinishFailure(w, t)
    BY <2>0, <2>5, ClosedType DEF FinishFailure, Ends, Status, Terminal
  <2>6. CASE FinishCancelled(w, t)
    <3>1. [Closed(job[t.job], "cancelled") EXCEPT !.cancel = TRUE] \in Row
      BY <2>0, ClosedType, ColumnTypes DEF Status, Terminal
    <3> QED BY <2>0, <2>6, <3>1 DEF FinishCancelled, Ends
  <2>7. CASE FinishLost(w, t)
    BY <2>7 DEF FinishLost, Ends
  <2> QED BY <1>6, <2>1, <2>2, <2>3, <2>4, <2>5, <2>6, <2>7 DEF Execute
<1> QED BY <1>1, <1>2, <1>3, <1>4, <1>5, <1>6 DEF Next

\* Every reachable state is well typed; in particular no row is ever claimed
\* more than MaxAttempts times, whatever crashes and lost answers do.
THEOREM TypeCorrect == Spec => []TypeOK
<1>1. Init => TypeOK
  BY BlankType DEF Init, TypeOK, Status
<1> QED BY <1>1, TypeStep, PTL DEF Spec

-------------------------------------------------------------------------------
(* Rows and cancellation *)

\* The table's CHECK constraints are kept by every statement.
LEMMA RowChecksStep == TypeOK /\ RowChecks /\ [Next]_vars => RowChecks'
<1> SUFFICES ASSUME TypeOK, RowChecks, [Next]_vars, NEW k \in Jobs
             PROVE  /\ job'[k].status = "processing" <=> job'[k].owner # None
                    /\ job'[k].status = "processing" <=> job'[k].lease # "none"
                    /\ job'[k].status = "completed" <=> job'[k].artifact # 0
  BY DEF RowChecks
<1> DEFINE Kept == /\ job'[k].status = "processing" <=> job'[k].owner # None
                   /\ job'[k].status = "processing" <=> job'[k].lease # "none"
                   /\ job'[k].status = "completed" <=> job'[k].artifact # 0
<1>a. /\ job \in [Jobs -> Row] /\ job[k] \in Row
      /\ job[k].status = "processing" <=> job[k].owner # None
      /\ job[k].status = "processing" <=> job[k].lease # "none"
      /\ job[k].status = "completed" <=> job[k].artifact # 0
  BY DEF TypeOK, RowChecks
<1>b. \A w \in Workers : w # None
  BY NoneAssumption
<1>1. CASE job' = job
  BY <1>1, <1>a
<1>2. CASE Request
  <2>1. CASE job' = job
    BY <2>1, <1>a
  <2>2. ASSUME NEW u \in Users, NEW j \in Jobs, CreateInsert(u, j) PROVE Kept
    BY <2>2, <1>a, NewRowColumns DEF CreateInsert
  <2>3. ASSUME NEW j \in Jobs, CancelPending(j) \/ CancelProcessing(j) PROVE Kept
    BY <2>3, <1>a DEF CancelPending, CancelProcessing, Row
  <2>4. ASSUME NEW j \in Jobs, DeleteRow(j) PROVE Kept
    BY <2>4, <1>a, BlankColumns DEF DeleteRow
  <2> QED BY <1>2, <2>1, <2>2, <2>3, <2>4 DEF Request, CreateCheck, CreateAbort,
             RequestCancellation
<1>3. CASE Clock
  BY <1>3, <1>a DEF Clock, LeaseExpires, RetentionPasses, DayPasses, Row
<1>4. ASSUME NEW w \in Workers, Process(w) PROVE Kept
  BY <1>4, <1>a DEF Process, Boot, Stop, Die
<1>5. ASSUME NEW w \in Workers, Tick(w) PROVE Kept
  <2>1. CASE TickPurge(w) \/ TickClaim(w) \/ NothingToClaim(w) \/ TickFails(w)
    BY <2>1, <1>a DEF TickPurge, TickClaim, NothingToClaim, TickFails
  <2>2. CASE PurgeExpired(w)
    <3>1. CASE job' = job
      BY <3>1, <1>a
    <3>2. CASE job' # job
      <4>1. job' = [j \in Jobs |-> IF job[j].status \in Terminal /\ job[j].stale
                                  THEN Blank("deleted") ELSE job[j]]
        BY <2>2, <3>2 DEF PurgeExpired
      <4> QED BY <4>1, <1>a, BlankColumns
    <3> QED BY <3>1, <3>2
  <2>3. CASE SweepCancelled(w) \/ SweepExhausted(w)
    BY <2>3, <1>a, ClosedColumns DEF SweepCancelled, SweepExhausted
  <2>4. ASSUME NEW j \in Jobs, Claim(w, j) \/ ClaimLost(w, j) PROVE Kept
    BY <2>4, <1>a, <1>b, LeasedColumns DEF Claim, ClaimLost, Claimable
  <2> QED BY <1>5, <2>1, <2>2, <2>3, <2>4 DEF Tick
<1>6. ASSUME NEW w \in Workers, NEW t \in tasks[w], Execute(w, t) PROVE Kept
  <2>0. t.job \in Jobs /\ t.attempt # 0
    BY DEF TypeOK, Task
  <2>1. CASE job' = job
    BY <2>1, <1>a
  <2>2. CASE Heartbeat(w, t)
    BY <2>0, <2>2, <1>a DEF Heartbeat, Owns, Row
  <2>3. CASE FinishSuccess(w, t) \/ FinishThrows(w, t)
    BY <2>0, <2>3, <1>a, PublishedColumns DEF FinishSuccess, FinishThrows
  <2>4. CASE FinishFailure(w, t)
    BY <2>0, <2>4, <1>a, ClosedColumns DEF FinishFailure
  <2>5. CASE FinishCancelled(w, t)
    BY <2>0, <2>5, <1>a, CancelledColumns DEF FinishCancelled
  <2> QED BY <1>6, <2>1, <2>2, <2>3, <2>4, <2>5 DEF Execute, SeesStop, BuildFails,
             BuildDone, FinishRefused, FinishLost
<1> QED BY <1>1, <1>2, <1>3, <1>4, <1>5, <1>6 DEF Next, vars

\* No step forgets an accepted cancellation.
LEMMA CancelHeldStep == TypeOK /\ CancelHeld /\ [Next]_vars => CancelHeld'
<1> SUFFICES ASSUME TypeOK, CancelHeld, [Next]_vars, NEW k \in asked'
             PROVE  \/ job'[k].status = "deleted"
                    \/ job'[k].cancel /\ job'[k].status \notin {"absent", "completed"}
  BY DEF CancelHeld
<1> DEFINE Was == \/ job[k].status = "deleted"
                  \/ job[k].cancel /\ job[k].status \notin {"absent", "completed"}
           Held == \/ job'[k].status = "deleted"
                   \/ job'[k].cancel /\ job'[k].status \notin {"absent", "completed"}
<1>a. job \in [Jobs -> Row] /\ asked \subseteq Jobs
  BY DEF TypeOK
<1>b. k \in asked => k \in Jobs /\ job[k] \in Row /\ Was
  BY <1>a DEF CancelHeld
<1>1. CASE UNCHANGED vars
  BY <1>1, <1>b DEF vars
<1>2. CASE Request
  <2>1. ASSUME NEW j \in Jobs, CancelPending(j) \/ CancelProcessing(j) PROVE Held
    BY <2>1, <1>a, <1>b DEF CancelPending, CancelProcessing, Row
  <2>2. CASE job' = job /\ asked' = asked
    BY <2>2, <1>b
  <2>3. ASSUME NEW u \in Users, NEW j \in Jobs, CreateInsert(u, j) PROVE Held
    BY <2>3, <1>a, <1>b DEF CreateInsert
  <2>4. ASSUME NEW j \in Jobs, DeleteRow(j) PROVE Held
    BY <2>4, <1>a, <1>b, BlankColumns DEF DeleteRow
  <2> QED BY <1>2, <2>1, <2>2, <2>3, <2>4 DEF Request, CreateCheck, CreateAbort,
             RequestCancellation
<1>3. CASE Clock
  BY <1>3, <1>a, <1>b DEF Clock, LeaseExpires, RetentionPasses, DayPasses, Row
<1>4. ASSUME NEW w \in Workers, Process(w) PROVE Held
  BY <1>4, <1>b DEF Process, Boot, Stop, Die
<1>5. ASSUME NEW w \in Workers, Tick(w) PROVE Held
  <2>1. CASE TickPurge(w) \/ TickClaim(w) \/ NothingToClaim(w) \/ TickFails(w)
    BY <2>1, <1>b DEF TickPurge, TickClaim, NothingToClaim, TickFails
  <2>2. CASE PurgeExpired(w)
    BY <2>2, <1>a, <1>b, BlankColumns DEF PurgeExpired
  <2>3. CASE SweepCancelled(w) \/ SweepExhausted(w)
    <3>1. k \in Jobs /\ job[k] \in Row /\ Was
      BY <2>3, <1>b DEF SweepCancelled, SweepExhausted
    <3>2. \/ job'[k] = job[k] \/ job'[k] = Closed(job[k], "cancelled")
          \/ job'[k] = Closed(job[k], "failed")
      BY <2>3, <3>1 DEF SweepCancelled, SweepExhausted
    <3>3. CASE job[k].status = "deleted"
      <4>1. ~Exists(k) /\ k \notin CancelledLeases /\ k \notin ExhaustedLeases
        BY <3>3 DEF Exists, CancelledLeases, ExhaustedLeases
      <4>2. k \notin Swept(w, CancelledLeases) /\ k \notin Swept(w, ExhaustedLeases)
        BY <4>1 DEF Swept
      <4> QED BY <2>3, <3>1, <3>3, <4>2 DEF SweepCancelled, SweepExhausted
    <3>4. CASE job[k].status # "deleted"
      BY <3>1, <3>2, <3>4, ClosedColumns
    <3> QED BY <3>3, <3>4
  <2>4. ASSUME NEW j \in Jobs, Claim(w, j) \/ ClaimLost(w, j) PROVE Held
    BY <2>4, <1>a, <1>b, LeasedColumns DEF Claim, ClaimLost, Claimable
  <2> QED BY <1>5, <2>1, <2>2, <2>3, <2>4 DEF Tick
<1>6. ASSUME NEW w \in Workers, NEW t \in tasks[w], Execute(w, t) PROVE Held
  <2>0. t.job \in Jobs
    BY DEF TypeOK, Task
  <2>1. CASE SeesStop(w, t) \/ BuildFails(w, t) \/ BuildDone(w, t)
             \/ FinishRefused(w, t) \/ FinishLost(w, t)
    BY <2>1, <1>b DEF SeesStop, BuildFails, BuildDone, FinishRefused, FinishLost
  <2>2. CASE Heartbeat(w, t)
    BY <2>0, <2>2, <1>a, <1>b DEF Heartbeat, Row
  <2>3. CASE FinishSuccess(w, t) \/ FinishThrows(w, t)
    BY <2>0, <2>3, <1>a, <1>b DEF FinishSuccess, FinishThrows, MayPublish, Owns
  <2>4. CASE FinishFailure(w, t)
    BY <2>0, <2>4, <1>a, <1>b, ClosedColumns DEF FinishFailure, Owns
  <2>5. CASE FinishCancelled(w, t)
    BY <2>0, <2>5, <1>a, <1>b, CancelledColumns DEF FinishCancelled, Owns
  <2> QED BY <1>6, <2>1, <2>2, <2>3, <2>4, <2>5 DEF Execute
<1> QED BY <1>1, <1>2, <1>3, <1>4, <1>5, <1>6 DEF Next

-------------------------------------------------------------------------------
(* Tasks and leases *)

\* A process that is up and whose active slot is free has no Task.
LEMMA FreeSlot ==
    ASSUME TypeOK, OneTask, NEW w \in Workers, proc[w] = "up", active[w] = None
    PROVE  tasks[w] = {}
<1>1. \A t \in tasks[w] : t.job \in Jobs
  BY DEF TypeOK, Task
<1> QED BY <1>1, NoneAssumption DEF OneTask

\* The steps of a tick leave Tasks and the slot alone, except for the claim.
LEMMA OneTaskTick ==
    ASSUME TypeOK, OneTask, NEW v \in Workers, Tick(v) PROVE OneTask'
<1>a. /\ loop \in [Workers -> {"wait", "purge", "sweepCancelled", "sweepExhausted", "claim"}]
      /\ active \in [Workers -> Jobs \cup {None}]
      /\ tasks \in [Workers -> SUBSET Task]
  BY DEF TypeOK
<1>1. CASE TickPurge(v) \/ PurgeExpired(v) \/ TickClaim(v) \/ SweepCancelled(v)
           \/ SweepExhausted(v) \/ NothingToClaim(v) \/ TickFails(v)
  BY <1>1, <1>a DEF OneTask, TickPurge, PurgeExpired, TickClaim, SweepCancelled,
     SweepExhausted, NothingToClaim, TickFails
<1>2. ASSUME NEW j \in Jobs, Claim(v, j) PROVE OneTask'
  <2> DEFINE n == [job |-> j, attempt |-> job[j].attempts + 1, stop |-> FALSE,
                   phase |-> "building"]
  <2>1. /\ proc' = proc /\ loop[v] = "claim"
        /\ loop' = [loop EXCEPT ![v] = "wait"] /\ active' = [active EXCEPT ![v] = j]
        /\ tasks' = [tasks EXCEPT ![v] = tasks[v] \cup {n}]
    BY <1>2, <1>a DEF Claim
  <2>2. proc[v] # "new"
    BY <2>1 DEF OneTask
  <2>3. proc[v] = "up" => tasks[v] = {}
    BY <2>1, FreeSlot DEF OneTask
  <2>4. n.job = j
    OBVIOUS
  <2>5. proc[v] = "up" => tasks'[v] = {n} /\ active'[v] = j /\ loop'[v] = "wait"
    BY <2>1, <2>3, <1>a
  <2>6. \A w \in Workers \ {v} : tasks'[w] = tasks[w] /\ active'[w] = active[w]
                                                    /\ loop'[w] = loop[w]
    BY <2>1, <1>a
  <2> HIDE DEF n
  <2> QED BY <2>1, <2>2, <2>4, <2>5, <2>6 DEF OneTask
<1>3. ASSUME NEW j \in Jobs, ClaimLost(v, j) PROVE OneTask'
  BY <1>3, <1>a DEF OneTask, ClaimLost
<1> QED BY <1>1, <1>2, <1>3 DEF Tick

\* A Task changes phase in place, or ends and frees the slot it holds.
LEMMA OneTaskExecute ==
    ASSUME TypeOK, OneTask, NEW v \in Workers, NEW t \in tasks[v], Execute(v, t)
    PROVE  OneTask'
<1>a. /\ active \in [Workers -> Jobs \cup {None}]
      /\ tasks \in [Workers -> SUBSET Task]
      /\ t \in Task /\ proc' = proc /\ loop' = loop
  BY DEF TypeOK, Execute, Heartbeat, SeesStop, BuildFails, BuildDone, FinishSuccess,
     FinishRefused, FinishThrows, FinishFailure, FinishCancelled, FinishLost
<1>b. proc[v] # "new"
  BY DEF OneTask
<1>1. CASE tasks' = tasks /\ active' = active
  BY <1>1, <1>a DEF OneTask
<1>2. ASSUME NEW p \in {"building", "publishing", "failing", "cancelling"},
             Turn(v, t, p), active' = active PROVE OneTask'
  <2> DEFINE n == [t EXCEPT !.phase = p]
  <2>1. n.job = t.job
    BY <1>a DEF Task
  <2>2. proc[v] = "up" => tasks[v] = {t} /\ active[v] = t.job
    BY DEF OneTask
  <2>3. proc[v] = "up" => tasks'[v] = {n}
    BY <1>2, <2>2, <1>a DEF Turn
  <2>4. \A w \in Workers \ {v} : tasks'[w] = tasks[w]
    BY <1>2, <1>a DEF Turn
  <2> HIDE DEF n
  <2> QED BY <1>2, <1>a, <1>b, <2>1, <2>2, <2>3, <2>4 DEF OneTask
<1>3. CASE Ends(v, t)
  <2>1. proc[v] = "up" => tasks[v] = {t}
    BY DEF OneTask
  <2>2. proc[v] = "up" => tasks'[v] = {}
    BY <1>3, <2>1, <1>a DEF Ends
  <2>3. \A w \in Workers \ {v} : tasks'[w] = tasks[w] /\ active'[w] = active[w]
    BY <1>3, <1>a DEF Ends
  <2>4. active[v] = None => active'[v] = None
    BY <1>3, <1>a DEF Ends
  <2> QED BY <1>a, <1>b, <2>2, <2>3, <2>4 DEF OneTask
<1> QED BY <1>1, <1>2, <1>3 DEF Execute, Heartbeat, SeesStop, BuildFails, BuildDone,
           FinishSuccess, FinishRefused, FinishThrows, FinishFailure, FinishCancelled,
           FinishLost

LEMMA OneTaskStep == TypeOK /\ OneTask /\ [Next]_vars => OneTask'
<1> SUFFICES ASSUME TypeOK, OneTask, [Next]_vars PROVE OneTask'
  OBVIOUS
<1>a. /\ proc \in [Workers -> {"new", "up", "stopping", "dead"}]
      /\ active \in [Workers -> Jobs \cup {None}]
      /\ tasks \in [Workers -> SUBSET Task]
      /\ loop \in [Workers -> {"wait", "purge", "sweepCancelled", "sweepExhausted", "claim"}]
  BY DEF TypeOK
<1>1. CASE proc' = proc /\ loop' = loop /\ active' = active /\ tasks' = tasks
  BY <1>1 DEF OneTask
<1>2. ASSUME NEW v \in Workers, RequestCancellation(v) PROVE OneTask'
  <2>1. /\ tasks' = [tasks EXCEPT ![v] = Signalled(v)] /\ proc[v] # "new"
        /\ UNCHANGED <<proc, loop, active>>
    BY <1>2 DEF RequestCancellation, Running
  <2>2. ASSUME proc[v] = "up", NEW s \in Signalled(v)
        PROVE  Signalled(v) = {s} /\ active[v] = s.job
    <3>1. PICK t \in tasks[v] :
              s = IF t.job = active[v] THEN [t EXCEPT !.stop = TRUE] ELSE t
      BY <2>2 DEF Signalled
    <3>2. tasks[v] = {t} /\ active[v] = t.job /\ t \in Task
      BY <2>2, <3>1, <1>a DEF OneTask
    <3>3. s.job = t.job
      BY <3>1, <3>2 DEF Task
    <3> QED BY <3>1, <3>2, <3>3 DEF Signalled
  <2>3. tasks'[v] = Signalled(v) /\ \A w \in Workers \ {v} : tasks'[w] = tasks[w]
    BY <2>1, <1>a
  <2> QED BY <2>1, <2>2, <2>3 DEF OneTask
<1>3. ASSUME NEW v \in Workers, Process(v) PROVE OneTask'
  <2>1. CASE Boot(v)
    BY <2>1, <1>a DEF OneTask, Boot
  <2>2. CASE Stop(v) \/ Die(v)
    <3>1. proc'[v] \notin {"new", "up"}
      BY <2>2, <1>a DEF Stop, Die
    <3>2. \A w \in Workers \ {v} :
             /\ proc'[w] = proc[w] /\ tasks'[w] = tasks[w] /\ active'[w] = active[w]
             /\ loop'[w] = loop[w]
      BY <2>2, <1>a DEF Stop, Die
    <3> QED BY <3>1, <3>2 DEF OneTask
  <2> QED BY <1>3, <2>1, <2>2 DEF Process
<1>4. ASSUME NEW v \in Workers, Tick(v) PROVE OneTask'
  BY <1>4, OneTaskTick
<1>5. ASSUME NEW v \in Workers, NEW t \in tasks[v], Execute(v, t) PROVE OneTask'
  BY <1>5, OneTaskExecute
<1> QED BY <1>1, <1>2, <1>3, <1>4, <1>5 DEF Next, vars, Request, CreateCheck, CreateAbort,
           CreateInsert, CancelPending, CancelProcessing, DeleteRow, Clock, LeaseExpires,
           RetentionPasses, DayPasses

\* A row that is processing after a step either was held by the same owner for
\* the same attempt, or has just been claimed.
LEMMA OwnershipMoves ==
    ASSUME TypeOK, [Next]_vars, NEW k \in Jobs, job'[k].status = "processing"
    PROVE  \/ /\ job[k].status = "processing"
              /\ job'[k].owner = job[k].owner /\ job'[k].attempts = job[k].attempts
           \/ \E w \in Workers : Claim(w, k) \/ ClaimLost(w, k)
<1> DEFINE Kept == /\ job[k].status = "processing"
                   /\ job'[k].owner = job[k].owner /\ job'[k].attempts = job[k].attempts
<1>a. job \in [Jobs -> Row] /\ job[k] \in Row
  BY DEF TypeOK
<1>1. CASE job' = job
  BY <1>1
<1>2. CASE Request
  <2>1. CASE job' = job
    BY <2>1
  <2>2. ASSUME NEW u \in Users, NEW j \in Jobs, CreateInsert(u, j) PROVE Kept
    BY <2>2, <1>a, NewRowColumns DEF CreateInsert
  <2>3. ASSUME NEW j \in Jobs, CancelPending(j) \/ CancelProcessing(j) PROVE Kept
    BY <2>3, <1>a DEF CancelPending, CancelProcessing, Row
  <2>4. ASSUME NEW j \in Jobs, DeleteRow(j) PROVE Kept
    BY <2>4, <1>a, BlankColumns DEF DeleteRow
  <2> QED BY <1>2, <2>1, <2>2, <2>3, <2>4 DEF Request, CreateCheck, CreateAbort,
             RequestCancellation
<1>3. CASE Clock
  BY <1>3, <1>a DEF Clock, LeaseExpires, RetentionPasses, DayPasses, Row
<1>4. ASSUME NEW w \in Workers, Process(w) PROVE Kept
  BY <1>4 DEF Process, Boot, Stop, Die
<1>5. ASSUME NEW w \in Workers, Tick(w)
      PROVE  Kept \/ Claim(w, k) \/ ClaimLost(w, k)
  <2>1. CASE TickPurge(w) \/ TickClaim(w) \/ NothingToClaim(w) \/ TickFails(w)
    BY <2>1 DEF TickPurge, TickClaim, NothingToClaim, TickFails
  <2>2. CASE PurgeExpired(w)
    <3>1. CASE job' = job
      BY <3>1
    <3>2. CASE job' # job
      <4>1. job' = [j \in Jobs |-> IF job[j].status \in Terminal /\ job[j].stale
                                  THEN Blank("deleted") ELSE job[j]]
        BY <2>2, <3>2 DEF PurgeExpired
      <4> QED BY <4>1, BlankColumns
    <3> QED BY <3>1, <3>2
  <2>3. CASE SweepCancelled(w) \/ SweepExhausted(w)
    BY <2>3, <1>a, ClosedColumns DEF SweepCancelled, SweepExhausted
  <2>4. ASSUME NEW j \in Jobs, j # k, Claim(w, j) \/ ClaimLost(w, j) PROVE Kept
    BY <2>4, <1>a DEF Claim, ClaimLost
  <2> QED BY <1>5, <2>1, <2>2, <2>3, <2>4 DEF Tick
<1>6. ASSUME NEW w \in Workers, NEW t \in tasks[w], Execute(w, t) PROVE Kept
  <2>0. t.job \in Jobs
    BY DEF TypeOK, Task
  <2>1. CASE job' = job
    BY <2>1
  <2>2. CASE Heartbeat(w, t)
    BY <2>0, <2>2, <1>a DEF Heartbeat, Row
  <2>3. CASE FinishSuccess(w, t) \/ FinishThrows(w, t)
    BY <2>0, <2>3, <1>a, PublishedColumns DEF FinishSuccess, FinishThrows
  <2>4. CASE FinishFailure(w, t)
    BY <2>0, <2>4, <1>a, ClosedColumns DEF FinishFailure
  <2>5. CASE FinishCancelled(w, t)
    BY <2>0, <2>5, <1>a, CancelledColumns DEF FinishCancelled
  <2> QED BY <1>6, <2>1, <2>2, <2>3, <2>4, <2>5 DEF Execute, SeesStop, BuildFails,
             BuildDone, FinishRefused, FinishLost
<1> QED BY <1>1, <1>2, <1>3, <1>4, <1>5, <1>6 DEF Next, vars

\* A Task alive after a step was alive before it, for the same job and attempt,
\* or has just been started by a claim.
LEMMA TaskMoves ==
    ASSUME TypeOK, [Next]_vars, NEW w \in Workers, NEW s \in tasks'[w]
    PROVE  \/ \E t \in tasks[w] : s.job = t.job /\ s.attempt = t.attempt
           \/ \E j \in Jobs : /\ Claim(w, j)
                              /\ s.job = j /\ s.attempt = job[j].attempts + 1
<1> DEFINE Old == \E t \in tasks[w] : s.job = t.job /\ s.attempt = t.attempt
<1>a. tasks \in [Workers -> SUBSET Task] /\ tasks[w] \subseteq Task
  BY DEF TypeOK
<1>1. CASE tasks'[w] = tasks[w]
  BY <1>1
<1>2. ASSUME NEW v \in Workers, tasks' = [tasks EXCEPT ![v] = Signalled(v)] PROVE Old
  BY <1>2, <1>a DEF Signalled, Task
<1>3. ASSUME NEW v \in Workers, Process(v) PROVE Old
  BY <1>1, <1>2, <1>3, <1>a DEF Process, Boot, Stop, Die
<1>4. ASSUME NEW v \in Workers, NEW t \in tasks[v], Execute(v, t) PROVE Old
  <2>1. CASE tasks' = tasks \/ Ends(v, t)
    BY <2>1, <1>a DEF Ends
  <2>2. ASSUME NEW p, Turn(v, t, p) PROVE Old
    BY <2>2, <1>a DEF Turn, Task
  <2> QED BY <1>4, <2>1, <2>2 DEF Execute, Heartbeat, SeesStop, BuildFails, BuildDone,
             FinishSuccess, FinishRefused, FinishThrows, FinishFailure,
             FinishCancelled, FinishLost
<1>5. ASSUME NEW v \in Workers, NEW j \in Jobs, Claim(v, j)
      PROVE  \/ Old
             \/ Claim(w, j) /\ s.job = j /\ s.attempt = job[j].attempts + 1
  <2> DEFINE n == [job |-> j, attempt |-> job[j].attempts + 1, stop |-> FALSE,
                   phase |-> "building"]
  <2>1. n.job = j /\ n.attempt = job[j].attempts + 1
    OBVIOUS
  <2>2. tasks' = [tasks EXCEPT ![v] = tasks[v] \cup {n}]
    BY <1>5, <1>a DEF Claim
  <2> HIDE DEF n
  <2>3. s \in tasks[w] \/ (s = n /\ v = w)
    BY <2>2, <1>a
  <2> QED BY <1>5, <2>1, <2>3
<1>6. ASSUME NEW v \in Workers, Tick(v), \A j \in Jobs : ~Claim(v, j) PROVE Old
  BY <1>6 DEF Tick, TickPurge, PurgeExpired, TickClaim, SweepCancelled, SweepExhausted,
     ClaimLost, NothingToClaim, TickFails
<1> QED BY <1>1, <1>2, <1>3, <1>4, <1>5, <1>6 DEF Next, vars, Request, CreateCheck,
           CreateAbort, CreateInsert, CancelPending, CancelProcessing, DeleteRow,
           RequestCancellation, Clock, LeaseExpires, RetentionPasses, DayPasses

\* Only the life of a process changes proc.
LEMMA ProcMoves ==
    ASSUME [Next]_vars PROVE proc' = proc \/ \E v \in Workers : Process(v)
<1>1. Request \/ Clock => proc' = proc
  BY DEF Request, CreateCheck, CreateAbort, CreateInsert, CancelPending,
     CancelProcessing, DeleteRow, RequestCancellation, Clock, LeaseExpires,
     RetentionPasses, DayPasses
<1>2. ASSUME NEW v \in Workers, Tick(v) PROVE proc' = proc
  BY <1>2 DEF Tick, TickPurge, PurgeExpired, TickClaim, SweepCancelled, SweepExhausted,
     Claim, ClaimLost, NothingToClaim, TickFails
<1>3. ASSUME NEW v \in Workers, NEW t \in tasks[v], Execute(v, t) PROVE proc' = proc
  BY <1>3 DEF Execute, Heartbeat, SeesStop, BuildFails, BuildDone, FinishSuccess,
     FinishRefused, FinishThrows, FinishFailure, FinishCancelled, FinishLost
<1> QED BY <1>1, <1>2, <1>3 DEF Next, vars

\* The lease owner identifies the attempt as long as the process is up.
LEMMA OwnerFencesStep ==
    TypeOK /\ OneTask /\ OneTask' /\ OwnerFencesAttempt /\ [Next]_vars
      => OwnerFencesAttempt'
<1> SUFFICES ASSUME TypeOK, OneTask, OneTask', OwnerFencesAttempt, [Next]_vars,
                    NEW w \in Workers, proc'[w] = "up", NEW s \in tasks'[w],
                    job'[s.job].status = "processing", job'[s.job].owner = w
             PROVE  s.attempt = job'[s.job].attempts
  BY DEF OwnerFencesAttempt, Owns, OneTask
<1>a. job \in [Jobs -> Row] /\ proc \in [Workers -> {"new", "up", "stopping", "dead"}]
  BY DEF TypeOK
<1>b. \A t \in tasks[w] : t.job \in Jobs
  BY DEF TypeOK, Task
<1>1. ASSUME NEW j \in Jobs, Claim(w, j), s.job = j, s.attempt = job[j].attempts + 1
      PROVE  s.attempt = job'[s.job].attempts
  BY <1>1, <1>a, LeasedColumns DEF Claim
<1>2. ASSUME NEW t \in tasks[w], s.job = t.job, s.attempt = t.attempt
      PROVE  s.attempt = job'[s.job].attempts
  <2>1. proc[w] = "up"
    <3>1. proc[w] # "new"
      BY <1>2 DEF OneTask
    <3>2. CASE \E v \in Workers : Boot(v) \/ Stop(v) \/ Die(v)
      BY <3>1, <3>2, <1>a DEF Boot, Stop, Die
    <3>3. CASE proc' = proc
      BY <3>3
    <3> QED BY <3>2, <3>3, ProcMoves DEF Process
  <2>2. CASE Owns(w, t.job) /\ job'[t.job].attempts = job[t.job].attempts
    BY <1>2, <2>1, <2>2 DEF OwnerFencesAttempt
  <2>3. ASSUME NEW v \in Workers, Claim(v, t.job) \/ ClaimLost(v, t.job) PROVE FALSE
    <3>1. job'[t.job].owner = v /\ loop[v] = "claim"
      BY <2>3, <1>a, <1>b, LeasedColumns DEF Claim, ClaimLost
    <3>2. v = w
      BY <3>1, <1>2
    <3>3. tasks[w] = {}
      BY <2>1, <3>1, <3>2, FreeSlot DEF OneTask
    <3> QED BY <1>2, <3>3
  <2> QED BY <1>2, <1>b, <2>2, <2>3, OwnershipMoves DEF Owns
<1> QED BY <1>1, <1>2, TaskMoves

-------------------------------------------------------------------------------
(* Rows over time: attempts and quotas *)

\* What one step can do to the row of a job.
LEMMA RowMoves ==
    ASSUME TypeOK, [Next]_vars, NEW k \in Jobs
    PROVE  \/ job'[k] = Blank("deleted")
           \/ \E u \in Users : CreateInsert(u, k)
           \/ /\ job'[k].user = job[k].user
              /\ job'[k].status = "absent" <=> job[k].status = "absent"
              /\ job[k].status = "deleted" => job'[k].status = "deleted"
              /\ job'[k].status = "pending" => job[k].status = "pending"
              /\ job'[k].status \in Outstanding => job[k].status \in Outstanding
              /\ job'[k].attempts = job[k].attempts \/ job[k].attempts < MaxAttempts
<1> DEFINE Kept == /\ job'[k].user = job[k].user
                   /\ job'[k].status = "absent" <=> job[k].status = "absent"
                   /\ job[k].status = "deleted" => job'[k].status = "deleted"
                   /\ job'[k].status = "pending" => job[k].status = "pending"
                   /\ job'[k].status \in Outstanding => job[k].status \in Outstanding
                   /\ job'[k].attempts = job[k].attempts \/ job[k].attempts < MaxAttempts
<1>a. job \in [Jobs -> Row] /\ job[k] \in Row
  BY DEF TypeOK
<1> DEFINE Goal == \/ job'[k] = Blank("deleted")
                   \/ \E u \in Users : CreateInsert(u, k)
                   \/ Kept
<1> SUFFICES Goal
  OBVIOUS
<1>1. CASE job' = job
  BY <1>1
<1>2. CASE Request
  <2>2. ASSUME NEW u \in Users, NEW j \in Jobs, CreateInsert(u, j)
        PROVE  Goal
    <3>1. CASE j = k
      BY <2>2, <3>1
    <3>2. CASE j # k
      BY <2>2, <3>2, <1>a DEF CreateInsert
    <3> QED BY <3>1, <3>2
  <2>3. ASSUME NEW j \in Jobs, CancelPending(j) \/ CancelProcessing(j) PROVE Goal
    BY <2>3, <1>a DEF CancelPending, CancelProcessing, Row, Outstanding
  <2>4. ASSUME NEW j \in Jobs, DeleteRow(j) PROVE Goal
    BY <2>4, <1>a DEF DeleteRow
  <2>5. CASE job' = job
    BY <2>5
  <2> HIDE DEF Goal
  <2> QED BY <1>2, <2>2, <2>3, <2>4, <2>5 DEF Request, CreateCheck, CreateAbort,
             RequestCancellation
<1>3. CASE Clock
  BY <1>3, <1>a DEF Clock, LeaseExpires, RetentionPasses, DayPasses, Row
<1>4. ASSUME NEW w \in Workers, Process(w) PROVE Goal
  BY <1>4 DEF Process, Boot, Stop, Die
<1>5. ASSUME NEW w \in Workers, Tick(w)
      PROVE  Goal
  <2>1. CASE TickPurge(w) \/ TickClaim(w) \/ NothingToClaim(w) \/ TickFails(w)
    BY <2>1 DEF TickPurge, TickClaim, NothingToClaim, TickFails
  <2>2. CASE PurgeExpired(w)
    BY <2>2 DEF PurgeExpired
  <2>3. CASE SweepCancelled(w) \/ SweepExhausted(w)
    <3>1. CASE job'[k] = job[k]
      BY <3>1
    <3>2. CASE job'[k] # job[k]
      <4>1. k \in Swept(w, CancelledLeases) \/ k \in Swept(w, ExhaustedLeases)
        BY <2>3, <3>2 DEF SweepCancelled, SweepExhausted
      <4>2. job[k].status \notin {"absent", "deleted"}
        BY <4>1 DEF Swept, CancelledLeases, ExhaustedLeases, Exists
      <4>3. job'[k] = Closed(job[k], "cancelled") \/ job'[k] = Closed(job[k], "failed")
        BY <2>3, <3>2 DEF SweepCancelled, SweepExhausted
      <4> QED BY <1>a, <4>2, <4>3, ClosedColumns DEF Outstanding
    <3> QED BY <3>1, <3>2
  <2>4. ASSUME NEW j \in Jobs, Claim(w, j) \/ ClaimLost(w, j) PROVE Goal
    BY <2>4, <1>a, LeasedColumns DEF Claim, ClaimLost, Claimable, Outstanding
  <2> QED BY <1>5, <2>1, <2>2, <2>3, <2>4 DEF Tick
<1>6. ASSUME NEW w \in Workers, NEW t \in tasks[w], Execute(w, t) PROVE Goal
  <2>0. t.job \in Jobs
    BY DEF TypeOK, Task
  <2>1. CASE job' = job
    BY <2>1
  <2>2. CASE Heartbeat(w, t)
    BY <2>0, <2>2, <1>a DEF Heartbeat, Row
  <2>3. CASE FinishSuccess(w, t) \/ FinishThrows(w, t)
    BY <2>0, <2>3, <1>a, PublishedColumns DEF FinishSuccess, FinishThrows, MayPublish,
       Owns, Outstanding
  <2>4. CASE FinishFailure(w, t)
    BY <2>0, <2>4, <1>a, ClosedColumns DEF FinishFailure, Owns, Outstanding
  <2>5. CASE FinishCancelled(w, t)
    BY <2>0, <2>5, <1>a, CancelledColumns DEF FinishCancelled, Owns, Outstanding
  <2> QED BY <1>6, <2>1, <2>2, <2>3, <2>4, <2>5 DEF Execute, SeesStop, BuildFails,
             BuildDone, FinishRefused, FinishLost
<1> HIDE DEF Goal
<1> QED BY <1>1, <1>2, <1>3, <1>4, <1>5, <1>6 DEF Next, vars

\* A selection is carried over, replaced by what the table holds, or dropped.
LEMMA PickedMoves ==
    ASSUME TypeOK, [Next]_vars, NEW w \in Workers
    PROVE  \/ picked'[w] = picked[w] /\ loop'[w] = loop[w]
           \/ picked'[w] = picked[w] /\ loop'[w] # "sweepExhausted"
           \/ picked'[w] = {} /\ loop'[w] # "sweepExhausted"
           \/ picked'[w] = CancelledLeases /\ loop'[w] = "sweepCancelled"
           \/ picked'[w] = ExhaustedLeases /\ SweepCancelled(w)
<1>a. /\ loop \in [Workers -> {"wait", "purge", "sweepCancelled", "sweepExhausted", "claim"}]
      /\ picked \in [Workers -> SUBSET Jobs]
  BY DEF TypeOK
<1>1. Request \/ Clock => loop' = loop /\ picked' = picked
  BY DEF Request, CreateCheck, CreateAbort, CreateInsert, CancelPending,
     CancelProcessing, DeleteRow, RequestCancellation, Clock, LeaseExpires,
     RetentionPasses, DayPasses
<1>2. ASSUME NEW v \in Workers, Process(v)
      PROVE  \/ picked'[w] = picked[w] /\ loop'[w] = loop[w]
             \/ picked'[w] = {} /\ loop'[w] # "sweepExhausted"
  BY <1>2, <1>a DEF Process, Boot, Stop, Die
<1>3. ASSUME NEW v \in Workers \ {w}, Tick(v)
      PROVE  picked'[w] = picked[w] /\ loop'[w] = loop[w]
  BY <1>3, <1>a DEF Tick, TickPurge, PurgeExpired, TickClaim, SweepCancelled,
     SweepExhausted, Claim, ClaimLost, NothingToClaim, TickFails
<1>4. ASSUME Tick(w)
      PROVE  \/ picked'[w] = picked[w] /\ loop'[w] # "sweepExhausted"
             \/ picked'[w] = {} /\ loop'[w] # "sweepExhausted"
             \/ picked'[w] = CancelledLeases /\ loop'[w] = "sweepCancelled"
             \/ picked'[w] = ExhaustedLeases /\ SweepCancelled(w)
  BY <1>4, <1>a DEF Tick, TickPurge, PurgeExpired, TickClaim, SweepCancelled,
     SweepExhausted, Claim, ClaimLost, NothingToClaim, TickFails
<1>5. ASSUME NEW v \in Workers, NEW t \in tasks[v], Execute(v, t)
      PROVE  loop' = loop /\ picked' = picked
  BY <1>5 DEF Execute, Heartbeat, SeesStop, BuildFails, BuildDone, FinishSuccess,
     FinishRefused, FinishThrows, FinishFailure, FinishCancelled, FinishLost
<1> QED BY <1>1, <1>2, <1>3, <1>4, <1>5 DEF Next, vars

\* Selected rows have run, and spent rows stay spent, until the update comes.
LEMMA PickedStep ==
    TypeOK /\ PickedSpent /\ PickedStarted /\ [Next]_vars
      => PickedSpent' /\ PickedStarted'
<1> SUFFICES ASSUME TypeOK, PickedSpent, PickedStarted, [Next]_vars,
                    NEW w \in Workers, NEW k \in picked'[w], k \in Jobs
             PROVE  /\ job'[k].status \notin {"absent", "pending"}
                    /\ loop'[w] = "sweepExhausted" =>
                         \/ job'[k].status = "deleted"
                         \/ job'[k].status # "absent" /\ job'[k].attempts = MaxAttempts
  BY TypeStep DEF PickedSpent, PickedStarted, TypeOK
<1>a. job[k] \in Row
  BY DEF TypeOK
<1>1. job[k].status \notin {"absent", "pending"}
  BY PickedMoves DEF PickedStarted, CancelledLeases, ExhaustedLeases
<1>2. loop'[w] = "sweepExhausted" =>
          job[k].status = "deleted" \/ job[k].attempts = MaxAttempts
  <2>1. k \in ExhaustedLeases => job[k].attempts = MaxAttempts
    BY <1>a, LimitsAssumption DEF ExhaustedLeases, Row
  <2> QED BY <2>1, PickedMoves DEF PickedSpent
<1>3. CASE job'[k] = Blank("deleted")
  BY <1>3, BlankColumns
<1>4. \A u \in Users : ~CreateInsert(u, k)
  BY <1>1 DEF CreateInsert
<1>5. job[k].attempts = MaxAttempts => ~(job[k].attempts < MaxAttempts)
  BY LimitsAssumption
<1>6. CASE job'[k] # Blank("deleted")
  BY <1>1, <1>2, <1>4, <1>5, <1>6, RowMoves
<1> QED BY <1>3, <1>6

\* A step lets what an account owes grow by the one row it inserts.
LEMMA OwedMoves ==
    ASSUME TypeOK, [Next]_vars, NEW u \in Users
    PROVE  \/ OwedBy(u)' \subseteq OwedBy(u)
           \/ \E k \in Jobs : CreateInsert(u, k) /\ OwedBy(u)' = OwedBy(u) \cup {k}
<1>a. /\ job \in [Jobs -> Row] /\ u # None
      /\ OwedBy(u)' = {j \in Jobs : job'[j].user = u /\ job'[j].status \in Outstanding}
  BY NoneAssumption DEF TypeOK, OwedBy
<1>1. CASE \E k \in Jobs : CreateInsert(u, k)
  <2>1. PICK k \in Jobs : CreateInsert(u, k)
    BY <1>1
  <2>2. job'[k].user = u /\ job'[k].status \in Outstanding
    BY <2>1, <1>a, NewRowColumns DEF CreateInsert, Outstanding
  <2>3. \A j \in Jobs \ {k} : job'[j] = job[j]
    BY <2>1, <1>a DEF CreateInsert
  <2>4. OwedBy(u)' = OwedBy(u) \cup {k}
    BY <1>a, <2>2, <2>3 DEF OwedBy
  <2> QED BY <2>1, <2>4
<1>2. CASE ~\E k \in Jobs : CreateInsert(u, k)
  <2>1. ASSUME NEW j \in Jobs, job'[j].user = u, job'[j].status \in Outstanding
        PROVE  job[j].user = u /\ job[j].status \in Outstanding
    <3>1. job'[j] # Blank("deleted")
      BY <2>1, <1>a, BlankColumns
    <3>2. ~\E v \in Users : CreateInsert(v, j)
      BY <1>2, <2>1, <1>a, NewRowColumns DEF CreateInsert
    <3> QED BY <2>1, <3>1, <3>2, RowMoves
  <2> QED BY <1>a, <2>1 DEF OwedBy
<1> QED BY <1>1, <1>2

\* A create transaction that has passed the count had done so before the step, or
\* has just taken the lock.
LEMMA LockMoves ==
    ASSUME [Next]_vars, TypeOK, NEW u \in Users, NEW j \in Jobs, txn'[j] = u
    PROVE  txn[j] = u \/ CreateCheck(u, j)
<1>a. txn \in [Jobs -> Users \cup {None}] /\ u # None
  BY NoneAssumption DEF TypeOK
<1>1. CASE txn' = txn
  BY <1>1
<1>2. ASSUME NEW v \in Users, NEW k \in Jobs, CreateCheck(v, k)
      PROVE  txn[j] = u \/ CreateCheck(u, j)
  <2>1. CASE k = j
    BY <1>2, <2>1, <1>a DEF CreateCheck
  <2>2. CASE k # j
    BY <1>2, <2>2, <1>a DEF CreateCheck
  <2> QED BY <2>1, <2>2
<1>3. ASSUME NEW v \in Users, NEW k \in Jobs, CreateInsert(v, k) PROVE txn[j] = u
  BY <1>3, <1>a DEF CreateInsert
<1>4. ASSUME NEW k \in Jobs, CreateAbort(k) PROVE txn[j] = u
  BY <1>4, <1>a DEF CreateAbort
<1>5. Clock => txn' = txn
  BY DEF Clock, LeaseExpires, RetentionPasses, DayPasses
<1>6. ASSUME NEW w \in Workers, Process(w) \/ Tick(w) PROVE txn' = txn
  BY <1>6 DEF Process, Boot, Stop, Die, Tick, TickPurge, PurgeExpired, TickClaim,
     SweepCancelled, SweepExhausted, Claim, ClaimLost, NothingToClaim, TickFails
<1>7. ASSUME NEW w \in Workers, NEW t \in tasks[w], Execute(w, t) PROVE txn' = txn
  BY <1>7 DEF Execute, Heartbeat, SeesStop, BuildFails, BuildDone, FinishSuccess,
     FinishRefused, FinishThrows, FinishFailure, FinishCancelled, FinishLost
<1> QED BY <1>1, <1>2, <1>3, <1>4, <1>5, <1>6, <1>7 DEF Next, vars, Request,
           CancelPending, CancelProcessing, DeleteRow, RequestCancellation

\* The count taken under the lock is still good when the row is inserted.
LEMMA QuotaStep ==
    TypeOK /\ OutstandingBound /\ CountHolds /\ [Next]_vars
      => OutstandingBound' /\ CountHolds'
<1> SUFFICES ASSUME TypeOK, OutstandingBound, CountHolds, [Next]_vars, NEW u \in Users
             PROVE  /\ Cardinality(OwedBy(u)') <= MaxOutstanding
                    /\ \A j \in Jobs : txn'[j] = u =>
                          /\ \A i \in Jobs : txn'[i] = u => i = j
                          /\ Cardinality(OwedBy(u)') < MaxOutstanding
  BY DEF OutstandingBound, CountHolds
<1>1. IsFiniteSet(OwedBy(u)) /\ Cardinality(OwedBy(u)) \in Nat
  BY JobsAssumption, FS_Subset, FS_CardinalityType DEF OwedBy
<1>2. /\ Cardinality(OwedBy(u)) <= MaxOutstanding
      /\ \A j \in Jobs : txn[j] = u => /\ \A i \in Jobs : txn[i] = u => i = j
                                       /\ Cardinality(OwedBy(u)) < MaxOutstanding
  BY DEF OutstandingBound, CountHolds
<1>a. txn \in [Jobs -> Users \cup {None}] /\ u # None
  BY NoneAssumption DEF TypeOK
<1>3. ASSUME NEW j \in Jobs, txn'[j] = u, NEW i \in Jobs, txn'[i] = u PROVE i = j
  <2>1. ASSUME NEW k \in Jobs, CreateCheck(u, k), NEW l \in Jobs, txn'[l] = u
        PROVE  l = k
    BY <2>1, <1>a DEF CreateCheck, Locked
  <2> QED BY <1>2, <1>3, <2>1, LockMoves
<1>4. CASE OwedBy(u)' \subseteq OwedBy(u)
  <2>1. Cardinality(OwedBy(u)') \in Nat /\ Cardinality(OwedBy(u)') <= Cardinality(OwedBy(u))
    BY <1>1, <1>4, FS_Subset, FS_CardinalityType
  <2>2. \A j \in Jobs : CreateCheck(u, j) => Cardinality(OwedBy(u)) < MaxOutstanding
    BY DEF CreateCheck
  <2>3. \A j \in Jobs : txn'[j] = u => Cardinality(OwedBy(u)) < MaxOutstanding
    BY <1>2, <2>2, LockMoves
  <2> QED BY <1>1, <1>2, <1>3, <2>1, <2>3, LimitsAssumption
<1>5. ASSUME NEW k \in Jobs, CreateInsert(u, k), OwedBy(u)' = OwedBy(u) \cup {k}
      PROVE  /\ Cardinality(OwedBy(u)') <= MaxOutstanding
             /\ \A j \in Jobs : txn'[j] # u
  <2>1. txn[k] = u /\ txn' = [txn EXCEPT ![k] = None]
    BY <1>5 DEF CreateInsert
  <2>2. \A j \in Jobs : txn'[j] # u
    BY <1>2, <1>a, <2>1
  <2>3. Cardinality(OwedBy(u)') <= Cardinality(OwedBy(u)) + 1
    <3> DEFINE S == OwedBy(u)
    <3>1. Cardinality(S \cup {k}) = IF k \in S THEN Cardinality(S) ELSE Cardinality(S) + 1
      BY <1>1, FS_AddElement
    <3> QED BY <1>1, <1>5, <3>1
  <2>4. Cardinality(OwedBy(u)') \in Nat
    BY <1>1, <1>5, FS_AddElement, FS_CardinalityType
  <2> QED BY <1>1, <1>2, <2>1, <2>2, <2>3, <2>4, LimitsAssumption
<1> QED BY <1>4, <1>5, OwedMoves

-------------------------------------------------------------------------------
(* The inductive invariant *)

LEMMA InitIInv == Init => IInv
<1> SUFFICES ASSUME Init PROVE IInv
  OBVIOUS
<1>1. TypeOK
  BY BlankType DEF Init, TypeOK, Status
<1>2. \A j \in Jobs : job[j] = Blank("absent")
  BY DEF Init
<1>3. RowChecks
  BY <1>2, BlankColumns DEF RowChecks
<1>4. CancelHeld /\ OneTask /\ OwnerFencesAttempt /\ PickedSpent /\ PickedStarted
  BY DEF Init, CancelHeld, OneTask, OwnerFencesAttempt, PickedSpent, PickedStarted
<1>5. ASSUME NEW u \in Users PROVE Cardinality(OwedBy(u)) = 0
  <2>1. OwedBy(u) = {}
    BY <1>2, BlankColumns DEF OwedBy, Outstanding
  <2> QED BY <2>1, FS_EmptySet
<1>6. OutstandingBound /\ CountHolds
  BY <1>5, LimitsAssumption, NoneAssumption DEF Init, OutstandingBound, CountHolds
<1> QED BY <1>1, <1>3, <1>4, <1>6 DEF IInv

LEMMA IInvStep == IInv /\ [Next]_vars => IInv'
  BY TypeStep, RowChecksStep, CancelHeldStep, OneTaskStep, OwnerFencesStep, PickedStep,
     QuotaStep DEF IInv

\* Every reachable state satisfies the inductive invariant.
THEOREM Inductive == Spec => []IInv
  BY InitIInv, IInvStep, PTL DEF Spec

\* No statement of the handlers or the worker ever meets the table's CHECKs.
THEOREM RowsRespectChecks == Spec => []RowChecks
<1>1. IInv => RowChecks
  BY DEF IInv
<1> QED BY <1>1, Inductive, PTL

\* After an accepted cancellation no worker, stale or current, publishes.
THEOREM CancellationHolds == Spec => []CancelledNeverPublishes
<1>1. IInv => CancelledNeverPublishes
  BY DEF IInv, CancelHeld, RowChecks, CancelledNeverPublishes, TypeOK
<1> QED BY <1>1, Inductive, PTL

\* The process-wide lease owner is a sufficient fencing token.
THEOREM OwnerIsAFence == Spec => []OwnerFencesAttempt
<1>1. IInv => OwnerFencesAttempt
  BY DEF IInv
<1> QED BY <1>1, Inductive, PTL

\* Concurrent requests never exceed the outstanding quota of an account.
THEOREM QuotaHolds == Spec => []OutstandingBound
<1>1. IInv => OutstandingBound
  BY DEF IInv
<1> QED BY <1>1, Inductive, PTL

\* A sweep gives up only jobs whose attempts are spent, on either dialect.
THEOREM RetriesAreSpared == Spec => SweepSparesRetries
<1>1. ASSUME IInv, [Next]_vars
      PROVE  [\A w \in Workers, j \in Jobs : SweepExhausted(w) /\ job'[j] # job[j]
                => job[j].attempts = MaxAttempts]_vars
  <2>1. ASSUME NEW w \in Workers, NEW j \in Jobs, SweepExhausted(w), job'[j] # job[j]
        PROVE  job[j].attempts = MaxAttempts
    <3>1. job[j] \in Row
      BY <1>1 DEF IInv, TypeOK
    <3>2. j \in Swept(w, ExhaustedLeases)
      BY <2>1 DEF SweepExhausted
    <3>3. CASE j \in ExhaustedLeases
      BY <3>1, <3>3, LimitsAssumption DEF ExhaustedLeases, Row
    <3>4. CASE j \in picked[w] /\ Exists(j)
      BY <1>1, <2>1, <3>4 DEF IInv, PickedSpent, SweepExhausted, Exists
    <3> QED BY <3>2, <3>3, <3>4 DEF Swept
  <2> QED BY <2>1
<1> QED BY <1>1, Inductive, PTL DEF Spec, SweepSparesRetries

===============================================================================

