-------------------------- MODULE NotificationProofs --------------------------
(***************************************************************************)
(* Theorems about NotificationDelivery for every set of events, channels   *)
(* and processes, every limit and both SQL dialects.                       *)
(***************************************************************************)
EXTENDS NotificationDelivery, TLAPS

-------------------------------------------------------------------------------
(* Rows *)

\* A row with one column changed is a row.
LEMMA ColumnTypes ==
    ASSUME NEW r \in Row
    PROVE  /\ \A v \in Status : [r EXCEPT !.status = v] \in Row
           /\ \A v \in 0..MaxAttempts : [r EXCEPT !.attempts = v] \in Row
           /\ \A v \in Workers \cup {None} : [r EXCEPT !.owner = v] \in Row
           /\ \A v \in {"none", "live", "expired"} : [r EXCEPT !.lease = v] \in Row
           /\ \A v \in BOOLEAN : [r EXCEPT !.due = v] \in Row
  BY DEF Row

LEMMA BlankType == \A s \in Status : Blank(s) \in Row /\ Blank(s).status = s
  BY LimitsAssumption DEF Blank, Row

LEMMA SettledType ==
    ASSUME NEW r \in Row, NEW s \in Status PROVE Settled(r, s) \in Row
<1> DEFINE a == [r EXCEPT !.status = s]
           b == [a EXCEPT !.owner = None]
           c == [b EXCEPT !.lease = "none"]
           d == [c EXCEPT !.due = s # "pending"]
<1>1. a \in Row
  BY ColumnTypes
<1>2. b \in Row
  BY <1>1, ColumnTypes
<1>3. c \in Row
  BY <1>2, ColumnTypes
<1>4. d \in Row
  BY <1>3, ColumnTypes
<1>5. Settled(r, s) = d
  BY DEF Settled, Row
<1> QED BY <1>4, <1>5

LEMMA LeasedType ==
    ASSUME NEW r \in Row, NEW w \in Workers, r.attempts < MaxAttempts
    PROVE  Leased(r, w) \in Row
<1> DEFINE a == [r EXCEPT !.status = "processing"]
           b == [a EXCEPT !.attempts = r.attempts + 1]
           c == [b EXCEPT !.owner = w]
           d == [c EXCEPT !.lease = "live"]
<1>1. a \in Row
  BY ColumnTypes DEF Status, Outstanding
<1>2. r.attempts + 1 \in 0..MaxAttempts
  BY LimitsAssumption DEF Row
<1>3. b \in Row
  BY <1>1, <1>2, ColumnTypes
<1>4. c \in Row
  BY <1>3, ColumnTypes
<1>5. d \in Row
  BY <1>4, ColumnTypes
<1>6. Leased(r, w) = d
  BY DEF Leased, Row
<1> QED BY <1>5, <1>6

\* What the helpers put in each column.
LEMMA SettledColumns ==
    ASSUME NEW r \in Row, NEW s
    PROVE  /\ Settled(r, s).status = s /\ Settled(r, s).owner = None
           /\ Settled(r, s).attempts = r.attempts
  BY DEF Settled, Row

LEMMA LeasedColumns ==
    ASSUME NEW r \in Row, NEW w
    PROVE  /\ Leased(r, w).status = "processing" /\ Leased(r, w).owner = w
           /\ Leased(r, w).attempts = r.attempts + 1
  BY DEF Leased, Row

\* A verdict is one of the statuses, and never processing.
LEMMA VerdictRange ==
    ASSUME NEW h \in Held, h.result # "none"
    PROVE  Verdict(h) \in {"succeeded", "skipped", "pending", "dead_letter"}
  BY DEF Verdict, Held, Results

\* The job in hand at a claim.
LEMMA HeldType ==
    ASSUME NEW j \in Jobs, NEW n \in 1..MaxAttempts
    PROVE  /\ [job |-> j, attempt |-> n, result |-> "none"] \in Held
           /\ [job |-> j, attempt |-> n, result |-> "none"] # None
<1>1. [job |-> j, attempt |-> n, result |-> "none"] \in Held
  BY DEF Held
<1> QED BY <1>1, NoneAssumption

LEMMA AnswerType ==
    ASSUME NEW h \in Held, NEW r \in Results
    PROVE  /\ [h EXCEPT !.result = r] \in Held
           /\ [h EXCEPT !.result = r] # None
           /\ [h EXCEPT !.result = r].job = h.job
           /\ [h EXCEPT !.result = r].attempt = h.attempt
           /\ [h EXCEPT !.result = r].result = r
<1>1. [h EXCEPT !.result = r] \in Held
  BY DEF Held
<1>2. [h EXCEPT !.result = r] # None
  BY <1>1, NoneAssumption
<1> QED BY <1>1, <1>2 DEF Held

-------------------------------------------------------------------------------
(* What the steps do to the rows *)

\* Core is what the invariants below are proved from in one induction.
Core == TypeOK /\ HandInTick /\ OwnerFencesAttempt

\* A worker that records a verdict holds a job, and the row it settles is the
\* row of the attempt in hand.
LEMMA RecordRows ==
    ASSUME Core, NEW w \in Workers, step[w] = "finish", Record(w)
    PROVE  /\ hand[w] \in Held /\ hand[w].job \in Jobs /\ hand[w].result # "none"
           /\ \/ UNCHANGED job
              \/ /\ Owns(w, hand[w].job)
                 /\ job[hand[w].job].attempts = hand[w].attempt
                 /\ job' = [job EXCEPT ![hand[w].job] =
                               Settled(job[hand[w].job], Verdict(hand[w]))]
<1>1. hand[w] # None /\ hand[w].result # "none"
  BY DEF Core, HandInTick
<1>2. hand[w] \in Held
  BY <1>1 DEF Core, TypeOK
<1>3. hand[w].job \in Jobs
  BY <1>2 DEF Held
<1>4. Owns(w, hand[w].job) => job[hand[w].job].attempts = hand[w].attempt
  BY <1>1 DEF Core, OwnerFencesAttempt
<1> QED BY <1>1, <1>2, <1>3, <1>4 DEF Record, Core, TypeOK


\* The new row of a recorded verdict.
LEMMA RecordType ==
    ASSUME Core, NEW w \in Workers, step[w] = "finish", Record(w)
    PROVE  job' \in [Jobs -> Row]
<1>1. hand[w] \in Held /\ hand[w].job \in Jobs /\ hand[w].result # "none"
  BY RecordRows
<1>2. Verdict(hand[w]) \in Status
  BY <1>1, VerdictRange DEF Status, Outstanding
<1>3. Settled(job[hand[w].job], Verdict(hand[w])) \in Row
  BY <1>1, <1>2, SettledType DEF Core, TypeOK
<1> QED BY <1>3, RecordRows DEF Core, TypeOK

\* Every step keeps the types.
LEMMA TypeStep == Core /\ [Next]_vars => TypeOK'
<1> SUFFICES ASSUME Core, [Next]_vars PROVE TypeOK'
  OBVIOUS
<1>t. TypeOK /\ HandInTick
  BY DEF Core
<1>a. \A j \in Jobs : job[j] \in Row
  BY <1>t DEF TypeOK
<1>b. \A S : job' = [j \in Jobs |-> IF j[1] \in S THEN Blank("deleted") ELSE job[j]]
                => job' \in [Jobs -> Row]
  BY <1>a, BlankType DEF Status
<1>c. Purgeable \subseteq Events /\ Exhausted \subseteq Jobs /\ Batch \in 0..Batch /\ 0 \in 0..Batch
  BY LimitsAssumption DEF Purgeable, Exhausted
<1>1. CASE UNCHANGED vars
  BY <1>1, <1>t DEF vars, TypeOK
<1>2. CASE Request
  <2>1. ASSUME NEW e \in Events, DeleteEvent(e) PROVE TypeOK'
    BY <2>1, <1>t, <1>b DEF DeleteEvent, Erased, TypeOK
  <2>2. ASSUME NEW e \in Events, NEW C \in SUBSET Channels, Enqueue(e, C) PROVE TypeOK'
    BY <2>2, <1>t, <1>a, BlankType DEF Enqueue, TypeOK, Status, Outstanding
  <2>3. ASSUME NEW j \in Jobs, Replay(j) PROVE TypeOK'
    BY <2>3, <1>t, <1>a, BlankType DEF Replay, TypeOK, Status, Outstanding
  <2> QED BY <1>2, <2>1, <2>2, <2>3 DEF Request
<1>3. CASE Clock
  <2>1. ASSUME NEW e \in Events, EventAges(e) PROVE TypeOK'
    BY <2>1, <1>t DEF EventAges, TypeOK
  <2>2. ASSUME NEW j \in Jobs, LeaseExpires(j) PROVE TypeOK'
    BY <2>2, <1>t, <1>a, ColumnTypes DEF LeaseExpires, TypeOK
  <2>3. ASSUME NEW j \in Jobs, BackoffPasses(j) PROVE TypeOK'
    BY <2>3, <1>t, <1>a, ColumnTypes DEF BackoffPasses, TypeOK
  <2> QED BY <1>3, <2>1, <2>2, <2>3 DEF Clock
<1>4. ASSUME NEW w \in Workers, Process(w) PROVE TypeOK'
  BY <1>4, <1>t, <1>c DEF Process, Boot, Stop, Die, TypeOK
<1>5. ASSUME NEW w \in Workers, Work(w) PROVE TypeOK'
  <2>1. CASE TickPurge(w)
    BY <2>1, <1>t, <1>c DEF TickPurge, TypeOK
  <2>2. CASE PurgeTerminalEvents(w)
    BY <2>2, <1>t, <1>b, <1>c DEF PurgeTerminalEvents, Erased, ToSweep, TypeOK
  <2>3. CASE Tick(w)
    BY <2>3, <1>t, <1>c DEF Tick, ToSweep, TypeOK
  <2>4. CASE SweepExhausted(w)
    BY <2>4, <1>t, <1>a, SettledType DEF SweepExhausted, TypeOK, Status, Outstanding
  <2>5. ASSUME NEW j \in Jobs, Claim(w, j) PROVE TypeOK'
    <3>1. job[j].attempts < MaxAttempts /\ job[j].attempts \in Nat
      BY <2>5, <1>a DEF Claim, Claimable, Row
    <3>2. job[j].attempts + 1 \in 1..MaxAttempts
      BY <3>1, LimitsAssumption
    <3>3. Leased(job[j], w) \in Row
      BY <3>1, <1>a, LeasedType
    <3>4. [job |-> j, attempt |-> job[j].attempts + 1, result |-> "none"] \in Held
      BY <3>2, HeldType
    <3> QED BY <2>5, <1>t, <3>3, <3>4 DEF Claim, TypeOK
  <2>6. ASSUME NEW j \in Jobs, ClaimLost(w, j) PROVE TypeOK'
    BY <2>6, <1>t, <1>a, <1>c, LeasedType DEF ClaimLost, ToWait, Claimable, TypeOK
  <2>7. CASE NothingToClaim(w) \/ TickFails(w)
    BY <2>7, <1>t, <1>c DEF NothingToClaim, TickFails, ToWait, TypeOK
  <2>8. ASSUME NEW r \in Results, Deliver(w, r) PROVE TypeOK'
    <3>1. hand[w] \in Held
      BY <2>8, <1>t DEF Deliver, HandInTick, TypeOK
    <3>2. [hand[w] EXCEPT !.result = r] \in Held
      BY <3>1, AnswerType
    <3>3. \A a \in SUBSET Answers : a \cup ({r} \cap Answers) \in SUBSET Answers
      OBVIOUS
    <3>4. answers' \in [Jobs -> SUBSET Answers]
      BY <2>8, <1>t, <3>3 DEF Deliver, TypeOK
    <3> QED BY <2>8, <1>t, <3>2, <3>4 DEF Deliver, TypeOK
  <2>9. CASE Finish(w)
    <3>1. job' \in [Jobs -> Row]
      BY <2>9, RecordType DEF Finish
    <3>2. left[w] > 0 /\ left[w] \in 0..Batch
      BY <2>9, <1>t DEF Finish, HandInTick, TypeOK
    <3>3. left[w] - 1 \in 0..Batch
      BY <3>2, LimitsAssumption
    <3> QED BY <2>9, <1>t, <1>c, <3>1, <3>3 DEF Finish, ToSweep, TypeOK
  <2>10. CASE FinishThrows(w)
    <3>1. job' \in [Jobs -> Row]
      BY <2>10, <1>t, RecordType DEF FinishThrows, TypeOK
    <3> QED BY <2>10, <1>t, <1>c, <3>1 DEF FinishThrows, ToWait, TypeOK
  <2> QED BY <1>5, <2>1, <2>2, <2>3, <2>4, <2>5, <2>6, <2>7, <2>8, <2>9, <2>10 DEF Work
<1> QED BY <1>1, <1>2, <1>3, <1>4, <1>5 DEF Next

\* Every step keeps the place of a worker in its tick in line with its hand.
LEMMA TickStep == Core /\ [Next]_vars => HandInTick'
<1> SUFFICES ASSUME Core, [Next]_vars PROVE HandInTick'
  OBVIOUS
<1>t. TypeOK /\ HandInTick
  BY DEF Core
<1> DEFINE Place(v) ==
             /\ step[v] \in {"deliver", "finish"} <=> hand[v] # None
             /\ step[v] = "finish" => hand[v].result # "none"
             /\ step[v] # "wait" /\ step[v] # "purge" => left[v] > 0
             /\ proc[v] = "new" => step[v] = "wait"
<1>p. \A v \in Workers : Place(v)
  BY <1>t DEF HandInTick
<1>1. CASE UNCHANGED <<step, hand, left, proc>>
  BY <1>1, <1>t DEF HandInTick
<1>2. CASE Request \/ Clock \/ UNCHANGED vars
  BY <1>1, <1>2 DEF Request, Clock, vars, DeleteEvent, Enqueue, Replay, EventAges,
     LeaseExpires, BackoffPasses
<1>3. ASSUME NEW w \in Workers, Process(w) PROVE HandInTick'
  <2>1. CASE Boot(w) \/ Stop(w)
    BY <2>1, <1>t DEF Boot, Stop, HandInTick, TypeOK
  <2>2. CASE Die(w)
    BY <2>2, <1>t DEF Die, HandInTick, TypeOK
  <2> QED BY <1>3, <2>1, <2>2 DEF Process
<1>4. ASSUME NEW w \in Workers, Work(w) PROVE HandInTick'
  <2>a. Batch > 0
    BY LimitsAssumption
  <2>b. step[w] # "wait" => proc[w] # "new"
    BY <1>p
  <2>0. SUFFICES Place(w)' /\ \A v \in Workers \ {w} : Place(v)'
    BY DEF HandInTick
  <2>1. \A v \in Workers \ {w} : Place(v)'
    BY <1>4, <1>p, <1>t DEF TypeOK, Work, TickPurge, PurgeTerminalEvents, Tick, SweepExhausted,
       Claim, ClaimLost, NothingToClaim, TickFails, Deliver, Finish, FinishThrows,
       ToSweep, ToWait
  <2>2. CASE TickPurge(w) \/ PurgeTerminalEvents(w) \/ Tick(w) \/ SweepExhausted(w)
    BY <2>1, <2>2, <2>a, <2>b, <1>p, <1>t
    DEF TickPurge, PurgeTerminalEvents, Tick, SweepExhausted, ToSweep, TypeOK
  <2>3. ASSUME NEW j \in Jobs, Claim(w, j) PROVE Place(w)'
    <3>1. job[j].attempts < MaxAttempts /\ job[j].attempts \in Nat
      BY <2>3, <1>t DEF Claim, Claimable, TypeOK, Row
    <3>2. [job |-> j, attempt |-> job[j].attempts + 1, result |-> "none"] # None
      BY <3>1, HeldType, LimitsAssumption
    <3> QED BY <2>3, <2>b, <3>2, <1>p, <1>t DEF Claim, TypeOK
  <2>4. CASE NothingToClaim(w) \/ TickFails(w) \/ FinishThrows(w)
               \/ \E j \in Jobs : ClaimLost(w, j)
    BY <2>4, <1>p, <1>t DEF ClaimLost, NothingToClaim, TickFails, FinishThrows, ToWait, TypeOK
  <2>5. ASSUME NEW r \in Results, Deliver(w, r) PROVE Place(w)'
    <3>1. hand[w] \in Held
      BY <2>5, <1>p, <1>t DEF Deliver, TypeOK
    <3>2. [hand[w] EXCEPT !.result = r] # None /\ [hand[w] EXCEPT !.result = r].result = r
      BY <3>1, AnswerType
    <3>3. r # "none"
      BY DEF Results
    <3> QED BY <2>5, <2>b, <3>2, <3>3, <1>p, <1>t DEF Deliver, TypeOK
  <2>6. CASE Finish(w)
    <3>1. left[w] \in 0..Batch /\ left[w] > 0 /\ proc[w] # "new"
      BY <2>6, <2>b, <1>p, <1>t DEF Finish, TypeOK
    <3> QED BY <2>1, <2>6, <3>1, <1>t, LimitsAssumption DEF Finish, ToSweep, TypeOK
  <2> QED BY <1>4, <2>1, <2>2, <2>3, <2>4, <2>5, <2>6 DEF Work
<1> QED BY <1>2, <1>3, <1>4 DEF Next


\* What a step may do to a row, seen from a worker that owns it afterwards: the row
\* is as it was, or a lease or a back-off has run out, or the worker has just
\* claimed it.
LEMMA OwnedRows ==
    ASSUME Core, [Next]_vars, NEW v \in Workers, NEW i \in Jobs, Owns(v, i)'
    PROVE  \/ Owns(v, i) /\ job'[i].attempts = job[i].attempts
           \/ Claim(v, i) \/ ClaimLost(v, i)
<1> DEFINE Goal == \/ Owns(v, i) /\ job'[i].attempts = job[i].attempts
                   \/ Claim(v, i) \/ ClaimLost(v, i)
<1> SUFFICES Goal
  OBVIOUS
<1>t. TypeOK /\ HandInTick /\ job[i] \in Row /\ job'[i].status = "processing" /\ job'[i].owner = v
  BY DEF Core, TypeOK, Owns
<1>a. \A s \in Status : Blank(s).status = s
  BY BlankType
<1>b. job'[i] = job[i] => Goal
  BY <1>t DEF Owns
<1>c. \A s : job'[i] = Settled(job[i], s) => s = "processing"
  BY <1>t, SettledColumns
<1>1. CASE UNCHANGED vars
  BY <1>1, <1>b DEF vars
<1>2. CASE Request
  <2>1. ASSUME NEW e \in Events, DeleteEvent(e) PROVE Goal
    BY <2>1, <1>t, <1>a, <1>b DEF DeleteEvent, Erased, Status
  <2>2. ASSUME NEW e \in Events, NEW C \in SUBSET Channels, Enqueue(e, C) PROVE Goal
    BY <2>2, <1>t, <1>a, <1>b DEF Enqueue, Status, Outstanding
  <2>3. ASSUME NEW j \in Jobs, Replay(j) PROVE Goal
    BY <2>3, <1>t, <1>a, <1>b DEF Replay, TypeOK, Status, Outstanding
  <2> HIDE DEF Goal
  <2> QED BY <1>2, <2>1, <2>2, <2>3 DEF Request
<1>3. CASE Clock
  <2>1. ASSUME NEW e \in Events, EventAges(e) PROVE Goal
    BY <2>1, <1>b DEF EventAges
  <2>2. ASSUME NEW j \in Jobs, LeaseExpires(j) PROVE Goal
    BY <2>2, <1>t, <1>b DEF LeaseExpires, TypeOK, Row, Owns
  <2>3. ASSUME NEW j \in Jobs, BackoffPasses(j) PROVE Goal
    BY <2>3, <1>t, <1>b DEF BackoffPasses, TypeOK, Row, Owns
  <2> HIDE DEF Goal
  <2> QED BY <1>3, <2>1, <2>2, <2>3 DEF Clock
<1>4. ASSUME NEW w \in Workers, Process(w) PROVE Goal
  BY <1>4, <1>b DEF Process, Boot, Stop, Die
<1>5. ASSUME NEW w \in Workers, Work(w) PROVE Goal
  <2>1. CASE TickPurge(w) \/ Tick(w) \/ NothingToClaim(w) \/ TickFails(w)
    BY <2>1, <1>b DEF TickPurge, Tick, NothingToClaim, TickFails
  <2>2. CASE PurgeTerminalEvents(w)
    BY <2>2, <1>t, <1>a, <1>b DEF PurgeTerminalEvents, Erased, Status
  <2>3. CASE SweepExhausted(w)
    BY <2>3, <1>b, <1>c DEF SweepExhausted
  <2>4. ASSUME NEW j \in Jobs, Claim(w, j) \/ ClaimLost(w, j) PROVE Goal
    <3>1. job' = [job EXCEPT ![j] = Leased(job[j], w)]
      BY <2>4 DEF Claim, ClaimLost
    <3>2. CASE i = j
      BY <2>4, <3>1, <3>2, <1>t, LeasedColumns DEF TypeOK
    <3>3. CASE i # j
      BY <3>1, <3>3, <1>b, <1>t DEF TypeOK
    <3> QED BY <3>2, <3>3
  <2>5. ASSUME NEW r \in Results, Deliver(w, r) PROVE Goal
    BY <2>5, <1>b DEF Deliver
  <2>6. ASSUME step[w] = "finish", Record(w) PROVE Goal
    <3>1. hand[w] \in Held /\ hand[w].result # "none" /\ hand[w].job \in Jobs
      BY <2>6, RecordRows
    <3>2. Verdict(hand[w]) # "processing"
      BY <3>1, VerdictRange
    <3>3. \/ job' = job
          \/ job' = [job EXCEPT ![hand[w].job] = Settled(job[hand[w].job], Verdict(hand[w]))]
      BY <2>6, RecordRows
    <3> QED BY <3>1, <3>2, <3>3, <1>b, <1>c, <1>t DEF TypeOK
  <2>7. CASE Finish(w) \/ FinishThrows(w)
    BY <2>6, <2>7, <1>b DEF Finish, FinishThrows
  <2> HIDE DEF Goal
  <2> QED BY <1>5, <2>1, <2>2, <2>3, <2>4, <2>5, <2>7 DEF Work
<1> HIDE DEF Goal
<1> QED BY <1>1, <1>2, <1>3, <1>4, <1>5 DEF Next

\* A job in hand after a step was in hand before it, for the same attempt, or has
\* just been claimed.
LEMMA Hands ==
    ASSUME Core, [Next]_vars, NEW v \in Workers, hand'[v] # None
    PROVE  \/ /\ hand[v] # None
              /\ hand'[v].job = hand[v].job /\ hand'[v].attempt = hand[v].attempt
           \/ \E j \in Jobs : Claim(v, j)
<1> DEFINE Goal == \/ /\ hand[v] # None
                      /\ hand'[v].job = hand[v].job /\ hand'[v].attempt = hand[v].attempt
                   \/ \E j \in Jobs : Claim(v, j)
<1> SUFFICES Goal
  OBVIOUS
<1>t. TypeOK /\ HandInTick
  BY DEF Core
<1>1. CASE UNCHANGED hand
  BY <1>1
<1>2. CASE Request \/ Clock \/ UNCHANGED vars
  BY <1>1, <1>2 DEF Request, Clock, vars, DeleteEvent, Enqueue, Replay, EventAges,
     LeaseExpires, BackoffPasses
<1>3. ASSUME NEW w \in Workers, Process(w) PROVE Goal
  BY <1>1, <1>3, <1>t DEF Process, Boot, Stop, Die, TypeOK
<1>4. ASSUME NEW w \in Workers, Work(w) PROVE Goal
  <2>1. CASE hand'[v] = hand[v]
    BY <2>1
  <2>2. CASE hand'[w] = None /\ \A u \in Workers \ {w} : hand'[u] = hand[u]
    BY <2>1, <2>2
  <2>3. CASE TickPurge(w) \/ PurgeTerminalEvents(w) \/ Tick(w) \/ SweepExhausted(w)
    BY <1>1, <2>3 DEF TickPurge, PurgeTerminalEvents, Tick, SweepExhausted
  <2>4. CASE NothingToClaim(w) \/ TickFails(w) \/ Finish(w) \/ FinishThrows(w)
               \/ \E j \in Jobs : ClaimLost(w, j)
    <3>1. hand' = [hand EXCEPT ![w] = None]
      BY <2>4 DEF ClaimLost, NothingToClaim, TickFails, Finish, FinishThrows, ToWait
    <3> QED BY <2>2, <3>1, <1>t DEF TypeOK
  <2>5. ASSUME NEW j \in Jobs, Claim(w, j) PROVE Goal
    <3>1. CASE v = w
      BY <2>5, <3>1
    <3>2. CASE v # w
      BY <2>1, <2>5, <3>2, <1>t DEF Claim, TypeOK
    <3> QED BY <3>1, <3>2
  <2>6. ASSUME NEW r \in Results, Deliver(w, r) PROVE Goal
    <3>1. hand[w] # None /\ hand[w] \in Held
      BY <2>6, <1>t DEF Deliver, HandInTick, TypeOK
    <3>2. hand' = [hand EXCEPT ![w] = [hand[w] EXCEPT !.result = r]]
      BY <2>6 DEF Deliver
    <3>3. CASE v = w
      BY <3>1, <3>2, <3>3, <1>t, AnswerType DEF TypeOK
    <3>4. CASE v # w
      BY <2>1, <3>2, <3>4, <1>t DEF TypeOK
    <3> QED BY <3>3, <3>4
  <2> HIDE DEF Goal
  <2> QED BY <1>4, <2>3, <2>4, <2>5, <2>6 DEF Work
<1> HIDE DEF Goal
<1> QED BY <1>2, <1>3, <1>4 DEF Next

\* Every step keeps the lease a fence around the attempt in hand.
LEMMA FenceStep == Core /\ [Next]_vars => OwnerFencesAttempt'
<1> SUFFICES ASSUME Core, [Next]_vars, NEW v \in Workers,
                    hand'[v] # None, job'[hand'[v].job].status = "processing",
                    job'[hand'[v].job].owner = v
             PROVE  hand'[v].attempt = job'[hand'[v].job].attempts
  BY DEF OwnerFencesAttempt, Owns
<1>t. TypeOK /\ HandInTick /\ OwnerFencesAttempt /\ TypeOK'
  BY TypeStep DEF Core
<1>1. hand'[v].job \in Jobs
  BY <1>t DEF TypeOK, Held
<1>2. ASSUME NEW j \in Jobs, Claim(v, j)
      PROVE  hand'[v].attempt = job'[hand'[v].job].attempts
  <2>1. hand'[v] = [job |-> j, attempt |-> job[j].attempts + 1, result |-> "none"]
    BY <1>2, <1>t DEF Claim, TypeOK
  <2>2. job'[j] = Leased(job[j], v) /\ job[j] \in Row
    BY <1>2, <1>t DEF Claim, TypeOK
  <2>3. job'[j].attempts = job[j].attempts + 1
    BY <2>2, LeasedColumns
  <2>4. hand'[v].job = j /\ hand'[v].attempt = job[j].attempts + 1
    BY <2>1
  <2> QED BY <2>3, <2>4
<1>3. CASE hand[v] # None /\ hand'[v].job = hand[v].job /\ hand'[v].attempt = hand[v].attempt
  <2>1. ASSUME NEW j \in Jobs PROVE ~ClaimLost(v, j)
    BY <1>3, <1>t DEF ClaimLost, HandInTick
  <2>2. CASE Owns(v, hand'[v].job) /\ job'[hand'[v].job].attempts = job[hand'[v].job].attempts
    BY <1>3, <1>t, <2>2 DEF OwnerFencesAttempt
  <2>3. \/ Owns(v, hand'[v].job) /\ job'[hand'[v].job].attempts = job[hand'[v].job].attempts
        \/ Claim(v, hand'[v].job) \/ ClaimLost(v, hand'[v].job)
    <3> DEFINE i == hand'[v].job
    <3>1. i \in Jobs
      BY <1>1
    <3>2. job'[i].status = "processing" /\ job'[i].owner = v
      OBVIOUS
    <3> HIDE DEF i
    <3>3. \/ Owns(v, i) /\ job'[i].attempts = job[i].attempts
          \/ Claim(v, i) \/ ClaimLost(v, i)
      BY <3>1, <3>2, OwnedRows DEF Owns
    <3> QED BY <3>3 DEF i
  <2> QED BY <1>1, <1>2, <2>1, <2>2, <2>3
<1> QED BY <1>2, <1>3, Hands


\* No row goes back to absent, and an absent one is not touched.
LEMMA AbsentRows ==
    ASSUME Core, [Next]_vars, NEW i \in Jobs, job'[i].status = "absent"
    PROVE  job[i].status = "absent" /\ job'[i].attempts = job[i].attempts
<1> DEFINE Goal == job[i].status = "absent" /\ job'[i].attempts = job[i].attempts
<1> SUFFICES Goal
  OBVIOUS
<1>t. TypeOK /\ job[i] \in Row /\ job'[i].status = "absent"
  BY DEF Core, TypeOK
<1>a. \A s \in Status : Blank(s).status = s
  BY BlankType
<1>b. job'[i] = job[i] => Goal
  OBVIOUS
<1>c. \A s : job'[i] = Settled(job[i], s) => s = "absent"
  BY <1>t, SettledColumns
<1>1. CASE UNCHANGED vars
  BY <1>1, <1>b DEF vars
<1>2. CASE Request
  <2>1. ASSUME NEW e \in Events, DeleteEvent(e) PROVE Goal
    BY <2>1, <1>t, <1>a, <1>b DEF DeleteEvent, Erased, Status
  <2>2. ASSUME NEW e \in Events, NEW C \in SUBSET Channels, Enqueue(e, C) PROVE Goal
    BY <2>2, <1>t, <1>a, <1>b DEF Enqueue, Status, Outstanding
  <2>3. ASSUME NEW j \in Jobs, Replay(j) PROVE Goal
    BY <2>3, <1>t, <1>a, <1>b DEF Replay, TypeOK, Status, Outstanding
  <2> HIDE DEF Goal
  <2> QED BY <1>2, <2>1, <2>2, <2>3 DEF Request
<1>3. CASE Clock
  <2>1. ASSUME NEW e \in Events, EventAges(e) PROVE Goal
    BY <2>1, <1>b DEF EventAges
  <2>2. ASSUME NEW j \in Jobs, LeaseExpires(j) PROVE Goal
    BY <2>2, <1>t DEF LeaseExpires, TypeOK, Row
  <2>3. ASSUME NEW j \in Jobs, BackoffPasses(j) PROVE Goal
    BY <2>3, <1>t DEF BackoffPasses, TypeOK, Row
  <2> HIDE DEF Goal
  <2> QED BY <1>3, <2>1, <2>2, <2>3 DEF Clock
<1>4. ASSUME NEW w \in Workers, Process(w) PROVE Goal
  BY <1>4, <1>b DEF Process, Boot, Stop, Die
<1>5. ASSUME NEW w \in Workers, Work(w) PROVE Goal
  <2>1. CASE TickPurge(w) \/ Tick(w) \/ NothingToClaim(w) \/ TickFails(w)
    BY <2>1, <1>b DEF TickPurge, Tick, NothingToClaim, TickFails
  <2>2. CASE PurgeTerminalEvents(w)
    BY <2>2, <1>t, <1>a, <1>b DEF PurgeTerminalEvents, Erased, Status
  <2>3. CASE SweepExhausted(w)
    BY <2>3, <1>b, <1>c DEF SweepExhausted
  <2>4. ASSUME NEW j \in Jobs, Claim(w, j) \/ ClaimLost(w, j) PROVE Goal
    <3>1. job' = [job EXCEPT ![j] = Leased(job[j], w)]
      BY <2>4 DEF Claim, ClaimLost
    <3>2. CASE i = j
      BY <3>1, <3>2, <1>t, LeasedColumns DEF TypeOK
    <3>3. CASE i # j
      BY <3>1, <3>3, <1>b, <1>t DEF TypeOK
    <3> QED BY <3>2, <3>3
  <2>5. ASSUME NEW r \in Results, Deliver(w, r) PROVE Goal
    BY <2>5, <1>b DEF Deliver
  <2>6. ASSUME step[w] = "finish", Record(w) PROVE Goal
    <3>1. hand[w] \in Held /\ hand[w].result # "none" /\ hand[w].job \in Jobs
      BY <2>6, RecordRows
    <3>2. Verdict(hand[w]) # "absent"
      BY <3>1, VerdictRange
    <3>3. \/ job' = job
          \/ job' = [job EXCEPT ![hand[w].job] = Settled(job[hand[w].job], Verdict(hand[w]))]
      BY <2>6, RecordRows
    <3> QED BY <3>1, <3>2, <3>3, <1>b, <1>c, <1>t DEF TypeOK
  <2>7. CASE Finish(w) \/ FinishThrows(w)
    BY <2>6, <2>7, <1>b DEF Finish, FinishThrows
  <2> HIDE DEF Goal
  <2> QED BY <1>5, <2>1, <2>2, <2>3, <2>4, <2>5, <2>7 DEF Work
<1> HIDE DEF Goal
<1> QED BY <1>1, <1>2, <1>3, <1>4, <1>5 DEF Next

\* What a worker holds after a step it held before, has just claimed, or has just got
\* an answer for.
LEMMA HandSteps ==
    ASSUME Core, [Next]_vars, NEW v \in Workers, hand'[v] # None
    PROVE  \/ hand'[v] = hand[v]
           \/ \E j \in Jobs : Claim(v, j)
           \/ \E r \in Results : Deliver(v, r)
<1> DEFINE Goal == \/ hand'[v] = hand[v]
                   \/ \E j \in Jobs : Claim(v, j)
                   \/ \E r \in Results : Deliver(v, r)
<1> SUFFICES Goal
  OBVIOUS
<1>t. hand \in [Workers -> Held \cup {None}]
  BY DEF Core, TypeOK
<1>1. CASE Request \/ Clock \/ UNCHANGED vars
  BY <1>1 DEF Request, Clock, vars, DeleteEvent, Enqueue, Replay, EventAges,
     LeaseExpires, BackoffPasses
<1>2. ASSUME NEW w \in Workers, Process(w) PROVE Goal
  BY <1>2, <1>t DEF Process, Boot, Stop, Die
<1>3. ASSUME NEW w \in Workers, Work(w) PROVE Goal
  <2>1. CASE v = w
    <3>1. CASE TickPurge(w) \/ PurgeTerminalEvents(w) \/ Tick(w) \/ SweepExhausted(w)
      BY <3>1 DEF TickPurge, PurgeTerminalEvents, Tick, SweepExhausted
    <3>2. CASE NothingToClaim(w) \/ TickFails(w) \/ Finish(w) \/ FinishThrows(w)
                 \/ \E j \in Jobs : ClaimLost(w, j)
      <4>1. hand' = [hand EXCEPT ![w] = None]
        BY <3>2 DEF ClaimLost, NothingToClaim, TickFails, Finish, FinishThrows, ToWait
      <4> QED BY <2>1, <4>1, <1>t
    <3> HIDE DEF Goal
    <3>3. (\E j \in Jobs : Claim(w, j)) \/ (\E r \in Results : Deliver(w, r)) => Goal
      BY <2>1 DEF Goal
    <3> QED BY <1>3, <3>1, <3>2, <3>3 DEF Work
  <2>2. CASE v # w
    <3>1. hand'[v] = hand[v]
      BY <1>3, <2>2, <1>t DEF Work, TickPurge, PurgeTerminalEvents, Tick, SweepExhausted,
         Claim, ClaimLost, NothingToClaim, TickFails, Deliver, Finish, FinishThrows, ToWait
    <3> QED BY <3>1
  <2> QED BY <2>1, <2>2
<1> HIDE DEF Goal
<1> QED BY <1>1, <1>2, <1>3 DEF Next

\* The ghost changes when a delivery comes to something, and when it is replayed.
LEMMA AnswerSteps ==
    ASSUME Core, [Next]_vars, NEW i \in Jobs
    PROVE  \/ answers'[i] = answers[i]
           \/ Replay(i)
           \/ \E w \in Workers, r \in Results :
                /\ Deliver(w, r) /\ hand[w].job = i
                /\ answers'[i] = answers[i] \cup ({r} \cap Answers)
<1> DEFINE Goal == \/ answers'[i] = answers[i]
                   \/ Replay(i)
                   \/ \E w \in Workers, r \in Results :
                        /\ Deliver(w, r) /\ hand[w].job = i
                        /\ answers'[i] = answers[i] \cup ({r} \cap Answers)
<1> SUFFICES Goal
  OBVIOUS
<1>t. answers \in [Jobs -> SUBSET Answers]
  BY DEF Core, TypeOK
<1>1. CASE UNCHANGED answers
  BY <1>1
<1>2. ASSUME NEW j \in Jobs, Replay(j) PROVE Goal
  BY <1>2, <1>t DEF Replay
<1>3. CASE Request \/ Clock \/ UNCHANGED vars
  <2> HIDE DEF Goal
  <2> QED BY <1>1, <1>2, <1>3 DEF Request, Clock, vars, DeleteEvent, Enqueue, EventAges,
             LeaseExpires, BackoffPasses
<1>4. ASSUME NEW w \in Workers, Process(w) PROVE Goal
  BY <1>1, <1>4 DEF Process, Boot, Stop, Die
<1>5. ASSUME NEW w \in Workers, NEW r \in Results, Deliver(w, r) PROVE Goal
  <2>1. answers' = [answers EXCEPT ![hand[w].job] = answers[hand[w].job] \cup ({r} \cap Answers)]
    BY <1>5 DEF Deliver
  <2>2. CASE hand[w].job = i
    BY <1>5, <1>t, <2>1, <2>2
  <2>3. CASE hand[w].job # i
    BY <1>t, <2>1, <2>3
  <2> QED BY <2>2, <2>3
<1>6. ASSUME NEW w \in Workers, Work(w) PROVE Goal
  <2> HIDE DEF Goal
  <2> QED BY <1>1, <1>5, <1>6 DEF Work, TickPurge, PurgeTerminalEvents, Tick, SweepExhausted,
             Claim, ClaimLost, NothingToClaim, TickFails, Finish, FinishThrows
<1> HIDE DEF Goal
<1> QED BY <1>3, <1>4, <1>6 DEF Next

\* Every step keeps the ghost and the table in tune.
LEMMA AnswersStep == IInv /\ [Next]_vars => AnswersKnown'
<1> SUFFICES ASSUME IInv, [Next]_vars PROVE AnswersKnown'
  OBVIOUS
<1>c. Core /\ TypeOK /\ AnswersKnown /\ HandInTick
  BY DEF IInv, Core
<1>1. ASSUME NEW i \in Jobs, job'[i].status = "absent"
      PROVE  answers'[i] = {} /\ job'[i].attempts = 0
  <2>1. job[i].status = "absent" /\ job'[i].attempts = job[i].attempts
    BY <1>1, <1>c, AbsentRows
  <2>2. answers[i] = {} /\ job[i].attempts = 0
    BY <2>1, <1>c DEF AnswersKnown
  <2>3. ~Replay(i)
    BY <2>1 DEF Replay
  <2>4. ASSUME NEW w \in Workers, NEW r \in Results, Deliver(w, r) PROVE hand[w].job # i
    <3>1. hand[w] # None
      BY <2>4, <1>c DEF Deliver, HandInTick
    <3> QED BY <2>1, <3>1, <1>c DEF AnswersKnown
  <2> QED BY <1>c, <2>1, <2>2, <2>3, <2>4, AnswerSteps
<1>2. ASSUME NEW v \in Workers, hand'[v] # None
      PROVE  /\ hand'[v].job \in Jobs
             /\ job'[hand'[v].job].status # "absent"
  <2>1. hand'[v].job \in Jobs
    BY <1>2, <1>c, TypeStep DEF TypeOK, Held
  <2>2. ASSUME NEW j \in Jobs, Claim(v, j) PROVE job'[hand'[v].job].status # "absent"
    <3>1. hand'[v] = [job |-> j, attempt |-> job[j].attempts + 1, result |-> "none"]
      BY <2>2, <1>c DEF Claim, TypeOK
    <3>2. job'[j] = Leased(job[j], v) /\ job[j] \in Row
      BY <2>2, <1>c DEF Claim, TypeOK
    <3>3. job'[j].status = "processing"
      BY <3>2, LeasedColumns
    <3>4. hand'[v].job = j
      BY <3>1
    <3> QED BY <3>3, <3>4
  <2>3. CASE hand[v] # None /\ hand'[v].job = hand[v].job
    <3>1. job[hand'[v].job].status # "absent"
      BY <2>3, <1>c DEF AnswersKnown
    <3> QED BY <2>1, <3>1, <1>c, AbsentRows
  <2> QED BY <1>2, <1>c, <2>1, <2>2, <2>3, Hands
<1>3. ASSUME NEW v \in Workers, hand'[v] # None, hand'[v].result \in Answers,
             job'[hand'[v].job].status = "processing", job'[hand'[v].job].owner = v
      PROVE  hand'[v].result \in answers'[hand'[v].job]
  <2> DEFINE i == hand'[v].job
  <2>1. i \in Jobs /\ job'[i].status = "processing" /\ job'[i].owner = v
    BY <1>2, <1>3
  <2>2. ASSUME NEW j \in Jobs PROVE ~Claim(v, j)
    <3>1. SUFFICES ASSUME Claim(v, j) PROVE FALSE
      OBVIOUS
    <3>2. hand'[v] = [job |-> j, attempt |-> job[j].attempts + 1, result |-> "none"]
      BY <3>1, <1>c DEF Claim, TypeOK
    <3>3. hand'[v].result = "none"
      BY <3>2
    <3> QED BY <1>3, <3>3 DEF Answers, Results
  <2>3. ASSUME NEW j \in Jobs PROVE ~ClaimLost(v, j)
    BY <1>3, <1>c DEF ClaimLost, ToWait, TypeOK
  <2>4. Owns(v, i)
    <3> HIDE DEF i
    <3>1. \/ Owns(v, i) /\ job'[i].attempts = job[i].attempts
          \/ Claim(v, i) \/ ClaimLost(v, i)
      BY <2>1, <1>c, OwnedRows DEF Owns
    <3> QED BY <2>1, <2>2, <2>3, <3>1
  <2>5. ~Replay(i)
    BY <2>4 DEF Replay, Owns
  <2>6. CASE hand'[v] = hand[v]
    <3>1. hand[v].result \in answers[i]
      BY <1>3, <2>4, <2>6, <1>c DEF AnswersKnown
    <3>2. answers[i] \subseteq answers'[i]
      <4> HIDE DEF i
      <4> QED BY <2>1, <2>5, <1>c, AnswerSteps
    <3> QED BY <2>6, <3>1, <3>2
  <2>7. ASSUME NEW r \in Results, Deliver(v, r) PROVE hand'[v].result \in answers'[i]
    <3>1. hand[v] # None /\ hand[v] \in Held
      BY <2>7, <1>c DEF Deliver, HandInTick, TypeOK
    <3>2. hand'[v] = [hand[v] EXCEPT !.result = r]
      BY <2>7, <1>c DEF Deliver, TypeOK
    <3>3. hand'[v].result = r /\ i = hand[v].job
      BY <3>1, <3>2, AnswerType
    <3>4. answers'[i] = answers[i] \cup ({r} \cap Answers)
      BY <2>1, <2>7, <3>3, <1>c DEF Deliver, TypeOK
    <3> QED BY <1>3, <3>3, <3>4
  <2> QED BY <1>3, <1>c, <2>2, <2>6, <2>7, HandSteps
<1> QED BY <1>1, <1>2, <1>3 DEF AnswersKnown, Owns

\* On SQLite a step that leaves a row dead found it dead, or out of attempts, or
\* records a refusal.
LEMMA DeadStep == IInv /\ [Next]_vars => DeadLetterIsEarned'
<1> SUFFICES ASSUME IInv, [Next]_vars, Dialect = "sqlite", NEW i \in Jobs,
                    job'[i].status = "dead_letter"
             PROVE  job'[i].attempts = MaxAttempts \/ "permanent" \in answers'[i]
  BY DEF DeadLetterIsEarned
<1> DEFINE Goal == job'[i].attempts = MaxAttempts \/ "permanent" \in answers'[i]
<1> SUFFICES Goal
  OBVIOUS
<1>t. TypeOK /\ Core /\ job[i] \in Row
  BY DEF IInv, Core, TypeOK
<1>a. \A s \in Status : Blank(s).status = s
  BY BlankType
<1>b. job'[i] = job[i] /\ answers[i] \subseteq answers'[i] => Goal
  BY DEF IInv, DeadLetterIsEarned
<1>1. CASE UNCHANGED vars
  BY <1>1, <1>b DEF vars
<1>2. CASE Request
  <2>1. ASSUME NEW e \in Events, DeleteEvent(e) PROVE Goal
    BY <2>1, <1>t, <1>a, <1>b DEF DeleteEvent, Erased, Status
  <2>2. ASSUME NEW e \in Events, NEW C \in SUBSET Channels, Enqueue(e, C) PROVE Goal
    BY <2>2, <1>t, <1>a, <1>b DEF Enqueue, Status, Outstanding
  <2>3. ASSUME NEW j \in Jobs, Replay(j) PROVE Goal
    <3>1. CASE i = j
      BY <2>3, <3>1, <1>t, <1>a DEF Replay, TypeOK, Status, Outstanding
    <3>2. CASE i # j
      BY <2>3, <3>2, <1>t DEF Replay, TypeOK, IInv, DeadLetterIsEarned
    <3> QED BY <3>1, <3>2
  <2> HIDE DEF Goal
  <2> QED BY <1>2, <2>1, <2>2, <2>3 DEF Request
<1>3. CASE Clock
  <2>1. ASSUME NEW e \in Events, EventAges(e) PROVE Goal
    BY <2>1, <1>b DEF EventAges
  <2>2. ASSUME NEW j \in Jobs, LeaseExpires(j) \/ BackoffPasses(j) PROVE Goal
    <3>1. job'[i].status = job[i].status /\ job'[i].attempts = job[i].attempts
      BY <2>2, <1>t DEF LeaseExpires, BackoffPasses, TypeOK, Row
    <3>2. answers' = answers
      BY <2>2 DEF LeaseExpires, BackoffPasses
    <3> QED BY <3>1, <3>2 DEF IInv, DeadLetterIsEarned
  <2> HIDE DEF Goal
  <2> QED BY <1>3, <2>1, <2>2 DEF Clock
<1>4. ASSUME NEW w \in Workers, Process(w) PROVE Goal
  BY <1>4, <1>b DEF Process, Boot, Stop, Die
<1>5. ASSUME NEW w \in Workers, Work(w) PROVE Goal
  <2>1. CASE TickPurge(w) \/ Tick(w) \/ NothingToClaim(w) \/ TickFails(w)
    BY <2>1, <1>b DEF TickPurge, Tick, NothingToClaim, TickFails
  <2>2. CASE PurgeTerminalEvents(w)
    BY <2>2, <1>t, <1>a, <1>b DEF PurgeTerminalEvents, Erased, Status
  <2>3. CASE SweepExhausted(w)
    <3>1. Selected(w, Exhausted) = Exhausted
      BY DEF Selected
    <3>2. CASE i \in Exhausted
      <4>1. job[i].attempts = MaxAttempts
        BY <3>2, <1>t, LimitsAssumption DEF Exhausted, Row
      <4>2. job'[i] = Settled(job[i], "dead_letter") \/ job'[i] = job[i]
        BY <2>3 DEF SweepExhausted
      <4> QED BY <4>1, <4>2, <1>t, SettledColumns
    <3>3. CASE i \notin Exhausted
      BY <2>3, <3>1, <3>3, <1>b DEF SweepExhausted
    <3> QED BY <3>2, <3>3
  <2>4. ASSUME NEW j \in Jobs, Claim(w, j) \/ ClaimLost(w, j) PROVE Goal
    <3>1. job' = [job EXCEPT ![j] = Leased(job[j], w)] /\ answers' = answers
      BY <2>4 DEF Claim, ClaimLost
    <3>2. i # j
      BY <3>1, <1>t, LeasedColumns DEF TypeOK
    <3> QED BY <3>1, <3>2, <1>b, <1>t DEF TypeOK
  <2>5. ASSUME NEW r \in Results, Deliver(w, r) PROVE Goal
    BY <2>5, <1>b DEF Deliver
  <2>6. ASSUME step[w] = "finish", Record(w), answers' = answers PROVE Goal
    <3> DEFINE h == hand[w]
    <3>1. h \in Held /\ h.result # "none" /\ h.job \in Jobs
      BY <2>6, <1>t, RecordRows
    <3>2. CASE UNCHANGED job
      BY <2>6, <3>2, <1>b
    <3>3. CASE /\ Owns(w, h.job)
               /\ job[h.job].attempts = h.attempt
               /\ job' = [job EXCEPT ![h.job] = Settled(job[h.job], Verdict(h))]
      <4>1. CASE i = h.job
        <5>1. job'[i] = Settled(job[i], Verdict(h))
          BY <3>3, <4>1, <1>t DEF TypeOK
        <5>2. Verdict(h) = "dead_letter" /\ job'[i].attempts = h.attempt
          BY <5>1, <3>3, <4>1, <1>t, SettledColumns
        <5>3. h.result \in {"transient", "permanent"}
          BY <5>2, <3>1 DEF Verdict, Held, Results
        <5>4. h.result = "transient" => h.attempt = MaxAttempts
          BY <5>2, <3>1, LimitsAssumption DEF Verdict, Held
        <5>5. h.result = "permanent" => "permanent" \in answers[i]
          BY <2>6, <3>3, <4>1 DEF IInv, AnswersKnown, HandInTick, Answers, Results
        <5> QED BY <2>6, <5>2, <5>3, <5>4, <5>5, <3>3
      <4>2. CASE i # h.job
        BY <2>6, <3>1, <3>3, <4>2, <1>b, <1>t DEF TypeOK
      <4> QED BY <4>1, <4>2
    <3> QED BY <2>6, <1>t, <3>2, <3>3, RecordRows
  <2>7. CASE Finish(w) \/ FinishThrows(w)
    BY <2>6, <2>7, <1>b DEF Finish, FinishThrows
  <2> HIDE DEF Goal
  <2> QED BY <1>5, <2>1, <2>2, <2>3, <2>4, <2>5, <2>7 DEF Work
<1> HIDE DEF Goal
<1> QED BY <1>1, <1>2, <1>3, <1>4, <1>5 DEF Next

\* On SQLite a succeeded row is only ever left alone or deleted with its event.
LEMMA SucceededStep ==
    ASSUME Core, [Next]_vars, Dialect = "sqlite", NEW i \in Jobs,
           job[i].status = "succeeded"
    PROVE  job'[i].status \in {"succeeded", "deleted"}
<1> DEFINE Goal == job'[i].status \in {"succeeded", "deleted"}
<1> SUFFICES Goal
  OBVIOUS
<1>t. TypeOK /\ job[i] \in Row
  BY DEF Core, TypeOK
<1>a. \A s \in Status : Blank(s).status = s
  BY BlankType
<1>b. job'[i] = job[i] => Goal
  OBVIOUS
<1>1. CASE UNCHANGED vars
  BY <1>1 DEF vars
<1>2. CASE Request
  <2>1. ASSUME NEW e \in Events, DeleteEvent(e) PROVE Goal
    BY <2>1, <1>a DEF DeleteEvent, Erased, Status
  <2>2. ASSUME NEW e \in Events, NEW C \in SUBSET Channels, Enqueue(e, C) PROVE Goal
    BY <2>2 DEF Enqueue
  <2>3. ASSUME NEW j \in Jobs, Replay(j) PROVE Goal
    BY <2>3, <1>t DEF Replay, TypeOK
  <2> HIDE DEF Goal
  <2> QED BY <1>2, <2>1, <2>2, <2>3 DEF Request
<1>3. CASE Clock
  <2>1. ASSUME NEW e \in Events, EventAges(e) PROVE Goal
    BY <2>1 DEF EventAges
  <2>2. ASSUME NEW j \in Jobs, LeaseExpires(j) PROVE Goal
    BY <2>2, <1>t DEF LeaseExpires, TypeOK, Row
  <2>3. ASSUME NEW j \in Jobs, BackoffPasses(j) PROVE Goal
    BY <2>3, <1>t DEF BackoffPasses, TypeOK, Row
  <2> HIDE DEF Goal
  <2> QED BY <1>3, <2>1, <2>2, <2>3 DEF Clock
<1>4. ASSUME NEW w \in Workers, Process(w) PROVE Goal
  BY <1>4 DEF Process, Boot, Stop, Die
<1>5. ASSUME NEW w \in Workers, Work(w) PROVE Goal
  <2>1. CASE TickPurge(w) \/ Tick(w) \/ NothingToClaim(w) \/ TickFails(w)
    BY <2>1 DEF TickPurge, Tick, NothingToClaim, TickFails
  <2>2. CASE PurgeTerminalEvents(w)
    BY <2>2, <1>a DEF PurgeTerminalEvents, Erased, Status
  <2>3. CASE SweepExhausted(w)
    <3>1. i \notin Selected(w, Exhausted)
      BY DEF Selected, Exhausted
    <3> QED BY <2>3, <3>1 DEF SweepExhausted
  <2>4. ASSUME NEW j \in Jobs, Claim(w, j) \/ ClaimLost(w, j) PROVE Goal
    BY <2>4, <1>t DEF Claim, ClaimLost, Claimable, TypeOK
  <2>5. ASSUME NEW r \in Results, Deliver(w, r) PROVE Goal
    BY <2>5 DEF Deliver
  <2>6. ASSUME step[w] = "finish", Record(w) PROVE Goal
    BY <2>6, <1>t DEF Record, Owns, TypeOK
  <2>7. CASE Finish(w) \/ FinishThrows(w)
    BY <2>6, <2>7, <1>b DEF Finish, FinishThrows
  <2> HIDE DEF Goal
  <2> QED BY <1>5, <2>1, <2>2, <2>3, <2>4, <2>5, <2>7 DEF Work
<1> HIDE DEF Goal
<1> QED BY <1>1, <1>2, <1>3, <1>4, <1>5 DEF Next

-------------------------------------------------------------------------------
(* The outbox implements OutboxPromise *)

\* The abstract state the refinement mapping reads off the table.
Phases == [j \in Jobs |-> Phase(job[j].status)]
Tries == [j \in Jobs |-> job[j].attempts]

LEMMA PhaseOf ==
    /\ Phase("absent") = "none" /\ Phase("deleted") = "removed"
    /\ Phase("pending") = "owed" /\ Phase("processing") = "owed"
    /\ Phase("succeeded") = "succeeded" /\ Phase("skipped") = "skipped"
    /\ Phase("dead_letter") = "dead_letter"
  BY DEF Phase, Outstanding

\* A statement that moves some rows moves their deliveries.
LEMMA RowsMove ==
    ASSUME NEW S, NEW to,
           \A j \in Jobs : Phase(job'[j].status) = IF j \in S THEN to ELSE Phase(job[j].status)
    PROVE  Promise!Move(S, to)
  BY DEF Promise!Move

LEMMA SameTries ==
    ASSUME \A j \in Jobs : job'[j].attempts = job[j].attempts PROVE Tries' = Tries
  BY DEF Tries

\* A step that changes neither phases nor attempts is invisible.
LEMMA Invisible ==
    ASSUME \A j \in Jobs : /\ Phase(job'[j].status) = Phase(job[j].status)
                           /\ job'[j].attempts = job[j].attempts,
           answers' = answers
    PROVE  UNCHANGED <<Phases, Tries, answers>>
  BY DEF Phases, Tries

\* Deleting events removes the deliveries of all their channels.
LEMMA ErasedRemoves ==
    ASSUME NEW gone, Erased(gone), answers' = answers
    PROVE  \E S \in SUBSET Jobs : Promise!Remove(S)
<1> DEFINE S == {j \in Jobs : j[1] \in gone}
<1>1. \A j \in Jobs : job'[j] = IF j \in S THEN Blank("deleted") ELSE job[j]
  BY DEF Erased
<1>2. Blank("deleted").status = "deleted" /\ Blank("deleted").attempts = 0
  BY DEF Blank
<1> HIDE DEF S
<1>3. \A j \in Jobs : /\ Phase(job'[j].status) = IF j \in S THEN "removed" ELSE Phase(job[j].status)
                      /\ job'[j].attempts = IF j \in S THEN 0 ELSE job[j].attempts
  BY <1>1, <1>2, PhaseOf
<1>4. Promise!Move(S, "removed")
  BY <1>3, RowsMove
<1>5. Promise!Remove(S)
  BY <1>3, <1>4 DEF Promise!Remove
<1> QED BY <1>5 DEF S

LEMMA RequestImplements ==
    ASSUME IInv, Request PROVE [Promise!Next]_<<Phases, Tries, answers>>
<1>a. job \in [Jobs -> Row] /\ answers \in [Jobs -> SUBSET Answers]
  BY DEF IInv, TypeOK
<1>b. \A s \in Status : Blank(s).status = s /\ Blank(s).attempts = 0
  BY DEF Blank
<1>1. ASSUME NEW e \in Events, NEW C \in SUBSET Channels, Enqueue(e, C)
      PROVE  \E S \in SUBSET Jobs : Promise!Enqueue(S)
  <2> DEFINE S == {j \in Jobs : j \in {e} \X C /\ job[j].status = "absent"}
  <2>1. \A j \in Jobs : job'[j] = IF j \in S THEN Blank("pending") ELSE job[j]
    BY <1>1 DEF Enqueue
  <2>2. answers' = answers /\ S \subseteq Jobs
    BY <1>1 DEF Enqueue
  <2>3. \A j \in S : job[j].status = "absent" /\ answers[j] = {} /\ job[j].attempts = 0
    BY DEF IInv, AnswersKnown
  <2> HIDE DEF S
  <2>4. \A j \in Jobs : Phase(job'[j].status) = IF j \in S THEN "owed" ELSE Phase(job[j].status)
    BY <2>1, <1>b, PhaseOf DEF Status, Outstanding
  <2>5. \A j \in Jobs : job'[j].attempts = job[j].attempts
    BY <2>1, <2>3, <1>b DEF Status, Outstanding
  <2>6. Promise!Move(S, "owed") /\ Tries' = Tries
    BY <2>4, <2>5, RowsMove, SameTries
  <2>7. \A j \in S : Phase(job[j].status) = "none" /\ answers[j] = {}
    BY <2>3, PhaseOf
  <2>8. Promise!Enqueue(S)
    BY <2>2, <2>6, <2>7 DEF Promise!Enqueue, Tries
  <2> QED BY <2>2, <2>8
<1>2. ASSUME NEW j \in Jobs, Replay(j) PROVE Promise!Replay(j)
  <2>1. job[j].status = "dead_letter" /\ answers' = [answers EXCEPT ![j] = {}]
    BY <1>2 DEF Replay
  <2>2. \A i \in Jobs : job'[i] = IF i = j THEN Blank("pending") ELSE job[i]
    BY <1>2, <1>a DEF Replay
  <2>3. \A i \in Jobs : Phase(job'[i].status) = IF i \in {j} THEN "owed" ELSE Phase(job[i].status)
    BY <2>2, <1>b, PhaseOf DEF Status, Outstanding
  <2>4. Promise!Move({j}, "owed")
    BY <2>3, RowsMove
  <2>5. \A i \in Jobs : job'[i].attempts = IF i = j THEN 0 ELSE job[i].attempts
    BY <2>2, <1>b DEF Status, Outstanding
  <2>6. Tries' = [Tries EXCEPT ![j] = 0]
    BY <2>5 DEF Tries
  <2> QED BY <2>1, <2>4, <2>6, PhaseOf DEF Promise!Replay, Tries
<1>3. ASSUME NEW e \in Events, DeleteEvent(e) PROVE \E S \in SUBSET Jobs : Promise!Remove(S)
  <2>1. answers' = answers /\ Erased({e})
    BY <1>3 DEF DeleteEvent
  <2> QED BY <2>1, ErasedRemoves
<1>4. CASE \E e \in Events : DeleteEvent(e)
  BY <1>3, <1>4 DEF Promise!Next
<1> QED BY <1>1, <1>2, <1>4 DEF Request, Promise!Next

\* The verdict of finish settles a delivery as it came out, or owes it still.
LEMMA RecordImplements ==
    ASSUME IInv, NEW w \in Workers, step[w] = "finish", Record(w), answers' = answers
    PROVE  [Promise!Next]_<<Phases, Tries, answers>>
<1> DEFINE h == hand[w]
           to == Verdict(h)
<1>c. Core /\ job \in [Jobs -> Row]
  BY DEF IInv, Core, TypeOK
<1>1. h \in Held /\ h.job \in Jobs /\ h.result # "none" /\ h # None
  BY <1>c, RecordRows DEF Core, HandInTick
<1>2. CASE job' = job
  BY <1>2, Invisible
<1>3. CASE /\ Owns(w, h.job) /\ job[h.job].attempts = h.attempt
           /\ job' = [job EXCEPT ![h.job] = Settled(job[h.job], to)]
  <2>1. to \in {"succeeded", "skipped", "pending", "dead_letter"}
    BY <1>1, VerdictRange
  <2>2. h.result \in Answers => h.result \in answers[h.job]
    BY <1>1, <1>3 DEF IInv, AnswersKnown
  <2>3. \/ to = h.result /\ to \in {"succeeded", "skipped"}
        \/ to = "pending"
        \/ to = "dead_letter" /\ (h.result = "permanent" \/ h.attempt = MaxAttempts)
    BY <1>1, LimitsAssumption DEF Verdict, Held, Results
  <2>4. Phase(job[h.job].status) = "owed"
    BY <1>3, PhaseOf DEF Owns
  <2> DEFINE j == h.job
  <2>5. j \in Jobs /\ job[j] \in Row /\ job'[j] = Settled(job[j], to)
    BY <1>1, <1>3, <1>c
  <2>6. job'[j].status = to /\ job'[j].attempts = job[j].attempts
    BY <2>5, SettledColumns
  <2>7. \A i \in Jobs : i # j => job'[i] = job[i]
    BY <1>3, <1>c
  <2>8. \A i \in Jobs : job'[i].attempts = job[i].attempts
    BY <2>6, <2>7
  <2>t. h.result \in Results
    BY <1>1 DEF Held
  <2> HIDE DEF to
  <2>9. CASE to = "pending"
    <3>1. \A i \in Jobs : Phase(job'[i].status) = Phase(job[i].status)
      BY <2>4, <2>6, <2>7, <2>9, PhaseOf
    <3> QED BY <2>8, <3>1, Invisible
  <2>10. CASE to # "pending"
    <3>1. Phase(to) = to
      BY <2>1, <2>10, PhaseOf
    <3>2. \A i \in Jobs : Phase(job'[i].status) = IF i \in {j} THEN to ELSE Phase(job[i].status)
      BY <2>6, <2>7, <3>1
    <3>3. Promise!Move({j}, to) /\ Tries' = Tries
      BY <2>8, <3>2, RowsMove, SameTries
    <3>4. \/ to \in {"succeeded", "skipped"} /\ to \in answers[j]
          \/ to = "dead_letter" /\ (job[j].attempts = MaxAttempts \/ "permanent" \in answers[j])
      BY <1>3, <2>2, <2>3, <2>10 DEF Answers, Results
    <3>5. Promise!Settle(j, to)
      BY <2>4, <2>5, <3>3, <3>4 DEF Promise!Settle, Tries
    <3> QED BY <2>1, <2>5, <2>10, <3>5 DEF Promise!Next
  <2> QED BY <2>9, <2>10
<1> QED BY <1>c, <1>2, <1>3, RecordRows

\* A claim is a try, an outcome an answer, and the sweep expires what is exhausted.
LEMMA WorkImplements ==
    ASSUME IInv, NEW w \in Workers, Work(w) PROVE [Promise!Next]_<<Phases, Tries, answers>>
<1>c. Core /\ job \in [Jobs -> Row] /\ answers \in [Jobs -> SUBSET Answers]
  BY DEF IInv, Core, TypeOK
<1>1. CASE TickPurge(w) \/ Tick(w) \/ NothingToClaim(w) \/ TickFails(w)
  BY <1>1, Invisible DEF TickPurge, Tick, NothingToClaim, TickFails
<1>2. CASE PurgeTerminalEvents(w)
  <2>1. CASE job' = job
    BY <1>2, <2>1, Invisible DEF PurgeTerminalEvents
  <2>2. ASSUME NEW gone, Erased(gone) PROVE \E S \in SUBSET Jobs : Promise!Remove(S)
    BY <1>2, <2>2, ErasedRemoves DEF PurgeTerminalEvents
  <2> QED BY <1>2, <2>1, <2>2 DEF PurgeTerminalEvents, Promise!Next
<1>3. CASE SweepExhausted(w)
  <2> DEFINE S == {j \in Jobs : j \in Selected(w, Exhausted) /\ Exists(j)}
  <2>1. \A j \in Jobs : job'[j] = IF j \in S THEN Settled(job[j], "dead_letter") ELSE job[j]
    BY <1>3 DEF SweepExhausted
  <2>2. answers' = answers /\ S \subseteq Jobs
    BY <1>3 DEF SweepExhausted
  <2>3. ASSUME NEW j \in S
        PROVE  \/ Phase(job[j].status) = "owed" /\ job[j].attempts = MaxAttempts
               \/ Dialect = "postgres" /\ Phase(job[j].status) \notin {"none", "removed"}
    <3>1. CASE Dialect = "postgres"
      <4>1. job[j].status \in {"pending", "processing", "succeeded", "skipped", "dead_letter"}
        BY <1>c DEF Exists, Row, Status, Outstanding
      <4> QED BY <3>1, <4>1, PhaseOf
    <3>2. CASE Dialect # "postgres"
      <4>1. j \in Exhausted
        BY <3>2 DEF Selected
      <4>2. job[j].status = "processing" /\ job[j].attempts = MaxAttempts
        BY <4>1, <1>c, LimitsAssumption DEF Exhausted, Row
      <4> QED BY <4>2, PhaseOf
    <3> QED BY <3>1, <3>2
  <2> HIDE DEF S
  <2>4. \A j \in Jobs : /\ Phase(job'[j].status)
                              = IF j \in S THEN "dead_letter" ELSE Phase(job[j].status)
                        /\ job'[j].attempts = job[j].attempts
    BY <2>1, <1>c, SettledColumns, PhaseOf
  <2>5. Promise!Move(S, "dead_letter") /\ Tries' = Tries
    BY <2>4, RowsMove, SameTries
  <2>6. Promise!Expire(S)
    BY <2>2, <2>3, <2>5 DEF Promise!Expire, Tries
  <2> QED BY <2>2, <2>6 DEF Promise!Next
<1>4. ASSUME NEW j \in Jobs, Claim(w, j) \/ ClaimLost(w, j) PROVE Promise!Try(j)
  <2>1. /\ job' = [job EXCEPT ![j] = Leased(job[j], w)] /\ answers' = answers
        /\ job[j].attempts < MaxAttempts /\ job[j].status \in Outstanding
    BY <1>4 DEF Claim, ClaimLost, Claimable, Outstanding
  <2>2. job[j] \in Row /\ job'[j] = Leased(job[j], w)
    BY <2>1, <1>c
  <2>3. job'[j].status = "processing" /\ job'[j].attempts = job[j].attempts + 1
    BY <2>2, LeasedColumns
  <2>4. \A i \in Jobs : i # j => job'[i] = job[i]
    BY <2>1, <1>c
  <2>5. Phase(job[j].status) = "owed"
    BY <2>1, PhaseOf DEF Outstanding
  <2>6. Phases' = Phases
    BY <2>3, <2>4, <2>5, PhaseOf DEF Phases
  <2>7. Tries' = [Tries EXCEPT ![j] = Tries[j] + 1]
    BY <2>3, <2>4 DEF Tries
  <2> QED BY <2>1, <2>5, <2>6, <2>7 DEF Promise!Try, Phases, Tries
<1>5. ASSUME NEW r \in Results, Deliver(w, r) PROVE [Promise!Next]_<<Phases, Tries, answers>>
  <2> DEFINE j == hand[w].job
  <2>1. hand[w] # None /\ hand[w] \in Held /\ j \in Jobs
    BY <1>5, <1>c DEF Core, HandInTick, TypeOK, Deliver, Held
  <2>2. job[j].status \in Status /\ job[j].status # "absent"
    BY <2>1, <1>c DEF IInv, AnswersKnown, Row
  <2>3. Phase(job[j].status) # "none"
    BY <2>2, PhaseOf DEF Status, Outstanding
  <2>4. job' = job /\ answers' = [answers EXCEPT ![j] = answers[j] \cup ({r} \cap Answers)]
    BY <1>5 DEF Deliver
  <2> HIDE DEF j
  <2>5. CASE r \in Answers
    <3>1. {r} \cap Answers = {r}
      BY <2>5
    <3>2. answers' = [answers EXCEPT ![j] = answers[j] \cup {r}]
      BY <2>4, <3>1
    <3>3. Promise!Answer(j, r)
      BY <2>1, <2>3, <2>4, <3>2 DEF Promise!Answer
    <3> QED BY <2>1, <2>5, <3>3 DEF Promise!Next
  <2>6. CASE r \notin Answers
    <3>1. {r} \cap Answers = {} /\ answers[j] \cup {} = answers[j]
      BY <2>6
    <3>2. answers' = answers
      BY <1>c, <2>1, <2>4, <3>1
    <3> QED BY <2>4, <3>2, Invisible
  <2> QED BY <2>5, <2>6
<1>6. CASE Finish(w) \/ FinishThrows(w)
  <2>1. CASE Record(w)
    BY <1>6, <2>1, RecordImplements DEF Finish, FinishThrows
  <2>2. CASE job' = job
    BY <1>6, <2>2, Invisible DEF Finish, FinishThrows
  <2> QED BY <1>6, <2>1, <2>2 DEF Finish, FinishThrows
<1>7. CASE \E j \in Jobs : Claim(w, j) \/ ClaimLost(w, j)
  BY <1>4, <1>7 DEF Promise!Next
<1> QED BY <1>1, <1>2, <1>3, <1>5, <1>6, <1>7 DEF Work

LEMMA StepImplements == IInv /\ [Next]_vars => [Promise!Next]_<<Phases, Tries, answers>>
<1> SUFFICES ASSUME IInv, [Next]_vars PROVE [Promise!Next]_<<Phases, Tries, answers>>
  OBVIOUS
<1>a. job \in [Jobs -> Row]
  BY DEF IInv, TypeOK
<1>1. CASE UNCHANGED vars
  BY <1>1, Invisible DEF vars
<1>2. CASE Clock
  <2>1. ASSUME NEW e \in Events, EventAges(e)
        PROVE  UNCHANGED <<Phases, Tries, answers>>
    BY <2>1, Invisible DEF EventAges
  <2>2. ASSUME NEW j \in Jobs, LeaseExpires(j) PROVE UNCHANGED <<Phases, Tries, answers>>
    <3>1. \A i \in Jobs : job'[i].status = job[i].status /\ job'[i].attempts = job[i].attempts
      BY <2>2, <1>a DEF LeaseExpires, Row
    <3> QED BY <2>2, <3>1, Invisible DEF LeaseExpires
  <2>3. ASSUME NEW j \in Jobs, BackoffPasses(j) PROVE UNCHANGED <<Phases, Tries, answers>>
    <3>1. \A i \in Jobs : job'[i].status = job[i].status /\ job'[i].attempts = job[i].attempts
      BY <2>3, <1>a DEF BackoffPasses, Row
    <3> QED BY <2>3, <3>1, Invisible DEF BackoffPasses
  <2> QED BY <1>2, <2>1, <2>2, <2>3 DEF Clock
<1>3. ASSUME NEW w \in Workers, Process(w) PROVE UNCHANGED <<Phases, Tries, answers>>
  BY <1>3, Invisible DEF Process, Boot, Stop, Die
<1> QED BY <1>1, <1>2, <1>3, RequestImplements, WorkImplements DEF Next

-------------------------------------------------------------------------------
(* Theorems *)

\* IInv holds in every reachable state: the invariant the theorems below rest on.
THEOREM OutboxInductive == Spec => []IInv
<1>1. Init => IInv
  <2> SUFFICES ASSUME Init PROVE IInv
    OBVIOUS
  <2>1. Blank("absent") \in Row /\ Blank("absent").status = "absent"
    BY BlankType DEF Status
  <2>2. TypeOK
    BY <2>1, LimitsAssumption DEF Init, TypeOK
  <2>3. HandInTick
    BY DEF Init, HandInTick
  <2>4. OwnerFencesAttempt /\ DeadLetterIsEarned
    BY <2>1 DEF Init, OwnerFencesAttempt, DeadLetterIsEarned
  <2>5. AnswersKnown
    <3>1. \A j \in Jobs : job[j] = Blank("absent") /\ Blank("absent").attempts = 0 /\ answers[j] = {}
      BY DEF Init, Blank
    <3> QED BY <3>1 DEF Init, AnswersKnown
  <2> QED BY <2>2, <2>3, <2>4, <2>5 DEF IInv
<1>2. IInv /\ [Next]_vars => IInv'
  <2> SUFFICES ASSUME IInv, [Next]_vars PROVE IInv'
    OBVIOUS
  <2>1. Core
    BY DEF IInv, Core
  <2> QED BY <2>1, TypeStep, TickStep, FenceStep, AnswersStep, DeadStep DEF IInv
<1> QED BY <1>1, <1>2, PTL DEF Spec

\* Rows, leases, ticks and jobs in hand keep their types; attempt_count never
\* passes max_attempts, and a tick never delivers more than its batch.
THEOREM OutboxTypes == Spec => []TypeOK
<1>1. IInv => TypeOK
  BY DEF IInv
<1> QED BY <1>1, OutboxInductive, PTL

\* finish's compare-and-set on lease_owner names a process only, and still lets
\* a verdict through for the row's last attempt alone, on both dialects.
THEOREM LeaseIsAFence == Spec => []OwnerFencesAttempt
<1>1. IInv => OwnerFencesAttempt
  BY DEF IInv
<1> QED BY <1>1, OutboxInductive, PTL

\* A dead letter has used all its attempts or was refused for good.
THEOREM DeadLettersAreEarned == Spec => []DeadLetterIsEarned
<1>1. IInv => DeadLetterIsEarned
  BY DEF IInv
<1> QED BY <1>1, OutboxInductive, PTL

\* On SQLite nothing reopens a delivery that is recorded as succeeded.
THEOREM SuccessIsFinal == Spec => SucceededIsFinal
<1>1. IInv /\ [Next]_vars =>
        [Dialect = "sqlite" => \A j \in Jobs : job[j].status = "succeeded" =>
            job'[j].status \in {"succeeded", "deleted"}]_vars
  BY SucceededStep DEF IInv, Core
<1> QED BY <1>1, OutboxInductive, PTL DEF Spec, SucceededIsFinal

\* Whatever the workers, their crashes and their late verdicts do, the table shows the
\* outbox only steps that at-least-once delivery allows: each step of the tables is one
\* of OutboxPromise or invisible to it.
THEOREM OutboxKeepsPromise == Spec => ImplementsPromise
<1>1. Init => Promise!Init
  <2>1. Init => \A j \in Jobs : job[j] = Blank("absent") /\ answers = [i \in Jobs |-> {}]
    BY DEF Init
  <2>2. Blank("absent").status = "absent" /\ Blank("absent").attempts = 0
    BY DEF Blank
  <2> QED BY <2>1, <2>2, PhaseOf DEF Init, Promise!Init
<1>2. IInv /\ [Next]_vars => [Promise!Next]_Promise!vars
  BY StepImplements DEF Phases, Tries, Promise!vars
<1> QED BY <1>1, <1>2, OutboxInductive, PTL DEF Spec, ImplementsPromise, Promise!Spec

===============================================================================
