------------------------------ MODULE ScanProofs ------------------------------
(***************************************************************************)
(* Theorems about ScanLifecycle for every number of scans, every size of   *)
(* the gate and of its queue and any number of restarts.                   *)
(***************************************************************************)
EXTENDS ScanLifecycle, FiniteSetTheorems, SequenceTheorems, TLAPS

-------------------------------------------------------------------------------
(* The inductive invariant *)

\* A request is answered for a scan that does not exist yet, and a scan that does
\* not exist has no Task: no insert replaces a row or restarts a Task.
Fresh ==
    \A s \in Scans :
        /\ request[s].at # "none" => scan[s].status = "absent"
        /\ scan[s].status = "absent" => run[s] = "none"

\* A Task that has not reported yet has no completed scan.
Unreported ==
    \A s \in Scans : run[s] \in {"admit", "waiting", "running"} => scan[s].status # "completed"

\* A process that is down runs nothing; what it left behind has no Task, and of
\* that the sweep holds only scans that nobody has completed.
LeftBehind ==
    /\ ~up => \A s \in Scans : run[s] \in {"none", "over"} /\ request[s].at = "none"
    /\ \A s \in older : run[s] \in {"none", "over"} /\ scan[s].status # "absent"
    /\ stuck \subseteq older
    /\ \A s \in stuck : scan[s].status # "completed"

IInv == TypeOK /\ Fresh /\ PermitsConserved /\ Unreported /\ LeftBehind

-------------------------------------------------------------------------------
(* Rows *)

LEMMA RowsSaved ==
    ASSUME TypeOK, NEW s \in Scans, NEW v \in Ended
    PROVE  /\ Saved(s, v) \in [Scans -> Row]
           /\ \A t \in Scans : Saved(s, v)[t].status = "absent" <=> scan[t].status = "absent"
<1>1. scan \in [Scans -> Row]
  BY DEF TypeOK
<1>2. CASE ~Exists(s)
  BY <1>1, <1>2 DEF Saved
<1>3. CASE Exists(s)
  <2> DEFINE r == [[scan[s] EXCEPT !.status = v] EXCEPT !.aged = FALSE]
  <2>1. scan[s] \in Row
    BY <1>1
  <2>2. r \in Row /\ r.status = v
    BY <2>1 DEF Row, Ended
  <2>3. Saved(s, v) = [scan EXCEPT ![s] = r]
    BY <1>1, <1>3, <2>1 DEF Saved, Row
  <2>4. v # "absent" /\ scan[s].status # "absent"
    BY <1>3 DEF Ended, Exists
  <2>5. Saved(s, v) \in [Scans -> Row]
    BY <1>1, <2>2, <2>3
  <2>6. ASSUME NEW t \in Scans
        PROVE  Saved(s, v)[t].status = "absent" <=> scan[t].status = "absent"
    BY <1>1, <2>2, <2>3, <2>4
  <2> QED BY <2>5, <2>6
<1> QED BY <1>2, <1>3

\* A save changes one row that exists, or none.
LEMMA RowOfSave ==
    ASSUME TypeOK, NEW o, NEW v, NEW t \in Scans
    PROVE  \/ Saved(o, v)[t] = scan[t]
           \/ t = o /\ Exists(t) /\ Saved(o, v)[t].status = v
<1>1. scan \in [Scans -> Row]
  BY DEF TypeOK
<1>2. CASE ~Exists(o)
  BY <1>2 DEF Saved
<1>3. CASE Exists(o) /\ t # o
  BY <1>1, <1>3 DEF Saved
<1>4. CASE Exists(o) /\ t = o
  <2>1. scan[t] \in Row
    BY <1>1
  <2>2. [[scan[t] EXCEPT !.status = v] EXCEPT !.aged = FALSE].status = v
    BY <2>1 DEF Row
  <2>3. Saved(o, v)[t] = [[scan[t] EXCEPT !.status = v] EXCEPT !.aged = FALSE]
    BY <1>1, <1>4, <2>1 DEF Saved, Row
  <2> QED BY <1>4, <2>2, <2>3
<1> QED BY <1>2, <1>3, <1>4

LEMMA RowBlank == Blank("absent") \in Row /\ Blank("deleted") \in Row
<1>1. Cardinality(Scans) \in Nat
  BY ScansAssumption, FS_CardinalityType
<1> QED BY <1>1 DEF Blank, Row

\* A new row is the last of at most as many as there are scans.
LEMMA RowInserted ==
    ASSUME NEW s \in Scans, scan[s].status = "absent"
    PROVE  Cardinality(Created) + 1 \in 0..Cardinality(Scans)
<1>1. IsFiniteSet(Created) /\ s \notin Created
  BY ScansAssumption, FS_Subset DEF Created
<1>2. Cardinality(Created \cup {s}) = Cardinality(Created) + 1
  BY <1>1, FS_AddElement
<1>3. Created \cup {s} \subseteq Scans
  BY DEF Created
<1>4. Cardinality(Created \cup {s}) <= Cardinality(Scans)
  BY <1>3, ScansAssumption, FS_Subset
<1>5. Cardinality(Created) \in Nat /\ Cardinality(Scans) \in Nat
  BY <1>1, ScansAssumption, FS_CardinalityType
<1> QED BY <1>2, <1>4, <1>5

-------------------------------------------------------------------------------
(* The gate *)

LEMMA HoldersFinite == IsFiniteSet(Holders) /\ Cardinality(Holders) \in Nat
<1>1. Holders \subseteq Scans
  BY DEF Holders
<1> QED BY <1>1, ScansAssumption, FS_Subset, FS_CardinalityType

\* Moves that neither take nor give a permit nor touch the queue.
LEMMA GateUntouched ==
    ASSUME PermitsConserved, UNCHANGED gate,
           \A s \in Scans : /\ run[s] \in {"running", "releasing"} <=> run'[s] \in {"running", "releasing"}
                            /\ run[s] = "waiting" <=> run'[s] = "waiting"
    PROVE  PermitsConserved'
<1>1. Holders' = Holders
  BY DEF Holders
<1> QED BY <1>1 DEF PermitsConserved, gate

LEMMA AdmitConserves ==
    ASSUME IInv, NEW s \in Scans, Admit(s) PROVE PermitsConserved'
<1>1. run \in [Scans -> {"none", "admit", "waiting", "running", "releasing", "over"}]
  BY DEF IInv, TypeOK
<1>2. s \notin Holders /\ Holders' = Holders \cup {s}
  BY <1>1 DEF Admit, Turns, Holders
<1>3. Cardinality(Holders') = Cardinality(Holders) + 1
  BY <1>2, HoldersFinite, FS_AddElement
<1>4. active' = Cardinality(Holders') /\ active' <= MaxConcurrent
  BY <1>3, HoldersFinite, GateAssumption DEF IInv, PermitsConserved, Admit
<1>5. waiters = <<>> /\ waiters' = waiters
  BY HoldersFinite, GateAssumption DEF IInv, PermitsConserved, Admit
<1>6. \A t \in Scans : run'[t] = "waiting" <=> run[t] = "waiting"
  BY <1>1 DEF Admit, Turns
<1> QED BY <1>4, <1>5, <1>6 DEF IInv, PermitsConserved

LEMMA EnqueueConserves ==
    ASSUME IInv, NEW s \in Scans, Enqueue(s) PROVE PermitsConserved'
<1>1. run \in [Scans -> {"none", "admit", "waiting", "running", "releasing", "over"}]
  BY DEF IInv, TypeOK
<1>2. waiters \in Seq(Scans)
  BY DEF IInv, TypeOK
<1>3. Holders' = Holders /\ active' = active
  BY <1>1 DEF Enqueue, Turns, Holders
<1>4. active' = MaxConcurrent
  BY HoldersFinite, GateAssumption DEF IInv, PermitsConserved, Enqueue
<1>5. /\ Len(waiters') = Len(waiters) + 1 /\ waiters'[Len(waiters) + 1] = s
      /\ \A n \in 1..Len(waiters) : waiters'[n] = waiters[n]
  BY <1>2, AppendProperties DEF Enqueue
<1>6. Len(waiters) \in Nat /\ Len(waiters') <= MaxQueued
  BY <1>2, <1>5, GateAssumption DEF Enqueue
<1>7. \A n \in 1..Len(waiters) : waiters[n] # s
  BY <1>1 DEF IInv, PermitsConserved, Enqueue
<1>8. \A t \in Scans : run'[t] = "waiting" <=> run[t] = "waiting" \/ t = s
  BY <1>1 DEF Enqueue, Turns
<1>9. \A t \in Scans : run'[t] = "waiting" <=> \E n \in 1..Len(waiters') : waiters'[n] = t
  <2> SUFFICES ASSUME NEW t \in Scans
               PROVE  run'[t] = "waiting" <=> \E n \in 1..Len(waiters') : waiters'[n] = t
    OBVIOUS
  <2>1. run[t] = "waiting" <=> \E n \in 1..Len(waiters) : waiters[n] = t
    BY DEF IInv, PermitsConserved
  <2>2. 1..Len(waiters') = 1..Len(waiters) \cup {Len(waiters) + 1}
    BY <1>5, <1>6
  <2> QED BY <1>5, <1>8, <2>1, <2>2
<1>10. \A m, n \in 1..Len(waiters') : waiters'[m] = waiters'[n] => m = n
  <2>1. \A m, n \in 1..Len(waiters) : waiters[m] = waiters[n] => m = n
    BY DEF IInv, PermitsConserved
  <2>2. 1..Len(waiters') = 1..Len(waiters) \cup {Len(waiters) + 1}
    BY <1>5, <1>6
  <2> QED BY <1>5, <1>7, <2>1, <2>2
<1>11. active' = Cardinality(Holders') /\ active' <= MaxConcurrent
  BY <1>3 DEF IInv, PermitsConserved
<1> QED BY <1>4, <1>6, <1>9, <1>10, <1>11 DEF PermitsConserved

LEMMA ReleaseConserves ==
    ASSUME IInv, NEW s \in Scans, Release(s) PROVE PermitsConserved'
<1>1. run \in [Scans -> {"none", "admit", "waiting", "running", "releasing", "over"}]
  BY DEF IInv, TypeOK
<1>2. waiters \in Seq(Scans)
  BY DEF IInv, TypeOK
<1>3. s \in Holders
  BY DEF Release, Holders
<1>4. CASE waiters = <<>>
  <2>1. Holders' = Holders \ {s}
    BY <1>1, <1>4 DEF Release, Turns, Holders
  <2>2. Cardinality(Holders') = Cardinality(Holders) - 1
    BY <1>3, <2>1, HoldersFinite, FS_RemoveElement
  <2>3. Cardinality(Holders) # 0
    BY <1>3, HoldersFinite, FS_EmptySet
  <2>4. active' = active - 1 /\ waiters' = <<>>
    BY <1>4, <2>3 DEF IInv, PermitsConserved, Release
  <2>5. active' = Cardinality(Holders') /\ active' <= MaxConcurrent
    BY <2>2, <2>4, HoldersFinite, GateAssumption DEF IInv, PermitsConserved
  <2>6. \A t \in Scans : run'[t] = "waiting" <=> run[t] = "waiting"
    BY <1>1, <1>4 DEF Release, Turns
  <2>7. \A t \in Scans : run[t] # "waiting"
    BY <1>4 DEF IInv, PermitsConserved
  <2> QED BY <2>4, <2>5, <2>6, <2>7, GateAssumption DEF PermitsConserved
<1>5. CASE waiters # <<>>
  <2> DEFINE h == Head(waiters)
  <2>1. /\ Len(waiters) \in Nat /\ Len(waiters) >= 1 /\ h = waiters[1] /\ h \in Scans
        /\ Len(waiters') = Len(waiters) - 1
        /\ \A n \in 1..Len(waiters') : waiters'[n] = waiters[n + 1]
    BY <1>2, <1>5, HeadTailProperties DEF Release
  <2>2. run[h] = "waiting"
    BY <2>1 DEF IInv, PermitsConserved
  <2>3. run' = [run EXCEPT ![s] = "over", ![h] = "running"] /\ active' = active
    BY <1>5 DEF Release
  <2>4. s # h /\ h \notin Holders
    BY <2>2 DEF Release, Holders
  <2>5. Holders' = (Holders \ {s}) \cup {h}
    BY <1>1, <2>1, <2>3, <2>4 DEF Holders
  <2>6. Cardinality(Holders') = Cardinality(Holders)
    <3>1. /\ IsFiniteSet(Holders \ {s})
          /\ Cardinality(Holders \ {s}) = Cardinality(Holders) - 1
      BY <1>3, HoldersFinite, FS_RemoveElement
    <3>2. Cardinality(Holders') = Cardinality(Holders \ {s}) + 1
      BY <2>4, <2>5, <3>1, FS_AddElement
    <3> QED BY <3>1, <3>2, HoldersFinite
  <2>7. active' = Cardinality(Holders') /\ active' = MaxConcurrent
    BY <1>5, <2>3, <2>6 DEF IInv, PermitsConserved
  <2>8. Len(waiters') <= MaxQueued
    BY <2>1, GateAssumption DEF IInv, PermitsConserved
  <2>9. \A m, n \in 1..Len(waiters) : waiters[m] = waiters[n] => m = n
    BY DEF IInv, PermitsConserved
  <2>10. \A m, n \in 1..Len(waiters') : waiters'[m] = waiters'[n] => m = n
    BY <2>1, <2>9
  <2>11. \A t \in Scans : run'[t] = "waiting" <=> run[t] = "waiting" /\ t # h
    BY <1>1, <2>1, <2>3 DEF Release
  <2>12. ASSUME NEW t \in Scans
         PROVE  run'[t] = "waiting" <=> \E n \in 1..Len(waiters') : waiters'[n] = t
    <3>1. run[t] = "waiting" <=> \E n \in 1..Len(waiters) : waiters[n] = t
      BY DEF IInv, PermitsConserved
    <3>2. ASSUME NEW n \in 1..Len(waiters), waiters[n] = t, t # h
          PROVE  n - 1 \in 1..Len(waiters') /\ waiters'[n - 1] = t
      BY <2>1, <3>2
    <3>3. ASSUME NEW n \in 1..Len(waiters'), waiters'[n] = t
          PROVE  n + 1 \in 1..Len(waiters) /\ waiters[n + 1] = t /\ t # h
      BY <2>1, <2>9, <3>3
    <3> QED BY <2>11, <3>1, <3>2, <3>3
  <2> QED BY <2>7, <2>8, <2>10, <2>12, GateAssumption DEF PermitsConserved
<1> QED BY <1>4, <1>5

LEMMA StepConserves == IInv /\ [Next]_vars => PermitsConserved'
<1> SUFFICES ASSUME IInv, [Next]_vars PROVE PermitsConserved'
  OBVIOUS
<1>a. PermitsConserved
  BY DEF IInv
<1>b. run \in [Scans -> {"none", "admit", "waiting", "running", "releasing", "over"}]
  BY DEF IInv, TypeOK
<1>1. CASE UNCHANGED vars
  BY <1>1, <1>a, GateUntouched DEF vars, gate
<1>2. ASSUME NEW s \in Scans, Handle(s) PROVE PermitsConserved'
  <2>1. CASE Insert(s)
    <3>1. run[s] = "none"
      BY <2>1 DEF Insert, IInv, Fresh
    <3> QED BY <2>1, <3>1, <1>a, <1>b, GateUntouched DEF Insert, gate
  <2>2. CASE Reap(s) \/ Reuse(s) \/ RequestFails(s)
    BY <2>2, <1>a, GateUntouched DEF Reap, Reuse, RequestFails, gate
  <2> QED BY <1>2, <2>1, <2>2 DEF Handle
<1>3. ASSUME NEW s \in Scans, Runner(s) PROVE PermitsConserved'
  <2>1. CASE Reject(s)
    BY <2>1, <1>a, <1>b, GateUntouched DEF Reject, Turns, gate
  <2>2. CASE Finish(s)
    BY <2>2, <1>a, <1>b, GateUntouched DEF Finish, Turns, gate
  <2> QED BY <1>3, <2>1, <2>2, AdmitConserves, EnqueueConserves, ReleaseConserves DEF Runner
<1>4. ASSUME NEW s \in Scans, Ages(s) \/ Delete(s) PROVE PermitsConserved'
  BY <1>4, <1>a, GateUntouched DEF Ages, Delete, gate
<1>5. ASSUME NEW s \in Scans, NEW i \in Inputs, Ask(s, i) \/ AskAnew(s, i) PROVE PermitsConserved'
  BY <1>5, <1>a, GateUntouched DEF Ask, AskAnew, gate
<1>6. CASE Crash
  <2>1. Holders' = {}
    BY <1>6, <1>b DEF Crash, Holders
  <2>2. active' = Cardinality(Holders') /\ waiters' = <<>>
    BY <1>6, <2>1, FS_EmptySet DEF Crash
  <2>3. \A t \in Scans : run'[t] # "waiting"
    BY <1>6, <1>b DEF Crash
  <2>4. active' = 0
    BY <1>6 DEF Crash
  <2> QED BY <2>2, <2>3, <2>4, GateAssumption DEF PermitsConserved
<1>7. CASE Boot \/ Sweeper
  BY <1>7, <1>a, GateUntouched DEF Boot, Sweeper, SweepQuery, SweepFails, SweepEnds, SweepSave, gate
<1> QED BY <1>1, <1>2, <1>3, <1>4, <1>5, <1>6, <1>7 DEF Next

-------------------------------------------------------------------------------
(* Types *)

LEMMA RequestTypes ==
    ASSUME TypeOK, NEW s \in Scans
    PROVE  /\ Answers(s) => request' \in [Scans -> Request]
           /\ \A at \in {"reap", "reuse", "insert"} : Goes(s, at) => request' \in [Scans -> Request]
           /\ \A at \in {"reap", "reuse", "insert"}, i \in Inputs, o \in Scans \cup {None} :
                 Asked(s, at, i, o) => request' \in [Scans -> Request]
<1>1. request \in [Scans -> Request]
  BY DEF TypeOK
<1>2. Idle \in Request
  BY DEF Idle, Request
<1>3. \A at \in {"reap", "reuse", "insert"} : [request[s] EXCEPT !.at = at] \in Request
  BY <1>1 DEF Request
<1>4. \A at \in {"reap", "reuse", "insert"}, i \in Inputs, o \in Scans \cup {None} :
          [at |-> at, input |-> i, orphan |-> o] \in Request
  BY DEF Request
<1>5. \A at \in {"reap", "reuse", "insert"} : Goes(s, at) => request' \in [Scans -> Request]
  BY <1>1, <1>3 DEF Goes
<1> QED BY <1>1, <1>2, <1>4, <1>5 DEF Answers, Asked

LEMMA StepTypes == IInv /\ [Next]_vars => TypeOK'
<1> SUFFICES ASSUME IInv, [Next]_vars PROVE TypeOK'
  OBVIOUS
<1>a. TypeOK
  BY DEF IInv
<1>1. CASE UNCHANGED vars
  BY <1>1, <1>a DEF vars, TypeOK
<1>2. ASSUME NEW s \in Scans, Handle(s) PROVE TypeOK'
  <2>1. CASE Reap(s)
    <3>1. request' \in [Scans -> Request]
      BY <2>1, <1>a, RequestTypes DEF Reap
    <3>2. scan' \in [Scans -> Row]
      <4>1. ASSUME request[s].orphan \notin Scans PROVE Saved(request[s].orphan, "failed") \in [Scans -> Row]
        BY <1>a, <4>1 DEF TypeOK, Saved, Exists
      <4>2. ASSUME request[s].orphan \in Scans PROVE Saved(request[s].orphan, "failed") \in [Scans -> Row]
        BY <1>a, <4>2, RowsSaved DEF Ended
      <4> QED BY <2>1, <1>a, <4>1, <4>2 DEF Reap, TypeOK
    <3> QED BY <2>1, <1>a, <3>1, <3>2 DEF Reap, TypeOK, gate, process
  <2>2. CASE Reuse(s)
    <3>1. request' \in [Scans -> Request]
      BY <2>2, <1>a, RequestTypes DEF Reuse
    <3> QED BY <2>2, <1>a, <3>1 DEF Reuse, TypeOK, gate, process
  <2>3. CASE Insert(s)
    <3>1. request' \in [Scans -> Request]
      BY <2>3, <1>a, RequestTypes DEF Insert
    <3>2. scan[s].status = "absent"
      BY <2>3 DEF Insert, IInv, Fresh
    <3>3. request[s].input \in Inputs \cup {None}
      BY <1>a DEF TypeOK, Request
    <3>4. scan' \in [Scans -> Row]
      BY <2>3, <1>a, <3>2, <3>3, RowInserted DEF Insert, TypeOK, Row
    <3> QED BY <2>3, <1>a, <3>1, <3>4 DEF Insert, TypeOK, gate, process
  <2>4. CASE RequestFails(s)
    <3>1. request' \in [Scans -> Request]
      BY <2>4, <1>a, RequestTypes DEF RequestFails
    <3> QED BY <2>4, <1>a, <3>1 DEF RequestFails, TypeOK, gate, process
  <2> QED BY <1>2, <2>1, <2>2, <2>3, <2>4 DEF Handle
<1>3. ASSUME NEW s \in Scans, Runner(s) PROVE TypeOK'
  <2>1. CASE Admit(s)
    BY <2>1, <1>a DEF Admit, Turns, TypeOK, process
  <2>2. CASE Enqueue(s)
    <3>1. waiters' \in Seq(Scans)
      BY <2>2, <1>a, AppendProperties DEF Enqueue, TypeOK
    <3> QED BY <2>2, <1>a, <3>1 DEF Enqueue, Turns, TypeOK, process
  <2>3. CASE Reject(s)
    <3>1. scan' \in [Scans -> Row]
      BY <2>3, <1>a, RowsSaved DEF Reject, TypeOK, Ended
    <3> QED BY <2>3, <1>a, <3>1 DEF Reject, Turns, TypeOK, gate, process
  <2>4. CASE Finish(s)
    <3>1. scan' \in [Scans -> Row]
      BY <2>4, <1>a, RowsSaved DEF Finish, TypeOK
    <3> QED BY <2>4, <1>a, <3>1 DEF Finish, Turns, TypeOK, gate, process
  <2>5. CASE Release(s)
    <3>1. active' \in Nat
      BY <2>5, <1>a DEF Release, TypeOK
    <3>2. waiters' \in Seq(Scans)
      <4>0. waiters \in Seq(Scans)
        BY <1>a DEF TypeOK
      <4>1. CASE waiters = <<>>
        BY <2>5, <4>0, <4>1 DEF Release
      <4>2. CASE waiters # <<>>
        <5>1. waiters' = Tail(waiters)
          BY <2>5, <4>2 DEF Release
        <5> QED BY <4>0, <4>2, <5>1, HeadTailProperties
      <4> QED BY <4>1, <4>2
    <3>3. run' \in [Scans -> {"none", "admit", "waiting", "running", "releasing", "over"}]
      BY <2>5, <1>a DEF Release, Turns, TypeOK
    <3>4. UNCHANGED <<scan, request, process, lost>>
      BY <2>5 DEF Release
    <3> QED BY <1>a, <3>1, <3>2, <3>3, <3>4 DEF TypeOK, process
  <2> QED BY <1>3, <2>1, <2>2, <2>3, <2>4, <2>5 DEF Runner
<1>4. ASSUME NEW s \in Scans, Ages(s) PROVE TypeOK'
  <2>1. \A t \in Scans : [scan[t] EXCEPT !.aged = TRUE] \in Row
    BY <1>a DEF TypeOK, Row
  <2>2. scan' \in [Scans -> Row]
    BY <1>4, <1>a, <2>1 DEF Ages, TypeOK
  <2> QED BY <1>4, <1>a, <2>2 DEF Ages, TypeOK, gate, process
<1>5. ASSUME NEW s \in Scans, Delete(s) PROVE TypeOK'
  BY <1>5, <1>a, RowBlank DEF Delete, TypeOK, gate, process
<1>6. ASSUME NEW s \in Scans, NEW i \in Inputs, Ask(s, i) \/ AskAnew(s, i) PROVE TypeOK'
  <2>1. request' \in [Scans -> Request]
    BY <1>6, <1>a, RequestTypes DEF Ask, AskAnew, Latest, InFlight
  <2> QED BY <1>6, <1>a, <2>1 DEF Ask, AskAnew, TypeOK, gate, process
<1>7. CASE Crash
  <2>1. request' \in [Scans -> Request]
    BY <1>7 DEF Crash, Idle, Request
  <2>2. crashes' \in 0..MaxCrashes
    BY <1>7, <1>a, CrashesAssumption DEF Crash, TypeOK
  <2>3. run' \in [Scans -> {"none", "admit", "waiting", "running", "releasing", "over"}]
    BY <1>7, <1>a DEF Crash, TypeOK
  <2>4. waiters' \in Seq(Scans) /\ active' \in Nat /\ up' \in BOOLEAN
    BY <1>7, EmptySeq DEF Crash
  <2>5. scan' \in [Scans -> Row]
    BY <1>7, <1>a DEF Crash, TypeOK
  <2>6. sweep' = "done" /\ older' = {} /\ stuck' = {} /\ lost' = {}
    BY <1>7 DEF Crash
  <2> QED BY <2>1, <2>2, <2>3, <2>4, <2>5, <2>6 DEF TypeOK
<1>8. CASE Boot
  BY <1>8, <1>a DEF Boot, Created, TypeOK, gate
<1>9. CASE Sweeper
  <2>1. CASE SweepQuery
    BY <2>1, <1>a DEF SweepQuery, Interrupted, TypeOK, gate
  <2>2. ASSUME NEW s \in Scans, SweepSave(s) PROVE TypeOK'
    <3>1. scan' \in [Scans -> Row]
      BY <2>2, <1>a, RowsSaved DEF SweepSave, Ended
    <3> QED BY <2>2, <1>a, <3>1 DEF SweepSave, TypeOK, gate
  <2>3. CASE SweepFails \/ SweepEnds
    BY <2>3, <1>a DEF SweepFails, SweepEnds, Interrupted, TypeOK, gate
  <2> QED BY <1>9, <2>1, <2>2, <2>3 DEF Sweeper
<1> QED BY <1>1, <1>2, <1>3, <1>4, <1>5, <1>6, <1>7, <1>8, <1>9 DEF Next

-------------------------------------------------------------------------------
(* Requests, Tasks and what a restart leaves behind *)

\* How a step may change rows and Tasks, for every action that starts no Task.
LEMMA KeepsOrder ==
    ASSUME IInv, TypeOK',
           \A s \in Scans :
               /\ request'[s].at # "none" => request[s].at # "none" \/ scan[s].status = "absent"
               /\ scan'[s].status = "absent" <=> scan[s].status = "absent"
               /\ run[s] = "none" => run'[s] = "none"
               /\ run'[s] \in {"admit", "waiting", "running"} =>
                     run[s] \in {"admit", "waiting", "running"}
               /\ scan'[s].status = "completed" =>
                     scan[s].status = "completed" \/ run'[s] \notin {"admit", "waiting", "running"}
    PROVE  Fresh' /\ Unreported'
<1>1. Fresh /\ Unreported
  BY DEF IInv
<1>2. Fresh'
  BY <1>1 DEF Fresh
<1>3. Unreported'
  BY <1>1 DEF Unreported
<1> QED BY <1>2, <1>3

LEMMA StepOrders == IInv /\ [Next]_vars => Fresh' /\ Unreported'
<1> SUFFICES ASSUME IInv, [Next]_vars PROVE Fresh' /\ Unreported'
  OBVIOUS
<1>a. TypeOK /\ Fresh /\ Unreported /\ PermitsConserved
  BY DEF IInv
<1>b. TypeOK'
  BY StepTypes
<1>c. \A s \in Scans : run[s] \in {"none", "admit", "waiting", "running", "releasing", "over"}
  BY <1>a DEF TypeOK
<1>1. CASE UNCHANGED vars
  BY <1>1, <1>b, KeepsOrder DEF vars
<1>2. ASSUME NEW s \in Scans, Handle(s) PROVE Fresh' /\ Unreported'
  <2>1. CASE Reap(s)
    <3>1. \A t \in Scans : request'[t].at # "none" => request[t].at # "none"
      BY <2>1, <1>a DEF Reap, Goes, TypeOK
    <3>2. ASSUME NEW t \in Scans
          PROVE  /\ scan'[t].status = "absent" <=> scan[t].status = "absent"
                 /\ scan'[t].status = "completed" => scan[t].status = "completed"
      <4>1. CASE scan' = scan
        BY <4>1
      <4>2. CASE scan' = Saved(request[s].orphan, "failed") /\ request[s].orphan \in Scans
        <5>1. scan'[t].status = "absent" <=> scan[t].status = "absent"
          BY <4>2, <1>a, RowsSaved DEF Ended
        <5>2. scan'[t].status = "completed" => scan[t].status = "completed"
          BY <4>2, <1>a DEF Saved, TypeOK, Row
        <5> QED BY <5>1, <5>2
      <4>3. CASE scan' = Saved(request[s].orphan, "failed") /\ request[s].orphan \notin Scans
        BY <4>3, <1>a DEF Saved, TypeOK
      <4> QED BY <2>1, <4>1, <4>2, <4>3 DEF Reap
    <3>3. run' = run
      BY <2>1 DEF Reap
    <3> QED BY <1>b, <3>1, <3>2, <3>3, KeepsOrder
  <2>2. CASE Reuse(s) \/ RequestFails(s)
    <3>1. \A t \in Scans : request'[t].at # "none" => request[t].at # "none"
      BY <2>2, <1>a DEF Reuse, RequestFails, Goes, Answers, Idle, TypeOK
    <3>2. scan' = scan /\ run' = run
      BY <2>2 DEF Reuse, RequestFails
    <3> QED BY <1>b, <3>1, <3>2, KeepsOrder
  <2>3. CASE Insert(s)
    <3>1. /\ request'[s].at = "none" /\ scan'[s].status = "pending"
          /\ \A t \in Scans : t # s => request'[t] = request[t] /\ scan'[t] = scan[t] /\ run'[t] = run[t]
      BY <2>3, <1>a DEF Insert, Answers, Idle, TypeOK
    <3>2. Fresh'
      BY <3>1, <1>a DEF Fresh
    <3>3. Unreported'
      BY <3>1, <1>a DEF Unreported
    <3> QED BY <3>2, <3>3
  <2> QED BY <1>2, <2>1, <2>2, <2>3 DEF Handle
<1>3. ASSUME NEW s \in Scans, Runner(s) PROVE Fresh' /\ Unreported'
  <2>1. CASE Admit(s) \/ Enqueue(s)
    <3>1. scan' = scan /\ request' = request /\ run[s] = "admit"
      BY <2>1 DEF Admit, Enqueue
    <3>2. \A t \in Scans : t # s => run'[t] = run[t]
      BY <2>1, <1>a DEF Admit, Enqueue, Turns, TypeOK
    <3> QED BY <1>b, <3>1, <3>2, KeepsOrder
  <2>2. CASE Reject(s) \/ Finish(s)
    <3>1. request' = request /\ run[s] # "none" /\ run'[s] \in {"over", "releasing"}
      BY <2>2, <1>a DEF Reject, Finish, Turns, TypeOK
    <3>2. \A t \in Scans : t # s => run'[t] = run[t]
      BY <2>2, <1>a DEF Reject, Finish, Turns, TypeOK
    <3>3. \A t \in Scans : scan'[t].status = "absent" <=> scan[t].status = "absent"
      BY <2>2, <1>a, RowsSaved DEF Reject, Finish, Ended
    <3>4. \A t \in Scans : t # s => scan'[t] = scan[t]
      BY <2>2, <1>a DEF Reject, Finish, Saved, TypeOK
    <3> QED BY <1>b, <3>1, <3>2, <3>3, <3>4, KeepsOrder
  <2>3. CASE Release(s)
    <3>1. scan' = scan /\ request' = request /\ run[s] = "releasing"
      BY <2>3 DEF Release
    <3>2. CASE waiters = <<>>
      BY <2>3, <1>a, <1>b, <3>1, <3>2, KeepsOrder DEF Release, Turns, TypeOK
    <3>3. CASE waiters # <<>>
      <4>1. Head(waiters) = waiters[1] /\ Head(waiters) \in Scans /\ 1 \in 1..Len(waiters)
        BY <3>3, <1>a, HeadTailProperties, LenProperties DEF TypeOK
      <4>2. run[Head(waiters)] = "waiting"
        BY <4>1, <1>a DEF PermitsConserved
      <4>3. run' = [run EXCEPT ![s] = "over", ![Head(waiters)] = "running"]
        BY <2>3, <3>3 DEF Release
      <4> QED BY <1>a, <1>b, <3>1, <4>1, <4>2, <4>3, KeepsOrder DEF TypeOK
    <3> QED BY <3>2, <3>3
  <2> QED BY <1>3, <2>1, <2>2, <2>3 DEF Runner
<1>4. ASSUME NEW s \in Scans, Ages(s) PROVE Fresh' /\ Unreported'
  <2>1. \A t \in Scans : scan'[t].status = scan[t].status
    BY <1>4, <1>a DEF Ages, TypeOK, Row
  <2> QED BY <1>4, <1>b, <2>1, KeepsOrder DEF Ages
<1>5. ASSUME NEW s \in Scans, Delete(s) PROVE Fresh' /\ Unreported'
  <2>1. scan'[s].status = "deleted" /\ scan[s].status # "absent"
    BY <1>5, <1>a DEF Delete, Exists, Blank, TypeOK
  <2>2. \A t \in Scans : t # s => scan'[t] = scan[t]
    BY <1>5, <1>a DEF Delete, TypeOK
  <2> QED BY <1>5, <1>b, <2>1, <2>2, KeepsOrder DEF Delete
<1>6. ASSUME NEW s \in Scans, NEW i \in Inputs, Ask(s, i) \/ AskAnew(s, i)
      PROVE  Fresh' /\ Unreported'
  <2>1. scan' = scan /\ run' = run /\ scan[s].status = "absent"
    BY <1>6 DEF Ask, AskAnew
  <2>2. \A t \in Scans : t # s => request'[t] = request[t]
    BY <1>6, <1>a DEF Ask, AskAnew, Asked, Answers, TypeOK
  <2> QED BY <1>b, <2>1, <2>2, KeepsOrder
<1>7. CASE Crash
  <2>1. \A t \in Scans : request'[t].at = "none" /\ run'[t] = IF run[t] = "none" THEN "none" ELSE "over"
    BY <1>7 DEF Crash, Idle
  <2>2. scan' = scan
    BY <1>7 DEF Crash
  <2> QED BY <1>b, <2>1, <2>2, KeepsOrder
<1>8. CASE Boot \/ SweepQuery \/ SweepFails \/ SweepEnds
  <2>1. scan' = scan /\ run' = run /\ request' = request
    BY <1>8 DEF Boot, SweepQuery, SweepFails, SweepEnds
  <2> QED BY <1>b, <2>1, KeepsOrder
<1>9. ASSUME NEW s \in Scans, SweepSave(s) PROVE Fresh' /\ Unreported'
  <2>1. run' = run /\ request' = request
    BY <1>9 DEF SweepSave
  <2>2. \A t \in Scans : scan'[t].status = "absent" <=> scan[t].status = "absent"
    BY <1>9, <1>a, RowsSaved DEF SweepSave, Ended
  <2>3. \A t \in Scans : scan'[t].status = "completed" => scan[t].status = "completed"
    BY <1>9, <1>a DEF SweepSave, Saved, TypeOK, Row
  <2> QED BY <1>b, <2>1, <2>2, <2>3, KeepsOrder
<1> QED BY <1>1, <1>2, <1>3, <1>4, <1>5, <1>6, <1>7, <1>8, <1>9 DEF Next, Sweeper

LEMMA StepLeaves == IInv /\ [Next]_vars => LeftBehind'
<1> SUFFICES ASSUME IInv, [Next]_vars PROVE LeftBehind'
  OBVIOUS
<1>a. TypeOK /\ Fresh /\ Unreported /\ PermitsConserved /\ LeftBehind
  BY DEF IInv
\* Nothing happens to processes, to old scans or to the sweep's list.
<1>k. ASSUME UNCHANGED process,
             \A t \in Scans :
                 /\ (~up \/ t \in older) /\ run[t] \in {"none", "over"} => run'[t] \in {"none", "over"}
                 /\ ~up => request'[t].at = "none"
                 /\ t \in older /\ scan[t].status # "absent" => scan'[t].status # "absent"
                 /\ t \in stuck /\ scan[t].status # "completed" => scan'[t].status # "completed"
      PROVE  LeftBehind'
  BY <1>k, <1>a DEF LeftBehind, process, TypeOK
<1>1. CASE UNCHANGED vars
  BY <1>1, <1>a DEF vars, LeftBehind
<1>2. ASSUME NEW s \in Scans, Handle(s) PROVE LeftBehind'
  <2>0. up /\ process' = process
    BY <1>2, <1>a DEF Handle, Reap, Reuse, Insert, RequestFails, process, LeftBehind, TypeOK
  <2>1. CASE Reap(s)
    <3>1. \A t \in Scans : /\ scan[t].status # "absent" => scan'[t].status # "absent"
                           /\ scan[t].status # "completed" => scan'[t].status # "completed"
      BY <2>1, <1>a, RowOfSave DEF Reap, Exists
    <3>2. run' = run
      BY <2>1 DEF Reap
    <3> QED BY <2>0, <3>1, <3>2, <1>k
  <2>2. CASE Reuse(s) \/ RequestFails(s)
    BY <2>2, <2>0, <1>k DEF Reuse, RequestFails
  <2>3. CASE Insert(s)
    <3>1. s \notin older
      BY <2>3, <1>a DEF Insert, Fresh, LeftBehind
    <3>2. \A t \in Scans : t # s => scan'[t] = scan[t] /\ run'[t] = run[t]
      BY <2>3, <1>a DEF Insert, TypeOK
    <3>3. s \notin stuck
      BY <3>1, <1>a DEF LeftBehind
    <3> QED BY <2>0, <3>1, <3>2, <3>3, <1>k
  <2> QED BY <1>2, <2>1, <2>2, <2>3 DEF Handle
<1>3. ASSUME NEW s \in Scans, Runner(s) PROVE LeftBehind'
  <2>0. run[s] \notin {"none", "over"}
    BY <1>3 DEF Runner, Admit, Enqueue, Reject, Finish, Release
  <2>1. up /\ s \notin older /\ s \notin stuck
    BY <2>0, <1>a DEF LeftBehind
  <2>2. process' = process
    BY <1>3 DEF Runner, Admit, Enqueue, Reject, Finish, Release
  <2>3. CASE Admit(s) \/ Enqueue(s) \/ Reject(s) \/ Finish(s)
    <3>1. \A t \in Scans : t # s => run'[t] = run[t] /\ scan'[t] = scan[t]
      BY <2>3, <1>a DEF Admit, Enqueue, Reject, Finish, Turns, Saved, TypeOK
    <3> QED BY <2>1, <2>2, <3>1, <1>k
  <2>4. CASE Release(s)
    <3>1. scan' = scan
      BY <2>4 DEF Release
    <3>2. CASE waiters = <<>>
      <4>1. \A t \in Scans : t # s => run'[t] = run[t]
        BY <2>4, <3>2, <1>a DEF Release, Turns, TypeOK
      <4> QED BY <2>1, <2>2, <3>1, <4>1, <1>k
    <3>3. CASE waiters # <<>>
      <4>1. Head(waiters) = waiters[1] /\ Head(waiters) \in Scans /\ 1 \in 1..Len(waiters)
        BY <3>3, <1>a, HeadTailProperties, LenProperties DEF TypeOK
      <4>2. run[Head(waiters)] = "waiting"
        BY <4>1, <1>a DEF PermitsConserved
      <4>3. \A t \in Scans : t # s /\ t # Head(waiters) => run'[t] = run[t]
        BY <2>4, <3>3, <1>a DEF Release, TypeOK
      <4> QED BY <2>1, <2>2, <3>1, <4>2, <4>3, <1>k
    <3> QED BY <3>2, <3>3
  <2> QED BY <1>3, <2>3, <2>4 DEF Runner
<1>4. ASSUME NEW s \in Scans, Ages(s) PROVE LeftBehind'
  <2>1. \A t \in Scans : scan'[t].status = scan[t].status
    BY <1>4, <1>a DEF Ages, TypeOK, Row
  <2> QED BY <1>4, <1>a, <2>1, <1>k DEF Ages, LeftBehind
<1>5. ASSUME NEW s \in Scans, Delete(s) PROVE LeftBehind'
  <2>1. scan'[s].status = "deleted"
    BY <1>5, <1>a DEF Delete, Blank, TypeOK
  <2>2. \A t \in Scans : t # s => scan'[t] = scan[t]
    BY <1>5, <1>a DEF Delete, TypeOK
  <2> QED BY <1>5, <1>a, <2>1, <2>2, <1>k DEF Delete, LeftBehind
<1>6. ASSUME NEW s \in Scans, NEW i \in Inputs, Ask(s, i) \/ AskAnew(s, i) PROVE LeftBehind'
  <2>1. up /\ scan' = scan /\ run' = run /\ process' = process
    BY <1>6 DEF Ask, AskAnew, process
  <2> QED BY <2>1, <1>k
<1>7. CASE Crash
  <2>1. \A t \in Scans : run'[t] \in {"none", "over"} /\ request'[t].at = "none"
    BY <1>7 DEF Crash, Idle
  <2> QED BY <1>7, <2>1 DEF Crash, LeftBehind
<1>8. CASE Boot
  <2>1. \A t \in Scans : run'[t] \in {"none", "over"}
    BY <1>8, <1>a DEF Boot, LeftBehind
  <2>2. stuck' \subseteq older' /\ \A t \in stuck' : scan'[t].status # "completed"
    BY <1>8, <1>a DEF Boot, LeftBehind, Created, TypeOK
  <2> QED BY <1>8, <2>1, <2>2 DEF Boot, LeftBehind, Created
<1>9. CASE SweepQuery \/ SweepFails \/ SweepEnds
  <2>1. /\ scan' = scan /\ run' = run /\ request' = request /\ up' = up /\ older' = older
        /\ stuck' \subseteq stuck \cup Interrupted
    BY <1>9 DEF SweepQuery, SweepFails, SweepEnds
  <2> QED BY <2>1, <1>a DEF LeftBehind, Interrupted
<1>10. ASSUME NEW s \in Scans, SweepSave(s) PROVE LeftBehind'
  <2>1. \A t \in Scans : /\ scan[t].status # "absent" => scan'[t].status # "absent"
                         /\ scan[t].status # "completed" => scan'[t].status # "completed"
    BY <1>10, <1>a DEF SweepSave, Saved, TypeOK, Row
  <2>2. /\ run' = run /\ request' = request /\ up' = up /\ older' = older
        /\ stuck' \subseteq stuck
    BY <1>10 DEF SweepSave
  <2> QED BY <2>1, <2>2, <1>a DEF LeftBehind, TypeOK
<1> QED BY <1>1, <1>2, <1>3, <1>4, <1>5, <1>6, <1>7, <1>8, <1>9, <1>10 DEF Next, Sweeper

-------------------------------------------------------------------------------
(* Theorems *)

LEMMA InitHolds == Init => IInv
<1> SUFFICES ASSUME Init PROVE IInv
  OBVIOUS
<1>1. scan \in [Scans -> Row]
  BY RowBlank DEF Init
<1>2. request \in [Scans -> Request]
  BY DEF Init, Idle, Request
<1>3. TypeOK
  BY <1>1, <1>2, EmptySeq, CrashesAssumption DEF Init, TypeOK
<1>4. Fresh /\ Unreported /\ LeftBehind
  BY DEF Init, Fresh, Unreported, LeftBehind, Idle
<1>5. PermitsConserved
  <2>1. Holders = {}
    BY DEF Init, Holders
  <2>2. Cardinality(Holders) = 0
    BY <2>1, FS_EmptySet
  <2> QED BY <2>2, GateAssumption DEF Init, PermitsConserved
<1> QED BY <1>3, <1>4, <1>5 DEF IInv

\* The invariant of handler, gate, runner and sweep together.
THEOREM ScanInductive == Spec => []IInv
<1>1. IInv /\ [Next]_vars => IInv'
  BY StepTypes, StepConserves, StepOrders, StepLeaves DEF IInv
<1> QED BY <1>1, InitHolds, PTL DEF Spec

\* Rows, requests, gate and sweep stay well typed.
THEOREM ScanTypes == Spec => []TypeOK
<1>1. IInv => TypeOK
  BY DEF IInv
<1> QED BY <1>1, ScanInductive, PTL

\* The gate loses no permit and grants none twice.
THEOREM PermitsHold == Spec => []PermitsConserved
<1>1. IInv => PermitsConserved
  BY DEF IInv
<1> QED BY <1>1, ScanInductive, PTL

\* The boot sweep touches only scans of an earlier process.
THEOREM SweepIsSafe == Spec => SweepSparesLive
<1>1. IInv /\ [Next]_vars =>
      [\A s \in Scans : SweepSave(s) => run[s] \in {"none", "over"} /\ s \in older]_vars
  BY DEF IInv, LeftBehind, SweepSave
<1> QED BY <1>1, ScanInductive, PTL DEF Spec, SweepSparesLive

\* Verdicts change only when a request reaps the scan or its own runner reports.
THEOREM VerdictsStand == Spec => VerdictStands
<1> DEFINE Stands(s) ==
        scan[s].status \in Ended =>
          \/ scan'[s].status \in {scan[s].status, "deleted"}
          \/ run[s] = "running" /\ run'[s] = "releasing"
          \/ \E r \in Scans : Reap(r) /\ request[r].orphan = s
<1>1. ASSUME IInv, [Next]_vars, NEW s \in Scans PROVE Stands(s)
  <2>a. TypeOK /\ Fresh /\ LeftBehind /\ Unreported
    BY <1>1 DEF IInv
  <2>1. CASE scan' = scan
    BY <2>1
  <2>2. ASSUME NEW t \in Scans, Reap(t) PROVE Stands(s)
    <3>1. scan' = scan \/ scan' = Saved(request[t].orphan, "failed")
      BY <2>2 DEF Reap
    <3> QED BY <2>2, <2>a, <3>1, RowOfSave
  <2>3. ASSUME NEW t \in Scans, Insert(t) PROVE Stands(s)
    <3>1. CASE s = t
      BY <2>3, <2>a, <3>1 DEF Insert, Fresh, Ended
    <3>2. CASE s # t
      BY <2>3, <2>a, <3>2 DEF Insert, TypeOK
    <3> QED BY <3>1, <3>2
  <2>4. ASSUME NEW t \in Scans, Reject(t) PROVE Stands(s)
    <3>1. \/ scan'[s] = scan[s]
          \/ s = t /\ scan'[s].status = "failed"
      BY <2>4, <2>a, RowOfSave DEF Reject
    <3>2. scan[t].status # "completed"
      BY <2>4, <2>a DEF Reject, Unreported
    <3> QED BY <3>1, <3>2 DEF Ended
  <2>5. ASSUME NEW t \in Scans, Finish(t) PROVE Stands(s)
    <3>1. CASE s = t
      BY <2>5, <2>a, <3>1 DEF Finish, Turns, TypeOK
    <3>2. CASE s # t
      <4>1. scan'[s] = scan[s]
        BY <2>5, <2>a, <3>2, RowOfSave DEF Finish
      <4> QED BY <4>1
    <3> QED BY <3>1, <3>2
  <2>6. ASSUME NEW t \in Scans, Ages(t) PROVE Stands(s)
    <3>1. scan'[s].status = scan[s].status
      BY <2>6, <2>a DEF Ages, TypeOK, Row
    <3> QED BY <3>1
  <2>7. ASSUME NEW t \in Scans, Delete(t) PROVE Stands(s)
    BY <2>7, <2>a DEF Delete, Blank, TypeOK
  <2>8. ASSUME NEW t \in Scans, SweepSave(t) PROVE Stands(s)
    <3>1. \/ scan'[s] = scan[s]
          \/ s = t /\ scan'[s].status = "failed"
      BY <2>8, <2>a, RowOfSave DEF SweepSave
    <3>2. scan[t].status # "completed"
      BY <2>8, <2>a DEF SweepSave, LeftBehind
    <3> QED BY <3>1, <3>2 DEF Ended
  <2>9. \/ scan' = scan
        \/ \E t \in Scans : \/ Reap(t) \/ Insert(t) \/ Reject(t) \/ Finish(t)
                            \/ Ages(t) \/ Delete(t) \/ SweepSave(t)
    BY <1>1 DEF Next, vars, Handle, Runner, Sweeper, Reuse, RequestFails, Admit, Enqueue,
       Release, Ask, AskAnew, Crash, Boot, SweepQuery, SweepFails, SweepEnds
  <2> QED BY <2>1, <2>2, <2>3, <2>4, <2>5, <2>6, <2>7, <2>8, <2>9
<1>2. IInv /\ [Next]_vars => [\A s \in Scans : Stands(s)]_vars
  BY <1>1
<1> QED BY <1>2, ScanInductive, PTL DEF Spec, VerdictStands

===============================================================================
