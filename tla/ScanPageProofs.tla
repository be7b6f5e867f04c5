---------------------------- MODULE ScanPageProofs ----------------------------
(***************************************************************************)
(* Theorems about ScanPage and ResultStream for every number of scans,     *)
(* results and clicks, every page size and any number of faults.           *)
(***************************************************************************)
EXTENDS ScanPage, FiniteSetTheorems, SequenceTheorems, TLAPS

-------------------------------------------------------------------------------
(* The inductive invariant: the server and the connections *)

Count(x) == Cardinality(Written(x, {"committed"}))

\* The committed ids of a scan are 1..n, and the transaction that is open, one at
\* most, holds the next.
Numbered ==
    /\ \A x \in Scans :
        /\ Ids(x) = 1..Count(x)
        /\ due[x] \subseteq Written(x, {"committed"})
    /\ \A r \in Results :
        /\ row[r] = "open" =>
            /\ seq[r] = Count(ScanOf[r]) + 1
            /\ Written(ScanOf[r], {"open"}) = {r}
        /\ status[ScanOf[r]] = "deleted" => row[r] = "lost"

Quiet(s) == wire[s] = <<>> /\ handler[s] = "none"

Connections ==
    \A s \in Streams :
        /\ ready[s] # "open" => Quiet(s)
        /\ ready[s] # "none" => target[s] \in Scans
        /\ seenStatus[s] = "over" => target[s] \in Scans /\ status[target[s]] # "pending"

\* The page has the results 1..n of the scan.
Gapless == \A s \in Streams : \A k \in 1..Len(received[s]) : received[s][k] = k

\* The id of the frame i of the wire; before the first, of the page's last result.
IdAt(s, i) == IF i = 0 THEN Len(received[s]) ELSE wire[s][i].id

\* What is on the wire leaves no gap after what the page has, and nothing follows
\* the frame that ends the stream.
InOrder ==
    \A s \in Streams : \A i \in 1..Len(wire[s]) :
        IF wire[s][i].event = "result"
        THEN wire[s][i].id \in 1..(IdAt(s, i - 1) + 1)
        ELSE i = Len(wire[s])

\* While its loop runs, the server goes on from what it has sent.
Following ==
    \A s \in Streams : handler[s] # "none" =>
        /\ \A i \in 1..Len(wire[s]) : wire[s][i].event = "result"
        /\ cursor[s] <= IdAt(s, Len(wire[s]))

Brought(s, n) == status[target[s]] # "pending" /\ \A r \in due[target[s]] : seq[r] <= n

\* Before `done` come all the results that are due.
DoneIsLast ==
    \A s \in Streams : \A i \in 1..Len(wire[s]) :
        wire[s][i].event = "done" => Brought(s, IdAt(s, i - 1))

\* After it the page has them.
FinishedHasAll ==
    /\ finished \subseteq Streams
    /\ \A s \in finished : ready[s] = "closed" /\ Brought(s, Len(received[s]))

StreamInv ==
    /\ StreamTypeOK /\ Numbered /\ Connections
    /\ Gapless /\ InOrder /\ Following /\ DoneIsLast /\ FinishedHasAll

-------------------------------------------------------------------------------
(* The inductive invariant: the page *)

\* Whoever asks for a scan, or polls for one, names it.
Aimed ==
    /\ \A c \in Clicks : request[c].kind \in {"load", "schedule", "share"} => request[c].scan \in Scans
    /\ \A s \in Streams : ready[s] # "none" \/ poll[s] # "none" => target[s] \in Scans

Untouched(s) ==
    /\ ready[s] = "none" /\ poll[s] = "none" /\ polls[s] = 0
    /\ target[s] = None /\ received[s] = <<>> /\ seenStatus[s] = "pending"
    /\ s \notin finished /\ activeScanToken # s

\* A click's session is new until its answer comes, and the session that polls
\* for it until the click's own session has lost the page.
Fresh ==
    \A c \in Clicks :
        /\ request[c].kind # "over" => Untouched(c) /\ Untouched(PollsFor(c))
        /\ activeScanToken = c => Untouched(PollsFor(c))

\* Only the sessions of clicks have a stream, and a timer for its fallback.
StreamsOfClicks ==
    \A s \in Streams :
        /\ ready[s] # "none" => s \in Clicks
        /\ fallback[s] => ready[s] # "none"
        /\ activeEventSource = s => ready[s] # "none"

TriesCounted == \A s \in Streams : poll[s] = "timer" => polls[s] < MaxPolls

PageInv ==
    /\ PageTypeOK /\ Aimed /\ Fresh /\ StreamsOfClicks /\ TriesCounted
    /\ OneStream /\ ScanningHasOwner

IInv == StreamInv /\ PageInv

-------------------------------------------------------------------------------
(* Facts about the operators *)

LEMMA MaxIs ==
    ASSUME NEW S, NEW m \in S, \A y \in S : y \in Int /\ m >= y
    PROVE  Max(S) = m
<1>1. \A y \in S : m >= y
  OBVIOUS
<1>2. Max(S) \in S /\ \A y \in S : Max(S) >= y
  BY <1>1 DEF Max
<1> QED BY <1>2

LEMMA MinOfTwo ==
    ASSUME NEW a \in Nat, NEW b \in Nat
    PROVE  /\ Min({a, b}) \in {a, b}
           /\ Min({a, b}) <= a /\ Min({a, b}) <= b
<1>1. \E m \in {a, b} : \A y \in {a, b} : m =< y
  <2>1. CASE a <= b
    BY <2>1
  <2>2. CASE b <= a
    BY <2>2
  <2> QED BY <2>1, <2>2
<1>2. Min({a, b}) \in {a, b} /\ \A y \in {a, b} : Min({a, b}) =< y
  BY <1>1 DEF Min
<1> QED BY <1>2

\* A page goes on from the id c, one by one, and is full or has caught up.
LEMMA PageFollows ==
    ASSUME NEW x, NEW N \in Nat, Ids(x) = 1..N, NEW c \in Nat
    PROVE  \E k \in Nat :
             /\ Replayed(x, c) = [i \in 1..k |-> c + i]
             /\ k > 0 => c + k <= N
             /\ k < ReplayLimit => c + k >= N
<1> DEFINE later == {n \in Ids(x) : n > c}
           Place(n) == Cardinality({m \in later : m <= n})
           k == Min({ReplayLimit, Cardinality(later)})
<1>1. later = (c + 1)..N
  OBVIOUS
<1>2. Cardinality(later) = IF c + 1 > N THEN 0 ELSE N - c
  <2>1. Cardinality((c + 1)..N) = IF c + 1 > N THEN 0 ELSE N - (c + 1) + 1
    BY FS_Interval
  <2> HIDE DEF later
  <2> QED BY <1>1, <2>1
<1>3. k \in Nat /\ k <= Cardinality(later) /\ k <= ReplayLimit /\ (k = ReplayLimit \/ k = Cardinality(later))
  BY <1>2, MinOfTwo, ReplayLimitAssumption
<1>4. ASSUME NEW n \in later PROVE Place(n) = n - c
  <2> DEFINE upto == {m \in later : m <= n}
  <2>1. n \in Int /\ c + 1 <= n
    BY <1>1
  <2>2. upto = (c + 1)..n
    BY <1>1, <2>1
  <2>3. Cardinality((c + 1)..n) = IF c + 1 > n THEN 0 ELSE n - (c + 1) + 1
    BY <2>1, FS_Interval
  <2>4. Cardinality(upto) = n - c
    <3> HIDE DEF upto
    <3> QED BY <2>1, <2>2, <2>3
  <2> QED BY <2>4
<1>5. ASSUME NEW i \in 1..k PROVE (CHOOSE n \in later : Place(n) = i) = c + i
  <2> HIDE DEF Place, k
  <2>1. c + i \in later /\ Place(c + i) = i
    BY <1>1, <1>2, <1>3, <1>4
  <2>2. \A n \in later : Place(n) = i => n = c + i
    BY <1>1, <1>4
  <2> QED BY <2>1, <2>2
<1>6. Replayed(x, c) = [i \in 1..k |-> CHOOSE n \in later : Place(n) = i]
  BY DEF Replayed
<1>7. Replayed(x, c) = [i \in 1..k |-> c + i]
  <2> HIDE DEF Place, k, later
  <2> QED BY <1>5, <1>6
<1> HIDE DEF k, later, Place
<1>8. k > 0 => c + k <= N
  BY <1>2, <1>3
<1>9. k < ReplayLimit => c + k >= N
  BY <1>2, <1>3
<1> QED BY <1>3, <1>7, <1>8, <1>9

LEMMA ResultsFinite ==
    ASSUME NEW S, S \subseteq Results
    PROVE  /\ IsFiniteSet(S)
           /\ Cardinality(S) \in Nat /\ Cardinality(Results) \in Nat
           /\ Cardinality(S) <= Cardinality(Results)
           /\ S # Results => Cardinality(S) < Cardinality(Results)
<1>1. IsFiniteSet(Results)
  BY ScanOfAssumption
<1>2. IsFiniteSet(S) /\ Cardinality(S) <= Cardinality(Results)
      /\ (Cardinality(Results) = Cardinality(S) => Results = S)
  BY <1>1, FS_Subset
<1>3. Cardinality(S) \in Nat /\ Cardinality(Results) \in Nat
  BY <1>1, <1>2, FS_CardinalityType
<1> QED BY <1>2, <1>3

\* The id a transaction draws is the next, and there is one left for its result.
LEMMA NextIsNext ==
    ASSUME Numbered, NEW x \in Scans
    PROVE  NextSequence(x) = Count(x) + 1 /\ Count(x) \in Nat
<1>1. Count(x) \in Nat /\ Ids(x) = 1..Count(x)
  BY ResultsFinite DEF Count, Written, Numbered
<1>2. Max({0} \cup Ids(x)) = Count(x)
  BY <1>1, MaxIs
<1> QED BY <1>1, <1>2 DEF NextSequence

-------------------------------------------------------------------------------
(* The scan writes *)

LEMMA WriterTypes ==
    ASSUME StreamTypeOK,
           UNCHANGED <<target, ready, handler, seenStatus, cursor, wire, received>>,
           status' \in [Scans -> {"pending", "over", "deleted"}],
           due' \in [Scans -> SUBSET Results],
           row' \in [Results -> {"none", "open", "committed", "lost"}],
           seq' \in [Results -> 0..Cardinality(Results)],
           faults' = faults \/ Fault
    PROVE  StreamTypeOK'
<1>1. faults' \in 0..MaxFaults
  BY BoundsAssumption DEF StreamTypeOK, Fault
<1> QED BY <1>1 DEF StreamTypeOK

\* What a writer does is seen by the streams in the status and in what is due.
LEMMA WriterKeeps ==
    ASSUME StreamInv,
           UNCHANGED <<target, ready, handler, seenStatus, cursor, wire, received, finished>>,
           \A x \in Scans : status[x] # "pending" =>
                /\ status'[x] # "pending"
                /\ \A q \in due'[x] : q \in due[x] /\ seq'[q] = seq[q]
    PROVE  Connections' /\ Gapless' /\ InOrder' /\ Following' /\ DoneIsLast' /\ FinishedHasAll'
<1> USE DEF StreamInv
<1>1. \A s \in Streams : ready[s] # "none" => target[s] \in Scans
  BY DEF Connections
<1>2. ASSUME NEW s \in Streams, ready[s] # "none", NEW n, Brought(s, n) PROVE Brought(s, n)'
  BY <1>1, <1>2 DEF Brought
<1>3. Connections'
  BY DEF Connections, Quiet
<1>4. Gapless' /\ InOrder' /\ Following'
  BY DEF Gapless, InOrder, Following, IdAt
<1>5. DoneIsLast'
  BY <1>2 DEF DoneIsLast, IdAt, Connections, Quiet
<1>6. FinishedHasAll'
  BY <1>2 DEF FinishedHasAll
<1> QED BY <1>3, <1>4, <1>5, <1>6

\* The results of one scan say nothing of those of another.
LEMMA InsertHolds ==
    ASSUME StreamInv, NEW r \in Results, Insert(r), UNCHANGED finished PROVE StreamInv'
<1> USE DEF StreamInv
<1> DEFINE x == ScanOf[r]
<1>1. x \in Scans /\ ScanOf \in [Results -> Scans]
  BY ScanOfAssumption
<1>2. row' = [row EXCEPT ![r] = "open"] /\ seq' = [seq EXCEPT ![r] = Count(x) + 1]
      /\ row[r] = "none" /\ Count(x) \in Nat /\ status[x] # "deleted" /\ Written(x, {"open"}) = {}
  BY <1>1, NextIsNext DEF Insert
<1>3. \A y : Written(y, {"committed"})' = Written(y, {"committed"})
  BY <1>2 DEF Written, StreamTypeOK
<1>4. \A y : Count(y)' = Count(y) /\ Ids(y)' = Ids(y)
  <2>1. \A y : \A q \in Written(y, {"committed"}) : seq'[q] = seq[q]
    BY <1>2 DEF Written, StreamTypeOK
  <2> QED BY <1>3, <2>1 DEF Count, Ids
<1>5. Count(x) + 1 \in 0..Cardinality(Results)
  <2>1. Written(x, {"committed"}) \subseteq Results /\ Written(x, {"committed"}) # Results
    BY <1>2 DEF Written
  <2> QED BY <1>2, <2>1, ResultsFinite DEF Count
<1>6. StreamTypeOK'
  <2>1. row' \in [Results -> {"none", "open", "committed", "lost"}]
        /\ seq' \in [Results -> 0..Cardinality(Results)]
    BY <1>2, <1>5 DEF StreamTypeOK
  <2>2. status' \in [Scans -> {"pending", "over", "deleted"}] /\ due' \in [Scans -> SUBSET Results]
    BY DEF StreamTypeOK, Insert
  <2> QED BY <2>1, <2>2, WriterTypes DEF Insert, streamVars
<1>7. Numbered'
  <2>1. ASSUME NEW q \in Results, row'[q] = "open"
        PROVE  seq'[q] = Count(ScanOf[q])' + 1 /\ Written(ScanOf[q], {"open"})' = {q}
    <3>1. CASE q = r
      BY <1>2, <1>4, <3>1 DEF Written, StreamTypeOK
    <3>2. CASE q # r
      <4>1. row[q] = "open" /\ ScanOf[q] # x
        BY <1>2, <2>1, <3>2 DEF Written, StreamTypeOK
      <4> QED BY <1>2, <1>4, <3>2, <4>1 DEF Written, StreamTypeOK, Numbered
    <3> QED BY <3>1, <3>2
  <2>2. \A q \in Results : status[ScanOf[q]] = "deleted" => row'[q] = "lost"
    BY <1>2 DEF StreamTypeOK, Numbered
  <2> QED BY <1>3, <1>4, <2>1, <2>2 DEF Numbered, Insert
<1>8. \A y \in Scans : \A q \in due'[y] : q \in due[y] /\ seq'[q] = seq[q]
  BY <1>2 DEF Insert, Numbered, Written, StreamTypeOK
<1>9. Connections' /\ Gapless' /\ InOrder' /\ Following' /\ DoneIsLast' /\ FinishedHasAll'
  BY <1>8, WriterKeeps DEF Insert, streamVars
<1> QED BY <1>6, <1>7, <1>9

LEMMA CommitHolds ==
    ASSUME StreamInv, NEW r \in Results, Commit(r), UNCHANGED finished PROVE StreamInv'
<1> USE DEF StreamInv
<1> DEFINE x == ScanOf[r]
<1>1. x \in Scans /\ ScanOf \in [Results -> Scans]
  BY ScanOfAssumption
<1>2. row' = [row EXCEPT ![r] = "committed"] /\ UNCHANGED <<seq, status, due>> /\ row[r] = "open"
      /\ seq[r] = Count(x) + 1 /\ Written(x, {"open"}) = {r}
  BY DEF Commit, Numbered
<1>3. Written(x, {"committed"})' = Written(x, {"committed"}) \cup {r} /\ r \notin Written(x, {"committed"})
  BY <1>2 DEF Written, StreamTypeOK
<1>4. \A y : y # x => Written(y, {"committed"})' = Written(y, {"committed"})
  BY <1>2 DEF Written, StreamTypeOK
<1>5. Count(x)' = Count(x) + 1 /\ Count(x) \in Nat
  <2>1. IsFiniteSet(Written(x, {"committed"})) /\ Count(x) \in Nat
    BY ResultsFinite DEF Written, Count
  <2> QED BY <1>3, <2>1, FS_AddElement DEF Count
<1>6. \A y : y # x => Count(y)' = Count(y) /\ Ids(y)' = Ids(y)
  BY <1>2, <1>4 DEF Count, Ids
<1>7. Ids(x)' = 1..Count(x)'
  <2>1. Ids(x)' = Ids(x) \cup {Count(x) + 1}
    BY <1>2, <1>3 DEF Ids
  <2> QED BY <1>1, <1>5, <2>1 DEF Numbered
<1>8. StreamTypeOK'
  BY <1>2 DEF StreamTypeOK, Commit, streamVars
<1>9. Numbered'
  <2>1. ASSUME NEW y \in Scans
        PROVE  Ids(y)' = 1..Count(y)' /\ due'[y] \subseteq Written(y, {"committed"})'
    BY <1>2, <1>3, <1>4, <1>6, <1>7 DEF Numbered
  <2>2. ASSUME NEW q \in Results, row'[q] = "open"
        PROVE  seq'[q] = Count(ScanOf[q])' + 1 /\ Written(ScanOf[q], {"open"})' = {q}
    <3>1. row[q] = "open" /\ q # r /\ ScanOf[q] # x
      BY <1>2, <2>2 DEF Written, StreamTypeOK
    <3> QED BY <1>2, <1>6, <3>1 DEF Written, StreamTypeOK, Numbered
  <2>3. \A q \in Results : status[ScanOf[q]] = "deleted" => row'[q] = "lost"
    BY <1>2 DEF StreamTypeOK, Numbered
  <2> QED BY <1>2, <2>1, <2>2, <2>3 DEF Numbered
<1>10. Connections' /\ Gapless' /\ InOrder' /\ Following' /\ DoneIsLast' /\ FinishedHasAll'
  BY <1>2, WriterKeeps DEF Commit, streamVars
<1> QED BY <1>8, <1>9, <1>10

LEMMA RollbackHolds ==
    ASSUME StreamInv, NEW r \in Results, Rollback(r), UNCHANGED finished PROVE StreamInv'
<1> USE DEF StreamInv
<1>1. row' = [row EXCEPT ![r] = "lost"] /\ seq' = [seq EXCEPT ![r] = 0]
      /\ UNCHANGED <<status, due>> /\ row[r] = "open"
  BY DEF Rollback
<1>2. \A y : Written(y, {"committed"})' = Written(y, {"committed"})
  BY <1>1 DEF Written, StreamTypeOK
<1>3. \A y : Count(y)' = Count(y) /\ Ids(y)' = Ids(y)
  <2>1. \A y : \A q \in Written(y, {"committed"}) : seq'[q] = seq[q]
    BY <1>1 DEF Written, StreamTypeOK
  <2> QED BY <1>2, <2>1 DEF Count, Ids
<1>4. StreamTypeOK'
  <2>1. 0 \in 0..Cardinality(Results)
    BY ResultsFinite
  <2>2. row' \in [Results -> {"none", "open", "committed", "lost"}]
        /\ seq' \in [Results -> 0..Cardinality(Results)]
    BY <1>1, <2>1 DEF StreamTypeOK
  <2>3. status' \in [Scans -> {"pending", "over", "deleted"}] /\ due' \in [Scans -> SUBSET Results]
    BY <1>1 DEF StreamTypeOK
  <2> QED BY <2>2, <2>3, WriterTypes DEF Rollback
<1>5. Numbered'
  <2>1. ASSUME NEW q \in Results, row'[q] = "open"
        PROVE  seq'[q] = Count(ScanOf[q])' + 1 /\ Written(ScanOf[q], {"open"})' = {q}
    <3>1. row[q] = "open" /\ q # r /\ ScanOf[q] # ScanOf[r]
      BY <1>1, <2>1 DEF Written, StreamTypeOK, Numbered
    <3> QED BY <1>1, <1>3, <3>1 DEF Written, StreamTypeOK, Numbered
  <2>2. \A q \in Results : status[ScanOf[q]] = "deleted" => row'[q] = "lost"
    BY <1>1 DEF StreamTypeOK, Numbered
  <2> QED BY <1>1, <1>2, <1>3, <2>1, <2>2 DEF Numbered
<1>6. \A y \in Scans : \A q \in due'[y] : q \in due[y] /\ seq'[q] = seq[q]
  BY <1>1 DEF Numbered, Written, StreamTypeOK
<1>7. Connections' /\ Gapless' /\ InOrder' /\ Following' /\ DoneIsLast' /\ FinishedHasAll'
  BY <1>1, <1>6, WriterKeeps DEF Rollback
<1> QED BY <1>4, <1>5, <1>7

LEMMA EndScanHolds ==
    ASSUME StreamInv, NEW x \in Scans, EndScan(x), UNCHANGED finished PROVE StreamInv'
<1> USE DEF StreamInv
<1>1. status[x] = "pending" /\ status' = [status EXCEPT ![x] = "over"] /\ UNCHANGED <<row, seq>>
      /\ due' = [due EXCEPT ![x] = Written(x, {"committed"})]
  BY DEF EndScan
<1>2. \A y, T : Written(y, T)' = Written(y, T)
  BY <1>1 DEF Written
<1>3. \A y : Count(y)' = Count(y) /\ Ids(y)' = Ids(y)
  BY <1>1, <1>2 DEF Count, Ids
<1>4. StreamTypeOK'
  <2>1. status' \in [Scans -> {"pending", "over", "deleted"}] /\ due' \in [Scans -> SUBSET Results]
    BY <1>1 DEF StreamTypeOK, Written
  <2>2. row' \in [Results -> {"none", "open", "committed", "lost"}]
        /\ seq' \in [Results -> 0..Cardinality(Results)]
    BY <1>1 DEF StreamTypeOK
  <2> QED BY <2>1, <2>2, WriterTypes DEF EndScan, streamVars
<1>5. Numbered'
  BY <1>1, <1>2, <1>3, ScanOfAssumption DEF Numbered, StreamTypeOK
<1>6. Connections' /\ Gapless' /\ InOrder' /\ Following' /\ DoneIsLast' /\ FinishedHasAll'
  BY <1>1, WriterKeeps DEF EndScan, streamVars, StreamTypeOK
<1> QED BY <1>4, <1>5, <1>6

\* Nothing is due of a scan that is deleted.
LEMMA DeleteScanHolds ==
    ASSUME StreamInv, NEW x \in Scans, DeleteScan(x), UNCHANGED finished PROVE StreamInv'
<1> USE DEF StreamInv
<1>1. /\ status' = [status EXCEPT ![x] = "deleted"] /\ due' = [due EXCEPT ![x] = {}]
      /\ row' = [r \in Results |-> IF ScanOf[r] = x THEN "lost" ELSE row[r]]
      /\ seq' = [r \in Results |-> IF ScanOf[r] = x THEN 0 ELSE seq[r]]
  BY DEF DeleteScan
<1>2. Written(x, {"committed"})' = {} /\ Written(x, {"open"})' = {}
  BY <1>1 DEF Written
<1>3. \A y, T : y # x => Written(y, T)' = Written(y, T)
  BY <1>1 DEF Written
<1>4. \A y : y # x => Count(y)' = Count(y) /\ Ids(y)' = Ids(y)
  BY <1>1, <1>3 DEF Count, Ids, Written
<1>5. Count(x)' = 0 /\ Ids(x)' = {}
  BY <1>2, FS_EmptySet DEF Count, Ids
<1>6. StreamTypeOK'
  <2>1. 0 \in 0..Cardinality(Results)
    BY ResultsFinite
  <2>2. row' \in [Results -> {"none", "open", "committed", "lost"}]
        /\ seq' \in [Results -> 0..Cardinality(Results)]
    BY <1>1, <2>1 DEF StreamTypeOK
  <2>3. status' \in [Scans -> {"pending", "over", "deleted"}] /\ due' \in [Scans -> SUBSET Results]
    BY <1>1 DEF StreamTypeOK
  <2> QED BY <2>2, <2>3, WriterTypes DEF DeleteScan
<1>7. Numbered'
  <2>1. ASSUME NEW y \in Scans
        PROVE  Ids(y)' = 1..Count(y)' /\ due'[y] \subseteq Written(y, {"committed"})'
    <3>1. CASE y = x
      BY <1>1, <1>5, <3>1 DEF StreamTypeOK
    <3>2. CASE y # x
      BY <1>1, <1>3, <1>4, <3>2 DEF Numbered, StreamTypeOK
    <3> QED BY <3>1, <3>2
  <2>2. ASSUME NEW q \in Results, row'[q] = "open"
        PROVE  seq'[q] = Count(ScanOf[q])' + 1 /\ Written(ScanOf[q], {"open"})' = {q}
    BY <1>1, <1>3, <1>4, <2>2 DEF Numbered
  <2>3. \A q \in Results : status'[ScanOf[q]] = "deleted" => row'[q] = "lost"
    BY <1>1, ScanOfAssumption DEF StreamTypeOK, Numbered
  <2> QED BY <2>1, <2>2, <2>3 DEF Numbered
<1>8. \A y \in Scans : status[y] # "pending" => status'[y] # "pending"
      /\ \A q \in due'[y] : q \in due[y] /\ seq'[q] = seq[q]
  BY <1>1 DEF Numbered, Written, StreamTypeOK
<1>9. Connections' /\ Gapless' /\ InOrder' /\ Following' /\ DoneIsLast' /\ FinishedHasAll'
  BY <1>8, WriterKeeps DEF DeleteScan
<1> QED BY <1>6, <1>7, <1>9

-------------------------------------------------------------------------------
(* The server's loop *)

Frames == [event : {"result", "done", "stream-error"}, id : 0..Cardinality(Results)]

LEMMA StreamTypes ==
    StreamTypeOK => /\ wire \in [Streams -> Seq(Frames)]
                    /\ received \in [Streams -> Seq(1..Cardinality(Results))]
                    /\ cursor \in [Streams -> 0..Cardinality(Results)]
                    /\ handler \in [Streams -> {"none", "read", "replay"}]
                    /\ Cardinality(Results) \in Nat
BY ResultsFinite DEF StreamTypeOK, Frames

LEMMA EndFrame ==
    \A event \in {"result", "done", "stream-error"} :
        Frame(event) \in Frames /\ Frame(event).event = event
<1>1. 0 \in 0..Cardinality(Results)
  BY ResultsFinite
<1> QED BY <1>1 DEF Frames, Frame

LEMMA NumberedStays ==
    ASSUME Numbered, UNCHANGED serverVars PROVE Numbered'
BY DEF Numbered, Ids, Count, Written, serverVars

\* What the server and the connection do to one stream leaves the others alone.
LEMMA OthersKept ==
    ASSUME StreamInv, NEW s \in Streams, UNCHANGED <<serverVars, target, finished>>,
           \A z \in Streams \ {s} :
             /\ ready'[z] = ready[z] /\ handler'[z] = handler[z] /\ seenStatus'[z] = seenStatus[z]
             /\ cursor'[z] = cursor[z] /\ wire'[z] = wire[z] /\ received'[z] = received[z],
           StreamTypeOK',
           /\ ready'[s] # "open" => Quiet(s)'
           /\ ready'[s] # "none" => target[s] \in Scans
           /\ seenStatus'[s] = "over" => target[s] \in Scans /\ status[target[s]] # "pending",
           \A k \in 1..Len(received[s])' : received'[s][k] = k,
           \A i \in 1..Len(wire[s])' :
             /\ IF wire'[s][i].event = "result"
                THEN wire'[s][i].id \in 1..(IdAt(s, i - 1)' + 1)
                ELSE i = Len(wire[s])'
             /\ wire'[s][i].event = "done" => Brought(s, IdAt(s, i - 1)'),
           handler'[s] # "none" =>
             /\ \A i \in 1..Len(wire[s])' : wire'[s][i].event = "result"
             /\ cursor'[s] <= IdAt(s, Len(wire[s]))',
           s \in finished => ready'[s] = "closed" /\ received'[s] = received[s]
    PROVE  StreamInv'
<1> USE DEF StreamInv
<1>1. Numbered'
  BY NumberedStays
<1>2. \A z, n : Brought(z, n) => Brought(z, n)'
  BY DEF Brought, serverVars
<1>3. \A z \in Streams \ {s} : \A i : IdAt(z, i)' = IdAt(z, i)
  BY DEF IdAt
<1>4. Connections'
  BY DEF Connections, Quiet, serverVars
<1>5. Gapless'
  BY DEF Gapless
<1>6. InOrder'
  BY <1>3 DEF InOrder
<1>7. Following'
  BY <1>3 DEF Following
<1>8. DoneIsLast'
  BY <1>2, <1>3 DEF DoneIsLast, Brought, serverVars
<1>9. FinishedHasAll'
  BY <1>2 DEF FinishedHasAll
<1> QED BY <1>1, <1>4, <1>5, <1>6, <1>7, <1>8, <1>9

LEMMA StreamTypesNext ==
    ASSUME StreamTypeOK, UNCHANGED serverVars,
           target' \in [Streams -> Scans \cup {None}],
           ready' \in [Streams -> {"none", "connecting", "open", "closed"}],
           handler' \in [Streams -> {"none", "read", "replay"}],
           seenStatus' \in [Streams -> {"pending", "over"}],
           cursor' \in [Streams -> 0..Cardinality(Results)],
           wire' \in [Streams -> Seq(Frames)],
           received' \in [Streams -> Seq(1..Cardinality(Results))],
           faults' = faults \/ Fault
    PROVE  StreamTypeOK'
<1>1. faults' \in 0..MaxFaults
  BY BoundsAssumption DEF StreamTypeOK, Fault
<1> QED BY <1>1 DEF StreamTypeOK, serverVars, Frames

LEMMA ReadScanHolds ==
    ASSUME StreamInv, NEW s \in Streams, ReadScan(s), UNCHANGED finished PROVE StreamInv'
<1> USE DEF StreamInv
<1> DEFINE w == wire[s]
           end == Frame("stream-error")
<1>1. /\ handler[s] = "read" /\ ready[s] = "open" /\ target[s] \in Scans
      /\ \A i \in 1..Len(w) : w[i].event = "result"
      /\ cursor[s] <= IdAt(s, Len(w))
  BY DEF ReadScan, Connections, Quiet, Following
<1>2. /\ w \in Seq(Frames) /\ Len(w) \in Nat /\ end \in Frames /\ end.event = "stream-error"
      /\ wire \in [Streams -> Seq(Frames)] /\ handler \in [Streams -> {"none", "read", "replay"}]
  <2>1. wire \in [Streams -> Seq(Frames)] /\ handler \in [Streams -> {"none", "read", "replay"}]
    BY StreamTypes
  <2>2. w \in Seq(Frames) /\ Len(w) \in Nat
    BY <2>1, LenProperties
  <2> QED BY <2>1, <2>2, EndFrame
<1>3. s \notin finished
  BY <1>1 DEF FinishedHasAll
<1>4. /\ UNCHANGED <<serverVars, target, finished, ready, cursor, received, faults>>
      /\ \A k \in 1..Len(received[s])' : received'[s][k] = k
  BY DEF ReadScan, Gapless
<1>5. CASE status[target[s]] = "deleted"
  <2>1. /\ wire' = [wire EXCEPT ![s] = Append(w, end)]
        /\ handler' = [handler EXCEPT ![s] = "none"] /\ UNCHANGED seenStatus
    BY <1>5 DEF ReadScan
  <2>2. /\ Append(w, end) \in Seq(Frames) /\ Len(Append(w, end)) = Len(w) + 1
        /\ \A i \in 1..Len(w) : Append(w, end)[i] = w[i]
        /\ Append(w, end)[Len(w) + 1] = end
    BY <1>2, AppendProperties
  <2>3. /\ wire'[s] = Append(w, end) /\ handler'[s] = "none"
        /\ \A z \in Streams \ {s} : handler'[z] = handler[z] /\ wire'[z] = wire[z]
    BY <1>2, <2>1
  <2>4. StreamTypeOK'
    BY <1>2, <1>4, <2>1, <2>2, StreamTypesNext DEF StreamTypeOK, Frames
  <2>5. ASSUME NEW i \in 1..Len(wire[s])'
        PROVE  /\ IF wire'[s][i].event = "result"
                  THEN wire'[s][i].id \in 1..(IdAt(s, i - 1)' + 1)
                  ELSE i = Len(wire[s])'
               /\ wire'[s][i].event # "done"
    <3>1. CASE i = Len(w) + 1
      BY <1>2, <2>2, <2>3, <3>1
    <3>2. CASE i # Len(w) + 1
      <4>1. i \in 1..Len(w) /\ wire'[s][i] = w[i] /\ IdAt(s, i - 1)' = IdAt(s, i - 1)
        BY <1>2, <1>4, <2>2, <2>3, <2>5, <3>2 DEF IdAt
      <4> QED BY <1>1, <4>1 DEF InOrder
    <3> QED BY <3>1, <3>2
  <2>6. /\ ready'[s] = "open"
        /\ seenStatus'[s] = "over" => target[s] \in Scans /\ status[target[s]] # "pending"
    BY <1>1, <1>4, <2>1 DEF Connections
  <2> QED BY <1>1, <1>3, <1>4, <2>1, <2>3, <2>4, <2>5, <2>6, OthersKept
<1>6. CASE status[target[s]] # "deleted"
  <2>1. /\ seenStatus' = [seenStatus EXCEPT ![s] = status[target[s]]] /\ UNCHANGED wire
        /\ handler' = [handler EXCEPT ![s] = "replay"]
    BY <1>6 DEF ReadScan
  <2>2. status[target[s]] \in {"pending", "over"}
    BY <1>1, <1>6 DEF StreamTypeOK
  <2>3. /\ handler'[s] = "replay" /\ seenStatus'[s] = status[target[s]]
        /\ \A z \in Streams \ {s} : handler'[z] = handler[z] /\ seenStatus'[z] = seenStatus[z]
    BY <1>2, <2>1 DEF StreamTypeOK
  <2>4. StreamTypeOK'
    BY <1>2, <1>4, <2>1, <2>2, StreamTypesNext DEF StreamTypeOK, Frames
  <2>5. \A i : IdAt(s, i)' = IdAt(s, i)
    BY <1>4, <2>1 DEF IdAt
  <2>6. \A i \in 1..Len(wire[s])' : wire'[s][i].event = "result" /\ wire'[s][i].id \in 1..(IdAt(s, i - 1)' + 1)
    BY <1>1, <2>1, <2>5 DEF InOrder
  <2>7. cursor'[s] <= IdAt(s, Len(wire[s]))'
    <3>1. Len(wire[s])' = Len(w) /\ cursor'[s] = cursor[s]
      BY <1>4, <2>1
    <3>2. IdAt(s, Len(wire[s]))' = IdAt(s, Len(w))
      BY <1>4, <2>1 DEF IdAt
    <3> QED BY <1>1, <3>1, <3>2
  <2>8. /\ ready'[s] = "open" /\ target[s] \in Scans
        /\ seenStatus'[s] = "over" => target[s] \in Scans /\ status[target[s]] # "pending"
    BY <1>1, <1>4, <2>2, <2>3
  <2>9. \A z \in Streams \ {s} :
          /\ ready'[z] = ready[z] /\ handler'[z] = handler[z] /\ seenStatus'[z] = seenStatus[z]
          /\ cursor'[z] = cursor[z] /\ wire'[z] = wire[z] /\ received'[z] = received[z]
    BY <1>4, <2>1, <2>3
  <2> HIDE DEF w
  <2> QED BY <1>3, <1>4, <2>4, <2>6, <2>7, <2>8, <2>9, OthersKept
<1> QED BY <1>5, <1>6

LEMMA LenOf ==
    ASSUME NEW S, NEW k \in Nat, NEW f \in [1..k -> S]
    PROVE  f \in Seq(S) /\ Len(f) = k
<1>1. f \in Seq(S)
  BY SeqDef
<1>2. Len(f) \in Nat /\ 1..Len(f) = 1..k
  BY <1>1, LenProperties
<1>3. Len(f) = k
  BY <1>2
<1> QED BY <1>1, <1>3

\* A page that is not full brings the server up to the last id, so that what is
\* due, which the status read before it has fixed, is on the wire before `done`.
LEMMA ReplayHolds ==
    ASSUME StreamInv, NEW s \in Streams, Replay(s), UNCHANGED finished PROVE StreamInv'
<1> USE DEF StreamInv
<1> DEFINE w == wire[s]
           x == target[s]
           c == cursor[s]
           page == Replayed(x, c)
           ends == Len(page) < ReplayLimit /\ seenStatus[s] = "over"
           sent == [i \in DOMAIN page |-> ResultFrame(page[i])]
           end == IF ends THEN <<Frame("done")>> ELSE <<>>
<1>1. /\ handler[s] = "replay" /\ ready[s] = "open" /\ x \in Scans
      /\ \A i \in 1..Len(w) : w[i].event = "result"
      /\ c <= IdAt(s, Len(w)) /\ s \notin finished
  BY DEF Replay, Connections, Quiet, Following, FinishedHasAll
<1>2. /\ wire \in [Streams -> Seq(Frames)] /\ handler \in [Streams -> {"none", "read", "replay"}]
      /\ cursor \in [Streams -> 0..Cardinality(Results)] /\ Cardinality(Results) \in Nat
      /\ c \in 0..Cardinality(Results) /\ c \in Nat /\ w \in Seq(Frames) /\ Len(w) \in Nat
      /\ IdAt(s, Len(w)) \in Nat
  <2>1. /\ wire \in [Streams -> Seq(Frames)] /\ handler \in [Streams -> {"none", "read", "replay"}]
        /\ cursor \in [Streams -> 0..Cardinality(Results)] /\ Cardinality(Results) \in Nat
        /\ received[s] \in Seq(1..Cardinality(Results))
    BY StreamTypes
  <2>2. w \in Seq(Frames) /\ Len(w) \in Nat /\ Len(received[s]) \in Nat
    BY <2>1, LenProperties
  <2>3. ASSUME NEW i \in 1..Len(w) PROVE w[i].id \in Nat
    <3>1. w[i] \in Frames
      BY <2>2, ElementOfSeq
    <3> QED BY <2>1, <3>1 DEF Frames
  <2>4. c \in 0..Cardinality(Results)
    BY <2>1
  <2>5. c \in Nat
    BY <2>1, <2>4
  <2> QED BY <2>1, <2>2, <2>3, <2>4, <2>5 DEF IdAt
<1>3. Count(x) \in Nat /\ Ids(x) = 1..Count(x) /\ Count(x) <= Cardinality(Results)
  BY <1>1, ResultsFinite DEF Count, Written, Numbered
<1>4. PICK k \in Nat :
        /\ page = [i \in 1..k |-> c + i]
        /\ k > 0 => c + k <= Count(x)
        /\ k < ReplayLimit => c + k >= Count(x)
  BY <1>2, <1>3, PageFollows
<1>5. /\ wire' = [wire EXCEPT ![s] = w \o sent \o end]
      /\ cursor' = [cursor EXCEPT ![s] = Max({c} \cup Range(page))]
      /\ handler' = [handler EXCEPT ![s] = IF ends THEN "none" ELSE "read"]
      /\ UNCHANGED <<serverVars, target, ready, seenStatus, received, faults, finished>>
  BY DEF Replay
<1> HIDE DEF page
<1>6. Len(page) = k /\ DOMAIN page = 1..k /\ \A i \in 1..k : page[i] = c + i
  <2>1. page \in [1..k -> Nat]
    BY <1>2, <1>4
  <2> QED BY <1>4, <2>1, LenOf
<1>7. Max({c} \cup Range(page)) = c + k
  <2>1. \A y \in {c} \cup Range(page) : y \in Int /\ c + k >= y
    BY <1>2, <1>6 DEF Range
  <2>2. c + k \in {c} \cup Range(page)
    <3>1. CASE k = 0
      BY <1>2, <3>1
    <3>2. CASE k # 0
      <4>1. k \in DOMAIN page /\ page[k] = c + k
        BY <1>6, <3>2
      <4> QED BY <4>1 DEF Range
    <3> QED BY <3>1, <3>2
  <2> QED BY <2>1, <2>2, MaxIs
<1>8. c + k \in 0..Cardinality(Results)
  BY <1>2, <1>3, <1>4
<1>9. /\ sent \in Seq(Frames) /\ Len(sent) = k
      /\ \A i \in 1..k : sent[i] = ResultFrame(c + i)
  <2>1. \A i \in 1..k : ResultFrame(page[i]) = ResultFrame(c + i) /\ ResultFrame(c + i) \in Frames
    BY <1>2, <1>6, <1>8 DEF ResultFrame, Frames
  <2>2. sent \in [1..k -> Frames] /\ \A i \in 1..k : sent[i] = ResultFrame(c + i)
    BY <1>6, <2>1
  <2> HIDE DEF sent
  <2> QED BY <2>2, LenOf
<1>10. /\ end \in Seq(Frames) /\ Len(end) = (IF ends THEN 1 ELSE 0)
       /\ ends => end[1] = Frame("done")
  BY EndFrame
<1> DEFINE w2 == w \o sent \o end
<1>11. /\ w2 \in Seq(Frames) /\ Len(w2) = Len(w) + k + (IF ends THEN 1 ELSE 0)
       /\ \A i \in 1..Len(w) : w2[i] = w[i]
       /\ \A i \in 1..k : w2[Len(w) + i] = ResultFrame(c + i)
       /\ ends => w2[Len(w) + k + 1] = Frame("done")
  <2> HIDE DEF sent, end, ends
  <2>1. /\ w \o sent \in Seq(Frames) /\ Len(w \o sent) = Len(w) + k
        /\ \A i \in 1..Len(w) + k : (w \o sent)[i] = IF i <= Len(w) THEN w[i] ELSE sent[i - Len(w)]
    BY <1>2, <1>9, ConcatProperties
  <2>2. /\ w2 \in Seq(Frames) /\ Len(w2) = Len(w \o sent) + Len(end)
        /\ \A i \in 1..Len(w \o sent) + Len(end) : w2[i] =
             IF i <= Len(w \o sent) THEN (w \o sent)[i] ELSE end[i - Len(w \o sent)]
    BY <1>10, <2>1, ConcatProperties
  <2>3. \A i \in 1..Len(w) : w2[i] = w[i]
    BY <1>2, <1>10, <2>1, <2>2
  <2>4. ASSUME NEW i \in 1..k PROVE w2[Len(w) + i] = ResultFrame(c + i)
    <3>1. w2[Len(w) + i] = (w \o sent)[Len(w) + i]
      BY <1>2, <1>10, <2>1, <2>2
    <3>2. (w \o sent)[Len(w) + i] = sent[i]
      BY <1>2, <2>1
    <3> QED BY <1>9, <3>1, <3>2
  <2>5. ends => w2[Len(w) + k + 1] = Frame("done")
    BY <1>2, <1>10, <2>1, <2>2
  <2> QED BY <1>10, <2>1, <2>2, <2>3, <2>4, <2>5
<1> HIDE DEF w2, sent, end, ends
<1>12. /\ wire'[s] = w2 /\ cursor'[s] = c + k /\ handler'[s] = (IF ends THEN "none" ELSE "read")
       /\ \A z \in Streams \ {s} : handler'[z] = handler[z] /\ wire'[z] = wire[z] /\ cursor'[z] = cursor[z]
  BY <1>2, <1>5, <1>7 DEF w2
<1>13. StreamTypeOK'
  <2>1. /\ wire' \in [Streams -> Seq(Frames)] /\ cursor' \in [Streams -> 0..Cardinality(Results)]
        /\ handler' \in [Streams -> {"none", "read", "replay"}]
    BY <1>2, <1>5, <1>7, <1>8, <1>11 DEF w2
  <2> QED BY <1>5, <2>1, StreamTypesNext DEF StreamTypeOK
<1>14. PICK n \in Nat : n = Len(w)
  BY <1>2
<1>15. /\ Len(w2) = n + k + (IF ends THEN 1 ELSE 0)
       /\ \A i \in 1..n : w2[i] = w[i] /\ w[i].event = "result"
       /\ \A i \in 1..k : w2[n + i] = ResultFrame(c + i)
       /\ ends => w2[n + k + 1] = Frame("done")
       /\ c <= IdAt(s, n) /\ IdAt(s, n) \in Nat
  BY <1>1, <1>2, <1>11, <1>14
<1>16. \A i \in 1..k : w2[n + i].event = "result" /\ w2[n + i].id = c + i
  <2>1. \A i \in 1..k : ResultFrame(c + i).event = "result" /\ ResultFrame(c + i).id = c + i
    BY DEF ResultFrame
  <2> QED BY <1>15, <2>1
<1>17. c \in Nat /\ k \in Nat /\ n \in Nat /\ c + k \in 0..Cardinality(Results) /\ Cardinality(Results) \in Nat
  BY <1>2, <1>8
<1> HIDE DEF c
<1>18. /\ \A i \in 0..n : IdAt(s, i)' = IdAt(s, i)
       /\ \A i \in 1..k : IdAt(s, n + i)' = c + i
  <2>1. ASSUME NEW i \in 0..n PROVE IdAt(s, i)' = IdAt(s, i)
    BY <1>5, <1>12, <1>15 DEF IdAt
  <2>2. ASSUME NEW i \in 1..k PROVE IdAt(s, n + i)' = c + i
    <3>1. n + i # 0 /\ wire'[s][n + i].id = c + i
      BY <1>12, <1>16, <1>17
    <3> QED BY <3>1 DEF IdAt
  <2> QED BY <2>1, <2>2
<1>19. IdAt(s, n + k)' >= c + k /\ IdAt(s, n + k)' \in Nat
  <2>1. CASE k = 0
    <3>1. IdAt(s, n + k)' = IdAt(s, n)
      BY <1>18, <1>14, <2>1
    <3> QED BY <1>17, <1>15, <2>1, <3>1
  <2>2. CASE k # 0
    BY <1>17, <1>18, <2>2
  <2> QED BY <2>1, <2>2
<1>20. \A r \in due[x] : ends => seq[r] <= c + k
  <2>1. \A r \in due[x] : seq[r] \in 1..Count(x)
    BY <1>1, <1>3 DEF Numbered, Ids
  <2> QED BY <1>17, <1>3, <1>4, <1>6, <2>1 DEF ends
<1>21. /\ ready'[s] = "open"
       /\ \A i \in 1..Len(received[s])' : received'[s][i] = i
       /\ seenStatus'[s] = "over" => target[s] \in Scans /\ status[target[s]] # "pending"
  BY <1>1, <1>5 DEF Gapless, Connections
<1>22. ASSUME NEW i \in 1..Len(wire[s])'
       PROVE  /\ IF wire'[s][i].event = "result"
                 THEN wire'[s][i].id \in 1..(IdAt(s, i - 1)' + 1)
                 ELSE i = Len(wire[s])' /\ ends
              /\ wire'[s][i].event = "done" => Brought(s, IdAt(s, i - 1)')
  <2>1. CASE i \in 1..n
    <3>1. wire'[s][i] = wire[s][i] /\ i - 1 \in 0..n /\ i \in 1..Len(wire[s])
      <4>1. wire'[s][i] = wire[s][i]
        BY <1>12, <1>15, <2>1
      <4>2. i - 1 \in 0..n
        BY <1>17, <2>1
      <4>3. i \in 1..Len(wire[s])
        BY <1>14, <2>1
      <4> QED BY <4>1, <4>2, <4>3
    <3>2. IdAt(s, i - 1)' = IdAt(s, i - 1)
      BY <1>18, <3>1
    <3> QED BY <1>1, <3>1, <3>2 DEF InOrder
  <2>2. CASE i \in n + 1..n + k
    <3>1. PICK j \in 1..k : i = n + j
      <4>1. i - n \in 1..k /\ i = n + (i - n)
        BY <1>17, <2>2
      <4> QED BY <4>1
    <3>2. wire'[s][i].event = "result" /\ wire'[s][i].id = c + j
      BY <1>16, <1>12, <3>1
    <3>3. IdAt(s, i - 1)' >= c + j - 1 /\ IdAt(s, i - 1)' \in Nat
      <4>1. CASE j = 1
        <5>1. i - 1 = n /\ n \in 0..n
          BY <1>17, <3>1, <4>1
        <5>2. IdAt(s, i - 1)' = IdAt(s, n)
          BY <1>18, <5>1
        <5> QED BY <1>15, <1>17, <4>1, <5>2
      <4>2. CASE j # 1
        <5>1. j - 1 \in 1..k /\ i - 1 = n + (j - 1)
          BY <1>17, <3>1, <4>2
        <5>2. IdAt(s, i - 1)' = c + (j - 1)
          BY <1>18, <5>1
        <5> QED BY <1>17, <5>1, <5>2
      <4> QED BY <4>1, <4>2
    <3> QED BY <1>17, <3>2, <3>3
  <2>3. CASE i = n + k + 1
    <3>1. ends /\ i = Len(w2)
      <4>1. CASE ~ends
        <5>1. i \in 1..(n + k)
          BY <1>12, <1>15, <1>17, <4>1
        <5> QED BY <1>17, <2>3, <5>1
      <4>2. CASE ends
        BY <1>15, <2>3, <4>2
      <4> QED BY <4>1, <4>2
    <3>2. wire'[s][i] = Frame("done") /\ i - 1 = n + k
      BY <1>17, <1>14, <1>15, <1>12, <2>3, <3>1
    <3>3. Brought(s, IdAt(s, i - 1)')
      <4>1. ASSUME NEW r \in due[x] PROVE seq[r] <= IdAt(s, i - 1)'
        <5>1. seq[r] \in Int
          BY <1>1, <1>3 DEF Numbered, Ids
        <5>2. seq[r] <= c + k /\ IdAt(s, i - 1)' >= c + k /\ IdAt(s, i - 1)' \in Nat
          BY <1>19, <1>20, <3>1, <3>2
        <5> QED BY <1>17, <5>1, <5>2
      <4> QED BY <3>1, <4>1 DEF Brought, ends, Connections
    <3> QED BY <1>12, <3>1, <3>2, <3>3 DEF Frame
  <2>4. i \in 1..n \/ i \in n + 1..n + k \/ i = n + k + 1
    <3>1. i \in 1..(n + k + (IF ends THEN 1 ELSE 0))
      BY <1>15, <1>12
    <3> QED BY <1>17, <3>1
  <2> QED BY <2>1, <2>2, <2>3, <2>4
<1>23. handler'[s] # "none" =>
         /\ \A i \in 1..Len(wire[s])' : wire'[s][i].event = "result"
         /\ cursor'[s] <= IdAt(s, Len(wire[s]))'
  <2> SUFFICES ASSUME ~ends
               PROVE  /\ \A i \in 1..Len(wire[s])' : wire'[s][i].event = "result"
                      /\ cursor'[s] <= IdAt(s, Len(wire[s]))'
    BY <1>12
  <2>1. \A i \in 1..Len(wire[s])' : wire'[s][i].event = "result"
    BY <1>22
  <2>2. Len(wire[s])' = n + k
    BY <1>17, <1>14, <1>15, <1>12
  <2>3. IdAt(s, Len(wire[s]))' = IdAt(s, n + k)'
    BY <2>2 DEF IdAt
  <2> QED BY <1>17, <1>8, <1>12, <1>19, <2>1, <2>3
<1> QED BY <1>1, <1>5, <1>12, <1>13, <1>21, <1>22, <1>23, OthersKept

-------------------------------------------------------------------------------
(* The connection *)

\* What EventSource sends as Last-Event-ID is the number of results the page has.
LEMMA ResumesAfterLast ==
    ASSUME StreamInv, NEW s \in Streams
    PROVE  /\ LastEventID(s) = Len(received[s])
           /\ LastEventID(s) \in 0..Cardinality(Results)
<1> USE DEF StreamInv
<1> DEFINE n == Len(received[s])
<1>1. /\ received[s] \in Seq(1..Cardinality(Results)) /\ Cardinality(Results) \in Nat
      /\ n \in Nat /\ DOMAIN received[s] = 1..n
  BY StreamTypes, LenProperties
<1>2. \A k \in 1..n : received[s][k] = k /\ received[s][k] \in 1..Cardinality(Results)
  BY <1>1, ElementOfSeq DEF Gapless
<1>3. Range(received[s]) = 1..n
  BY <1>1, <1>2 DEF Range
<1>4. Max({0} \cup (1..n)) = n
  <2> HIDE DEF n
  <2>1. n \in {0} \cup (1..n) /\ \A y \in {0} \cup (1..n) : y \in Int /\ n >= y
    BY <1>1
  <2> QED BY <2>1, MaxIs
<1>5. n \in 0..Cardinality(Results)
  <2>1. CASE n = 0
    BY <1>1, <2>1
  <2>2. CASE n # 0
    <3>1. n \in 1..n
      BY <1>1, <2>2
    <3>2. n \in 1..Cardinality(Results)
      BY <1>2, <3>1
    <3> QED BY <1>1, <3>2
  <2> QED BY <2>1, <2>2
<1> QED BY <1>3, <1>4, <1>5 DEF LastEventID

LEMMA AcceptHolds ==
    ASSUME StreamInv, NEW s \in Streams, Accept(s), UNCHANGED finished PROVE StreamInv'
<1> USE DEF StreamInv
<1>1. /\ ready[s] = "connecting" /\ target[s] \in Scans /\ s \notin finished
      /\ wire[s] = <<>> /\ Len(wire[s]) = 0
  BY EmptySeq DEF Accept, Connections, Quiet, FinishedHasAll
<1>2. /\ ready' = [ready EXCEPT ![s] = "open"] /\ handler' = [handler EXCEPT ![s] = "read"]
      /\ cursor' = [cursor EXCEPT ![s] = Len(received[s])]
      /\ UNCHANGED <<serverVars, target, seenStatus, wire, received, faults, finished>>
  BY ResumesAfterLast DEF Accept
<1>3. StreamTypeOK'
  <2>1. Len(received[s]) \in 0..Cardinality(Results)
    BY ResumesAfterLast
  <2>2. cursor' \in [Streams -> 0..Cardinality(Results)]
    BY <1>2, <2>1, StreamTypes
  <2>3. wire' \in [Streams -> Seq(Frames)] /\ received' \in [Streams -> Seq(1..Cardinality(Results))]
    BY <1>2, StreamTypes
  <2>4. /\ ready' \in [Streams -> {"none", "connecting", "open", "closed"}]
        /\ handler' \in [Streams -> {"none", "read", "replay"}]
    BY <1>2 DEF StreamTypeOK
  <2> QED BY <1>2, <2>2, <2>3, <2>4, StreamTypesNext DEF StreamTypeOK
<1>4. /\ ready'[s] = "open" /\ cursor'[s] = Len(received[s])
      /\ \A z \in Streams \ {s} :
            ready'[z] = ready[z] /\ handler'[z] = handler[z] /\ cursor'[z] = cursor[z]
  BY <1>2 DEF StreamTypeOK
<1>5. IdAt(s, Len(wire[s]))' = Len(received[s]) /\ Len(received[s]) \in Int
  BY <1>1, <1>2, ResumesAfterLast DEF IdAt
<1>6. \A k \in 1..Len(received[s])' : received'[s][k] = k
  BY <1>2 DEF Gapless
<1>7. seenStatus'[s] = "over" => target[s] \in Scans /\ status[target[s]] # "pending"
  BY <1>2 DEF Connections
<1>8. Len(wire[s])' = 0
  BY <1>1, <1>2
<1>9. cursor'[s] <= IdAt(s, Len(wire[s]))'
  BY <1>4, <1>5
<1>10. \A z \in Streams \ {s} :
          /\ ready'[z] = ready[z] /\ handler'[z] = handler[z] /\ seenStatus'[z] = seenStatus[z]
          /\ cursor'[z] = cursor[z] /\ wire'[z] = wire[z] /\ received'[z] = received[z]
  BY <1>2, <1>4
<1> QED BY <1>1, <1>2, <1>3, <1>4, <1>6, <1>7, <1>8, <1>9, <1>10, OthersKept

\* A connection that is refused, lost or cut leaves nothing on the wire.
LEMMA EmptiedHolds ==
    ASSUME StreamInv, NEW s \in Streams, ready[s] \in {"connecting", "open"},
           NEW state \in {"connecting", "open", "closed"},
           ready' = [ready EXCEPT ![s] = state], handler' = [handler EXCEPT ![s] = "none"],
           wire' = [wire EXCEPT ![s] = <<>>], faults' = faults \/ Fault,
           UNCHANGED <<serverVars, target, seenStatus, cursor, received, finished>>
    PROVE  StreamInv'
<1> USE DEF StreamInv
<1>1. s \notin finished /\ target[s] \in Scans
  BY DEF FinishedHasAll, Connections
<1>2. StreamTypeOK'
  <2>1. <<>> \in Seq(Frames)
    BY EmptySeq
  <2>2. wire' \in [Streams -> Seq(Frames)] /\ received' \in [Streams -> Seq(1..Cardinality(Results))]
    BY <2>1, StreamTypes
  <2>3. /\ ready' \in [Streams -> {"none", "connecting", "open", "closed"}]
        /\ handler' \in [Streams -> {"none", "read", "replay"}]
    BY DEF StreamTypeOK
  <2> QED BY <2>2, <2>3, StreamTypesNext DEF StreamTypeOK
<1>3. /\ wire'[s] = <<>> /\ Len(wire[s])' = 0 /\ handler'[s] = "none"
      /\ \A z \in Streams \ {s} :
            ready'[z] = ready[z] /\ handler'[z] = handler[z] /\ wire'[z] = wire[z]
  BY EmptySeq DEF StreamTypeOK
<1>4. \A k \in 1..Len(received[s])' : received'[s][k] = k
  BY DEF Gapless
<1>5. seenStatus'[s] = "over" => target[s] \in Scans /\ status[target[s]] # "pending"
  BY DEF Connections
<1>6. Quiet(s)'
  BY <1>3 DEF Quiet
<1> QED BY <1>1, <1>2, <1>3, <1>4, <1>5, <1>6, OthersKept

LEMMA FailureHolds ==
    ASSUME StreamInv, NEW s \in Streams, UNCHANGED finished,
           Refuse(s) \/ Unreachable(s) \/ Lost(s) \/ Cut(s)
    PROVE  StreamInv'
<1> USE DEF StreamInv
<1>1. ready[s] # "open" => handler[s] = "none" /\ wire[s] = <<>>
  BY DEF Connections, Quiet
<1>2. /\ handler[s] = "none" => handler = [handler EXCEPT ![s] = "none"]
      /\ wire[s] = <<>> => wire = [wire EXCEPT ![s] = <<>>]
      /\ \A v : ready[s] = v => ready = [ready EXCEPT ![s] = v]
  BY DEF StreamTypeOK
<1>3. CASE Refuse(s)
  BY <1>1, <1>2, <1>3, EmptiedHolds DEF Refuse
<1>4. CASE Unreachable(s)
  BY <1>1, <1>2, <1>4, EmptiedHolds DEF Unreachable
<1>5. CASE Lost(s)
  BY <1>1, <1>2, <1>5, EmptiedHolds DEF Lost
<1>6. CASE Cut(s)
  BY <1>1, <1>2, <1>6, EmptiedHolds DEF Cut
<1> QED BY <1>3, <1>4, <1>5, <1>6

LEMMA BoundaryHolds ==
    ASSUME StreamInv, NEW s \in Streams, Boundary(s), UNCHANGED finished PROVE StreamInv'
<1> USE DEF StreamInv
<1>1. /\ handler' = [handler EXCEPT ![s] = "none"] /\ Fault
      /\ UNCHANGED <<serverVars, target, ready, seenStatus, cursor, wire, received, finished>>
  BY DEF Boundary
<1>2. StreamTypeOK'
  <2>1. handler' \in [Streams -> {"none", "read", "replay"}]
    BY <1>1 DEF StreamTypeOK
  <2>2. wire' \in [Streams -> Seq(Frames)] /\ received' \in [Streams -> Seq(1..Cardinality(Results))]
    BY <1>1, StreamTypes
  <2> QED BY <1>1, <2>1, <2>2, StreamTypesNext DEF StreamTypeOK
<1>3. \A z \in Streams : handler'[z] = handler[z] \/ handler'[z] = "none"
  BY <1>1 DEF StreamTypeOK
<1>4. Numbered'
  BY <1>1, NumberedStays
<1>5. \A z, i : IdAt(z, i)' = IdAt(z, i) /\ (Brought(z, i) => Brought(z, i)')
  BY <1>1 DEF IdAt, Brought, serverVars
<1>6. Connections' /\ Gapless' /\ InOrder' /\ Following'
  BY <1>1, <1>3, <1>5 DEF Connections, Quiet, Gapless, InOrder, Following, serverVars
<1>7. DoneIsLast' /\ FinishedHasAll'
  BY <1>1, <1>5 DEF DoneIsLast, FinishedHasAll, Brought, IdAt, serverVars
<1> QED BY <1>2, <1>4, <1>6, <1>7

LEMMA DuplicateHolds ==
    ASSUME StreamInv, NEW s \in Streams, Duplicate(s), UNCHANGED finished PROVE StreamInv'
<1> USE DEF StreamInv
<1> DEFINE w == wire[s]
           w2 == <<Head(w)>> \o w
<1>1. /\ w # <<>> /\ Head(w).event = "result" /\ ready[s] = "open" /\ target[s] \in Scans
      /\ Fault /\ wire' = [wire EXCEPT ![s] = w2]
      /\ UNCHANGED <<serverVars, target, ready, handler, seenStatus, cursor, received, finished>>
  BY DEF Duplicate, Arrives, Connections
<1>2. s \notin finished
  BY <1>1 DEF FinishedHasAll
<1>3. PICK n \in Nat : n = Len(w) /\ n >= 1
  <2>1. w \in Seq(Frames)
    BY StreamTypes
  <2>2. Len(w) \in Nat \ {0}
    BY <1>1, <2>1, EmptySeq
  <2> QED BY <2>2
<1>4. /\ w2 \in Seq(Frames) /\ Len(w2) = n + 1 /\ w2[1] = w[1] /\ Head(w) = w[1]
      /\ \A i \in 1..n : w2[i + 1] = w[i]
  <2>1. w \in Seq(Frames)
    BY StreamTypes
  <2>2. Head(w) = w[1] /\ w[1] \in Frames
    BY <1>1, <1>3, <2>1, ElementOfSeq
  <2>3. <<Head(w)>> \in Seq(Frames) /\ Len(<<Head(w)>>) = 1 /\ <<Head(w)>>[1] = w[1]
    BY <2>2
  <2> DEFINE h == <<Head(w)>>
  <2> HIDE DEF h
  <2>4. /\ h \o w \in Seq(Frames) /\ Len(h \o w) = 1 + n
        /\ \A i \in 1..1 + n : (h \o w)[i] = IF i <= 1 THEN h[i] ELSE w[i - 1]
    BY <1>3, <2>1, <2>3, ConcatProperties DEF h
  <2>5. (h \o w)[1] = w[1] /\ \A i \in 1..n : (h \o w)[i + 1] = w[i]
    BY <1>3, <2>3, <2>4 DEF h
  <2> QED BY <1>3, <2>2, <2>4, <2>5 DEF h
<1> HIDE DEF w2
<1>5. /\ wire'[s] = w2 /\ Len(wire[s])' = n + 1
      /\ \A z \in Streams \ {s} : wire'[z] = wire[z]
  BY <1>1, <1>4, StreamTypes
<1>6. StreamTypeOK'
  <2>1. wire' \in [Streams -> Seq(Frames)] /\ received' \in [Streams -> Seq(1..Cardinality(Results))]
    BY <1>1, <1>4, StreamTypes
  <2> QED BY <1>1, <2>1, StreamTypesNext DEF StreamTypeOK
<1>7. /\ wire'[s][1] = wire[s][1] /\ \A i \in 1..n : wire'[s][i + 1] = wire[s][i]
      /\ wire[s][1].event = "result"
  BY <1>1, <1>4, <1>5
<1>8. /\ IdAt(s, 0)' = IdAt(s, 0)
      /\ IdAt(s, 1)' = IdAt(s, 1)
      /\ \A i \in 1..n : IdAt(s, i + 1)' = IdAt(s, i)
  BY <1>1, <1>7 DEF IdAt
<1>9. \A i \in 1..n : IF wire[s][i].event = "result" THEN wire[s][i].id \in 1..(IdAt(s, i - 1) + 1) ELSE i = n
  BY <1>3 DEF InOrder
<1>10. ASSUME NEW i \in 1..(n + 1)
       PROVE  /\ IF wire'[s][i].event = "result"
                 THEN wire'[s][i].id \in 1..(IdAt(s, i - 1)' + 1)
                 ELSE i = n + 1
              /\ wire'[s][i].event = "done" => Brought(s, IdAt(s, i - 1)')
  <2>1. CASE i = 1
    BY <1>3, <1>7, <1>8, <1>9, <2>1
  <2>2. CASE i = 2
    <3>1. wire'[s][2] = wire[s][1] /\ IdAt(s, 1)' = wire[s][1].id
      BY <1>3, <1>7, <1>8 DEF IdAt
    <3>2. wire[s][1].id \in 1..(IdAt(s, 0) + 1)
      BY <1>3, <1>7, <1>9
    <3>3. wire[s][1].id \in 1..(wire[s][1].id + 1)
      BY <3>2
    <3> QED BY <1>7, <2>2, <3>1, <3>3
  <2>3. CASE i > 2
    <3>1. PICK j \in 1..n : j >= 2 /\ i = j + 1
      <4>1. i - 1 \in 1..n /\ i - 1 >= 2 /\ i = (i - 1) + 1
        BY <1>3, <2>3
      <4> QED BY <4>1
    <3>2. wire'[s][i] = wire[s][j]
      BY <1>7, <3>1
    <3>3. IdAt(s, i - 1)' = IdAt(s, j - 1)
      <4>1. j - 1 \in 1..n /\ i - 1 = (j - 1) + 1
        BY <1>3, <3>1
      <4> QED BY <1>8, <4>1
    <3>4. wire[s][j].event = "done" => Brought(s, IdAt(s, j - 1))
      BY <1>3, <3>1 DEF DoneIsLast
    <3> QED BY <1>9, <3>1, <3>2, <3>3, <3>4
  <2>4. i = 1 \/ i = 2 \/ i > 2
    BY <1>3
  <2> QED BY <2>1, <2>2, <2>3, <2>4
<1>11. handler'[s] # "none" =>
         /\ \A i \in 1..(n + 1) : wire'[s][i].event = "result"
         /\ cursor'[s] <= IdAt(s, n + 1)'
  <2> SUFFICES ASSUME handler'[s] # "none"
               PROVE  /\ \A i \in 1..(n + 1) : wire'[s][i].event = "result"
                      /\ cursor'[s] <= IdAt(s, n + 1)'
    OBVIOUS
  <2>1. (\A i \in 1..n : wire[s][i].event = "result") /\ cursor[s] <= IdAt(s, n)
    BY <1>1, <1>3 DEF Following
  <2>2. IdAt(s, n + 1)' = IdAt(s, n)
    BY <1>3, <1>8
  <2>3. ASSUME NEW i \in 1..(n + 1) PROVE wire'[s][i].event = "result"
    <3>1. CASE i = 1
      BY <1>7, <3>1
    <3>2. CASE i # 1
      <4>1. i - 1 \in 1..n /\ i = (i - 1) + 1
        BY <1>3, <3>2
      <4> QED BY <1>7, <2>1, <4>1
    <3> QED BY <3>1, <3>2
  <2> QED BY <1>1, <2>1, <2>2, <2>3
<1>12. /\ \A k \in 1..Len(received[s])' : received'[s][k] = k
       /\ seenStatus'[s] = "over" => target[s] \in Scans /\ status[target[s]] # "pending"
       /\ ready'[s] = "open"
  BY <1>1 DEF Gapless, Connections
<1>13. IdAt(s, Len(wire[s]))' = IdAt(s, n + 1)'
  BY <1>5 DEF IdAt
<1> QED BY <1>1, <1>2, <1>5, <1>6, <1>10, <1>11, <1>12, <1>13, OthersKept

\* What onResult does to the streams.
Dispatch(s) ==
    /\ Arrives(s, "result")
    /\ received' = [received EXCEPT ![s] =
           IF Head(wire[s]).id \in Range(@) THEN @ ELSE Append(@, Head(wire[s]).id)]
    /\ wire' = [wire EXCEPT ![s] = Tail(@)]
    /\ UNCHANGED <<serverVars, target, ready, handler, seenStatus, cursor, faults, finished>>

\* A result the page handles is its next, or one it has.
LEMMA DispatchHolds ==
    ASSUME StreamInv, NEW s \in Streams, Dispatch(s) PROVE StreamInv'
<1> USE DEF StreamInv
<1> DEFINE w == wire[s]
           old == received[s]
           id == Head(w).id
           new == IF id \in Range(old) THEN old ELSE Append(old, id)
<1>1. w # <<>> /\ Head(w).event = "result" /\ ready[s] = "open" /\ target[s] \in Scans
  BY DEF Dispatch, Arrives, Connections
<1>2. s \notin finished
  BY <1>1 DEF FinishedHasAll
<1>3. /\ wire' = [wire EXCEPT ![s] = Tail(w)] /\ received' = [received EXCEPT ![s] = new]
       /\ UNCHANGED <<serverVars, target, ready, handler, seenStatus, cursor, faults, finished>>
  BY DEF Dispatch
<1>4. /\ wire \in [Streams -> Seq(Frames)] /\ received \in [Streams -> Seq(1..Cardinality(Results))]
      /\ w \in Seq(Frames) /\ old \in Seq(1..Cardinality(Results)) /\ Cardinality(Results) \in Nat
  BY StreamTypes
<1>5. PICK n \in Nat : n = Len(w) /\ n >= 1
  BY <1>1, <1>4, EmptySeq
<1>6. PICK m \in Nat : m = Len(old) /\ DOMAIN old = 1..m
  BY <1>4, LenProperties
<1>7. /\ Tail(w) \in Seq(Frames) /\ Len(Tail(w)) = n - 1
      /\ \A i \in 1..(n - 1) : Tail(w)[i] = w[i + 1]
      /\ Head(w) = w[1]
  BY <1>1, <1>4, <1>5, HeadTailProperties
<1>8. \A i \in 1..n : w[i] \in Frames /\ w[i].id \in Nat
  <2>1. ASSUME NEW i \in 1..n PROVE w[i] \in Frames
    BY <1>4, <1>5, <2>1, ElementOfSeq
  <2>2. \A f \in Frames : f.id \in Nat
    BY <1>4 DEF Frames
  <2> QED BY <2>1, <2>2
<1>9. \A i \in 1..n : IF w[i].event = "result" THEN w[i].id \in 1..(IdAt(s, i - 1) + 1) ELSE i = n
  BY <1>5 DEF InOrder
<1>10. id \in 1..(m + 1) /\ id \in 1..Cardinality(Results)
  <2>1. id = w[1].id /\ w[1].event = "result" /\ w[1] \in Frames
    BY <1>1, <1>5, <1>7, <1>8
  <2>2. IdAt(s, 0) = m
    BY <1>6 DEF IdAt
  <2>3. id \in 1..(m + 1)
    BY <1>5, <1>9, <2>1, <2>2
  <2>4. id \in 0..Cardinality(Results)
    BY <2>1 DEF Frames
  <2> QED BY <1>4, <1>6, <2>3, <2>4
<1>11. \A k \in 1..m : old[k] = k
  BY <1>6 DEF Gapless
<1>12. id \in Range(old) <=> id <= m
  BY <1>6, <1>10, <1>11 DEF Range
<1>13. PICK m2 \in Nat :
         /\ Len(new) = m2 /\ new \in Seq(1..Cardinality(Results))
         /\ id <= m2 /\ \A k \in 1..m2 : new[k] = k
  <2>1. CASE id \in Range(old)
    BY <1>4, <1>6, <1>11, <1>12, <2>1
  <2>2. CASE id \notin Range(old)
    <3>1. id = m + 1 /\ new = Append(old, id)
      BY <1>6, <1>10, <1>12, <2>2
    <3>2. /\ Append(old, id) \in Seq(1..Cardinality(Results)) /\ Len(Append(old, id)) = m + 1
          /\ \A k \in 1..m : Append(old, id)[k] = old[k]
          /\ Append(old, id)[m + 1] = id
      BY <1>4, <1>6, <1>10, AppendProperties
    <3>3. \A k \in 1..(m + 1) : new[k] = k
      BY <1>6, <1>11, <3>1, <3>2
    <3> HIDE DEF new
    <3>4. Len(new) = m + 1 /\ new \in Seq(1..Cardinality(Results)) /\ id <= m + 1 /\ m + 1 \in Nat
      BY <1>6, <1>10, <3>1, <3>2
    <3> QED BY <3>3, <3>4
  <2> QED BY <2>1, <2>2
<1> HIDE DEF new, id
<1>14. /\ wire'[s] = Tail(w) /\ received'[s] = new
       /\ \A z \in Streams \ {s} : wire'[z] = wire[z] /\ received'[z] = received[z]
  BY <1>4, <1>3
<1>15. StreamTypeOK'
  <2>1. wire' \in [Streams -> Seq(Frames)]
    BY <1>4, <1>7, <1>3
  <2>2. received' \in [Streams -> Seq(1..Cardinality(Results))]
    BY <1>4, <1>13, <1>3
  <2> QED BY <1>3, <2>1, <2>2, StreamTypesNext DEF StreamTypeOK
<1>16. /\ Len(wire[s])' = n - 1 /\ Len(received[s])' = m2
       /\ \A i \in 1..(n - 1) : wire'[s][i] = wire[s][i + 1]
  BY <1>7, <1>13, <1>14
<1>17. /\ \A i \in 1..n : IdAt(s, i) = wire[s][i].id
       /\ IdAt(s, 0)' = m2
       /\ \A i \in 1..(n - 1) : IdAt(s, i)' = IdAt(s, i + 1)
  <2>1. \A i \in 1..n : IdAt(s, i) = wire[s][i].id
    BY DEF IdAt
  <2>2. IdAt(s, 0)' = m2
    BY <1>16 DEF IdAt
  <2>3. ASSUME NEW i \in 1..(n - 1) PROVE IdAt(s, i)' = IdAt(s, i + 1)
    <3>1. i # 0 /\ i + 1 # 0
      BY <1>5
    <3> QED BY <1>16, <3>1 DEF IdAt
  <2> QED BY <2>1, <2>2, <2>3
<1>18. ASSUME NEW i \in 1..n
       PROVE  IdAt(s, i - 1)' \in Nat /\ IdAt(s, i) \in Nat /\ IdAt(s, i) <= IdAt(s, i - 1)'
  <2>1. IdAt(s, i) \in Nat
    BY <1>8, <1>17
  <2>2. CASE i = 1
    <3>1. IdAt(s, 1) = id
      BY <1>5, <1>7, <1>17 DEF id
    <3> QED BY <1>13, <1>17, <2>1, <2>2, <3>1
  <2>3. CASE i # 1
    <3>1. i - 1 \in 1..(n - 1) /\ (i - 1) + 1 = i
      BY <1>5, <2>3
    <3> QED BY <1>17, <2>1, <3>1
  <2> QED BY <2>2, <2>3
<1>19. ASSUME NEW i \in 1..(n - 1)
       PROVE  /\ IF wire'[s][i].event = "result"
                 THEN wire'[s][i].id \in 1..(IdAt(s, i - 1)' + 1)
                 ELSE i = n - 1
              /\ wire'[s][i].event = "done" => Brought(s, IdAt(s, i - 1)')
  <2>1. i \in 1..n /\ i + 1 \in 1..n /\ (i + 1) - 1 = i
    BY <1>5
  <2>2. wire'[s][i] = wire[s][i + 1]
    BY <1>16
  <2>3. IdAt(s, i - 1)' \in Nat /\ IdAt(s, i) \in Nat /\ IdAt(s, i) <= IdAt(s, i - 1)'
    BY <1>18, <2>1
  <2>4. wire[s][i + 1].event = "result" => wire[s][i + 1].id \in 1..(IdAt(s, i) + 1)
    BY <1>9, <2>1
  <2>5. wire[s][i + 1].event # "result" => i = n - 1
    BY <1>5, <1>9, <2>1
  <2>6. wire[s][i + 1].event = "done" => Brought(s, IdAt(s, i))
    BY <1>5, <2>1 DEF DoneIsLast
  <2>7. \A r \in due[target[s]] : seq[r] \in Nat
    BY <1>1 DEF Numbered, Written, StreamTypeOK
  <2>8. wire[s][i + 1].event = "done" => Brought(s, IdAt(s, i - 1)')
    BY <2>3, <2>6, <2>7 DEF Brought
  <2> QED BY <2>2, <2>3, <2>4, <2>5, <2>8
<1>20. handler'[s] # "none" =>
         /\ \A i \in 1..(n - 1) : wire'[s][i].event = "result"
         /\ cursor'[s] <= IdAt(s, n - 1)'
  <2> SUFFICES ASSUME handler'[s] # "none"
               PROVE  /\ \A i \in 1..(n - 1) : wire'[s][i].event = "result"
                      /\ cursor'[s] <= IdAt(s, n - 1)'
    OBVIOUS
  <2>1. (\A i \in 1..n : wire[s][i].event = "result") /\ cursor[s] <= IdAt(s, n)
    BY <1>5, <1>3 DEF Following
  <2>2. ASSUME NEW i \in 1..(n - 1) PROVE wire'[s][i].event = "result"
    <3>1. i + 1 \in 1..n
      BY <1>5
    <3> QED BY <1>16, <2>1, <3>1
  <2>3. IdAt(s, n - 1)' \in Nat /\ IdAt(s, n) \in Nat /\ IdAt(s, n) <= IdAt(s, n - 1)'
    BY <1>5, <1>18
  <2>4. cursor'[s] \in Int /\ cursor'[s] = cursor[s]
    BY <1>4, <1>3, StreamTypes
  <2> QED BY <2>1, <2>2, <2>3, <2>4
<1>21. /\ \A k \in 1..Len(received[s])' : received'[s][k] = k
       /\ seenStatus'[s] = "over" => target[s] \in Scans /\ status[target[s]] # "pending"
       /\ ready'[s] = "open"
  BY <1>1, <1>13, <1>14, <1>16, <1>3 DEF Connections
<1>22. IdAt(s, Len(wire[s]))' = IdAt(s, n - 1)'
  BY <1>16 DEF IdAt
<1> QED BY <1>1, <1>2, <1>3, <1>14, <1>15, <1>16, <1>19, <1>20, <1>21, <1>22, OthersKept

\* Closing a stream forgets what was on its way; a stream that opens is new.
LEMMA ReopenHolds ==
    ASSUME StreamInv, NEW C \in SUBSET Streams, NEW O \in SUBSET Streams,
           NEW t \in [Streams -> Scans \cup {None}], Reopen(C, O, t), UNCHANGED faults,
           \A s \in O : s \notin C /\ ready[s] = "none" /\ t[s] \in Scans,
           \A s \in C : ready[s] # "none",
           \A s \in Streams : t[s] # target[s] => ready[s] = "none" /\ seenStatus[s] = "pending",
           finished' \subseteq Streams,
           \A s \in finished' : s \in finished \/ (s \in C /\ Brought(s, Len(received[s])))
    PROVE  StreamInv'
<1> USE DEF StreamInv
<1>1. /\ target' = t /\ UNCHANGED <<serverVars, received, faults>>
      /\ \A s \in C : ready'[s] = "closed" /\ handler'[s] = "none" /\ seenStatus'[s] = "pending"
                      /\ cursor'[s] = 0 /\ wire'[s] = <<>> /\ t[s] = target[s]
      /\ \A s \in Streams \ C :
            /\ handler'[s] = handler[s] /\ seenStatus'[s] = seenStatus[s]
            /\ cursor'[s] = cursor[s] /\ wire'[s] = wire[s]
            /\ ready'[s] = IF s \in O THEN "connecting" ELSE ready[s]
  BY DEF Reopen
<1>2. StreamTypeOK'
  <2>1. 0 \in 0..Cardinality(Results)
    BY StreamTypes
  <2>2. /\ ready' \in [Streams -> {"none", "connecting", "open", "closed"}]
        /\ handler' \in [Streams -> {"none", "read", "replay"}]
        /\ seenStatus' \in [Streams -> {"pending", "over"}]
    BY DEF Reopen, StreamTypeOK
  <2>3. cursor' \in [Streams -> 0..Cardinality(Results)]
    BY <2>1, StreamTypes DEF Reopen
  <2>4. wire' \in [Streams -> Seq(Frames)] /\ received' \in [Streams -> Seq(1..Cardinality(Results))]
    BY EmptySeq, StreamTypes DEF Reopen
  <2> QED BY <1>1, <2>2, <2>3, <2>4, StreamTypesNext
<1>3. Numbered'
  BY <1>1, NumberedStays
<1>4. Connections'
  <2>1. ASSUME NEW s \in C
        PROVE  Quiet(s)' /\ target'[s] \in Scans /\ seenStatus'[s] # "over"
    BY <1>1, <2>1 DEF Quiet, Connections
  <2>2. ASSUME NEW s \in Streams \ C
        PROVE  /\ ready'[s] # "open" => Quiet(s)'
               /\ ready'[s] # "none" => target'[s] \in Scans
               /\ seenStatus'[s] = "over" => target'[s] \in Scans /\ status'[target'[s]] # "pending"
    BY <1>1, <2>2 DEF Quiet, Connections, serverVars
  <2> QED BY <2>1, <2>2 DEF Connections
<1>5. Gapless'
  BY <1>1 DEF Gapless
<1>6. \A s \in C : Len(wire[s])' = 0 /\ handler'[s] = "none"
  BY <1>1, EmptySeq
<1>7. \A s \in Streams \ C : \A i : IdAt(s, i)' = IdAt(s, i)
  BY <1>1 DEF IdAt
<1>8. InOrder'
  <2>1. ASSUME NEW s \in C, NEW i \in 1..Len(wire[s])' PROVE FALSE
    BY <1>6, <2>1
  <2> QED BY <1>1, <1>7, <2>1 DEF InOrder
<1>9. Following'
  BY <1>1, <1>6, <1>7 DEF Following
<1>10. \A s \in Streams : \A n : t[s] = target[s] /\ Brought(s, n) => Brought(s, n)'
  BY <1>1 DEF Brought, serverVars
<1>11. DoneIsLast'
  <2>1. ASSUME NEW s \in C, NEW i \in 1..Len(wire[s])' PROVE FALSE
    BY <1>6, <2>1
  <2>2. ASSUME NEW s \in Streams \ C, NEW i \in 1..Len(wire[s])', wire'[s][i].event = "done"
        PROVE  Brought(s, IdAt(s, i - 1))'
    <3>1. i \in 1..Len(wire[s]) /\ wire[s][i].event = "done"
      BY <1>1, <2>2
    <3>2. ready[s] = "open"
      BY <2>2, <3>1, EmptySeq DEF Connections, Quiet
    <3>3. t[s] = target[s] /\ Brought(s, IdAt(s, i - 1))
      BY <3>1, <3>2 DEF DoneIsLast
    <3>4. Brought(s, IdAt(s, i - 1)')
      BY <1>7, <3>3
    <3> QED BY <1>1, <3>3, <3>4 DEF Brought, serverVars
  <2> QED BY <2>1, <2>2 DEF DoneIsLast
<1>12. FinishedHasAll'
  <2>1. ASSUME NEW s \in finished' PROVE ready'[s] = "closed" /\ Brought(s, Len(received[s]))'
    <3>1. s \in Streams
      BY <2>1
    <3>2. CASE s \in finished
      <4>1. ready[s] = "closed" /\ Brought(s, Len(received[s])) /\ t[s] = target[s] /\ s \notin O
        BY <3>1, <3>2 DEF FinishedHasAll
      <4>2. ready'[s] = "closed"
        BY <1>1, <3>1, <4>1
      <4> QED BY <1>1, <4>1, <4>2 DEF Brought, serverVars
    <3>3. CASE s \in C /\ Brought(s, Len(received[s]))
      BY <1>1, <3>3 DEF Brought, serverVars
    <3> QED BY <2>1, <3>2, <3>3
  <2> QED BY <2>1 DEF FinishedHasAll
<1> QED BY <1>2, <1>3, <1>4, <1>5, <1>8, <1>9, <1>11, <1>12

LEMMA StreamsKept ==
    ASSUME StreamInv, faults' = faults \/ Fault,
           UNCHANGED <<serverVars, target, ready, handler, seenStatus, cursor, wire, received, finished>>
    PROVE  StreamInv'
<1> USE DEF StreamInv
<1>1. StreamTypeOK'
  BY StreamTypes, StreamTypesNext DEF StreamTypeOK
<1>2. Numbered'
  BY NumberedStays
<1>3. \A z, i : IdAt(z, i)' = IdAt(z, i) /\ (Brought(z, i) => Brought(z, i)')
  BY DEF IdAt, Brought, serverVars
<1>4. Connections' /\ Gapless' /\ InOrder' /\ Following'
  BY <1>3 DEF Connections, Quiet, Gapless, InOrder, Following, serverVars
<1>5. DoneIsLast' /\ FinishedHasAll'
  BY <1>3 DEF DoneIsLast, FinishedHasAll, Brought, IdAt, serverVars
<1> QED BY <1>1, <1>2, <1>4, <1>5

\* Every step of the server and of the connection.
LEMMA BackgroundHolds ==
    ASSUME StreamInv, Background, UNCHANGED finished PROVE StreamInv'
<1>1. CASE ServerStep
  BY <1>1, InsertHolds, CommitHolds, RollbackHolds, EndScanHolds, DeleteScanHolds DEF ServerStep
<1>2. ASSUME NEW s \in Streams, LoopStep(s) \/ Boundary(s) \/ Cut(s) \/ Duplicate(s)
      PROVE  StreamInv'
  BY <1>2, ReadScanHolds, ReplayHolds, BoundaryHolds, FailureHolds, DuplicateHolds DEF LoopStep
<1> QED BY <1>1, <1>2 DEF Background

-------------------------------------------------------------------------------
(* The page *)

LEMMA Sessions ==
    /\ \A c \in Clicks : c \in Streams /\ PollsFor(c) \in Streams /\ PollsFor(c) \notin Clicks
    /\ \A c, d \in Clicks : PollsFor(c) = PollsFor(d) => c = d
    /\ None \notin Streams /\ Active \subseteq {activeEventSource} /\ MaxPolls \in Nat /\ MaxPolls > 0
BY StreamsAssumption, MaxPollsAssumption, BoundsAssumption DEF Clicks, PollsFor, Active

\* Events that open no stream and take the page from nobody.
LEMMA PageKept ==
    ASSUME PageInv, UNCHANGED <<supported, request, poll, polls, finished, fetching, pageVars, target>>,
           \A s \in Streams : ready[s] = "none" =>
                ready'[s] = "none" /\ seenStatus'[s] = seenStatus[s] /\ received'[s] = received[s],
           \A s \in Streams : ready[s] # "none" => ready'[s] # "none",
           \A s \in Streams : ready'[s] \in {"connecting", "open"} => ready[s] \in {"connecting", "open"},
           fallback' \in [Streams -> BOOLEAN],
           \A s \in Streams : fallback'[s] => ready[s] # "none",
           \A s \in Streams : activeScanToken = s /\ (ready[s] \in {"connecting", "open"} \/ fallback[s]) =>
                ready'[s] \in {"connecting", "open"} \/ fallback'[s]
    PROVE  PageInv'
<1> USE DEF PageInv
<1>1. PageTypeOK'
  BY DEF PageTypeOK, pageVars
<1>2. Aimed'
  BY DEF Aimed
<1>3. \A s \in Streams : Untouched(s) => Untouched(s)'
  BY DEF Untouched, pageVars
<1>4. Fresh'
  BY <1>3, Sessions DEF Fresh, pageVars
<1>5. StreamsOfClicks'
  BY DEF StreamsOfClicks, pageVars
<1>6. TriesCounted'
  BY DEF TriesCounted
<1>7. OneStream'
  BY DEF OneStream, Live, Owns, pageVars
<1>8. ScanningHasOwner'
  BY DEF ScanningHasOwner, Live, Owns, pageVars
<1> QED BY <1>1, <1>2, <1>4, <1>5, <1>6, <1>7, <1>8

\* The answer of a request that opens nothing.
LEMMA AnswerKept ==
    ASSUME PageInv, NEW c \in Clicks,
           request' = [request EXCEPT ![c].kind = "over"],
           UNCHANGED <<supported, poll, polls, fallback, finished, fetching, target, ready,
                       seenStatus, received, activeScanToken, activeEventSource>>,
           scanning' \in BOOLEAN, scanIdDisplay' \in Scans \cup {None},
           lastScanData' \in Scans \cup {None, Error},
           scanning' => scanning /\ request[c].kind \notin {"load", "scan", "schedule"}
    PROVE  PageInv'
<1> USE DEF PageInv
<1>1. /\ request'[c].kind = "over" /\ request'[c].scan = request[c].scan
      /\ \A d \in Clicks \ {c} : request'[d] = request[d]
  BY DEF PageTypeOK
<1>2. PageTypeOK'
  BY DEF PageTypeOK
<1>3. Aimed'
  BY <1>1 DEF Aimed
<1>4. \A s \in Streams : Untouched(s) => Untouched(s)'
  BY DEF Untouched
<1>5. Fresh'
  BY <1>1, <1>4, Sessions DEF Fresh
<1>6. StreamsOfClicks' /\ TriesCounted'
  BY DEF StreamsOfClicks, TriesCounted
<1>7. OneStream'
  BY DEF OneStream, Live, Owns
<1>8. ScanningHasOwner'
  BY <1>1 DEF ScanningHasOwner, Live, Owns
<1> QED BY <1>2, <1>3, <1>5, <1>6, <1>7, <1>8

\* What Reopen leaves of the sessions that it neither closes nor opens.
LEMMA ReopenSeen ==
    ASSUME NEW C \in SUBSET Streams, NEW O \in SUBSET Streams, NEW t, Reopen(C, O, t)
    PROVE  /\ target' = t /\ received' = received
           /\ \A s \in C : ready'[s] = "closed"
           /\ \A s \in Streams \ C : ready'[s] = (IF s \in O THEN "connecting" ELSE ready[s])
                                     /\ seenStatus'[s] = seenStatus[s]
BY DEF Reopen

LEMMA CloseSeen ==
    ASSUME NEW s \in Streams, Reopen({s}, {}, target)
    PROVE  /\ target' = target /\ received' = received /\ ready'[s] = "closed"
           /\ \A z \in Streams \ {s} : ready'[z] = ready[z] /\ seenStatus'[z] = seenStatus[z]
BY DEF Reopen

LEMMA ClickHolds ==
    ASSUME IInv, NEW kind, NEW x,
           (kind = "load" /\ x \in Scans) \/ (kind = "scan" /\ x = None), Click(kind, x)
    PROVE  IInv'
<1> USE DEF IInv
<1>1. PICK c \in Clicks : request[c] = Idle /\ request' = [request EXCEPT ![c] = Ask(kind, x)]
  BY DEF Click
<1>2. /\ Reopen(Active, {}, target) /\ activeScanToken' = None /\ activeEventSource' = None
      /\ scanning' = TRUE /\ scanIdDisplay' = None /\ lastScanData' = None
      /\ UNCHANGED <<faults, supported, poll, polls, fallback, finished, fetching>>
  BY DEF Click, resetResultsView
<1>3. /\ Active \in SUBSET Streams /\ {} \in SUBSET Streams
      /\ \A s \in Active : ready[s] # "none"
  BY DEF Active, PageInv, PageTypeOK, StreamsOfClicks
<1>4. /\ target' = target /\ received' = received
      /\ \A s \in Active : ready'[s] = "closed"
      /\ \A s \in Streams \ Active : ready'[s] = ready[s] /\ seenStatus'[s] = seenStatus[s]
  BY <1>2, <1>3, ReopenSeen
<1>5. StreamInv'
  <2>1. target \in [Streams -> Scans \cup {None}] /\ finished' \subseteq Streams
    BY <1>2 DEF StreamInv, StreamTypeOK, FinishedHasAll
  <2> QED BY <1>2, <1>3, <2>1, ReopenHolds
<1> USE DEF PageInv
<1>6. /\ request'[c] = Ask(kind, x) /\ \A d \in Clicks \ {c} : request'[d] = request[d]
      /\ request[c].kind = "none"
  BY <1>1 DEF PageTypeOK, Idle
<1>7. PageTypeOK'
  BY <1>1, <1>2 DEF PageTypeOK, Ask
<1>8. Aimed'
  BY <1>2, <1>3, <1>4, <1>6 DEF Aimed, Ask
<1>9. \A s \in Streams : Untouched(s) => Untouched(s)'
  BY <1>2, <1>3, <1>4, Sessions DEF Untouched
<1>10. Fresh'
  BY <1>2, <1>6, <1>9, Sessions DEF Fresh, Clicks
<1>11. StreamsOfClicks'
  BY <1>2, <1>3, <1>4, Sessions DEF StreamsOfClicks
<1>12. TriesCounted'
  BY <1>2 DEF TriesCounted
<1>13. OneStream'
  BY <1>2, <1>3, <1>4, Sessions DEF OneStream, Live, Active
<1>14. ScanningHasOwner'
  BY <1>6 DEF ScanningHasOwner, Ask
<1> QED BY <1>5, <1>7, <1>8, <1>10, <1>11, <1>12, <1>13, <1>14

\* The session of the click whose answer comes is new.
LEMMA StartHolds ==
    ASSUME IInv, NEW c \in Clicks, NEW x \in Scans,
           request[c].kind # "over", request' = [request EXCEPT ![c].kind = "over"],
           UNCHANGED <<supported, polls, fallback, finished, fetching, faults>>,
           startStreaming(x, c)
    PROVE  IInv'
<1> USE DEF IInv
<1> DEFINE t == [target EXCEPT ![c] = x]
           O == IF supported THEN {c} ELSE {}
<1>1. /\ request'[c].kind = "over" /\ \A d \in Clicks \ {c} : request'[d] = request[d]
      /\ request' \in [Clicks -> [kind : {"none", "load", "scan", "schedule", "share", "over"},
                                  scan : Scans \cup {None}]]
  BY DEF PageInv, PageTypeOK
<1>2. /\ activeScanToken' = c /\ scanIdDisplay' = x /\ UNCHANGED <<scanning, lastScanData>>
      /\ Reopen(Active, O, t)
      /\ supported => activeEventSource' = c /\ poll' = poll
      /\ ~supported => activeEventSource' = None /\ poll' = [poll EXCEPT ![c] = "timer"]
  BY DEF startStreaming, PageInv, PageTypeOK
<1>3. /\ Untouched(c) /\ Untouched(PollsFor(c)) /\ c \in Streams
      /\ target \in [Streams -> Scans \cup {None}]
  BY Sessions DEF PageInv, Fresh, StreamInv, StreamTypeOK
<1>4. /\ Active \in SUBSET Streams /\ O \in SUBSET Streams
      /\ \A s \in Active : ready[s] # "none"
      /\ c \notin Active
  BY <1>3 DEF Active, PageInv, PageTypeOK, StreamsOfClicks, Untouched
<1>5. /\ t \in [Streams -> Scans \cup {None}] /\ t[c] = x
      /\ \A s \in Streams : s # c => t[s] = target[s]
  BY <1>3
<1> HIDE DEF t
<1>6. /\ target' = t /\ received' = received
      /\ \A s \in Active : ready'[s] = "closed"
      /\ \A s \in Streams \ Active : ready'[s] = (IF s \in O THEN "connecting" ELSE ready[s])
                                     /\ seenStatus'[s] = seenStatus[s]
  BY <1>2, <1>4, ReopenSeen
<1>7. StreamInv'
  <2>1. finished' \subseteq Streams
    BY DEF StreamInv, FinishedHasAll
  <2>2. \A s \in O : s \notin Active /\ ready[s] = "none" /\ t[s] \in Scans
    BY <1>3, <1>4, <1>5 DEF Untouched
  <2>3. \A s \in Streams : t[s] # target[s] => ready[s] = "none" /\ seenStatus[s] = "pending"
    BY <1>3, <1>5 DEF Untouched
  <2> HIDE DEF O
  <2> QED BY <1>2, <1>4, <1>5, <2>1, <2>2, <2>3, ReopenHolds
<1> USE DEF PageInv
<1>8. poll' \in [Streams -> {"none", "timer", "asked", "over"}]
      /\ \A s \in Streams : s # c => poll'[s] = poll[s]
  BY <1>2, <1>3 DEF PageTypeOK
<1>9. PageTypeOK'
  BY <1>1, <1>2, <1>3, <1>8, Sessions DEF PageTypeOK
<1>10. Aimed'
  <2>1. ASSUME NEW s \in Streams, ready'[s] # "none" \/ poll'[s] # "none" PROVE target'[s] \in Scans
    <3>1. CASE s = c
      BY <1>5, <1>6, <3>1
    <3>2. CASE s # c
      BY <1>4, <1>5, <1>6, <1>8, <2>1, <3>2 DEF Aimed
    <3> QED BY <3>1, <3>2
  <2> QED BY <1>1, <2>1 DEF Aimed
<1>11. \A s \in Streams : s # c /\ Untouched(s) => Untouched(s)'
  BY <1>2, <1>4, <1>5, <1>6, <1>8 DEF Untouched
<1>12. Fresh'
  BY <1>1, <1>2, <1>3, <1>11, Sessions DEF Fresh
<1>13. StreamsOfClicks'
  BY <1>2, <1>3, <1>4, <1>6, Sessions DEF StreamsOfClicks
<1>14. TriesCounted'
  BY <1>2, <1>3, <1>8, Sessions DEF TriesCounted, Untouched
<1>15. OneStream'
  <2>1. ASSUME NEW s \in Streams, ready'[s] \in {"connecting", "open"} PROVE supported /\ s = c
    <3>1. s \notin Active
      BY <1>6, <2>1
    <3>2. ready[s] \notin {"connecting", "open"}
      BY <3>1, Sessions DEF OneStream, Live, Active, Owns
    <3> QED BY <1>6, <2>1, <3>1, <3>2
  <2> QED BY <1>2, <2>1 DEF OneStream, Live, Owns
<1>16. ScanningHasOwner'
  <2>1. ready'[c] = "connecting" \/ poll'[c] = "timer"
    BY <1>2, <1>3, <1>4, <1>6 DEF PageTypeOK
  <2> QED BY <1>2, <1>3, <2>1 DEF ScanningHasOwner, Live, Owns
<1> QED BY <1>7, <1>9, <1>10, <1>12, <1>13, <1>14, <1>15, <1>16

LEMMA AnswersHold ==
    ASSUME IInv, NEW c \in Clicks, AnswerStep(c) PROVE IInv'
<1> USE DEF IInv
<1>1. /\ supported \in BOOLEAN /\ scanning \in BOOLEAN /\ scanIdDisplay \in Scans \cup {None}
      /\ lastScanData \in Scans \cup {None, Error} /\ request[c].scan \in Scans \cup {None}
      /\ request[c].kind \in {"load", "schedule", "share"} => request[c].scan \in Scans
  BY DEF PageInv, PageTypeOK, Aimed
<1>2. CASE loadAnswered(c)
  <2> DEFINE x == request[c].scan
  <2>1. x \in Scans /\ Answered(c, "load")
    BY <1>1, <1>2 DEF loadAnswered, Answered
  <2>2. CASE displayResults(x) /\ UNCHANGED <<serverVars, streamVars, poll>>
    <3>1. StreamInv'
      BY <2>1, <2>2, StreamsKept DEF Answered, streamVars
    <3>2. PageInv'
      BY <1>1, <2>1, <2>2, AnswerKept DEF Answered, displayResults, streamVars
    <3> QED BY <3>1, <3>2
  <2>3. CASE startStreaming(x, c) /\ UNCHANGED faults
    BY <2>1, <2>3, StartHolds DEF Answered
  <2>4. CASE /\ faults' = faults \/ Fault
             /\ GiveUp
             /\ UNCHANGED <<serverVars, target, ready, handler, seenStatus, cursor, wire, received, poll>>
    <3>1. StreamInv'
      BY <2>1, <2>4, StreamsKept DEF Answered
    <3>2. PageInv'
      BY <1>1, <2>1, <2>4, AnswerKept DEF Answered, GiveUp
    <3> QED BY <3>1, <3>2
  <2> QED BY <1>2, <2>2, <2>3, <2>4 DEF loadAnswered
<1>3. CASE scanAnswered(c)
  <2>1. Answered(c, "scan")
    BY <1>3 DEF scanAnswered
  <2>2. ASSUME NEW x \in Scans, startStreaming(x, c), UNCHANGED faults PROVE IInv'
    BY <2>1, <2>2, StartHolds DEF Answered
  <2>3. CASE /\ faults' = faults \/ Fault
             /\ GiveUp
             /\ UNCHANGED <<serverVars, target, ready, handler, seenStatus, cursor, wire, received, poll>>
    <3>1. StreamInv'
      BY <2>1, <2>3, StreamsKept DEF Answered
    <3>2. PageInv'
      BY <1>1, <2>1, <2>3, AnswerKept DEF Answered, GiveUp
    <3> QED BY <3>1, <3>2
  <2> QED BY <1>3, <2>2, <2>3 DEF scanAnswered
<1>4. CASE scanToSchedule(c)
  <2>1. PICK x \in Scans : request' = [request EXCEPT ![c] = Ask("schedule", x)]
    BY <1>4 DEF scanToSchedule
  <2>2. /\ request[c].kind = "scan"
        /\ UNCHANGED <<serverVars, streamVars, supported, poll, polls, fallback, finished, fetching, pageVars>>
    BY <1>4 DEF scanToSchedule
  <2>3. StreamInv'
    BY <2>2, StreamsKept DEF streamVars
  <2> USE DEF PageInv
  <2>4. /\ request'[c] = Ask("schedule", x) /\ \A d \in Clicks \ {c} : request'[d] = request[d]
    BY <2>1 DEF PageTypeOK
  <2>5. PageTypeOK'
    BY <2>1, <2>2 DEF PageTypeOK, Ask, pageVars
  <2>6. Aimed'
    BY <2>2, <2>4 DEF Aimed, Ask, streamVars
  <2>7. \A s \in Streams : Untouched(s) => Untouched(s)'
    BY <2>2 DEF Untouched, streamVars, pageVars
  <2>8. Fresh'
    BY <2>2, <2>4, <2>7, Sessions DEF Fresh, Ask, pageVars
  <2>9. StreamsOfClicks' /\ TriesCounted'
    BY <2>2 DEF StreamsOfClicks, TriesCounted, streamVars, pageVars
  <2>10. OneStream'
    BY <2>2 DEF OneStream, Live, Owns, streamVars, pageVars
  <2>11. ScanningHasOwner'
    BY <2>4 DEF ScanningHasOwner, Ask
  <2> QED BY <2>3, <2>5, <2>6, <2>8, <2>9, <2>10, <2>11
<1>5. CASE scheduleAnswered(c)
  BY <1>1, <1>5, StartHolds DEF scheduleAnswered, Answered
<1>6. CASE shareAnswered(c)
  <2>1. Answered(c, "share") /\ UNCHANGED <<serverVars, streamVars, poll>>
    BY <1>6 DEF shareAnswered
  <2>2. StreamInv'
    BY <2>1, StreamsKept DEF Answered, streamVars
  <2>3. CASE displayResults(request[c].scan)
    BY <1>1, <2>1, <2>2, <2>3, AnswerKept DEF Answered, displayResults, streamVars
  <2>4. CASE UNCHANGED pageVars
    BY <1>1, <2>1, <2>2, <2>4, AnswerKept DEF Answered, pageVars, streamVars
  <2> QED BY <1>6, <2>3, <2>4 DEF shareAnswered
<1> QED BY <1>2, <1>3, <1>4, <1>5, <1>6 DEF AnswerStep

\* A stream that is open owns the page: its events are never stale.
LEMMA LiveOwns ==
    ASSUME PageInv, NEW s \in Streams, ready[s] \in {"connecting", "open"}
    PROVE  Owns(s) /\ activeEventSource = s /\ s \in Live
BY DEF PageInv, OneStream, Live

LEMMA ConnectionEventsHold ==
    ASSUME IInv, NEW s \in Streams, onopen(s) \/ onerror(s) \/ onResult(s) PROVE IInv'
<1> USE DEF IInv
<1>1. /\ s \in Live => ready[s] \in {"connecting", "open"}
      /\ fallback \in [Streams -> BOOLEAN] /\ ready \in [Streams -> {"none", "connecting", "open", "closed"}]
      /\ \A z \in Streams : fallback[z] => ready[z] # "none"
  BY DEF Live, PageInv, PageTypeOK, StreamsOfClicks, StreamInv, StreamTypeOK
<1>2. CASE onopen(s)
  <2>1. Accept(s)
    BY <1>1, <1>2, LiveOwns DEF onopen, closeStale
  <2>2. ready[s] = "connecting"
    BY <2>1 DEF Accept
  <2>3. /\ fallback' = [fallback EXCEPT ![s] = FALSE]
        /\ UNCHANGED <<supported, request, poll, polls, finished, fetching, pageVars>>
    BY <1>2, <2>2, LiveOwns DEF onopen
  <2>4. StreamInv'
    BY <2>1, <2>3, AcceptHolds
  <2>5. /\ ready' = [ready EXCEPT ![s] = "open"] /\ UNCHANGED <<target, seenStatus, received>>
    BY <2>1 DEF Accept
  <2>6. /\ ready'[s] = "open" /\ \A z \in Streams \ {s} : ready'[z] = ready[z] /\ fallback'[z] = fallback[z]
        /\ ~fallback'[s] /\ fallback' \in [Streams -> BOOLEAN]
    BY <1>1, <2>3, <2>5
  <2>7. PageInv'
    BY <1>1, <2>2, <2>3, <2>5, <2>6, PageKept
  <2> QED BY <2>4, <2>7
<1>3. CASE onerror(s)
  <2>1. (Lost(s) \/ Refuse(s) \/ Unreachable(s))
    BY <1>1, <1>3, LiveOwns DEF onerror, closeStale
  <2>2. /\ ready[s] \in {"connecting", "open"} /\ UNCHANGED <<target, seenStatus, received>>
        /\ \/ ready' = ready
           \/ \E v \in {"connecting", "closed"} : ready' = [ready EXCEPT ![s] = v]
    BY <2>1 DEF Lost, Refuse, Unreachable
  <2>3. /\ fallback' = [fallback EXCEPT ![s] = TRUE]
        /\ UNCHANGED <<supported, request, poll, polls, finished, fetching, pageVars>>
    BY <1>3, <2>2, LiveOwns DEF onerror
  <2>4. StreamInv'
    BY <2>1, <2>3, FailureHolds
  <2>5. /\ ready'[s] # "none" /\ \A z \in Streams \ {s} : ready'[z] = ready[z] /\ fallback'[z] = fallback[z]
        /\ fallback'[s] /\ fallback' \in [Streams -> BOOLEAN]
    BY <1>1, <2>2, <2>3
  <2>6. PageInv'
    BY <1>1, <2>2, <2>3, <2>5, PageKept
  <2> QED BY <2>4, <2>6
<1>4. CASE onResult(s)
  <2>1. Arrives(s, "result")
    BY <1>1, <1>4, LiveOwns DEF onResult, closeStale
  <2>2. ready[s] = "open"
    BY <2>1 DEF Arrives
  <2>3. Dispatch(s) /\ UNCHANGED <<supported, callVars, pageVars>>
    BY <1>4, <2>2, LiveOwns DEF onResult, Dispatch, callVars
  <2>4. StreamInv'
    BY <2>3, DispatchHolds
  <2>5. /\ UNCHANGED <<target, ready, seenStatus>>
        /\ \A z \in Streams \ {s} : received'[z] = received[z]
    BY <2>3 DEF Dispatch, StreamInv, StreamTypeOK
  <2>6. PageInv'
    BY <1>1, <2>2, <2>3, <2>5, PageKept DEF callVars
  <2> QED BY <2>4, <2>6
<1> QED BY <1>2, <1>3, <1>4

\* The stream that ends owns the page, which shows the end of the scan; after `done`
\* everything that was before it on the wire has been handled.
LEMMA EndsHold ==
    ASSUME IInv, NEW s \in Streams, onDone(s) \/ onStreamError(s) PROVE IInv'
<1> USE DEF IInv
<1>1. /\ ready[s] = "open" /\ wire[s] # <<>>
      /\ Reopen({s}, {}, target)
      /\ activeEventSource' = IF activeEventSource = s THEN None ELSE activeEventSource
      /\ fallback' = [fallback EXCEPT ![s] = FALSE]
      /\ scanning' = (scanning /\ ~Owns(s))
      /\ UNCHANGED <<faults, supported, request, poll, polls, activeScanToken, scanIdDisplay, lastScanData>>
  BY DEF onDone, onStreamError, Ends, Arrives
<1>2. Owns(s) /\ activeEventSource = s
  BY <1>1, LiveOwns
<1>3. activeEventSource' = None /\ scanning' = FALSE
  BY <1>1, <1>2
<1>4. /\ target' = target /\ received' = received /\ ready'[s] = "closed"
      /\ \A z \in Streams \ {s} : ready'[z] = ready[z] /\ seenStatus'[z] = seenStatus[z]
  BY <1>1, CloseSeen
<1>5. /\ finished \subseteq finished' /\ finished' \subseteq finished \cup {s} /\ fetching' \subseteq finished'
      /\ s \in finished' => s \in finished \/ Head(wire[s]).event = "done"
  BY DEF onDone, onStreamError, Ends, Arrives, PageInv, PageTypeOK
<1>6. StreamInv'
  <2>1. /\ target \in [Streams -> Scans \cup {None}] /\ finished \subseteq Streams
    BY DEF StreamInv, StreamTypeOK, FinishedHasAll
  <2>2. Head(wire[s]).event = "done" => Brought(s, Len(received[s]))
    <3>1. Head(wire[s]) = wire[s][1] /\ Len(wire[s]) \in Nat \ {0}
      <4>1. wire[s] \in Seq(Frames)
        BY StreamTypes DEF StreamInv
      <4> QED BY <1>1, <4>1, EmptySeq
    <3>2. 1 \in 1..Len(wire[s]) /\ IdAt(s, 1 - 1) = Len(received[s])
      BY <3>1 DEF IdAt
    <3> QED BY <3>1, <3>2 DEF StreamInv, DoneIsLast
  <2>3. \A z \in finished' : z \in finished \/ (z \in {s} /\ Brought(z, Len(received[z])))
    BY <1>5, <2>2
  <2>4. finished' \subseteq Streams
    BY <1>5, <2>1
  <2> QED BY <1>1, <2>1, <2>3, <2>4, ReopenHolds
<1> USE DEF PageInv
<1>7. PageTypeOK'
  BY <1>1, <1>3, <1>5 DEF PageTypeOK
<1>8. Aimed'
  BY <1>1, <1>4 DEF Aimed
<1>9. \A z \in Streams : Untouched(z) => Untouched(z)'
  BY <1>1, <1>4, <1>5 DEF Untouched
<1>10. Fresh'
  BY <1>1, <1>9, Sessions DEF Fresh
<1>11. StreamsOfClicks'
  BY <1>1, <1>3, <1>4, Sessions DEF StreamsOfClicks, PageTypeOK
<1>12. TriesCounted'
  BY <1>1 DEF TriesCounted
<1>13. OneStream'
  BY <1>2, <1>4 DEF OneStream, Live
<1>14. ScanningHasOwner'
  BY <1>3 DEF ScanningHasOwner
<1> QED BY <1>6, <1>7, <1>8, <1>10, <1>11, <1>12, <1>13, <1>14

LEMMA FetchedHolds ==
    ASSUME IInv, NEW s \in Streams, resultsFetched(s) PROVE IInv'
<1> USE DEF IInv
<1>1. /\ faults' = faults \/ Fault
      /\ UNCHANGED <<serverVars, target, ready, handler, seenStatus, cursor, wire, received,
                     supported, request, poll, polls, fallback, finished,
                     activeScanToken, activeEventSource, scanning, scanIdDisplay>>
      /\ fetching' \subseteq fetching
      /\ lastScanData' \in {lastScanData, target[s], Error}
  BY DEF resultsFetched
<1>2. StreamInv'
  BY <1>1, StreamsKept
<1> USE DEF PageInv
<1>3. PageTypeOK'
  <2>1. lastScanData' \in Scans \cup {None, Error}
    BY <1>1 DEF PageTypeOK, StreamInv, StreamTypeOK
  <2> QED BY <1>1, <2>1 DEF PageTypeOK
<1>4. Aimed' /\ StreamsOfClicks' /\ TriesCounted'
  BY <1>1 DEF Aimed, StreamsOfClicks, TriesCounted
<1>5. Fresh'
  BY <1>1 DEF Fresh, Untouched
<1>6. OneStream' /\ ScanningHasOwner'
  BY <1>1 DEF OneStream, ScanningHasOwner, Live, Owns
<1> QED BY <1>2, <1>3, <1>4, <1>5, <1>6

-------------------------------------------------------------------------------
(* Timers and polling *)

\* A fallback that has lost the page only closes its stream again.
LEMMA StaleFallbackHolds ==
    ASSUME IInv, NEW s \in Streams, fallbackFires(s), ~Owns(s) PROVE IInv'
<1> USE DEF IInv
<1>1. /\ fallback[s] /\ fallback' = [fallback EXCEPT ![s] = FALSE]
      /\ Reopen({s}, {}, target)
      /\ UNCHANGED <<poll, activeScanToken, activeEventSource, faults, supported, request, polls,
                     finished, fetching, scanning, scanIdDisplay, lastScanData>>
  BY DEF fallbackFires
<1>2. ready[s] # "none" /\ ready[s] \notin {"connecting", "open"}
  BY <1>1, LiveOwns DEF PageInv, StreamsOfClicks
<1>3. /\ target' = target /\ received' = received /\ ready'[s] = "closed"
      /\ \A z \in Streams \ {s} : ready'[z] = ready[z] /\ seenStatus'[z] = seenStatus[z]
  BY <1>1, CloseSeen
<1>4. StreamInv'
  <2>1. target \in [Streams -> Scans \cup {None}] /\ finished' \subseteq Streams
    BY <1>1 DEF StreamInv, StreamTypeOK, FinishedHasAll
  <2> QED BY <1>1, <1>2, <2>1, ReopenHolds
<1>5. fallback' \in [Streams -> BOOLEAN] /\ ~fallback'[s]
      /\ \A z \in Streams \ {s} : fallback'[z] = fallback[z]
  BY <1>1 DEF PageInv, PageTypeOK
<1>6. \A z \in Streams : fallback[z] => ready[z] # "none"
  BY DEF PageInv, StreamsOfClicks
<1>7. activeScanToken # s
  BY DEF Owns
<1>8. PageInv'
  BY <1>1, <1>2, <1>3, <1>5, <1>6, <1>7, PageKept DEF pageVars
<1> QED BY <1>4, <1>8

\* Polling takes the page with a session of its own.
LEMMA FallbackHolds ==
    ASSUME IInv, NEW s \in Streams, fallbackFires(s) PROVE IInv'
<1> USE DEF IInv
<1> DEFINE n == PollsFor(s)
           C == {s} \cup Active
           t == [target EXCEPT ![n] = target[s]]
<1>1. /\ fallback[s] /\ fallback' = [fallback EXCEPT ![s] = FALSE]
      /\ UNCHANGED <<faults, supported, request, polls, finished, fetching,
                     scanning, scanIdDisplay, lastScanData>>
  BY DEF fallbackFires
<1>2. /\ ready[s] # "none" /\ s \in Clicks /\ target[s] \in Scans
      /\ fallback' \in [Streams -> BOOLEAN] /\ ~fallback'[s]
      /\ \A z \in Streams \ {s} : fallback'[z] = fallback[z]
      /\ \A z \in Streams : fallback[z] => ready[z] # "none"
  BY <1>1 DEF PageInv, PageTypeOK, StreamsOfClicks, Aimed
<1>3. CASE Owns(s) /\ ready[s] = "open"
  <2>1. UNCHANGED <<serverVars, target, ready, handler, seenStatus, cursor, wire,
                    received, poll, activeScanToken, activeEventSource>>
    BY <1>3 DEF fallbackFires
  <2>2. StreamInv'
    BY <1>1, <2>1, StreamsKept
  <2>3. PageInv'
    BY <1>1, <1>2, <1>3, <2>1, PageKept DEF pageVars, Owns
  <2> QED BY <2>2, <2>3
<1>4. CASE Owns(s) /\ ready[s] # "open"
  <2>1. /\ Reopen(C, {}, t)
        /\ poll' = [poll EXCEPT ![n] = "timer"]
        /\ activeScanToken' = n /\ activeEventSource' = None
    BY <1>4 DEF fallbackFires
  <2>2. Untouched(n) /\ n \in Streams /\ n \notin Clicks /\ s # n
    BY <1>2, <1>4, Sessions DEF PageInv, Fresh, Owns
  <2>3. /\ t \in [Streams -> Scans \cup {None}] /\ t[n] = target[s]
        /\ \A z \in Streams : z # n => t[z] = target[z]
        /\ target \in [Streams -> Scans \cup {None}]
    BY <2>2 DEF StreamInv, StreamTypeOK
  <2>4. /\ C \in SUBSET Streams /\ {} \in SUBSET Streams /\ \A z \in C : ready[z] # "none"
        /\ n \notin C
    BY <1>2, <2>2 DEF Active, PageInv, PageTypeOK, StreamsOfClicks, Untouched
  <2> HIDE DEF t, C, n
  <2>5. /\ target' = t /\ received' = received /\ \A z \in C : ready'[z] = "closed"
        /\ \A z \in Streams \ C : ready'[z] = ready[z] /\ seenStatus'[z] = seenStatus[z]
    BY <2>1, <2>4, ReopenSeen
  <2>6. StreamInv'
    <3>1. finished' \subseteq Streams /\ finished' = finished
      BY <1>1 DEF StreamInv, FinishedHasAll
    <3>2. \A z \in Streams : t[z] # target[z] => ready[z] = "none" /\ seenStatus[z] = "pending"
      BY <2>2, <2>3 DEF Untouched
    <3> QED BY <1>1, <2>1, <2>3, <2>4, <3>1, <3>2, ReopenHolds
  <2> USE DEF PageInv
  <2>7. poll' \in [Streams -> {"none", "timer", "asked", "over"}]
        /\ poll'[n] = "timer" /\ \A z \in Streams : z # n => poll'[z] = poll[z]
    BY <2>1, <2>2 DEF PageTypeOK
  <2>8. PageTypeOK'
    BY <1>1, <1>2, <2>1, <2>2, <2>7 DEF PageTypeOK
  <2>9. Aimed'
    <3>1. ASSUME NEW z \in Streams, ready'[z] # "none" \/ poll'[z] # "none" PROVE target'[z] \in Scans
      <4>1. CASE z = n
        BY <1>2, <2>3, <2>5, <4>1
      <4>2. CASE z # n
        BY <2>3, <2>4, <2>5, <2>7, <3>1, <4>2 DEF Aimed
      <4> QED BY <4>1, <4>2
    <3> QED BY <1>1, <3>1 DEF Aimed
  <2>10. \A z \in Streams : z # n /\ Untouched(z) => Untouched(z)'
    BY <1>1, <2>1, <2>3, <2>4, <2>5, <2>7 DEF Untouched
  <2>11. Fresh'
    <3>1. ASSUME NEW c \in Clicks, request[c].kind # "over"
          PROVE  Untouched(c)' /\ Untouched(PollsFor(c))'
      <4>1. Untouched(c) /\ Untouched(PollsFor(c))
        BY <3>1 DEF Fresh
      <4>2. c # s
        BY <1>4, <4>1 DEF Owns, Untouched
      <4>3. c # n /\ PollsFor(c) # n
        BY <1>2, <2>2, <4>2, Sessions DEF n
      <4> QED BY <2>10, <4>1, <4>3, Sessions
    <3>2. \A c \in Clicks : activeScanToken' # c
      BY <2>1, <2>2
    <3> QED BY <1>1, <3>1, <3>2 DEF Fresh
  <2>12. StreamsOfClicks'
    BY <1>2, <2>1, <2>4, <2>5, Sessions DEF StreamsOfClicks
  <2>13. TriesCounted'
    BY <1>1, <2>2, <2>7, Sessions DEF TriesCounted, Untouched
  <2>14. OneStream'
    <3>1. ASSUME NEW z \in Streams, ready'[z] \in {"connecting", "open"} PROVE FALSE
      <4>1. z \notin C
        BY <2>5, <3>1
      <4>2. activeEventSource # z
        BY <4>1, Sessions DEF C, Active
      <4> QED BY <2>5, <3>1, <4>1, <4>2, LiveOwns
    <3> QED BY <3>1 DEF OneStream, Live
  <2>15. ScanningHasOwner'
    BY <2>1, <2>2, <2>7 DEF ScanningHasOwner, Owns
  <2> QED BY <2>6, <2>8, <2>9, <2>11, <2>12, <2>13, <2>14, <2>15
<1> QED BY <1>3, <1>4, StaleFallbackHolds

LEMMA PollingHolds ==
    ASSUME IInv, NEW s \in Streams, pollSends(s) \/ pollAnswered(s) PROVE IInv'
<1> USE DEF IInv
<1>1. /\ poll[s] \in {"timer", "asked"}
      /\ faults' = faults \/ Fault
      /\ UNCHANGED <<serverVars, target, ready, handler, seenStatus, cursor, wire, received,
                     supported, request, fallback, finished, fetching, activeScanToken, activeEventSource>>
      /\ poll' \in [Streams -> {"none", "timer", "asked", "over"}]
      /\ \A z \in Streams \ {s} : poll'[z] = poll[z] /\ polls'[z] = polls[z]
      /\ target[s] \in Scans
  <2>1. target[s] \in Scans
    BY DEF pollSends, pollAnswered, PageInv, Aimed
  <2>2. CASE pollSends(s)
    BY <2>1, <2>2 DEF pollSends, streamVars, pageVars, PageInv, PageTypeOK
  <2>3. CASE pollAnswered(s)
    BY <2>1, <2>3 DEF pollAnswered, pageVars, displayResults, GiveUp, PageInv, PageTypeOK
  <2> QED BY <2>2, <2>3
<1>2. /\ polls' \in [Streams -> 0..MaxPolls]
      /\ poll'[s] = "timer" => polls'[s] < MaxPolls
      /\ scanning' \in BOOLEAN /\ scanIdDisplay' \in Scans \cup {None}
      /\ lastScanData' \in Scans \cup {None, Error}
      /\ scanning' => scanning
      /\ scanning' /\ Owns(s) => poll'[s] \in {"timer", "asked"}
  <2>1. CASE pollSends(s)
    <3>1. polls[s] \in 0..MaxPolls /\ polls[s] < MaxPolls /\ poll[s] = "timer"
          /\ polls \in [Streams -> 0..MaxPolls]
      BY <2>1 DEF pollSends, PageInv, PageTypeOK, TriesCounted
    <3>2. polls[s] + 1 \in 0..MaxPolls
      BY <3>1, Sessions
    <3>3. /\ polls' \in [Streams -> 0..MaxPolls] /\ poll'[s] # "timer"
          /\ Owns(s) => poll'[s] = "asked"
      BY <2>1, <3>1, <3>2 DEF pollSends, PageInv, PageTypeOK
    <3> QED BY <2>1, <3>3 DEF pollSends, pageVars, PageInv, PageTypeOK
  <2>2. CASE pollAnswered(s)
    <3>1. polls' = polls /\ polls \in [Streams -> 0..MaxPolls]
      BY <2>2 DEF pollAnswered, PageInv, PageTypeOK
    <3>2. poll'[s] = "timer" => polls[s] < MaxPolls
      BY <2>2 DEF pollAnswered, TriesLeft, PageInv, PageTypeOK
    <3>3. /\ scanning' \in BOOLEAN /\ scanIdDisplay' \in Scans \cup {None}
          /\ lastScanData' \in Scans \cup {None, Error}
          /\ scanning' => scanning
      BY <1>1, <2>2 DEF pollAnswered, displayResults, GiveUp, pageVars, PageInv, PageTypeOK
    <3>4. scanning' /\ Owns(s) => poll'[s] = "timer"
      BY <2>2 DEF pollAnswered, displayResults, GiveUp, PageInv, PageTypeOK
    <3>5. polls' \in [Streams -> 0..MaxPolls] /\ (poll'[s] = "timer" => polls'[s] < MaxPolls)
      BY <3>1, <3>2
    <3>6. scanning' /\ Owns(s) => poll'[s] \in {"timer", "asked"}
      BY <3>4
    <3> QED BY <3>3, <3>5, <3>6
  <2> QED BY <2>1, <2>2
<1>3. StreamInv'
  BY <1>1, StreamsKept
<1> USE DEF PageInv
<1>4. PageTypeOK'
  BY <1>1, <1>2 DEF PageTypeOK
<1>5. Aimed'
  BY <1>1 DEF Aimed
<1>6. Fresh'
  <2>1. ASSUME NEW z \in Streams, Untouched(z) PROVE Untouched(z)'
    <3>1. poll[z] = "none"
      BY <2>1 DEF Untouched
    <3>2. z # s
      BY <1>1, <3>1
    <3>3. poll'[z] = poll[z] /\ polls'[z] = polls[z]
      BY <1>1, <3>2
    <3> QED BY <1>1, <2>1, <3>3 DEF Untouched
  <2> QED BY <1>1, <2>1, Sessions DEF Fresh
<1>7. StreamsOfClicks'
  BY <1>1 DEF StreamsOfClicks
<1>8. TriesCounted'
  BY <1>1, <1>2 DEF TriesCounted
<1>9. OneStream'
  BY <1>1 DEF OneStream, Live, Owns
<1>10. ScanningHasOwner'
  <2>1. \A z : Owns(z)' <=> Owns(z)
    BY <1>1 DEF Owns
  <2> QED BY <1>1, <1>2, <2>1 DEF ScanningHasOwner, Live
<1> QED BY <1>3, <1>4, <1>5, <1>6, <1>7, <1>8, <1>9, <1>10

-------------------------------------------------------------------------------

LEMMA InitHolds == Init => IInv
<1> SUFFICES ASSUME Init PROVE IInv
  OBVIOUS
<1> USE DEF Init, StreamInit
<1>1. StreamInv
  <2>1. StreamTypeOK
    <3>1. 0 \in 0..Cardinality(Results) /\ 0 \in 0..MaxFaults
      BY ResultsFinite, BoundsAssumption
    <3>2. /\ wire \in [Streams -> Seq([event : {"result", "done", "stream-error"},
                                       id : 0..Cardinality(Results)])]
          /\ received \in [Streams -> Seq(1..Cardinality(Results))]
      BY EmptySeq
    <3> QED BY <3>1, <3>2 DEF StreamTypeOK
  <2>2. Numbered
    <3>1. \A x \in Scans : Written(x, {"committed"}) = {} /\ Written(x, {"open"}) = {}
      BY DEF Written
    <3>2. \A x \in Scans : Count(x) = 0 /\ Ids(x) = {}
      BY <3>1, FS_EmptySet DEF Count, Ids
    <3>3. ASSUME NEW x \in Scans
          PROVE  Ids(x) = 1..Count(x) /\ due[x] \subseteq Written(x, {"committed"})
      <4>1. 1..0 = {} /\ due[x] = {}
        OBVIOUS
      <4> QED BY <3>2, <4>1, Zenon
    <3>4. \A x \in Scans : status[x] # "deleted"
      OBVIOUS
    <3>5. \A r \in Results : row[r] = "none" /\ ScanOf[r] \in Scans
      BY ScanOfAssumption
    <3> QED BY <3>3, <3>4, <3>5 DEF Numbered
  <2>3. Connections /\ Following /\ FinishedHasAll
    BY DEF Connections, Quiet, Following, FinishedHasAll
  <2>4. \A s \in Streams : Len(wire[s]) = 0 /\ Len(received[s]) = 0
    BY EmptySeq
  <2>5. Gapless /\ InOrder /\ DoneIsLast
    BY <2>4 DEF Gapless, InOrder, DoneIsLast
  <2> QED BY <2>1, <2>2, <2>3, <2>5 DEF StreamInv
<1>2. PageInv
  <2>1. PICK first \in Address :
          /\ request = [c \in Clicks |-> IF c = 1 THEN first ELSE Idle]
          /\ scanning = (first.kind = "load")
    OBVIOUS
  <2>2. /\ first \in [kind : {"none", "load", "share"}, scan : Scans \cup {None}]
        /\ first.kind \in {"load", "share"} => first.scan \in Scans
    BY DEF Address, Ask, Idle
  <2>3. PageTypeOK
    BY <2>1, <2>2, Sessions DEF PageTypeOK, Idle
  <2>4. Aimed
    BY <2>1, <2>2 DEF Aimed, Idle
  <2>5. Fresh
    BY Sessions DEF Fresh, Untouched
  <2>6. StreamsOfClicks /\ TriesCounted
    BY Sessions DEF StreamsOfClicks, TriesCounted
  <2>7. OneStream
    BY DEF OneStream, Live
  <2>8. ScanningHasOwner
    <3>1. 1 \in Clicks
      BY StreamsAssumption DEF Clicks
    <3> QED BY <2>1, <3>1 DEF ScanningHasOwner
  <2> QED BY <2>3, <2>4, <2>5, <2>6, <2>7, <2>8 DEF PageInv
<1> QED BY <1>1, <1>2 DEF IInv

LEMMA StepHolds == IInv /\ [Next]_vars => IInv'
<1> SUFFICES ASSUME IInv, [Next]_vars PROVE IInv'
  OBVIOUS
<1>1. CASE Background /\ UNCHANGED <<supported, callVars, pageVars>>
  <2>1. StreamInv'
    BY <1>1, BackgroundHolds DEF IInv, callVars
  <2>2. /\ UNCHANGED <<target, ready, received>>
        /\ \A s \in Streams : ready[s] = "none" => seenStatus'[s] = seenStatus[s]
    <3>1. CASE ServerStep
      BY <3>1 DEF ServerStep, Insert, Commit, Rollback, EndScan, DeleteScan, streamVars
    <3>2. ASSUME NEW s \in Streams, ReadScan(s)
          PROVE  /\ UNCHANGED <<target, ready, received>>
                 /\ \A z \in Streams : ready[z] = "none" => seenStatus'[z] = seenStatus[z]
      <4>1. ready[s] = "open" /\ seenStatus \in [Streams -> {"pending", "over"}]
        BY <3>2 DEF ReadScan, IInv, StreamInv, StreamTypeOK, Connections, Quiet
      <4>2. UNCHANGED <<target, ready, received>>
            /\ \E v : seenStatus' = seenStatus \/ seenStatus' = [seenStatus EXCEPT ![s] = v]
        BY <3>2 DEF ReadScan
      <4> QED BY <4>1, <4>2
    <3>3. ASSUME NEW s \in Streams, Replay(s) \/ Boundary(s) \/ Cut(s) \/ Duplicate(s)
          PROVE  UNCHANGED <<target, ready, received, seenStatus>>
      BY <3>3 DEF Replay, Boundary, Cut, Duplicate
    <3> QED BY <1>1, <3>1, <3>2, <3>3 DEF Background, LoopStep
  <2>3. fallback \in [Streams -> BOOLEAN] /\ \A s \in Streams : fallback[s] => ready[s] # "none"
    BY DEF IInv, PageInv, PageTypeOK, StreamsOfClicks
  <2>4. PageInv'
    BY <1>1, <2>2, <2>3, PageKept DEF IInv, callVars
  <2> QED BY <2>1, <2>4 DEF IInv
<1>2. CASE UserStep
  BY <1>2, ClickHolds DEF UserStep, loadScanByID, submit, forceRescan
<1>3. ASSUME NEW c \in Clicks, AnswerStep(c) PROVE IInv'
  BY <1>3, AnswersHold
<1>4. ASSUME NEW s \in Streams, onopen(s) \/ onerror(s) \/ EventStep(s) PROVE IInv'
  BY <1>4, ConnectionEventsHold, EndsHold DEF EventStep
<1>5. ASSUME NEW s \in Streams, resultsFetched(s) PROVE IInv'
  BY <1>5, FetchedHolds
<1>6. ASSUME NEW s \in Streams, fallbackFires(s) \/ pollSends(s) \/ pollAnswered(s) PROVE IInv'
  BY <1>6, FallbackHolds, PollingHolds
<1>7. CASE UNCHANGED vars
  <2>1. StreamInv'
    BY <1>7, StreamsKept DEF IInv, vars, streamVars, callVars
  <2>2. fallback \in [Streams -> BOOLEAN] /\ \A s \in Streams : fallback[s] => ready[s] # "none"
    BY DEF IInv, PageInv, PageTypeOK, StreamsOfClicks
  <2>3. PageInv'
    BY <1>7, <2>2, PageKept DEF IInv, vars, streamVars, callVars
  <2> QED BY <2>1, <2>3 DEF IInv
<1> QED BY <1>1, <1>2, <1>3, <1>4, <1>5, <1>6, <1>7 DEF Next

\* The invariant of server, connections and page together holds in every reachable
\* state.
THEOREM ScanPageInductive == Spec => []IInv
BY InitHolds, StepHolds, PTL DEF Spec

\* Every variable of the page, of the streams and of the server keeps its type; the
\* attempts to poll stay within MAX_POLLS.
THEOREM ScanPageTypes == Spec => []TypeOK
<1>1. IInv => TypeOK
  BY DEF IInv, StreamInv, PageInv, TypeOK
<1> QED BY <1>1, ScanPageInductive, PTL

\* A page that has handled `done` has every result that was committed before its
\* scan was over, and each once, whatever was cut, repeated, lost or rolled back.
THEOREM StreamsAreComplete == Spec => []StreamComplete
<1>1. IInv => StreamComplete
  <2> SUFFICES ASSUME IInv, NEW s \in Streams
               PROVE  /\ IsInjective(received[s])
                      /\ s \in finished => {seq[r] : r \in due[target[s]]} \subseteq Range(received[s])
    BY DEF StreamComplete
  <2>1. PICK n \in Nat : n = Len(received[s]) /\ DOMAIN received[s] = 1..n
    BY StreamTypes, LenProperties DEF IInv, StreamInv
  <2>2. \A k \in 1..n : received[s][k] = k
    BY <2>1 DEF IInv, StreamInv, Gapless
  <2>3. IsInjective(received[s])
    BY <2>1, <2>2 DEF IsInjective
  <2>4. ASSUME s \in finished, NEW r \in due[target[s]] PROVE seq[r] \in Range(received[s])
    <3>1. seq[r] <= n /\ target[s] \in Scans
      BY <2>1, <2>4 DEF IInv, StreamInv, FinishedHasAll, Brought, Connections
    <3>2. Count(target[s]) \in Nat
      BY ResultsFinite DEF Count, Written
    <3>3. seq[r] \in 1..Count(target[s])
      BY <2>4, <3>1 DEF IInv, StreamInv, Numbered, Ids
    <3>4. seq[r] \in 1..n
      BY <3>1, <3>2, <3>3
    <3> QED BY <2>1, <2>2, <3>4 DEF Range
  <2> QED BY <2>3, <2>4
<1> QED BY <1>1, ScanPageInductive, PTL

\* A stream that is open is the only one, and owns the page.
THEOREM OneStreamAtMost == Spec => []OneStream
<1>1. IInv => OneStream
  BY DEF IInv, PageInv
<1> QED BY <1>1, ScanPageInductive, PTL

\* A page that says it is scanning waits for something that may still happen.
THEOREM ScanningIsOwned == Spec => []ScanningHasOwner
<1>1. IInv => ScanningHasOwner
  BY DEF IInv, PageInv
<1> QED BY <1>1, ScanPageInductive, PTL

-------------------------------------------------------------------------------
(* ScanPage implements ResultDelivery *)

\* What is on the wire has been committed, as long as there is a scan.
Sent ==
    \A s \in Streams : \A i \in 1..Len(wire[s]) :
        status[target[s]] = "deleted" \/ wire[s][i].id <= Count(target[s])

\* The results that are due are the first ones.
OwedFirst == \A x \in Scans : {seq[r] : r \in due[x]} = 1..Cardinality(due[x])

DeliveryInv == StreamInv /\ Sent /\ OwedFirst

LEMMA CountIs ==
    ASSUME StreamInv, NEW x \in Scans
    PROVE  /\ Count(x) \in Nat /\ Ids(x) = 1..Count(x) /\ Published[x] = Count(x)
           /\ Cardinality(due[x]) \in Nat /\ Owed[x] = Cardinality(due[x])
           /\ \A r \in due[x] : r \in Results /\ ScanOf[r] = x /\ row[r] = "committed"
<1>1. Count(x) \in Nat /\ Ids(x) = 1..Count(x)
  BY NextIsNext DEF StreamInv, Numbered
<1>2. due[x] \subseteq Written(x, {"committed"})
  BY DEF StreamInv, Numbered
<1>3. Cardinality(due[x]) \in Nat
  BY <1>2, ResultsFinite DEF Written
<1> QED BY <1>1, <1>2, <1>3 DEF Published, Owed, Count, Written

LEMMA SentMore ==
    ASSUME StreamInv, Sent, UNCHANGED <<wire, target>>,
           \A x \in Scans : \/ status'[x] = "deleted"
                            \/ status[x] # "deleted" /\ Count(x)' \in Nat /\ Count(x) <= Count(x)'
    PROVE  Sent'
<1> SUFFICES ASSUME NEW s \in Streams, NEW i \in 1..Len(wire[s])
             PROVE  status'[target[s]] = "deleted" \/ wire[s][i].id <= Count(target[s])'
  BY DEF Sent
<1>1. target[s] \in Scans
  BY EmptySeq DEF StreamInv, Connections, Quiet
<1>2. wire[s][i].id \in Nat
  <2>1. wire[s] \in Seq(Frames) /\ Cardinality(Results) \in Nat
    BY StreamTypes DEF StreamInv
  <2>2. wire[s][i] \in Frames
    BY <2>1, ElementOfSeq
  <2> QED BY <2>1, <2>2 DEF Frames
<1>3. status[target[s]] = "deleted" \/ wire[s][i].id <= Count(target[s])
  BY DEF Sent
<1> QED BY <1>1, <1>2, <1>3, CountIs

LEMMA OwedKept ==
    ASSUME OwedFirst, UNCHANGED due, \A x \in Scans : \A r \in due[x] : seq'[r] = seq[r]
    PROVE  OwedFirst'
<1>1. \A x \in Scans : {seq'[r] : r \in due'[x]} = {seq[r] : r \in due[x]}
  OBVIOUS
<1> QED BY <1>1 DEF OwedFirst

\* Nobody sees a transaction that is open.
LEMMA OpenIsUnseen ==
    ASSUME DeliveryInv, NEW r \in Results, Insert(r) \/ Rollback(r), UNCHANGED finished
    PROVE  UNCHANGED Delivery!vars /\ Sent' /\ OwedFirst'
<1> USE DEF DeliveryInv
<1>1. /\ UNCHANGED <<status, due, target, wire, received, finished>>
      /\ \A q \in Results : q # r => row'[q] = row[q] /\ seq'[q] = seq[q]
      /\ row[r] # "committed" /\ row'[r] # "committed"
  BY DEF Insert, Rollback, streamVars, StreamInv, StreamTypeOK
<1>2. \A x : Written(x, {"committed"})' = Written(x, {"committed"})
  BY <1>1 DEF Written
<1>3. \A x : Count(x)' = Count(x)
  BY <1>2 DEF Count
<1>4. Published' = Published /\ Owed' = Owed
  BY <1>1, <1>2 DEF Published, Owed
<1>5. Sent'
  <2>1. \A x \in Scans : Count(x)' \in Nat /\ Count(x) <= Count(x)'
    BY <1>3, CountIs
  <2> QED BY <1>1, <2>1, SentMore
<1>6. OwedFirst'
  <2>1. \A x \in Scans : \A q \in due[x] : seq'[q] = seq[q]
    BY <1>1, CountIs
  <2> QED BY <1>1, <2>1, OwedKept
<1> QED BY <1>1, <1>4, <1>5, <1>6 DEF Delivery!vars, Delivery!scanVars, Delivery!sessionVars

LEMMA CommitPublishes ==
    ASSUME DeliveryInv, StreamInv', NEW r \in Results, Commit(r), UNCHANGED finished
    PROVE  Delivery!Publish(ScanOf[r]) /\ Sent' /\ OwedFirst'
<1> USE DEF DeliveryInv
<1> DEFINE x == ScanOf[r]
<1>1. /\ row' = [row EXCEPT ![r] = "committed"] /\ row[r] = "open" /\ x \in Scans
      /\ UNCHANGED <<status, due, seq, target, wire, received, finished>>
      /\ status[x] # "deleted"
  BY ScanOfAssumption DEF Commit, streamVars, StreamInv, Numbered
<1>2. Written(x, {"committed"})' = Written(x, {"committed"}) \cup {r} /\ r \notin Written(x, {"committed"})
  BY <1>1 DEF Written, StreamInv, StreamTypeOK
<1>3. \A y : y # x => Written(y, {"committed"})' = Written(y, {"committed"})
  BY <1>1 DEF Written, StreamInv, StreamTypeOK
<1>4. Count(x)' = Count(x) + 1 /\ Count(x) \in Nat
  <2>1. IsFiniteSet(Written(x, {"committed"})) /\ Count(x) \in Nat
    BY ResultsFinite DEF Written, Count
  <2> QED BY <1>2, <2>1, FS_AddElement DEF Count
<1>5. \A y : y # x => Count(y)' = Count(y)
  BY <1>3 DEF Count
<1>6. Published' = [Published EXCEPT ![x] = @ + 1]
  <2>1. Published = [y \in Scans |-> Count(y)] /\ Published' = [y \in Scans |-> Count(y)']
    BY DEF Published, Count
  <2> QED BY <1>1, <1>4, <1>5, <2>1
<1>7. Owed' = Owed
  BY <1>1 DEF Owed
<1>8. Sent'
  <2>1. ASSUME NEW y \in Scans PROVE Count(y)' \in Nat /\ Count(y) <= Count(y)'
    BY <1>4, <1>5, CountIs
  <2> QED BY <1>1, <2>1, SentMore
<1>9. OwedFirst'
  BY <1>1, OwedKept
<1> QED BY <1>1, <1>6, <1>7, <1>8, <1>9 DEF Delivery!Publish, Delivery!sessionVars

LEMMA EndCloses ==
    ASSUME DeliveryInv, NEW x \in Scans, EndScan(x), UNCHANGED finished
    PROVE  Delivery!Close(x) /\ Sent' /\ OwedFirst'
<1> USE DEF DeliveryInv
<1>1. /\ status[x] = "pending" /\ status' = [status EXCEPT ![x] = "over"]
      /\ due' = [due EXCEPT ![x] = Written(x, {"committed"})]
      /\ UNCHANGED <<row, seq, target, wire, received, finished>>
      /\ status'[x] = "over" /\ \A y \in Scans : y # x => status'[y] = status[y] /\ due'[y] = due[y]
      /\ due'[x] = Written(x, {"committed"})
  BY DEF EndScan, streamVars, StreamInv, StreamTypeOK
<1>2. \A y : Written(y, {"committed"})' = Written(y, {"committed"})
  BY <1>1 DEF Written
<1>3. \A y : Count(y)' = Count(y)
  BY <1>2 DEF Count
<1>4. Published' = Published
  BY <1>2 DEF Published
<1>5. Owed' = [Owed EXCEPT ![x] = Published[x]]
  <2>1. \A y \in Scans : Owed'[y] = IF y = x THEN Published[x] ELSE Owed[y]
    BY <1>1 DEF Owed, Published
  <2> QED BY <2>1 DEF Owed
<1>6. Sent'
  <2>1. ASSUME NEW y \in Scans
        PROVE  \/ status'[y] = "deleted"
               \/ status[y] # "deleted" /\ Count(y)' \in Nat /\ Count(y) <= Count(y)'
    BY <1>1, <1>3, CountIs
  <2> QED BY <1>1, <2>1, SentMore
<1>7. OwedFirst'
  <2>1. {seq[r] : r \in Written(x, {"committed"})} = 1..Cardinality(Written(x, {"committed"}))
    BY CountIs DEF Ids, Count
  <2>2. ASSUME NEW y \in Scans PROVE {seq'[r] : r \in due'[y]} = 1..Cardinality(due'[y])
    BY <1>1, <2>1 DEF OwedFirst
  <2> QED BY <2>2 DEF OwedFirst
<1> QED BY <1>1, <1>4, <1>5, <1>6, <1>7 DEF Delivery!Close, Delivery!sessionVars

LEMMA DeleteRemoves ==
    ASSUME DeliveryInv, NEW x \in Scans, DeleteScan(x), UNCHANGED finished
    PROVE  Delivery!Remove(x) /\ Sent' /\ OwedFirst'
<1> USE DEF DeliveryInv
<1>1. /\ status[x] # "deleted" /\ status' = [status EXCEPT ![x] = "deleted"]
      /\ due' = [due EXCEPT ![x] = {}]
      /\ row' = [r \in Results |-> IF ScanOf[r] = x THEN "lost" ELSE row[r]]
      /\ seq' = [r \in Results |-> IF ScanOf[r] = x THEN 0 ELSE seq[r]]
      /\ UNCHANGED <<target, wire, received, finished>>
      /\ status'[x] = "deleted" /\ \A y \in Scans : y # x => status'[y] = status[y] /\ due'[y] = due[y]
      /\ due'[x] = {}
  BY DEF DeleteScan, StreamInv, StreamTypeOK
<1>2. /\ Written(x, {"committed"})' = {}
      /\ \A y : y # x => Written(y, {"committed"})' = Written(y, {"committed"})
  BY <1>1 DEF Written
<1>3. Cardinality({}) = 0
  BY FS_EmptySet
<1>4. Published' = [Published EXCEPT ![x] = 0]
  <2>1. \A y \in Scans : Published'[y] = IF y = x THEN 0 ELSE Published[y]
    BY <1>2, <1>3 DEF Published
  <2> QED BY <2>1 DEF Published
<1>5. Owed' = [Owed EXCEPT ![x] = 0]
  <2>1. \A y \in Scans : Owed'[y] = IF y = x THEN 0 ELSE Owed[y]
    BY <1>1, <1>3 DEF Owed
  <2> QED BY <2>1 DEF Owed
<1>6. Sent'
  <2>1. ASSUME NEW y \in Scans
        PROVE  \/ status'[y] = "deleted"
               \/ status[y] # "deleted" /\ Count(y)' \in Nat /\ Count(y) <= Count(y)'
    <3>1. CASE y = x
      BY <1>1, <3>1
    <3>2. CASE y # x
      BY <1>1, <1>2, <3>2, CountIs DEF Count
    <3> QED BY <3>1, <3>2
  <2> QED BY <1>1, <2>1, SentMore
<1>7. OwedFirst'
  <2>1. ASSUME NEW y \in Scans PROVE {seq'[r] : r \in due'[y]} = 1..Cardinality(due'[y])
    <3>1. CASE y = x
      <4>1. due'[y] = {} /\ 1..0 = {}
        BY <1>1, <3>1
      <4>2. {seq'[r] : r \in due'[y]} = {} /\ 1..Cardinality(due'[y]) = {}
        BY <1>3, <4>1, Zenon
      <4> QED BY <4>2
    <3>2. CASE y # x
      <4>1. due'[y] = due[y] /\ \A r \in due[y] : seq'[r] = seq[r]
        BY <1>1, <3>2, CountIs
      <4>2. {seq'[r] : r \in due[y]} = {seq[r] : r \in due[y]}
        BY <4>1
      <4> QED BY <4>1, <4>2 DEF OwedFirst
    <3> QED BY <3>1, <3>2
  <2> QED BY <2>1 DEF OwedFirst
<1> QED BY <1>1, <1>4, <1>5, <1>6, <1>7 DEF Delivery!Remove, Delivery!sessionVars

\* The server only sends what it has read, and `done`.
LEMMA LoopSends ==
    ASSUME DeliveryInv, NEW s \in Streams, LoopStep(s), UNCHANGED finished
    PROVE  UNCHANGED Delivery!vars /\ Sent' /\ OwedFirst'
<1> USE DEF DeliveryInv
<1>1. /\ UNCHANGED <<serverVars, target, received, finished>>
      /\ handler[s] # "none" /\ target[s] \in Scans
  BY DEF LoopStep, ReadScan, Replay, StreamInv, Connections, Quiet
<1>2. UNCHANGED <<Published, Owed>> /\ (\A y : Count(y)' = Count(y)) /\ OwedFirst'
  BY <1>1 DEF Published, Owed, Count, Written, OwedFirst, serverVars
<1>3. /\ wire \in [Streams -> Seq(Frames)] /\ wire[s] \in Seq(Frames) /\ Count(target[s]) \in Nat
      /\ Ids(target[s]) = 1..Count(target[s])
  BY <1>1, StreamTypes, CountIs DEF StreamInv
<1>4. PICK more \in Seq(Frames) :
        /\ wire' = [wire EXCEPT ![s] = @ \o more]
        /\ \A i \in 1..Len(more) : more[i].id <= Count(target[s])
  <2> DEFINE Brief(f) == f = <<>> \/ \E e \in {"done", "stream-error"} : f = <<Frame(e)>>
  <2>1. ASSUME NEW f, Brief(f) PROVE f \in Seq(Frames) /\ \A i \in 1..Len(f) : f[i].id <= Count(target[s])
    <3>1. CASE f = <<>>
      BY <3>1, EmptySeq
    <3>2. ASSUME NEW e \in {"done", "stream-error"}, f = <<Frame(e)>> PROVE f \in Seq(Frames) /\ \A i \in 1..Len(f) : f[i].id <= Count(target[s])
      <4>1. Frame(e) \in Frames /\ Frame(e).id = 0
        BY EndFrame DEF Frame
      <4>2. f \in Seq(Frames) /\ Len(f) = 1 /\ f[1].id = 0
        BY <3>2, <4>1
      <4> QED BY <1>3, <4>2
    <3> QED BY <2>1, <3>1, <3>2
  <2>2. CASE ReadScan(s)
    <3>1. PICK f : Brief(f) /\ wire' = [wire EXCEPT ![s] = wire[s] \o f]
      <4>1. CASE status[target[s]] = "deleted"
        <5>1. wire' = [wire EXCEPT ![s] = Append(wire[s], Frame("stream-error"))]
          BY <2>2, <4>1 DEF ReadScan
        <5>2. Append(wire[s], Frame("stream-error")) = wire[s] \o <<Frame("stream-error")>>
          BY <1>3, EndFrame
        <5> QED BY <5>1, <5>2
      <4>2. CASE status[target[s]] # "deleted"
        <5>1. wire' = wire
          BY <2>2, <4>2 DEF ReadScan
        <5>2. wire[s] \o <<>> = wire[s] /\ wire = [wire EXCEPT ![s] = wire[s]]
          BY <1>3
        <5> QED BY <5>1, <5>2
      <4> QED BY <4>1, <4>2
    <3> QED BY <2>1, <3>1
  <2>3. CASE Replay(s)
    <3> DEFINE page == Replayed(target[s], cursor[s])
               sent == [i \in DOMAIN page |-> ResultFrame(page[i])]
    <3>1. PICK f : Brief(f) /\ wire' = [wire EXCEPT ![s] = wire[s] \o sent \o f]
      BY <2>3 DEF Replay
    <3>2. cursor[s] \in Nat /\ cursor[s] \in 0..Cardinality(Results) /\ Cardinality(Results) \in Nat
      BY StreamTypes DEF StreamInv
    <3>3. PICK k \in Nat :
            /\ page = [i \in 1..k |-> cursor[s] + i]
            /\ k > 0 => cursor[s] + k <= Count(target[s])
      BY <1>3, <3>2, PageFollows
    <3>4. /\ DOMAIN page = 1..k /\ Count(target[s]) <= Cardinality(Results)
          /\ \A i \in 1..k : page[i] = cursor[s] + i /\ page[i] <= Count(target[s])
      <4>1. Count(target[s]) <= Cardinality(Results)
        BY ResultsFinite DEF Count, Written
      <4>2. \A i \in 1..k : cursor[s] + i <= cursor[s] + k
        BY <3>2
      <4> HIDE DEF page
      <4> QED BY <1>3, <3>2, <3>3, <4>1, <4>2
    <3> HIDE DEF page
    <3>5. sent \in [1..k -> Frames] /\ \A i \in 1..k : sent[i].id <= Count(target[s])
      <4>1. \A i \in 1..k : ResultFrame(page[i]) \in Frames /\ ResultFrame(page[i]).id = page[i]
        BY <1>3, <3>2, <3>4 DEF ResultFrame, Frames
      <4> QED BY <3>4, <4>1
    <3> HIDE DEF sent
    <3>6. sent \in Seq(Frames) /\ Len(sent) = k
      BY <3>5, LenOf
    <3>7. f \in Seq(Frames) /\ (\A i \in 1..Len(f) : f[i].id <= Count(target[s])) /\ Len(f) \in Nat
      BY <2>1, <3>1, LenProperties
    <3> HIDE DEF Brief
    <3>8. /\ sent \o f \in Seq(Frames) /\ Len(sent \o f) = k + Len(f)
          /\ \A i \in 1..(k + Len(f)) : (sent \o f)[i] = IF i <= k THEN sent[i] ELSE f[i - k]
      BY <3>6, <3>7, ConcatProperties
    <3>9. \A i \in 1..Len(sent \o f) : (sent \o f)[i].id <= Count(target[s])
      <4>1. ASSUME NEW i \in 1..(k + Len(f)) PROVE (sent \o f)[i].id <= Count(target[s])
        <5>1. CASE i <= k
          BY <3>5, <3>8, <5>1
        <5>2. CASE i > k
          <6>1. i - k \in 1..Len(f) /\ ~(i <= k)
            BY <3>7, <5>2
          <6>2. PICK j \in 1..Len(f) : (sent \o f)[i] = f[j]
            BY <3>8, <6>1
          <6>3. f[j].id <= Count(target[s])
            BY <3>7
          <6> QED BY <6>2, <6>3
        <5>3. i <= k \/ i > k
          BY <3>7
        <5> QED BY <5>1, <5>2, <5>3
      <4> QED BY <3>8, <4>1
    <3>10. wire[s] \o sent \o f = wire[s] \o (sent \o f)
      BY <1>3, <3>6, <3>7
    <3> QED BY <3>1, <3>8, <3>9, <3>10
  <2> QED BY <2>2, <2>3 DEF LoopStep
<1>5. Sent'
  <2> SUFFICES ASSUME NEW z \in Streams, NEW i \in 1..Len(wire[z])', status[target[z]] # "deleted"
               PROVE  wire'[z][i].id <= Count(target[z])
    BY <1>1, <1>2 DEF Sent, serverVars
  <2>1. CASE z # s
    <3>1. wire'[z] = wire[z]
      BY <1>3, <1>4, <2>1
    <3> QED BY <3>1 DEF Sent
  <2>2. CASE z = s
    <3>1. wire'[s] = wire[s] \o more
      BY <1>3, <1>4
    <3>2. /\ Len(wire[s]) \in Nat /\ Len(more) \in Nat /\ Len(wire'[s]) = Len(wire[s]) + Len(more)
          /\ \A k \in 1..Len(wire[s]) + Len(more) :
                wire'[s][k] = IF k <= Len(wire[s]) THEN wire[s][k] ELSE more[k - Len(wire[s])]
      BY <1>3, <1>4, <3>1, ConcatProperties, LenProperties
    <3>3. CASE i <= Len(wire[s])
      BY <2>2, <3>2, <3>3 DEF Sent
    <3>4. CASE i > Len(wire[s])
      <4>1. i - Len(wire[s]) \in 1..Len(more)
        BY <2>2, <3>2, <3>4
      <4> QED BY <1>4, <2>2, <3>2, <3>4, <4>1
    <3> QED BY <2>2, <3>2, <3>3, <3>4
  <2> QED BY <2>1, <2>2
<1> QED BY <1>1, <1>2, <1>5 DEF Delivery!vars, Delivery!scanVars, Delivery!sessionVars, serverVars

\* Nothing comes onto a wire but what the server puts there.
LEMMA SentBefore ==
    ASSUME DeliveryInv, UNCHANGED serverVars,
           \A s \in Streams : wire'[s] # <<>> =>
                /\ target'[s] = target[s]
                /\ \A i \in 1..Len(wire'[s]) : \E k \in 1..Len(wire[s]) : wire'[s][i] = wire[s][k]
    PROVE  UNCHANGED Delivery!scanVars /\ Sent' /\ OwedFirst'
<1> USE DEF DeliveryInv
<1>1. UNCHANGED <<Published, Owed>> /\ (\A y : Count(y)' = Count(y)) /\ OwedFirst'
  BY DEF Published, Owed, Count, Written, OwedFirst, serverVars
<1>2. ASSUME NEW s \in Streams, NEW i \in 1..Len(wire'[s])
      PROVE  status[target'[s]] = "deleted" \/ wire'[s][i].id <= Count(target'[s])
  <2>1. wire'[s] # <<>>
    BY EmptySeq, <1>2
  <2>2. target'[s] = target[s] /\ \E k \in 1..Len(wire[s]) : wire'[s][i] = wire[s][k]
    BY <2>1
  <2> QED BY <2>2 DEF Sent
<1>3. Sent'
  BY <1>1, <1>2 DEF Sent, serverVars
<1> QED BY <1>1, <1>3 DEF Delivery!scanVars, serverVars

\* Closing and opening streams shows nothing; the session that takes a scan is new.
LEMMA ReopenFollows ==
    ASSUME DeliveryInv, NEW C, NEW O, NEW t, Reopen(C, O, t), UNCHANGED finished,
           \/ t = target
           \/ \E s \in Streams, x \in Scans :
                t = [target EXCEPT ![s] = x] /\ ready[s] = "none" /\ target[s] = None
    PROVE  [Delivery!Next]_Delivery!vars /\ Sent' /\ OwedFirst'
<1> USE DEF DeliveryInv
<1>1. /\ target' = t /\ UNCHANGED <<serverVars, received, finished>>
      /\ \A s \in Streams : wire'[s] # <<>> => wire'[s] = wire[s]
  BY DEF Reopen
<1>2. ASSUME NEW s \in Streams, wire'[s] # <<>> PROVE target'[s] = target[s]
  <2>1. ready[s] = "open"
    BY <1>1, <1>2 DEF StreamInv, Connections, Quiet
  <2> QED BY <1>1, <2>1 DEF StreamInv, StreamTypeOK
<1>3. UNCHANGED Delivery!scanVars /\ Sent' /\ OwedFirst'
  BY <1>1, <1>2, SentBefore
<1>4. CASE t = target
  BY <1>1, <1>3, <1>4 DEF Delivery!vars, Delivery!sessionVars
<1>5. ASSUME NEW s \in Streams, NEW x \in Scans,
             t = [target EXCEPT ![s] = x], target[s] = None
      PROVE  Delivery!Next
  <2>1. Delivery!Follow(s, x)
    BY <1>1, <1>3, <1>5 DEF Delivery!Follow
  <2> QED BY <2>1 DEF Delivery!Next
<1> QED BY <1>3, <1>4, <1>5

\* What is received, the scan it belongs to and the end stay as they are.
LEMMA NothingShown ==
    ASSUME DeliveryInv, UNCHANGED <<serverVars, target, received, finished>>,
           \A s \in Streams : wire'[s] # <<>> =>
                \A i \in 1..Len(wire'[s]) : \E k \in 1..Len(wire[s]) : wire'[s][i] = wire[s][k]
    PROVE  [Delivery!Next]_Delivery!vars /\ Sent' /\ OwedFirst'
<1>1. UNCHANGED Delivery!scanVars /\ Sent' /\ OwedFirst'
  BY SentBefore
<1> QED BY <1>1 DEF Delivery!vars, Delivery!sessionVars

LEMMA ConnectionShowsNothing ==
    ASSUME DeliveryInv, UNCHANGED finished, NEW s \in Streams,
           \/ Boundary(s) \/ Cut(s) \/ Duplicate(s)
           \/ Accept(s) \/ Lost(s) \/ Refuse(s) \/ Unreachable(s)
    PROVE  [Delivery!Next]_Delivery!vars /\ Sent' /\ OwedFirst'
<1> USE DEF DeliveryInv
<1>1. wire \in [Streams -> Seq(Frames)] /\ wire[s] \in Seq(Frames)
  BY StreamTypes DEF StreamInv
<1>2. UNCHANGED <<serverVars, target, received>>
  BY DEF Boundary, Cut, Duplicate, Accept, Lost, Refuse, Unreachable
<1>3. CASE wire' = wire
  BY <1>2, <1>3, NothingShown
<1>4. CASE Cut(s)
  <2>1. \A z \in Streams : wire'[z] # <<>> => wire'[z] = wire[z]
    BY <1>1, <1>4 DEF Cut
  <2> QED BY <1>2, <2>1, NothingShown
<1>5. CASE Duplicate(s)
  <2> DEFINE w == wire[s]
             h == <<Head(w)>>
  <2>1. wire' = [wire EXCEPT ![s] = h \o w] /\ w # <<>>
    BY <1>5 DEF Duplicate, Arrives
  <2>2. PICK n \in Nat : n = Len(w) /\ n >= 1
    BY <1>1, <2>1, EmptySeq
  <2>3. h \in Seq(Frames) /\ Len(h) = 1 /\ h[1] = w[1]
    BY <1>1, <2>1, <2>2, ElementOfSeq
  <2> HIDE DEF h
  <2>4. /\ Len(h \o w) = 1 + n
        /\ \A i \in 1..1 + n : (h \o w)[i] = IF i <= 1 THEN h[i] ELSE w[i - 1]
    <3>1. w \in Seq(Frames)
      BY <1>1
    <3> HIDE DEF w
    <3>2. /\ Len(h \o w) = Len(h) + Len(w)
          /\ \A i \in 1..Len(h) + Len(w) : (h \o w)[i] = IF i <= Len(h) THEN h[i] ELSE w[i - Len(h)]
      BY <2>3, <3>1, ConcatProperties
    <3> QED BY <2>2, <2>3, <3>2
  <2>5. ASSUME NEW i \in 1..Len(h \o w) PROVE \E k \in 1..Len(w) : (h \o w)[i] = w[k]
    <3>1. CASE i <= 1
      <4>1. i = 1 /\ 1 \in 1..Len(w)
        BY <2>2, <2>4, <3>1
      <4> QED BY <2>3, <2>4, <4>1
    <3>2. CASE ~(i <= 1)
      <4>1. i - 1 \in 1..Len(w) /\ (h \o w)[i] = w[i - 1]
        BY <2>2, <2>4, <3>2
      <4> QED BY <4>1
    <3> QED BY <3>1, <3>2
  <2>6. wire'[s] = h \o w /\ \A z \in Streams : z # s => wire'[z] = wire[z]
    BY <1>1, <2>1
  <2>7. ASSUME NEW z \in Streams
        PROVE  \A i \in 1..Len(wire'[z]) : \E k \in 1..Len(wire[z]) : wire'[z][i] = wire[z][k]
    <3>1. CASE z = s
      <4>1. ASSUME NEW i \in 1..Len(wire'[z]) PROVE \E k \in 1..Len(wire[z]) : wire'[z][i] = wire[z][k]
        <5>1. i \in 1..Len(h \o w)
          BY <2>6, <3>1, <4>1
        <5>2. PICK k \in 1..Len(w) : (h \o w)[i] = w[k]
          BY <2>5, <5>1
        <5> QED BY <2>6, <3>1, <5>2
      <4> QED BY <4>1
    <3>2. CASE z # s
      <4>1. wire'[z] = wire[z]
        BY <2>6, <3>2
      <4> QED BY <4>1
    <3> QED BY <3>1, <3>2
  <2> QED BY <1>2, <2>7, NothingShown
<1> QED BY <1>3, <1>4, <1>5 DEF Boundary, Accept, Lost, Refuse, Unreachable

\* A result that the page handles is the next one, or one that it has already.
LEMMA DispatchDelivers ==
    ASSUME DeliveryInv, NEW s \in Streams, Dispatch(s)
    PROVE  [Delivery!Next]_Delivery!vars /\ Sent' /\ OwedFirst'
<1> USE DEF DeliveryInv
<1> DEFINE old == received[s]
           id == Head(wire[s]).id
<1>1. /\ wire[s] # <<>> /\ Head(wire[s]).event = "result" /\ ready[s] = "open" /\ target[s] \in Scans
      /\ wire' = [wire EXCEPT ![s] = Tail(wire[s])]
      /\ received' = [received EXCEPT ![s] = IF id \in Range(old) THEN old ELSE Append(old, id)]
      /\ UNCHANGED <<serverVars, target, finished>>
  BY DEF Dispatch, Arrives, StreamInv, Connections
<1>2. /\ wire \in [Streams -> Seq(Frames)] /\ wire[s] \in Seq(Frames)
      /\ old \in Seq(1..Cardinality(Results)) /\ Cardinality(Results) \in Nat
      /\ received \in [Streams -> Seq(1..Cardinality(Results))]
  BY StreamTypes DEF StreamInv
<1>3. PICK n \in Nat : n = Len(wire[s]) /\ n >= 1
  <2>1. Len(wire[s]) \in Nat /\ Len(wire[s]) # 0
    BY <1>1, <1>2, EmptySeq
  <2>2. Len(wire[s]) >= 1
    BY <2>1
  <2> QED BY <2>1, <2>2
<1>4. PICK m \in Nat : m = Len(old) /\ DOMAIN old = 1..m
  BY <1>2, LenProperties
<1>5. /\ Len(Tail(wire[s])) = n - 1 /\ Head(wire[s]) = wire[s][1]
      /\ \A i \in 1..(n - 1) : Tail(wire[s])[i] = wire[s][i + 1]
  BY <1>1, <1>2, <1>3, HeadTailProperties
<1>6. UNCHANGED Delivery!scanVars /\ Sent' /\ OwedFirst'
  <2>1. ASSUME NEW z \in Streams
        PROVE  \A i \in 1..Len(wire'[z]) : \E k \in 1..Len(wire[z]) : wire'[z][i] = wire[z][k]
    <3>1. CASE z # s
      <4>1. wire'[z] = wire[z]
        BY <1>1, <1>2, <3>1
      <4> QED BY <4>1
    <3>2. CASE z = s
      <4>1. wire'[s] = Tail(wire[s])
        BY <1>1, <1>2
      <4>2. ASSUME NEW i \in 1..(n - 1) PROVE \E k \in 1..n : Tail(wire[s])[i] = wire[s][k]
        <5>1. i + 1 \in 1..n
          BY <1>3
        <5> QED BY <1>5, <5>1
      <4> QED BY <1>3, <1>5, <3>2, <4>1, <4>2
    <3> QED BY <3>1, <3>2
  <2> QED BY <1>1, <2>1, SentBefore
<1>7. id \in 1..(m + 1) /\ (status[target[s]] = "deleted" \/ id <= Count(target[s]))
  <2>1. 1 \in 1..Len(wire[s]) /\ wire[s][1].event = "result" /\ id = wire[s][1].id
    BY <1>1, <1>3, <1>5
  <2>2. IdAt(s, 1 - 1) = m
    BY <1>4 DEF IdAt
  <2>3. wire[s][1].id \in 1..(IdAt(s, 1 - 1) + 1)
    BY <2>1 DEF StreamInv, InOrder
  <2> QED BY <2>1, <2>2, <2>3 DEF Sent
<1>8. \A k \in 1..m : old[k] = k
  BY <1>4 DEF StreamInv, Gapless
<1> HIDE DEF id
<1>9. CASE id \in Range(old)
  <2>1. received' = received
    BY <1>1, <1>2, <1>9
  <2> QED BY <1>1, <1>6, <2>1 DEF Delivery!vars, Delivery!sessionVars
<1>10. CASE id \notin Range(old)
  <2>1. id = m + 1
    <3>1. \A k \in 1..m : k \in Range(old)
      BY <1>4, <1>8 DEF Range
    <3>2. id \notin 1..m
      BY <1>10, <3>1
    <3> QED BY <1>4, <1>7, <3>2
  <2>2. received' = [received EXCEPT ![s] = Append(old, Len(old) + 1)]
    BY <1>1, <1>4, <1>10, <2>1
  <2>3. Len(old) + 1 <= Published[target[s]] \/ status[target[s]] = "deleted"
    BY <1>1, <1>4, <1>7, <2>1, CountIs
  <2>4. s \notin finished
    BY <1>1 DEF StreamInv, FinishedHasAll
  <2>5. Delivery!Deliver(s)
    BY <1>1, <1>6, <2>2, <2>3, <2>4 DEF Delivery!Deliver
  <2> QED BY <1>6, <2>5 DEF Delivery!Next
<1> QED BY <1>9, <1>10

\* `done` comes when everything that is owed has.
LEMMA DoneFinishes ==
    ASSUME DeliveryInv, NEW s \in Streams, onDone(s)
    PROVE  [Delivery!Next]_Delivery!vars /\ Sent' /\ OwedFirst'
<1> USE DEF DeliveryInv
<1>1. /\ wire[s] # <<>> /\ Head(wire[s]).event = "done" /\ ready[s] = "open" /\ target[s] \in Scans
      /\ UNCHANGED <<serverVars, target, received>>
      /\ finished' = finished \cup (IF Owns(s) THEN {s} ELSE {})
      /\ \A z \in Streams : wire'[z] # <<>> => wire'[z] = wire[z]
  BY DEF onDone, Ends, Arrives, Reopen, StreamInv, Connections
<1>2. UNCHANGED Delivery!scanVars /\ Sent' /\ OwedFirst'
  BY <1>1, SentBefore
<1>3. CASE ~Owns(s)
  BY <1>1, <1>2, <1>3 DEF Delivery!vars, Delivery!sessionVars
<1>4. CASE Owns(s)
  <2>1. PICK n \in Nat : n = Len(received[s])
    BY StreamTypes, LenProperties DEF StreamInv
  <2>2. Brought(s, n)
    <3>1. 1 \in 1..Len(wire[s]) /\ Head(wire[s]) = wire[s][1]
      BY <1>1, StreamTypes, EmptySeq DEF StreamInv
    <3>2. Brought(s, IdAt(s, 1 - 1))
      BY <1>1, <3>1 DEF StreamInv, DoneIsLast
    <3> QED BY <2>1, <3>2 DEF IdAt
  <2>3. Cardinality(due[target[s]]) <= n
    <3>1. PICK d \in Nat : d = Cardinality(due[target[s]])
      BY <1>1, CountIs
    <3>2. {seq[r] : r \in due[target[s]]} = 1..d
      BY <1>1, <3>1 DEF OwedFirst
    <3>3. d > 0 => d \in {seq[r] : r \in due[target[s]]}
      BY <3>1, <3>2
    <3> QED BY <2>1, <2>2, <3>1, <3>3 DEF Brought
  <2>4. Delivery!Finish(s)
    <3>1. Owed[target[s]] <= Len(received[s])
      BY <1>1, <2>1, <2>3, CountIs
    <3>2. Len(received[s]) >= Owed[target[s]]
      BY <1>1, <2>1, <3>1, CountIs
    <3> QED BY <1>1, <1>2, <1>4, <2>2, <3>2 DEF Delivery!Finish, Brought
  <2> QED BY <1>2, <2>4 DEF Delivery!Next
<1> QED BY <1>3, <1>4

LEMMA StartFollows ==
    ASSUME IInv, DeliveryInv, NEW x \in Scans, NEW c \in Clicks, request[c].kind # "over",
           startStreaming(x, c), UNCHANGED finished
    PROVE  [Delivery!Next]_Delivery!vars /\ Sent' /\ OwedFirst'
<1>1. \E O : Reopen(Active, O, [target EXCEPT ![c] = x])
  BY DEF startStreaming
<1>2. c \in Streams /\ ready[c] = "none" /\ target[c] = None
  BY Sessions DEF IInv, PageInv, Fresh, Untouched
<1> QED BY <1>1, <1>2, ReopenFollows

LEMMA PageShows ==
    ASSUME IInv, DeliveryInv,
           \/ UserStep
           \/ \E c \in Clicks : AnswerStep(c)
           \/ \E s \in Streams : resultsFetched(s) \/ fallbackFires(s) \/ pollSends(s) \/ pollAnswered(s)
    PROVE  [Delivery!Next]_Delivery!vars /\ Sent' /\ OwedFirst'
<1>1. ASSUME UNCHANGED <<serverVars, target, wire, received, finished>>
      PROVE  [Delivery!Next]_Delivery!vars /\ Sent' /\ OwedFirst'
  BY <1>1, NothingShown
<1>2. CASE UserStep
  <2>1. Reopen(Active, {}, target) /\ UNCHANGED finished
    BY <1>2 DEF UserStep, loadScanByID, submit, forceRescan, Click, resetResultsView
  <2> QED BY <2>1, ReopenFollows
<1>3. ASSUME NEW c \in Clicks, AnswerStep(c)
      PROVE  [Delivery!Next]_Delivery!vars /\ Sent' /\ OwedFirst'
  <2>1. UNCHANGED finished /\ request[c].kind # "over"
    BY <1>3 DEF AnswerStep, loadAnswered, scanAnswered, scanToSchedule, scheduleAnswered, shareAnswered, Answered
  <2>2. request[c].kind \in {"load", "schedule"} => request[c].scan \in Scans
    BY DEF IInv, PageInv, Aimed
  <2>3. \/ \E x \in Scans : startStreaming(x, c)
        \/ UNCHANGED <<serverVars, target, wire, received>>
    BY <1>3, <2>2 DEF AnswerStep, loadAnswered, scanAnswered, scanToSchedule, scheduleAnswered, shareAnswered,
                      Answered, streamVars
  <2> QED BY <1>1, <2>1, <2>3, StartFollows
<1>4. ASSUME NEW s \in Streams, resultsFetched(s) \/ pollSends(s) \/ pollAnswered(s)
      PROVE  UNCHANGED <<serverVars, target, wire, received, finished>>
  BY <1>4 DEF resultsFetched, pollSends, pollAnswered, streamVars
<1>5. ASSUME NEW s \in Streams, fallbackFires(s)
      PROVE  [Delivery!Next]_Delivery!vars /\ Sent' /\ OwedFirst'
  <2> DEFINE n == PollsFor(s)
  <2>1. UNCHANGED finished /\ fallback[s]
    BY <1>5 DEF fallbackFires
  <2>2. CASE ~Owns(s)
    <3>1. Reopen({s}, {}, target)
      BY <1>5, <2>2 DEF fallbackFires
    <3> QED BY <2>1, <3>1, ReopenFollows
  <2>3. CASE Owns(s) /\ ready[s] = "open"
    BY <1>1, <1>5, <2>1, <2>3 DEF fallbackFires
  <2>4. CASE Owns(s) /\ ready[s] # "open"
    <3>1. Reopen({s} \cup Active, {}, [target EXCEPT ![n] = target[s]])
      BY <1>5, <2>4 DEF fallbackFires
    <3>2. s \in Clicks /\ target[s] \in Scans
      BY <2>1 DEF IInv, PageInv, StreamsOfClicks, Aimed
    <3>3. n \in Streams /\ ready[n] = "none" /\ target[n] = None
      BY <2>4, <3>2, Sessions DEF IInv, PageInv, Fresh, Untouched, Owns
    <3> HIDE DEF n
    <3> QED BY <2>1, <3>1, <3>2, <3>3, ReopenFollows
  <2> QED BY <2>2, <2>3, <2>4
<1> QED BY <1>1, <1>2, <1>3, <1>4, <1>5

LEMMA EventShows ==
    ASSUME IInv, DeliveryInv, NEW s \in Streams, onopen(s) \/ onerror(s) \/ EventStep(s)
    PROVE  [Delivery!Next]_Delivery!vars /\ Sent' /\ OwedFirst'
<1>1. CASE closeStale(s)
  <2>1. Reopen({s}, {}, target) /\ UNCHANGED finished
    BY <1>1 DEF closeStale, callVars
  <2> QED BY <2>1, ReopenFollows
<1>2. CASE onopen(s)
  <2>1. closeStale(s) \/ (Accept(s) /\ UNCHANGED finished)
    BY <1>2 DEF onopen
  <2> QED BY <1>1, <2>1, ConnectionShowsNothing
<1>3. CASE onerror(s)
  <2>1. closeStale(s) \/ ((Lost(s) \/ Refuse(s) \/ Unreachable(s)) /\ UNCHANGED finished)
    BY <1>3 DEF onerror
  <2> QED BY <1>1, <2>1, ConnectionShowsNothing
<1>4. CASE onResult(s)
  <2>1. closeStale(s) \/ Dispatch(s)
    BY <1>4 DEF onResult, Dispatch, callVars
  <2> QED BY <1>1, <2>1, DispatchDelivers
<1>5. CASE onStreamError(s)
  <2>1. Reopen({s}, {}, target) /\ UNCHANGED finished
    BY <1>5 DEF onStreamError, Ends
  <2> QED BY <2>1, ReopenFollows
<1>6. CASE onDone(s)
  BY <1>6, DoneFinishes
<1> QED BY <1>2, <1>3, <1>4, <1>5, <1>6 DEF EventStep

LEMMA BackgroundShows ==
    ASSUME DeliveryInv, StreamInv', Background, UNCHANGED finished
    PROVE  [Delivery!Next]_Delivery!vars /\ Sent' /\ OwedFirst'
<1>1. ASSUME NEW r \in Results, Insert(r) \/ Rollback(r)
      PROVE  [Delivery!Next]_Delivery!vars /\ Sent' /\ OwedFirst'
  BY <1>1, OpenIsUnseen
<1>2. ASSUME NEW r \in Results, Commit(r)
      PROVE  [Delivery!Next]_Delivery!vars /\ Sent' /\ OwedFirst'
  <2>1. Delivery!Publish(ScanOf[r]) /\ Sent' /\ OwedFirst'
    BY <1>2, CommitPublishes
  <2>2. ScanOf[r] \in Scans
    BY ScanOfAssumption
  <2> QED BY <2>1, <2>2 DEF Delivery!Next
<1>3. ASSUME NEW x \in Scans, EndScan(x)
      PROVE  [Delivery!Next]_Delivery!vars /\ Sent' /\ OwedFirst'
  <2>1. Delivery!Close(x) /\ Sent' /\ OwedFirst'
    BY <1>3, EndCloses
  <2> QED BY <2>1 DEF Delivery!Next
<1>4. ASSUME NEW x \in Scans, DeleteScan(x)
      PROVE  [Delivery!Next]_Delivery!vars /\ Sent' /\ OwedFirst'
  <2>1. Delivery!Remove(x) /\ Sent' /\ OwedFirst'
    BY <1>4, DeleteRemoves
  <2> QED BY <2>1 DEF Delivery!Next
<1>5. ASSUME NEW s \in Streams, LoopStep(s)
      PROVE  [Delivery!Next]_Delivery!vars /\ Sent' /\ OwedFirst'
  BY <1>5, LoopSends
<1>6. ASSUME NEW s \in Streams, Boundary(s) \/ Cut(s) \/ Duplicate(s)
      PROVE  [Delivery!Next]_Delivery!vars /\ Sent' /\ OwedFirst'
  BY <1>6, ConnectionShowsNothing
<1> QED BY <1>1, <1>2, <1>3, <1>4, <1>5, <1>6 DEF Background, ServerStep

LEMMA InitDelivers == Init => Delivery!Init /\ Sent /\ OwedFirst
<1> SUFFICES ASSUME Init PROVE Delivery!Init /\ Sent /\ OwedFirst
  OBVIOUS
<1> USE DEF Init, StreamInit
<1>1. \A x \in Scans : Written(x, {"committed"}) = {} /\ due[x] = {}
  BY DEF Written
<1>2. Cardinality({}) = 0
  BY FS_EmptySet
<1>3. Published = [x \in Scans |-> 0] /\ Owed = [x \in Scans |-> 0]
  BY <1>1, <1>2 DEF Published, Owed
<1>4. Sent
  <2>1. \A s \in Streams : wire[s] = <<>> /\ Len(wire[s]) = 0
    BY EmptySeq
  <2> QED BY <2>1 DEF Sent
<1>5. ASSUME NEW x \in Scans PROVE {seq[r] : r \in due[x]} = 1..Cardinality(due[x])
  <2>1. due[x] = {} /\ 1..0 = {}
    BY <1>1
  <2>2. {seq[r] : r \in due[x]} = {} /\ 1..Cardinality(due[x]) = {}
    BY <1>2, <2>1, Zenon
  <2> QED BY <2>2
<1>6. status \in [Scans -> {"pending", "over"}]
  OBVIOUS
<1> QED BY <1>3, <1>4, <1>5, <1>6 DEF Delivery!Init, OwedFirst

LEMMA StepDelivers ==
    IInv /\ IInv' /\ Sent /\ OwedFirst /\ [Next]_vars
      => [Delivery!Next]_Delivery!vars /\ Sent' /\ OwedFirst'
<1> SUFFICES ASSUME IInv, IInv', Sent, OwedFirst, [Next]_vars
             PROVE  [Delivery!Next]_Delivery!vars /\ Sent' /\ OwedFirst'
  OBVIOUS
<1>1. DeliveryInv /\ StreamInv'
  BY DEF DeliveryInv, IInv
<1>2. CASE Background /\ UNCHANGED <<supported, callVars, pageVars>>
  BY <1>1, <1>2, BackgroundShows DEF callVars
<1>3. ASSUME \/ UserStep
             \/ \E c \in Clicks : AnswerStep(c)
             \/ \E s \in Streams : resultsFetched(s) \/ fallbackFires(s) \/ pollSends(s) \/ pollAnswered(s)
      PROVE  [Delivery!Next]_Delivery!vars /\ Sent' /\ OwedFirst'
  BY <1>1, <1>3, PageShows
<1>4. ASSUME NEW s \in Streams, onopen(s) \/ onerror(s) \/ EventStep(s)
      PROVE  [Delivery!Next]_Delivery!vars /\ Sent' /\ OwedFirst'
  BY <1>1, <1>4, EventShows
<1>5. CASE UNCHANGED vars
  BY <1>1, <1>5, NothingShown DEF vars, streamVars, callVars
<1> QED BY <1>2, <1>3, <1>4, <1>5 DEF Next

\* The page shows what was committed, in that order, each result once and none
\* skipped, and is told that it is complete only when it is: the trigger's lock, the
\* server's cursor, EventSource and the ids that the page has seen implement this.
THEOREM ResultsAreDelivered == Spec => DeliversResults
<1>1. Spec => [](IInv /\ Sent /\ OwedFirst)
  BY InitHolds, StepHolds, InitDelivers, StepDelivers, PTL DEF Spec
<1> QED BY <1>1, InitDelivers, StepDelivers, PTL DEF Spec, DeliversResults, Delivery!Spec

===============================================================================
