----------------------------- MODULE ResultStream -----------------------------
(***************************************************************************)
(* Results on their way from the scan's writers to an EventSource:         *)
(* ResultStreamStore with the triggers of CreateScanResultEvents, the loop *)
(* of ScanController.streamResults, and the connection between them.       *)
(*                                                                         *)
(* An operator that names a stream changes the server and the connection   *)
(* only: what the page does with the event is added in ScanPage.           *)
(***************************************************************************)
EXTENDS Naturals, Sequences, FiniteSets, FiniteSetsExt

CONSTANTS
    Scans,
    Results,      \* results the plugins may write, numbered in the order of their inserts
    ScanOf,       \* ScanOf[r]: the scan of result r
    Earlier,      \* scans that were over before the page was opened
    Streams,      \* 1..n, the EventSources the page may open
    None,
    ReplayLimit,  \* ResultStreamStore.replayLimit; 100 in the code
    MaxFaults     \* bound: what may go wrong, a deleted scan included

ASSUME ScanOfAssumption ==
    /\ Results \subseteq Nat /\ IsFiniteSet(Results)
    /\ Earlier \subseteq Scans /\ ScanOf \in [Results -> Scans \ Earlier]

ASSUME ReplayLimitAssumption == ReplayLimit \in Nat \ {0}

ASSUME BoundsAssumption == MaxFaults \in Nat /\ None \notin Scans \cup Streams

VARIABLES
    status,   \* status[x]: the scan's row
    due,      \* due[x]: the results committed before the scan was over
    row,      \* row[r]: "none", "open" while its transaction is, "committed", "lost"
    seq,      \* seq[r]: stream_sequence of its event, 0 without one
    target,   \* target[s]: the scan whose stream s is
    ready,    \* ready[s]: EventSource.readyState, "none" before it is created
    handler,  \* handler[s]: where the server's loop is
    seenStatus, \* seenStatus[s]: the status that loop read last
    cursor,   \* cursor[s]: the id of the last event it sent
    wire,     \* wire[s]: frames on their way to the page
    received, \* received[s]: ids of the result events dispatched, as handled
    faults

serverVars == <<status, due, row, seq>>
streamVars == <<target, ready, handler, seenStatus, cursor, wire, received, faults>>

ResultFrame(id) == [event |-> "result", id |-> id]
Frame(event) == [event |-> event, id |-> 0]

Written(x, states) == {r \in Results : ScanOf[r] = x /\ row[r] \in states}

\* Ids of the events a reader of the table sees.
Ids(x) == {seq[r] : r \in Written(x, {"committed"})}

NextSequence(x) == 1 + Max({0} \cup Ids(x))

\* Ids of the events after c, in order, one page at most.
Replayed(x, c) ==
    LET later == {n \in Ids(x) : n > c}
        Place(n) == Cardinality({m \in later : m <= n})
    IN  [i \in 1..Min({ReplayLimit, Cardinality(later)}) |-> CHOOSE n \in later : Place(n) = i]

\* Mutant: the server takes it for the id of the next event that is wanted.
LastEventIDIsNext(s) == 1 + Max({0} \cup Range(received[s]))

\* The id EventSource sends as Last-Event-ID when it reconnects.
LastEventID(s) == Max({0} \cup Range(received[s]))

Fault == faults < MaxFaults /\ faults' = faults + 1

-------------------------------------------------------------------------------
(* The scan writes *)

\* Mutant: without the lock of the before-insert trigger two transactions of one
\* scan overlap, and the later number may be committed first.
InsertUnlocked(r) ==
    LET x == ScanOf[r] IN
    /\ row[r] = "none" /\ status[x] # "deleted" /\ \A q \in Written(x, {"none"}) : r <= q
    /\ row' = [row EXCEPT ![r] = "open"]
    /\ seq' = [seq EXCEPT ![r] = 1 + Max({0} \cup {seq[q] : q \in Written(x, {"open", "committed"})})]
    /\ UNCHANGED <<status, due, streamVars>>

\* persist: the insert waits for the lock on the scan's row, which every
\* transaction of the scan keeps to its end, and then draws the next number.
Insert(r) ==
    LET x == ScanOf[r] IN
    /\ row[r] = "none" /\ status[x] # "deleted" /\ \A q \in Written(x, {"none"}) : r <= q
    /\ Written(x, {"open"}) = {}
    /\ row' = [row EXCEPT ![r] = "open"]
    /\ seq' = [seq EXCEPT ![r] = NextSequence(x)]
    /\ UNCHANGED <<status, due, streamVars>>

Commit(r) ==
    /\ row[r] = "open"
    /\ row' = [row EXCEPT ![r] = "committed"]
    /\ UNCHANGED <<status, due, seq, streamVars>>

\* The transaction rolls back, and the finding is not written again.
Rollback(r) ==
    /\ row[r] = "open" /\ Fault
    /\ row' = [row EXCEPT ![r] = "lost"]
    /\ seq' = [seq EXCEPT ![r] = 0]
    /\ UNCHANGED <<status, due, target, ready, handler, seenStatus, cursor, wire, received>>

\* Completed or failed: the runner ends the scan after its writes, the reaper of
\* orphans may fail it before, and then the runner writes on.
EndScan(x) ==
    /\ status[x] = "pending"
    /\ status' = [status EXCEPT ![x] = "over"]
    /\ due' = [due EXCEPT ![x] = Written(x, {"committed"})]
    /\ UNCHANGED <<row, seq, streamVars>>

\* Results and events go with the scan; a writer waits for its lock no longer.
DeleteScan(x) ==
    /\ status[x] # "deleted" /\ Written(x, {"open"}) = {} /\ Fault
    /\ status' = [status EXCEPT ![x] = "deleted"]
    /\ due' = [due EXCEPT ![x] = {}]
    /\ row' = [r \in Results |-> IF ScanOf[r] = x THEN "lost" ELSE row[r]]
    /\ seq' = [r \in Results |-> IF ScanOf[r] = x THEN 0 ELSE seq[r]]
    /\ UNCHANGED <<target, ready, handler, seenStatus, cursor, wire, received>>

-------------------------------------------------------------------------------
(* The server's loop: read the status, replay, send *)

ReadScan(s) ==
    LET read == status[target[s]] IN
    /\ handler[s] = "read"
    /\ IF read = "deleted"
       THEN /\ wire' = [wire EXCEPT ![s] = Append(@, Frame("stream-error"))]
            /\ handler' = [handler EXCEPT ![s] = "none"]
            /\ UNCHANGED seenStatus
       ELSE /\ seenStatus' = [seenStatus EXCEPT ![s] = read]
            /\ handler' = [handler EXCEPT ![s] = "replay"]
            /\ UNCHANGED wire
    /\ UNCHANGED <<serverVars, target, ready, cursor, received, faults>>

\* A full page is followed by another; a page that is not full has caught up, and
\* ends the stream if the status read before it was final.
Replay(s) ==
    LET page == Replayed(target[s], cursor[s])
        ends == Len(page) < ReplayLimit /\ seenStatus[s] = "over"
        sent == [i \in DOMAIN page |-> ResultFrame(page[i])]
    IN
    /\ handler[s] = "replay"
    /\ wire' = [wire EXCEPT ![s] = @ \o sent \o (IF ends THEN <<Frame("done")>> ELSE <<>>)]
    /\ cursor' = [cursor EXCEPT ![s] = Max({@} \cup Range(page))]
    /\ handler' = [handler EXCEPT ![s] = IF ends THEN "none" ELSE "read"]
    /\ UNCHANGED <<serverVars, target, ready, seenStatus, received, faults>>

-------------------------------------------------------------------------------
(* The connection *)

\* streamResults answers 200 and goes on after Last-Event-ID.
Accept(s) ==
    /\ ready[s] = "connecting" /\ status[target[s]] # "deleted"
    /\ ready' = [ready EXCEPT ![s] = "open"]
    /\ handler' = [handler EXCEPT ![s] = "read"]
    /\ cursor' = [cursor EXCEPT ![s] = LastEventID(s)]
    /\ UNCHANGED <<serverVars, target, seenStatus, wire, received, faults>>

\* The scan is gone, or every connection is taken: EventSource gives up for good.
Refuse(s) ==
    /\ ready[s] = "connecting"
    /\ IF status[target[s]] = "deleted" THEN UNCHANGED faults ELSE Fault
    /\ ready' = [ready EXCEPT ![s] = "closed"]
    /\ UNCHANGED <<serverVars, target, handler, seenStatus, cursor, wire, received>>

\* No answer: EventSource tries again.
Unreachable(s) ==
    /\ ready[s] = "connecting" /\ Fault
    /\ UNCHANGED <<serverVars, target, ready, handler, seenStatus, cursor, wire, received>>

\* The 90 seconds are over.  The frames already sent still arrive.
Boundary(s) ==
    /\ handler[s] = "read" /\ Fault
    /\ handler' = [handler EXCEPT ![s] = "none"]
    /\ UNCHANGED <<serverVars, target, ready, seenStatus, cursor, wire, received>>

\* The connection breaks with the frames on it.
Cut(s) ==
    /\ ready[s] = "open" /\ Fault
    /\ handler' = [handler EXCEPT ![s] = "none"]
    /\ wire' = [wire EXCEPT ![s] = <<>>]
    /\ UNCHANGED <<serverVars, target, ready, seenStatus, cursor, received>>

\* The page sees the response end and EventSource connects again.
Lost(s) ==
    /\ ready[s] = "open" /\ handler[s] = "none" /\ wire[s] = <<>>
    /\ ready' = [ready EXCEPT ![s] = "connecting"]
    /\ UNCHANGED <<serverVars, target, handler, seenStatus, cursor, wire, received, faults>>

Arrives(s, event) == ready[s] = "open" /\ wire[s] # <<>> /\ Head(wire[s]).event = event

\* A proxy sends the frame at the head of the wire a second time.
Duplicate(s) ==
    /\ Arrives(s, "result") /\ Fault
    /\ wire' = [wire EXCEPT ![s] = <<Head(@)>> \o @]
    /\ UNCHANGED <<serverVars, target, ready, handler, seenStatus, cursor, received>>

\* What close() and new EventSource do: C are closed, O opened, each session on
\* the scan t gives it.
Reopen(C, O, t) ==
    /\ ready' = [s \in Streams |->
                    IF s \in C THEN "closed" ELSE IF s \in O THEN "connecting" ELSE ready[s]]
    /\ target' = t
    /\ handler' = [s \in Streams |-> IF s \in C THEN "none" ELSE handler[s]]
    /\ seenStatus' = [s \in Streams |-> IF s \in C THEN "pending" ELSE seenStatus[s]]
    /\ cursor' = [s \in Streams |-> IF s \in C THEN 0 ELSE cursor[s]]
    /\ wire' = [s \in Streams |-> IF s \in C THEN <<>> ELSE wire[s]]
    /\ UNCHANGED <<serverVars, received>>

-------------------------------------------------------------------------------

StreamTypeOK ==
    /\ status \in [Scans -> {"pending", "over", "deleted"}]
    /\ due \in [Scans -> SUBSET Results]
    /\ row \in [Results -> {"none", "open", "committed", "lost"}]
    /\ seq \in [Results -> 0..Cardinality(Results)]
    /\ target \in [Streams -> Scans \cup {None}]
    /\ ready \in [Streams -> {"none", "connecting", "open", "closed"}]
    /\ handler \in [Streams -> {"none", "read", "replay"}]
    /\ seenStatus \in [Streams -> {"pending", "over"}]
    /\ cursor \in [Streams -> 0..Cardinality(Results)]
    /\ wire \in [Streams -> Seq([event : {"result", "done", "stream-error"},
                                id : 0..Cardinality(Results)])]
    /\ received \in [Streams -> Seq(1..Cardinality(Results))]
    /\ faults \in 0..MaxFaults

StreamInit ==
    /\ status = [x \in Scans |-> IF x \in Earlier THEN "over" ELSE "pending"]
    /\ due = [x \in Scans |-> {}]
    /\ row = [r \in Results |-> "none"]
    /\ seq = [r \in Results |-> 0]
    /\ target = [s \in Streams |-> None]
    /\ ready = [s \in Streams |-> "none"]
    /\ handler = [s \in Streams |-> "none"]
    /\ seenStatus = [s \in Streams |-> "pending"]
    /\ cursor = [s \in Streams |-> 0]
    /\ wire = [s \in Streams |-> <<>>]
    /\ received = [s \in Streams |-> <<>>]
    /\ faults = 0

===============================================================================
