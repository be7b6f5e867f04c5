------------------------------- MODULE ScanPage -------------------------------
(***************************************************************************)
(* The scan page of frontend/app.js: which scan is on screen, the token    *)
(* that tells late callbacks they have lost the page, the live stream with *)
(* its fallback to polling, and the data kept for export and sharing.      *)
(* How the results are drawn, filtered and sorted is left out.             *)
(*                                                                         *)
(* A click sends a request and the page goes on; the answer is a later     *)
(* step.  Its content is what the server has when it arrives: an older     *)
(* answer is one that arrived earlier.                                     *)
(***************************************************************************)
EXTENDS ResultStream

CONSTANTS
    MaxClicks,  \* bound: scans started or loaded, the page load included
    MaxPolls    \* MAX_POLLS; 40 in the code

\* Each click opens one session at most, which falls back once: the session of
\* click c is c, and the one that polls after its stream is PollsFor(c).
ASSUME StreamsAssumption ==
    MaxClicks \in Nat \ {0} /\ Streams = 1..(2 * MaxClicks)

ASSUME MaxPollsAssumption == MaxPolls \in Nat \ {0}

VARIABLES
    supported,         \* the browser has EventSource
    request,           \* request[c]: what click c waits for
    poll,              \* poll[s]: where session s is when it polls
    polls,             \* polls[s]: count
    fallback,          \* fallback[s]: reconnectFallbackTimer is set
    finished,          \* sessions whose `done` frame was handled
    fetching,          \* those whose results are being fetched for export
    activeScanToken,   \* the session that owns the page, None for a fresh symbol
    activeEventSource,
    scanning,          \* setScanningState
    scanIdDisplay,     \* the scan the page shows, None while the panel is hidden
    lastScanData       \* the scan whose data is kept, None without

pageVars == <<activeScanToken, activeEventSource, scanning, scanIdDisplay, lastScanData>>
callVars == <<request, poll, polls, fallback, finished, fetching>>
vars == <<serverVars, streamVars, supported, callVars, pageVars>>

Clicks == 1..MaxClicks
Idle == [kind |-> "none", scan |-> None]
Ask(kind, x) == [kind |-> kind, scan |-> x]

\* The body of an error answer, kept as if it were a scan.
Error == "error"

PollsFor(c) == c + MaxClicks
Live == {s \in Streams : ready[s] \in {"connecting", "open"}}
Active == {activeEventSource} \ {None}

PageTypeOK ==
    /\ supported \in BOOLEAN
    /\ request \in [Clicks -> [kind: {"none", "load", "scan", "schedule", "share", "over"},
                               scan: Scans \cup {None}]]
    /\ poll \in [Streams -> {"none", "timer", "asked", "over"}]
    /\ polls \in [Streams -> 0..MaxPolls]
    /\ fallback \in [Streams -> BOOLEAN]
    /\ finished \subseteq Streams /\ fetching \subseteq finished
    /\ activeScanToken \in Streams \cup {None}
    /\ activeEventSource \in Streams \cup {None}
    /\ scanning \in BOOLEAN
    /\ scanIdDisplay \in Scans \cup {None}
    /\ lastScanData \in Scans \cup {None, Error}

TypeOK == StreamTypeOK /\ PageTypeOK

\* What the address asks for: nothing, a scan, or a shared report.
Address == {Idle} \cup {Ask(kind, x) : kind \in {"load", "share"}, x \in Scans}

Init ==
    /\ StreamInit
    /\ supported \in BOOLEAN
    /\ \E first \in Address :
        /\ request = [c \in Clicks |-> IF c = 1 THEN first ELSE Idle]
        /\ scanning = (first.kind = "load")
    /\ poll = [s \in Streams |-> "none"]
    /\ polls = [s \in Streams |-> 0]
    /\ fallback = [s \in Streams |-> FALSE]
    /\ finished = {} /\ fetching = {}
    /\ activeScanToken = None
    /\ activeEventSource = None
    /\ scanIdDisplay = None
    /\ lastScanData = None

-------------------------------------------------------------------------------
(* Clicks *)

\* A fresh token, resetResultsView and setScanningState(true).
resetResultsView ==
    /\ Reopen(Active, {}, target)
    /\ activeScanToken' = None
    /\ activeEventSource' = None
    /\ scanning' = TRUE
    /\ scanIdDisplay' = None
    /\ lastScanData' = None

Click(kind, x) ==
    \E c \in Clicks :
        /\ request[c] = Idle /\ \A d \in 1..(c - 1) : request[d] # Idle
        /\ request' = [request EXCEPT ![c] = Ask(kind, x)]
        /\ resetResultsView
        /\ UNCHANGED <<faults, supported, poll, polls, fallback, finished, fetching>>

\* From the history, the scan list, a notification or the address.
loadScanByID(x) == Click("load", x)

\* While a scan runs the button and the field are disabled.
submit == ~scanning /\ Click("scan", None)

\* The rescan button is not.
forceRescan == Click("scan", None)

-------------------------------------------------------------------------------
(* Answers *)

\* Mutant: the stream that was open is left open.
startStreamingBeside(x, s) ==
    /\ activeScanToken' = s
    /\ scanIdDisplay' = x
    /\ IF supported
       THEN Reopen({}, {s}, [target EXCEPT ![s] = x]) /\ activeEventSource' = s /\ UNCHANGED poll
       ELSE /\ Reopen({}, {}, [target EXCEPT ![s] = x]) /\ activeEventSource' = None
            /\ poll' = [poll EXCEPT ![s] = "timer"]
    /\ UNCHANGED <<scanning, lastScanData>>

\* Session s takes the page for scan x, by a stream or, without one, by polling.
\* The data kept is still that of the scan shown before.
startStreaming(x, s) ==
    /\ activeScanToken' = s
    /\ scanIdDisplay' = x
    /\ IF supported
       THEN Reopen(Active, {s}, [target EXCEPT ![s] = x]) /\ activeEventSource' = s /\ UNCHANGED poll
       ELSE /\ Reopen(Active, {}, [target EXCEPT ![s] = x]) /\ activeEventSource' = None
            /\ poll' = [poll EXCEPT ![s] = "timer"]
    /\ UNCHANGED <<scanning, lastScanData>>

displayResults(x) ==
    /\ scanning' = FALSE
    /\ lastScanData' = x
    /\ scanIdDisplay' = x
    /\ UNCHANGED <<activeScanToken, activeEventSource>>

GiveUp ==
    /\ scanning' = FALSE
    /\ UNCHANGED <<activeScanToken, activeEventSource, scanIdDisplay, lastScanData>>

\* Every answer ends its request.
Answered(c, kind) ==
    /\ request[c].kind = kind
    /\ request' = [request EXCEPT ![c].kind = "over"]
    /\ UNCHANGED <<supported, polls, fallback, finished, fetching>>

\* The answer of an earlier load still takes the page.
loadAnswered(c) ==
    LET x == request[c].scan IN
    /\ Answered(c, "load")
    /\ \/ /\ status[x] = "over"
          /\ displayResults(x)
          /\ UNCHANGED <<serverVars, streamVars, poll>>
       \/ /\ status[x] = "pending"
          /\ startStreaming(x, c)
          /\ UNCHANGED faults
       \/ /\ IF status[x] = "deleted" THEN UNCHANGED faults ELSE Fault
          /\ GiveUp
          /\ UNCHANGED <<serverVars, target, ready, handler, seenStatus, cursor, wire, received, poll>>

\* The scan is a new one, or one of the same target that is reused; a request
\* that is refused, or finds no scan left in the bound, gives up.
scanAnswered(c) ==
    /\ Answered(c, "scan")
    /\ \/ \E x \in Scans :
            /\ status[x] # "deleted"
            /\ startStreaming(x, c)
            /\ UNCHANGED faults
       \/ /\ IF \A x \in Scans : status[x] = "deleted" THEN UNCHANGED faults ELSE Fault
          /\ GiveUp
          /\ UNCHANGED <<serverVars, target, ready, handler, seenStatus, cursor, wire, received, poll>>

\* "Repeat this scan" is ticked: its schedule is created before the stream opens.
scanToSchedule(c) ==
    /\ request[c].kind = "scan"
    /\ \E x \in Scans :
        /\ status[x] # "deleted"
        /\ request' = [request EXCEPT ![c] = Ask("schedule", x)]
    /\ UNCHANGED <<serverVars, streamVars, supported, poll, polls, fallback, finished, fetching, pageVars>>

scheduleAnswered(c) ==
    /\ Answered(c, "schedule")
    /\ startStreaming(request[c].scan, c)
    /\ UNCHANGED faults

\* The report is displayed over whatever the page does; without one nothing changes.
shareAnswered(c) ==
    /\ Answered(c, "share")
    /\ \/ status[request[c].scan] # "deleted" /\ displayResults(request[c].scan)
       \/ UNCHANGED pageVars
    /\ UNCHANGED <<serverVars, streamVars, poll>>

-------------------------------------------------------------------------------
(* The stream's events *)

Owns(s) == activeScanToken = s

\* A stale handler closes its source; Reopen also says so of a closed one.
closeStale(s) ==
    /\ s \in Live
    /\ Reopen({s}, {}, target)
    /\ UNCHANGED <<faults, supported, callVars, pageVars>>

onopen(s) ==
    IF Owns(s)
    THEN /\ Accept(s)
         /\ fallback' = [fallback EXCEPT ![s] = FALSE]
         /\ UNCHANGED <<supported, request, poll, polls, finished, fetching, pageVars>>
    ELSE closeStale(s)

\* seenEventIDs drops what a proxy repeats.
onResult(s) ==
    LET id == Head(wire[s]).id IN
    IF Owns(s)
    THEN /\ Arrives(s, "result")
         /\ received' = [received EXCEPT ![s] =
                IF id \in Range(@) THEN @ ELSE Append(@, id)]
         /\ wire' = [wire EXCEPT ![s] = Tail(@)]
         /\ UNCHANGED <<serverVars, target, ready, handler, seenStatus, cursor, faults,
                        supported, callVars, pageVars>>
    ELSE closeStale(s)

\* `done` and `stream-error` close the source first, and then ask for the token.
Ends(s, event) ==
    /\ Arrives(s, event)
    /\ Reopen({s}, {}, target)
    /\ activeEventSource' = IF activeEventSource = s THEN None ELSE activeEventSource
    /\ fallback' = [fallback EXCEPT ![s] = FALSE]
    /\ scanning' = (scanning /\ ~Owns(s))
    /\ UNCHANGED <<faults, supported, request, poll, polls,
                   activeScanToken, scanIdDisplay, lastScanData>>

onStreamError(s) == Ends(s, "stream-error") /\ UNCHANGED <<finished, fetching>>

onDone(s) ==
    /\ Ends(s, "done")
    /\ finished' = finished \cup (IF Owns(s) THEN {s} ELSE {})
    /\ fetching' = fetching \cup (IF Owns(s) THEN {s} ELSE {})

\* For each transport failure, whether EventSource will try again or not.
onerror(s) ==
    IF Owns(s)
    THEN /\ Lost(s) \/ Refuse(s) \/ Unreachable(s)
         /\ fallback' = [fallback EXCEPT ![s] = TRUE]
         /\ UNCHANGED <<supported, request, poll, polls, finished, fetching, pageVars>>
    ELSE closeStale(s)

\* The full data of the scan, without a look at the token; an error answer is
\* kept too.
resultsFetched(s) ==
    /\ s \in fetching
    /\ fetching' = fetching \ {s}
    /\ \/ /\ lastScanData' = IF status[target[s]] = "deleted" THEN Error ELSE target[s]
          /\ UNCHANGED faults
       \/ Fault /\ UNCHANGED lastScanData
    /\ UNCHANGED <<serverVars, target, ready, handler, seenStatus, cursor, wire, received,
                   supported, request, poll, polls, fallback, finished,
                   activeScanToken, activeEventSource, scanning, scanIdDisplay>>

-------------------------------------------------------------------------------
(* Timers and polling *)

\* Seven seconds after the failure: poll, unless the stream is back or stale.
fallbackFires(s) ==
    LET n == PollsFor(s) IN
    /\ fallback[s]
    /\ fallback' = [fallback EXCEPT ![s] = FALSE]
    /\ CASE ~Owns(s) ->
              /\ Reopen({s}, {}, target)
              /\ UNCHANGED <<poll, activeScanToken, activeEventSource>>
         [] Owns(s) /\ ready[s] = "open" ->
              UNCHANGED <<serverVars, target, ready, handler, seenStatus, cursor, wire,
                          received, poll, activeScanToken, activeEventSource>>
         [] OTHER ->
              /\ Reopen({s} \cup Active, {}, [target EXCEPT ![n] = target[s]])
              /\ poll' = [poll EXCEPT ![n] = "timer"]
              /\ activeScanToken' = n
              /\ activeEventSource' = None
    /\ UNCHANGED <<faults, supported, request, polls, finished, fetching,
                   scanning, scanIdDisplay, lastScanData>>

\* Mutant: the attempts are not counted.
pollSendsUncounted(s) ==
    /\ poll[s] = "timer"
    /\ poll' = [poll EXCEPT ![s] = IF Owns(s) THEN "asked" ELSE "over"]
    /\ UNCHANGED <<serverVars, streamVars, supported, request, polls, fallback, finished, fetching,
                   pageVars>>

\* doPoll, when its timer fires.
pollSends(s) ==
    /\ poll[s] = "timer"
    /\ IF Owns(s)
       THEN /\ poll' = [poll EXCEPT ![s] = "asked"]
            /\ polls' = [polls EXCEPT ![s] = @ + 1]
       ELSE poll' = [poll EXCEPT ![s] = "over"] /\ UNCHANGED polls
    /\ UNCHANGED <<serverVars, streamVars, supported, request, fallback, finished, fetching,
                   pageVars>>

\* Mutant: the last attempt is not the last.
TriesLeftTooMany(s) == polls[s] <= MaxPolls

TriesLeft(s) == polls[s] < MaxPolls

\* Mutant: an error ends the polling and nothing else.
pollAnsweredOnce(s) ==
    /\ poll[s] = "asked"
    /\ poll' = [poll EXCEPT ![s] = "over"]
    /\ IF Owns(s) /\ status[target[s]] = "over" THEN displayResults(target[s]) ELSE UNCHANGED pageVars
    /\ UNCHANGED <<serverVars, streamVars, supported, request, polls, fallback, finished, fetching>>

\* The token is asked again after the answer.  A scan that is not over, or an
\* error, is asked for once more until the attempts run out.
pollAnswered(s) ==
    LET x == target[s] IN
    /\ poll[s] = "asked"
    /\ \/ /\ ~Owns(s) \/ status[x] = "over"
          /\ poll' = [poll EXCEPT ![s] = "over"]
          /\ IF Owns(s) THEN displayResults(x) ELSE UNCHANGED pageVars
          /\ UNCHANGED faults
       \/ /\ Owns(s)
          /\ IF status[x] = "over" THEN Fault ELSE UNCHANGED faults
          /\ poll' = [poll EXCEPT ![s] = IF TriesLeft(s) THEN "timer" ELSE "over"]
          /\ IF TriesLeft(s) THEN UNCHANGED pageVars ELSE GiveUp
    /\ UNCHANGED <<serverVars, target, ready, handler, seenStatus, cursor, wire, received,
                   supported, request, polls, fallback, finished, fetching>>

-------------------------------------------------------------------------------

ServerStep ==
    \/ \E r \in Results : Insert(r) \/ Commit(r) \/ Rollback(r)
    \/ \E x \in Scans : EndScan(x) \/ DeleteScan(x)

LoopStep(s) == ReadScan(s) \/ Replay(s)

Background ==
    \/ ServerStep
    \/ \E s \in Streams : LoopStep(s) \/ Boundary(s) \/ Cut(s) \/ Duplicate(s)

UserStep == (\E x \in Scans : loadScanByID(x)) \/ submit \/ forceRescan

AnswerStep(c) ==
    loadAnswered(c) \/ scanAnswered(c) \/ scanToSchedule(c) \/ scheduleAnswered(c) \/ shareAnswered(c)

EventStep(s) == onResult(s) \/ onStreamError(s) \/ onDone(s)

Next ==
    \/ Background /\ UNCHANGED <<supported, callVars, pageVars>>
    \/ UserStep
    \/ \E c \in Clicks : AnswerStep(c)
    \/ \E s \in Streams :
        \/ onopen(s) \/ onerror(s) \/ EventStep(s)
        \/ resultsFetched(s) \/ fallbackFires(s)
        \/ pollSends(s) \/ pollAnswered(s)

\* Requests are answered or fail, timers fire, the browser delivers what arrived,
\* and a scan is over in the end: its runner ends it or the reaper of orphans.
Fairness ==
    /\ \A x \in Scans : WF_vars(EndScan(x) /\ UNCHANGED <<supported, callVars, pageVars>>)
    /\ \A c \in Clicks : WF_vars(AnswerStep(c))
    /\ \A s \in Streams :
        /\ WF_vars(LoopStep(s) /\ UNCHANGED <<supported, callVars, pageVars>>)
        /\ WF_vars(onopen(s) \/ onerror(s)) /\ WF_vars(EventStep(s))
        /\ WF_vars(fallbackFires(s)) /\ WF_vars(pollSends(s)) /\ WF_vars(pollAnswered(s))

Spec == Init /\ [][Next]_vars

FairSpec == Spec /\ Fairness

-------------------------------------------------------------------------------
(* What is claimed of the page *)

\* A stream that ended with `done` has brought every result the scan had when it
\* was over, and each of them once: streamResults reads the status before it
\* replays, the ids follow the order of the commits, EventSource resumes after
\* the last id and the page drops the ids it has seen.
StreamComplete ==
    \A s \in Streams :
        /\ IsInjective(received[s])
        /\ s \in finished => {seq[r] : r \in due[target[s]]} \subseteq Range(received[s])

\* One connection at most: whoever takes the page, a new stream, polling or a
\* cleared page, has closed the stream before, so a stream that is open owns the
\* token and its events are never stale.
OneStream ==
    \A s \in Live : activeEventSource = s /\ Owns(s)

\* The button and the field are disabled only while something is on its way that
\* enables them again: a request of a click, the stream or the polling of the
\* session that owns the page, or its fallback timer.
ScanningHasOwner ==
    scanning =>
        \/ \E c \in Clicks : request[c].kind \in {"load", "scan", "schedule"}
        \/ \E s \in Streams : Owns(s) /\ (s \in Live \/ fallback[s] \/ poll[s] \in {"timer", "asked"})

Published == [x \in Scans |-> Cardinality(Written(x, {"committed"}))]
Owed == [x \in Scans |-> Cardinality(due[x])]

Delivery == INSTANCE ResultDelivery WITH
    Sessions <- Streams, phase <- status, published <- Published, owed <- Owed,
    follows <- target, shown <- received, complete <- finished

\* The writers and the trigger, the server's loop, EventSource and the page together
\* do what ResultDelivery says: the page shows the committed results in the order of
\* their commits, each once, however often the connection is lost, and `done` says that
\* none is missing.
DeliversResults == Delivery!Spec

\* And in the end they are enabled again.
ScanSettles == scanning ~> ~scanning

\* frontend/app.js: lastScanData is the "most recently displayed scan data for
\* export/share".  So what is exported or shared is the scan on the page.
DataIsOnScreen == lastScanData # None => lastScanData = scanIdDisplay

===============================================================================
