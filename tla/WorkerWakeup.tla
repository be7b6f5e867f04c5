------------------------------ MODULE WorkerWakeup ------------------------------
(***************************************************************************)
(* How a queued row reaches a worker: the in-memory flag WorkSignal, the   *)
(* loop `tick, then wait(upTo: pollSeconds)` that ExportJobWorker and      *)
(* NotificationDeliveryWorker share, and the producers, which commit the   *)
(* row and then raise the flag of their own process.                       *)
(*                                                                         *)
(* The two loops differ in their tick.  An export worker starts one        *)
(* background Task and returns; while it runs the tick returns at once.  A *)
(* notification worker delivers inside the tick, up to Batch rows.  The    *)
(* rows' leases and verdicts are in ExportJobs and NotificationDelivery:   *)
(* here a row is only ready, taken, or not yet due again.                  *)
(***************************************************************************)
EXTENDS Naturals

CONSTANTS
    Workers,   \* process incarnations
    Items,     \* export jobs or deliveries
    None,      \* no row in hand, no process
    Batch,     \* rows one notification tick may take; 10 in the code
    Failures   \* whether processes, statements and providers may fail

ASSUME BatchAssumption == Batch \in Nat \ {0}

ASSUME NoneAssumption == None \notin Workers \cup Items

ASSUME FailuresAssumption == Failures \in BOOLEAN

VARIABLES
    kind,    \* which of the two workers this is
    item,    \* item[i]: the row
    home,    \* home[i]: the process that enqueued i
    unsent,  \* rows committed whose producer has yet to raise the flag
    flag,    \* flag[w]: WorkSignal.flagged
    at,      \* at[w]: place in the loop
    ended,   \* ended[w]: how the last tick ended
    hand,    \* hand[w]: the row being worked on
    left     \* left[w]: rows the tick may still take

vars == <<kind, item, home, unsent, flag, at, ended, hand, left>>

\* Enqueued and never claimed, or due again.
Ready == {"pending", "due"}

TypeOK ==
    /\ kind \in {"export", "notification"}
    /\ item \in [Items -> {"none", "taken", "later", "done"} \cup Ready]
    /\ home \in [Items -> Workers \cup {None}]
    /\ unsent \subseteq Items
    /\ flag \in [Workers -> BOOLEAN]
    /\ at \in [Workers -> {"tick", "ending", "wait", "dead"}]
    /\ ended \in [Workers -> {"empty", "busy", "full", "failed"}]
    /\ hand \in [Workers -> Items \cup {None}]
    /\ left \in [Workers -> 1..Batch]

Init ==
    /\ kind \in {"export", "notification"}
    /\ item = [i \in Items |-> "none"]
    /\ home = [i \in Items |-> None]
    /\ unsent = {}
    /\ flag = [w \in Workers |-> FALSE]
    /\ at = [w \in Workers |-> "tick"]
    /\ ended = [w \in Workers |-> "empty"]
    /\ hand = [w \in Workers |-> None]
    /\ left = [w \in Workers |-> Batch]

-------------------------------------------------------------------------------
(* Producers and time *)

\* The transaction that inserts the row commits in process w.
Commit(w, i) ==
    /\ at[w] # "dead" /\ item[i] = "none"
    /\ item' = [item EXCEPT ![i] = "pending"]
    /\ home' = [home EXCEPT ![i] = w]
    /\ unsent' = unsent \cup {i}
    /\ UNCHANGED <<kind, flag, at, ended, hand, left>>

\* signal, after the commit.
Signal(i) ==
    /\ i \in unsent
    /\ flag' = [flag EXCEPT ![home[i]] = TRUE]
    /\ unsent' = unsent \ {i}
    /\ UNCHANGED <<kind, item, home, at, ended, hand, left>>

\* A back-off or the lease of a lost worker runs out; nobody signals that.
BecomesDue(i) ==
    /\ item[i] = "later"
    /\ item' = [item EXCEPT ![i] = "due"]
    /\ UNCHANGED <<kind, home, unsent, flag, at, ended, hand, left>>

-------------------------------------------------------------------------------
(* The worker *)

\* wait sees the flag, lowers it and returns.
WakeUp(w) ==
    /\ at[w] = "wait" /\ flag[w]
    /\ flag' = [flag EXCEPT ![w] = FALSE]
    /\ at' = [at EXCEPT ![w] = "tick"]
    /\ UNCHANGED <<kind, item, home, unsent, ended, hand, left>>

\* Mutant: wait has no deadline.
PollNever(w) == FALSE /\ UNCHANGED vars

\* The deadline passes first; the flag stays as it is.
PollTimeout(w) ==
    /\ at[w] = "wait"
    /\ at' = [at EXCEPT ![w] = "tick"]
    /\ UNCHANGED <<kind, item, home, unsent, flag, ended, hand, left>>

TickEnds(w, why) ==
    /\ at' = [at EXCEPT ![w] = "ending"]
    /\ ended' = [ended EXCEPT ![w] = why]
    /\ left' = [left EXCEPT ![w] = Batch]

\* The export worker still has its activeTask: tick returns without a look.
TickBusy(w) ==
    /\ at[w] = "tick" /\ kind = "export" /\ hand[w] # None
    /\ TickEnds(w, "busy")
    /\ UNCHANGED <<kind, item, home, unsent, flag, hand>>

\* claimNext finds nothing.
TickEmpty(w) ==
    /\ at[w] = "tick" /\ hand[w] = None
    /\ \A i \in Items : item[i] \notin Ready
    /\ TickEnds(w, "empty")
    /\ UNCHANGED <<kind, item, home, unsent, flag, hand>>

\* claimNext takes a row: an export runs in the background, a delivery in the tick.
Take(w, i) ==
    /\ at[w] = "tick" /\ hand[w] = None
    /\ item[i] \in Ready
    /\ item' = [item EXCEPT ![i] = "taken"]
    /\ hand' = [hand EXCEPT ![w] = i]
    /\ IF kind = "export" THEN TickEnds(w, "busy") ELSE UNCHANGED <<at, ended, left>>
    /\ UNCHANGED <<kind, home, unsent, flag>>

\* claimNext throws, and may have leased a row before that.
TickFails(w) ==
    /\ Failures
    /\ at[w] = "tick" /\ hand[w] = None
    /\ \/ UNCHANGED item
       \/ \E i \in Items : item[i] \in Ready /\ item' = [item EXCEPT ![i] = "later"]
    /\ TickEnds(w, "failed")
    /\ UNCHANGED <<kind, home, unsent, flag, hand>>

\* Mutant: the tick goes on after the last row of its batch.
DoneOneMore(w, s) ==
    /\ at[w] # "dead" /\ hand[w] # None
    /\ item' = [item EXCEPT ![hand[w]] = s]
    /\ hand' = [hand EXCEPT ![w] = None]
    /\ left' = IF kind = "notification" THEN [left EXCEPT ![w] = @ - 1] ELSE left
    /\ UNCHANGED <<kind, home, unsent, flag, at, ended>>

\* The row in hand is settled, or left for a later attempt.  A notification tick
\* goes on to the next row unless this was the last of its batch; an export ends
\* whatever the loop is doing.
Done(w, s) ==
    /\ at[w] # "dead" /\ hand[w] # None
    /\ item' = [item EXCEPT ![hand[w]] = s]
    /\ hand' = [hand EXCEPT ![w] = None]
    /\ \/ kind = "export" /\ UNCHANGED <<at, ended, left>>
       \/ /\ kind = "notification" /\ left[w] > 1
          /\ left' = [left EXCEPT ![w] = @ - 1]
          /\ UNCHANGED <<at, ended>>
       \/ /\ kind = "notification" /\ left[w] = 1
          /\ TickEnds(w, "full")
    /\ UNCHANGED <<kind, home, unsent, flag>>

\* Mutant: wait starts by lowering the flag.
EnterWaitLowering(w) ==
    /\ at[w] = "ending"
    /\ at' = [at EXCEPT ![w] = "wait"]
    /\ flag' = [flag EXCEPT ![w] = FALSE]
    /\ UNCHANGED <<kind, item, home, unsent, ended, hand, left>>

\* The loop calls wait.
EnterWait(w) ==
    /\ at[w] = "ending"
    /\ at' = [at EXCEPT ![w] = "wait"]
    /\ UNCHANGED <<kind, item, home, unsent, flag, ended, hand, left>>

\* Bound: one process always survives.  The flag, the row in hand (until its
\* lease runs out) and the signals not yet sent are lost.
Die(w) ==
    /\ Failures
    /\ at[w] # "dead"
    /\ \E v \in Workers \ {w} : at[v] # "dead"
    /\ at' = [at EXCEPT ![w] = "dead"]
    /\ flag' = [flag EXCEPT ![w] = FALSE]
    /\ unsent' = {i \in unsent : home[i] # w}
    /\ item' = [i \in Items |-> IF hand[w] = i THEN "later" ELSE item[i]]
    /\ hand' = [hand EXCEPT ![w] = None]
    /\ UNCHANGED <<kind, home, ended, left>>

-------------------------------------------------------------------------------

Outcomes == IF Failures THEN {"done", "later"} ELSE {"done"}

Loop(w) ==
    \/ WakeUp(w) \/ PollTimeout(w) \/ EnterWait(w)
    \/ TickBusy(w) \/ TickEmpty(w) \/ TickFails(w)
    \/ \E i \in Items : Take(w, i)
    \/ \E s \in Outcomes : Done(w, s)

Next ==
    \/ \E i \in Items : Signal(i) \/ BecomesDue(i)
    \/ \E w \in Workers : Loop(w) \/ Die(w) \/ \E i \in Items : Commit(w, i)

Spec == Init /\ [][Next]_vars

-------------------------------------------------------------------------------
(* What is claimed of the wake-up *)

\* NotificationOutbox and ExportJobController signal after the commit: "woken
\* earlier, the worker could look before the rows exist".  So a worker that went
\* to sleep because it found nothing, and whose flag is down, has not missed a
\* row that a producer of its own process has signalled.
NoMissedSignal ==
    \A w \in Workers, i \in Items :
        at[w] \in {"ending", "wait"} /\ ended[w] = "empty" /\ ~flag[w] =>
            ~(item[i] = "pending" /\ home[i] = w /\ i \notin unsent)

\* Loops, Tasks and producers run on, and back-offs pass.  The claim takes the
\* oldest row and does not fail every time, so no row is passed over for ever.
Fairness ==
    /\ \A i \in Items : WF_vars(Signal(i)) /\ WF_vars(BecomesDue(i))
    /\ \A w \in Workers :
        /\ WF_vars(WakeUp(w)) /\ WF_vars(EnterWait(w))
        /\ WF_vars(TickBusy(w)) /\ WF_vars(TickEmpty(w))
        /\ WF_vars(\E s \in Outcomes : Done(w, s))
        /\ \A i \in Items : SF_vars(Take(w, i))

SignalSpec == Spec /\ Fairness

PolledSpec == SignalSpec /\ \A w \in Workers : WF_vars(PollTimeout(w))

\* Under the poll every row that is ready is taken in the end, whatever signals
\* were lost, lowered early or never sent.
PickedUp == \A i \in Items : item[i] \in Ready ~> item[i] \notin Ready

\* docs/ASYNC_EXPORTS.md: the poll only finds work that becomes due some other
\* way.  So a row that was just enqueued would be taken without the poll.
SignalSuffices == \A i \in Items : item[i] = "pending" ~> item[i] # "pending"

=================================================================================
