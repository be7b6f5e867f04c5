---------------------------- MODULE ResultDelivery ----------------------------
(***************************************************************************)
(* What the stream promises the page, with no transaction, frame, cursor   *)
(* or connection in sight: it shows the results of one scan in the order   *)
(* in which they were published, each once and none skipped, and says that *)
(* it is complete only when it is.                                         *)
(***************************************************************************)
EXTENDS Naturals, Sequences

CONSTANTS Scans, Sessions, None

VARIABLES
    phase,     \* phase[x]: where the scan stands
    published, \* published[x]: how many results it has, numbered from 1
    owed,      \* owed[x]: how many it had when it was over
    follows,   \* follows[s]: the scan whose results session s shows
    shown,     \* shown[s]: the numbers of those it shows, as they came
    complete   \* sessions that have been told that there are no more

scanVars == <<phase, published, owed>>
sessionVars == <<follows, shown, complete>>
vars == <<scanVars, sessionVars>>

Init ==
    /\ phase \in [Scans -> {"pending", "over"}]
    /\ published = [x \in Scans |-> 0]
    /\ owed = [x \in Scans |-> 0]
    /\ follows = [s \in Sessions |-> None]
    /\ shown = [s \in Sessions |-> <<>>]
    /\ complete = {}

\* A scan that has been failed too early may publish more; it is owed to nobody.
Publish(x) ==
    /\ phase[x] # "deleted"
    /\ published' = [published EXCEPT ![x] = @ + 1]
    /\ UNCHANGED <<phase, owed, sessionVars>>

Close(x) ==
    /\ phase[x] = "pending"
    /\ phase' = [phase EXCEPT ![x] = "over"]
    /\ owed' = [owed EXCEPT ![x] = published[x]]
    /\ UNCHANGED <<published, sessionVars>>

Remove(x) ==
    /\ phase[x] # "deleted"
    /\ phase' = [phase EXCEPT ![x] = "deleted"]
    /\ published' = [published EXCEPT ![x] = 0]
    /\ owed' = [owed EXCEPT ![x] = 0]
    /\ UNCHANGED sessionVars

\* A session is of one scan, for good.
Follow(s, x) ==
    /\ follows[s] = None
    /\ follows' = [follows EXCEPT ![s] = x]
    /\ UNCHANGED <<scanVars, shown, complete>>

\* Of a scan that was deleted, what had been sent before may still come.
Deliver(s) ==
    LET next == Len(shown[s]) + 1 IN
    /\ s \notin complete /\ follows[s] \in Scans
    /\ next <= published[follows[s]] \/ phase[follows[s]] = "deleted"
    /\ shown' = [shown EXCEPT ![s] = Append(@, next)]
    /\ UNCHANGED <<scanVars, follows, complete>>

Finish(s) ==
    /\ follows[s] \in Scans
    /\ phase[follows[s]] # "pending"
    /\ Len(shown[s]) >= owed[follows[s]]
    /\ complete' = complete \cup {s}
    /\ UNCHANGED <<scanVars, follows, shown>>

Next ==
    \/ \E x \in Scans : Publish(x) \/ Close(x) \/ Remove(x)
    \/ \E s \in Sessions : Deliver(s) \/ Finish(s) \/ \E x \in Scans : Follow(s, x)

Spec == Init /\ [][Next]_vars

===============================================================================
