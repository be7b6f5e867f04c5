---------------------------- MODULE DarkWebDialog ----------------------------
(***************************************************************************)
(* The dark-web dialog of frontend/dark-web.js: the list of jobs, the job  *)
(* in detail, polling, submitting, cancelling and deleting, with what the  *)
(* routes of DarkWebInvestigationController do to the jobs.                *)
(*                                                                         *)
(* A request is sent, executed, and answered in three steps; answers come  *)
(* in any order, and any request may fail.  Left out are the findings, why *)
(* a job ended without any, whether its cancellation has been asked for,   *)
(* the acknowledgement, and the purge of jobs that have expired.           *)
(***************************************************************************)
EXTENDS FiniteSetsExt, Sequences

CONSTANTS
    Jobs,       \* 1..n, in the order they are created
    None

VARIABLES
    page,       \* "loading", "in" or "out": which of the two headers is shown
    signedIn,   \* the session cookie is good
    clicks,     \* bound: those left in the dialog and on the rest of the page
    job,        \* job[j]: its row
    open, busy, \* state.open, state.busy
    visible,    \* not document.hidden
    configured, \* state.config says it is enabled and healthy
    jobs,       \* state.jobs: the status of each job in the list
    selectedID,
    detail,     \* state.detail, a copy of a job
    rendered,   \* the copy the panel shows
    pollTimer,  \* state.pollTimer is set
    requests    \* on their way, oldest first

listVars == <<jobs, pollTimer>>
detailVars == <<selectedID, detail, rendered>>
dialogVars == <<open, busy, visible, configured>>
dvars == <<job, dialogVars, listVars, detailVars, requests>>

Terminal == {"completed", "failed"}
Statuses == Terminal \cup {"active"}
Copies == [id: Jobs, status: Statuses]

\* A request, and its answer once it is executed.  `last`: no detail was asked for
\* since.  `first`: the argument of loadJobs.  `poll`: loadJobs waits for it.
\* `submitted`: submitInvestigation waits for it.
Request(kind, about) ==
    [kind |-> kind, about |-> about, last |-> FALSE, first |-> FALSE, poll |-> FALSE,
     submitted |-> FALSE, done |-> FALSE, answer |-> None]

DialogTypeOK ==
    /\ job \in [Jobs -> Statuses \cup {"none", "gone"}]
    /\ {open, busy, visible, configured, pollTimer} \subseteq BOOLEAN
    /\ jobs \in [Jobs -> Statuses \cup {"none"}]
    /\ selectedID \in Jobs \cup {None}
    /\ {detail, rendered} \subseteq Copies \cup {None}
    /\ \A r \in Range(requests) : r.about \in Jobs \cup {None} /\ r.done \in BOOLEAN
    /\ \A k, m \in DOMAIN requests : requests[k].last /\ requests[m].last => k = m

\* One job is over, and another one may be running.  The dialog may just have been
\* opened.
DialogInit ==
    /\ job \in {[j \in Jobs |-> IF j = 1 THEN "completed" ELSE IF j = 2 THEN s ELSE "none"] :
                    s \in {"active", "none"}}
    /\ open \in {FALSE, page = "in"}
    /\ busy = FALSE /\ visible = TRUE /\ configured = FALSE
    /\ jobs = [j \in Jobs |-> "none"] /\ pollTimer = FALSE
    /\ selectedID = None /\ detail = None /\ rendered = None
    /\ requests = IF open THEN <<Request("status", None)>> ELSE <<>>

-------------------------------------------------------------------------------
(* Parts of the handlers *)

Click == clicks.dialog > 0 /\ clicks' = [clicks EXCEPT !.dialog = @ - 1]

Ask(pending, r) == requests' = Append(pending, r)

Without(s, k) == [i \in 1..Len(s) - 1 |-> s[IF i < k THEN i ELSE i + 1]]

loadJobs(pending, first, submitted) ==
    Ask(pending, [Request("list", None) EXCEPT !.first = first, !.submitted = submitted])

\* Mutant: an older request for a detail still counts.
selectJobBeside(pending, j, poll, submitted) ==
    /\ selectedID' = j
    /\ Ask(pending, [Request("detail", j) EXCEPT !.last = TRUE, !.poll = poll, !.submitted = submitted])

\* A newer request for a detail makes the older ones count for nothing.
selectJob(pending, j, poll, submitted) ==
    /\ selectedID' = j
    /\ Ask([k \in DOMAIN pending |-> [pending[k] EXCEPT !.last = FALSE]],
           [Request("detail", j) EXCEPT !.last = TRUE, !.poll = poll, !.submitted = submitted])

Active(list) == \E j \in Jobs : list[j] = "active"

\* Mutant: it is scheduled though the dialog is closed.
schedulePollAlways == pollTimer' = (visible' /\ Active(jobs'))

schedulePoll == pollTimer' = (open' /\ visible' /\ Active(jobs'))

\* Nothing if it is closed.
closeDialog == open' = FALSE /\ pollTimer' = (pollTimer /\ ~open)

-------------------------------------------------------------------------------
(* The user *)

\* From the header of a user who is signed in; loads the status, then the jobs.
openDialog ==
    /\ Click /\ page = "in" /\ ~open
    /\ open' = TRUE
    /\ Ask(requests, Request("status", None))
    /\ UNCHANGED <<page, signedIn, job, busy, visible, configured, listVars, detailVars>>

refresh ==
    /\ Click /\ open
    /\ Ask(requests, Request("status", None))
    /\ UNCHANGED <<page, signedIn, job, dialogVars, listVars, detailVars>>

clickClose ==
    /\ Click /\ open
    /\ closeDialog
    /\ UNCHANGED <<page, signedIn, job, busy, visible, configured, jobs, detailVars, requests>>

clickJob(j) ==
    /\ Click /\ open /\ jobs[j] # "none"
    /\ selectJob(requests, j, FALSE, FALSE)
    /\ UNCHANGED <<page, signedIn, job, dialogVars, listVars, detail, rendered>>

submitInvestigation ==
    /\ Click /\ open /\ ~busy /\ configured
    /\ busy' = TRUE
    /\ Ask(requests, Request("submit", None))
    /\ UNCHANGED <<page, signedIn, job, open, visible, configured, listVars, detailVars>>

\* The buttons are those of the job on screen; what they act on is the detail.
Press(kind, shown) ==
    /\ Click /\ open
    /\ rendered # None /\ rendered.status \in shown
    /\ detail # None /\ detail.status \in shown
    /\ Ask(requests, Request(kind, detail.id))
    /\ UNCHANGED <<page, signedIn, job, dialogVars, listVars, detailVars>>

cancelSelected == Press("cancel", {"active"})
deleteSelected == Press("delete", Terminal)
addSelectedToBoard == Press("boards", {"completed"})

visibilityChange ==
    /\ Click
    /\ visible' = ~visible
    /\ UNCHANGED <<page, signedIn, job, open, busy, configured, jobs, detailVars>>
    /\ IF visible' /\ open
       THEN loadJobs(requests, FALSE, FALSE) /\ UNCHANGED pollTimer
       ELSE schedulePoll /\ UNCHANGED requests

pollTimerFires ==
    /\ pollTimer /\ pollTimer' = FALSE
    /\ loadJobs(requests, FALSE, FALSE)
    /\ UNCHANGED <<page, signedIn, clicks, job, dialogVars, jobs, detailVars>>

-------------------------------------------------------------------------------
(* The server *)

\* The worker ends a job.
JobEnds(j) ==
    /\ job[j] = "active"
    /\ \E s \in Terminal : job' = [job EXCEPT ![j] = s]
    /\ UNCHANGED <<page, signedIn, clicks, dialogVars, listVars, detailVars, requests>>

Listed == [j \in Jobs |-> IF job[j] \in Statuses THEN job[j] ELSE "none"]

Outcome(rows, answer) == [job |-> rows, answer |-> answer]
Row(j, status) == [job EXCEPT ![j] = status]
Copy(j, status) == [id |-> j, status |-> status]

\* Of a request about a job that is there.  Only one that is waiting is cancelled at
\* once; only one that is over is deleted.
OutcomesFor(kind, j) ==
    {o \in {Outcome(job, Copy(j, job[j]))} : kind \in {"detail", "cancel"}}
    \cup {o \in {Outcome(Row(j, "failed"), Copy(j, "failed"))} : kind = "cancel" /\ job[j] = "active"}
    \cup {o \in {Outcome(Row(j, "gone"), None)} : kind = "delete" /\ job[j] \in Terminal}

\* What a request may do, and its answer.  One job of an account runs at a time.
Outcomes(r) ==
    LET unused == {i \in Jobs : job[i] = "none"} IN
    CASE r.kind = "list" -> {Outcome(job, Listed)}
      [] r.kind = "submit" ->
            IF Active(job) \/ unused = {} THEN {}
            ELSE {Outcome(Row(Min(unused), "active"), Copy(Min(unused), "active"))}
      [] OTHER -> IF r.about \in Jobs /\ job[r.about] \in Statuses
                  THEN OutcomesFor(r.kind, r.about) ELSE {}

Execute(k) ==
    /\ signedIn /\ ~requests[k].done
    /\ \E o \in Outcomes(requests[k]) :
        /\ job' = o.job
        /\ requests' = [requests EXCEPT ![k].done = TRUE, ![k].answer = o.answer]
    /\ UNCHANGED <<page, signedIn, clicks, dialogVars, listVars, detailVars>>

-------------------------------------------------------------------------------
(* Answers.  r is the request, rest the others.  Executed or not, a request may fail. *)

Failed(r) == [r EXCEPT !.done = FALSE, !.answer = None]

\* Only the request for the status and the script of the boards are not executed.
Answer(r) == {Failed(r)} \cup
    IF r.kind \in {"status", "boards"} THEN {[r EXCEPT !.done = TRUE]} ELSE {x \in {r} : x.done}

statusAnswered(r, rest) ==
    /\ r.kind = "status"
    /\ configured' \in IF r.done THEN BOOLEAN ELSE {FALSE}
    /\ loadJobs(rest, TRUE, FALSE)
    /\ UNCHANGED <<open, busy, listVars, detailVars>>

\* The selected job may be gone; if there is none and `first` asks for it, the
\* newest is selected.  Its detail is awaited before the next poll is scheduled.
listed(r, rest) ==
    LET kept == selectedID # None /\ r.answer[selectedID] # "none"
        some == {j \in Jobs : r.answer[j] # "none"}
        next == IF kept THEN selectedID ELSE IF r.first /\ some # {} THEN Max(some) ELSE None
    IN  /\ jobs' = r.answer
        /\ detail' = IF selectedID = None \/ kept THEN detail ELSE None
        /\ UNCHANGED open
        /\ IF next # None
           THEN selectJob(rest, next, TRUE, r.submitted) /\ UNCHANGED <<rendered, pollTimer, busy>>
           ELSE /\ selectedID' = None /\ rendered' = None
                /\ schedulePoll
                /\ busy' = (busy /\ ~r.submitted)
                /\ requests' = rest

\* After a failure nothing is listed, and no poll is scheduled.
listFailed(r, rest) ==
    /\ jobs' = [j \in Jobs |-> "none"]
    /\ rendered' = None
    /\ busy' = (busy /\ ~r.submitted)
    /\ requests' = rest
    /\ UNCHANGED <<open, pollTimer, selectedID, detail>>

jobsAnswered(r, rest) ==
    /\ r.kind = "list"
    /\ IF r.done THEN listed(r, rest) ELSE listFailed(r, rest)
    /\ UNCHANGED configured

\* Mutant: an older answer counts as well.
CountsAlways(r) == TRUE

\* requestNumber is still state.detailRequest.
Counts(r) == r.last

detailAnswered(r, rest) ==
    /\ r.kind = "detail"
    /\ requests' = rest
    /\ busy' = (busy /\ ~r.submitted)
    /\ UNCHANGED <<open, configured, jobs, selectedID>>
    /\ IF Counts(r) THEN detail' = r.answer /\ rendered' = r.answer ELSE UNCHANGED <<detail, rendered>>
    /\ IF r.poll THEN schedulePoll ELSE UNCHANGED pollTimer

\* The new job is selected, and drawn once the list and its detail have come.
submitAnswered(r, rest) ==
    /\ r.kind = "submit"
    /\ IF r.done
       THEN /\ selectedID' = r.answer.id /\ detail' = r.answer
            /\ loadJobs(rest, FALSE, TRUE)
            /\ UNCHANGED busy
       ELSE /\ busy' = FALSE
            /\ requests' = rest
            /\ UNCHANGED <<selectedID, detail>>
    /\ UNCHANGED <<open, configured, listVars, rendered>>

\* Drawn even if another job has been selected; the list puts that right.
cancelAnswered(r, rest) ==
    /\ r.kind = "cancel"
    /\ IF r.done
       THEN detail' = r.answer /\ rendered' = r.answer /\ loadJobs(rest, FALSE, FALSE)
       ELSE requests' = rest /\ UNCHANGED <<detail, rendered>>
    /\ UNCHANGED <<open, busy, configured, listVars, selectedID>>

deleteAnswered(r, rest) ==
    /\ r.kind = "delete"
    /\ IF r.done
       THEN selectedID' = None /\ detail' = None /\ loadJobs(rest, TRUE, FALSE)
       ELSE requests' = rest /\ UNCHANGED <<selectedID, detail>>
    /\ UNCHANGED <<open, busy, configured, listVars, rendered>>

\* The boards are loaded: the dialog makes way for them.
boardsAnswered(r, rest) ==
    /\ r.kind = "boards"
    /\ requests' = rest
    /\ IF r.done THEN closeDialog ELSE UNCHANGED <<open, pollTimer>>
    /\ UNCHANGED <<busy, configured, jobs, detailVars>>

Answered(k) ==
    LET rest == Without(requests, k) IN
    /\ UNCHANGED <<page, signedIn, clicks, job, visible>>
    /\ \E r \in Answer(requests[k]) :
        \/ statusAnswered(r, rest) \/ jobsAnswered(r, rest) \/ detailAnswered(r, rest)
        \/ submitAnswered(r, rest) \/ cancelAnswered(r, rest) \/ deleteAnswered(r, rest)
        \/ boardsAnswered(r, rest)

-------------------------------------------------------------------------------
UserSteps ==
    \/ openDialog \/ refresh \/ clickClose \/ submitInvestigation
    \/ cancelSelected \/ deleteSelected \/ addSelectedToBoard \/ visibilityChange
    \/ \E j \in Jobs : clickJob(j)

DialogNext ==
    \/ clicks.dialog > 0 /\ UserSteps
    \/ pollTimerFires
    \/ \E j \in Jobs : JobEnds(j)
    \/ \E k \in DOMAIN requests : Execute(k) \/ Answered(k)

-------------------------------------------------------------------------------
(* Properties *)

Pending(kinds) == \E r \in Range(requests) : r.kind \in kinds

\* Once every answer is in, the buttons of a job on screen act on that very copy, and it
\* is the job marked in the list.  Where none is marked nothing is said of which job it
\* is: submitting, deleting and a list empty or change the selection without a new
\* detail, so a detail on its way still counts and may draw a job that is gone.
ShownIsSelected ==
    (~Pending({"list", "detail", "submit", "cancel", "delete"}) /\ rendered # None)
    => /\ rendered = detail
       /\ (selectedID # None /\ \E j \in Jobs : jobs[j] # "none") => rendered.id = selectedID

\* A job the list shows as running is polled for while the dialog can be seen: the
\* timer is set, or a list is on its way, or a detail that sets it.
PolledWhileActive ==
    (open /\ visible /\ Active(jobs))
    => \/ pollTimer
       \/ \E r \in Range(requests) : r.kind \in {"status", "list"} \/ r.poll

===============================================================================
