# A TLA+ model of the Digital Footprint Tracker

The repository is a Swift (Vapor) service that scans an identifier (a user name,
an e-mail address, a domain, a phone number) with many plugins, stores what they
find, and lets the account export, watch, share and be notified about it. The
interesting part of it, for this project, is the state that several actors share:
rows of the database that HTTP handlers, background workers and several processes
change concurrently, across crashes, restarts and timeouts; and the state of the
page, which asks for those rows, edits copies of them, and meets the answers in
whatever order they come. This directory holds TLA+ modules for those parts, the
TLC configurations that check them and TLAPS proofs about them.

Paths below are relative to `src/Sources/App/` unless they start with `docs/` or
`frontend/`.

## 1. Inventory

| Component | State | Operations | Interacts with | What is hard | What makes it correct |
|---|---|---|---|---|---|
| **Export job queue** (`Services/ExportJobWorker`, `Controllers/ExportJobController`, `Models/ExportJob`) | table `export_jobs`; per process: `activeTask`, `activeJobID`, the loop | create, cancel, claim, heartbeat, finish (3 ways), sweep, purge, stop | artifact builder, work signal, users and scans (cascade) | leases, stale workers, reentrant actor, crash between claim and result, statement snapshots | cancelled jobs publish nothing; only the last claim writes; quotas hold; every job ends |
| **Notification outbox** (`Services/NotificationOutbox`, `Services/NotificationDeliveryWorker`, `AdminController.retryNotificationDelivery`) | tables of events and delivery jobs; per process: the job in hand | enqueue (idempotent), claim, deliver, finish, sweep, purge, replay | providers, work signal, every producer of events | no heartbeat, at-least-once, retries, replay and retention racing delivery | recorded success is final; dead letters are earned; every delivery settles |
| **Work signal** (`Services/WorkSignal`) | one flag per queue and process | signal, wait(upTo:) | both workers and their producers | lost wake-ups, a consumed flag | an idle worker never sleeps past a signalled row |
| Scan intake and lifecycle (`ScanController`, `ScanExecutionGate`, `InterruptedScanSweep`) | table `scans`; permits and waiters; running Tasks | scan, reuse, reap, run, finish, boot sweep | plugins, result stream, outbox | check-then-act, age taken for death, restart | one end state per scan; permits conserved |
| Plugin execution (`ScanPluginRunner`) | round counters, duplicate set, race per plugin | run, pivot, persist | providers, result stream | timeout against late answer | a finding is stored once, none is lost |
| Circuit breaker, plugin health, cache (`PluginHTTP`, `PluginHealth`, `PluginCacheStore`) | failure counts, open-until, probes | admit, record | providers | half-open state and late answers | a broken provider is probed by one request at a time |
| **Result stream** (`ResultStreamStore`, `Migrations/CreateScanResultEvents`, `ScanController.streamResults`) | event rows, the loop's cursor, the connection | persist, replay, tail, boundary, reconnect | plugins, browsers | id order is not commit order; status and events are read apart; cuts and duplicates | a client that reconnects sees every event once |
| **Scan page** (`frontend/app.js`, to its line 1275 and 3101-3124) | the session token, the open EventSource, polling, the data kept for export | load, submit, rescan, stream, fall back, poll | result stream, scans | late answers and timers of a scan that has lost the page | one connection; the form is always enabled again |
| **Scan report** (`frontend/app.js`, 37-131, 237-998, 1278-1352, 1681-2407, 3624-3698) | the scan on screen, filters and order, open tab, graph and its mode, surface, map, identity and timeline, history | show a scan, filter, sort, switch tabs, click nodes, choose years and categories, load scripts | scan page, scans, boards | answers and scripts that come late; filters that outlast what they were chosen from | what is shown is what was chosen, of the scan that is shown |
| **Account page** (`frontend/app.js`, the rest) | the session, lists, panels, second factor, scan list | 14 changes, loads, panels, logout | most controllers | answers in any order, failures | what is shown is what the account has; nothing survives the sign-out |
| **Dark-web dialog** (`frontend/dark-web.js`) | list, selection, detail, poll timer | open, select, submit, cancel, delete, poll | dark-web routes, boards | late details, polling of a hidden or closed dialog | no late answer replaces the job selected; polling ends and goes on when it should |
| **Investigation boards and watch** (`frontend/investigation.js`, `Controllers/InvestigationController`, `Services/InvestigationWatchRunner`) | graph, undo stacks, dirty flag, timer; rows | edit, undo, save, open, merge, watch, grow | scans, dark-web dialog | delayed saves, failed saves, boards swapped meanwhile, two writers | no edit is taken for saved that is not; undo stays on its board |
| Scheduled scans (`ScheduledScanRunner`) | schedules | tick, run, save | scans, outbox | crash between two saves | no run is repeated for ever |
| Dark-web investigations (`DarkWebInvestigationRunner`, controller) | investigation rows | start, cancel, execute, recover | the Python worker | no lease; re-read and save | cancel wins; nothing is stuck |
| Audit ledger (`AuditIntegrityLedger`) | hash chain and its head | append, retention, verify | every handler | concurrent appends, retention of a prefix | the chain always verifies |
| Key rotation (`SensitiveFieldRewrapper`) | cursor, key versions | rewrite batch, resume | every encrypted row | crash between batches, writes behind the cursor | no row stays under a retired key |
| Accounts, 2FA, target ownership | users, codes, challenges | login, consume code, verify | throttles | check-then-act | a code is used once |
| Rate limits, throttles | in-memory tables | record, evict | login, scans | limits of the table | eviction frees nobody early |
| Middleware, API keys, shares, plugins, outbound safety, analysis, read-only APIs, administration page, site build, vendored libraries, operations | none shared, or pure | | | | |

`PROJECT.json` lists all of them with the reason for what is left out, and the
hazards of each at the line where they bite.

## 2. Modules

| Module | Models |
|---|---|
| `ExportJobs` | the export queue: table, handlers, and one worker per process |
| `DurableJob` | what the queue promises: one job, told apart by its owner's view only |
| `NotificationDelivery` | the outbox: events, deliveries, and one worker per process |
| `OutboxPromise` | what the outbox promises: at-least-once delivery, told apart by what is recorded |
| `WorkerWakeup` | flag, wait and poll of both worker loops |
| `ScanLifecycle` | a scan from its request to its last status: handler, admission gate, runner, boot sweep |
| `ResultStream` | the results of a scan on their way from the writers to an EventSource |
| `ResultDelivery` | what the stream promises the page: scans with results, sessions that show them |
| `ScanPage` | the scan page, on top of `ResultStream` |
| `BoardGraph` | what page and server do to the graph of a board; the connection finder |
| `InvestigationBoard` | the board's page, its rows and the watch runner, on top of `BoardGraph` |
| `DarkWebDialog` | the dark-web dialog, with what its routes do to the jobs |
| `AccountPanels` | the rest of a signed-in user's page |
| `ReportView` | the report of a scan on the page: results, graph, surface, map, identity, history |
| `Console` | the composition of the last three, which share session, header, keyboard and clicks |
| `MCExportJobs`, `MCNotificationDelivery`, `MCWorkerWakeup`, `MCScanLifecycle`, `MCScanPage`, `MCInvestigationBoard`, `MCConsole` | instances for TLC |
| `ExportJobsProofs`, `ExportPromiseProofs`, `NotificationProofs`, `ScanProofs`, `WakeupProofs`, `ScanPageProofs`, `BoardProofs`, `ConsoleProofs` | theorems and proofs |

### ExportJobs

`job[j]` is the row: owner account, status, `cancel_requested`, `attempt_count`,
lease owner and lease (none, live, run out), the artifact (told apart by the
attempt that built it), and whether retention (`stale`) or the 24-hour quota
window (`recent`) has passed. `proc`, `loop`, `active` and `tasks` are a process:
its life, where its tick stands, `activeTask`/`activeJobID`, and the Tasks alive.
`txn` are create transactions that have counted and not yet inserted. A worker id
is one incarnation of a process, as in the code, so a restart is another member
of `Workers`.

One action is one SQL statement, or what an actor does between two awaits.
`create` is two actions (count under the lock of the users row, insert and
commit), `tick` is the purge, the busy test, two sweeps and the claim, `execute`
is heartbeats, the build's end and one of three compare-and-sets. The Task body
runs on after `finishSuccess` returned false (to `finishCancelled`) or threw, the
update committed or not (to `finishFailure`).

`Dialect` matters in one place. The sweeps are `UPDATE ... WHERE id IN (SELECT
...)`. PostgreSQL at READ COMMITTED evaluates the subquery on the statement's
snapshot and rechecks only the id of a row that changed meanwhile, so selection
(`picked`) and update are two steps. SQLite has one writer and they are one. The
claim is `FOR UPDATE SKIP LOCKED`, which does recheck: one step in both. The
`LIMIT 100` of the sweeps is beyond the instances and left out.

### DurableJob

`none -> queued -> running -> completed | failed | cancelled -> removed`, with
the set of refused jobs (cancel accepted), which never complete. Attempts, leases,
workers and crashes do not exist here. `Sweep` may settle a job that has settled
already only where `Resettles` holds; `ExportJobs` instantiates it with
`Dialect = "postgres"`. `Abandon` (cancelled without a request) is there because
a graceful stop does that.

### NotificationDelivery

`event[e]` and `job[<<e, channel>>]` are the two tables, `step`, `left` and
`hand` a worker inside its tick (at most `Batch` deliveries, 10 in the code), and
`answers[j]` remembers what deliveries of a row have come to since it was enqueued or
replayed, transient failures aside (a lost answer is one of those). It is history: no
guard looks at it.
A producer that retries with the same idempotency key is the same member of
`Events`. Delivering is its own step, with the outcome chosen freely: accepted,
skipped, transient (a lost answer included) or permanent.

### OutboxPromise

`none -> owed -> succeeded | skipped | dead_letter -> removed`, and from `dead_letter`
back to `owed` by a replay. A delivery is tried at most `Limit` times since then; it is
recorded as accepted or skipped only after a try has come to that, and as dead only when
its tries are used up or one was refused for good. Rows, leases, workers, back-off and
crashes do not exist here; that a delivery whose answer was lost is tried again is
`Try` without an `Answer`, and a stale worker's verdict is an `Answer` that settles
nothing. `Expire` may hit a delivery that is settled, or replayed, only where `Redooms`
holds; `NotificationDelivery` instantiates it with `Dialect = "postgres"` (finding 1).
A removed row may be removed again, and an answer may come for it: its worker does not
know.

### WorkerWakeup

A row is only `pending`, `taken`, `later` or `due` here; leases and verdicts are
in the other two modules. `kind` is chosen in `Init`: an export worker starts a
background Task and its tick returns; a notification worker delivers inside the
tick. `wait` is two steps (flag seen and lowered; deadline), because a signal may
arrive anywhere between a tick and the next.

### ScanLifecycle

`scan[s]` is the row, `request[s]` the handler that would create it (the pending
scan it has read and will reap is part of its state), `run[s]` its background
Task, `active` and `waiters` the gate, `older`, `stuck` and `sweep` the boot sweep.
`born` orders rows as `created_at` does and `aged` says that 180 seconds have
passed. Each query, save and actor call is an action; the rounds of plugins
between admission and verdict are one (`running`). `Finish` chooses the verdict, or
that the database or the save fails; then the scan stays pending, `lost` until the
next restart. Scans live in the memory of one process, which the deployment
restarts when it dies, so there is one process here: `Crash` empties gate, Tasks
and handlers, `Boot` starts the sweep, and requests come in while it runs.

### ResultStream and ScanPage

`row[r]` and `seq[r]` are a result and the number of its event. `Insert` is where the
trigger's lock on the scan's row is taken and the next number drawn; `Commit` and
`Rollback` end the transaction, so another step may come between a number and its
becoming visible. `ReadScan` and `Replay` are the two queries of the server's loop,
with everything in between; a page of `ReplayLimit` events is followed by another.
`wire[s]` is the connection: it may be cut with frames on it, repeat one, or meet the
90-second boundary, each counted in `faults`. `due[x]` remembers what was committed
when the scan was over, which is what a stream that ends with `done` owes: what a
runner writes after the reaper has failed its scan is owed to nobody.

`Replay` takes the next events by their place in the order of their numbers, which is
the query's `ORDER BY ... LIMIT` without a sort.

`ScanPage` adds the page. A session `s` is at once the token (`activeScanToken`), the
EventSource and the polling loop started under it, `None` a token that belongs to no
stream. The stream that answers click `c` is session `c`, and the polling that takes over
from it is a session of its own, `PollsFor(c)`: the code makes a new token in both
places. Each handler (`onopen`, `onResult`, `onDone`, `onerror`, `fallbackFires`, the two
halves of `doPoll`) is an action that asks for the token first, as the code does. A
click sends a request and the answer is a later step, so answers of several clicks
come in any order; they need not find the page as they left it, and `loadAnswered`
does not ask.

`ResultDelivery` is the promise, with no transaction, frame, cursor or connection: a
session follows one scan and shows its results by their numbers, 1, 2, 3 and so on, none
before it is published, and is complete when it shows all that the scan had when it was
over. `ScanPage` implements it with `published` and `owed` the sizes of the committed and the
due results, `shown` the ids the page has handled and `complete` the sessions that have
handled `done` (`DeliversResults`). Only a commit publishes, only a dispatched event that the
page has not seen shows anything; every other step of server, connection and page is a
stutter, save the answer that starts a session or hands it over to polling (`Follow`).

### BoardGraph and InvestigationBoard

A graph is nodes, edges, nodes marked new and nodes with a status or note.
`shortestPath` is the breadth-first search of `frontend/investigation.js`: `Round` is what
one level of the queue adds to `prev`, `Back` one step of the way back along it, and two
recursive functions repeat them. As many rounds as there are nodes empty the queue, which
is proved (section 6). `IsPath` is the definition the answer is compared with.

`graph`, `undoStack`, `redoStack`, `dirty`, `saveTimer` are the page's variables;
`session` numbers the board objects, which tells a node or snapshot of one board from
those of the next. `rows` is the table. A save is three steps (sent, taken by the
server, answered), every other request is executed and answered in one, because only a
save's answer says something about what the page did meanwhile. The page puts no
order on saves, and neither does the model.

`disturbed` marks what the code leaves open: two saves that are on their way together,
a board replaced or emptied while its save is on its way (the answer is taken for what is
open by then),
the watch runner storing a grown graph over the open board's row, a file that breaks
off, and a save refused after an older answer had cleared the flag. The page has no
version numbers, and in these cases row and page may differ without either
knowing. `QuietMeansSaved` says that there are no other ones.

### DarkWebDialog and AccountPanels

`job` is the table, `jobs`, `selectedID`, `detail`, `pollTimer` the page's state, and
`rendered` what the panel shows, which is not always `detail`. Requests are sent,
executed and answered in three steps. `last` stands for the comparison with
`state.detailRequest`; `poll`, `first` and `submitted` for what awaits the answer.

A list of the account is its version: `server[L]` grows with each change, `shown[L]`
is the version that was read. The fourteen changes differ in where they are offered,
and in whether they read their list again after a refusal (`Reloads`). `missed` marks
lists of which the page cannot know that they are old: a load that failed, a change
whose answer was lost, a load overtaken by a newer one, a notification that has
arrived since, the tags in rows already drawn.

A job may be drawn with none selected: a click asks for its detail, it is deleted, the
answer of the delete empties the selection and does not count the detail as answered
(`frontend/dark-web.js`, 211-218 and 450-453), and the detail that comes late is drawn
(382). `ShownIsSelected` therefore promises two things once every answer is in: the buttons
of a job on screen act on that copy, and it is the one marked in the list *if one is
marked*. With none marked it says nothing of which job is drawn.

A list that could not be read is emptied (`frontend/dark-web.js`, 220-223), and what polling
needs is a listed job that runs: one failed request for the list ends the polling until the
dialog is used again. `PollsWhenNeeded` is about the jobs that are listed, and holds in
that sense only.

`SettledListsAreCurrent` says that each change that was answered is read back. It does not
say that the newest answer wins: the page does not order the answers of two loads, a load
overtaken by a newer one is in `missed`, and a list may stay old after such a race.

### ReportView

`Found[s]` is what the server knows of scan `s`: its results with what they say of hosts
and domains, identity, links, places, events and changes. The page draws it, and what it
has drawn is recorded with the scan it was drawn from: the cards (`grid`), `graph`,
`surface` with the fixes of its hosts, `map`, `timeline`, `banner`. Most answers count
whenever they come, for whichever scan is on the page by then, and the model keeps that;
only the fixes look at their box (`box`, `isConnected` in the code).

Results, sorts and filters are computed (`sortResults` is the place each result gets in a
stable sort), as are the two graphs, the roll-up of hosts and of a domain's posture (each
result overwrites the fields it has, 1952-2002), the columns of the timeline and the
headline of the changes. Drawing, wording and numbers that nothing depends on are left out.

d3, the boards' script and leaflet are loaded when they are first needed. `waiting` is the
draw that waits for d3: the last one asked for counts, since each redraws the
same element when the script comes. `opening` are clicks that wait for the boards.

A scan that is followed (`live`) brings its results one by one and ends in one of three
ways: with a request for all of it (the stream), with a report (polling), or not at all.
How it comes to that is `ScanPage`; this is its outline.

`drawn` is history: `displayResults` was the last to set `lastScanData`. What the
stream has shown is not drawn again when the whole scan is fetched (1119-1127), so the cards
stay, and so do a graph or a surface of the scan before it until a tab is clicked;
`TabsAreCurrent` is about reports that have been drawn.

### Console

`Console` lets all three run. Dialog and account page share the Escape key, and the dialog
closes when the header of a signed-in user disappears. A click anywhere closes the
dropdowns of the report. While the dialog is open, which covers the page, only keys and
answers reach the rest.

## 3. Runs

| Run | Instance | Distinct states | Shows |
|---|---|---|---|
| `export_lease` | 1 job, 2 processes, 2 attempts, PostgreSQL, fairness | 9 x 10^4 | table checks, cancellation, fencing, retries, refinement, every job settles |
| `export_promise` | 2 jobs of one account, 2 processes, 1 attempt, limit 1, SQLite | 5 x 10^5 | the outstanding limit under concurrent creates; the refinement without its exception |
| `export_finality` | 1 job, 2 processes, 1 attempt, PostgreSQL | | **violated**: see Findings |
| `notification` | 1 delivery, 2 processes, 2 attempts, batch 2, SQLite, fairness | 2 x 10^5 | fencing without heartbeat, dead letters, final success, refinement of `OutboxPromise`, every delivery settles |
| `wakeup` | 2 processes, 2 rows, batch 2, failures, both kinds, fair poll | | no missed signal; every ready row is taken |
| `wakeup_prompt` | 1 process, 2 rows, no failures, no fairness for the poll | | **violated**: see Findings |
| `scan` | 3 scans of one input, 1 permit, 1 waiting place, 1 crash, fairness | 3 x 10^5 | permits, verdicts, boot sweep, every scan ends |
| `scan_orphan` | the same, no fairness, symmetry | | **violated**: see Findings |
| `scan_page` | 2 scans, 2 results, pages of 2, 2 clicks, 4 sessions, 2 polls, 1 fault, fairness | 4 x 10^5 | completeness of the stream, refinement of `ResultDelivery`, one connection, the form's state, and that it is enabled again |
| `scan_page_data` | the same, no faults, no fairness | | **violated**: see Findings |
| `board` | 3 entities, 3 boards, 3 clicks, 1 check, 1 snapshot, 2 nodes a board | 4 x 10^5 | saves, undo, the connection finder |
| `console` | 2 jobs, 2 reports, 2 clicks in the dialog, or 2 on the page, or 2 in the report, or one in the dialog and one on the page | 9 x 10^5 | selection, polling, sign-out, lists, timeline, tabs |

Three scans are the least that fill a permit and a waiting place and have one
refused; all of one input, so that every request meets the others' scans.
`scan` needs no deadlock check: the system stops when all ids are used up.

Why the bounds are enough. Every race in the queues is between two processes over
one row, or two requests of one account; two attempts give a retry and a last
attempt, which is where sweep and claim differ. Two jobs are needed for the quota
only. `Survivor` keeps at least one process alive: without it nothing can be
promised. A batch of two shows a tick that goes on and a tick that is full. Ids
are used once; replays of a dead letter are not bounded. Deadlock is checked in
the runs of the other modules.

In `scan_page` scan A has two results and is running, scan B is over. Two results are
what it takes for ids and commits to cross; a replay page of two makes a full page
and the empty one after it; two clicks are two actors on one page, and each of them
may open a stream that falls back (`StreamsAssumption`). One fault is enough for the
races: all of them are between one failure and a session, and the second
connection comes with the reconnection. Two polls are one that is not the last and the
last.

In `board` a check of board 2 grows it, one of board 1 would make it too large, and
board 3 has no row yet. Three clicks are an edit, what interferes with it, and what
follows; timers, answers, the server and the runner are not counted. Undo of depth one
drops its oldest snapshot at the second edit. `PathIsShortest` is evaluated in every
state, on every graph the edits can make of three nodes and with either type hidden.

In `console` two jobs are the least that a late detail can confuse. `Budgets` splits the
clicks: all interactions inside the dialog, all inside the page, all in the report, and one
in the dialog and one on the page, which is where sign-out, Escape and dialog meet. The page
may be opened in the middle of its life (a panel open, lists shown, a session that has ended
unnoticed, a report just drawn), so that two clicks reach what would otherwise take four.
Of the second factor's two settings the enabled one starts with its panel open.
The two reports differ in everything a handler asks of them: one has several results with
equal and different confidence, hosts and a domain named twice, links, places, events of two
categories with years that are shown, too old and missing, a change, and both notes; the
other has one result and nothing else. Five events of six are loaded and one is
recent (12 and 100 in the code), and the history keeps one scan of two (20), so that each
limit is met. Two clicks in a report that has been drawn are a late identity between two
tabs, a year and then a category, or another scan and something about the first.
The run stops when its clicks are used up, so it has no deadlock check.

Every property has a mutant in `PROJECT.json`: a definition changed the way a plausible
bug would change the code (a claim that forgets the attempt limit, a compare-and-set
that forgets `cancel_requested`, a count without the lock, a sweep that forgets the last
attempt, a wait that lowers the flag first, a sequence number drawn without the lock, a
stream left open, a history that outlives its board, a save's answer that is not looked
at, a late detail that still counts, a year that outlives its category, a graph that is
not drawn again with the identity), under which TLC finds the property violated.

## 4. Fairness

Weak fairness for what runs on by itself: a process boots, ticks, its Tasks go on,
a wait ends, a lease or a back-off runs out. Strong fairness for statements that
every tick repeats and that may fail (sweep, claim): a database that refuses each
of them for ever promises nothing. The claim is fair per row in
`NotificationDelivery` and `WorkerWakeup` because it takes the oldest row first
and attempts are bounded, so no row can be passed over for ever. Nothing is assumed of requests,
crashes, stops, heartbeats or the purge. `PollTimeout` is fair in `PolledSpec`
only, which is how the two wake-up runs tell the poll from the flag.

`ScanLifecycle` assumes that a Task goes on, that the container is restarted and
that the sweep goes on. Nothing is assumed of requests, of the passing of time, of
crashes or of deletions.

`ScanPage` assumes that requests are answered or fail, that timers fire, that the
browser delivers what has arrived and opens or fails a connection it has begun, that
the server's loop goes on, and that a scan is over in the end: its runner ends it, or the
reaper does. Weak fairness is enough for each, as none of them is disabled for ever by
another. Nothing is assumed of clicks and faults. `InvestigationBoard` and `Console`
have safety properties only, and no fairness.

## 5. Findings

1. *A completed export can become failed* (`export_finality`). A worker is on its
   last attempt and its lease has run out. A peer's sweep selects the row; the
   worker publishes and commits; the sweep's update, rechecking the id only,
   writes `failed` and drops the artifact. `docs/ASYNC_EXPORTS.md:31-40` has no
   such transition. `ImplementsPromise` says what remains true on PostgreSQL: a
   settled job may be settled again, never completed after a cancel. The same
   statement shape is in `NotificationDeliveryWorker.expireExhaustedLeases` and
   `purgeTerminalEvents`; two properties of that module, `DeadLetterIsEarned` and
   `SucceededIsFinal`, are therefore stated for the serial dialect. Nothing is promised of
   the purge: its `DELETE` may also remove an event to which a channel has been added since
   its rows were selected (`NotificationDeliveryWorker.swift:359`), and on SQLite, where
   selection and removal are one statement, that it does not is its `WHERE` clause.
2. *An enqueued job may have to wait for the poll* (`wakeup_prompt`). The flag is
   lowered before the tick, the tick of a busy export worker does nothing, and the
   end of the export raises no flag. `docs/ASYNC_EXPORTS.md:68-71` calls the poll a
   safety net that only finds work that becomes due some other way. The
   notification worker has the same gap after a full batch of ten.
3. *A running scan can be reaped* (`scan_orphan`). `ScanController:274` takes a
   pending scan older than 180 seconds for one whose runner is gone, since "the
   runner deadline is ~120s". That is the deadline of the first round only; pivot
   rounds, the picture comparison and the wait at the gate come on top. The scan is
   marked failed, a second one starts, and the first becomes completed later. As the
   request saves what it read, it can also turn a scan that has just been completed
   into a failed one: the exceptions in `VerdictStands` are exactly these.

4. *The data kept for export may be another scan's* (`scan_page_data`).
   `frontend/app.js:20` calls `lastScanData` the most recently displayed scan data. The
   answer of a load (`loadScanByID`, 1207-1219) takes the page without a look at the
   token. If a report is displayed while a scan that still runs is being loaded (or if
   an older load is answered in between), the running scan is put on screen by
   `startStreaming`, which leaves `lastScanData` alone: export, share link, report and
   board seeding take the other scan until the stream is done and its results fetched.

Behaviour that is modelled and that no property calls right or wrong, since no doc or
comment promises anything: the answer of a POST gives its row to whichever board is open
by then (`frontend/investigation.js:459`), the runner and the page overwrite each
other's board, a late answer of the scan list brings its number of pages to another list
(`frontend/app.js:2795`), a lost answer of the second factor's activation loses the
recovery codes (2503), a late answer of the notification settings brings the user object
back after the sign-out (2651).

In the report: a late identity takes the place of the identity of the scan on screen, and the
graph of that scan is then drawn with its links (552-561), as a late banner of changes or a
late map takes the place of another scan's. When a scan has only been streamed, the graph
and the surface of the one before stay until a tab is clicked. The note of skipped
checks of an earlier report stays while another scan is streamed. The panel beside the graph
outlives its graph, and a source in it counts its findings in the report there is at the click
(2382-2403). The type filter offers the types of the last report while there is none. A
leaflet that does not come leaves the map at "loading" until the tab is opened again.

## 6. Proofs

Every safety property that a passing run checks is proved for every value of the
constants, and so are the three refinements. The proofs use only the named assumptions
on the constants, which TLC evaluates on every run: limits are positive, `None` is none
of the ids, `Dialect` is one of two, `Jobs` is finite (for the count), each result
belongs to a scan, the boards stored at first are graphs and there is one to open, the
entities a board can show are finitely many, the jobs of the dialog are numbered as they
are created, a list of scans has at least one page, a first report exists and reports
have finitely many results.

*Export queue.* `Inductive` proves `IInv`, from which `TypeCorrect`,
`RowsRespectChecks`, `CancellationHolds`, `OwnerIsAFence`, `QuotaHolds` and
`RetriesAreSpared` follow. The properties alone are not inductive:

- `OwnerFencesAttempt` needs `OneTask`: a process that is up has at most the Task
  its active slot names, and its tick reaches the claim only while the slot is
  free. Without it a second claim by the same process would give an old Task the
  ownership of a new attempt.
- `CancelledNeverPublishes` needs `CancelHeld`: a row whose cancel was accepted
  keeps `cancel_requested` and never becomes pending again.
- `OutstandingBound` needs `CountHolds`: at most one create transaction per
  account is past the count, and the count still holds when it inserts.
- `SweepSparesRetries` needs `PickedSpent`: attempts never go down, so what a
  snapshot has selected is still spent when it is updated.
- `PickedStarted` makes the refinement's PostgreSQL exception precise.

`QueueKeepsPromise` proves `Spec => Promise!Spec` for both dialects: each action
is mapped to an abstract step or to none, one lemma per group of actions.

*Outbox.* `OutboxInductive` proves `IInv` = types, `HandInTick` (a job in hand
means a tick with deliveries left), `OwnerFencesAttempt`, `AnswersKnown` and
`DeadLetterIsEarned`. `LeaseIsAFence` holds on both dialects although the lease owner
names a process only and nothing renews the lease: a worker delivers one job at a time
and an attempt's verdict is recorded only under the same claim. `AnswersKnown` is what a
verdict needs: whoever still owns the row it delivers is about to record an answer that
was given since the last replay, because a replay takes the row from its owner, and a
claim by the same process begins a new delivery. `SuccessIsFinal` is an
action property of the serial dialect.

`OutboxKeepsPromise` proves `Spec => Promise!Spec` for both dialects. Claims, with the
read back lost or not, are `Try`; a delivery is `Answer`, or a stutter when it was
transient; an update of `finish` that matches is `Settle`, or a stutter when the row goes
back to pending (`AnswerSteps`); one that does not match, the clocks and the rest of the
processes' life are stutters. A verdict of `dead_letter` for a transient failure comes
with the last attempt, as `OwnerFencesAttempt` says that the attempt in hand is the
row's. On PostgreSQL the sweep works on what an earlier snapshot selected, so all that is
known of its rows is that they exist: this is what `Redooms` admits.

*Scans.* `ScanInductive` proves `IInv`, with any number of scans, permits, waiting
places and restarts. `PermitsHold` rests on `Fresh` (no insert restarts a Task) and
on counting: a release with a waiter replaces one holder by another.
`SweepIsSafe` and `VerdictsStand` rest on `LeftBehind`: what was created before the
boot has no Task, and what the sweep has on its list can at most be reaped
meanwhile, never completed; and on `Unreported`: only a Task's own report completes
its scan.

*Wake-up.* `NoMissedSignal` is inductive together with the types: a signal raises the flag
of the process in which the row was committed, whoever lowers the flag goes on to a tick,
and only a tick that has seen no ready row leads back to the wait with the flag down.

*Scan page.* `StreamComplete` says nothing of what is on the way, so `StreamInv` follows the
results from the writers to the page:

- `Numbered`: the committed ids of a scan are 1..n and the one open transaction holds the
  next. This is what the trigger's lock gives; without it (the mutant) an id may become
  visible after a greater one.
- `Following` and `InOrder`: the server's cursor is never past the last frame it has put on
  the wire, and the frames leave no gap after what the page has, duplicates included.
- `Gapless`: the page has the results 1..n of its scan.
- `DoneIsLast` and `FinishedHasAll`: before the frame `done` come all the results that were
  committed when the scan was over. The server reads the scan's status before the page of
  events, so an empty page after it means that there are no more.

`PageFollows` is the lemma about the query: on ids 1..n a page goes on from the cursor one
by one, and is full or has caught up. For the page, `OneStream` and `ScanningHasOwner` rest
on `Fresh` (a click's session is untouched until its answer comes, and so is the one that
will poll for it) and `StreamsOfClicks` (only the sessions of clicks have a stream and a
fallback timer).

`ResultsAreDelivered` proves `Spec => DeliversResults`. Besides `IInv` it needs two invariants:
`Sent`, that a frame on the wire carries a number that has been committed (so what the page
shows has been published, even if its connection has been cut meanwhile), and `OwedFirst`,
that the results that are due are the first ones (so their number says which they are). A
deleted scan is the exception in both specifications: its frames may still arrive.

*Board.* `UndoIsOfThisBoard` needs that undo and redo share one depth, as each moves a
snapshot to the other stack. `QuietMeansSaved` rests on `Tracked`: as long as no two writers
have met, at most one save is on its way, it holds the graph that is shown unless the timer
for another is set (`Brings`), a stored POST has made a row that nobody else knows yet
(`Apart`), and a clean board with nothing on its way is what its row holds. That a save's
answer is for the row it was sent to needs `RowsAreKnown`: nobody names a row before the
server has made it.

`PathsAreShortest` is about the breadth-first search, whose rounds are a recursive function
on the natural numbers. `Induction` is induction in first-order form: a set of numbers
with 0 and with the successor of each member is all of them, by the well-foundedness of `<`.
`Iterated` gives from it that a function defined by its first value and a step exists and
obeys its equations, which TLA+ does not grant for nothing. `Levels` says what rounds do: each
node that is new has been reached from one that was new in the round before. So a walk of n
edges leads to what round n has (`WalkIsReached`), and from a node that is new in round n
the way back takes exactly n steps (`Trail`, `BackGoesOn`), which makes the answer as long
as the number of the first round that has the goal, and no walk is shorter.
`ConnectionsAreFound` is what a bound on the length would hide: until a round adds nothing
each adds a node, so that one of as many rounds as there are nodes is the last of any use
(`SearchIsClosed`, by cardinality, which is where finitely many entities are needed). So
a walk of any length leads to a node that has been reached (`WalkStays`), and the
empty answer means that there is none.

*Dialog, account page and report.* `ConsoleInductive` proves `IInv` for the composition.
`Queue` says of the requests on their way that an executed one carries the answer its
handler expects, and that at most one for a detail still counts. `Selection` weakens
`ShownIsSelected` to all the moments in between: unless the list is on its way, the
panel shows the selected job or waits for it. `Polled` keeps a timer or a request that
will end in `schedulePoll`, and `Timer` ties the timer to an open dialog and the dialog
to a session, which is what `QuietAfterLogout` asks for. For the lists, `Followed` is
what lies behind `SettledListsAreCurrent`: of each list that is not in `missed`, either
something on its way brings the newest version (`Brought`: a load, or a change after
which the list is loaded again), or it is shown already and every load still on its way
is older (`Newest`). The list picks the job with the least or greatest number; that
there is one is proved by the well-founded order of the subsets of `Jobs`, not by
recursion.

The report adds `ReportInv`: its types, the two properties, and what they need in between.
`TimelineIsListed` is inductive by itself, as each handler ends in `renderTimelineRows`,
which drops a year without events. `ReportIsCurrent` needs three more facts. `Current`: while
a draw of the open graph waits for d3, it is of the report on screen, so that what is drawn
when the script comes is what would be drawn now. `GraphInv`: a draw waits only while d3
is loading, and there is no graph before it, so a graph cannot be left from before a wait.
`AskedInv`: a request for fixes names the box it was made for, boxes are numbered, and the one
with the number of the box on the page is of its scan. A late identity is harmless because the
handler that takes it draws the open graph again, the step the mutant leaves out.

## 7. Model-checked only, or not modelled

Liveness (`EverySubmissionSettles`, `EveryDeliverySettles`, `PickedUp`, `EveryScanEnds`,
`ScanSettles`) is out of the prover's reach, which has no fairness or `ENABLED`, and checked by TLC.
Everything else that the passing runs check is also proved. What is proved of PostgreSQL's
dialect of the outbox says less than of the serial one, as the code does (finding 1).

Not modelled inside the modules: contents of artifacts, messages and findings,
encryption, metrics and audit lines written on the way, the order in which the claim
prefers rows (any claimable row may be taken, which `SKIP LOCKED` allows), exact
durations (a lease may run out at any time). Of the pages: drawing and wording,
correlations and exports of a report, search, hubs, labels, zoom and exports of a board,
theme and menus. They read the state that is modelled and change none of it. Forms that
keep nothing on the page (webhook, channel test, retention) are one request and a
message.

Not modelled at all, by component:

- *Plugin execution, circuit breaker, health, cache*: rounds of independent calls to
  providers; `ScanLifecycle` sees them as one step with any verdict and `ResultStream` as
  inserts that may roll back. Their own races are listed as hazards without a property.
- *Scheduled scans, the server's side of dark-web investigations*: work without leases in a
  single process; of the latter the dialog's view is in `DarkWebDialog`.
- *Audit ledger, key rotation, one-time codes, target ownership, throttles*: small state of
  their own, guarded by the database's transactions or by one actor; candidates for
  modules of their own.
- *Middleware, API keys, shared reports, read-only APIs, analysis, administration page*:
  nothing is kept between two requests, or nothing is changed.
- *Plugins, bounded processes, outbound network safety*: I/O against the outside.
- *`frontend/build-pages.mjs`, `guides-ro.mjs`, `check.mjs`*: generators, texts and checks run
  once at build time; *`qrcode.js`, maps and graphs*: vendored libraries.

## 8. Plan

The runs above cover the parts in which several actors share state. What is worth doing
next, in this order:

1. `ScanRound`: the plugin/timeout race, the duplicate set and persistence.
2. `AuditLedger`: append, retention and verification; theorem: the chain verifies.
3. A composition of `ScanLifecycle` with the outbox's enqueue.
