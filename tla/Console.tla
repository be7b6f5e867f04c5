------------------------------- MODULE Console -------------------------------
(***************************************************************************)
(* The page of frontend/app.js: the report of a scan, the account's panels *)
(* of a user who is signed in, and the dark-web dialog over them.  Panels  *)
(* and dialog share the session, the header and the Escape key.            *)
(***************************************************************************)
EXTENDS Integers, Sequences, FiniteSets

CONSTANTS
    Jobs, None, Pages,
    Found, Recent, Loaded, MaxHistory,
    Budgets     \* bounds: clicks in the dialog, in the report and on the rest of the page

ASSUME JobsAssumption == IsFiniteSet(Jobs) /\ Jobs = 1..Cardinality(Jobs)
ASSUME PagesAssumption == Pages \in [{"/api/my-scans", "/api/admin/scans"} -> Nat \ {0}]
ASSUME FoundAssumption == 1 \in DOMAIN Found /\ None \notin DOMAIN Found
ASSUME ResultsAssumption == \A s \in DOMAIN Found : Len(Found[s].results) \in Nat

VARIABLES
    page, signedIn, clicks,
    job, open, busy, visible, configured, jobs, selectedID, detail, rendered, pollTimer, requests,
    user, bell, panels, server, shown, missed, pending, enabled2FA, twoFactorEnabled, block,
    scans, diffSelectA,
    lastScanData, drawn, resultsPanel, live, profile, timeline, banner, notes, history, filter, options,
    grid, menus, tab, graphMode, graph, waiting, nodeDetail, scripts, surface, opening, seeded, map,
    leafletLoaded, asked

Dialog == INSTANCE DarkWebDialog
Account == INSTANCE AccountPanels
Report == INSTANCE ReportView

detailVars == <<selectedID, detail, rendered>>
accountVars == <<user, bell, panels, server, shown, missed, pending, enabled2FA, twoFactorEnabled,
                 block, scans, diffSelectA>>
dialogVars == <<job, open, busy, visible, configured, jobs, detailVars, pollTimer, requests>>
reportVars == <<lastScanData, drawn, resultsPanel, live, profile, timeline, banner, notes, history, filter,
                options, grid, tab, graphMode, graph, waiting, nodeDetail, scripts, surface, opening, seeded, map,
                leafletLoaded, asked>>
vars == <<page, signedIn, clicks, dialogVars, accountVars, reportVars, menus>>

TypeOK == Dialog!DialogTypeOK /\ Account!AccountTypeOK /\ Report!ReportTypeOK

\* A session may have ended that the page does not know of.  Bound: one of the three
\* parts starts in all the ways it can, the second factor being that of the settings.
Init ==
    /\ page \in {"loading", "in"}
    /\ signedIn \in {TRUE, page = "in"}
    /\ clicks \in Budgets
    /\ Account!AccountInit
    /\ Dialog!DialogInit
    /\ Report!ReportInit
    /\ clicks.dialog + clicks.report > 0 => page = "in" /\ signedIn /\ panels = {} /\ ~enabled2FA
    /\ clicks.dialog = 0 => ~open
    /\ enabled2FA /\ page = "in" => panels = {"settings"}
    /\ clicks.report = 0 => lastScanData = None
    /\ clicks.report > 0 => \A j \in Jobs : job[j] # "active"

\* A click anywhere closes the dropdowns of the report.
CloseMenus == menus' \in {menus, {}}

\* The dialog covers the rest of the page, but not the keys.  When the header of a
\* user who is signed in is hidden, the dialog closes.
AccountSteps ==
    /\ Account!AccountNext
    /\ open => clicks' = clicks \/ Account!keyboardHelp
                \/ Account!NotificationArrives \/ Account!loadNotifications
    /\ IF page' = "out" THEN Dialog!closeDialog ELSE UNCHANGED <<open, pollTimer>>
    /\ UNCHANGED <<job, busy, visible, configured, jobs, detailVars, requests, reportVars>>
    /\ CloseMenus

DialogSteps == Dialog!DialogNext /\ UNCHANGED <<accountVars, reportVars>> /\ CloseMenus

ReportSteps ==
    /\ Report!ReportNext
    /\ open => clicks' = clicks
    /\ UNCHANGED <<page, signedIn, dialogVars, accountVars>>

\* Each of the two scripts handles the key.
Escape ==
    /\ Account!Click /\ Account!EscapePanels /\ Dialog!closeDialog
    /\ UNCHANGED <<page, signedIn, user, bell, server, shown, missed, pending, enabled2FA,
                   twoFactorEnabled, block, scans, diffSelectA,
                   job, busy, visible, configured, jobs, detailVars, requests, reportVars, menus>>

Next == AccountSteps \/ DialogSteps \/ ReportSteps \/ Escape

Spec == Init /\ [][Next]_vars

-------------------------------------------------------------------------------
(* Properties *)

\* Once every answer is in, the buttons of a job on screen act on that copy of it, and it
\* is the job marked in the list, if one is: then no late answer of selectJob has put
\* another in its place.  With none marked, a detail asked for before the delete may yet
\* draw the deleted job.
ShownIsSelected == Dialog!ShownIsSelected

\* After the sign-out nothing of the session is asked for any more: the dialog, the
\* panels of the account and both timers are gone, whatever answers come late.
QuietAfterLogout ==
    page = "out" => ~open /\ ~pollTimer /\ ~bell /\ panels \cap {"myScans", "settings"} = {}

\* The timers run when they are needed and only then: a job the list shows as running
\* is polled for while it can be seen, and nothing is polled after the sign-out.
PollsWhenNeeded == Dialog!PolledWhileActive /\ QuietAfterLogout

\* A list on screen that is not the account's is about to be read, or changed: each change
\* that was answered is read back.
SettledListsAreCurrent == Account!SettledListsAreCurrent

\* What a filter of the timeline says is what is listed, whichever of the filters was
\* used last and whatever identity has come since.
TimelineShowsChoice == Report!TimelineShowsChoice

\* A report that has been drawn follows the filters, the mode of the graph and the
\* identity and fixes that come later; no answer about another scan is drawn into it.
TabsAreCurrent == Report!TabsAreCurrent

===============================================================================
