---------------------------- MODULE AccountPanels ----------------------------
(***************************************************************************)
(* What a signed-in user has on the page of frontend/app.js: the session,  *)
(* the lists of tags, schedules, notifications, verified targets, API keys *)
(* and share links with the changes made to them, the scan list, the       *)
(* comparison of two scans, the second factor and the panels.              *)
(*                                                                         *)
(* A list is its version.  Changes and loads of lists are sent, executed   *)
(* and answered in three steps, in any order; any other request is         *)
(* executed when it is answered.  Any request may fail.  Messages, forms   *)
(* without a list of their own (webhook, retention, test of the channels), *)
(* menus, theme and map are left out.                                      *)
(***************************************************************************)
EXTENDS Integers, FiniteSets, BagsExt, Bags

CONSTANTS
    None,
    Pages     \* Pages[url]: pages the server has of a scan list

VARIABLES
    page, signedIn, clicks,  \* as in DarkWebDialog
    user,      \* currentUser is set
    bell,      \* window._notifInterval is set
    panels,    \* those that are open
    server,    \* server[L]: version of list L
    shown,     \* shown[L]: version on the page, Unseen if there is none
    missed,    \* lists the page cannot know to be old: see loadAnswered and changeAnswered
    pending,   \* bag of the requests on their way
    enabled2FA,         \* the account has a second factor
    twoFactorEnabled,   \* currentUser.twoFactorEnabled
    block,     \* the part of the second factor's form that is shown
    scans,     \* myScansCurrentURL, -Page and -Pages
    diffSelectA

listVars == <<server, shown, missed>>
twofaVars == <<enabled2FA, twoFactorEnabled, block>>
scanVars == <<scans, diffSelectA>>
avars == <<user, bell, panels, listVars, pending, twofaVars, scanVars>>

Lists == {"tags", "scanTags", "schedules", "notifications", "targets", "apiKeys", "shares"}
Unseen == -1

\* Lists that a failed load leaves as they are; the others show an error.
Kept == {"tags", "scanTags", "notifications"}

Panels == {"settings", "myScans", "bulk", "shares", "diff", "help"}
URLs == {"/api/my-scans", "/api/admin/scans"}
Rows == 1..2

AccountTypeOK ==
    /\ page \in {"loading", "in", "out"}
    /\ {signedIn, user, bell, enabled2FA, twoFactorEnabled} \subseteq BOOLEAN
    /\ panels \subseteq Panels
    /\ server \in [Lists -> Nat] /\ shown \in [Lists -> Nat \cup {Unseen}]
    /\ \A L \in Lists : shown[L] <= server[L]
    /\ missed \subseteq Lists
    /\ block \in {"none", "enable", "setup", "recovery", "disable"}
    /\ scans.url \in URLs /\ scans.page >= 1 /\ scans.pages >= 1
    /\ diffSelectA \in Rows \cup {None}

\* The page has just been asked for, or it is there with a panel open.
AccountInit ==
    /\ enabled2FA \in BOOLEAN
    /\ user = (page = "in") /\ bell = user
    /\ panels \in IF page = "in" THEN {{}, {"settings"}, {"myScans"}, {"myScans", "diff"}, {"shares"}} ELSE {{}}
    /\ server = [L \in Lists |-> 0]
    /\ shown = [L \in Lists |-> IF page = "in" THEN 0 ELSE Unseen]
    /\ missed = {} /\ pending = EmptyBag
    /\ twoFactorEnabled = (user /\ enabled2FA)
    /\ block = IF ~user THEN "none" ELSE IF enabled2FA THEN "disable" ELSE "enable"
    /\ scans = [url |-> "/api/my-scans", page |-> IF "diff" \in panels THEN 2 ELSE 1, pages |-> 2]
    /\ diffSelectA = None

-------------------------------------------------------------------------------
(* Parts of the handlers *)

Click == clicks.account > 0 /\ clicks' = [clicks EXCEPT !.account = @ - 1]

Within(panel) == page = "in" /\ panel \in panels

Request(kind, about) == [kind |-> kind, about |-> about, seen |-> Unseen]
Load(L) == Request("load", L)

\* Two of the lists are only loaded for a user.
Loads(L) == IF L \in {"schedules", "notifications"} /\ ~user' THEN {} ELSE {Load(L)}

Ask(r) == pending' = BagAdd(pending, r)

refreshTwoFactorUI ==
    block' = IF ~user' THEN block ELSE IF twoFactorEnabled' THEN "disable" ELSE "enable"

\* A click that opens or closes panels and does nothing else.
Panel(open) ==
    /\ Click /\ page # "loading"
    /\ panels' = open
    /\ UNCHANGED <<page, signedIn, user, bell, listVars, pending, twofaVars, scanVars>>

-------------------------------------------------------------------------------
(* The session *)

\* The answer of /api/auth/me.
loadAuthState ==
    /\ page = "loading"
    /\ \/ /\ signedIn
          /\ page' = "in" /\ user' = TRUE /\ bell' = TRUE
          /\ twoFactorEnabled' = enabled2FA
          /\ refreshTwoFactorUI
          /\ pending' = pending (+) SetToBag({Load("tags"), Load("notifications")})
       \/ page' = "out" /\ UNCHANGED <<user, bell, pending, twoFactorEnabled, block>>
    /\ UNCHANGED <<signedIn, clicks, panels, listVars, enabled2FA, scanVars>>

logout ==
    /\ Click /\ page = "in"
    /\ Ask(Request("logout", None))
    /\ UNCHANGED <<page, signedIn, user, bell, panels, listVars, twofaVars, scanVars>>

\* Any answer signs the page out, though only one that succeeds ends the session.
logoutAnswered(r) ==
    /\ r.kind = "logout"
    /\ signedIn' \in {signedIn, FALSE}
    /\ \/ /\ page' = "out" /\ user' = FALSE /\ bell' = FALSE
          /\ panels' = panels \ {"myScans", "settings"}
       \/ UNCHANGED <<page, user, bell, panels>>
    /\ UNCHANGED <<listVars, twofaVars, scanVars>>

-------------------------------------------------------------------------------
(* Lists and the changes made to them *)

ListOf == [createTag |-> "tags", deleteTag |-> "tags", toggleScanTag |-> "scanTags",
           toggleSchedule |-> "schedules", deleteSchedule |-> "schedules",
           markAllRead |-> "notifications", handleNotifClick |-> "notifications",
           claimTarget |-> "targets", verifyTarget |-> "targets", removeTarget |-> "targets",
           generateAPIKey |-> "apiKeys", deleteAPIKey |-> "apiKeys",
           createShareLink |-> "shares", revokeShareLink |-> "shares"]

\* A tag that is deleted is on no scan any more.
Touched(change) == IF change = "deleteTag" THEN {"tags", "scanTags"} ELSE {ListOf[change]}

\* Mutant: a target that has been claimed is not loaded.
ReloadsButTargets(change, ok) ==
    (ok /\ change # "claimTarget")
        \/ change \in {"deleteTag", "toggleScanTag", "toggleSchedule", "deleteSchedule",
                       "markAllRead", "handleNotifClick", "removeTarget"}

\* These load the list again even if they are refused.
Reloads(change, ok) ==
    ok \/ change \in {"deleteTag", "toggleScanTag", "toggleSchedule", "deleteSchedule",
                      "markAllRead", "handleNotifClick", "removeTarget"}

Change(change) ==
    /\ Click
    /\ Ask(Request("change", change))
    /\ UNCHANGED <<page, signedIn, user, bell, panels, listVars, twofaVars, scanVars>>

\* A row can only be clicked where the list is shown.
ChangeRow(change) == shown[ListOf[change]] # Unseen /\ Change(change)

createTag == Within("settings") /\ Change("createTag")
deleteTag == Within("settings") /\ ChangeRow("deleteTag")
toggleScanTag == Within("myScans") /\ ChangeRow("toggleScanTag")
toggleSchedule == Within("myScans") /\ ChangeRow("toggleSchedule")
deleteSchedule == Within("myScans") /\ ChangeRow("deleteSchedule")
markAllRead == page = "in" /\ Change("markAllRead")
handleNotifClick == page = "in" /\ ChangeRow("handleNotifClick")
claimTarget == Within("settings") /\ Change("claimTarget")
verifyTarget == Within("settings") /\ ChangeRow("verifyTarget")
removeTarget == Within("settings") /\ ChangeRow("removeTarget")
generateAPIKey == Within("settings") /\ Change("generateAPIKey")
deleteAPIKey == Within("settings") /\ ChangeRow("deleteAPIKey")
createShareLink == "shares" \in panels /\ Change("createShareLink")
revokeShareLink == "shares" \in panels /\ ChangeRow("revokeShareLink")

\* The interval of the bell.  Bound: counts as a click, one load at a time.
loadNotifications ==
    /\ Click /\ bell /\ Load("notifications") \notin DOMAIN pending
    /\ Ask(Load("notifications"))
    /\ UNCHANGED <<page, signedIn, user, bell, panels, listVars, twofaVars, scanVars>>

\* Bound: counts as a click.
NotificationArrives ==
    /\ Click
    /\ server' = [server EXCEPT !["notifications"] = @ + 1]
    /\ missed' = missed \cup {"notifications"}
    /\ UNCHANGED <<page, signedIn, user, bell, panels, shown, pending, twofaVars, scanVars>>

Becomes(r, version) == pending' = BagAdd(BagRemove(pending, r), [r EXCEPT !.seen = version])

\* The rows of the scan list keep a tag that is deleted.
Execute(r) ==
    /\ signedIn /\ r.seen = Unseen
    /\ \/ /\ r.kind = "load"
          /\ Becomes(r, server[r.about])
          /\ UNCHANGED <<server, missed>>
       \/ /\ r.kind = "change"
          /\ server' = [L \in Lists |-> server[L] + IF L \in Touched(r.about) THEN 1 ELSE 0]
          /\ Becomes(r, server'[ListOf[r.about]])
          /\ missed' = missed \cup (Touched(r.about) \ {ListOf[r.about]})
    /\ UNCHANGED <<page, signedIn, clicks, user, bell, panels, shown, twofaVars, scanVars>>

\* A failed load is not repeated, and one overtaken by a newer one wins.
loadAnswered(r) ==
    /\ r.kind = "load"
    /\ \/ /\ r.seen # Unseen
          /\ shown' = [shown EXCEPT ![r.about] = r.seen]
          /\ missed' = IF r.seen = server[r.about] THEN missed \ {r.about}
                       ELSE IF r.seen < shown[r.about] THEN missed \cup {r.about} ELSE missed
       \/ /\ shown' = IF r.about \in Kept THEN shown ELSE [shown EXCEPT ![r.about] = Unseen]
          /\ missed' = missed \cup {r.about}
    /\ UNCHANGED <<server>>

\* Requests that follow the answer of a change.  Without an answer nothing follows,
\* even if the change has been made.
changeAnswered(r, next) ==
    LET list == ListOf[r.about]
        ok   == r.seen # Unseen
    IN  /\ r.kind = "change"
        /\ \/ next = (IF Reloads(r.about, ok) THEN Loads(list) ELSE {}) /\ UNCHANGED missed
           \/ next = {} /\ missed' = IF ok THEN missed \cup {list} ELSE missed
        /\ UNCHANGED <<server, shown>>

-------------------------------------------------------------------------------
(* Panels *)

settingsToggle ==
    /\ Click /\ page = "in"
    /\ IF "settings" \in panels
       THEN panels' = panels \ {"settings"} /\ UNCHANGED pending
       ELSE /\ panels' = panels \cup {"settings"}
            /\ pending' = IF user THEN pending (+) SetToBag({Load("apiKeys"), Load("targets")}) ELSE pending
    /\ UNCHANGED <<page, signedIn, user, bell, listVars, twofaVars, scanVars>>

closeSettings == "settings" \in panels /\ Panel(panels \ {"settings"})
closeMyScans == "myScans" \in panels /\ Panel(panels \ {"myScans"})

openShares ==
    /\ Click /\ "shares" \notin panels
    /\ panels' = panels \cup {"shares"}
    /\ Ask(Load("shares"))
    /\ UNCHANGED <<page, signedIn, user, bell, listVars, twofaVars, scanVars>>

closeShareModal == "shares" \in panels /\ Panel(panels \ {"shares"})

openBulk == page = "in" /\ "bulk" \notin panels /\ Panel(panels \cup {"bulk"})
closeBulk == "bulk" \in panels /\ Panel(panels \ {"bulk"})

\* While it is on its way the button is disabled.
submitBulk ==
    /\ Click /\ "bulk" \in panels /\ Request("bulk", None) \notin DOMAIN pending
    /\ Ask(Request("bulk", None))
    /\ UNCHANGED <<page, signedIn, user, bell, panels, listVars, twofaVars, scanVars>>

bulkAnswered(r) ==
    /\ r.kind = "bulk"
    /\ panels' \in {panels, panels \ {"bulk"}}
    /\ UNCHANGED <<page, signedIn, user, bell, listVars, twofaVars, scanVars>>

keyboardHelp == Panel(IF "help" \in panels THEN panels \ {"help"} ELSE panels \cup {"help"})

\* Escape on the page.  The two scans of a comparison stay where they are.
EscapePanels == panels' = panels \ {"diff", "help"}

-------------------------------------------------------------------------------
(* The scan list *)

MyScans(new, kind) ==
    /\ scans' = new
    /\ Ask(Request(kind, scans'.url))
    /\ UNCHANGED <<page, signedIn, user, bell, listVars, twofaVars, diffSelectA>>

\* Once the list has come the schedules are loaded.
myScansToggle ==
    /\ Click /\ page = "in"
    /\ IF "myScans" \in panels
       THEN /\ panels' = panels \ {"myScans"}
            /\ UNCHANGED <<page, signedIn, user, bell, listVars, pending, twofaVars, scanVars>>
       ELSE /\ panels' = panels \cup {"myScans"}
            /\ MyScans([scans EXCEPT !.url = "/api/my-scans", !.page = 1], "scansThenSchedules")

InMyScans(new) == Click /\ "myScans" \in panels /\ MyScans(new, "scans") /\ UNCHANGED panels

adminScans == InMyScans([scans EXCEPT !.url = "/api/admin/scans", !.page = 1])

\* A search, or a tag to filter by.
searchScans == InMyScans([scans EXCEPT !.page = 1])

\* What the list on screen says of its pages may be about another list.
prevPage == scans.page > 1 /\ InMyScans([scans EXCEPT !.page = @ - 1])
nextPage == scans.page < scans.pages /\ InMyScans([scans EXCEPT !.page = @ + 1])

\* The pages of the list asked for count for the list that is chosen now.
scansAnswered(r, next) ==
    /\ r.kind \in {"scans", "scansThenSchedules"}
    /\ UNCHANGED <<page, signedIn, user, bell, panels, listVars, twofaVars, diffSelectA>>
    /\ \E ok \in {signedIn, FALSE} :
        /\ scans' = IF ok THEN [scans EXCEPT !.pages = Pages[r.about]] ELSE scans
        /\ next = (IF ok /\ user THEN {Load("scanTags")} ELSE {})
                    \cup (IF r.kind = "scansThenSchedules" THEN Loads("schedules") ELSE {})

\* The first scan of a comparison, the same one again, or the second one.
compare(s) ==
    /\ Click /\ Within("myScans")
    /\ diffSelectA' = IF diffSelectA = None THEN s ELSE None
    /\ panels' = IF diffSelectA \in {None, s} THEN panels ELSE panels \cup {"diff"}
    /\ UNCHANGED <<page, signedIn, user, bell, listVars, pending, twofaVars, scans>>

closeDiff ==
    /\ Click /\ "diff" \in panels
    /\ panels' = panels \ {"diff"} /\ diffSelectA' = None
    /\ UNCHANGED <<page, signedIn, user, bell, listVars, pending, twofaVars, scans>>

-------------------------------------------------------------------------------
(* The second factor, and the channels whose answer replaces currentUser *)

AskTwofa(from, kind) ==
    /\ Click /\ Within("settings") /\ block = from
    /\ Ask(Request(kind, None))
    /\ UNCHANGED <<page, signedIn, user, bell, panels, listVars, twofaVars, scanVars>>

twofaStart == AskTwofa("enable", "setup")
twofaConfirm == AskTwofa("setup", "enable")
twofaDisable == AskTwofa("disable", "disable")

\* Cancel, or the recovery codes are written down.
twofaBack ==
    /\ Click /\ Within("settings") /\ block \in {"setup", "recovery"}
    /\ UNCHANGED <<page, signedIn, user, bell, panels, listVars, pending, enabled2FA,
                   twoFactorEnabled, scanVars>>
    /\ refreshTwoFactorUI

setupAnswered(r) ==
    /\ r.kind = "setup"
    /\ block' \in IF signedIn /\ ~enabled2FA THEN {"setup", block} ELSE {block}
    /\ UNCHANGED <<page, signedIn, user, bell, panels, listVars, enabled2FA, twoFactorEnabled, scanVars>>

\* The codes are shown once: if this answer is lost, so are they.
enableAnswered(r) ==
    /\ r.kind = "enable"
    /\ \/ /\ signedIn /\ ~enabled2FA /\ enabled2FA' = TRUE
          /\ \/ /\ block' = "recovery"
                /\ twoFactorEnabled' = (user \/ twoFactorEnabled)
             \/ UNCHANGED <<block, twoFactorEnabled>>
       \/ UNCHANGED twofaVars
    /\ UNCHANGED <<page, signedIn, user, bell, panels, listVars, scanVars>>

disableAnswered(r) ==
    /\ r.kind = "disable"
    /\ UNCHANGED <<page, signedIn, user, bell, panels, listVars, scanVars>>
    /\ \/ /\ signedIn /\ enabled2FA /\ enabled2FA' = FALSE
          /\ \/ /\ twoFactorEnabled' = (twoFactorEnabled /\ ~user)
                /\ refreshTwoFactorUI
             \/ UNCHANGED <<block, twoFactorEnabled>>
       \/ UNCHANGED twofaVars

saveNotificationSettings ==
    /\ Click /\ Within("settings") /\ Request("settings", None) \notin DOMAIN pending
    /\ Ask(Request("settings", None))
    /\ UNCHANGED <<page, signedIn, user, bell, panels, listVars, twofaVars, scanVars>>

\* The answer may come when the page has been signed out.
settingsAnswered(r) ==
    /\ r.kind = "settings"
    /\ \/ user' = TRUE /\ twoFactorEnabled' = enabled2FA
       \/ UNCHANGED <<user, twoFactorEnabled>>
    /\ UNCHANGED <<page, signedIn, bell, panels, listVars, enabled2FA, block, scanVars>>

-------------------------------------------------------------------------------
\* The requests that may follow an answer.
Following(r) ==
    IF r.kind = "change" THEN {{}, {Load(ListOf[r.about])}}
    ELSE IF r.kind \in {"scans", "scansThenSchedules"} THEN SUBSET {Load("scanTags"), Load("schedules")}
    ELSE {{}}

Answered(r) ==
    LET quiet == UNCHANGED <<page, signedIn, user, bell, panels, twofaVars, scanVars>>
        outcome(next) ==
            \/ loadAnswered(r) /\ quiet /\ next = {}
            \/ quiet /\ changeAnswered(r, next)
            \/ scansAnswered(r, next)
            \/ next = {} /\ (\/ logoutAnswered(r) \/ bulkAnswered(r) \/ setupAnswered(r)
                              \/ enableAnswered(r) \/ disableAnswered(r) \/ settingsAnswered(r))
    IN  /\ \E next \in Following(r) :
            /\ outcome(next)
            /\ pending' = BagRemove(pending, r) (+) SetToBag(next)
        /\ UNCHANGED clicks

\* What the user does, and notifications, while the bound allows it.
UserSteps ==
    \/ logout \/ loadNotifications \/ NotificationArrives
    \/ createTag \/ deleteTag \/ toggleScanTag \/ toggleSchedule \/ deleteSchedule
    \/ markAllRead \/ handleNotifClick \/ claimTarget \/ verifyTarget \/ removeTarget
    \/ generateAPIKey \/ deleteAPIKey \/ createShareLink \/ revokeShareLink
    \/ settingsToggle \/ closeSettings \/ closeMyScans \/ openShares \/ closeShareModal
    \/ openBulk \/ closeBulk \/ submitBulk \/ keyboardHelp
    \/ myScansToggle \/ adminScans \/ searchScans \/ prevPage \/ nextPage \/ closeDiff
    \/ twofaStart \/ twofaConfirm \/ twofaDisable \/ twofaBack \/ saveNotificationSettings
    \/ \E s \in Rows : compare(s)

AccountNext ==
    \/ clicks.account > 0 /\ UserSteps
    \/ loadAuthState
    \/ \E r \in DOMAIN pending : Execute(r) \/ Answered(r)

-------------------------------------------------------------------------------
(* Properties *)

About(L) == \E r \in DOMAIN pending :
    r = [Load(L) EXCEPT !.seen = r.seen] \/ (r.kind = "change" /\ ListOf[r.about] = L)

\* A list on screen that is not the account's is about to be read, or changed: each change
\* that was answered is read back.
SettledListsAreCurrent ==
    \A L \in Lists \ missed :
        page = "in" /\ shown[L] \notin {Unseen, server[L]} => About(L)

===============================================================================
