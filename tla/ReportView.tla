------------------------------ MODULE ReportView ------------------------------
(***************************************************************************)
(* The report of a scan on the page of frontend/app.js: the results with   *)
(* their filters and order, the graph, surface and map tabs, the identity  *)
(* with its timeline, the changes since the previous scan, the history.    *)
(*                                                                         *)
(* What is drawn is recorded with the scan it was drawn from, for most     *)
(* answers count whenever they come.  How the page follows a scan is in    *)
(* ScanPage; here a scan that is followed brings cards and ends.           *)
(***************************************************************************)
EXTENDS Integers, Sequences, FiniteSets, BagsExt, Bags

CONSTANTS
    None,
    Found,                       \* Found[s]: what the server knows of scan s
    Recent, Loaded, MaxHistory   \* 12 and 100 events, 20 scans in the code

VARIABLES
    clicks,       \* as in AccountPanels
    lastScanData, resultsPanel,
    drawn,        \* history: lastScanData is what displayResults has drawn
    live,         \* the scan that is followed and the number of its results so far, or None
    filter,       \* activeTypeFilter, confidenceFilterActive, activeSortMode
    options, menus,   \* of the type filter; dropdowns that are open
    grid,         \* cards, and the scan they were drawn from, None if some were streamed
    tab, graphMode,
    graph, waiting,   \* the graph; the draw that waits for d3
    nodeDetail,   \* what the panel beside the graph says, or None
    scripts, opening, seeded,   \* loading of d3 and the boards; what waits for them
    surface,      \* scan and findings, number of the box of its fixes, and the scan of these
    profile,      \* scan of lastIdentityProfile
    timeline,     \* identity panel: its scan, whether it has events, and their filter
    banner, notes,    \* changes since the previous scan; scans whose missing checks are named
    map, leafletLoaded, history,
    asked         \* bag of the requests on their way

tabVars == <<tab, graphMode, graph, waiting, nodeDetail, scripts, surface>>
boardVars == <<opening, seeded>>
mapVars == <<map, leafletLoaded>>
gridVars == <<filter, options, grid>>
scanVars == <<lastScanData, drawn, resultsPanel, live, profile, timeline, banner, notes, history>>
rvars == <<scanVars, gridVars, menus, tabVars, boardVars, mapVars, asked>>

Scans == DOMAIN Found
Tabs == {"results", "graph", "surface", "map"}
Sorts == {"default", "confidence-desc", "confidence-asc", "source-asc", "type-asc"}
NoFilter == [type |-> None, confident |-> FALSE, sort |-> "default"]
NoCards == [of |-> None, cards |-> <<>>]
Nothing == [hosts |-> <<>>, posture |-> <<>>]

Request(kind, s) == [kind |-> kind, of |-> s, box |-> 0]

\* An answer has come, and others are asked for.
Then(r, next) == asked' = BagRemove(asked, r) (+) SetToBag(next)

\* The notes about checks that could not be made in a scan, or that were not allowed.
Missing(s) == [unavailable |-> IF Found[s].unavailable THEN s ELSE None,
               skipped |-> IF Found[s].skipped THEN s ELSE None]

ReportTypeOK ==
    /\ {lastScanData, profile, waiting, seeded, surface.of, surface.fixes, map.of,
        notes.unavailable, notes.skipped} \subseteq Scans \cup {None}
    /\ {drawn, resultsPanel, leafletLoaded, filter.confident} \subseteq BOOLEAN
    /\ live # None => live.of \in Scans /\ live.received \in 0..Len(Found[live.of].results)
    /\ filter.sort \in Sorts /\ menus \subseteq {"type", "sort"}
    /\ tab \in Tabs /\ graphMode \in {"connections", "sources"}
    /\ {scripts.d3, scripts.boards} \subseteq {"absent", "loading", "loaded"}
    /\ opening \subseteq {"open", "seed"}
    /\ nodeDetail # None => nodeDetail.of \in Scans
    /\ timeline # None => timeline.of \in Scans /\ timeline.expanded \in BOOLEAN
    /\ map.view \in {"blank", "loading", "nothing", "map"}
    /\ \A r \in DOMAIN asked : r.of \in Scans /\ r.box \in 0..surface.box

-------------------------------------------------------------------------------
(* Parts of the handlers *)

\* A click closes the dropdowns, except on the button of one of them.
ClickButton == clicks.report > 0 /\ clicks' = [clicks EXCEPT !.report = @ - 1]
Click == ClickButton /\ menus' = {}

\* The buttons of the report are in its panel.
InReport == Click /\ resultsPanel

filterResults(s, f) == {i \in DOMAIN Found[s].results :
    /\ f.confident => Found[s].results[i].confidence >= 70
    /\ f.type # None => Found[s].results[i].type = f.type}

\* Whether a sort puts one result before another.
Precedes(a, b, sort) ==
    \/ sort = "confidence-desc" /\ a.confidence > b.confidence
    \/ sort = "confidence-asc" /\ a.confidence < b.confidence
    \/ sort = "source-asc" /\ a.source < b.source
    \/ sort = "type-asc" /\ a.type < b.type

\* A sort keeps results it does not tell apart in their order.
sortResults(s, kept, sort) ==
    LET result(i) == Found[s].results[i]
        before(j, i) == \/ Precedes(result(j), result(i), sort)
                        \/ j < i /\ ~Precedes(result(i), result(j), sort)
        place(i) == 1 + Cardinality({j \in kept : before(j, i)})
    IN  [k \in 1..Cardinality(kept) |-> <<s, CHOOSE i \in kept : place(i) = k>>]

Cards(s, f) == [of |-> s, cards |-> sortResults(s, filterResults(s, f), f.sort)]

reRenderGrid == grid' = IF lastScanData' = None THEN grid ELSE Cards(lastScanData', filter')

saveToHistory(s) ==
    LET others == SelectSeq(history, LAMBDA h : h # s)
    IN  history' = SubSeq(<<s>> \o others, 1, IF Len(others) < MaxHistory THEN Len(others) + 1 ELSE MaxHistory)

\* One node per identifier that a link names.
renderConnectionsGraph(s, links) ==
    LET shown == {links[i] : i \in DOMAIN links \cap 1..80}
    IN  [of |-> s, nodes |-> UNION {{l.from, l.to} : l \in shown},
         edges |-> {<<l.from, l.to>> : l \in shown}]

\* The target, its sources and their findings.
SourcesGraph(s) ==
    LET indexes   == DOMAIN Found[s].results
        source(i) == <<"source", Found[s].results[i].source>>
        target    == <<"target", 0>>
    IN  [of |-> s,
         nodes |-> {target} \cup {source(i) : i \in indexes} \cup {<<"finding", i>> : i \in indexes},
         edges |-> {<<target, source(i)>> : i \in indexes}
                   \cup {<<source(i), <<"finding", i>>>> : i \in indexes}]

Drawing(s, mode, identity) ==
    LET links == IF identity = None THEN <<>> ELSE Found[identity].links
    IN  IF Found[s].results = <<>> THEN [of |-> s, nodes |-> {}, edges |-> {}]
        ELSE IF mode = "connections" /\ links # <<>> THEN renderConnectionsGraph(s, links)
        ELSE SourcesGraph(s)

\* Without d3 a draw waits for it, and the latest one is seen.
renderD3Graph(s) ==
    IF scripts.d3 = "loaded"
    THEN graph' = Drawing(s, graphMode', profile') /\ UNCHANGED <<waiting, scripts>>
    ELSE /\ waiting' = s /\ scripts' = [scripts EXCEPT !.d3 = "loading"]
         /\ UNCHANGED graph

\* The findings by host and by domain: what a host exposes adds up, and of what is said
\* of a domain's posture the last counts.
Rollup(s) ==
    LET results    == Found[s].results
        about(d)   == {i \in DOMAIN results : results[i].domain = d}
        told(d, f) == {i \in about(d) : f \in DOMAIN results[i].posture}
        last(S)    == CHOOSE i \in S : \A k \in S : k <= i
    IN  [hosts |-> [ip \in {results[i].ip : i \in DOMAIN results} \ {None} |->
                        UNION {results[i].exposes : i \in {k \in DOMAIN results : results[k].ip = ip}}],
         posture |-> [d \in {results[i].domain : i \in DOMAIN results} \ {None} |->
                        [f \in UNION {DOMAIN results[i].posture : i \in about(d)} |->
                            results[last(told(d, f))].posture[f]]]]

renderAttackSurface(s) == surface' = [of |-> s, shows |-> Rollup(s), box |-> surface.box + 1, fixes |-> None]
loadRemediation == [kind |-> "fixes", of |-> surface'.of, box |-> surface'.box]

\* The tab that is open is drawn again.
DrawTab(s) ==
    /\ IF tab' = "graph" THEN renderD3Graph(s) ELSE UNCHANGED <<graph, waiting, scripts>>
    /\ IF tab' = "surface" THEN renderAttackSurface(s) ELSE UNCHANGED surface

displayResults(s) ==
    /\ lastScanData' = s /\ drawn' = TRUE /\ resultsPanel' = TRUE
    /\ reRenderGrid
    /\ banner' = None /\ notes' = Missing(s)
    /\ saveToHistory(s)
    /\ UNCHANGED <<tab, graphMode, nodeDetail, profile>>
    /\ DrawTab(s)

\* What displayResults asks for.
Follow(s) ==
    {Request("identity", s), Request("diff", s)} \cup (IF tab' = "surface" THEN {loadRemediation} ELSE {})

startStreaming(s) == live' = [of |-> s, received |-> 0] /\ resultsPanel' = TRUE /\ timeline' = None

-------------------------------------------------------------------------------
\* The page is new, or a report has just been drawn.
ReportInit ==
    /\ lastScanData \in {None, 1} /\ drawn = (lastScanData # None) /\ resultsPanel = drawn /\ live = None
    /\ filter = NoFilter /\ options = {} /\ menus = {}
    /\ grid = IF lastScanData = None THEN NoCards ELSE Cards(1, filter)
    /\ tab = "results" /\ graphMode = "connections" /\ graph = None /\ waiting = None /\ nodeDetail = None
    /\ scripts = [d3 |-> "absent", boards |-> "absent"] /\ opening = {} /\ seeded = None
    /\ surface = [of |-> None, shows |-> Nothing, box |-> 0, fixes |-> None]
    /\ profile = None /\ timeline = None /\ banner = None
    /\ notes = IF lastScanData = None THEN [unavailable |-> None, skipped |-> None] ELSE Missing(1)
    /\ map = [view |-> "blank", of |-> None] /\ leafletLoaded = FALSE
    /\ history = IF lastScanData = None THEN <<>> ELSE <<1>>
    /\ asked = IF lastScanData = None THEN EmptyBag
               ELSE SetToBag({Request("identity", 1), Request("diff", 1)})

-------------------------------------------------------------------------------
(* The scan *)

\* From the history, the scan list, a notification or the address.
loadScanByID(s) ==
    /\ Click
    /\ lastScanData' = None /\ drawn' = FALSE /\ profile' = None /\ live' = None /\ resultsPanel' = FALSE
    /\ filter' = [filter EXCEPT !.type = None, !.sort = "default"] /\ grid' = NoCards
    /\ tab' = "results" /\ notes' = [notes EXCEPT !.unavailable = None]
    /\ asked' = BagAdd(asked, Request("load", s))
    /\ UNCHANGED <<options, graphMode, graph, waiting, nodeDetail, scripts, surface, boardVars, mapVars,
                   timeline, banner, history>>

\* A card for the next result, if the filters let it through.
resultArrives ==
    /\ live # None /\ live.received < Len(Found[live.of].results)
    /\ live' = [live EXCEPT !.received = @ + 1]
    /\ grid' = IF live'.received \in filterResults(live.of, filter)
               THEN [of |-> None, cards |-> Append(grid.cards, <<live.of, live'.received>>)] ELSE grid
    /\ UNCHANGED <<clicks, lastScanData, drawn, resultsPanel, filter, options, menus, tabVars, boardVars,
                   mapVars, profile, timeline, banner, notes, history, asked>>

\* The stream ends and all of it is asked for, or polling has brought it, or gives up.
scanEnds ==
    /\ live # None /\ live' = None
    /\ UNCHANGED <<clicks, filter, options, menus, boardVars, mapVars, profile, timeline>>
    /\ \/ /\ asked' = asked (+) SetToBag({Request("final", live.of), Request("identity", live.of)})
          /\ notes' = [notes EXCEPT !.unavailable = Missing(live.of).unavailable]
          /\ UNCHANGED <<lastScanData, drawn, resultsPanel, grid, tabVars, banner, history>>
       \/ /\ displayResults(live.of)
          /\ asked' = asked (+) SetToBag(Follow(live.of))
       \/ UNCHANGED <<lastScanData, drawn, resultsPanel, grid, tabVars, banner, notes, history, asked>>

clearHistory ==
    /\ Click /\ history # <<>> /\ history' = <<>>
    /\ UNCHANGED <<lastScanData, drawn, resultsPanel, live, profile, timeline, banner, notes, gridVars, tabVars,
                   boardVars, mapVars, asked>>

\* A scan may still run when it is loaded.
loadAnswered(r) ==
    /\ r.kind = "load"
    /\ UNCHANGED <<filter, options, boardVars, mapVars, profile>>
    /\ \/ displayResults(r.of) /\ Then(r, Follow(r.of)) /\ UNCHANGED <<live, timeline>>
       \/ /\ startStreaming(r.of) /\ Then(r, {})
          /\ UNCHANGED <<lastScanData, drawn, grid, tabVars, banner, notes, history>>
       \/ /\ Then(r, {})
          /\ UNCHANGED <<lastScanData, drawn, resultsPanel, live, timeline, grid, tabVars, banner, notes, history>>

\* What the stream has shown is not drawn again.
finalAnswered(r) ==
    /\ r.kind = "final" /\ Then(r, {})
    /\ UNCHANGED <<resultsPanel, live, profile, timeline, banner, notes, gridVars, tabVars, boardVars, mapVars>>
    /\ \/ lastScanData' = r.of /\ drawn' = FALSE /\ saveToHistory(r.of)
       \/ UNCHANGED <<lastScanData, drawn, history>>

-------------------------------------------------------------------------------
(* Filters and order of the results *)

ChangeFilter(new) ==
    /\ filter' = new
    /\ UNCHANGED <<scanVars, options, tabVars, boardVars, mapVars, asked>>
    /\ reRenderGrid

\* Without data the dropdown offers the types it had.
typeFilter ==
    /\ ClickButton /\ resultsPanel
    /\ menus' = IF "type" \in menus THEN menus \ {"type"} ELSE menus \cup {"type"}
    /\ options' = IF lastScanData = None THEN options
                  ELSE {Found[lastScanData].results[i].type : i \in DOMAIN Found[lastScanData].results}
    /\ UNCHANGED <<scanVars, filter, grid, tabVars, boardVars, mapVars, asked>>

chooseType(t) == InReport /\ "type" \in menus /\ ChangeFilter([filter EXCEPT !.type = t])

sortButton ==
    /\ ClickButton /\ resultsPanel
    /\ menus' = IF "sort" \in menus THEN menus \ {"sort"} ELSE menus \cup {"sort"}
    /\ UNCHANGED <<scanVars, gridVars, tabVars, boardVars, mapVars, asked>>

chooseSort(sort) == InReport /\ "sort" \in menus /\ ChangeFilter([filter EXCEPT !.sort = sort])

confidenceFilter == InReport /\ ChangeFilter([filter EXCEPT !.confident = ~@])

-------------------------------------------------------------------------------
(* Tabs *)

initLeafletMap ==
    IF lastScanData = None \/ (lastScanData # None /\ Found[lastScanData].places = {})
    THEN map' = [map EXCEPT !.view = "nothing"] /\ UNCHANGED asked
    ELSE /\ map' = [map EXCEPT !.view = "loading"]
         /\ asked' = BagAdd(asked, Request(IF leafletLoaded THEN "geolocate" ELSE "leaflet", lastScanData))

switchResultsTab(t) ==
    /\ tab' = t
    /\ UNCHANGED <<scanVars, gridVars, graphMode, nodeDetail, boardVars, leafletLoaded>>
    /\ IF lastScanData = None THEN UNCHANGED <<graph, waiting, scripts, surface>> ELSE DrawTab(lastScanData)
    /\ IF t = "map" THEN initLeafletMap
       ELSE /\ UNCHANGED map
            /\ asked' = IF t = "surface" /\ lastScanData # None THEN BagAdd(asked, loadRemediation) ELSE asked

clickTab(t) == InReport /\ switchResultsTab(t)
toggleGraph == InReport /\ switchResultsTab(IF tab = "graph" THEN "results" ELSE "graph")

clickGraphMode(mode) ==
    /\ InReport /\ tab = "graph" /\ graphMode' = mode
    /\ UNCHANGED <<scanVars, gridVars, tab, nodeDetail, surface, boardVars, mapVars, asked>>
    /\ IF lastScanData = None THEN UNCHANGED <<graph, waiting, scripts>> ELSE renderD3Graph(lastScanData)

\* A source counts its findings in the report there is now, an identifier names its links,
\* and any other node has only its own data.
Detail(n) ==
    IF n[1] = "source"
    THEN IF lastScanData = None THEN {}
         ELSE {i \in DOMAIN Found[lastScanData].results : Found[lastScanData].results[i].source = n[2]}
    ELSE IF n[1] \in {"target", "finding"} THEN {}
    ELSE {e \in graph.edges : n \in {e[1], e[2]}}

clickNode(n) ==
    /\ ClickButton /\ resultsPanel /\ tab = "graph" /\ graph # None /\ n \in graph.nodes
    /\ nodeDetail' = [of |-> graph.of, node |-> n, lists |-> Detail(n)]
    /\ UNCHANGED <<menus, scanVars, gridVars, tab, graphMode, graph, waiting, scripts, surface, boardVars, mapVars,
                   asked>>

\* With its button, or a click beside the nodes.
closeNodeDetail ==
    /\ InReport /\ tab = "graph" /\ nodeDetail # None /\ nodeDetail' = None
    /\ UNCHANGED <<scanVars, gridVars, tab, graphMode, graph, waiting, scripts, surface, boardVars, mapVars, asked>>

\* Only the box that is on the page shows its fixes.
fixesAnswered(r) ==
    /\ r.kind = "fixes" /\ Then(r, {})
    /\ UNCHANGED <<scanVars, gridVars, tab, graphMode, graph, waiting, nodeDetail, scripts, boardVars, mapVars>>
    /\ \/ surface' = IF r.box = surface.box THEN [surface EXCEPT !.fixes = r.of] ELSE surface
       \/ UNCHANGED surface

\* If the script does not come, the map stays as it is.
leafletAnswered(r) ==
    /\ r.kind = "leaflet"
    /\ UNCHANGED <<scanVars, gridVars, tabVars, boardVars, map>>
    /\ \/ leafletLoaded' = TRUE /\ Then(r, {Request("geolocate", r.of)})
       \/ UNCHANGED leafletLoaded /\ Then(r, {})

\* An answer that is no list clears the map and draws nothing.
geolocateAnswered(r) ==
    /\ r.kind = "geolocate" /\ Then(r, {})
    /\ UNCHANGED <<scanVars, gridVars, tabVars, boardVars, leafletLoaded>>
    /\ map' \in {[view |-> "map", of |-> r.of], [view |-> "map", of |-> None], [map EXCEPT !.view = "nothing"]}

-------------------------------------------------------------------------------
(* Scripts that are loaded when they are needed *)

Seed(who) == seeded' = IF "seed" \in who /\ lastScanData # None THEN lastScanData ELSE seeded

\* What the board is seeded from is read when the scripts are there.
loadInvestigationBoards(what) ==
    /\ Click /\ (what = "seed" => resultsPanel)
    /\ UNCHANGED <<scanVars, gridVars, tab, graphMode, graph, waiting, nodeDetail, surface, mapVars, asked>>
    /\ IF scripts.boards = "loaded"
       THEN Seed({what}) /\ UNCHANGED <<scripts, opening>>
       ELSE /\ opening' = opening \cup {what} /\ UNCHANGED seeded
            /\ scripts' = IF scripts.d3 = "loaded" THEN [scripts EXCEPT !.boards = "loading"]
                          ELSE [scripts EXCEPT !.d3 = "loading"]

\* A script that does not come is forgotten, with all that waited for it.
d3Comes ==
    /\ scripts.d3 = "loading" /\ waiting' = None
    /\ UNCHANGED <<clicks, scanVars, gridVars, menus, tab, graphMode, nodeDetail, surface, seeded, mapVars, asked>>
    /\ \/ /\ scripts' = [d3 |-> "loaded", boards |-> IF opening = {} THEN scripts.boards ELSE "loading"]
          /\ graph' = IF waiting = None THEN graph ELSE Drawing(waiting, graphMode, profile)
          /\ UNCHANGED opening
       \/ scripts' = [scripts EXCEPT !.d3 = "absent"] /\ opening' = {} /\ UNCHANGED graph

boardsCome ==
    /\ scripts.boards = "loading" /\ opening' = {}
    /\ UNCHANGED <<clicks, scanVars, gridVars, menus, tab, graphMode, graph, waiting, nodeDetail, surface, mapVars,
                   asked>>
    /\ \/ scripts' = [scripts EXCEPT !.boards = "loaded"] /\ Seed(opening)
       \/ scripts' = [scripts EXCEPT !.boards = "absent"] /\ UNCHANGED seeded

-------------------------------------------------------------------------------
(* The identity, its timeline, and the changes since the previous scan *)

Events(s) == {i \in DOMAIN Found[s].events : i > Len(Found[s].events) - Loaded}

yearOf(s, i) ==
    LET year == Found[s].events[i].year IN IF 1980 < year /\ year < 2200 THEN year ELSE None

InCategory(t) == {i \in Events(t.of) : t.category \in {"all", Found[t.of].events[i].category}}
InYear(t) == {i \in InCategory(t) : t.year \in {None, yearOf(t.of, i)}}
HasMore(t) == Cardinality(InYear(t)) > Recent

\* A variant without the reset of a year that has no column any more.
renderTimelineRowsKept(t) == timeline' = t

renderTimelineRows(t) ==
    timeline' = IF \E i \in InCategory(t) : yearOf(t.of, i) = t.year THEN t ELSE [t EXCEPT !.year = None]

\* The columns that can be clicked: sixty years at most, and at least two of them.
Columns(t) ==
    LET known == {yearOf(t.of, i) : i \in InCategory(t)} \ {None}
    IN  {year \in known : (\A other \in known : year >= other - 59) /\ known # {year}}

InTimeline == InReport /\ tab = "results" /\ timeline # None

TimelineChanges ==
    UNCHANGED <<lastScanData, drawn, resultsPanel, live, profile, banner, notes, history, gridVars, tabVars,
                boardVars, mapVars, asked>>

clickYear(year) ==
    /\ InTimeline /\ year \in Columns(timeline) /\ TimelineChanges
    /\ renderTimelineRows([timeline EXCEPT !.year = IF @ = year THEN None ELSE year, !.expanded = FALSE])

chooseCategory(category) ==
    /\ InTimeline /\ TimelineChanges
    /\ category \in {"all"} \cup {Found[timeline.of].events[i].category : i \in Events(timeline.of)}
    /\ renderTimelineRows([timeline EXCEPT !.category = category, !.expanded = FALSE])

\* Shows all, or the most recent.
toggleTimeline ==
    /\ InTimeline /\ HasMore(timeline) /\ TimelineChanges
    /\ renderTimelineRows([timeline EXCEPT !.expanded = ~@])

\* An identity without data is hidden, but the graph has it.
renderIdentity(s) ==
    timeline' = IF ~Found[s].identified /\ Found[s].events = <<>> /\ Found[s].links = <<>> THEN None
                ELSE [of |-> s, category |-> "all", year |-> None, expanded |-> FALSE]

\* A variant that leaves the graph as it was drawn without the identity.
redrawGraphLater == UNCHANGED <<graph, waiting, scripts>>

redrawGraph ==
    IF tab = "graph" /\ lastScanData # None THEN renderD3Graph(lastScanData)
    ELSE UNCHANGED <<graph, waiting, scripts>>

\* It counts for the report on the page, whichever it is.
identityAnswered(r) ==
    /\ r.kind = "identity" /\ Then(r, {})
    /\ UNCHANGED <<lastScanData, drawn, resultsPanel, live, banner, notes, history, gridVars, tab, graphMode,
                   nodeDetail, surface, boardVars, mapVars>>
    /\ \/ /\ profile' = r.of
          /\ renderIdentity(r.of)
          /\ redrawGraph
       \/ timeline' = None /\ UNCHANGED <<profile, graph, waiting, scripts>>

\* A grade that was not known before counts as one that got better.
Headline(delta) ==
    LET gradeChanges == DOMAIN delta.grades
        worse == {i \in gradeChanges : delta.grades[i].from # None /\ delta.grades[i].to > delta.grades[i].from}
    IN  IF delta.added > 0 \/ worse # {} THEN "changes"
        ELSE IF delta.removed > 0 \/ gradeChanges # {} THEN "reduced" ELSE "no changes"

diffAnswered(r) ==
    /\ r.kind = "diff" /\ Then(r, {})
    /\ UNCHANGED <<lastScanData, drawn, resultsPanel, live, profile, timeline, notes, history, gridVars, tabVars,
                   boardVars, mapVars>>
    /\ \/ /\ Found[r.of].delta # None
          /\ banner' = [of |-> r.of, says |-> Headline(Found[r.of].delta)]
       \/ UNCHANGED banner

-------------------------------------------------------------------------------
Answered(r) ==
    /\ UNCHANGED <<clicks, menus>>
    /\ \/ loadAnswered(r) \/ finalAnswered(r) \/ identityAnswered(r) \/ diffAnswered(r)
       \/ fixesAnswered(r) \/ leafletAnswered(r) \/ geolocateAnswered(r)

UserSteps ==
    \/ \E s \in Scans : loadScanByID(s)
    \/ clearHistory \/ typeFilter \/ sortButton \/ confidenceFilter \/ toggleGraph \/ toggleTimeline
    \/ \E t \in options \cup {None} : chooseType(t)
    \/ \E sort \in Sorts : chooseSort(sort)
    \/ \E t \in Tabs : clickTab(t)
    \/ \E mode \in {"connections", "sources"} : clickGraphMode(mode)
    \/ graph # None /\ \E n \in graph.nodes : clickNode(n)
    \/ closeNodeDetail
    \/ \E what \in {"open", "seed"} : loadInvestigationBoards(what)
    \/ timeline # None /\ (\/ \E year \in Columns(timeline) : clickYear(year)
                           \/ \E category \in {"all"} \cup {Found[timeline.of].events[i].category :
                                                            i \in Events(timeline.of)} : chooseCategory(category))

ReportNext ==
    \/ clicks.report > 0 /\ UserSteps
    \/ resultArrives \/ scanEnds \/ d3Comes \/ boardsCome
    \/ \E r \in DOMAIN asked : Answered(r)

-------------------------------------------------------------------------------
(* Properties *)

\* What a filter of the timeline says is what is listed: a year that is marked has events
\* in the category that is chosen, and all is only shown where there is more than the
\* most recent.
TimelineShowsChoice ==
    timeline # None =>
        /\ timeline.year # None => InYear(timeline) # {}
        /\ timeline.expanded => HasMore(timeline)

\* What displayResults has drawn follows what is chosen and what comes later: the cards are
\* those the filters leave, in order, the graph is the one that would be drawn now, and
\* the surface and its fixes are of that scan.
TabsAreCurrent ==
    drawn =>
        /\ grid.of # None => grid = Cards(lastScanData, filter)
        /\ tab = "graph" /\ waiting = None /\ graph # None => graph = Drawing(lastScanData, graphMode, profile)
        /\ tab = "surface" => surface.of = lastScanData /\ surface.fixes \in {None, lastScanData}

===============================================================================
