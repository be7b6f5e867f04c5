-------------------------- MODULE InvestigationBoard --------------------------
(***************************************************************************)
(* The investigation board of frontend/investigation.js with the rows of   *)
(* InvestigationController and the InvestigationWatchRunner that grows     *)
(* them: editing with undo and redo, the delayed save, opening another     *)
(* board, scans that come back later, link and path mode.                  *)
(*                                                                         *)
(* A save is two steps, the server's and the page's; another request is    *)
(* executed and answered in one.  The name, the layout and the views       *)
(* (search, hubs, labels, zoom, exports) are left out.                     *)
(***************************************************************************)
EXTENDS BoardGraph, FiniteSetsExt

CONSTANTS
    Entities,
    TypeOf,      \* TypeOf[n]: the type the filter knows it by
    Found,       \* Found[n]: what a scan of n brings
    Boards,      \* 1..n, ids of rows
    Stored,      \* Stored[i]: the graph of board i at first, None for no row
    None,
    MaxClicks,   \* bound: clicks of the user
    MaxGrowth,   \* bound: checks of the watch runner
    UndoDepth,   \* snapshots kept; 40 in the code
    MaxNodes     \* InvestigationController.maxNodes; 500 in the code

ASSUME UndoDepthAssumption == UndoDepth \in Nat \ {0}

ASSUME EntitiesAssumption ==
    /\ DOMAIN TypeOf = Entities
    /\ Found \in [Entities -> SUBSET Entities]
    /\ None \notin Entities \cup Boards

\* A page and a server only ever name so many.
ASSUME FiniteAssumption == IsFiniteSet(Entities)

\* There is a board to open at first.
ASSUME BoardsAssumption ==
    /\ 1 \in Boards
    /\ Stored \in [Boards -> Graph(Entities) \cup {None}]
    /\ Stored[1] # None

ASSUME GrowthAssumption == MaxGrowth \in Nat

VARIABLES
    rows,      \* rows[i]: the stored graph and whether it is watched, if there is one
    runner,    \* the check of the watch runner: the row, and the graph it has read
    checks,
    id,        \* board.id
    graph,     \* board.nodes and board.edges
    session,   \* which board object this is: a new one for each board opened
    undoStack, redoStack,  \* graphs, with the session they were taken in
    dirty,
    saveTimer, \* a save is scheduled
    saves,     \* saves on their way, oldest first
    calls,     \* other requests on their way
    disturbed, \* what the row holds is no longer known: see Send, saveBoard, Answered, Replace
    opened,    \* the overlay is shown
    detailed,  \* the node in the detail panel, and the session of its object
    hidden,    \* hiddenTypes
    mode,      \* "inspect", "link" or "path"
    source,    \* linkSource or pathSource
    clicks

rowVars == <<rows, runner, checks>>
boardVars == <<id, graph, session>>
history == <<undoStack, redoStack>>
saveVars == <<dirty, saveTimer, saves, disturbed>>
viewVars == <<opened, detailed, hidden, mode, source>>
vars == <<rowVars, boardVars, history, saveVars, calls, viewVars, clicks>>

Row(g, w) == [state |-> "there", graph |-> g, watched |-> w]
Exists(i) == rows[i].state = "there"
NoNode == [node |-> None, session |-> 0]
Shown == {n \in Entities : TypeOf[n] \notin hidden}

\* What render draws, and so what can be clicked.
Drawn == graph.nodes \cap Shown
Call(kind, about) == [kind |-> kind, about |-> about]

\* A POST has no row until the server has made one.
Saves == [kind: {"POST", "PUT"}, row: Boards \cup {None}, graph: Graph(Entities),
          state: {"sent", "stored", "refused"}, watch: BOOLEAN]

TypeOK ==
    /\ rows \in [Boards -> [state: {"none", "there", "gone"}, graph: Graph(Entities), watched: BOOLEAN]]
    /\ runner # None => runner \in [row: Boards, graph: Graph(Entities)]
    /\ checks \in 0..MaxGrowth
    /\ id \in Boards \cup {None}
    /\ graph \in Graph(Entities)
    /\ Range(undoStack) \cup Range(redoStack) \subseteq [graph: Graph(Entities), session: 1..session]
    /\ Len(undoStack) <= UndoDepth
    /\ dirty \in BOOLEAN /\ saveTimer \in BOOLEAN /\ disturbed \in BOOLEAN /\ opened \in BOOLEAN
    /\ Range(saves) \subseteq Saves
    /\ detailed.node \in Entities \cup {None}
    /\ hidden \subseteq Range(TypeOf)
    /\ mode \in {"inspect", "link", "path"} /\ source \in Entities \cup {None}
    /\ mode = "inspect" => source = None

\* Board 1 is open, and every board is watched.
Init ==
    /\ rows = [i \in Boards |-> IF Stored[i] = None THEN [Row(NoGraph, FALSE) EXCEPT !.state = "none"]
                            ELSE Row(Stored[i], TRUE)]
    /\ runner = None /\ checks = 0
    /\ id = 1 /\ graph = Stored[1] /\ session = 1
    /\ undoStack = <<>> /\ redoStack = <<>>
    /\ dirty = FALSE /\ saveTimer = FALSE /\ saves = <<>> /\ calls = {}
    /\ disturbed = FALSE /\ opened = TRUE
    /\ detailed = NoNode /\ hidden = {} /\ mode = "inspect" /\ source = None
    /\ clicks = 0

-------------------------------------------------------------------------------
(* Parts of the handlers *)

Click == opened /\ clicks < MaxClicks /\ clicks' = clicks + 1

Entry == [graph |-> graph, session |-> session]

\* Mutant: one snapshot more than the depth.
snapshotDeeper ==
    /\ undoStack' = SubSeq(Append(undoStack, Entry), Max({1, Len(undoStack) + 1 - UndoDepth}), Len(undoStack) + 1)
    /\ redoStack' = <<>>

\* The graph before a structural change, for undo; the oldest is dropped.
snapshot ==
    /\ undoStack' = SubSeq(Append(undoStack, Entry), Max({1, Len(undoStack) + 2 - UndoDepth}), Len(undoStack) + 1)
    /\ redoStack' = <<>>

scheduleSave == dirty' = TRUE /\ saveTimer' = TRUE

\* An edit that can be undone.
Edit(g) ==
    /\ snapshot
    /\ graph' = g
    /\ scheduleSave
    /\ UNCHANGED <<rowVars, id, session, saves, disturbed>>

\* persist sends the whole board.  A second save may overtake the first one: what
\* the row holds then is told apart by `disturbed`.
Send(watch) ==
    /\ saves' = Append(saves, [kind |-> IF id = None THEN "POST" ELSE "PUT", row |-> id,
                               graph |-> graph, state |-> "sent", watch |-> watch])
    /\ disturbed' = (disturbed \/ saves # <<>>)

\* Nothing is saved of a board that has neither a row nor a node, though a POST of
\* what it was may be about to bring it a row.
saveBoard ==
    IF graph.nodes = {} /\ id = None
    THEN UNCHANGED saves /\ disturbed' = (disturbed \/ saves # <<>>)
    ELSE Send(FALSE)

\* Mutant: the history of the board before is kept.
ReplaceKeeping(i, g) ==
    /\ id' = i /\ graph' = g /\ session' = session + 1
    /\ UNCHANGED history
    /\ disturbed' = (saves # <<>>)

\* Another board takes the place of this one, with a history of its own.  The
\* answer of a save still on its way will be taken for the new board.
Replace(i, g) ==
    /\ id' = i /\ graph' = g /\ session' = session + 1
    /\ undoStack' = <<>> /\ redoStack' = <<>>
    /\ disturbed' = (saves # <<>>)

-------------------------------------------------------------------------------
(* Editing *)

addFromInput(n) ==
    /\ Click
    /\ Edit(addNode(graph, n))
    /\ detailed' = [node |-> n, session |-> session]
    /\ UNCHANGED <<calls, opened, hidden, mode, source>>

removeSelected ==
    /\ Click /\ detailed.node # None
    /\ Edit(removeNode(graph, detailed.node))
    /\ detailed' = NoNode
    /\ UNCHANGED <<calls, opened, hidden, mode, source>>

\* A status or a note, without a snapshot.  The panel may still hold a node of the
\* board before: nothing of this board changes then, and it is saved all the same.
annotate ==
    LET n == detailed.node IN
    /\ Click /\ n # None
    /\ graph' = IF detailed.session = session /\ n \in graph.nodes
                THEN [graph EXCEPT !.notes = (@ \ {n}) \cup ({n} \ @)] ELSE graph
    /\ scheduleSave
    /\ UNCHANGED <<rowVars, id, session, history, saves, calls, disturbed, viewVars>>

\* A node that is moved, or only pressed, leaves the graph as it is and has it saved.
dragNode ==
    /\ Click /\ Drawn # {}
    /\ scheduleSave
    /\ UNCHANGED <<rowVars, boardVars, history, saves, calls, disturbed, viewVars>>

acknowledgeNew ==
    /\ Click /\ graph.new # {}
    /\ Edit(acknowledge(graph))
    /\ UNCHANGED <<calls, viewVars>>

\* The panel is closed and a link begun is dropped.
restoreState(g) ==
    /\ graph' = g
    /\ source' = IF mode = "link" THEN None ELSE source
    /\ detailed' = NoNode
    /\ scheduleSave
    /\ UNCHANGED <<rowVars, id, session, saves, calls, disturbed, opened, hidden, mode>>

undo ==
    /\ Click /\ undoStack # <<>>
    /\ redoStack' = Append(redoStack, Entry)
    /\ undoStack' = SubSeq(undoStack, 1, Len(undoStack) - 1)
    /\ restoreState(undoStack[Len(undoStack)].graph)

redo ==
    /\ Click /\ redoStack # <<>>
    /\ undoStack' = Append(undoStack, Entry)
    /\ redoStack' = SubSeq(redoStack, 1, Len(redoStack) - 1)
    /\ restoreState(redoStack[Len(redoStack)].graph)

\* A board or GraphML file.  One that breaks off has added what came before, and
\* that is neither drawn nor saved.
importFile(n) ==
    /\ Click
    /\ \/ Edit(addNode(graph, n))
       \/ /\ snapshot
          /\ graph' \in {graph, addNode(graph, n)}
          /\ disturbed' = TRUE
          /\ UNCHANGED <<rowVars, id, session, dirty, saveTimer, saves>>
    /\ UNCHANGED <<calls, viewVars>>

-------------------------------------------------------------------------------
(* Link mode, path mode, filters *)

toggleMode(m) ==
    /\ Click
    /\ mode' = IF mode = m THEN "inspect" ELSE m
    /\ source' = None
    /\ UNCHANGED <<rowVars, boardVars, history, saveVars, calls, opened, detailed, hidden>>

toggleLinkMode == toggleMode("link")
togglePathMode == toggleMode("path")

toggleFilter(t) ==
    /\ Click
    /\ hidden' = (hidden \ {t}) \cup ({t} \ hidden)
    /\ UNCHANGED <<rowVars, boardVars, history, saveVars, calls, opened, detailed, mode, source>>

\* Escape leaves the mode, or closes the panel.
escape ==
    /\ Click
    /\ mode' = "inspect" /\ source' = None
    /\ detailed' = IF mode = "inspect" THEN NoNode ELSE detailed
    /\ UNCHANGED <<rowVars, boardVars, history, saveVars, calls, opened, hidden>>

\* Inspect, or pick the source and then the target of a link or of a path.  The
\* source may be a node of the board before.
onNodeClick(n) ==
    /\ Click /\ n \in Drawn
    /\ source' = IF mode # "inspect" /\ source = None THEN n ELSE None
    /\ detailed' = IF mode = "inspect" THEN [node |-> n, session |-> session] ELSE detailed
    /\ IF mode = "link" /\ source \notin {None, n}
       THEN Edit(addEdge(graph, source, n))
       ELSE UNCHANGED <<rowVars, boardVars, history, saveVars>>
    /\ UNCHANGED <<calls, opened, hidden, mode>>

-------------------------------------------------------------------------------
(* Requests of the page: each is executed and answered in one later step *)

Request(c) ==
    /\ Click
    /\ calls' = calls \cup {c}
    /\ UNCHANGED <<rowVars, boardVars, history, saveVars, viewVars>>

\* From the panel, or by a double click outside link mode.
expand(n) ==
    /\ n = detailed.node \/ (n \in Drawn /\ mode # "link")
    /\ Request(Call("expand", n))

\* The scan is over, or forty polls are: what has been found goes to the board that
\* is open now, even if n is no node of it.  Otherwise nothing changes.
expanded(n) ==
    /\ Call("expand", n) \in calls
    /\ calls' = calls \ {Call("expand", n)}
    /\ \/ \E part \in {{}, Found[n]} : Edit(mergeScan(graph, n, part))
       \/ UNCHANGED <<rowVars, boardVars, history, saveVars>>
    /\ UNCHANGED <<viewVars, clicks>>

loadBoard(i) == i # id /\ Request(Call("load", i))

\* The panel, the mode and its source stay, and so does a save that is scheduled: it
\* will send the new board.
loaded(i) ==
    /\ Call("load", i) \in calls
    /\ calls' = calls \ {Call("load", i)}
    /\ \/ Exists(i) /\ Replace(i, rows[i].graph)
       \/ UNCHANGED <<boardVars, history, disturbed>>
    /\ UNCHANGED <<rowVars, dirty, saveTimer, saves, viewVars, clicks>>

mergeBoard(i) == detailed.node # None /\ i # id /\ Request(Call("merge", i))

merged(i) ==
    /\ Call("merge", i) \in calls
    /\ calls' = calls \ {Call("merge", i)}
    /\ \/ /\ Exists(i)
          /\ Edit(mergeGraph(graph, rows[i].graph))
          /\ detailed' = NoNode
       \/ UNCHANGED <<rowVars, boardVars, history, saveVars, detailed>>
    /\ UNCHANGED <<opened, hidden, mode, source, clicks>>

\* A board without a row is saved first, and watched once it has one.
toggleWatch ==
    /\ Click
    /\ IF id = None
       THEN Send(TRUE) /\ UNCHANGED calls
       ELSE calls' = calls \cup {Call("watch", id)} /\ UNCHANGED <<saves, disturbed>>
    /\ UNCHANGED <<rowVars, boardVars, history, dirty, saveTimer, viewVars>>

\* Another interval asks for the board to be watched, too.
changeInterval == id # None /\ Request(Call("watch", id))

\* Switched on or off, as the page believed it was not, or refused.
watchAnswered(i) ==
    /\ Call("watch", i) \in calls
    /\ calls' = calls \ {Call("watch", i)}
    /\ \/ Exists(i) /\ \E on \in BOOLEAN : rows' = [rows EXCEPT ![i].watched = on]
       \/ UNCHANGED rows
    /\ UNCHANGED <<runner, checks, boardVars, history, saveVars, viewVars, clicks>>

newBoard ==
    /\ Replace(None, NoGraph)
    /\ detailed' = NoNode

clickNewBoard ==
    /\ Click
    /\ newBoard
    /\ UNCHANGED <<rowVars, dirty, saveTimer, saves, calls, opened, hidden, mode, source>>

\* A board without a row is only dropped; any other after a confirmation.
deleteBoard == IF id = None THEN clickNewBoard ELSE Request(Call("delete", id))

\* Whatever the answer, whichever board is open by now gives way to a new one.
deleted(i) ==
    /\ Call("delete", i) \in calls
    /\ calls' = calls \ {Call("delete", i)}
    /\ \/ Exists(i) /\ rows' = [rows EXCEPT ![i].state = "gone"]
       \/ UNCHANGED rows
    /\ newBoard
    /\ UNCHANGED <<runner, checks, dirty, saveTimer, saves, opened, hidden, mode, source, clicks>>

-------------------------------------------------------------------------------
(* Saves *)

clickSave ==
    /\ Click /\ saveBoard
    /\ UNCHANGED <<rowVars, boardVars, history, dirty, saveTimer, calls, viewVars>>

saveTimerFires ==
    /\ saveTimer /\ saveTimer' = FALSE
    /\ saveBoard
    /\ UNCHANGED <<rowVars, boardVars, history, dirty, calls, viewVars, clicks>>

\* The server takes saves in any order.  A PUT needs its row, and a board that is not
\* too large; a POST makes a row; either may be refused, or never get there.
ServerSaves(k) ==
    LET s == saves[k] IN
    /\ s.state = "sent"
    /\ \/ \E i \in Boards :
            /\ IF s.kind = "PUT" THEN i = s.row /\ Exists(i) ELSE rows[i].state = "none"
            /\ Cardinality(s.graph.nodes) <= MaxNodes
            /\ rows' = [rows EXCEPT ![i] = Row(s.graph, s.kind = "PUT" /\ rows[i].watched)]
            /\ saves' = [saves EXCEPT ![k].state = "stored", ![k].row = i]
       \/ /\ saves' = [saves EXCEPT ![k].state = "refused"]
          /\ UNCHANGED rows
    /\ UNCHANGED <<runner, checks, boardVars, history, dirty, saveTimer, disturbed, calls,
                   viewVars, clicks>>

\* The answer counts for the board that is open now.  It makes the board clean even
\* if there were edits since: a save of those that is refused finds no flag to leave.
Answered(k, clean) ==
    LET s == saves[k] IN
    /\ s.state # "sent"
    /\ saves' = SubSeq(saves, 1, k - 1) \o SubSeq(saves, k + 1, Len(saves))
    /\ id' = IF s.kind = "POST" /\ s.state = "stored" THEN s.row ELSE id
    /\ dirty' = (dirty /\ ~clean)
    /\ calls' = IF s.watch /\ id' # None THEN calls \cup {Call("watch", id')} ELSE calls
    /\ disturbed' = (disturbed \/ (s.state = "refused" /\ ~dirty))
    /\ UNCHANGED <<rowVars, graph, session, history, saveTimer, viewVars, clicks>>

\* Mutant: the answer is not looked at.
saveAnsweredAlways(k) == Answered(k, TRUE)

\* A refused save leaves the board dirty, though the page says it is saved.
saveAnswered(k) == Answered(k, saves[k].state = "stored")

-------------------------------------------------------------------------------
(* Opening and closing *)

open == opened' = TRUE /\ mode' = "inspect" /\ source' = None

clickBoards ==
    /\ ~opened /\ clicks < MaxClicks /\ clicks' = clicks + 1
    /\ open
    /\ UNCHANGED <<rowVars, boardVars, history, saveVars, calls, detailed, hidden>>

close ==
    /\ Click
    /\ IF dirty THEN saveBoard ELSE UNCHANGED <<saves, disturbed>>
    /\ opened' = FALSE
    /\ UNCHANGED <<rowVars, boardVars, history, dirty, saveTimer, calls, detailed, hidden, mode, source>>

\* A scan, or a dark-web report, on a board of its own.
Seed(g) ==
    /\ ~opened /\ clicks < MaxClicks /\ clicks' = clicks + 1
    /\ Replace(None, g) /\ detailed' = NoNode
    /\ open /\ scheduleSave
    /\ UNCHANGED <<rowVars, saves, calls, hidden>>

seedFromScan(n) == Seed(mergeScan(addNode(NoGraph, n), n, Found[n]))

\* The relationships join findings to one another.
seedFromDarkWeb(n) ==
    \E related \in SUBSET (Found[n] \X Found[n]) :
        Seed(mergeGraph(mergeScan(addNode(NoGraph, n), n, Found[n]),
                        [NoGraph EXCEPT !.edges = related]))

-------------------------------------------------------------------------------
(* The watch runner *)

RunnerStart(i) ==
    /\ runner = None /\ checks < MaxGrowth /\ checks' = checks + 1
    /\ Exists(i) /\ rows[i].watched
    /\ runner' = [row |-> i, graph |-> rows[i].graph]
    /\ UNCHANGED <<rows, boardVars, history, saveVars, calls, viewVars, clicks>>

\* Its scans bring new nodes: the graph it has read, grown, replaces what the row
\* holds by now.  A board with nothing new, or too large, is left as it is.
RunnerGrows(T) ==
    LET old   == runner.graph
        grown == grow(old, T, Found)
    IN  /\ Cardinality(T) <= 3
        /\ runner' = None
        /\ IF /\ Exists(runner.row)
              /\ grown.nodes # old.nodes /\ Cardinality(grown.nodes) <= MaxNodes
           THEN /\ rows' = [rows EXCEPT ![runner.row].graph = grown]
                /\ disturbed' = (disturbed \/ runner.row = id)
           ELSE UNCHANGED <<rows, disturbed>>
        /\ UNCHANGED <<checks, boardVars, history, dirty, saveTimer, saves, calls, viewVars, clicks>>

-------------------------------------------------------------------------------
Next ==
    \/ \E n \in Entities :
        \/ addFromInput(n) \/ importFile(n) \/ onNodeClick(n) \/ expand(n) \/ expanded(n)
        \/ seedFromScan(n) \/ seedFromDarkWeb(n)
    \/ \E i \in Boards :
        \/ loadBoard(i) \/ loaded(i) \/ mergeBoard(i) \/ merged(i)
        \/ watchAnswered(i) \/ deleted(i) \/ RunnerStart(i)
    \/ \E k \in DOMAIN saves : ServerSaves(k) \/ saveAnswered(k)
    \/ \E t \in Range(TypeOf) : toggleFilter(t)
    \/ removeSelected \/ annotate \/ dragNode \/ acknowledgeNew \/ undo \/ redo
    \/ toggleLinkMode \/ togglePathMode \/ escape
    \/ toggleWatch \/ changeInterval \/ clickNewBoard \/ deleteBoard
    \/ clickSave \/ saveTimerFires \/ clickBoards \/ close
    \/ runner # None /\ \E T \in SUBSET runner.graph.nodes : RunnerGrows(T)

Spec == Init /\ [][Next]_vars

-------------------------------------------------------------------------------
(* Properties *)

\* With nothing left to save, no save under way and none that met another writer, the
\* row holds the board: an edit survives each save that fails, and each that was sent
\* before it was made.
QuietMeansSaved ==
    (~dirty /\ ~saveTimer /\ saves = <<>> /\ ~disturbed /\ id # None)
        => Exists(id) /\ rows[id].graph = graph

\* Undo and redo never bring back the graph of another board, which the save that
\* follows would write over this one's row.
UndoIsOfThisBoard ==
    \A e \in Range(undoStack) \cup Range(redoStack) : e.session = session

\* A walk of at most k steps leads from a to b.
Joined(a, b, k) ==
    \E p \in UNION {[1..m -> Drawn] : m \in 1..(k + 1)} :
        IsPath(graph, Shown, a, b, p)

\* The connection finder shows a path that is there and that no other is shorter than,
\* and says that there is none only when there is none.
PathIsShortest ==
    \A a, b \in Drawn :
        LET p == shortestPath(graph, Shown, a, b) IN
        IF p = <<>> THEN ~Joined(a, b, Cardinality(graph.nodes))
        ELSE /\ IsPath(graph, Shown, a, b, p)
             /\ Len(p) > 1 => ~Joined(a, b, Len(p) - 2)

===============================================================================
