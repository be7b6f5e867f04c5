----------------------------- MODULE BoardProofs -----------------------------
(***************************************************************************)
(* Theorems about InvestigationBoard for every set of entities and boards, *)
(* any number of clicks and checks, and every depth of the history.        *)
(***************************************************************************)
EXTENDS InvestigationBoard, SequenceTheorems, FiniteSetTheorems, WellFoundedInduction, TLAPS

-------------------------------------------------------------------------------
(* The inductive invariant *)

Snapshots == [graph: Graph(Entities), session: {session}]

RowsTyped ==
    /\ rows \in [Boards -> [state: {"none", "there", "gone"}, graph: Graph(Entities), watched: BOOLEAN]]
    /\ runner # None => runner \in [row: Boards, graph: Graph(Entities)]
    /\ checks \in 0..MaxGrowth

\* The history is that of the board object shown, and undo and redo share its depth.
BoardTyped ==
    /\ id \in Boards \cup {None}
    /\ graph \in Graph(Entities)
    /\ session \in Nat \ {0}
    /\ undoStack \in Seq(Snapshots) /\ redoStack \in Seq(Snapshots)
    /\ Len(undoStack) + Len(redoStack) <= UndoDepth

SavesTyped ==
    /\ dirty \in BOOLEAN /\ saveTimer \in BOOLEAN /\ disturbed \in BOOLEAN
    /\ saves \in Seq(Saves)

ViewTyped ==
    /\ opened \in BOOLEAN
    /\ detailed.node \in Entities \cup {None}
    /\ hidden \subseteq Range(TypeOf)
    /\ mode \in {"inspect", "link", "path"} /\ source \in Entities \cup {None}
    /\ mode = "inspect" => source = None

Known(i) == i \in Boards /\ rows[i].state # "none"

\* Nobody names a row before the server has made it.
RowsAreKnown ==
    /\ id # None => Known(id)
    /\ runner # None => Known(runner.row)
    /\ \A i \in Boards : Call("watch", i) \in calls => Known(i)
    /\ \A k \in DOMAIN saves :
        /\ saves[k].kind = "PUT" \/ saves[k].state = "stored" => Known(saves[k].row)

Holds(i, g) == i \in Boards /\ Exists(i) /\ rows[i].graph = g

\* No other writer has met the row yet.
Apart(i) ==
    /\ ~rows[i].watched
    /\ runner # None => runner.row # i
    /\ Call("watch", i) \notin calls

\* A save that is alone on its way brings the row what the board is, unless another
\* save is scheduled.
Brings(s) ==
    /\ ~saveTimer => s.graph = graph
    /\ s.kind = "PUT" => s.row = id
    /\ s.kind = "POST" => id = None
    /\ s.state = "stored" =>
        /\ Holds(s.row, s.graph)
        /\ s.kind = "POST" => Apart(s.row)

\* As long as no two writers have met.
Tracked ==
    ~disturbed =>
        /\ Len(saves) <= 1
        /\ \A k \in DOMAIN saves : Brings(saves[k])
        /\ ~dirty /\ ~saveTimer /\ saves = <<>> /\ id # None => Holds(id, graph)

CoreInv == RowsTyped /\ BoardTyped /\ SavesTyped /\ RowsAreKnown /\ Tracked

IInv == CoreInv /\ ViewTyped

-------------------------------------------------------------------------------
(* Facts about the operators *)

LEMMA GraphsStayGraphs ==
    ASSUME NEW g \in Graph(Entities), NEW n \in Entities, NEW m \in Entities,
           NEW part \in SUBSET Entities
    PROVE  /\ addNode(g, n) \in Graph(Entities)
           /\ addEdge(g, n, m) \in Graph(Entities)
           /\ mergeScan(g, n, part) \in Graph(Entities)
           /\ removeNode(g, n) \in Graph(Entities)
           /\ [g EXCEPT !.notes = (@ \ {n}) \cup ({n} \ @)] \in Graph(Entities)
<1> USE DEF Graph
<1>1. addNode(g, n) \in Graph(Entities)
  BY DEF addNode
<1>2. addEdge(g, n, m) \in Graph(Entities)
  BY DEF addEdge
<1>3. mergeScan(g, n, part) \in Graph(Entities)
  BY DEF mergeScan
<1>4. removeNode(g, n) \in Graph(Entities)
  BY DEF removeNode
<1>5. [g EXCEPT !.notes = (@ \ {n}) \cup ({n} \ @)] \in Graph(Entities)
  OBVIOUS
<1> QED BY <1>1, <1>2, <1>3, <1>4, <1>5

LEMMA MergedGraph ==
    ASSUME NEW g \in Graph(Entities), NEW h \in Graph(Entities)
    PROVE  /\ mergeGraph(g, h) \in Graph(Entities)
           /\ acknowledge(g) \in Graph(Entities)
BY DEF Graph, mergeGraph, acknowledge

LEMMA GrowGraph ==
    ASSUME NEW g \in Graph(Entities), NEW T \in SUBSET Entities
    PROVE  grow(g, T, Found) \in Graph(Entities)
<1> USE DEF Graph
<1> DEFINE linked(root) == Found[root] \ {root}
           all == UNION {linked(root) : root \in T}
           edges == UNION {{root} \X linked(root) : root \in T}
<1>1. \A root \in T : linked(root) \in SUBSET Entities /\ root \in Entities
  BY EntitiesAssumption
<1>2. all \in SUBSET Entities /\ edges \in SUBSET (Entities \X Entities)
  <2> HIDE DEF linked
  <2> QED BY <1>1
<1>3. grow(g, T, Found) = [g EXCEPT !.nodes = g.nodes \cup all, !.edges = g.edges \cup edges,
                                   !.new = g.new \cup (all \ g.nodes)]
  BY DEF grow
<1> HIDE DEF all, edges
<1> QED BY <1>2, <1>3

LEMMA NoGraphIsOne == NoGraph \in Graph(Entities)
BY DEF NoGraph, Graph

LEMMA MaxOfTwo ==
    ASSUME NEW k \in Int
    PROVE  Max({1, k}) = IF k <= 1 THEN 1 ELSE k
<1>1. \E m \in {1, k} : \A y \in {1, k} : m >= y
  <2>1. CASE k <= 1
    BY <2>1
  <2>2. CASE k > 1
    BY <2>2
  <2> QED BY <2>1, <2>2
<1>2. Max({1, k}) \in {1, k} /\ \A y \in {1, k} : Max({1, k}) >= y
  BY <1>1 DEF Max
<1> QED BY <1>2

LEMMA RangeOf == ASSUME NEW S, NEW x \in Seq(S) PROVE Range(x) \subseteq S
BY LenProperties, ElementOfSeq DEF Range

\* A save that is answered leaves the list of those on their way.
LEMMA OneLess ==
    ASSUME NEW S, NEW x \in Seq(S), NEW k \in DOMAIN x
    PROVE  LET y == SubSeq(x, 1, k - 1) \o SubSeq(x, k + 1, Len(x)) IN
           /\ y \in Seq(S) /\ Len(y) = Len(x) - 1
           /\ \A i \in DOMAIN y : \E j \in DOMAIN x : y[i] = x[j]
<1> DEFINE a == SubSeq(x, 1, k - 1)
           b == SubSeq(x, k + 1, Len(x))
<1>1. Len(x) \in Nat /\ DOMAIN x = 1..Len(x) /\ k \in 1..Len(x) /\ \A i \in 1..Len(x) : x[i] \in S
  BY LenProperties, ElementOfSeq
<1>2. a \in Seq(S) /\ Len(a) = k - 1 /\ \A i \in 1..(k - 1) : a[i] = x[i]
  <2>1. k - 1 \in Int /\ 1 \in Int /\ \A i \in 1..(k - 1) : x[i] \in S
    BY <1>1
  <2>2. /\ a \in Seq(S)
        /\ Len(a) = IF 1 <= k - 1 THEN k - 1 - 1 + 1 ELSE 0
        /\ \A i \in 1..(k - 1 - 1 + 1) : a[i] = x[1 + i - 1]
    BY <2>1, SubSeqProperties
  <2> QED BY <1>1, <2>2
<1>3. b \in Seq(S) /\ Len(b) = Len(x) - k /\ \A i \in 1..(Len(x) - k) : b[i] = x[k + i]
  <2>1. k + 1 \in Int /\ Len(x) \in Int /\ \A i \in (k + 1)..Len(x) : x[i] \in S
    BY <1>1
  <2>2. /\ b \in Seq(S)
        /\ Len(b) = IF k + 1 <= Len(x) THEN Len(x) - (k + 1) + 1 ELSE 0
        /\ \A i \in 1..(Len(x) - (k + 1) + 1) : b[i] = x[k + 1 + i - 1]
    BY <2>1, SubSeqProperties
  <2>3. \A i \in 1..(Len(x) - k) : k + 1 + i - 1 = k + i /\ i \in 1..(Len(x) - (k + 1) + 1)
    BY <1>1
  <2> HIDE DEF b
  <2> QED BY <1>1, <2>2, <2>3
<1> HIDE DEF a, b
<1>4. /\ a \o b \in Seq(S) /\ Len(a \o b) = Len(x) - 1
      /\ \A i \in 1..(Len(x) - 1) : (a \o b)[i] = IF i <= k - 1 THEN a[i] ELSE b[i - (k - 1)]
  <2>1. /\ a \o b \in Seq(S) /\ Len(a \o b) = Len(a) + Len(b)
        /\ \A i \in 1..(Len(a) + Len(b)) : (a \o b)[i] = IF i <= Len(a) THEN a[i] ELSE b[i - Len(a)]
    BY <1>2, <1>3, ConcatProperties
  <2>2. Len(a) = k - 1 /\ Len(a) + Len(b) = Len(x) - 1
    BY <1>1, <1>2, <1>3
  <2> QED BY <2>1, <2>2
<1>5. ASSUME NEW i \in DOMAIN (a \o b) PROVE \E j \in DOMAIN x : (a \o b)[i] = x[j]
  <2>1. i \in 1..(Len(x) - 1)
    BY <1>4, LenProperties
  <2>2. CASE i <= k - 1
    BY <1>1, <1>2, <1>4, <2>1, <2>2
  <2>3. CASE ~(i <= k - 1)
    <3>1. i - (k - 1) \in 1..(Len(x) - k) /\ k + (i - (k - 1)) \in 1..Len(x)
      BY <1>1, <2>1, <2>3
    <3> QED BY <1>1, <1>3, <1>4, <2>1, <2>3, <3>1
  <2> QED BY <2>2, <2>3
<1> QED BY <1>4, <1>5 DEF a, b

\* The snapshot of this graph is the last one, and the oldest may be gone.
LEMMA SnapshotKeeps ==
    ASSUME BoardTyped, snapshot
    PROVE  /\ undoStack' \in Seq(Snapshots) /\ redoStack' \in Seq(Snapshots)
           /\ Len(undoStack') + Len(redoStack') <= UndoDepth
<1> DEFINE u == Append(undoStack, Entry)
           k == Len(undoStack) + 2 - UndoDepth
           n == Len(undoStack) + 1
<1>1. /\ Entry \in Snapshots /\ undoStack \in Seq(Snapshots) /\ Len(undoStack) \in Nat
      /\ Len(redoStack) \in Nat /\ UndoDepth \in Nat \ {0} /\ Len(undoStack) <= UndoDepth
  <2>1. Len(undoStack) \in Nat /\ Len(redoStack) \in Nat
    BY LenProperties DEF BoardTyped
  <2> QED BY <2>1, UndoDepthAssumption DEF BoardTyped, Entry, Snapshots
<1>2. u \in Seq(Snapshots) /\ Len(u) = n
  BY <1>1, AppendProperties
<1>3. \A i \in 1..n : u[i] \in Snapshots
  BY <1>2, ElementOfSeq
<1>4. PICK m \in Int : m = Max({1, k}) /\ m >= 1 /\ m >= k
  BY <1>1, MaxOfTwo
<1>5. /\ SubSeq(u, m, n) \in Seq(Snapshots)
      /\ Len(SubSeq(u, m, n)) = IF m <= n THEN n - m + 1 ELSE 0
  <2>1. n \in Int /\ m \in Int /\ \A i \in m..n : u[i] \in Snapshots
    <3>1. n \in Int /\ m \in Int /\ \A i \in m..n : i \in 1..n
      <4>1. m >= 1 /\ n \in Int
        BY <1>1, <1>4
      <4> HIDE DEF n
      <4> QED BY <4>1
    <3> HIDE DEF u, n
    <3> QED BY <1>3, <3>1
  <2> HIDE DEF u, n
  <2> QED BY <2>1, SubSeqProperties
<1> DEFINE v == SubSeq(u, m, n)
<1>6. Len(v) <= UndoDepth /\ Len(v) \in Nat
  BY <1>1, <1>4, <1>5
<1>7. undoStack' = SubSeq(u, m, n) /\ redoStack' = <<>>
  BY <1>4 DEF snapshot
<1>8. <<>> \in Seq(Snapshots) /\ Len(<<>>) = 0
  BY EmptySeq
<1>9. v \in Seq(Snapshots) /\ undoStack' = v
  BY <1>5, <1>7
<1> HIDE DEF u, n, v
<1> QED BY <1>1, <1>6, <1>7, <1>8, <1>9

-------------------------------------------------------------------------------
(* What the parts of the handlers preserve *)

NoNewWatch == \A i \in Boards : Call("watch", i) \in calls' => Call("watch", i) \in calls

\* Requests and their answers that bring nothing.
LEMMA NothingChanges ==
    ASSUME CoreInv, UNCHANGED <<rowVars, boardVars, history, saveVars>>, NoNewWatch
    PROVE  CoreInv'
<1>1. RowsTyped'
  BY DEF CoreInv, RowsTyped, rowVars
<1>2. BoardTyped'
  BY DEF CoreInv, BoardTyped, boardVars, history, Snapshots
<1>3. SavesTyped'
  BY DEF CoreInv, SavesTyped, saveVars
<1>4. RowsAreKnown'
  BY DEF CoreInv, RowsAreKnown, Known, NoNewWatch, rowVars, boardVars, saveVars
<1>5. Tracked'
  BY DEF CoreInv, Tracked, Brings, Holds, Exists, Apart, NoNewWatch, rowVars, boardVars, saveVars
<1> QED BY <1>1, <1>2, <1>3, <1>4, <1>5 DEF CoreInv

\* A change of the board that is scheduled to be saved: whatever is on its way need
\* not be the board any more.
LEMMA ScheduledHolds ==
    ASSUME CoreInv, scheduleSave, NoNewWatch, UNCHANGED <<rowVars, id, session, saves, disturbed>>,
           graph' \in Graph(Entities),
           undoStack' \in Seq(Snapshots), redoStack' \in Seq(Snapshots),
           Len(undoStack') + Len(redoStack') <= UndoDepth
    PROVE  CoreInv'
<1>1. RowsTyped'
  BY DEF CoreInv, RowsTyped, rowVars
<1>2. BoardTyped'
  <2>1. Snapshots' = Snapshots
    BY DEF Snapshots
  <2> QED BY <2>1 DEF CoreInv, BoardTyped
<1>3. SavesTyped'
  BY DEF CoreInv, SavesTyped, scheduleSave
<1>4. RowsAreKnown'
  BY DEF CoreInv, RowsAreKnown, Known, NoNewWatch, rowVars
<1>5. Tracked'
  BY DEF CoreInv, Tracked, Brings, Holds, Exists, Apart, NoNewWatch, rowVars, scheduleSave
<1> QED BY <1>1, <1>2, <1>3, <1>4, <1>5 DEF CoreInv

LEMMA EditHolds ==
    ASSUME CoreInv, NEW g \in Graph(Entities), Edit(g), NoNewWatch PROVE CoreInv'
<1>1. /\ undoStack' \in Seq(Snapshots) /\ redoStack' \in Seq(Snapshots)
      /\ Len(undoStack') + Len(redoStack') <= UndoDepth
  BY SnapshotKeeps DEF Edit, CoreInv
<1>2. /\ scheduleSave /\ UNCHANGED <<rowVars, id, session, saves, disturbed>>
      /\ graph' \in Graph(Entities)
  BY DEF Edit
<1> QED BY <1>1, <1>2, ScheduledHolds

\* Another board takes the page: its row holds it, if it has one.
LEMMA ReplaceHolds ==
    ASSUME CoreInv, NEW i \in Boards \cup {None}, NEW g \in Graph(Entities), Replace(i, g),
           RowsTyped', \A b : Known(b) => Known(b)', i # None => Holds(i, g)',
           NoNewWatch, UNCHANGED <<runner, saves>>, dirty' \in BOOLEAN, saveTimer' \in BOOLEAN
    PROVE  CoreInv'
<1>1. BoardTyped'
  <2>1. <<>> \in Seq(Snapshots)' /\ Len(<<>>) = 0
    BY EmptySeq
  <2>2. session + 1 \in Nat \ {0} /\ UndoDepth >= 0
    BY UndoDepthAssumption DEF CoreInv, BoardTyped
  <2> QED BY <2>1, <2>2 DEF Replace, BoardTyped
<1>2. SavesTyped'
  BY DEF CoreInv, SavesTyped, Replace
<1>3. RowsAreKnown'
  <2>1. (id # None => Known(id))'
    BY DEF Replace, Holds, Exists, Known
  <2>2. (runner # None => Known(runner.row))'
    BY DEF CoreInv, RowsAreKnown, Known
  <2>3. \A b \in Boards : Call("watch", b) \in calls' => Known(b)'
    BY DEF CoreInv, RowsAreKnown, NoNewWatch
  <2>4. \A k \in DOMAIN saves : saves[k].kind = "PUT" \/ saves[k].state = "stored" => Known(saves[k].row)'
    BY DEF CoreInv, RowsAreKnown, Known
  <2> QED BY <2>1, <2>2, <2>3, <2>4 DEF RowsAreKnown, Known
<1>4. Tracked'
  <2> SUFFICES ASSUME ~disturbed' PROVE Tracked'
    BY DEF Tracked
  <2>1. saves' = <<>> /\ id' = i /\ graph' = g
    BY DEF Replace
  <2>2. i # None => Holds(id, graph)'
    BY <2>1 DEF Holds
  <2>3. Len(saves') <= 1 /\ DOMAIN saves' = {}
    BY <2>1
  <2> QED BY <2>1, <2>2, <2>3 DEF Tracked
<1> QED BY <1>1, <1>2, <1>3, <1>4 DEF CoreInv

LEMMA NotEmpty == ASSUME NEW S, NEW x \in Seq(S), Len(x) = 1 PROVE x # <<>>
<1> SUFFICES ASSUME x = <<>> PROVE FALSE
  OBVIOUS
<1>1. Len(<<>>) = 0
  BY EmptySeq
<1> QED BY <1>1

\* A save is the only one that is undisturbed if it finds no other on its way.
LEMMA SendHolds ==
    ASSUME CoreInv, NEW watch \in BOOLEAN, Send(watch), saveTimer' \in {saveTimer, FALSE}, NoNewWatch,
           UNCHANGED <<rowVars, boardVars, history, dirty>>
    PROVE  CoreInv'
<1> PICK s : s = [kind |-> IF id = None THEN "POST" ELSE "PUT", row |-> id,
                  graph |-> graph, state |-> "sent", watch |-> watch]
  OBVIOUS
<1>1. s \in Saves /\ saves \in Seq(Saves) /\ Len(saves) \in Nat /\ DOMAIN saves = 1..Len(saves)
  BY LenProperties DEF CoreInv, SavesTyped, BoardTyped, Saves
<1>2. /\ saves' = Append(saves, s) /\ saves' \in Seq(Saves) /\ Len(saves') = Len(saves) + 1
      /\ DOMAIN saves' = 1..(Len(saves) + 1)
      /\ \A i \in 1..Len(saves) : saves'[i] = saves[i]
      /\ saves'[Len(saves) + 1] = s
  <2>1. saves' = Append(saves, s)
    BY DEF Send
  <2>2. /\ saves' \in Seq(Saves) /\ Len(saves') = Len(saves) + 1
        /\ \A i \in 1..Len(saves) : saves'[i] = saves[i]
        /\ saves'[Len(saves) + 1] = s
    BY <1>1, <2>1, AppendProperties
  <2>3. DOMAIN saves' = 1..Len(saves')
    BY <2>2, LenProperties
  <2> QED BY <2>1, <2>2, <2>3
<1>3. disturbed' = (disturbed \/ saves # <<>>)
  BY DEF Send
<1>4. RowsTyped'
  BY DEF CoreInv, RowsTyped, rowVars
<1>5. BoardTyped'
  BY DEF CoreInv, BoardTyped, boardVars, history, Snapshots
<1>6. SavesTyped'
  BY <1>2, <1>3 DEF CoreInv, SavesTyped
<1>7. RowsAreKnown'
  <2>1. /\ (id # None => Known(id))' /\ (runner # None => Known(runner.row))'
        /\ \A b \in Boards : Call("watch", b) \in calls' => Known(b)'
    BY DEF CoreInv, RowsAreKnown, Known, NoNewWatch, rowVars, boardVars
  <2>2. ASSUME NEW k \in DOMAIN saves', saves'[k].kind = "PUT" \/ saves'[k].state = "stored"
        PROVE  saves'[k].row \in Boards /\ rows'[saves'[k].row].state # "none"
    <3>1. CASE k \in 1..Len(saves)
      BY <1>1, <1>2, <2>2, <3>1 DEF CoreInv, RowsAreKnown, Known, rowVars
    <3>2. CASE k = Len(saves) + 1
      BY <1>2, <2>2, <3>2 DEF CoreInv, RowsAreKnown, Known, rowVars
    <3> QED BY <1>1, <1>2, <2>2, <3>1, <3>2
  <2> QED BY <2>1, <2>2 DEF RowsAreKnown, Known
<1>8. Tracked'
  <2> SUFFICES ASSUME ~disturbed' PROVE Tracked'
    BY DEF Tracked
  <2>1. saves = <<>> /\ Len(saves) = 0
    BY <1>3
  <2>2. Len(saves') = 1 /\ DOMAIN saves' = {1} /\ saves'[1] = s
    BY <1>2, <2>1
  <2>3. Brings(s)'
    BY DEF Brings, boardVars
  <2> QED BY <2>2, <2>3 DEF Tracked
<1> QED BY <1>4, <1>5, <1>6, <1>7, <1>8 DEF CoreInv

LEMMA SaveHolds ==
    ASSUME CoreInv, saveBoard, saveTimer' \in {saveTimer, FALSE}, NoNewWatch,
           UNCHANGED <<rowVars, boardVars, history, dirty>>
    PROVE  CoreInv'
<1>1. CASE Send(FALSE)
  BY <1>1, SendHolds
<1>2. CASE graph.nodes = {} /\ id = None /\ UNCHANGED saves /\ disturbed' = (disturbed \/ saves # <<>>)
  <2>1. RowsTyped'
    BY DEF CoreInv, RowsTyped, rowVars
  <2>2. BoardTyped'
    BY DEF CoreInv, BoardTyped, boardVars, history, Snapshots
  <2>3. SavesTyped'
    BY <1>2 DEF CoreInv, SavesTyped
  <2>4. RowsAreKnown'
    BY <1>2 DEF CoreInv, RowsAreKnown, Known, NoNewWatch, rowVars, boardVars
  <2>5. Tracked'
    <3> SUFFICES ASSUME ~disturbed' PROVE Tracked'
      BY DEF Tracked
    <3>1. saves' = <<>> /\ id' = None
      BY <1>2 DEF boardVars
    <3>2. Len(saves') <= 1 /\ DOMAIN saves' = {}
      BY <3>1
    <3> QED BY <3>1, <3>2 DEF Tracked
  <2> QED BY <2>1, <2>2, <2>3, <2>4, <2>5 DEF CoreInv
<1> QED BY <1>1, <1>2 DEF saveBoard

\* What no claim is made of any more.
LEMMA DisturbedHolds ==
    ASSUME CoreInv, disturbed' = TRUE, RowsTyped', BoardTyped', NoNewWatch,
           \A b : Known(b) => Known(b)', UNCHANGED <<runner, id, dirty, saveTimer, saves>>
    PROVE  CoreInv'
<1>1. SavesTyped'
  BY DEF CoreInv, SavesTyped
<1>2. RowsAreKnown'
  <2>1. (id # None => Known(id))' /\ (runner # None => Known(runner.row))'
    BY DEF CoreInv, RowsAreKnown, Known
  <2>2. \A b \in Boards : Call("watch", b) \in calls' => Known(b)'
    BY DEF CoreInv, RowsAreKnown, NoNewWatch
  <2>3. \A k \in DOMAIN saves : saves[k].kind = "PUT" \/ saves[k].state = "stored" => Known(saves[k].row)'
    BY DEF CoreInv, RowsAreKnown
  <2> QED BY <2>1, <2>2, <2>3 DEF RowsAreKnown, Known
<1>3. Tracked'
  BY DEF Tracked
<1> QED BY <1>1, <1>2, <1>3 DEF CoreInv

LEMMA ServerHolds ==
    ASSUME CoreInv, NEW k \in DOMAIN saves, ServerSaves(k) PROVE CoreInv'
<1> PICK s : s = saves[k]
  OBVIOUS
<1>1. /\ saves \in Seq(Saves) /\ Len(saves) \in Nat /\ DOMAIN saves = 1..Len(saves) /\ s \in Saves
  BY LenProperties, ElementOfSeq DEF CoreInv, SavesTyped
<1>2. BoardTyped'
  BY DEF CoreInv, BoardTyped, boardVars, history, Snapshots, ServerSaves
<1>3. UNCHANGED <<runner, checks, boardVars, history, dirty, saveTimer, disturbed, calls>>
  BY DEF ServerSaves
<1>4. ASSUME NEW i \in Boards,
             IF s.kind = "PUT" THEN i = s.row /\ Exists(i) ELSE rows[i].state = "none",
             rows' = [rows EXCEPT ![i] = Row(s.graph, s.kind = "PUT" /\ rows[i].watched)],
             saves' = [saves EXCEPT ![k].state = "stored", ![k].row = i]
      PROVE  CoreInv'
  <2> PICK t : t = [s EXCEPT !.state = "stored", !.row = i]
    OBVIOUS
  <2>1. /\ t \in Saves /\ t.kind = s.kind /\ t.graph = s.graph /\ t.state = "stored" /\ t.row = i
        /\ s.graph \in Graph(Entities)
    BY <1>1 DEF Saves
  <2>2. saves' = [saves EXCEPT ![k] = t]
    BY <1>1, <1>4
  <2>3. /\ saves' \in Seq(Saves) /\ Len(saves') = Len(saves) /\ DOMAIN saves' = DOMAIN saves
        /\ saves'[k] = t /\ \A j \in DOMAIN saves : j # k => saves'[j] = saves[j]
    BY <1>1, <2>1, <2>2, ExceptSeq
  <2>4. /\ \A b \in Boards : rows'[b] = IF b = i THEN Row(s.graph, s.kind = "PUT" /\ rows[i].watched) ELSE rows[b]
        /\ \A b : Known(b) => Known(b)'
        /\ Known(i)'
        /\ RowsTyped'
    BY <1>3, <1>4, <2>1 DEF CoreInv, RowsTyped, Row, Known
  <2>5. SavesTyped'
    BY <1>3, <2>3 DEF CoreInv, SavesTyped
  <2>6. RowsAreKnown'
    <3>1. (id # None => Known(id))' /\ (runner # None => Known(runner.row))'
      BY <1>3, <2>4 DEF CoreInv, RowsAreKnown, Known, boardVars
    <3>2. \A b \in Boards : Call("watch", b) \in calls' => Known(b)'
      BY <1>3, <2>4 DEF CoreInv, RowsAreKnown
    <3>3. ASSUME NEW j \in DOMAIN saves', saves'[j].kind = "PUT" \/ saves'[j].state = "stored"
          PROVE  saves'[j].row \in Boards /\ rows'[saves'[j].row].state # "none"
      <4>1. CASE j = k
        BY <2>1, <2>3, <2>4, <4>1 DEF Known
      <4>2. CASE j # k
        <5>1. saves'[j] = saves[j] /\ Known(saves[j].row)
          BY <2>3, <3>3, <4>2 DEF CoreInv, RowsAreKnown
        <5> QED BY <2>4, <5>1 DEF Known
      <4> QED BY <4>1, <4>2
    <3> QED BY <3>1, <3>2, <3>3 DEF RowsAreKnown, Known
  <2>7. Tracked'
    <3> SUFFICES ASSUME ~disturbed PROVE Tracked'
      BY <1>3 DEF Tracked
    <3>1. Len(saves) <= 1 /\ Brings(s)
      BY DEF CoreInv, Tracked
    <3>2. k = 1 /\ Len(saves) = 1 /\ DOMAIN saves = {1}
      BY <1>1, <3>1
    <3>3. Holds(i, s.graph)'
      BY <2>4 DEF Holds, Exists, Row
    <3>4. s.kind = "POST" => Apart(i)'
      <4> SUFFICES ASSUME s.kind = "POST" PROVE Apart(i)'
        OBVIOUS
      <4>1. rows[i].state = "none" /\ ~rows'[i].watched
        <5>1. rows[i].state = "none"
          BY <1>4
        <5>2. rows'[i] = Row(s.graph, FALSE)
          BY <2>4
        <5> QED BY <5>1, <5>2 DEF Row
      <4> QED BY <1>3, <4>1 DEF CoreInv, RowsAreKnown, Known, Apart
    <3>5. Brings(t)'
      BY <1>3, <1>4, <2>1, <3>1, <3>3, <3>4 DEF Brings, boardVars, Holds, Exists, Apart
    <3>6. saves' # <<>>
      BY <2>3, <3>2, NotEmpty
    <3> QED BY <2>3, <3>2, <3>5, <3>6 DEF Tracked
  <2> QED BY <1>2, <2>4, <2>5, <2>6, <2>7 DEF CoreInv
<1>5. ASSUME saves' = [saves EXCEPT ![k].state = "refused"], UNCHANGED rows PROVE CoreInv'
  <2> PICK t : t = [s EXCEPT !.state = "refused"]
    OBVIOUS
  <2>1. t \in Saves /\ t.kind = s.kind /\ t.graph = s.graph /\ t.state = "refused" /\ t.row = s.row
    BY <1>1 DEF Saves
  <2>2. saves' = [saves EXCEPT ![k] = t]
    BY <1>1, <1>5
  <2>3. /\ saves' \in Seq(Saves) /\ Len(saves') = Len(saves) /\ DOMAIN saves' = DOMAIN saves
        /\ saves'[k] = t /\ \A j \in DOMAIN saves : j # k => saves'[j] = saves[j]
    BY <1>1, <2>1, <2>2, ExceptSeq
  <2>4. RowsTyped'
    BY <1>3, <1>5 DEF CoreInv, RowsTyped
  <2>5. SavesTyped'
    BY <1>3, <2>3 DEF CoreInv, SavesTyped
  <2>6. RowsAreKnown'
    <3>1. (id # None => Known(id))' /\ (runner # None => Known(runner.row))'
      BY <1>3, <1>5 DEF CoreInv, RowsAreKnown, Known, boardVars
    <3>2. \A b \in Boards : Call("watch", b) \in calls' => Known(b)'
      BY <1>3, <1>5 DEF CoreInv, RowsAreKnown, Known
    <3>3. ASSUME NEW j \in DOMAIN saves', saves'[j].kind = "PUT" \/ saves'[j].state = "stored"
          PROVE  saves'[j].row \in Boards /\ rows'[saves'[j].row].state # "none"
      BY <1>5, <2>1, <2>3, <3>3 DEF CoreInv, RowsAreKnown, Known
    <3> QED BY <3>1, <3>2, <3>3 DEF RowsAreKnown, Known
  <2>7. Tracked'
    <3> SUFFICES ASSUME ~disturbed PROVE Tracked'
      BY <1>3 DEF Tracked
    <3>1. Len(saves) <= 1 /\ Brings(s)
      BY DEF CoreInv, Tracked
    <3>2. k = 1 /\ Len(saves) = 1 /\ DOMAIN saves = {1}
      BY <1>1, <3>1
    <3>3. Brings(t)'
      BY <1>3, <2>1, <3>1 DEF Brings, boardVars
    <3>4. saves' # <<>>
      BY <2>3, <3>2, NotEmpty
    <3> QED BY <2>3, <3>2, <3>3, <3>4 DEF Tracked
  <2> QED BY <1>2, <2>4, <2>5, <2>6, <2>7 DEF CoreInv
<1> QED BY <1>4, <1>5 DEF ServerSaves

\* The board is saved once the answer of the only save has come.
LEMMA AnswerHolds ==
    ASSUME CoreInv, NEW k \in DOMAIN saves, saveAnswered(k) PROVE CoreInv'
<1> PICK s : s = saves[k]
  OBVIOUS
<1>1. /\ saves \in Seq(Saves) /\ Len(saves) \in Nat /\ DOMAIN saves = 1..Len(saves) /\ s \in Saves
      /\ k \in 1..Len(saves)
  BY LenProperties, ElementOfSeq DEF CoreInv, SavesTyped
<1>2. /\ UNCHANGED <<rowVars, graph, session, history, saveTimer>>
      /\ s.state # "sent"
      /\ id' = IF s.kind = "POST" /\ s.state = "stored" THEN s.row ELSE id
      /\ dirty' = (dirty /\ s.state # "stored")
      /\ disturbed' = (disturbed \/ (s.state = "refused" /\ ~dirty))
      /\ calls' = IF s.watch /\ id' # None THEN calls \cup {Call("watch", id')} ELSE calls
  BY DEF saveAnswered, Answered
<1>3. /\ saves' \in Seq(Saves) /\ Len(saves') = Len(saves) - 1
      /\ \A i \in DOMAIN saves' : \E j \in DOMAIN saves : saves'[i] = saves[j]
  BY <1>1, OneLess DEF saveAnswered, Answered
<1>4. id' # None => Known(id')
  BY <1>2 DEF CoreInv, RowsAreKnown
<1>5. RowsTyped'
  BY <1>2 DEF CoreInv, RowsTyped, rowVars
<1>6. BoardTyped'
  BY <1>2, <1>4 DEF CoreInv, BoardTyped, history, Snapshots, Known
<1>7. SavesTyped'
  BY <1>2, <1>3 DEF CoreInv, SavesTyped
<1>8. RowsAreKnown'
  <2>1. (id # None => Known(id))' /\ (runner # None => Known(runner.row))'
    BY <1>2, <1>4 DEF CoreInv, RowsAreKnown, Known, rowVars
  <2>2. ASSUME NEW b \in Boards, Call("watch", b) \in calls' PROVE Known(b)'
    <3>1. CASE Call("watch", b) \in calls
      BY <1>2, <3>1 DEF CoreInv, RowsAreKnown, Known, rowVars
    <3>2. CASE Call("watch", b) \notin calls
      <4>1. id' # None /\ Call("watch", b) = Call("watch", id')
        BY <1>2, <2>2, <3>2
      <4>2. b = id'
        BY <4>1 DEF Call
      <4> QED BY <1>2, <1>4, <4>1, <4>2 DEF Known, rowVars
    <3> QED BY <3>1, <3>2
  <2>3. ASSUME NEW i \in DOMAIN saves', saves'[i].kind = "PUT" \/ saves'[i].state = "stored"
        PROVE  saves'[i].row \in Boards /\ rows'[saves'[i].row].state # "none"
    <3>1. PICK j \in DOMAIN saves : saves'[i] = saves[j]
      BY <1>3
    <3> QED BY <1>2, <2>3, <3>1 DEF CoreInv, RowsAreKnown, Known, rowVars
  <2> QED BY <2>1, <2>2, <2>3 DEF RowsAreKnown, Known
<1>9. Tracked'
  <2> SUFFICES ASSUME ~disturbed' PROVE Tracked'
    BY DEF Tracked
  <2>1. ~disturbed /\ (s.state = "refused" => dirty)
    BY <1>2
  <2>2. Len(saves) <= 1 /\ Brings(s)
    BY <2>1 DEF CoreInv, Tracked
  <2>3. Len(saves') = 0 /\ DOMAIN saves' = {}
    <3>1. Len(saves') = 0
      BY <1>1, <1>3, <2>2
    <3>2. DOMAIN saves' = 1..Len(saves')
      BY <1>3, LenProperties
    <3> QED BY <3>1, <3>2
  <2>4. ASSUME ~dirty', ~saveTimer' PROVE Holds(id, graph)'
    <3>1. s.state = "stored" /\ ~saveTimer
      BY <1>1, <1>2, <2>1, <2>4 DEF Saves
    <3>2. Holds(s.row, graph) /\ id' = s.row
      BY <1>1, <1>2, <2>2, <3>1 DEF Brings, Saves
    <3> QED BY <1>2, <3>2 DEF Holds, Exists, rowVars
  <2> QED BY <2>3, <2>4 DEF Tracked
<1> QED BY <1>5, <1>6, <1>7, <1>8, <1>9 DEF CoreInv

\* What a row says of its watch matters only to the runner.
LEMMA WatchHolds ==
    ASSUME CoreInv, NEW i \in Boards, watchAnswered(i) PROVE CoreInv'
<1>1. /\ Call("watch", i) \in calls
      /\ UNCHANGED <<runner, checks, boardVars, history, saveVars>>
      /\ NoNewWatch
  BY DEF watchAnswered, NoNewWatch
<1>2. CASE UNCHANGED rows
  BY <1>1, <1>2, NothingChanges DEF rowVars
<1>3. ASSUME NEW on \in BOOLEAN, rows' = [rows EXCEPT ![i].watched = on] PROVE CoreInv'
  <2>1. /\ RowsTyped'
        /\ \A b \in Boards : /\ rows'[b].state = rows[b].state /\ rows'[b].graph = rows[b].graph
                             /\ b # i => rows'[b] = rows[b]
    BY <1>1, <1>3 DEF CoreInv, RowsTyped
  <2>2. BoardTyped'
    BY <1>1 DEF CoreInv, BoardTyped, boardVars, history, Snapshots
  <2>3. SavesTyped'
    BY <1>1 DEF CoreInv, SavesTyped, saveVars
  <2>4. RowsAreKnown'
    BY <1>1, <2>1 DEF CoreInv, RowsAreKnown, Known, NoNewWatch, boardVars, saveVars
  <2>5. Tracked'
    <3> SUFFICES ASSUME ~disturbed PROVE Tracked'
      BY <1>1 DEF Tracked, saveVars
    <3>1. ASSUME NEW k \in DOMAIN saves PROVE Brings(saves[k])'
      <4> PICK s : s = saves[k]
        OBVIOUS
      <4>1. Brings(s)
        BY DEF CoreInv, Tracked
      <4>2. Brings(s)'
        BY <1>1, <2>1, <4>1 DEF Brings, Holds, Exists, Apart, NoNewWatch, boardVars, saveVars
      <4> QED BY <1>1, <4>2 DEF saveVars
    <3>2. (~dirty /\ ~saveTimer /\ saves = <<>> /\ id # None) => Holds(id, graph)'
      BY <1>1, <2>1 DEF CoreInv, Tracked, Holds, Exists, boardVars
    <3> QED BY <1>1, <3>1, <3>2 DEF CoreInv, Tracked, saveVars, boardVars
  <2> QED BY <2>1, <2>2, <2>3, <2>4, <2>5 DEF CoreInv
<1> QED BY <1>2, <1>3 DEF watchAnswered

\* The runner takes watched rows only, and a row a save has just made is not watched.
LEMMA RunnerStartHolds ==
    ASSUME CoreInv, NEW i \in Boards, RunnerStart(i) PROVE CoreInv'
<1>1. /\ runner' = [row |-> i, graph |-> rows[i].graph] /\ Exists(i) /\ rows[i].watched
      /\ UNCHANGED <<rows, boardVars, history, saveVars, calls>>
  BY DEF RunnerStart
<1>2. RowsTyped'
  BY <1>1, GrowthAssumption DEF CoreInv, RowsTyped, RunnerStart
<1>3. BoardTyped'
  BY <1>1 DEF CoreInv, BoardTyped, boardVars, history, Snapshots
<1>4. SavesTyped'
  BY <1>1 DEF CoreInv, SavesTyped, saveVars
<1>5. RowsAreKnown'
  BY <1>1 DEF CoreInv, RowsAreKnown, Known, Exists, boardVars, saveVars
<1>6. Tracked'
  BY <1>1 DEF CoreInv, Tracked, Brings, Holds, Exists, Apart, boardVars, saveVars
<1> QED BY <1>2, <1>3, <1>4, <1>5, <1>6 DEF CoreInv

\* It writes the open board's row only as a writer that is known to have met it.
LEMMA RunnerGrowsHolds ==
    ASSUME CoreInv, runner # None, NEW T \in SUBSET runner.graph.nodes, RunnerGrows(T) PROVE CoreInv'
<1> PICK g : g = grow(runner.graph, T, Found)
  OBVIOUS
<1>1. /\ runner' = None
      /\ UNCHANGED <<checks, boardVars, history, dirty, saveTimer, saves, calls>>
      /\ \/ rows' = [rows EXCEPT ![runner.row].graph = g] /\ disturbed' = (disturbed \/ runner.row = id)
         \/ UNCHANGED <<rows, disturbed>>
  BY DEF RunnerGrows
<1>2. runner.row \in Boards /\ g \in Graph(Entities)
  <2>1. runner.row \in Boards /\ runner.graph \in Graph(Entities) /\ T \in SUBSET Entities
    BY DEF CoreInv, RowsTyped, Graph
  <2> QED BY <2>1, GrowGraph
<1>3. /\ RowsTyped'
      /\ \A b \in Boards : /\ rows'[b].state = rows[b].state /\ rows'[b].watched = rows[b].watched
                           /\ b # runner.row \/ UNCHANGED <<rows, disturbed>> => rows'[b] = rows[b]
  BY <1>1, <1>2 DEF CoreInv, RowsTyped
<1>4. BoardTyped'
  BY <1>1 DEF CoreInv, BoardTyped, boardVars, history, Snapshots
<1>5. SavesTyped'
  BY <1>1 DEF CoreInv, SavesTyped
<1>6. RowsAreKnown'
  BY <1>1, <1>3 DEF CoreInv, RowsAreKnown, Known, boardVars
<1>7. Tracked'
  <2> SUFFICES ASSUME ~disturbed' PROVE Tracked'
    BY DEF Tracked
  <2>1. ~disturbed /\ (runner.row # id \/ UNCHANGED rows)
    <3>1. CASE disturbed' = (disturbed \/ runner.row = id)
      <4>1. ~(disturbed \/ runner.row = id)
        BY <3>1
      <4> QED BY <4>1
    <3>2. CASE UNCHANGED <<rows, disturbed>>
      BY <3>2
    <3> QED BY <1>1, <3>1, <3>2
  <2>2. ASSUME NEW k \in DOMAIN saves PROVE Brings(saves[k])'
    <3> PICK s : s = saves[k]
      OBVIOUS
    <3>1. Brings(s) /\ (s.kind = "POST" \/ s.kind = "PUT")
      <4>1. s \in Saves
        BY ElementOfSeq, LenProperties DEF CoreInv, SavesTyped
      <4> QED BY <2>1, <4>1 DEF CoreInv, Tracked, Saves
    <3>2. s.state = "stored" => s.row # runner.row \/ UNCHANGED rows
      BY <2>1, <3>1 DEF Brings, Apart
    <3>3. Brings(s)'
      BY <1>1, <1>3, <3>1, <3>2 DEF Brings, Holds, Exists, Apart, boardVars
    <3> QED BY <1>1, <3>3
  <2>3. (~dirty /\ ~saveTimer /\ saves = <<>> /\ id # None) => Holds(id, graph)'
    BY <1>1, <1>3, <2>1 DEF CoreInv, Tracked, Holds, Exists, boardVars
  <2> QED BY <1>1, <2>1, <2>2, <2>3 DEF CoreInv, Tracked, boardVars
<1> QED BY <1>3, <1>4, <1>5, <1>6, <1>7 DEF CoreInv

-------------------------------------------------------------------------------
(* The actions *)

LEMMA InitHolds == Init => IInv
<1> SUFFICES ASSUME Init PROVE IInv
  OBVIOUS
<1>1. \A i \in Boards : Stored[i] # None => Stored[i] \in Graph(Entities)
  BY BoardsAssumption
<1>2. RowsTyped
  <2>1. ASSUME NEW i \in Boards
        PROVE  (IF Stored[i] = None THEN [Row(NoGraph, FALSE) EXCEPT !.state = "none"] ELSE Row(Stored[i], TRUE))
                 \in [state: {"none", "there", "gone"}, graph: Graph(Entities), watched: BOOLEAN]
    BY <1>1, NoGraphIsOne DEF Row
  <2>2. rows \in [Boards -> [state: {"none", "there", "gone"}, graph: Graph(Entities), watched: BOOLEAN]]
    BY <2>1, Zenon DEF Init
  <2>3. runner = None /\ checks \in 0..MaxGrowth
    BY GrowthAssumption DEF Init
  <2> QED BY <2>2, <2>3 DEF RowsTyped
<1>3. BoardTyped
  <2>1. <<>> \in Seq(Snapshots) /\ Len(<<>>) = 0
    BY EmptySeq
  <2> QED BY <1>1, <2>1, BoardsAssumption, UndoDepthAssumption DEF Init, BoardTyped
<1>4. SavesTyped
  BY EmptySeq DEF Init, SavesTyped
<1>5. ViewTyped
  BY DEF Init, ViewTyped, NoNode
<1>6. id = 1 /\ rows[1] = Row(Stored[1], TRUE) /\ 1 \in Boards /\ DOMAIN saves = {} /\ Len(saves) <= 1
  BY BoardsAssumption DEF Init
<1>7. RowsAreKnown
  BY <1>6 DEF Init, RowsAreKnown, Known, Row
<1>8. Tracked
  BY <1>6 DEF Init, Tracked, Holds, Exists, Row
<1> QED BY <1>2, <1>3, <1>4, <1>5, <1>7, <1>8 DEF IInv, CoreInv

LEMMA ViewKept == ViewTyped /\ UNCHANGED viewVars => ViewTyped'
BY DEF ViewTyped, viewVars

\* addFromInput, removeSelected, annotate, dragNode, acknowledgeNew, importFile
LEMMA EditingHolds ==
    ASSUME IInv,
           \/ \E n \in Entities : addFromInput(n) \/ importFile(n)
           \/ removeSelected \/ annotate \/ dragNode \/ acknowledgeNew
    PROVE  IInv'
<1> USE DEF IInv
<1>1. graph \in Graph(Entities)
  BY DEF CoreInv, BoardTyped
<1>2. /\ acknowledge(graph) \in Graph(Entities)
      /\ \A n \in Entities :
           /\ addNode(graph, n) \in Graph(Entities) /\ removeNode(graph, n) \in Graph(Entities)
           /\ [graph EXCEPT !.notes = (@ \ {n}) \cup ({n} \ @)] \in Graph(Entities)
  BY <1>1, GraphsStayGraphs, MergedGraph
<1>3. UNCHANGED calls => NoNewWatch
  BY DEF NoNewWatch
<1>4. ASSUME NEW n \in Entities, addFromInput(n) PROVE IInv'
  <2>1. CoreInv'
    BY <1>2, <1>3, <1>4, EditHolds DEF addFromInput
  <2>2. ViewTyped'
    BY <1>4 DEF addFromInput, ViewTyped
  <2> QED BY <2>1, <2>2
<1>5. ASSUME NEW n \in Entities, importFile(n) PROVE IInv'
  <2>1. NoNewWatch /\ ViewTyped'
    BY <1>3, <1>5, ViewKept DEF importFile
  <2>2. CASE Edit(addNode(graph, n))
    BY <1>2, <2>1, <2>2, EditHolds
  <2>3. CASE /\ snapshot /\ graph' \in {graph, addNode(graph, n)} /\ disturbed' = TRUE
             /\ UNCHANGED <<rowVars, id, session, dirty, saveTimer, saves>>
    <3>1. /\ undoStack' \in Seq(Snapshots) /\ redoStack' \in Seq(Snapshots)
          /\ Len(undoStack') + Len(redoStack') <= UndoDepth
      BY <2>3, SnapshotKeeps DEF CoreInv
    <3>2. RowsTyped'
      BY <2>3 DEF CoreInv, RowsTyped, rowVars
    <3>3. Snapshots' = Snapshots
      BY <2>3 DEF Snapshots
    <3>4. BoardTyped'
      BY <1>1, <1>2, <2>3, <3>1, <3>3 DEF CoreInv, BoardTyped
    <3>5. \A b : Known(b) => Known(b)'
      BY <2>3 DEF Known, rowVars
    <3> QED BY <2>1, <2>3, <3>2, <3>4, <3>5, DisturbedHolds DEF rowVars
  <2> QED BY <1>5, <2>2, <2>3 DEF importFile
<1>6. CASE removeSelected
  <2>1. detailed.node \in Entities
    BY <1>6 DEF removeSelected, ViewTyped
  <2>2. CoreInv'
    BY <1>2, <1>3, <1>6, <2>1, EditHolds DEF removeSelected
  <2>3. ViewTyped'
    BY <1>6 DEF removeSelected, ViewTyped, NoNode
  <2> QED BY <2>2, <2>3
<1>7. CASE annotate
  <2>1. detailed.node \in Entities
    BY <1>7 DEF annotate, ViewTyped
  <2>2. graph' \in Graph(Entities)
    BY <1>1, <1>2, <1>7, <2>1 DEF annotate
  <2>3. /\ scheduleSave /\ NoNewWatch /\ UNCHANGED <<rowVars, id, session, saves, disturbed, history, viewVars>>
    BY <1>3, <1>7 DEF annotate
  <2>4. /\ undoStack' \in Seq(Snapshots) /\ redoStack' \in Seq(Snapshots)
        /\ Len(undoStack') + Len(redoStack') <= UndoDepth
    BY <2>3 DEF CoreInv, BoardTyped, history
  <2> QED BY <2>2, <2>3, <2>4, ScheduledHolds, ViewKept
<1>8. CASE dragNode
  <2>1. /\ scheduleSave /\ NoNewWatch /\ UNCHANGED <<rowVars, boardVars, saves, disturbed, history, viewVars>>
    BY <1>3, <1>8 DEF dragNode
  <2>2. /\ undoStack' \in Seq(Snapshots) /\ redoStack' \in Seq(Snapshots)
        /\ Len(undoStack') + Len(redoStack') <= UndoDepth
    BY <2>1 DEF CoreInv, BoardTyped, history
  <2> QED BY <1>1, <2>1, <2>2, ScheduledHolds, ViewKept DEF boardVars
<1>9. CASE acknowledgeNew
  BY <1>2, <1>3, <1>9, EditHolds, ViewKept DEF acknowledgeNew
<1> QED BY <1>4, <1>5, <1>6, <1>7, <1>8, <1>9

\* The last of a stack goes to the other one, and their depth together stays.
LEMMA StackMoves ==
    ASSUME NEW S, NEW x \in Seq(S), NEW y \in Seq(S), x # <<>>, NEW e \in S
    PROVE  /\ SubSeq(x, 1, Len(x) - 1) \in Seq(S) /\ Append(y, e) \in Seq(S)
           /\ Len(SubSeq(x, 1, Len(x) - 1)) = Len(x) - 1 /\ Len(Append(y, e)) = Len(y) + 1
           /\ x[Len(x)] \in S
<1>1. Len(x) \in Nat \ {0} /\ Len(y) \in Nat /\ \A i \in 1..Len(x) : x[i] \in S
  BY EmptySeq, LenProperties, ElementOfSeq
<1>2. Append(y, e) \in Seq(S) /\ Len(Append(y, e)) = Len(y) + 1
  BY AppendProperties
<1>3. /\ SubSeq(x, 1, Len(x) - 1) \in Seq(S)
      /\ Len(SubSeq(x, 1, Len(x) - 1)) = IF 1 <= Len(x) - 1 THEN Len(x) - 1 - 1 + 1 ELSE 0
  <2>1. 1 \in Int /\ Len(x) - 1 \in Int /\ \A i \in 1..(Len(x) - 1) : x[i] \in S
    BY <1>1
  <2> QED BY <2>1, SubSeqProperties
<1>4. Len(SubSeq(x, 1, Len(x) - 1)) = Len(x) - 1
  <2> PICK m \in Nat \ {0} : m = Len(x)
    BY <1>1
  <2>1. Len(SubSeq(x, 1, m - 1)) = IF 1 <= m - 1 THEN m - 1 - 1 + 1 ELSE 0
    BY <1>3
  <2> QED BY <2>1
<1>5. Len(x) \in 1..Len(x)
  BY <1>1
<1> QED BY <1>1, <1>2, <1>3, <1>4, <1>5

LEMMA HistoryHolds == ASSUME IInv, undo \/ redo PROVE IInv'
<1> USE DEF IInv
<1>1. /\ undoStack \in Seq(Snapshots) /\ redoStack \in Seq(Snapshots) /\ Entry \in Snapshots
      /\ Len(undoStack) + Len(redoStack) <= UndoDepth
      /\ Len(undoStack) \in Nat /\ Len(redoStack) \in Nat
  BY LenProperties DEF CoreInv, BoardTyped, Entry, Snapshots
<1>2. \E g \in Graph(Entities) :
        /\ restoreState(g)
        /\ undoStack' \in Seq(Snapshots) /\ redoStack' \in Seq(Snapshots)
        /\ Len(undoStack') + Len(redoStack') <= UndoDepth
  <2>1. CASE undo
    <3>1. /\ undoStack # <<>> /\ redoStack' = Append(redoStack, Entry)
          /\ undoStack' = SubSeq(undoStack, 1, Len(undoStack) - 1)
          /\ restoreState(undoStack[Len(undoStack)].graph)
      BY <2>1 DEF undo
    <3>2. /\ undoStack' \in Seq(Snapshots) /\ redoStack' \in Seq(Snapshots)
          /\ Len(undoStack') = Len(undoStack) - 1 /\ Len(redoStack') = Len(redoStack) + 1
          /\ undoStack[Len(undoStack)] \in Snapshots
      <4>0. undoStack \in Seq(Snapshots) /\ redoStack \in Seq(Snapshots) /\ undoStack # <<>> /\ Entry \in Snapshots
        BY <1>1, <3>1
      <4>1. /\ SubSeq(undoStack, 1, Len(undoStack) - 1) \in Seq(Snapshots)
            /\ Append(redoStack, Entry) \in Seq(Snapshots)
            /\ Len(SubSeq(undoStack, 1, Len(undoStack) - 1)) = Len(undoStack) - 1
            /\ Len(Append(redoStack, Entry)) = Len(redoStack) + 1
            /\ undoStack[Len(undoStack)] \in Snapshots
        BY <4>0, StackMoves
      <4> QED BY <3>1, <4>1
    <3>3. undoStack[Len(undoStack)].graph \in Graph(Entities)
      BY <3>2 DEF Snapshots
    <3>4. Len(undoStack') + Len(redoStack') <= UndoDepth
      BY <1>1, <3>2, UndoDepthAssumption
    <3> QED BY <3>1, <3>2, <3>3, <3>4
  <2>2. CASE redo
    <3>1. /\ redoStack # <<>> /\ undoStack' = Append(undoStack, Entry)
          /\ redoStack' = SubSeq(redoStack, 1, Len(redoStack) - 1)
          /\ restoreState(redoStack[Len(redoStack)].graph)
      BY <2>2 DEF redo
    <3>2. /\ undoStack' \in Seq(Snapshots) /\ redoStack' \in Seq(Snapshots)
          /\ Len(redoStack') = Len(redoStack) - 1 /\ Len(undoStack') = Len(undoStack) + 1
          /\ redoStack[Len(redoStack)] \in Snapshots
      <4>0. redoStack \in Seq(Snapshots) /\ undoStack \in Seq(Snapshots) /\ redoStack # <<>> /\ Entry \in Snapshots
        BY <1>1, <3>1
      <4>1. /\ SubSeq(redoStack, 1, Len(redoStack) - 1) \in Seq(Snapshots)
            /\ Append(undoStack, Entry) \in Seq(Snapshots)
            /\ Len(SubSeq(redoStack, 1, Len(redoStack) - 1)) = Len(redoStack) - 1
            /\ Len(Append(undoStack, Entry)) = Len(undoStack) + 1
            /\ redoStack[Len(redoStack)] \in Snapshots
        BY <4>0, StackMoves
      <4> QED BY <3>1, <4>1
    <3>3. redoStack[Len(redoStack)].graph \in Graph(Entities)
      BY <3>2 DEF Snapshots
    <3>4. Len(undoStack') + Len(redoStack') <= UndoDepth
      BY <1>1, <3>2, UndoDepthAssumption
    <3> QED BY <3>1, <3>2, <3>3, <3>4
  <2> QED BY <2>1, <2>2
<1>3. PICK g \in Graph(Entities) : restoreState(g)
  BY <1>2
<1>4. CoreInv'
  <2>1. graph' = g /\ scheduleSave /\ NoNewWatch /\ UNCHANGED <<rowVars, id, session, saves, disturbed>>
    BY <1>3 DEF restoreState, NoNewWatch
  <2> QED BY <1>2, <2>1, ScheduledHolds
<1>5. ViewTyped'
  BY <1>3 DEF restoreState, ViewTyped, NoNode
<1> QED BY <1>4, <1>5

\* A new board has neither row nor nodes.
LEMMA NewBoardHolds == ASSUME IInv, clickNewBoard PROVE IInv'
<1> USE DEF IInv
<1>1. /\ Replace(None, NoGraph) /\ detailed' = NoNode
      /\ UNCHANGED <<rowVars, dirty, saveTimer, saves, calls, opened, hidden, mode, source>>
  BY DEF clickNewBoard, newBoard
<1>2. RowsTyped' /\ \A b : Known(b) => Known(b)'
  BY <1>1 DEF CoreInv, RowsTyped, Known, rowVars
<1>3. dirty' \in BOOLEAN /\ saveTimer' \in BOOLEAN /\ NoNewWatch /\ UNCHANGED <<runner, saves>>
  BY <1>1 DEF CoreInv, SavesTyped, NoNewWatch, rowVars
<1>4. CoreInv'
  BY <1>1, <1>2, <1>3, NoGraphIsOne, ReplaceHolds
<1>5. ViewTyped'
  BY <1>1 DEF ViewTyped, NoNode
<1> QED BY <1>4, <1>5

\* toggleLinkMode, togglePathMode, toggleFilter, escape, onNodeClick
LEMMA ModesHold ==
    ASSUME IInv,
           \/ toggleLinkMode \/ togglePathMode \/ escape
           \/ \E t \in Range(TypeOf) : toggleFilter(t)
           \/ \E n \in Entities : onNodeClick(n)
    PROVE  IInv'
<1> USE DEF IInv
<1>1. UNCHANGED calls => NoNewWatch
  BY DEF NoNewWatch
<1>2. UNCHANGED <<rowVars, boardVars, history, saveVars, calls>> => CoreInv'
  BY <1>1, NothingChanges
<1>3. CASE toggleLinkMode \/ togglePathMode
  <2>1. PICK m \in {"link", "path"} : toggleMode(m)
    BY <1>3 DEF toggleLinkMode, togglePathMode
  <2>2. CoreInv'
    BY <1>2, <2>1 DEF toggleMode
  <2>3. ViewTyped'
    BY <2>1 DEF toggleMode, ViewTyped
  <2> QED BY <2>2, <2>3
<1>4. CASE escape
  <2>1. CoreInv'
    BY <1>2, <1>4 DEF escape
  <2>2. ViewTyped'
    BY <1>4 DEF escape, ViewTyped, NoNode
  <2> QED BY <2>1, <2>2
<1>5. ASSUME NEW t \in Range(TypeOf), toggleFilter(t) PROVE IInv'
  <2>1. CoreInv'
    BY <1>2, <1>5 DEF toggleFilter
  <2>2. ViewTyped'
    BY <1>5 DEF toggleFilter, ViewTyped
  <2> QED BY <2>1, <2>2
<1>6. ASSUME NEW n \in Entities, onNodeClick(n) PROVE IInv'
  <2>1. CASE mode = "link" /\ source \notin {None, n}
    <3>1. source \in Entities /\ graph \in Graph(Entities)
      BY <2>1 DEF ViewTyped, CoreInv, BoardTyped
    <3>2. addEdge(graph, source, n) \in Graph(Entities)
      BY <3>1, GraphsStayGraphs
    <3> QED BY <1>1, <1>6, <2>1, <3>2, EditHolds DEF onNodeClick, ViewTyped
  <2>2. CASE ~(mode = "link" /\ source \notin {None, n})
    BY <1>2, <1>6, <2>2 DEF onNodeClick, ViewTyped
  <2> QED BY <2>1, <2>2
<1> QED BY <1>3, <1>4, <1>5, <1>6

\* A request other than for a watch, and its answer, concern no row that is not known.
LEMMA OtherRequests ==
    ASSUME NEW kind \in {"expand", "load", "merge", "delete"}, NEW about,
           calls' = calls \cup {Call(kind, about)} \/ calls' = calls \ {Call(kind, about)}
    PROVE  NoNewWatch
BY DEF NoNewWatch, Call

\* expand, loadBoard, mergeBoard, deleteBoard, changeInterval, toggleWatch
LEMMA RequestsHold ==
    ASSUME IInv,
           \/ \E n \in Entities : expand(n)
           \/ \E i \in Boards : loadBoard(i) \/ mergeBoard(i)
           \/ changeInterval \/ toggleWatch \/ deleteBoard
    PROVE  IInv'
<1> USE DEF IInv
<1>1. ASSUME NEW kind \in {"expand", "load", "merge", "delete"}, NEW about, Request(Call(kind, about))
      PROVE  IInv'
  <2>1. NoNewWatch
    BY <1>1, OtherRequests DEF Request
  <2> QED BY <1>1, <2>1, NothingChanges, ViewKept DEF Request
<1>2. ASSUME id # None, calls' = calls \cup {Call("watch", id)},
             UNCHANGED <<rowVars, boardVars, history, saveVars, viewVars>>
      PROVE  IInv'
  <2>1. RowsTyped' /\ BoardTyped' /\ SavesTyped'
    BY <1>2 DEF CoreInv, RowsTyped, BoardTyped, SavesTyped, Snapshots, rowVars, boardVars, history, saveVars
  <2>2. RowsAreKnown'
    BY <1>2 DEF CoreInv, RowsAreKnown, Known, Call, rowVars, boardVars, saveVars
  <2>3. Tracked'
    <3> SUFFICES ASSUME ~disturbed PROVE Tracked'
      BY <1>2 DEF Tracked, saveVars
    <3>1. ASSUME NEW k \in DOMAIN saves PROVE Brings(saves[k])'
      <4> PICK s : s = saves[k]
        OBVIOUS
      <4>1. Brings(s) /\ s.kind \in {"POST", "PUT"}
        <5>1. s \in Saves
          BY ElementOfSeq, LenProperties DEF CoreInv, SavesTyped
        <5> QED BY <5>1 DEF CoreInv, Tracked, Saves
      <4>2. Brings(s)'
        BY <1>2, <4>1 DEF Brings, Holds, Exists, rowVars, boardVars, saveVars
      <4> QED BY <1>2, <4>2 DEF saveVars
    <3>2. (~dirty /\ ~saveTimer /\ saves = <<>> /\ id # None) => Holds(id, graph)'
      BY <1>2 DEF CoreInv, Tracked, Holds, Exists, rowVars, boardVars
    <3> QED BY <1>2, <3>1, <3>2 DEF CoreInv, Tracked, saveVars, boardVars
  <2> QED BY <1>2, <2>1, <2>2, <2>3, ViewKept DEF CoreInv
<1>3. ASSUME NEW n \in Entities, expand(n) PROVE IInv'
  BY <1>1, <1>3 DEF expand
<1>4. ASSUME NEW i \in Boards, loadBoard(i) \/ mergeBoard(i) PROVE IInv'
  BY <1>1, <1>4 DEF loadBoard, mergeBoard
<1>5. CASE changeInterval
  BY <1>2, <1>5 DEF changeInterval, Request
<1>6. CASE toggleWatch
  <2>1. CASE id = None
    <3>1. Send(TRUE) /\ UNCHANGED <<calls, rowVars, boardVars, history, dirty, saveTimer, viewVars>>
      BY <1>6, <2>1 DEF toggleWatch
    <3>2. NoNewWatch
      BY <3>1 DEF NoNewWatch
    <3> QED BY <3>1, <3>2, SendHolds, ViewKept
  <2>2. CASE id # None
    BY <1>2, <1>6, <2>2 DEF toggleWatch, saveVars
  <2> QED BY <2>1, <2>2
<1>7. CASE deleteBoard
  <2>1. CASE id = None
    BY <1>7, <2>1, NewBoardHolds DEF deleteBoard
  <2>2. CASE id # None
    BY <1>1, <1>7, <2>2 DEF deleteBoard
  <2> QED BY <2>1, <2>2
<1> QED BY <1>3, <1>4, <1>5, <1>6, <1>7

\* expanded, loaded, merged, deleted
LEMMA AnswersHold ==
    ASSUME IInv,
           \/ \E n \in Entities : expanded(n)
           \/ \E i \in Boards : loaded(i) \/ merged(i) \/ deleted(i)
    PROVE  IInv'
<1> USE DEF IInv
<1>1. graph \in Graph(Entities) /\ \A i \in Boards : rows[i].graph \in Graph(Entities)
  BY DEF CoreInv, BoardTyped, RowsTyped
<1>2. ASSUME NEW n \in Entities, expanded(n) PROVE IInv'
  <2>1. NoNewWatch /\ UNCHANGED viewVars
    BY <1>2, OtherRequests DEF expanded
  <2>2. ASSUME NEW part \in {{}, Found[n]}, Edit(mergeScan(graph, n, part)) PROVE CoreInv'
    <3>1. part \in SUBSET Entities
      BY EntitiesAssumption
    <3>2. mergeScan(graph, n, part) \in Graph(Entities)
      BY <1>1, <3>1, GraphsStayGraphs
    <3> QED BY <2>1, <2>2, <3>2, EditHolds
  <2>3. CASE UNCHANGED <<rowVars, boardVars, history, saveVars>>
    BY <2>1, <2>3, NothingChanges, ViewKept
  <2> QED BY <1>2, <2>1, <2>2, <2>3, ViewKept DEF expanded
<1>3. ASSUME NEW i \in Boards, loaded(i) PROVE IInv'
  <2>1. NoNewWatch /\ UNCHANGED <<rowVars, dirty, saveTimer, saves, viewVars>>
    BY <1>3, OtherRequests DEF loaded
  <2>2. CASE Exists(i) /\ Replace(i, rows[i].graph)
    <3> PICK g : g = rows[i].graph
      OBVIOUS
    <3>1. Holds(i, g)' /\ g \in Graph(Entities) /\ Replace(i, g)
      BY <1>1, <2>1, <2>2 DEF Holds, Exists, rowVars
    <3>2. RowsTyped' /\ \A b : Known(b) => Known(b)'
      BY <2>1 DEF CoreInv, RowsTyped, Known, rowVars
    <3>3. dirty' \in BOOLEAN /\ saveTimer' \in BOOLEAN /\ UNCHANGED <<runner, saves>>
      BY <2>1 DEF CoreInv, SavesTyped, rowVars
    <3>4. CoreInv'
      BY <2>1, <3>1, <3>2, <3>3, ReplaceHolds
    <3> QED BY <2>1, <3>4, ViewKept
  <2>3. CASE UNCHANGED <<boardVars, history, disturbed>>
    <3>1. CoreInv'
      BY <2>1, <2>3, NothingChanges DEF saveVars
    <3> QED BY <2>1, <3>1, ViewKept
  <2> QED BY <1>3, <2>2, <2>3 DEF loaded
<1>4. ASSUME NEW i \in Boards, merged(i) PROVE IInv'
  <2>1. NoNewWatch /\ UNCHANGED <<opened, hidden, mode, source>>
    BY <1>4, OtherRequests DEF merged
  <2>2. CASE Edit(mergeGraph(graph, rows[i].graph)) /\ detailed' = NoNode
    <3>1. mergeGraph(graph, rows[i].graph) \in Graph(Entities)
      BY <1>1, MergedGraph
    <3>2. CoreInv'
      BY <2>1, <2>2, <3>1, EditHolds
    <3> QED BY <2>1, <2>2, <3>2 DEF ViewTyped, NoNode
  <2>3. CASE UNCHANGED <<rowVars, boardVars, history, saveVars, detailed>>
    <3>1. CoreInv'
      BY <2>1, <2>3, NothingChanges
    <3> QED BY <2>1, <2>3, <3>1, ViewKept DEF viewVars
  <2> QED BY <1>4, <2>2, <2>3 DEF merged
<1>5. ASSUME NEW i \in Boards, deleted(i) PROVE IInv'
  <2>1. /\ NoNewWatch /\ Replace(None, NoGraph) /\ detailed' = NoNode
        /\ UNCHANGED <<runner, checks, dirty, saveTimer, saves, opened, hidden, mode, source>>
        /\ rows' = [rows EXCEPT ![i].state = "gone"] \/ UNCHANGED rows
    BY <1>5, OtherRequests DEF deleted, newBoard
  <2>2. RowsTyped' /\ \A b : Known(b) => Known(b)'
    BY <2>1 DEF CoreInv, RowsTyped, Known
  <2>3. dirty' \in BOOLEAN /\ saveTimer' \in BOOLEAN
    BY <2>1 DEF CoreInv, SavesTyped
  <2>4. CoreInv'
    BY <2>1, <2>2, <2>3, NoGraphIsOne, ReplaceHolds
  <2>5. ViewTyped'
    BY <2>1 DEF ViewTyped, NoNode
  <2> QED BY <2>4, <2>5
<1> QED BY <1>2, <1>3, <1>4, <1>5

\* clickSave, saveTimerFires, clickBoards, close
LEMMA SavingHolds ==
    ASSUME IInv, clickSave \/ saveTimerFires \/ clickBoards \/ close PROVE IInv'
<1> USE DEF IInv
<1>1. UNCHANGED calls => NoNewWatch
  BY DEF NoNewWatch
<1>2. CASE clickSave
  <2>1. /\ saveBoard /\ saveTimer' \in {saveTimer, FALSE}
        /\ UNCHANGED <<rowVars, boardVars, history, dirty, calls, viewVars>>
    BY <1>2 DEF clickSave
  <2> QED BY <1>1, <2>1, SaveHolds, ViewKept
<1>3. CASE saveTimerFires
  <2>1. /\ saveBoard /\ saveTimer' \in {saveTimer, FALSE}
        /\ UNCHANGED <<rowVars, boardVars, history, dirty, calls, viewVars>>
    BY <1>3 DEF saveTimerFires
  <2> QED BY <1>1, <2>1, SaveHolds, ViewKept
<1>4. CASE clickBoards
  <2>1. CoreInv'
    BY <1>1, <1>4, NothingChanges DEF clickBoards
  <2> QED BY <1>4, <2>1 DEF clickBoards, open, ViewTyped
<1>5. CASE close
  <2>1. /\ opened' = FALSE
        /\ UNCHANGED <<rowVars, boardVars, history, dirty, saveTimer, calls, detailed, hidden, mode, source>>
        /\ saveBoard \/ UNCHANGED <<saves, disturbed>>
    BY <1>5 DEF close
  <2>2. CASE saveBoard
    <3>1. saveTimer' \in {saveTimer, FALSE} /\ UNCHANGED <<rowVars, boardVars, history, dirty>>
      BY <2>1
    <3> QED BY <1>1, <2>1, <2>2, <3>1, SaveHolds DEF ViewTyped
  <2>3. CASE UNCHANGED <<saves, disturbed>>
    <3>1. CoreInv'
      BY <1>1, <2>1, <2>3, NothingChanges DEF saveVars
    <3> QED BY <2>1, <3>1 DEF ViewTyped
  <2> QED BY <2>1, <2>2, <2>3
<1> QED BY <1>2, <1>3, <1>4, <1>5

\* seedFromScan, seedFromDarkWeb
LEMMA SeedHolds ==
    ASSUME IInv, NEW n \in Entities, seedFromScan(n) \/ seedFromDarkWeb(n) PROVE IInv'
<1> USE DEF IInv
<1>1. ASSUME NEW g \in Graph(Entities), Seed(g) PROVE IInv'
  <2>1. /\ Replace(None, g) /\ detailed' = NoNode /\ open /\ scheduleSave
        /\ UNCHANGED <<rowVars, saves, calls, hidden>>
    BY <1>1 DEF Seed
  <2>2. RowsTyped' /\ \A b : Known(b) => Known(b)'
    BY <2>1 DEF CoreInv, RowsTyped, Known, rowVars
  <2>3. dirty' \in BOOLEAN /\ saveTimer' \in BOOLEAN /\ NoNewWatch /\ UNCHANGED <<runner, saves>>
    BY <2>1 DEF scheduleSave, NoNewWatch, rowVars
  <2>4. CoreInv'
    BY <2>1, <2>2, <2>3, ReplaceHolds
  <2>5. ViewTyped'
    BY <2>1 DEF ViewTyped, NoNode, open
  <2> QED BY <2>4, <2>5
<1>2. PICK h \in Graph(Entities) : h = mergeScan(addNode(NoGraph, n), n, Found[n])
  <2>1. Found[n] \in SUBSET Entities
    BY EntitiesAssumption
  <2>2. addNode(NoGraph, n) \in Graph(Entities)
    BY NoGraphIsOne, GraphsStayGraphs
  <2> QED BY <2>1, <2>2, GraphsStayGraphs
<1>3. CASE seedFromScan(n)
  BY <1>1, <1>2, <1>3 DEF seedFromScan
<1>4. CASE seedFromDarkWeb(n)
  <2>1. PICK related \in SUBSET (Found[n] \X Found[n]) :
               Seed(mergeGraph(h, [NoGraph EXCEPT !.edges = related]))
    BY <1>2, <1>4 DEF seedFromDarkWeb
  <2>2. [NoGraph EXCEPT !.edges = related] \in Graph(Entities)
    BY EntitiesAssumption DEF NoGraph, Graph
  <2>3. mergeGraph(h, [NoGraph EXCEPT !.edges = related]) \in Graph(Entities)
    BY <2>2, MergedGraph
  <2> QED BY <1>1, <2>1, <2>3
<1> QED BY <1>3, <1>4

\* Every step of the page, of the server and of the runner.
LEMMA StepHolds == IInv /\ [Next]_vars => IInv'
<1> SUFFICES ASSUME IInv, [Next]_vars PROVE IInv'
  OBVIOUS
<1>1. ASSUME NEW n \in Entities,
             \/ addFromInput(n) \/ importFile(n) \/ onNodeClick(n) \/ expand(n) \/ expanded(n)
             \/ seedFromScan(n) \/ seedFromDarkWeb(n)
      PROVE  IInv'
  BY <1>1, EditingHolds, ModesHold, RequestsHold, AnswersHold, SeedHolds
<1>2. ASSUME NEW i \in Boards, loadBoard(i) \/ loaded(i) \/ mergeBoard(i) \/ merged(i) \/ deleted(i)
      PROVE  IInv'
  BY <1>2, RequestsHold, AnswersHold
<1>3. ASSUME NEW i \in Boards, watchAnswered(i) PROVE IInv'
  BY <1>3, WatchHolds, ViewKept DEF IInv, watchAnswered
<1>4. ASSUME NEW i \in Boards, RunnerStart(i) PROVE IInv'
  BY <1>4, RunnerStartHolds, ViewKept DEF IInv, RunnerStart
<1>5. ASSUME NEW k \in DOMAIN saves, ServerSaves(k) PROVE IInv'
  BY <1>5, ServerHolds, ViewKept DEF IInv, ServerSaves
<1>6. ASSUME NEW k \in DOMAIN saves, saveAnswered(k) PROVE IInv'
  BY <1>6, AnswerHolds, ViewKept DEF IInv, saveAnswered, Answered
<1>7. ASSUME NEW t \in Range(TypeOf), toggleFilter(t) PROVE IInv'
  BY <1>7, ModesHold
<1>8. ASSUME removeSelected \/ annotate \/ dragNode \/ acknowledgeNew PROVE IInv'
  BY <1>8, EditingHolds
<1>9. ASSUME undo \/ redo PROVE IInv'
  BY <1>9, HistoryHolds
<1>10. ASSUME toggleLinkMode \/ togglePathMode \/ escape PROVE IInv'
  BY <1>10, ModesHold
<1>11. ASSUME toggleWatch \/ changeInterval \/ deleteBoard PROVE IInv'
  BY <1>11, RequestsHold
<1>12. ASSUME clickNewBoard PROVE IInv'
  BY <1>12, NewBoardHolds
<1>13. ASSUME clickSave \/ saveTimerFires \/ clickBoards \/ close PROVE IInv'
  BY <1>13, SavingHolds
<1>14. ASSUME runner # None, NEW T \in SUBSET runner.graph.nodes, RunnerGrows(T) PROVE IInv'
  BY <1>14, RunnerGrowsHolds, ViewKept DEF IInv, RunnerGrows
<1>15. CASE UNCHANGED vars
  <2>1. UNCHANGED <<rowVars, boardVars, history, saveVars, viewVars>> /\ NoNewWatch
    BY <1>15 DEF vars, NoNewWatch
  <2> QED BY <2>1, NothingChanges, ViewKept DEF IInv
<1> QED BY <1>1, <1>2, <1>3, <1>4, <1>5, <1>6, <1>7, <1>8, <1>9, <1>10, <1>11, <1>12, <1>13,
           <1>14, <1>15 DEF Next

-------------------------------------------------------------------------------
(* Induction over the natural numbers *)

\* A set that has 0, and with each number the next, has them all.
LEMMA Induction ==
    ASSUME NEW T, 0 \in T, \A n \in Nat : n \in T => n + 1 \in T
    PROVE  \A n \in Nat : n \in T
<1> DEFINE R == OpToRel(<, Nat)
           Rest == Nat \ T
<1>1. SUFFICES ASSUME Rest # {} PROVE FALSE
  OBVIOUS
<1>2. \E x \in Rest : \A y \in Rest : ~(<<y, x>> \in R)
  <2>1. IsWellFoundedOn(R, Nat)
    BY Zenon, NatLessThanWellFounded
  <2> HIDE DEF R
  <2> QED BY <1>1, <2>1, WFMin
<1>3. \A x, y \in Nat : y < x => <<y, x>> \in R
  BY DEF OpToRel
<1> HIDE DEF R
<1>4. PICK x \in Rest : \A y \in Rest : ~(y < x)
  BY <1>2, <1>3
<1>5. x \in Nat /\ x # 0 /\ x - 1 \in Nat /\ x - 1 < x
  OBVIOUS
<1>6. x - 1 \in T
  BY <1>4, <1>5
<1> QED BY <1>5, <1>6

\* x, and what f makes of it again and again.
IsIteration(h, x, f, k) ==
    h = [i \in 0..k |-> IF i = 0 THEN x ELSE f[h[i - 1]]]

\* There is such a function.
LEMMA Iterated ==
    ASSUME NEW S, NEW x \in S, NEW f \in [S -> S], NEW k \in Nat
    PROVE  \E h \in [0..k -> S] : IsIteration(h, x, f, k)
<1> DEFINE T == {n \in Nat : \E h \in [0..n -> S] : IsIteration(h, x, f, n)}
<1>1. 0 \in T
  <2> DEFINE h == [i \in 0..0 |-> x]
  <2>1. h \in [0..0 -> S] /\ IsIteration(h, x, f, 0)
    BY DEF IsIteration
  <2> QED BY <2>1
<1>2. ASSUME NEW n \in Nat, n \in T PROVE n + 1 \in T
  <2>1. PICK h \in [0..n -> S] : IsIteration(h, x, f, n)
    BY <1>2
  <2> DEFINE e == [i \in 0..(n + 1) |-> IF i = n + 1 THEN f[h[n]] ELSE h[i]]
  <2>2. e \in [0..(n + 1) -> S]
    OBVIOUS
  <2>3. ASSUME NEW i \in 0..(n + 1) PROVE e[i] = IF i = 0 THEN x ELSE f[e[i - 1]]
    <3>1. CASE i = n + 1
      BY <3>1
    <3>2. CASE i # n + 1
      <4>1. i \in 0..n /\ (i # 0 => i - 1 \in 0..n /\ i - 1 # n + 1 /\ i - 1 \in 0..(n + 1))
        BY <3>2
      <4>2. h[i] = IF i = 0 THEN x ELSE f[h[i - 1]]
        BY <2>1, <4>1 DEF IsIteration
      <4> QED BY <3>2, <4>1, <4>2
    <3> QED BY <3>1, <3>2
  <2>4. IsIteration(e, x, f, n + 1)
    BY <2>3 DEF IsIteration
  <2> HIDE DEF e
  <2> QED BY <2>2, <2>4
<1> HIDE DEF T
<1>3. k \in T
  BY <1>1, <1>2, Induction
<1> QED BY <1>3 DEF T

-------------------------------------------------------------------------------
(* The connection finder: the rounds of its search *)

\* The rounds of a search from a.
IsSearch(h, g, shown, a, k) ==
    /\ DOMAIN h = 0..k
    /\ h[0] = [n \in {a} |-> a]
    /\ \A i \in 1..k : h[i] = Round(g, shown, h[i - 1])

\* What a round makes of prev.
IsRound(next, g, shown, prev) ==
    /\ next = [n \in DOMAIN next |-> next[n]]
    /\ DOMAIN prev \subseteq DOMAIN next
    /\ \A n \in DOMAIN prev : next[n] = prev[n] /\ Adjacent(g, shown, n) \subseteq DOMAIN next
    /\ \A n \in DOMAIN next \ DOMAIN prev :
        next[n] \in DOMAIN prev /\ n \in Adjacent(g, shown, next[n])

\* A round keeps what is there and adds every neighbour, each with a node it was
\* reached from.
LEMMA RoundIs ==
    ASSUME NEW g, NEW shown, NEW prev
    PROVE  IsRound(Round(g, shown, prev), g, shown, prev)
<1> DEFINE old == DOMAIN prev
           all == UNION {Adjacent(g, shown, n) : n \in old}
           more == all \ old
           next == Round(g, shown, prev)
<1>1. next = [n \in old \cup all |->
                IF n \in old THEN prev[n] ELSE CHOOSE m \in old : n \in Adjacent(g, shown, m)]
  BY DEF Round
<1>2. ASSUME NEW n \in more
      PROVE  LET m == CHOOSE m \in old : n \in Adjacent(g, shown, m)
             IN  m \in old /\ n \in Adjacent(g, shown, m)
  <2>1. \E m \in old : n \in Adjacent(g, shown, m)
    OBVIOUS
  <2> QED BY <2>1
<1>3. \A n \in old : Adjacent(g, shown, n) \subseteq all
  OBVIOUS
<1> HIDE DEF all
<1>4. more \cap old = {} /\ old \cup more = old \cup all
  OBVIOUS
<1> HIDE DEF next, old, more
<1>5. DOMAIN next = old \cup more /\ next = [n \in DOMAIN next |-> next[n]]
  BY <1>1, <1>4
<1>6. \A n \in old : next[n] = prev[n]
  BY <1>1
<1>7. \A n \in more : next[n] \in old /\ n \in Adjacent(g, shown, next[n])
  BY <1>1, <1>2, <1>4
<1>8. DOMAIN next \ old = more /\ old \subseteq DOMAIN next /\ all \subseteq DOMAIN next
  BY <1>4, <1>5
<1> USE DEF old
<1>9. \A n \in DOMAIN prev : next[n] = prev[n] /\ Adjacent(g, shown, n) \subseteq DOMAIN next
  BY <1>3, <1>6, <1>8
<1> QED BY <1>5, <1>7, <1>8, <1>9 DEF next, IsRound

\* The recursive function of Reached is the rounds of a search.
LEMMA ReachedIsSearch ==
    ASSUME NEW g, NEW shown, NEW a, NEW k \in Nat
    PROVE  \E h : IsSearch(h, g, shown, a, k) /\ h[k] = Reached(g, shown, a, k)
<1> DEFINE N == g.nodes \cup {a}
           S == UNION {[D -> N] : D \in SUBSET N}
           x == [n \in {a} |-> a]
           f == [p \in S |-> Round(g, shown, p)]
           Is(h) == h = [i \in 0..k |-> IF i = 0 THEN x ELSE Round(g, shown, h[i - 1])]
<1>1. x \in S
  <2>1. x \in [{a} -> N] /\ {a} \in SUBSET N
    OBVIOUS
  <2> QED BY <2>1
<1>2. ASSUME NEW p \in S PROVE Round(g, shown, p) \in S
  <2> DEFINE r == Round(g, shown, p)
  <2>1. PICK D \in SUBSET N : p \in [D -> N]
    OBVIOUS
  <2>2. IsRound(r, g, shown, p)
    BY RoundIs
  <2> HIDE DEF r
  <2>3. \A n : Adjacent(g, shown, n) \subseteq N
    BY DEF Adjacent
  <2> HIDE DEF N
  <2>4. DOMAIN p = D
    BY <2>1
  <2>5. \A n \in DOMAIN r : n \in N /\ r[n] \in N
    <3> TAKE n \in DOMAIN r
    <3>1. CASE n \in D
      BY <2>1, <2>2, <2>4, <3>1 DEF IsRound
    <3>2. CASE n \notin D
      <4>1. r[n] \in D /\ n \in Adjacent(g, shown, r[n])
        BY <2>2, <2>4, <3>2 DEF IsRound
      <4> QED BY <2>1, <2>3, <4>1
    <3> QED BY <3>1, <3>2
  <2>6. r = [n \in DOMAIN r |-> r[n]]
    BY <2>2 DEF IsRound
  <2>7. DOMAIN r \in SUBSET N /\ r \in [DOMAIN r -> N]
    BY <2>5, <2>6
  <2> QED BY <2>7 DEF r
<1> HIDE DEF S, x
<1>3. f \in [S -> S]
  BY <1>2
<1> HIDE DEF f
<1>4. PICK h \in [0..k -> S] : IsIteration(h, x, f, k)
  BY <1>1, <1>3, Iterated
<1>5. h = [i \in 0..k |-> IF i = 0 THEN x ELSE f[h[i - 1]]]
  BY <1>4 DEF IsIteration
<1>6. Is(h)
  <2>1. ASSUME NEW i \in 0..k PROVE h[i] = IF i = 0 THEN x ELSE Round(g, shown, h[i - 1])
    <3>1. CASE i = 0
      BY <1>5, <3>1
    <3>2. CASE i # 0
      <4>1. i - 1 \in 0..k
        BY <3>2
      <4>2. h[i - 1] \in S
        BY <4>1
      <4>3. f[h[i - 1]] = Round(g, shown, h[i - 1])
        BY <4>2 DEF f
      <4> QED BY <1>5, <3>2, <4>3
    <3> QED BY <3>1, <3>2
  <2>2. h = [i \in 0..k |-> h[i]]
    OBVIOUS
  <2> QED BY <2>1, <2>2
<1> DEFINE prev == CHOOSE e : Is(e)
<1>7. Is(prev)
  BY <1>6
<1>8. Reached(g, shown, a, k) = prev[k]
  BY DEF Reached, x
<1> HIDE DEF prev
<1>9. IsSearch(prev, g, shown, a, k)
  <2>1. DOMAIN prev = 0..k /\ prev[0] = x
    BY <1>7
  <2>2. \A i \in 1..k : prev[i] = Round(g, shown, prev[i - 1])
    BY <1>7
  <2> QED BY <2>1, <2>2 DEF IsSearch, x
<1> QED BY <1>8, <1>9

\* What is known of the rounds h: they only add, and a node that one adds is next to a
\* node that the round before it had added.
Levels(h, g, shown, a, k) ==
    /\ \A n : n \in DOMAIN h[0] <=> n = a
    /\ \A i, j \in 0..k : i <= j =>
        \A n \in DOMAIN h[i] : n \in DOMAIN h[j] /\ h[j][n] = h[i][n]
    /\ \A i \in 1..k : \A n \in DOMAIN h[i - 1] : Adjacent(g, shown, n) \subseteq DOMAIN h[i]
    /\ \A i \in 1..k : \A n \in DOMAIN h[i] : n \notin DOMAIN h[i - 1] =>
        /\ h[i][n] \in DOMAIN h[i - 1] /\ n \in Adjacent(g, shown, h[i][n])
        /\ i > 1 => h[i][n] \notin DOMAIN h[i - 2]
    /\ h[0][a] = a

\* Each is a level of the breadth-first search.
LEMMA SearchHasLevels ==
    ASSUME NEW h, NEW g, NEW shown, NEW a, NEW k \in Nat, IsSearch(h, g, shown, a, k)
    PROVE  Levels(h, g, shown, a, k)
<1> DEFINE D(i) == DOMAIN h[i]
           Keeps(i, j) == \A n \in D(i) : n \in D(j) /\ h[j][n] = h[i][n]
<1>1. \A n : n \in D(0) <=> n = a
  <2>1. h[0] = [n \in {a} |-> a]
    BY DEF IsSearch
  <2>2. D(0) = {a}
    BY <2>1
  <2> HIDE DEF D
  <2> QED BY <2>2
<1>2. \A i \in 1..k : IsRound(h[i], g, shown, h[i - 1])
  BY RoundIs DEF IsSearch
<1>3. ASSUME NEW i \in 1..k
      PROVE  /\ Keeps(i - 1, i)
             /\ \A n \in D(i - 1) : Adjacent(g, shown, n) \subseteq D(i)
             /\ \A n \in D(i) : n \notin D(i - 1) =>
                    h[i][n] \in D(i - 1) /\ n \in Adjacent(g, shown, h[i][n])
  BY <1>2 DEF IsRound
<1> HIDE DEF D
<1>4. ASSUME NEW i \in 0..k PROVE \A j \in 0..k : i <= j => Keeps(i, j)
  <2> DEFINE T == {j \in Nat : i <= j /\ j <= k => Keeps(i, j)}
  <2>1. 0 \in T
    <3>1. 0 = i \/ ~(i <= 0)
      OBVIOUS
    <3> QED BY <3>1
  <2>2. ASSUME NEW j \in Nat, j \in T PROVE j + 1 \in T
    <3>1. SUFFICES ASSUME i <= j + 1, j + 1 <= k PROVE Keeps(i, j + 1)
      OBVIOUS
    <3>2. CASE i = j + 1
      BY <3>2
    <3>3. CASE i # j + 1
      <4>1. i <= j /\ j <= k /\ j + 1 \in 1..k /\ (j + 1) - 1 = j
        BY <3>1, <3>3
      <4>2. Keeps(i, j)
        BY <2>2, <4>1
      <4>3. Keeps(j, j + 1)
        BY <1>3, <4>1
      <4> QED BY <4>2, <4>3
    <3> QED BY <3>2, <3>3
  <2> HIDE DEF T
  <2>3. \A j \in Nat : j \in T
    BY <2>1, <2>2, Induction
  <2> HIDE DEF Keeps
  <2> QED BY <2>3 DEF T
<1>5. ASSUME NEW i \in 1..k, NEW n \in D(i), n \notin D(i - 1), i > 1
      PROVE  h[i][n] \notin D(i - 2)
  <2>1. SUFFICES ASSUME h[i][n] \in D(i - 2) PROVE FALSE
    OBVIOUS
  <2>2. i - 1 \in 1..k /\ (i - 1) - 1 = i - 2
    BY <1>5
  <2>3. Adjacent(g, shown, h[i][n]) \subseteq D(i - 1)
    BY <1>3, <2>1, <2>2
  <2>4. n \in Adjacent(g, shown, h[i][n])
    BY <1>3, <1>5
  <2> QED BY <1>5, <2>3, <2>4
<1>6. h[0][a] = a
  <2>1. h[0] = [n \in {a} |-> a]
    BY DEF IsSearch
  <2> QED BY <2>1
<1> QED BY <1>1, <1>3, <1>4, <1>5, <1>6 DEF Levels, D

\* A walk gets no further than the search.
LEMMA WalkIsReached ==
    ASSUME NEW h, NEW g, NEW shown, NEW a, NEW k \in Nat, Levels(h, g, shown, a, k),
           NEW m \in Nat \ {0}, NEW p \in [1..m -> g.nodes \cap shown], m - 1 <= k,
           NEW b, IsPath(g, shown, a, b, p)
    PROVE  b \in DOMAIN h[m - 1]
<1> DEFINE T == {i \in Nat : i + 1 <= m => p[i + 1] \in DOMAIN h[i]}
<1>1. Len(p) = m
  OBVIOUS
<1>2. p[1] = a /\ p[m] = b
  BY <1>1 DEF IsPath
<1>3. 0 \in T
  BY <1>2 DEF Levels
<1>4. ASSUME NEW i \in Nat, i \in T PROVE i + 1 \in T
  <2>1. SUFFICES ASSUME i + 2 <= m PROVE p[i + 2] \in DOMAIN h[i + 1]
    OBVIOUS
  <2>2. i + 1 \in 1..m /\ i + 2 \in 1..m /\ i + 1 \in 1..(m - 1) /\ i + 1 \in 1..k
    BY <2>1
  <2>3. p[i + 1] \in DOMAIN h[i]
    BY <1>4, <2>1
  <2>4. <<p[i + 1], p[i + 2]>> \in g.edges \/ <<p[i + 2], p[i + 1]>> \in g.edges
    <3>1. \A j \in 1..(m - 1) : <<p[j], p[j + 1]>> \in g.edges \/ <<p[j + 1], p[j]>> \in g.edges
      BY <1>1 DEF IsPath
    <3>2. (i + 1) + 1 = i + 2
      OBVIOUS
    <3> QED BY <2>2, <3>1, <3>2
  <2>5. p[i + 1] \in g.nodes \cap shown /\ p[i + 2] \in g.nodes \cap shown
    BY <2>2
  <2>6. p[i + 2] \in Adjacent(g, shown, p[i + 1])
    BY <2>4, <2>5 DEF Adjacent
  <2>7. \A j \in 1..k : \A n \in DOMAIN h[j - 1] : Adjacent(g, shown, n) \subseteq DOMAIN h[j]
    BY DEF Levels
  <2>8. (i + 1) - 1 = i
    OBVIOUS
  <2> QED BY <2>2, <2>3, <2>6, <2>7, <2>8
<1> HIDE DEF T
<1>5. m - 1 \in Nat /\ m - 1 \in T /\ (m - 1) + 1 = m
  BY <1>3, <1>4, Induction
<1> QED BY <1>2, <1>5 DEF T

-------------------------------------------------------------------------------
(* The connection finder: the path back *)

\* What shortestPath has after i steps back from b, which the round j has added.
Trail(p, h, g, shown, b, j, i, k) ==
    /\ p \in Seq(DOMAIN h[k]) /\ Len(p) = i + 1
    /\ p[i + 1] = b
    /\ p[1] \in DOMAIN h[j - i] /\ (i < j => p[1] \notin DOMAIN h[j - (i + 1)])
    /\ \A t \in 1..i : p[t + 1] \in Adjacent(g, shown, p[t])

\* One step back is one level down, to where the node was reached from.
LEMMA BackGoesOn ==
    ASSUME NEW h, NEW g, NEW shown, NEW a, NEW b, NEW k \in Nat, Levels(h, g, shown, a, k),
           NEW j \in 0..k, NEW i \in Nat, i < j, NEW p, Trail(p, h, g, shown, b, j, i, k)
    PROVE  Trail(Back(h[k], a, p), h, g, shown, b, j, i + 1, k)
<1> DEFINE D == DOMAIN h[k]
           first == p[1]
           from == h[k][first]
           l == j - i
<1>1. l \in 1..k /\ l - 1 = j - (i + 1) /\ l - 1 \in 0..k /\ 0 \in 0..k /\ k \in 0..k
  OBVIOUS
<1>2. first \in DOMAIN h[l] /\ first \notin DOMAIN h[l - 1] /\ p \in Seq(D) /\ Len(p) = i + 1
  BY <1>1 DEF Trail
<1> HIDE DEF l, first
<1>3. first # a
  BY <1>1, <1>2 DEF Levels
<1>4. from = h[l][first]
  BY <1>1, <1>2 DEF Levels
<1>5. /\ from \in DOMAIN h[l - 1] /\ first \in Adjacent(g, shown, from)
      /\ l > 1 => from \notin DOMAIN h[l - 2]
  BY <1>1, <1>2, <1>4 DEF Levels
<1>6. from \in D
  BY <1>1, <1>5 DEF Levels
<1> DEFINE q == Back(h[k], a, p)
<1>7. q = <<from>> \o p
  BY <1>3 DEF Back, first
<1> HIDE DEF D, from
<1>8. /\ <<from>> \in Seq(D) /\ Len(<<from>>) = 1 /\ <<from>>[1] = from
      /\ i + 1 \in Nat
  BY <1>6
<1>9. /\ q \in Seq(D) /\ Len(q) = i + 2
      /\ q[1] = from
      /\ \A t \in 1..(i + 1) : q[t + 1] = p[t]
  <2> HIDE DEF q
  <2>1. Len(q) = 1 + (i + 1) /\ q \in Seq(D)
    BY <1>2, <1>7, <1>8, ConcatProperties
  <2>2. \A t \in 1..(1 + Len(p)) : q[t] = IF t <= 1 THEN <<from>>[t] ELSE p[t - 1]
    <3> DEFINE s == <<from>>
    <3> HIDE DEF s
    <3>1. s \in Seq(D) /\ Len(s) = 1 /\ q = s \o p
      BY <1>7, <1>8 DEF s
    <3>2. \A t \in 1..(Len(s) + Len(p)) : (s \o p)[t] = IF t <= Len(s) THEN s[t] ELSE p[t - Len(s)]
      BY <1>2, <3>1, ConcatProperties
    <3> QED BY <3>1, <3>2 DEF s
  <2>3. q[1] = from
    BY <1>2, <1>8, <2>2
  <2>4. ASSUME NEW t \in 1..(i + 1) PROVE q[t + 1] = p[t]
    <3>1. t + 1 \in 1..(1 + Len(p)) /\ ~(t + 1 <= 1) /\ (t + 1) - 1 = t
      BY <1>2
    <3> QED BY <2>2, <3>1
  <2> QED BY <2>1, <2>3, <2>4
<1> HIDE DEF q
<1>10. q[(i + 1) + 1] = b
  BY <1>9 DEF Trail
<1>11. ASSUME NEW t \in 1..(i + 1) PROVE q[t + 1] \in Adjacent(g, shown, q[t])
  <2>1. CASE t = 1
    BY <1>5, <1>9, <2>1 DEF first
  <2>2. CASE t # 1
    <3>1. t - 1 \in 1..i /\ (t - 1) + 1 = t /\ t - 1 \in 1..(i + 1)
      BY <2>2
    <3>2. p[t] \in Adjacent(g, shown, p[t - 1])
      BY <3>1 DEF Trail
    <3>3. q[t + 1] = p[t] /\ q[t] = p[t - 1]
      BY <1>9, <3>1
    <3> QED BY <3>2, <3>3
  <2> QED BY <2>1, <2>2
<1>12. q[1] \in DOMAIN h[j - (i + 1)] /\ (i + 1 < j => q[1] \notin DOMAIN h[j - ((i + 1) + 1)])
  <2>1. i + 1 < j => l > 1 /\ l - 2 = j - ((i + 1) + 1)
    BY DEF l
  <2> QED BY <1>1, <1>5, <1>9, <2>1
<1> QED BY <1>9, <1>10, <1>11, <1>12 DEF Trail, D, q

\* The steps that shortestPath takes back.
IsPathBack(path, prev, a, b, k) ==
    path = [i \in 0..k |-> IF i = 0 THEN <<b>> ELSE Back(prev, a, path[i - 1])]

\* The recursive function of shortestPath is there.
LEMMA PathBackExists ==
    ASSUME NEW D, NEW a, NEW b \in D, NEW prev \in [D -> D], NEW k \in Nat
    PROVE  \E path : IsPathBack(path, prev, a, b, k)
<1> DEFINE S == {p \in Seq(D) : p # <<>>}
           x == <<b>>
           f == [p \in S |-> Back(prev, a, p)]
<1>1. x \in S
  OBVIOUS
<1>2. ASSUME NEW p \in S PROVE Back(prev, a, p) \in S
  <2>1. CASE p[1] = a
    BY <2>1 DEF Back
  <2>2. CASE p[1] # a
    <3> DEFINE s == <<prev[p[1]]>>
    <3>1. s \in Seq(D) /\ Len(s) = 1
      <4>1. p[1] \in D
        <5>1. p \in Seq(D) /\ Len(p) \in Nat /\ Len(p) # 0
          BY EmptySeq
        <5> QED BY <5>1, ElementOfSeq
      <4> QED BY <4>1
    <3>2. Back(prev, a, p) = s \o p
      BY <2>2 DEF Back
    <3> HIDE DEF s
    <3>3. s \o p \in Seq(D) /\ Len(s \o p) = 1 + Len(p) /\ Len(p) \in Nat
      <4>1. p \in Seq(D) /\ Len(p) \in Nat
        OBVIOUS
      <4> HIDE DEF S
      <4>2. s \o p \in Seq(D) /\ Len(s \o p) = Len(s) + Len(p)
        BY <3>1, <4>1, ConcatProperties
      <4> QED BY <3>1, <4>1, <4>2
    <3>4. s \o p # <<>>
      BY <3>3
    <3> QED BY <3>2, <3>3, <3>4
  <2> QED BY <2>1, <2>2
<1> HIDE DEF S, x
<1>3. f \in [S -> S]
  BY <1>2
<1> HIDE DEF f
<1>4. PICK h \in [0..k -> S] : IsIteration(h, x, f, k)
  BY <1>1, <1>3, Iterated
<1>5. h = [i \in 0..k |-> IF i = 0 THEN x ELSE f[h[i - 1]]]
  BY <1>4 DEF IsIteration
<1>6. ASSUME NEW i \in 0..k PROVE h[i] = IF i = 0 THEN x ELSE Back(prev, a, h[i - 1])
  <2>1. CASE i = 0
    BY <1>5, <2>1
  <2>2. CASE i # 0
    <3>1. i - 1 \in 0..k
      BY <2>2
    <3>2. h[i - 1] \in S
      BY <3>1
    <3>3. f[h[i - 1]] = Back(prev, a, h[i - 1])
      BY <3>2 DEF f
    <3> QED BY <1>5, <2>2, <3>3
  <2> QED BY <2>1, <2>2
<1>7. h = [i \in 0..k |-> h[i]]
  OBVIOUS
<1>8. IsPathBack(h, prev, a, b, k)
  BY <1>6, <1>7 DEF IsPathBack, x
<1> QED BY <1>8

\* What a node was reached from has been reached.
LEMMA ReachedIsTyped ==
    ASSUME NEW h, NEW g, NEW shown, NEW a, NEW k \in Nat,
           IsSearch(h, g, shown, a, k), Levels(h, g, shown, a, k)
    PROVE  h[k] \in [DOMAIN h[k] -> DOMAIN h[k]] /\ a \in DOMAIN h[k] /\ h[k][a] = a
<1> DEFINE T == {i \in Nat : i <= k => \A n \in DOMAIN h[i] : h[i][n] \in DOMAIN h[i]}
<1>1. \A i \in 0..k : a \in DOMAIN h[i] /\ h[i][a] = a
  <2> TAKE i \in 0..k
  <2>1. 0 \in 0..k /\ 0 <= i
    OBVIOUS
  <2> QED BY <2>1 DEF Levels
<1>2. 0 \in T
  BY <1>1 DEF Levels
<1>3. ASSUME NEW i \in Nat, i \in T PROVE i + 1 \in T
  <2>1. SUFFICES ASSUME i + 1 <= k, NEW n \in DOMAIN h[i + 1]
                 PROVE  h[i + 1][n] \in DOMAIN h[i + 1]
    OBVIOUS
  <2>2. i + 1 \in 1..k /\ (i + 1) - 1 = i /\ i \in 0..k /\ i + 1 \in 0..k /\ i <= i + 1
    BY <2>1
  <2>3. \A m \in DOMAIN h[i] : m \in DOMAIN h[i + 1] /\ h[i + 1][m] = h[i][m]
    BY <2>2 DEF Levels
  <2>4. CASE n \in DOMAIN h[i]
    BY <1>3, <2>1, <2>3, <2>4
  <2>5. CASE n \notin DOMAIN h[i]
    <3>1. h[i + 1][n] \in DOMAIN h[i]
      BY <2>1, <2>2, <2>5 DEF Levels
    <3> QED BY <2>3, <3>1
  <2> QED BY <2>4, <2>5
<1> HIDE DEF T
<1>4. k \in T /\ k \in 0..k
  BY <1>2, <1>3, Induction
<1>5. \A n \in DOMAIN h[k] : h[k][n] \in DOMAIN h[k]
  BY <1>4 DEF T
<1>6. h[k] = [n \in DOMAIN h[k] |-> h[k][n]]
  <2>1. CASE k = 0
    <3>1. h[0] = [n \in {a} |-> a]
      BY DEF IsSearch
    <3> QED BY <2>1, <3>1
  <2>2. CASE k # 0
    <3>1. k \in 1..k
      BY <2>2
    <3>2. IsRound(h[k], g, shown, h[k - 1])
      BY <3>1, RoundIs DEF IsSearch
    <3> QED BY <3>2 DEF IsRound
  <2> QED BY <2>1, <2>2
<1> QED BY <1>1, <1>4, <1>5, <1>6

\* A set of numbers that is not empty has a least member.
LEMMA LeastIn ==
    ASSUME NEW N \in SUBSET Nat, NEW i \in N
    PROVE  \E j \in N : \A l \in N : j <= l
<1> DEFINE T == {n \in Nat : \A m \in Nat : m <= n => m \notin N}
<1>1. SUFFICES ASSUME ~\E j \in N : \A l \in N : j <= l PROVE FALSE
  OBVIOUS
<1>2. 0 \in T
  <2>1. 0 \notin N
    BY <1>1
  <2> QED BY <2>1
<1>3. ASSUME NEW n \in Nat, n \in T PROVE n + 1 \in T
  <2>1. n + 1 \notin N
    <3>1. \A l \in N : ~(l <= n)
      BY <1>3
    <3>2. \A l \in N : n + 1 <= l
      BY <3>1
    <3> QED BY <1>1, <3>2
  <2> QED BY <1>3, <2>1
<1> HIDE DEF T
<1>4. i \in T
  BY <1>2, <1>3, Induction
<1> QED BY <1>4 DEF T

\* What shortestPath answers: nothing if the search has not found b, and else a path
\* with a node of each round, up to the first that has b.
LEMMA ShortestPathIs ==
    ASSUME NEW g, NEW shown, NEW a, NEW b, Cardinality(g.nodes) \in Nat,
           NEW h, IsSearch(h, g, shown, a, Cardinality(g.nodes)),
           Levels(h, g, shown, a, Cardinality(g.nodes)),
           h[Cardinality(g.nodes)] = Reached(g, shown, a, Cardinality(g.nodes))
    PROVE  LET k == Cardinality(g.nodes)
               p == shortestPath(g, shown, a, b)
           IN  IF b \notin DOMAIN h[k] THEN p = <<>>
               ELSE \E j \in 0..k :
                    /\ Trail(p, h, g, shown, b, j, j, k)
                    /\ \A i \in 0..k : b \in DOMAIN h[i] => j <= i
<1> DEFINE k == Cardinality(g.nodes)
           prev == h[k]
           path == CHOOSE e : IsPathBack(e, prev, a, b, k)
           p == shortestPath(g, shown, a, b)
<1>1. p = IF b \in DOMAIN prev THEN path[k] ELSE <<>>
  BY DEF shortestPath, IsPathBack
<1> HIDE DEF k, path, p
<1>k. k \in Nat /\ IsSearch(h, g, shown, a, k) /\ Levels(h, g, shown, a, k) /\ k \in 0..k
  BY DEF k
<1>2. ASSUME b \in DOMAIN prev
      PROVE  \E j \in 0..k : /\ Trail(p, h, g, shown, b, j, j, k)
                             /\ \A i \in 0..k : b \in DOMAIN h[i] => j <= i
  <2> DEFINE N == {i \in 0..k : b \in DOMAIN h[i]}
  <2>1. PICK j \in N : \A l \in N : j <= l
    <3>1. N \in SUBSET Nat /\ k \in N
      BY <1>k, <1>2
    <3> HIDE DEF N
    <3> QED BY <3>1, LeastIn
  <2>2. j \in 0..k /\ b \in DOMAIN h[j] /\ \A i \in 0..k : b \in DOMAIN h[i] => j <= i
    BY <2>1
  <2>3. IsPathBack(path, prev, a, b, k)
    <3>1. prev \in [DOMAIN prev -> DOMAIN prev]
      BY <1>k, ReachedIsTyped
    <3>2. \E e : IsPathBack(e, prev, a, b, k)
      BY <1>k, <1>2, <3>1, PathBackExists
    <3> QED BY <3>2 DEF path
  <2>4. path[0] = <<b>> /\ \A i \in 1..k : path[i] = Back(prev, a, path[i - 1])
    BY <1>k, <2>3 DEF IsPathBack
  <2> DEFINE Upto == {i \in Nat : i <= j => Trail(path[i], h, g, shown, b, j, i, k)}
             Beyond == {i \in Nat : j + i <= k => path[j + i] = path[j]}
  <2>5. Trail(path[0], h, g, shown, b, j, 0, k)
    <3> DEFINE s == <<b>>
    <3>1. s \in Seq(DOMAIN prev) /\ Len(s) = 1 /\ s[1] = b
      <4> DEFINE D == DOMAIN prev
      <4>1. b \in D
        BY <1>2
      <4> HIDE DEF D
      <4>2. s \in Seq(D) /\ Len(s) = 1 /\ s[1] = b
        BY <4>1
      <4> QED BY <4>2 DEF D
    <3> HIDE DEF s
    <3>2. s = path[0]
      BY <2>4 DEF s
    <3>3. 0 < j => j - (0 + 1) \in 0..k /\ ~(j <= j - (0 + 1))
      BY <1>k, <2>2
    <3>4. 0 < j => b \notin DOMAIN h[j - (0 + 1)]
      BY <2>2, <3>3
    <3>5. j - 0 = j /\ 0 + 1 = 1 /\ \A t : t \notin 1..0
      BY <2>2
    <3> QED BY <2>2, <3>1, <3>2, <3>4, <3>5 DEF Trail
  <2>6. \A i \in Nat : i \in Upto
    <3>1. 0 \in Upto
      BY <2>5
    <3>2. ASSUME NEW i \in Nat, i \in Upto PROVE i + 1 \in Upto
      <4>1. SUFFICES ASSUME i + 1 <= j PROVE Trail(path[i + 1], h, g, shown, b, j, i + 1, k)
        OBVIOUS
      <4>2. i < j /\ i <= j /\ i + 1 \in 1..k /\ (i + 1) - 1 = i
        BY <1>k, <2>2, <4>1
      <4>3. Trail(path[i], h, g, shown, b, j, i, k)
        BY <3>2, <4>2
      <4>4. path[i + 1] = Back(prev, a, path[i])
        BY <2>4, <4>2
      <4> QED BY <1>k, <2>2, <4>2, <4>3, <4>4, BackGoesOn
    <3> HIDE DEF Upto
    <3> QED BY <3>1, <3>2, Induction
  <2>7. Trail(path[j], h, g, shown, b, j, j, k)
    BY <1>k, <2>2, <2>6
  <2>8. \A i \in Nat : i \in Beyond
    <3>1. 0 \in Beyond
      BY <1>k, <2>2
    <3>2. ASSUME NEW i \in Nat, i \in Beyond PROVE i + 1 \in Beyond
      <4>1. SUFFICES ASSUME j + (i + 1) <= k PROVE path[j + (i + 1)] = path[j]
        OBVIOUS
      <4>2. j + i <= k /\ j + (i + 1) \in 1..k /\ (j + (i + 1)) - 1 = j + i
        BY <1>k, <2>2, <4>1
      <4>3. path[j + (i + 1)] = Back(prev, a, path[j])
        BY <2>4, <3>2, <4>2
      <4>4. path[j][1] = a
        <5>1. j - j = 0
          BY <2>2
        <5> QED BY <2>7, <1>k, <5>1 DEF Trail, Levels
      <4> QED BY <4>3, <4>4 DEF Back
    <3> HIDE DEF Beyond
    <3> QED BY <3>1, <3>2, Induction
  <2>9. path[k] = path[j]
    <3>1. k - j \in Nat /\ j + (k - j) = k /\ j + (k - j) <= k
      BY <1>k, <2>2
    <3> QED BY <2>8, <3>1
  <2>10. p = path[j]
    BY <1>1, <1>2, <2>9
  <2> QED BY <2>2, <2>7, <2>10
<1> QED BY <1>1, <1>2 DEF k, p

-------------------------------------------------------------------------------
(* The connection finder: shortest, and found if there is one *)

\* What the connection finder shows, for any two nodes that are drawn.
LEMMA ShortestPathIsShortest ==
    ASSUME graph \in Graph(Entities), Cardinality(graph.nodes) \in Nat
    PROVE  PathIsShortest
<1> DEFINE k == Cardinality(graph.nodes)
<1>1. SUFFICES ASSUME NEW a \in Drawn, NEW b \in Drawn
               PROVE  LET p == shortestPath(graph, Shown, a, b) IN
                      IF p = <<>> THEN ~Joined(a, b, k)
                      ELSE /\ IsPath(graph, Shown, a, b, p)
                           /\ Len(p) > 1 => ~Joined(a, b, Len(p) - 2)
  BY DEF PathIsShortest
<1>k. k \in Nat /\ k \in 0..k
  OBVIOUS
<1>2. PICK h : IsSearch(h, graph, Shown, a, k) /\ h[k] = Reached(graph, Shown, a, k)
  BY <1>k, ReachedIsSearch
<1>3. Levels(h, graph, Shown, a, k)
  BY <1>k, <1>2, SearchHasLevels
<1> DEFINE p == shortestPath(graph, Shown, a, b)
<1>4. IF b \notin DOMAIN h[k] THEN p = <<>>
      ELSE \E j \in 0..k : /\ Trail(p, h, graph, Shown, b, j, j, k)
                           /\ \A i \in 0..k : b \in DOMAIN h[i] => j <= i
  BY <1>2, <1>3, ShortestPathIs
<1> HIDE DEF k, p
<1>5. ASSUME NEW l \in Nat, l <= k, Joined(a, b, l)
      PROVE  \E m \in 1..(l + 1) : b \in DOMAIN h[m - 1]
  <2>1. PICK m \in 1..(l + 1) : \E q \in [1..m -> Drawn] : IsPath(graph, Shown, a, b, q)
    BY <1>5 DEF Joined
  <2>2. PICK q \in [1..m -> Drawn] : IsPath(graph, Shown, a, b, q)
    BY <2>1
  <2>3. m \in Nat \ {0} /\ m - 1 <= k /\ q \in [1..m -> graph.nodes \cap Shown]
    BY <1>k, <1>5 DEF Drawn
  <2>4. b \in DOMAIN h[m - 1]
    BY <1>k, <1>3, <2>2, <2>3, WalkIsReached
  <2> QED BY <2>4
<1>6. CASE b \notin DOMAIN h[k]
  <2>1. \A i \in 0..k : b \notin DOMAIN h[i]
    BY <1>k, <1>3, <1>6 DEF Levels
  <2>2. ~Joined(a, b, k)
    <3>1. SUFFICES ASSUME Joined(a, b, k) PROVE FALSE
      OBVIOUS
    <3>2. PICK m \in 1..(k + 1) : b \in DOMAIN h[m - 1]
      BY <1>k, <1>5, <3>1
    <3>3. m - 1 \in 0..k
      BY <1>k
    <3> QED BY <2>1, <3>2, <3>3
  <2> QED BY <1>4, <1>6, <2>2 DEF p
<1>7. CASE b \in DOMAIN h[k]
  <2>1. PICK j \in 0..k : /\ Trail(p, h, graph, Shown, b, j, j, k)
                          /\ \A i \in 0..k : b \in DOMAIN h[i] => j <= i
    BY <1>4, <1>7
  <2>2. j \in Nat /\ j <= k /\ Len(p) = j + 1 /\ p \in Seq(DOMAIN h[k])
    BY <1>k, <2>1 DEF Trail
  <2>3. p # <<>>
    BY <2>2
  <2>4. Len(p) > 1 => ~Joined(a, b, Len(p) - 2)
    <3>1. SUFFICES ASSUME Len(p) > 1, Joined(a, b, Len(p) - 2) PROVE FALSE
      OBVIOUS
    <3>2. Len(p) - 2 = j - 1 /\ j - 1 \in Nat /\ j - 1 <= k
      BY <1>k, <2>2, <3>1
    <3>3. PICK m \in 1..((j - 1) + 1) : b \in DOMAIN h[m - 1]
      BY <1>5, <3>1, <3>2
    <3>4. m - 1 \in 0..k /\ ~(j <= m - 1)
      BY <1>k, <2>2, <3>2
    <3> QED BY <2>1, <3>3, <3>4
  <2>5. p[1] = a
    <3>1. j - j = 0
      BY <2>2
    <3> QED BY <1>3, <2>1, <3>1 DEF Trail, Levels
  <2>6. p[Len(p)] = b
    BY <2>1, <2>2 DEF Trail
  <2>7. ASSUME NEW i \in 1..j
        PROVE  /\ <<p[i], p[i + 1]>> \in graph.edges \/ <<p[i + 1], p[i]>> \in graph.edges
               /\ p[i + 1] \in graph.nodes \cap Shown
    <3>1. p[i + 1] \in Adjacent(graph, Shown, p[i])
      BY <2>1 DEF Trail
    <3> QED BY <3>1 DEF Adjacent
  <2>8. ASSUME NEW i \in DOMAIN p PROVE p[i] \in graph.nodes \cap Shown
    <3>1. i \in 1..(j + 1)
      BY <2>2
    <3>2. CASE i = 1
      BY <1>1, <2>5, <3>2 DEF Drawn
    <3>3. CASE i # 1
      <4>1. i - 1 \in 1..j /\ (i - 1) + 1 = i
        BY <2>2, <3>1, <3>3
      <4> QED BY <2>7, <4>1
    <3> QED BY <3>2, <3>3
  <2>9. Len(p) - 1 = j
    BY <2>2
  <2>10. IsPath(graph, Shown, a, b, p)
    BY <2>5, <2>6, <2>7, <2>8, <2>9 DEF IsPath
  <2> QED BY <2>3, <2>4, <2>10 DEF p
<1> QED BY <1>6, <1>7

\* Rounds add a node or are the last to be of any use, so that as many as there are
\* nodes are enough.
LEMMA SearchIsClosed ==
    ASSUME NEW h, NEW g, NEW shown, NEW a \in g.nodes, IsFiniteSet(g.nodes),
           NEW k \in Nat, k = Cardinality(g.nodes), Levels(h, g, shown, a, k)
    PROVE  \E i \in 0..k : \A n \in DOMAIN h[i] : Adjacent(g, shown, n) \subseteq DOMAIN h[i]
<1> DEFINE D(i) == DOMAIN h[i]
           Closed(i) == \A n \in D(i) : Adjacent(g, shown, n) \subseteq D(i)
           T == {i \in Nat : i <= k =>
                    D(i) \subseteq g.nodes /\ IsFiniteSet(D(i)) /\ i + 1 <= Cardinality(D(i))}
<1>1. SUFFICES ASSUME \A i \in 0..k : ~Closed(i) PROVE FALSE
  OBVIOUS
<1>2. 0 \in T
  <2>1. D(0) = {a}
    <3>1. \A n : n \in D(0) <=> n = a
      BY DEF Levels
    <3> HIDE DEF D
    <3> QED BY <3>1
  <2>2. IsFiniteSet({a}) /\ Cardinality({a}) = 1
    BY FS_Singleton
  <2> HIDE DEF D
  <2> QED BY <2>1, <2>2
<1>3. ASSUME NEW i \in Nat, i \in T PROVE i + 1 \in T
  <2>1. SUFFICES ASSUME i + 1 <= k
                 PROVE  /\ D(i + 1) \subseteq g.nodes /\ IsFiniteSet(D(i + 1))
                        /\ (i + 1) + 1 <= Cardinality(D(i + 1))
    OBVIOUS
  <2>2. i \in 0..k /\ i + 1 \in 1..k /\ i + 1 \in 0..k /\ (i + 1) - 1 = i /\ i <= i + 1
    BY <2>1
  <2>3. D(i) \subseteq g.nodes /\ IsFiniteSet(D(i)) /\ i + 1 <= Cardinality(D(i))
    BY <1>3, <2>2
  <2>4. D(i) \subseteq D(i + 1)
    BY <2>2 DEF Levels
  <2>5. D(i + 1) \subseteq g.nodes
    <3>1. ASSUME NEW n \in D(i + 1), n \notin D(i) PROVE n \in g.nodes
      <4>1. n \in Adjacent(g, shown, h[i + 1][n])
        BY <2>2, <3>1 DEF Levels
      <4> QED BY <4>1 DEF Adjacent
    <3> QED BY <2>3, <3>1
  <2>6. \A n \in D(i) : Adjacent(g, shown, n) \subseteq D(i + 1)
    BY <2>2 DEF Levels
  <2>7. D(i) # D(i + 1)
    BY <1>1, <2>2, <2>6
  <2> HIDE DEF D
  <2>8. IsFiniteSet(D(i + 1))
    BY <2>5, FS_Subset
  <2>9. Cardinality(D(i)) < Cardinality(D(i + 1))
    <3>1. Cardinality(D(i)) <= Cardinality(D(i + 1))
      BY <2>4, <2>8, FS_Subset
    <3>2. Cardinality(D(i)) # Cardinality(D(i + 1))
      BY <2>4, <2>7, <2>8, FS_Subset
    <3>3. Cardinality(D(i)) \in Nat /\ Cardinality(D(i + 1)) \in Nat
      BY <2>3, <2>8, FS_CardinalityType
    <3> QED BY <3>1, <3>2, <3>3
  <2>10. Cardinality(D(i)) \in Nat /\ Cardinality(D(i + 1)) \in Nat
    BY <2>3, <2>8, FS_CardinalityType
  <2> QED BY <2>3, <2>5, <2>8, <2>9, <2>10
<1> HIDE DEF T, D
<1>4. k \in T
  BY <1>2, <1>3, Induction
<1>5. D(k) \subseteq g.nodes /\ k + 1 <= Cardinality(D(k)) /\ IsFiniteSet(D(k))
  BY <1>4 DEF T
<1>6. Cardinality(D(k)) \in Nat /\ Cardinality(D(k)) <= k
  BY <1>5, FS_Subset, FS_CardinalityType
<1> QED BY <1>5, <1>6

\* A walk of any length stays where the search has been.
LEMMA WalkStays ==
    ASSUME NEW h, NEW g, NEW shown, NEW a \in g.nodes, IsFiniteSet(g.nodes),
           NEW k \in Nat, k = Cardinality(g.nodes), Levels(h, g, shown, a, k),
           NEW m \in Nat \ {0}, NEW p \in [1..m -> g.nodes \cap shown],
           NEW b, IsPath(g, shown, a, b, p)
    PROVE  b \in DOMAIN h[k]
<1>1. PICK i \in 0..k : \A n \in DOMAIN h[i] : Adjacent(g, shown, n) \subseteq DOMAIN h[i]
  BY SearchIsClosed
<1> DEFINE T == {j \in Nat : j + 1 <= m => p[j + 1] \in DOMAIN h[i]}
<1>2. Len(p) = m /\ 0 \in 0..k /\ 0 <= i /\ i <= k /\ k \in 0..k
  OBVIOUS
<1>3. p[1] = a /\ p[m] = b
  BY <1>2 DEF IsPath
<1>4. 0 \in T
  BY <1>2, <1>3 DEF Levels
<1>5. ASSUME NEW j \in Nat, j \in T PROVE j + 1 \in T
  <2>1. SUFFICES ASSUME j + 2 <= m PROVE p[j + 2] \in DOMAIN h[i]
    OBVIOUS
  <2>2. j + 1 \in 1..m /\ j + 2 \in 1..m /\ j + 1 \in 1..(m - 1) /\ (j + 1) + 1 = j + 2
    BY <2>1
  <2>3. p[j + 1] \in DOMAIN h[i]
    BY <1>5, <2>1
  <2>4. <<p[j + 1], p[j + 2]>> \in g.edges \/ <<p[j + 2], p[j + 1]>> \in g.edges
    <3>1. \A l \in 1..(m - 1) : <<p[l], p[l + 1]>> \in g.edges \/ <<p[l + 1], p[l]>> \in g.edges
      BY <1>2 DEF IsPath
    <3> QED BY <2>2, <3>1
  <2>5. p[j + 1] \in g.nodes \cap shown /\ p[j + 2] \in g.nodes \cap shown
    BY <2>2
  <2>6. p[j + 2] \in Adjacent(g, shown, p[j + 1])
    BY <2>4, <2>5 DEF Adjacent
  <2> QED BY <1>1, <2>3, <2>6
<1> HIDE DEF T
<1>6. m - 1 \in Nat /\ m - 1 \in T /\ (m - 1) + 1 = m
  BY <1>4, <1>5, Induction
<1>7. b \in DOMAIN h[i]
  BY <1>3, <1>6 DEF T
<1> QED BY <1>2, <1>7 DEF Levels

\* shortestPath gives up only on a node that no walk of any length leads to: as many
\* rounds as there are nodes are enough.
ConnectionIsFound ==
    \A a, b \in Drawn :
        (\E l \in Nat : Joined(a, b, l)) => shortestPath(graph, Shown, a, b) # <<>>

LEMMA FoundIfJoined ==
    ASSUME graph \in Graph(Entities), IsFiniteSet(graph.nodes)
    PROVE  ConnectionIsFound
<1> DEFINE k == Cardinality(graph.nodes)
<1>1. SUFFICES ASSUME NEW a \in Drawn, NEW b \in Drawn, NEW l \in Nat, Joined(a, b, l)
               PROVE  shortestPath(graph, Shown, a, b) # <<>>
  BY DEF ConnectionIsFound
<1>2. k \in Nat /\ a \in graph.nodes
  BY FS_CardinalityType DEF Drawn
<1>3. PICK h : IsSearch(h, graph, Shown, a, k) /\ h[k] = Reached(graph, Shown, a, k)
  BY <1>2, ReachedIsSearch
<1>4. Levels(h, graph, Shown, a, k)
  BY <1>2, <1>3, SearchHasLevels
<1>5. PICK m \in 1..(l + 1) : \E q \in [1..m -> Drawn] : IsPath(graph, Shown, a, b, q)
  BY <1>1 DEF Joined
<1>6. b \in DOMAIN h[k]
  <2>0. PICK q \in [1..m -> Drawn] : IsPath(graph, Shown, a, b, q)
    BY <1>5
  <2>1. m \in Nat \ {0} /\ q \in [1..m -> graph.nodes \cap Shown]
    BY DEF Drawn
  <2> HIDE DEF k
  <2>2. k = Cardinality(graph.nodes)
    BY DEF k
  <2> QED BY <1>2, <1>4, <2>0, <2>1, <2>2, WalkStays
<1> DEFINE p == shortestPath(graph, Shown, a, b)
<1>7. \E j \in 0..k : Trail(p, h, graph, Shown, b, j, j, k)
  BY <1>2, <1>3, <1>4, <1>6, ShortestPathIs
<1>8. \E j \in Nat : Len(p) = j + 1
  BY <1>2, <1>7 DEF Trail
<1> HIDE DEF p
<1>9. p # <<>>
  BY <1>8
<1> QED BY <1>9 DEF p

\* The board shown is a graph of finitely many nodes.
LEMMA BoardIsFinite ==
    IInv => graph \in Graph(Entities) /\ IsFiniteSet(graph.nodes) /\ Cardinality(graph.nodes) \in Nat
<1> SUFFICES ASSUME IInv PROVE /\ graph \in Graph(Entities) /\ IsFiniteSet(graph.nodes)
                               /\ Cardinality(graph.nodes) \in Nat
  OBVIOUS
<1>1. graph \in Graph(Entities)
  BY DEF IInv, CoreInv, BoardTyped
<1>2. graph.nodes \in SUBSET Entities
  BY <1>1 DEF Graph
<1>3. IsFiniteSet(graph.nodes)
  BY <1>2, FiniteAssumption, FS_Subset
<1> QED BY <1>1, <1>3, FS_CardinalityType

-------------------------------------------------------------------------------
(* Theorems *)

\* The invariant of rows, board, saves and view holds in every reachable state.
THEOREM BoardInductive == Spec => []IInv
BY InitHolds, StepHolds, PTL DEF Spec

\* Rows, graphs, snapshots, saves and the view are well typed; the history is never
\* deeper than its bound.
THEOREM BoardTypes == Spec => []TypeOK
<1>1. IInv => TypeOK
  <2> SUFFICES ASSUME IInv PROVE TypeOK
    OBVIOUS
  <2>1. /\ undoStack \in Seq(Snapshots) /\ redoStack \in Seq(Snapshots)
        /\ Len(undoStack) + Len(redoStack) <= UndoDepth /\ session \in Nat \ {0}
    BY DEF IInv, CoreInv, BoardTyped
  <2>2. Len(undoStack) \in Nat /\ Len(redoStack) \in Nat
    BY <2>1, LenProperties
  <2>3. Len(undoStack) <= UndoDepth
    BY <2>1, <2>2, UndoDepthAssumption
  <2>4. Range(undoStack) \cup Range(redoStack) \subseteq Snapshots
    BY <2>1, RangeOf
  <2>5. Range(saves) \subseteq Saves
    BY RangeOf DEF IInv, CoreInv, SavesTyped
  <2>6. Snapshots \subseteq [graph: Graph(Entities), session: 1..session]
    BY <2>1 DEF Snapshots
  <2> QED BY <2>3, <2>4, <2>5, <2>6
          DEF IInv, CoreInv, RowsTyped, BoardTyped, SavesTyped, ViewTyped, TypeOK
<1> QED BY <1>1, BoardInductive, PTL

\* Undo and redo stay on their board, however boards are opened, seeded and deleted
\* while requests are on their way.
THEOREM UndoStaysOnBoard == Spec => []UndoIsOfThisBoard
<1>1. IInv => UndoIsOfThisBoard
  <2> SUFFICES ASSUME IInv PROVE UndoIsOfThisBoard
    OBVIOUS
  <2>1. Range(undoStack) \cup Range(redoStack) \subseteq Snapshots
    BY RangeOf DEF IInv, CoreInv, BoardTyped
  <2> QED BY <2>1 DEF UndoIsOfThisBoard, Snapshots
<1> QED BY <1>1, BoardInductive, PTL

\* A quiet board that met no other writer is what its row holds, whatever was edited,
\* sent, stored, refused or answered, and in which order.
THEOREM QuietBoardsAreSaved == Spec => []QuietMeansSaved
<1>1. IInv => QuietMeansSaved
  BY DEF IInv, CoreInv, Tracked, Holds, QuietMeansSaved
<1> QED BY <1>1, BoardInductive, PTL

\* The connection finder (shortestPath) shows a path along edges that are drawn, no
\* shorter one is there, and where it says that there is none none of up to as many
\* steps as the board has nodes is there, whatever the graph has become.
THEOREM PathsAreShortest == Spec => []PathIsShortest
<1>1. IInv => PathIsShortest
  BY BoardIsFinite, ShortestPathIsShortest
<1> QED BY <1>1, BoardInductive, PTL

\* Nor is there a longer one, and so the finder never denies a connection.
THEOREM ConnectionsAreFound == Spec => []ConnectionIsFound
<1>1. IInv => ConnectionIsFound
  BY BoardIsFinite, FoundIfJoined
<1> QED BY <1>1, BoardInductive, PTL

===============================================================================
