----------------------------- MODULE SignalStore -----------------------------
(***************************************************************************)
(* A list of signals and what reacts to it: GraphDataStore and             *)
(* GraphDataModel (src/src/models/), the expression check that follows     *)
(* every change (util/expressionstatus.cpp) and, for the list that is      *)
(* plotted, the graphs of GraphView (graphview/graphview.cpp).             *)
(*                                                                         *)
(* A setter of the store emits its signal before it returns and the slots  *)
(* run inside the emit, so every operation below is the setter with the    *)
(* slots it triggers, in the order they run.  The operations are functions *)
(* of a list, because an action of the dialog calls many of them.          *)
(*                                                                         *)
(* A list is a record:                                                     *)
(*   rows     the signals (_graphData); the active ones, in order, are     *)
(*            _activeGraphList                                             *)
(*   selected _selectedGraphIdx, 0 for none                                *)
(*   plotted  whether a GraphView shows this list                          *)
(*   graphs   the graphs of the plot, by the signal each was made for      *)
(*   crashed  whether a slot used a graph the plot does not have           *)
(***************************************************************************)
EXTENDS Naturals, FiniteSets, SequencesExt, OrderedSets

CONSTANTS
    Expressions,        \* the expressions a signal may have
    DefaultExpression,  \* GraphDataModel::cDefaultExpression
    Malformed,          \* those that do not parse
    Uses                \* Uses[e]: the devices e reads from

ASSUME ExpressionAssumption ==
    /\ DefaultExpression \in Expressions
    /\ Malformed \subseteq Expressions
    /\ DOMAIN Uses = Expressions

NoGraph == 0

(* A signal.  id tells signals apart whatever happens to their rows.       *)
Signal(id, expression, active, visible) ==
    [id |-> id, expression |-> expression, active |-> active, visible |-> visible,
     state |-> "UNKNOWN", data |-> <<>>]

SettingsOf(s) == <<s.expression, s.active, s.visible>>

EmptyList(plotted) ==
    [rows |-> <<>>, selected |-> 0, plotted |-> plotted, graphs |-> <<>>, crashed |-> FALSE]

(* Every row changed by Op.  SubSeq makes TLC hold the result as a tuple. *)
MapRows(m, Op(_)) ==
    [m EXCEPT !.rows = SubSeq([i \in DOMAIN m.rows |-> Op(m.rows[i])], 1, Len(m.rows))]

Size(m) == Len(m.rows)
Active(m) == {i \in DOMAIN m.rows : m.rows[i].active}
ActiveRows(m) == Ascending(Active(m))
ActiveIds(m) == [k \in DOMAIN ActiveRows(m) |-> m.rows[ActiveRows(m)[k]].id]
IdsOf(m) == [i \in DOMAIN m.rows |-> m.rows[i].id]

(* convertToActiveGraphIndex(), 0 for none. *)
ActiveIdxOf(m, i) == SelectInSeq(ActiveRows(m), LAMBDA row : row = i)
-----------------------------------------------------------------------------
(* ExpressionStatus: the check is synchronous, so its queue holds one       *)
(* expression and its verdict reaches the row that asked for it.            *)
Verdict(expression, devices) ==
    IF expression \in Malformed THEN "SYNTAX_ERROR"
    ELSE IF Uses[expression] \subseteq devices THEN "VALID" ELSE "UNKNOWN_DEVICE"

Checked(s, devices) == [s EXCEPT !.state = Verdict(s.expression, devices)]

CheckExpression(m, i, devices) == [m EXCEPT !.rows[i] = Checked(@, devices)]

(* Mutation of CheckAll: rows that were valid are not checked again. *)
CheckOnlyInvalid(m, devices) ==
    MapRows(m, LAMBDA s : IF s.state = "VALID" THEN s ELSE Checked(s, devices))

(* handleDeviceListChanged() *)
CheckAll(m, devices) == MapRows(m, LAMBDA s : Checked(s, devices))
-----------------------------------------------------------------------------
(* GraphView.  A sample is its timestamp, its value (Zero, or what it was   *)
(* computed from) and its quality.                                          *)
Zero == <<>>
SampleOf(t, value, quality) == [at |-> t, value |-> value, quality |-> quality]
NothingMeasured(data) == \A k \in DOMAIN data : data[k].quality = "NoValue"

(* The same timestamps with nothing measured. *)
Blank(data) ==
    SubSeq([k \in DOMAIN data |-> SampleOf(data[k].at, Zero, "NoValue")], 1, Len(data))

Longest(m) ==
    LET lengths == {Len(m.rows[i].data) : i \in Active(m)}
    IN  CHOOSE n \in lengths : \A other \in lengths : other <= n
FirstLongest(m) == m.rows[Min({i \in Active(m) : Len(m.rows[i].data) = Longest(m)})].data

(* Mutation of UpdateGraphs: a shorter series is plotted as it is. *)
DrawOnly(m) == IF m.plotted THEN [m EXCEPT !.graphs = ActiveIds(m)] ELSE m

(* updateGraphs(): one graph per active signal; a series of another length  *)
(* than the longest gets its timestamps.                                    *)
UpdateGraphs(m) ==
    IF ~m.plotted THEN m
    ELSE MapRows([m EXCEPT !.graphs = ActiveIds(m)],
                 LAMBDA s : IF s.active /\ Len(s.data) # Longest(m)
                            THEN [s EXCEPT !.data = Blank(FirstLongest(m))]
                            ELSE s)

(* _pPlot->graph(activeIdx) is dereferenced: the plot returns a null        *)
(* pointer for an index it has no graph for.                                *)
UseGraph(m, i) ==
    [m EXCEPT !.crashed = @ \/ (m.plotted /\ ActiveIdxOf(m, i) \notin DOMAIN m.graphs)]

(* clearGraph(), on expressionChanged *)
ClearGraph(m, i) ==
    IF m.plotted /\ m.rows[i].active
    THEN [UseGraph(m, i) EXCEPT !.rows[i].data =
            IF Len(ActiveRows(m)) = 1 THEN <<>> ELSE Blank(@)]
    ELSE m

(* handleGraphVisibilityChange(), on visibilityChanged *)
ShowGraph(m, i) == IF m.rows[i].active THEN UseGraph(m, i) ELSE m
-----------------------------------------------------------------------------
(* The setters. *)
SetSelected(m, i) ==
    IF i = 0 \/ m.rows[i].visible THEN [m EXCEPT !.selected = i] ELSE m

SetVisible(m, i, visible) ==
    IF m.rows[i].visible = visible THEN m
    ELSE LET shown == ShowGraph([m EXCEPT !.rows[i].visible = visible], i)
         IN  IF ~visible /\ m.selected = i THEN SetSelected(shown, 0) ELSE shown

Deactivated(m, i) == [m EXCEPT !.rows[i].active = FALSE, !.rows[i].data = <<>>]

SetActive(m, i, active) ==
    IF m.rows[i].active = active THEN m
    ELSE UpdateGraphs(IF active
                      THEN SetVisible([m EXCEPT !.rows[i].active = TRUE], i, TRUE)
                      ELSE Deactivated(m, i))

SetExpression(m, i, expression, devices) ==
    IF m.rows[i].expression = expression THEN m
    ELSE CheckExpression(ClearGraph([m EXCEPT !.rows[i].expression = expression], i), i, devices)

(* addToModel(), removeFromModel(), moveRow(), clear() *)
AddSignal(m, signal, devices) ==
    UpdateGraphs(CheckExpression([m EXCEPT !.rows = Append(@, signal)], Size(m) + 1, devices))

RemoveSignal(m, i) ==
    UpdateGraphs([m EXCEPT !.rows = RemoveAt(@, i), !.selected = 0])

(* removeSignals(): the highest row first, so the others keep their index. *)
RemoveSignals(m, indices) ==
    LET left[seen \in 0 .. Size(m)] ==
            IF seen = 0 THEN m
            ELSE LET row == Size(m) + 1 - seen
                 IN  IF row \in indices THEN RemoveSignal(left[seen - 1], row) ELSE left[seen - 1]
    IN  left[Size(m)]

MoveSignal(m, from, to) ==
    IF from = to THEN m
    ELSE UpdateGraphs([m EXCEPT !.rows = InsertAt(RemoveAt(@, from), to, @[from]),
                                !.selected = 0])

ClearList(m) ==
    IF m.rows = <<>> THEN m
    ELSE UpdateGraphs([m EXCEPT !.rows = <<>>, !.selected = 0])
=============================================================================
