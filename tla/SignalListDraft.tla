--------------------------- MODULE SignalListDraft ---------------------------
(***************************************************************************)
(* The signal list of the application and the draft of it that the Signals *)
(* dialog edits (src/src/models/signallistdraft.cpp, used by               *)
(* dialogs/signalsdialog.cpp).  The dialog is modal: while it is open only *)
(* the draft is edited and an adapter may change the device list; while it *)
(* is closed the legend and the graph menu show, hide and select signals,  *)
(* a session adds samples and a project file replaces the list.            *)
(***************************************************************************)
EXTENDS SignalStore

CONSTANTS
    MaxSignals,   \* bound: rows of a list
    MaxIds,       \* bound: signals ever created in the list
    MaxSamples,   \* bound: samples ever taken
    MaxEdits,     \* bound: edits by the user, in the draft or on the legend
    DeviceLists   \* the device lists the settings may hold

ASSUME DraftAssumption == {MaxSignals, MaxIds, MaxSamples, MaxEdits} \subseteq Nat

VARIABLES
    source,       \* _pSource: the application's list
    open,         \* whether the dialog is open
    draft,        \* _pDraftModel
    origins,      \* _origins: per draft row its row in source, NewRow if none
    devices,      \* SettingsModel::deviceList()
    lastId,       \* ids given to signals of the source so far
    now,          \* samples taken so far
    edits         \* edits made so far
vars == <<source, open, draft, origins, devices, lastId, now, edits>>

NewRow == 0       \* cNewRow
NewId == 0        \* the id of a draft row that is in no list yet

NoDraft == EmptyList(FALSE)
-----------------------------------------------------------------------------
(* The settings of a signal, without its data (appendCopy).  The verdict    *)
(* travels along.                                                           *)
CopyOf(s) == [s EXCEPT !.data = <<>>]

DraftOf(m) == [NoDraft EXCEPT !.rows = MapRows(m, CopyOf).rows]

ResetOrigins(m) == [i \in DOMAIN m.rows |-> i]

HasChanges ==
    \/ Size(draft) # Size(source)
    \/ \E i \in DOMAIN draft.rows :
        \/ origins[i] # i
        \/ SettingsOf(draft.rows[i]) # SettingsOf(source.rows[i])
-----------------------------------------------------------------------------
(* apply() *)

DroppedRows == {row \in DOMAIN source.rows : row \notin Range(origins)}

RowAfterRemoval(origin) ==
    IF origin = NewRow THEN NewRow
    ELSE origin - Cardinality({row \in DroppedRows : row < origin})

(* copySettingsToSource(): the setters in their order. *)
CopySettings(m, s, row) ==
    SetVisible(SetActive(SetExpression(m, row, s.expression, devices), row, s.active),
               row, s.visible)

Inverted(rows) == [r \in DOMAIN rows |-> SelectInSeq(rows, LAMBDA s : s = r)]

(* Mutation of MoveIntoDraftOrder: a row changes places with the one it displaces. *)
SwapIntoDraftOrder(m, rows) ==
    LET done[target \in 0 .. Len(rows)] ==
            IF target = 0
            THEN [list |-> m, draftRowAt |-> Inverted(rows)]
            ELSE LET acc == done[target - 1]
                     current == SelectInSeq(acc.draftRowAt, LAMBDA d : d = target)
                 IN  [list |-> MoveSignal(acc.list, current, target),
                      draftRowAt |-> [acc.draftRowAt EXCEPT ![target] = target,
                                                            ![current] = acc.draftRowAt[target]]]
    IN  done[Len(rows)].list

(* moveSourceRowsIntoDraftOrder(): rows[d] is the source row of draft row d. *)
MoveIntoDraftOrder(m, rows) ==
    LET done[target \in 0 .. Len(rows)] ==
            IF target = 0
            THEN [list |-> m, draftRowAt |-> Inverted(rows)]
            ELSE LET acc == done[target - 1]
                     current == SelectInSeq(acc.draftRowAt, LAMBDA d : d = target)
                 IN  [list |-> MoveSignal(acc.list, current, target),
                      draftRowAt |-> InsertAt(RemoveAt(acc.draftRowAt, current), target, target)]
    IN  done[Len(rows)].list

(* Each draft row's row in the source, first without the dropped ones.     *)
KeptRows == [d \in DOMAIN origins |-> RowAfterRemoval(origins[d])]
AddedRows == Ascending({d \in DOMAIN origins : origins[d] = NewRow})
SourceRows(size) ==
    [d \in DOMAIN origins |->
        IF origins[d] = NewRow THEN size + SelectInSeq(AddedRows, LAMBDA e : e = d)
        ELSE KeptRows[d]]

(* The settings of the rows that are left, then the rows that are new.     *)
Updated ==
    LET upTo[d \in 0 .. Size(draft)] ==
            IF d = 0 THEN RemoveSignals(source, DroppedRows)
            ELSE IF origins[d] = NewRow THEN upTo[d - 1]
            ELSE CopySettings(upTo[d - 1], draft.rows[d], KeptRows[d])
    IN  upTo[Size(draft)]
Extended ==
    LET upTo[k \in 0 .. Len(AddedRows)] ==
            IF k = 0 THEN Updated
            ELSE AddSignal(upTo[k - 1],
                           [draft.rows[AddedRows[k]] EXCEPT !.id = lastId + k], devices)
    IN  upTo[Len(AddedRows)]

Applied == MoveIntoDraftOrder(Extended, SourceRows(Size(Updated)))
-----------------------------------------------------------------------------
Init ==
    /\ source = EmptyList(TRUE) /\ open = FALSE
    /\ draft = NoDraft /\ origins = <<>>
    /\ devices \in DeviceLists
    /\ lastId = 0 /\ now = 0 /\ edits = 0

(* A null pointer was used: the application is gone. *)
Alive == ~source.crashed

Edit == edits < MaxEdits /\ edits' = edits + 1

(* The list while the dialog is closed. *)
OnSource(m) == source' = m /\ UNCHANGED <<open, draft, origins, devices, lastId, now>>

ShowOrHide(row) ==
    /\ Alive /\ ~open /\ Edit
    /\ OnSource(SetVisible(source, row, ~source.rows[row].visible))

Select(row) ==
    /\ Alive /\ ~open /\ Edit
    /\ OnSource(SetSelected(source, row))

Sampled(s, t) == [s EXCEPT !.data = Append(@, SampleOf(t, Zero, "Good"))]

(* plotResults(): one sample for every active signal, at one time. *)
Sample ==
    /\ Alive /\ ~open
    /\ now < MaxSamples
    /\ ActiveRows(source) # <<>>
    /\ now' = now + 1
    /\ source' = MapRows(source, LAMBDA s : IF s.active THEN Sampled(s, now') ELSE s)
    /\ UNCHANGED <<open, draft, origins, devices, lastId, edits>>

(* ScopeController::clear(): the data of the active signals. *)
ClearData ==
    /\ Alive /\ ~open
    /\ OnSource(MapRows(source, LAMBDA s : IF s.active THEN CopyOf(s) ELSE s))
    /\ UNCHANGED edits

(* A project file: the list is cleared and filled (applyGraphData). *)
LoadProject(n, active) ==
    /\ Alive /\ ~open
    /\ lastId + n <= MaxIds
    /\ LET Loaded(k) == Signal(lastId + k, DefaultExpression, k \in active, TRUE)
           upTo[k \in 0 .. n] ==
               IF k = 0 THEN ClearList(source) ELSE AddSignal(upTo[k - 1], Loaded(k), devices)
       IN  source' = upTo[n]
    /\ lastId' = lastId + n
    /\ UNCHANGED <<open, draft, origins, devices, now, edits>>

(* deviceListChanged: both lists have an ExpressionStatus. *)
ChangeDevices(list) ==
    /\ Alive
    /\ list # devices
    /\ devices' = list
    /\ source' = CheckAll(source, list)
    /\ draft' = CheckAll(draft, list)
    /\ UNCHANGED <<open, origins, lastId, now, edits>>

OpenDialog ==
    /\ Alive /\ ~open
    /\ open' = TRUE
    /\ draft' = DraftOf(source)
    /\ origins' = ResetOrigins(source)
    /\ UNCHANGED <<source, devices, lastId, now, edits>>

(* The draft while the dialog is open. *)
OnDraft(m) == Edit /\ draft' = m /\ UNCHANGED <<source, open, devices, lastId, now>>

AddRow ==
    /\ open /\ Size(draft) < MaxSignals
    /\ OnDraft(AddSignal(draft, Signal(NewId, DefaultExpression, TRUE, TRUE), devices))
    /\ origins' = Append(origins, NewRow)

RemoveRow(row) ==
    /\ open
    /\ OnDraft(RemoveSignal(draft, row))
    /\ origins' = RemoveAt(origins, row)

(* Mutation of OriginsMoved: the row is inserted where it was dropped. *)
OriginsDropped(from, to) ==
    LET drop == IF to > from THEN to + 1 ELSE to
        left == RemoveAt(origins, from)
    IN  InsertAt(left, IF drop > Len(left) THEN Len(left) + 1 ELSE drop, origins[from])

(* onRowsMoved(), for the row before which a drop inserts. *)
OriginsMoved(from, to) ==
    LET drop == IF to > from THEN to + 1 ELSE to
        insertAt == IF drop > from THEN drop - 1 ELSE drop
    IN  InsertAt(RemoveAt(origins, from), insertAt, origins[from])

MoveRow(from, to) ==
    /\ open /\ from # to
    /\ OnDraft(MoveSignal(draft, from, to))
    /\ origins' = OriginsMoved(from, to)

EditExpression(row, expression) ==
    /\ open
    /\ OnDraft(SetExpression(draft, row, expression, devices))
    /\ UNCHANGED origins

ToggleActive(row) ==
    /\ open
    /\ OnDraft(SetActive(draft, row, ~draft.rows[row].active))
    /\ UNCHANGED origins

Close == open' = FALSE /\ draft' = NoDraft /\ origins' = <<>>

Accept ==
    /\ open
    /\ IF HasChanges
       THEN /\ lastId' = lastId + Len(AddedRows)
            /\ lastId' <= MaxIds
            /\ source' = Applied
       ELSE UNCHANGED <<source, lastId>>
    /\ Close
    /\ UNCHANGED <<devices, now, edits>>

Reject ==
    /\ open
    /\ Close
    /\ UNCHANGED <<source, devices, lastId, now, edits>>

Next ==
    \/ \E row \in DOMAIN source.rows : ShowOrHide(row) \/ Select(row)
    \/ Sample
    \/ ClearData
    \/ \E n \in 1 .. MaxSignals, active \in SUBSET (1 .. MaxSignals) :
            active \subseteq 1 .. n /\ LoadProject(n, active)
    \/ \E list \in DeviceLists : ChangeDevices(list)
    \/ OpenDialog
    \/ AddRow
    \/ \E row \in DOMAIN draft.rows :
            \/ RemoveRow(row)
            \/ \E to \in DOMAIN draft.rows : MoveRow(row, to)
            \/ \E expression \in Expressions : EditExpression(row, expression)
            \/ ToggleActive(row)
    \/ Accept
    \/ Reject

Spec == Init /\ [][Next]_vars
-----------------------------------------------------------------------------
States == {"UNKNOWN", "VALID", "SYNTAX_ERROR", "UNKNOWN_DEVICE"}
Samples == [at : 1 .. MaxSamples, value : {Zero}, quality : {"Good", "NoValue"}]

ListOK(m) ==
    /\ \A i \in DOMAIN m.rows :
        LET s == m.rows[i]
        IN  /\ s.id \in 0 .. MaxIds /\ s.expression \in Expressions
            /\ s.active \in BOOLEAN /\ s.visible \in BOOLEAN
            /\ s.state \in States
            /\ s.data \in Seq(Samples)
    /\ m.selected \in 0 .. Size(m)
    /\ m.crashed \in BOOLEAN

TypeOK ==
    /\ ListOK(source) /\ ListOK(draft) /\ open \in BOOLEAN
    /\ origins \in [DOMAIN draft.rows -> 0 .. MaxSignals]
    /\ devices \in DeviceLists /\ lastId \in 0 .. MaxIds /\ now \in 0 .. MaxSamples
    /\ edits \in 0 .. MaxEdits

(* Whatever was added, removed and dropped elsewhere in the draft, each of  *)
(* its rows still knows the row of the source it was copied from, and no    *)
(* two rows claim the same one (SignalListDraft::onRowsInserted, onRowsRemoved *)
(* and onRowsMoved): apply() would write one signal's settings over another *)
(* signal that has data.                                                    *)
OriginsFollowTheirSignal ==
    \A d \in DOMAIN draft.rows :
        /\ origins[d] = NewRow <=> draft.rows[d].id = NewId
        /\ origins[d] # NewRow => /\ origins[d] \in DOMAIN source.rows
                                  /\ source.rows[origins[d]].id = draft.rows[d].id

(* The verdict shown for every signal is the one its present expression     *)
(* gets with the present devices, in the list and in the draft              *)
(* (ExpressionStatus::handleResultReady drops a result of another           *)
(* expression; setExpression() resets the verdict).                         *)
VerdictsAreCurrent ==
    \A m \in {source, draft} : \A i \in DOMAIN m.rows :
        m.rows[i].state = Verdict(m.rows[i].expression, devices)

(* All plotted signals have samples of the same times, those that are not   *)
(* active have none, and the plot draws the active signals in the order of  *)
(* the list: the exporter walks the series of all active signals by the     *)
(* length of the first (DataFileExporter::exportDataFile), and a graph is   *)
(* found by the place of its signal among the active ones.  A hidden signal *)
(* is not selected.                                                         *)
Times(s) == [k \in DOMAIN s.data |-> s.data[k].at]
SeriesAligned ==
    Alive =>
        /\ \A i, j \in DOMAIN source.rows :
            source.rows[i].active =>
                Times(source.rows[j]) = IF source.rows[j].active THEN Times(source.rows[i])
                                        ELSE <<>>
        /\ source.graphs = ActiveIds(source)
        /\ source.selected # 0 => source.rows[source.selected].visible

(* Accepting the dialog leaves the list exactly as the draft shows it.  A   *)
(* signal that was in the list before keeps its measured data, unless its   *)
(* expression changed or it was deactivated; a new one has measured nothing *)
(* (SignalListDraft::apply).                                                *)
Old(id) == source.rows[SelectInSeq(source.rows, LAMBDA s : s.id = id)]
KeepsData(old, new) ==
    old.expression = new.expression /\ old.active /\ new.active

DraftIsApplied ==
    [][ Accept /\ Alive' =>
        /\ Len(source'.rows) = Size(draft)
        /\ \A d \in DOMAIN draft.rows :
            LET s == source'.rows[d]
            IN  /\ SettingsOf(s) = SettingsOf(draft.rows[d])
                /\ IF draft.rows[d].id = NewId
                   THEN s.id \notin {source.rows[i].id : i \in DOMAIN source.rows}
                        /\ NothingMeasured(s.data)
                   ELSE /\ s.id = draft.rows[d].id
                        /\ IF KeepsData(Old(s.id), s) THEN s.data = Old(s.id).data
                           ELSE NothingMeasured(s.data)
      ]_vars

(* "Shows or hides the plotted graph" of a signal                           *)
(* (GraphView::handleGraphVisibilityChange, graphview.cpp:493): whenever a  *)
(* slot of the view takes the graph of an active signal from the plot, the  *)
(* plot has one.                                                            *)
PlotHasTheGraph == Alive
=============================================================================
