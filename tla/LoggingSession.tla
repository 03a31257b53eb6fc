---------------------------- MODULE LoggingSession ----------------------------
(***************************************************************************)
(* What becomes of a poll's results (src/src): the expressions of the      *)
(* active signals are turned into one list of data points                  *)
(* (datahandling/expressionparser.cpp), every adapter answers for its      *)
(* share of them (communication/adapterpoll.cpp), each expression is       *)
(* evaluated on the merged list (datahandling/graphdatahandler.cpp), every *)
(* result becomes a sample of the signal at the same place among the       *)
(* active ones (graphview/graphview.cpp) and all samples of a poll become  *)
(* one line of the temporary log file (importexport/datafileexporter.cpp). *)
(* controllers/scopecontroller.cpp starts, stops and clears it all.        *)
(*                                                                         *)
(* SignalStore is the list of signals and its plot; AdapterPolling models  *)
(* how the adapters of a poll cycle answer.                                *)
(***************************************************************************)
EXTENDS SignalStore

CONSTANTS
    Reads,            \* Reads[e]: the data points in e, in the order they first occur
    AdapterOf,        \* AdapterOf[p]: the adapter that owns the device of p
    Reachable,        \* the devices that pass sessionValidationError()
    PolledQualities,  \* the qualities an adapter may report
    ProjectLists,     \* the lists of signals a project file may hold
    MaxIds,           \* bound: signals ever created
    MaxCycles,        \* bound: poll cycles
    MaxEdits,         \* bound: edits of the list and the settings
    MaxCrashes        \* bound: crashes of the application

Points == DOMAIN AdapterOf
Adapters == Range(AdapterOf)
Qualities == {"Good", "Degraded", "NoValue", "Invalid"}
Usable == {"Good", "Degraded"}

ASSUME SessionAssumption ==
    /\ DOMAIN Reads = Expressions
    /\ \A e \in Expressions : Reads[e] \in Seq(Points)
    /\ PolledQualities \subseteq Qualities
    /\ ProjectLists \subseteq Seq([expression : Expressions, active : BOOLEAN])
    /\ {MaxIds, MaxCycles, MaxEdits, MaxCrashes} \subseteq Nat

VARIABLES
    list,       \* the signals and their plot
    gui,        \* GuiModel::guiState(); an opened data file is DataFileNotes
    polling,    \* AdapterPoll::isActive()
    parsers,    \* _valueParsers with _expressionDataPointIndices
    points,     \* AdapterPoll::_registerList
    log,        \* the temporary log file and DataFileExporter's buffer for it
    swapped,    \* a project replaced the signals of the running session
    salvage,    \* what the file held when the application last crashed in a session
    lastId, now, edits, crashes
vars == <<list, gui, polling, parsers, points, log, swapped, salvage,
          lastId, now, edits, crashes>>
counters == <<lastId, edits, crashes>>
-----------------------------------------------------------------------------
(* ExpressionParser and GraphDataHandler::setupExpressions(). *)

ActiveExpressions(m) ==
    [k \in DOMAIN ActiveRows(m) |-> m.rows[ActiveRows(m)[k]].expression]

(* parseExpressions(): every data point once, in the order of its first     *)
(* occurrence, found expression by expression and point by point.           *)
FindOrAddDataPoint(found, p) == IF p \in Range(found) THEN found ELSE Append(found, p)

ProcessExpression(found, e) ==
    LET upTo[j \in 0 .. Len(Reads[e])] ==
            IF j = 0 THEN found ELSE FindOrAddDataPoint(upTo[j - 1], Reads[e][j])
    IN  upTo[Len(Reads[e])]

DataPoints(expressions) ==
    LET upTo[k \in 0 .. Len(expressions)] ==
            IF k = 0 THEN <<>> ELSE ProcessExpression(upTo[k - 1], expressions[k])
    IN  upTo[Len(expressions)]

IndexOf(p, list_) == SelectInSeq(list_, LAMBDA q : q = p)

Parser(e, all) ==
    [expression |-> e, indices |-> [j \in DOMAIN Reads[e] |-> IndexOf(Reads[e][j], all)]]
-----------------------------------------------------------------------------
(* AdapterPoll::buildAdapterGroups() and the merge in onReadDataResult().   *)
(* A reading is the point it is of and the cycle it was taken in.           *)

Reading(p, t, quality) == [point |-> p, at |-> t, quality |-> quality]
NoReading(t) == Reading("none", t, "Invalid")

OriginalIndices(a) == Ascending({i \in DOMAIN points : AdapterOf[points[i]] = a})

(* The results of adapter a: one for every point it was given, in their     *)
(* order, since the client drops surplus values and adds Invalid ones for   *)
(* missing ones (quality).  A group whose adapter has no manager is not     *)
(* asked, and has none.                                                     *)
GroupResults(a, answered, quality, t) ==
    IF a \in answered
    THEN [j \in DOMAIN OriginalIndices(a) |->
            LET p == points[OriginalIndices(a)[j]] IN Reading(p, t, quality[p])]
    ELSE <<>>

(* Mutation of Merged: the groups one after another. *)
Concatenated(answered, quality, t) ==
    LET Group(a) == GroupResults(a, answered, quality, t)
    IN  FlattenSeq([k \in 1 .. Cardinality(Adapters) |-> Group(SetToSeq(Adapters)[k])])

Merged(answered, quality, t) ==
    [i \in DOMAIN points |->
        LET a == AdapterOf[points[i]]
            results == GroupResults(a, answered, quality, t)
        IN  IF Len(results) # Len(OriginalIndices(a)) THEN NoReading(t)
            ELSE results[IndexOf(i, OriginalIndices(a))]]
-----------------------------------------------------------------------------
(* summarizeInputs() and evaluateExpression(): the value, named by the      *)
(* readings it was computed from, and its quality.                          *)

Evaluate(parser, results, t) ==
    LET Input(i) == IF i \in DOMAIN results THEN results[i] ELSE NoReading(t)
        inputs == [j \in DOMAIN parser.indices |-> Input(parser.indices[j])]
        qualities == {inputs[j].quality : j \in DOMAIN inputs}
        value == [j \in DOMAIN inputs |-> <<inputs[j].point, inputs[j].at>>]
    IN  IF parser.expression \notin Malformed /\ qualities \subseteq Usable
        THEN [value |-> value, quality |-> IF "Degraded" \in qualities THEN "Degraded" ELSE "Good"]
        ELSE IF parser.expression \notin Malformed /\ qualities = {"NoValue"}
        THEN [value |-> Zero, quality |-> "NoValue"]
        ELSE [value |-> Zero, quality |-> "Invalid"]

(* plotResults(), for one signal: a result that is not usable repeats the   *)
(* last value.                                                              *)
LastValue(data) == IF data = <<>> THEN Zero ELSE data[Len(data)].value
WithSample(s, result, t) ==
    [s EXCEPT !.data = Append(@, SampleOf(t, IF result.quality \in Usable THEN result.value
                                             ELSE LastValue(@), result.quality))]

(* plotResults(): result k is for the k-th active signal.  For a result     *)
(* beyond them a signal and a graph that do not exist are used.             *)
Plotted(m, results, t) ==
    IF Len(results) > Len(ActiveRows(m)) THEN [m EXCEPT !.crashed = TRUE]
    ELSE LET Sampled(i) ==
                 IF ActiveIdxOf(m, i) \in DOMAIN results
                 THEN WithSample(m.rows[i], results[ActiveIdxOf(m, i)], t) ELSE m.rows[i]
         IN  [m EXCEPT !.rows = SubSeq([i \in DOMAIN m.rows |-> Sampled(i)], 1, Len(m.rows))]
-----------------------------------------------------------------------------
(* DataFileExporter.  behind: the file is known not to show the plotted     *)
(* series: logging to it is off or failed, or a change of the list does not *)
(* rewrite it.                                                              *)

NoFile == [columns |-> <<>>, rows |-> <<>>]
Header(m) == [NoFile EXCEPT !.columns = ActiveIds(m)]

Cell(sample) == <<sample.value, sample.quality>>
Row(m, k) ==
    LET active == ActiveRows(m)
    IN  [at |-> m.rows[active[1]].data[k].at,
         cells |-> [d \in DOMAIN active |-> Cell(m.rows[active[d]].data[k])]]

SeriesLength(m) == Len(m.rows[ActiveRows(m)[1]].data)
ExportedRows(m) ==
    IF ActiveRows(m) = <<>> THEN <<>> ELSE [k \in 1 .. SeriesLength(m) |-> Row(m, k)]

(* writeToFile(): the file becomes f, or cannot be opened (ok).             *)
WriteFile(l, f, ok) ==
    IF ok THEN [l EXCEPT !.file = f]
    ELSE [l EXCEPT !.writing = FALSE, !.behind = TRUE]

(* Mutation of RewriteDataFile: the lines that were not flushed yet stay. *)
RewriteKeepsBuffer(l, m, ok) ==
    IF ActiveRows(m) = <<>> THEN [l EXCEPT !.behind = TRUE]
    ELSE WriteFile([l EXCEPT !.behind = FALSE], [Header(m) EXCEPT !.rows = ExportedRows(m)], ok)

(* rewriteDataFile(), with or without logging to the file. *)
RewriteDataFile(l, m, ok) ==
    LET emptied == [l EXCEPT !.buffer = <<>>]
    IN  IF ActiveRows(m) = <<>> THEN [emptied EXCEPT !.behind = TRUE]
        ELSE WriteFile([emptied EXCEPT !.behind = FALSE],
                       [Header(m) EXCEPT !.rows = ExportedRows(m)], ok)

FlushExportBuffer(l, ok) ==
    [WriteFile(l, [l.file EXCEPT !.rows = @ \o l.buffer], ok) EXCEPT !.buffer = <<>>]

(* enableExporterDuringLog(), disableExporterDuringLog(), exportDataLine(). *)
EnableExporter(l, m, ok) ==
    IF l.writing THEN WriteFile([l EXCEPT !.buffer = <<>>, !.behind = FALSE], Header(m), ok)
    ELSE l
DisableExporter(l, ok) == IF l.writing THEN FlushExportBuffer(l, ok) ELSE l

ExportDataLine(l, row, timeout, ok) ==
    IF ~l.writing THEN [l EXCEPT !.behind = TRUE]
    ELSE LET buffered == [l EXCEPT !.buffer = Append(@, row)]
         IN  IF timeout THEN FlushExportBuffer(buffered, ok) ELSE buffered
-----------------------------------------------------------------------------
Init ==
    /\ list = EmptyList(TRUE) /\ gui = "INIT" /\ polling = FALSE
    /\ parsers = <<>> /\ points = <<>>
    /\ log = [writing |-> TRUE, buffer |-> <<>>, file |-> NoFile, behind |-> TRUE]
    /\ swapped = FALSE /\ salvage = <<>>
    /\ lastId = 0 /\ now = 0 /\ edits = 0 /\ crashes = 0

Alive == ~list.crashed

SeriesCleared(m) == MapRows(m, LAMBDA s : IF s.active THEN [s EXCEPT !.data = <<>>] ELSE s)

(* ScopeController::start(), with signals to poll. *)
Start(active, ok) ==
    /\ Alive /\ gui # "STARTED" /\ ActiveRows(list) # <<>>
    /\ LET all == DataPoints(ActiveExpressions(list))
           cleared == SeriesCleared(list)
           rewritten == RewriteDataFile(log, cleared, ok)
       IN  /\ parsers' = [k \in DOMAIN ActiveRows(list) |-> Parser(ActiveExpressions(list)[k], all)]
           /\ IF UNION {Uses[e] : e \in Range(ActiveExpressions(list))} \subseteq Reachable
              THEN /\ list' = cleared
                   /\ points' = all
                   /\ polling' = active
                   /\ gui' = IF active THEN "STARTED" ELSE "STOPPED"
                   /\ log' = IF active THEN EnableExporter(rewritten, cleared, ok)
                             ELSE DisableExporter(rewritten, ok)
                   /\ swapped' = FALSE /\ salvage' = <<>>
              ELSE UNCHANGED <<list, points, polling, gui, log, swapped, salvage>>
    /\ UNCHANGED <<now, counters>>

(* Mutation of Stopped: the buffered lines are dropped. *)
StoppedUnflushed(ok) ==
    /\ polling' = FALSE /\ gui' = "STOPPED"
    /\ log' = IF log.writing THEN [log EXCEPT !.buffer = <<>>] ELSE log
    /\ UNCHANGED <<list, parsers, points, swapped, salvage, now, counters>>

(* ScopeController::stop() *)
Stopped(ok) ==
    /\ polling' = FALSE /\ gui' = "STOPPED"
    /\ log' = DisableExporter(log, ok)
    /\ UNCHANGED <<list, parsers, points, swapped, salvage, now, counters>>

Stop(ok) == Alive /\ gui = "STARTED" /\ Stopped(ok)

(* onCommunicationError() *)
SessionError(ok) == Alive /\ polling /\ Stopped(ok)

(* ScopeController::clear() *)
Clear(ok) ==
    /\ Alive
    /\ list' = SeriesCleared(list)
    /\ log' = RewriteDataFile(log, list', ok)
    /\ UNCHANGED <<gui, polling, parsers, points, swapped, salvage, now, counters>>

(* onReadDataResult() of the last adapter of a cycle, onRegisterDataReady(), *)
(* plotResults() and exportDataLine().                                      *)
PollCycle(answered, quality, timeout, ok) ==
    /\ Alive /\ polling /\ now < MaxCycles
    /\ now' = now + 1
    /\ LET merged == Merged(answered, quality, now')
           results == [k \in DOMAIN parsers |-> Evaluate(parsers[k], merged, now')]
           plotted == Plotted(list, results, now')
           Sample(k) == Last(plotted.rows[ActiveRows(list)[k]].data)
           row == [at |-> now', cells |-> [k \in DOMAIN results |-> Cell(Sample(k))]]
       IN  /\ list' = plotted
           /\ log' = IF plotted.crashed THEN log ELSE ExportDataLine(log, row, timeout, ok)
    /\ UNCHANGED <<gui, polling, parsers, points, swapped, salvage, counters>>

(* A change of the list in the Signals dialog, which can be opened while    *)
(* no session is shown as started; rewritten: the plot was updated, and the *)
(* file after it (afterGraphUpdate).                                        *)
Edit(m, rewritten, ok) ==
    /\ Alive /\ gui # "STARTED" /\ edits < MaxEdits
    /\ list' = m
    /\ log' = IF rewritten THEN RewriteDataFile(log, m, ok) ELSE [log EXCEPT !.behind = TRUE]
    /\ edits' = edits + 1
    /\ UNCHANGED <<gui, polling, parsers, points, swapped, salvage, now, crashes>>

AddToList(expression, ok) ==
    /\ lastId < MaxIds /\ lastId' = lastId + 1
    /\ Edit(AddSignal(list, Signal(lastId', expression, TRUE, TRUE), Reachable), TRUE, ok)
RemoveFromList(row, ok) == Edit(RemoveSignal(list, row), TRUE, ok) /\ UNCHANGED lastId
MoveInList(from, to, ok) ==
    from # to /\ Edit(MoveSignal(list, from, to), TRUE, ok) /\ UNCHANGED lastId
ToggleActive(row, ok) ==
    Edit(SetActive(list, row, ~list.rows[row].active), TRUE, ok) /\ UNCHANGED lastId
ChangeExpression(row, expression, ok) ==
    /\ expression # list.rows[row].expression
    /\ Edit(SetExpression(list, row, expression, Reachable), FALSE, ok)
    /\ UNCHANGED lastId

(* openProjectFile(): also from the menu of recent projects, which stays    *)
(* enabled during a session.                                                *)
OpenProject(project, writing, ok) ==
    /\ Alive /\ lastId + Len(project) <= MaxIds
    /\ LET Loaded(k) == Signal(lastId + k, project[k].expression, project[k].active, TRUE)
           upTo[k \in 0 .. Len(project)] ==
               IF k = 0 THEN ClearList(list) ELSE AddSignal(upTo[k - 1], Loaded(k), Reachable)
       IN  list' = upTo[Len(project)]
    /\ log' = RewriteDataFile([log EXCEPT !.writing = writing], list', ok)
    /\ lastId' = lastId + Len(project)
    /\ gui' = "STOPPED"
    /\ swapped' = polling
    /\ UNCHANGED <<polling, parsers, points, salvage, now, edits, crashes>>

(* The Log page of the settings. *)
ToggleWriting ==
    /\ Alive /\ gui # "STARTED" /\ edits < MaxEdits
    /\ log' = [log EXCEPT !.writing = ~@, !.behind = TRUE]
    /\ edits' = edits + 1
    /\ UNCHANGED <<list, gui, polling, parsers, points, swapped, salvage, now, lastId, crashes>>

(* The application dies during a session and is started again: the list is  *)
(* empty and the buffer gone; the file is on disk under the same name.      *)
Crash ==
    /\ polling /\ crashes < MaxCrashes
    /\ crashes' = crashes + 1
    /\ list' = EmptyList(TRUE) /\ gui' = "INIT" /\ polling' = FALSE
    /\ parsers' = <<>> /\ points' = <<>>
    /\ log' = [log EXCEPT !.writing = TRUE, !.buffer = <<>>, !.behind = TRUE]
    /\ swapped' = FALSE
    /\ salvage' = log.file.rows
    /\ UNCHANGED <<lastId, now, edits>>

Next ==
    \/ Crash
    \/ ToggleWriting
    \/ \E ok \in BOOLEAN :
        \/ \E active \in BOOLEAN : Start(active, ok)
        \/ Stop(ok)
        \/ SessionError(ok)
        \/ Clear(ok)
        \/ \E answered \in SUBSET Adapters, quality \in [Range(points) -> PolledQualities],
              timeout \in BOOLEAN : PollCycle(answered, quality, timeout, ok)
        \/ \E expression \in Expressions : AddToList(expression, ok)
        \/ \E row \in DOMAIN list.rows :
            \/ RemoveFromList(row, ok)
            \/ ToggleActive(row, ok)
            \/ \E to \in DOMAIN list.rows : MoveInList(row, to, ok)
            \/ \E expression \in Expressions : ChangeExpression(row, expression, ok)
        \/ \E project \in ProjectLists, writing \in BOOLEAN : OpenProject(project, writing, ok)

Spec == Init /\ [][Next]_vars
-----------------------------------------------------------------------------
SampleOK(sample) ==
    /\ sample.at \in 1 .. MaxCycles /\ sample.quality \in Qualities
    /\ sample.value \in Seq(Points \X (1 .. MaxCycles))

TypeOK ==
    /\ \A i \in DOMAIN list.rows :
        /\ list.rows[i].id \in 1 .. MaxIds /\ list.rows[i].expression \in Expressions
        /\ \A k \in DOMAIN list.rows[i].data : SampleOK(list.rows[i].data[k])
    /\ gui \in {"INIT", "STARTED", "STOPPED"}
    /\ {polling, swapped, log.writing, log.behind, list.crashed} \subseteq BOOLEAN
    /\ Range(points) \subseteq Points /\ Len(points) = Cardinality(Range(points))
    /\ \A k \in DOMAIN parsers : Range(parsers[k].indices) \subseteq Nat
    /\ lastId \in 0 .. MaxIds /\ now \in 0 .. MaxCycles
    /\ edits \in 0 .. MaxEdits /\ crashes \in 0 .. MaxCrashes

(* Every value that was measured for a signal was computed from the data    *)
(* points of its own expression, read in the cycle the sample was taken in, *)
(* however points are shared between expressions and split over adapters,   *)
(* and whatever was added, removed, moved or edited since                   *)
(* (ExpressionParser, AdapterPoll::onReadDataResult,                        *)
(* GraphDataHandler::handleRegisterData and GraphView::plotResults hand the *)
(* values on by index only).  Not promised once a project was loaded into   *)
(* the running session (swapped): see OneResultPerSignal.                   *)
MeasuredFromOwnPoints ==
    Alive /\ ~swapped =>
        \A i \in DOMAIN list.rows : \A k \in DOMAIN list.rows[i].data :
            LET s == list.rows[i]
                sample == s.data[k]
            IN  sample.quality \in Usable =>
                    sample.value = [j \in DOMAIN Reads[s.expression] |->
                                        <<Reads[s.expression][j], sample.at>>]

(* The temporary file with the lines still buffered is the series that are  *)
(* plotted, under the columns of the active signals: after every poll,      *)
(* clear, stop, error and change of the list, unless a write failed, or     *)
(* logging to it was off (DataFileExporter).  Nothing waits in the buffer   *)
(* once the session is over.  A session whose signals a loaded project      *)
(* replaced (swapped) is left out.                                          *)
LogFileIsComplete ==
    Alive /\ ~swapped =>
        /\ ~log.behind => /\ log.file.columns = ActiveIds(list)
                          /\ log.file.rows \o log.buffer = ExportedRows(list)
        /\ ~polling => log.buffer = <<>>

(* "One result per active signal, in active-graph order."                   *)
(* (GraphView::plotResults, graphview.cpp:525), while a session polls.      *)
OneResultPerSignal == polling => Len(parsers) = Len(ActiveRows(list))

(* "Allows recovery if the application crashes before export", "Cleared at  *)
(* the start of each new logging session" (docs, log-settings.md:11): what  *)
(* the temporary file held at a crash is there until then.                  *)
RecoveryFileKept == salvage # <<>> => log.file.rows = salvage
=============================================================================
