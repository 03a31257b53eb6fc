# A TLA+ model of ModbusScope

ModbusScope logs and plots values that *adapters* read for it. An adapter is a
separate program that talks JSON-RPC over its standard input and output; one
program per protocol is found in a directory at startup. Two things make the
application hard. One is what happens between these programs and the session the
user starts and stops: messages that come late, programs that die, pipes that
break inside a call, slots that run inside other slots. The other is that a
measured value has a long way to go by position only: from a data point to the
share of an adapter, back into one list, through an expression, to the signal at
the same place among the active ones, into a column of a file, and back from the
file in another country.

This directory models both with TLA+, checks them with TLC and proves the
invariants of the adapter client, the framing of messages, the poll loop, the
ownership of devices, the requests about data points, the signal list, the session
from poll to log file and the data files with TLAPS.
Paths below are relative to `src/src/`.

## 1. Inventory

Everything runs in one thread and one Qt event loop; there are no locks. What
makes the code hard is what the loop delivers, in which order, and that a signal
is a direct call: an emitter is interrupted by its own listeners.

| component | state | operations | hard part | modelled in |
|---|---|---|---|---|
| Adapter process, `ProtocolAdapter/adapterprocess.*` | the QProcess, unanswered requests by id, next id, kill timer | `start`, `sendRequest`, `stop`, messages, end of the process | a launch may time out and the process come up later; ids start again with every process; a write can fail inside the call | AdapterProcess |
| Adapter client and manager, `adapterclient.*`, `adaptermanager.*` | lifecycle state, handshake timer, auxiliary requests, incompatibility, queued announcement | prepare, configure, read, stop, six auxiliary requests; replies, errors, timeouts | replies are matched by method and state; the adapter may do anything | AdapterClient, SessionContract |
| Adapter hub, `adapterhub.*` | adapters awaited as ready, as started | `initAdapter`, `startSession`, `stopSession`, `requestReadData` | several adapters, each may fail while the loop over them runs | AdapterPolling |
| Poll loop, `communication/adapterpoll.*` | poll state, expressions per adapter, results of the cycle, timer | start, stop, poll timeout, results, errors | nested stop inside a start; results in any order | AdapterPolling |
| Session controller, `controllers/scopecontroller.*` | whether GUI and statistics run | start, stop, error path | an error inside its own start | AdapterPolling |
| Device list and adapter configs, `models/settingsmodel.*`, `adapterdata.cpp`, `dialogs/adapterdevicesettings.cpp`, `importexport/projectfilehandler.cpp` | owner of each device, stored configs, described schemas | describe, dialog, project load | three writers in any order, claims that overlap | DeviceReconcile, DeviceOwnership |
| Data point requests, `ProtocolAdapter/datapointservice.*` | tickets, pending requests, queued failures | build, describe, replies, timeouts, cancellation | id reuse; exactly one report per ticket | DataPointService |
| Description cache, `models/datapointdescriptioncache.*` | entry per reference, its requests | lookup, results, `adaptersChanged` | a device changes its adapter while a request is out | DataPointClients |
| Data point editor, `customwidgets/datapointeditorwidget.*` | device, form, expression, error, ticket | select, edit, set, retry | superseded requests | DataPointClients |
| Signals dialog | rows, edited row, editor mode | add, edit, remove | lookups inside slots | as views that look up at any time |
| Message framing, `framingreader.*` | buffer, what is awaited, its size | bytes in, messages out | chunk boundaries, rejected headers, a process that dies inside a message | FramingReader |
| Communication statistics | running flag, counters | start, stop, update | stop and start within one interval | the flag; rest planned |
| Signal list and store, `graphdatamodel.cpp`, `graphdatastore.cpp` | signals, active indices, selection, series | add, remove, move, activate, hide, edit | every setter emits while the caller is in the middle of its work | SignalStore |
| Draft of the list, `signallistdraft.cpp`, `signalsdialog.cpp` | a copy of the list, the origin of each row | edit, accept, reject | three kinds of indices at once while it is applied | SignalListDraft |
| Expression status, `util/expressionstatus.cpp`, `expressionchecker.cpp` | verdict per signal | expression and device list change | verdicts are written by index | SignalStore, SignalListDraft |
| Expression evaluation, `datahandling/*` | parsers and the data points of each | set up, evaluate | everything is matched by position | LoggingSession |
| Graph view, `graphview/graphview.cpp`, legend | graphs by active index, samples | update, plot, clear, show | the plot lags behind the list inside an emit | SignalStore; drawing not modelled |
| Log file, `importexport/datafileexporter.cpp` | file, buffered lines | a line per poll, rewrite on every change | two writers of one file, failing writes | LoggingSession |
| Data files and notes, `datafilehandler.cpp`, `notemodel.cpp`, `guistatecontroller.cpp` | shown file, notes, changed flag, path | open, edit notes, save, close | a rewrite in three steps | DataFileNotes |
| Text of data files, `datafileexporter.cpp`, `settingsauto.cpp`, `datafileparser.cpp`, `util/result.cpp` | none | write, recognise, parse, replace notes | written and read under different locales | DataFileFormat |
| Project and preset files, MBC import, diagnostics, update check, debug log | see `PROJECT.json` | | parsing, I/O and drawing | what loading a project does to the other parts |

How they interact: `MainApp` calls `AdapterHub::initAdapter()` once at startup
(after it opened a project named on the command line). The user starts and stops
through `ScopeController`, whose GUI state enables Start only when no session
runs and Stop only when one does. `AdapterPoll` groups the expressions by the
adapter of their device, waits for `adapterReady()`, starts a session per
adapter, then polls all of them in cycles. An error of any adapter reaches the
poll, which stops everything, and the controller. When an adapter describes
itself, the manager hands the result to `SettingsModel`, which decides anew who
owns which device; the signals dialog is told and may retry a request from
inside that signal. A finished poll cycle goes from `AdapterPoll` through
`GraphDataHandler` to `GraphView::plotResults()`, which appends the samples and
emits what `DataFileExporter` writes; every change of the signal list goes
through `GraphView::updateGraphs()`, whose end makes the exporter write the whole
log file anew.

Properties that make each component correct are the ones in section 3; what can
go wrong is listed line by line under `hazards` in `PROJECT.json`.

## 2. Modules

    AdapterProcess          the transport below a client, as parts of actions
      AdapterClient         one adapter; every call, message and timeout
        MCAdapterClient     sets of auxiliary requests for TLC
        AdapterClient_proof theorems, those about FramingReader included
    SessionContract         what a manager promises the hub; implemented by
                            AdapterClient, used by AdapterPolling
      AdapterPolling        controller, poll loop and hub over N contracts
        MCAdapterPolling
        AdapterPolling_proof
    OrderedSets             a set of numbers in ascending order: how a loop goes
      OrderedSets_proof     over the keys of a map or over rows, and lemmas about it
    DeviceReconcile         who owns which device, as a function
      DeviceOwnership       describes, settings dialog, project files
        MCDeviceOwnership
        DeviceOwnership_proof
      DataPointService      tickets over adapters that come and go
        DataPointClients    description cache and data point editor
          MCDataPoints
          DataPointClients_proof
    FramingReader           bytes of an adapter into messages
      MCFramingReader
    SignalStore             a list of signals with its checks and its plot, as
                            functions of the list
      SignalListDraft       the Signals dialog over two such lists
        MCSignals
        SignalListDraft_proof
      LoggingSession        from poll results to samples and the log file
        MCLogging
        LoggingSession_proof
    DataFileNotes           data files on disk and the notes in them
      MCDataFiles
      DataFileNotes_proof   theorems
    DataFileFormat          the text of data files, written and read
      MCFileFormat

**AdapterProcess.** Its variables are the members of the class. Its definitions
are not actions but the effects of `start`, `sendRequest`, `stop` and of the end
of the process, because a handler of the client calls them in the middle of its
own step. `proc` is "off", "open" or "shut"; a pipe that broke or was closed is
"shut" while the program still runs. `start()` returns false in two cases
(`LaunchFails`): the program cannot be run, or `waitForStarted(3000)` times out and
the QProcess stays in Starting (`starting`). Nothing ends that process: the client is
IDLE, `stopSession()` returns early, and for `isRunning()` and the next `start()`
(lines 33-36) it is a running one, so the next `prepareAdapter()` sends `initialize`
to it. QProcess keeps what is written in Starting; the process may come up at any
later moment (`ProcessComesUp`, nobody is told), end, or report that it failed to
start (`StartFailsLate`: `errorOccurred()`, reconnected at line 48, but no
`finished()`, so the map of requests and the kill timer are left as they were). It
answers nothing before it is up. QProcess may report a failed write from
inside the call, so with `ChannelMayBreak` every request has a failing variant
(`QProcess::write` after `closeWriteChannel` writes nothing, which the code
takes for the same error).

**AdapterClient.** `state` is `_state`; one action per public function and per
slot, each with all the slots it reaches, the manager's included: `Described`
is the reply to `adapter.describe`, the update of the settings it triggers (no
state here), the `adapter.dataPointSchema` request the manager sends from inside
`describeResult()` - which can fail and put the client to IDLE - and the
`adapterReady()` after it. The adapter is the environment: it answers any
pending request, in any order, with a result, an error or something that is not
an object, or never; it exits or crashes at any time. `signals` is what the last
step emitted. The application calls are the ones it makes: `requestStatus` and
`validateDataPoint` are in the interface and modelled, though no caller exists.
`staleReads` is history: pending reads of an earlier session.

**SessionContract.** One table of moves: on which call or event a phase changes
to which and with which signals. `AdapterClient!ImplementsContract` maps its
state to a phase and checks that every step is a move of the table or unseen;
AdapterPolling takes its adapters from the same table.

**AdapterPolling.** Slots nest, so `todo` is the call stack: a call or signal is
one step, what it causes goes on top, and the loop it interrupted goes on below
with what was left. Events only occur when the stack is empty. `cycle` is
history: whether the poll cycle is open, published or published twice.

**DeviceReconcile, DeviceOwnership.** A device list maps each device to its
owner or to none. `Reconciled` is `reconcileDevicesWithAdapters()`: adapters with
a stored config first, then "modbus", then by name. The dialog keeps the two
sets it captures when it is opened (`_validAdapterIds`, `_deviceIdsWithoutTab`);
adapters may describe themselves while it is open. A project file is any set of
adapters, with or without device arrays, and any devices section. `chosen`,
`known`, `aligned`, `loaded` are history: what the user or the last file decided.

**FramingReader.** The stream is a sequence of tokens: a header with its length, the
separator, and the bytes of a body. `TryParse` is the loop of `tryParse()` as a
function of the turns taken: `ParseHeader` and `ParseBody` are what a turn does in
the two states, and `returned` says that the loop has left, which it does after at
most one turn per token of the buffer. A read takes any number of tokens, and a process that exits loses any tail of what
it wrote. `start()` leaves the reader as it is, as in the code; `clean` is
history: whether it was empty when the process started. AdapterProcess receives
whole messages; this module is why it may.

**SignalStore, SignalListDraft.** An operation of the store is a function of the
whole list, because the setters emit in the middle and the slots of the view, of
the expression check and of the exporter run there: `SetActive` is the setter with
`setVisible()`, the visibility slot of the view, and `updateGraphs()` after it, in
that order. `crashed` records that a slot asked the plot for a graph it does not
have. The draft is a second list without plot and without data; ids tell signals
apart and are history, the code has only rows and `_origins`. `Applied` is
`apply()`: drop, copy settings, append, then move into order.

**LoggingSession.** What an expression evaluates to is the tuple of the readings it
was given, a reading being a data point and the cycle it was taken in: then a
value that ended at the wrong signal is visible as such. An adapter may answer
with another number of values than it was asked for, or with an error, but the client
truncates its list or pads it with invalid results (`adapterclient.cpp:616-651`):
the group always has its length, and a value that was not sent is one whose quality
is Invalid. The group that AdapterPoll skips for its length (`adapterpoll.cpp:148-152`)
is that of an adapter without a manager, which was not asked (lines 113-123); its
points stay Invalid. `answered` is the set of the others.
`DataPoints` is the double loop of `parseExpressions()`, which finds or adds the
points of one expression after the other, `Plotted` the loop of `plotResults()` over
the active signals. The log file is its columns and lines; every write can fail (`ok`). `swapped`,
`salvage`, `log.behind` are history: a project was loaded into a session, what the
file held at a crash, and whether a write failed or logging was off.

**DataFileNotes.** A file is its data and its notes. `updateNoteLines()` is three
actions, `CopyFile`, `RemoveFile`, `RenameCopy`, and the application may die
between any two; a rename or a removal may fail, which ends the call. Notes carry
what they were made for.

**DataFileFormat.** Here a line is a sequence of atoms, and fields exist only after
somebody split it, with whatever separator he believes in. The same file is
written under one locale, has its notes replaced under another and is read under
a third. `UpdateSettings` is the recognition from the first lines of the file,
`ProcessDataFile` the parser with the settings found.

**DataPointService, DataPointClients.** An adapter is reduced to whether it takes
requests; what the client guarantees is `AuxTracked`, proved of AdapterClient,
and that it cancels everything it tracks when it stops taking requests. Tickets
are numbers in order of issue; `asked` remembers what each was for. The failures
of one `emitQueuedFailures()` are delivered one by one, with lookups of the views
in between. `Entries.from` is history.

## 3. Checks

| run | instance | shows |
|---|---|---|
| Client | 12 request ids, 4 outstanding, 2 queued announcements, pipes may break | type, `RepliesBelongToState`, `WaitsForRequest`, `AuxTracked`, `ProcessServesSession`, `IncompatibleLeftAlone`, and the refinement `ImplementsContract` |
| ClientLiveness | 9 ids, 3 outstanding, pipes work, no error replies to readData | every handshake, stop and announcement ends |
| Polling | 3 adapters, in order, errors and timeouts at any moment | no orphan session, GUI/statistics/poll agree, one result per cycle, a cycle waits only for adapters that were asked, waiting for ready adapters ends |
| PollingFaults | 2 adapters, failing launches, breaking pipes, replies out of order | `SessionStateAgrees` survives all of it |
| Devices | 2 adapters, "modbus" second by name, 2 devices both claim in part | choices kept, defaults rob nobody, sections aligned, a loaded project agrees |
| DataPoints | 2 adapters, 2 devices, 2 forms, 2 tickets | one report per ticket, to the right request; cache and editor never wait for nothing, the expression is that of the form |
| Framing | 3 messages of 1, 2 and too many bytes, 2 runs of the process, 8 tokens in the pipe | whatever the reads, messages come whole, once, in order, and none is held back |
| Signals | 3 signals, 2 expressions over 2 devices, 2 samples, 3 edits | each draft row keeps its origin, accepting makes the list the draft, data stay with their signal, series and graphs stay aligned, verdicts are current |
| Logging | 2 adapters, 3 data points, 3 expressions that share them, 3 signals ever, 2 polls, 1 edit, 1 crash, 3 project lists | every sample comes from the data points of its own expression; file and buffer together are what is plotted |
| DataFiles | 2 files, and the copy of a copy as a file of its own, 2 notes | recordings survive a failure or death at any step; unmarked notes are on disk |
| FileFormat | 2 locales, 1 or 2 signals, 0 to 2 samples, 2 notes, labels and notes with either separator, a sample of 11 lines | exported files open, what opens is what was recorded, notes come back |

One more run, ReactivateHidden, finds a property violated that the sources state
(section 6).

*Why the bounds are enough.* 12 request ids let one process go through a whole
session and into the next one, with auxiliary requests in between; ids are reset
by a restart, so the number of restarts is not bounded; a launch may time out at any
of them, and its process come up, fail or be used by the next session. A reply can be late by
one session, which needs two outstanding requests of a kind. In the poll loop
the interesting case is one adapter that fails, one that succeeds and one that
is late: three adapters. `MaxOwed` 2 allows a late reply beside the current one.
Device ownership is decided between two claimants, one of which is "modbus"; two
devices let one be configured and one not. Two tickets let a request be
superseded, cancelled and its id reused; an instance with one device and three
tickets (2.7 million states) gives the same results. The reader keeps at most one
partial message, so three messages let one be delivered, one be cut and one
follow. Three signals are the least with a row that moves over another one while
a third is dropped, and three edits make a move, a removal and an addition in one
draft. Two adapters and three data points, one of them shared between two
expressions in different positions, make every index of the merge differ from the
one next to it. 11 lines of sample are the header of a file with one note and two
rows of data: files with fewer and with more notes fall on both sides of the limit
(50 lines in the code), and so do files with one sample.

*Fairness.* ClientLiveness: a running timer expires, a queued call is delivered,
a process that was told to stop and has a kill timer is gone in the end. Nothing
makes the adapter answer and nothing makes the user act. Polling: the call stack
runs, the poll timer fires and a phase that waits ends, which is what
ClientLiveness shows of a client under its assumptions. No fairness is stated for
an active adapter, because the code has no timer for `adapter.readData`: an
adapter that is alive and silent stalls the poll. The modules about signals and
files state no fairness: what they describe are calls of the user that end before
the next one begins.

*Deadlock* is checked except in Framing, Signals and Logging, where the bounds on
messages, edits and polls end every behaviour.

*Restrictions.* With error replies to readData `StopEnds` fails (section 6), so
ClientLiveness has none; with a pipe that breaks the handshake timer may run in
IDLE (`adapterclient.cpp:346`), harmlessly. Polling keeps replies in order and the
pipes whole, because `OneResultPerCycle` and `NoOrphanSession` fail otherwise
(section 6); `MeasuredFromOwnPoints` and `LogFileIsComplete` except a session into
which a project was loaded, `LogFileIsComplete` a log with a failed write,
`DataSurvives` is checked on a disk that does not fill up, `ExportsOpen` for files
with two samples, labels without separators and data within the sample,
`NotesAreReadBack` for notes written under the locale of their file. Each of these
conditions is there because the property fails without it, which TLC showed.

*Mutants.* Each property of each passing run is paired in `PROJECT.json` with a
plausible bug in a definition (`Mutation of ...` in the modules) that breaks it.

## 4. Proofs

Each proof module extends its component's module and assumes of the constants
only what that module's named ASSUME says; a theorem that needs more says so in
its statement. TLC checked the inductive invariants below, as invariants, on the
instances of the runs before they were proved; for AdapterPolling it also checked
that they are inductive, from all states that satisfy them.

`AdapterClient_proof` proves six of the invariants of run Client for every
`MaxRequestId` above 2, every bound and every set of auxiliary requests, from the
two named assumptions on the constants only. No invariant but the first is
inductive by itself; instead of one large conjunction they are proved in layers,
each inductive relative to the ones before it:

1. `TypeOK` (`TypeCorrect`). The effects of AdapterProcess keep their types, one
   lemma each; then one step per action of the client.
2. `ProcessServesSession` (`ProcessServes`): outside IDLE and STOPPING the
   process is open, and an open process of an IDLE client - one whose launch timed
   out - has no request pending, has handed out no id and has no timer running.
   Later layers use it to know that a handshake meets a process that has been
   asked for nothing, be it new or left over (`PreparedMap`).
3. `FreshIds` (`IdsAreFresh`), a strengthening: no id still to be handed out is
   pending. Without it a new request could replace a pending one.
4. `RepliesBelongToState` (`RepliesBelong`): the only session request pending is
   the one the state waits for. This is why it is safe that replies are matched
   by method and state, not by id.
5. `WaitsForRequest` (`WaitsHaveRequests`): the request a state waits for is
   outstanding.
6. `HandshakeClean` (`HandshakesAreClean`), a strengthening: during a handshake
   nothing but session requests is pending - so that when the version turns out
   incompatible, nothing at all is.
7. `IncompatibleLeftAlone` (`IncompatibleIsLeftAlone`).
8. `AuxTracked` (`AuxIsTracked`): uses the earlier layers.
9. `ImplementsContract` (`ContractImplemented`): the refinement of SessionContract,
   on which AdapterPolling rests. The initial state is initial there, and every step
   is a move of the contract's table or unseen. For each state the lemmas give the
   phase it stands for and what it owes (`Owes`, the number of reads of this session
   that are unanswered), for each action the row of the table it takes. The steps
   use `TypeCorrect`, `IdsAreFresh` (a request adds one to what is owed) and
   `ProcessServes` (a request of a session is not refused because the process is
   off).

Every step lemma has one step per action of `Next`; TLC checked each layer,
the strengthenings included, before it was proved.

Its second part proves of FramingReader, for every set of messages and sizes, every
limit of the reader and the pipe, from `FramingAssumption` (sizes are positive and a
header may wait for its separator), `ReaderTyped`, `OnlyMessagesDelivered`
(`DeliversOnlyMessages`) and `WhatWasReadIsDelivered` (`DeliversWhatWasRead`). The
argument is about places in the stream:

1. *The stream*. `Stream` is a fold over the frames, so a message more appends its
   frame (`StreamOf`). By the loop lemma of OrderedSets_proof the first k frames end
   at `End(w, k)`, ends grow, each frame lies where the one before it ended, and a
   header or a separator is nowhere but at its place in a frame (`StreamLayout`).
2. *The loop*. A turn rests, drops the buffer, takes a header off or takes a body off
   (`Iterated`); a turn that does not return makes the buffer shorter (`Shorter`), so
   the loop returns, and where it does nothing is left that could be taken (`Parsed`,
   `AtRest`).
3. *The invariant* `ReaderInv`. When the reader was empty at the start of the process,
   what it was fed is the stream up to some place e and the pipe holds the stream
   from e; there is a place q such that the buffer is the stream from q to e
   and q is past the first j messages (`Past`), at the body of the next one in
   state BODY; and the bodies emitted are those of messages among the first j, in
   order (`Holds`). Each of the four kinds of turns keeps this (`DropHolds`,
   `ExpectHolds`, `TakeHolds`, `IterateHolds`): a dropped buffer moves q to e, past
   messages that are lost; a header in the buffer, wherever it was found, is the
   header of message k + 1 for some k >= j, because headers are nowhere else. As long
   as every message fits, q is where a frame begins, so nothing is refused
   (`NotRefused`) and k = j: nothing is lost.
4. *The steps*. Writing appends to the stream and the pipe (`StreamGrows`), a read
   cuts the pipe (`PieceCut`) and feeds (`Fed`), the end of a process cuts the tail;
   a start with an empty reader begins again at 0.

TLC checked `ReaderInv`, its quantifiers bounded by the stream, on the instance of run
Framing before it was proved.

`AdapterPolling_proof` proves of AdapterPolling, for any number of adapters,

- `PollingTyped`: `TypeOK`, and `SessionStateKept`: `SessionStateAgrees` - started,
  polling and statistics agree whenever nothing is being called - without further
  assumption: an error inside the session's own start included;
- `NoOrphans`, `WholeSessionPolled`, `OneResultEach`, `AskedAdaptersAwaited`: the
  invariants about sessions and cycles, assuming `Orderly` (replies of an adapter in
  order, pipes whole), which is what run Polling assumes and what section 6 shows to
  be needed.

The invariants of the run speak of states in which the stack is empty; a step only
pops or pushes. The inductive invariant therefore says what the calls that are still
to be made mean, and has four parts besides the type. `GuiInv`: the two flags of the
controller differ only while the rest of its start is on the stack. `StackInv`: what
may lie on the stack below what (signals on top of calls, the calls to configure only
in a start, the calls to read only in a cycle, each once). `SessionInv`: an adapter
in a session is one of the groups of the active poll or is about to be stopped; an
adapter of the poll that is not waited for runs, is about to be configured, or an
error is on its way. `CycleInv`: an adapter the cycle waits for has exactly one of
three things, a call to read that is to be made, a request out, or a result to be
handled (`Due`); any other has none (`Settled`).

`DeviceOwnership_proof` begins with lemmas about `Reconciled` of DeviceReconcile: a
set of claimants has a first one in the order of `Precedes`; a device that nobody who
described himself declares keeps its owner, any other goes to the claimant that
precedes the others (`DataPointClients_proof` has the three of them it needs). It
proves the type and three invariants of run Devices
(`ChoicesKept`, `SectionsAligned`, `FirstProjectKept`) and its action property
(`NobodyRobbed`). The strengthening: an open dialog knows only adapters that
described themselves (`DialogKnowsAdapters`); the adapters a dialog configured list
what it assigned to them and nothing else (`ConfigsFollowChoice`); after a first
project whose sections agree, adapters with a config declare disjoint devices, own
no other, and own all of theirs once they described themselves (`FirstProject`). In
the proof the dialog turned out to keep less than a run with two adapters shows: an
adapter that describes itself while the dialog is open and is chosen for a new tab
gets no config, so a third adapter can take that device at the next reconcile.
`ChoiceIsKept` speaks of the adapters the dialog knew when it was opened; the other
case is the hazard at `adapterdevicesettings.cpp:380`.

`DataPointClients_proof` proves all seven invariants of run DataPoints, for any
number of adapters, devices and tickets. The invariant of the service
(`ServiceInv`) is that every ticket issued is in exactly one of four places:
waiting at an adapter, in the queue of failures, in the list being emitted, or
reported (`OnePlace`, `TicketsOnce`); and that what waits is tracked by the client
under its id (`PendingAreTracked`). On it rest the cache (`CacheInv`: it waits only
for tickets that will be reported, a pending entry has one at its adapter) and the
editor (`EditorInv`: what it waits for was asked for the device and the form it
shows). The reports of one `emitQueuedFailures()` are delivered one by one, and the
invariant holds between them.

`OrderedSets_proof` holds what the provers need to know about loops over the keys of
a map or over rows: `Ascending(S)` exists for every finite set of numbers, has each
member once and in order (`AscendingOrder`). The models use it instead of sorting
operators, whose recursive definitions are out of the provers' reach. The library has
its induction only as theorems with an operator parameter; `LoopKeeps` and
`LoopExists` replace it where a function of the turns is given: what holds before the
first turn and is kept by each holds after the last, and such a function exists.

`SignalListDraft_proof` proves all four properties of run Signals and the type, for
any expressions, devices and bounds: `OriginsKept`, `VerdictsCurrent`,
`SeriesStayAligned` and `DraftApplied` (`DraftIsApplied`: the accepted list is row by
row what the draft shows, with the data of every signal whose expression and
activity stayed). The first half is about SignalStore: a list is `Sound` when its
series are aligned, the plot is drawn, the selection is visible and the verdicts are
current, and every operation of the store keeps it so and says what it changes of the
rows. The inductive invariant is that both lists are sound, that the ids of the
application's list are distinct and were given out before, and that no two rows of
the draft have the same origin (`SourceInv`, `DraftInv`). The second half is
`apply()`, loop by loop: after `removeSignals()` the rows that are left follow in
their order (`RemovedRows`, `KeptPlaces`); the settings are copied to them
(`UpdatedRows`); the new rows are appended (`ExtendedRows`); the rows of the draft
and those of the extended list are then in bijection (`SourcePlaces`), so the moves
end with every row in its place (`PlacedRows`). The loops are recursive functions of
the turns taken; each has a lemma on one turn and one on all of them.

`LoggingSession_proof` proves the type (`LoggingTyped`) and both invariants of run
Logging, `ValuesFromOwnPoints` and `FileKeptComplete`, for any expressions, any
sharing of data points between them, any adapters, lists and bounds, and any failing
write. The inductive invariant is `IInv`: the variables are typed, and while the
application is alive and no project was loaded into the session, the list is shown and
a polling session fits it (`ListShown`, `InSession`):

- every signal of the list is one of `OwnSignals`, whose samples come from its own
  expression; a set of signals that is closed under what the operations of SignalStore
  do to a signal is never left by them (`Closed`; one lemma per operation), which
  gives the type of the list and `MeasuredFromOwnPoints` by the same lemmas;
- the series of the active signals are equally long (`Level`), and the file with the
  buffer shows them (`Kept`);
- the parsers are those of the active signals over the points that are polled
  (`ParsersFit`), which is why a result has the signal that it is plotted on.

`PollCycleKeeps` is the long step: the loop of the parser finds every point once
(`ParsedExpressions`) and its indices lead back to the points read (`ParserOf`); an
answer merged at `OriginalIndices` is at the index of its point (`MergedReadings`), so
a usable result was computed from the points of the expression (`EvaluatedOwn`); result
k is appended to the k-th active signal and to no other (`PlottedInSession`); and the
line that is buffered is the row that has become the last one of the series
(`LineAppended`). `polling` without `swapped` is essential: with a project loaded into
the session `ParsersFit` is lost, which is the violation `OneResultPerSignal` of
section 6.

`DataFileNotes_proof` proves of DataFileNotes, for every set of files and names
and any bound on notes, from `FilesAssumption` (no file is its own temporary copy,
and a copy holds the data of its file):

1. `TypeSafe`: `TypeOK`, together with `DiskOK`, that the disk is a function on the
   names - which a type invariant stated by its values does not say.
2. `NotesSafe`: `SavedNotesAreInTheFile`. It is not inductive, because the file is
   gone between `RemoveFile` and `RenameCopy`; `CopyHasTheNotes` carries the notes
   over: from the moment the copy is made until it has the name of the file, the
   notes in it are the ones shown.
3. `DataSafe`: `DataSurvives`, assuming `~DiskMayFill`. The strengthening is
   `NoneDamaged` (no file holds data that are not its own) and `CopyIsThere` (a copy
   exists while the file may be gone). The assumption is needed: with it dropped
   TLC finds a recording lost (section 6).

*Only model-checked*: the liveness properties (temporal, under fairness); and
DataFileFormat (`ExportsOpen`, `NothingMisread`, `NotesAreReadBack`): its lines are
split and joined by recursion over their atoms, and what a split of a join gives is an
induction over data.

## 5. Not modelled

- Decoding: JSON parsing, `readData` results, quality flags, licences,
  diagnostics. Messages of an adapter reach the model as which request they
  answer and how.
- The log of quality changes in `AdapterPoll`; in AdapterPolling the values (they
  are in LoggingSession).
- QCustomPlot and muParser, the vendored libraries: half of the implementation's
  lines. Drawing, markers, zoom and scaling of the graph view likewise; a model of
  them would have nothing to say that a picture does not say better. Because of
  these and of dialogs the map cannot reach a large share of all lines; it covers
  the parts that keep state over time.
- The digits of a number, grouping of digits, dates, and the escaping of text in
  data files: there is none in the code.
- The dialog that asks for the settings of a data file that is not recognised.
- Parsing and writing of projects, presets and MBC files.
- Re-entrancy of `clearPendingAuxRequests()` through its receivers: none of them
  sends from the slot, their failures are queued.
- Nested event loops of modal error boxes, and the destruction of managers, which
  happens when the program ends.
- Sessions of constant expressions: they have no data points and are never
  polled (`StartCommunication({})`, whose session never opens a cycle).
- Device names, duplicates in a device array, devices without an id, the
  `maxDevices` cap of `configForWire()`. Every adapter is assumed to have a
  `devices` schema. A stored config without a `devices` array counts as stored
  and takes the devices of the defaults, as in the code.
- `expressionHelp` of DataPointService, which keeps no state.
- Code not reached by the above: see the `not_modelled` rows of `PROJECT.json`.

## 6. Where the sources disagree with themselves

One run ends in a counterexample, quoted with its line in `PROJECT.json`:

| run | what happens |
|---|---|
| ReactivateHidden | "Hide all" in the legend, deactivate a signal in the Signals dialog, accept, activate it again in a second round (TLC's shorter trace hides a signal that is already inactive, which the menus do not offer; this order ends in the same step): `setActive()` shows the signal (`graphdatastore.cpp:213`) before the plot was told that it is active, and `graphview.cpp:504` uses a graph that is not there |

The others were found the same way; each is a property in its module that TLC
violates under the constants given. They have no run of their own, so that every
module has one.

| property | module, constants | what happens |
|---|---|---|
| `StopEnds` | AdapterClient as in ClientLiveness, `ReadDataErrors = TRUE` | a late error reply to `adapter.readData` stops the handshake timer that guards `adapter.stop` (`adapterclient.cpp:396`); a stop can wait forever, against `adapterclient.h:227-228` |
| `ReadsOfThisSession` | AdapterClient as in Client | a `readData` reply of the previous session is taken for one of the running session (`adapterclient.cpp:878`; `adapterclient.h:200`) |
| `StartIsAnswered` | AdapterPolling, fair, as in Polling | a session stopped during the handshake and restarted before the process is gone waits for an adapter nobody restarts (`adapterhub.cpp:72`; lines 34-36) |
| `ActivePolls` | AdapterPolling, fair, as in Polling | an adapter that is not ready stays in `_pendingStartAdapters` (`adapterhub.cpp:89`): the session is active and never polls |
| `NoOrphanSession` | AdapterPolling as in Polling, `ChannelMayBreak = TRUE` | a pipe that breaks inside `startSessions()` clears the groups the loop runs over; the next adapter gets a session nobody tracks (`adapterpoll.cpp:271`) |
| `EveryProjectAgrees` | DeviceOwnership as in Devices | loading a project keeps the configs of adapters it does not mention (`projectfilehandler.cpp:163`; lines 134-136 say the sections agree) |
| `CompleteMessagesAreDelivered` | FramingReader as in Framing | `start()` does not reset the reader: part of a message that a process left when it died swallows the first messages of the next one (`adapterprocess.cpp:31-57`; `framingreader.h` "Complete messages are emitted") |
| `OneResultPerSignal` | LoggingSession as in Logging | the menu of recent projects stays enabled in a session (`mainwindow.cpp:599-602`, unlike `dropEvent`, 686-697): the results of the old signals are plotted on the new ones (`graphview.cpp:525`: "One result per active signal, in active-graph order.") |
| `RecoveryFileKept` | LoggingSession as in Logging | after a crash the first update of the plot rewrites the log file as empty (`mainwindow.cpp:262`); `docs/manual/reference/log-settings.md:11-12` promises recovery until the next session |
| `NotesStayWithTheirData` | DataFileNotes as in DataFiles | opening a second file and cancelling its dialog sets the path (`datafilehandler.cpp:79`); saving then writes the notes of the shown file into the other one (`mainwindow.cpp:309` speaks of "the data file") |
| `DataSurvives` | DataFileNotes as in DataFiles, `DiskMayFill = TRUE` | writes to the temporary copy are not checked (`datafileexporter.cpp:167-212`); the original is removed and an incomplete copy takes its name |

Smaller ones, seen while modelling and part of the models, without a run:

- A result that is not an object is a `sessionError()` even while stopping
  (`adapterclient.cpp:370-379`; `adapterclient.h:227-228` promises
  `sessionStopped()`).
- `adapterReady()` is emitted in IDLE when the schema request fails
  (`adapterclient.cpp:857-861`; `adapterclient.h:233`).
- The client is IDLE while the process still ends (`adapterclient.cpp:484-487`;
  `adapterclient.h:109` says the process is not running).
- An adapter that takes longer than three seconds to start stays with an IDLE client
  (`adapterprocess.cpp:46-52`): nothing ends it until the application does, and the
  next start of a session uses it; `adapterhub.cpp:100` takes IDLE for "no process
  running".
- The hub's `adapterReady()` fires when nobody is awaited, not when all are ready
  (`adapterhub.cpp:181-188`; lines 36-37).
- `OneResultPerCycle` fails when replies of an adapter arrive out of order, from
  the same cause as StaleReads; run Polling keeps them in order,
  `docs/technical/adapter-protocol-spec.md` allows one read in flight.
- An adapter that describes first takes by default a device of a configured
  adapter that has not described yet (`settingsmodel.cpp:318-323` excludes it).
- A describe while the settings dialog is open: accepting drops the devices just
  registered, or leaves a new tab of the new adapter without config.
- `alignDevicesWithAdapterConfigs()` keeps an owner that is one of several
  claimants; `reconcileDevicesWithAdapters()` then gives the device to the first.
- The editor asks whether the adapter is usable when a failure is delivered, not
  when it happened (`datapointeditorwidget.cpp:249`), and can miss the retry that
  lines 182-183 promise.
- A data file with one sample, or whose notes push the second row out of the first
  50 lines, makes `settingsauto.cpp:222` read a line that the sample does not have;
  an empty file does the same at line 29. `docs/manual/how-to/open-csv-file.md:41`
  says "CSV files exported by ModbusScope open without any manual configuration."
- A label that contains the separator makes an exported file unrecognisable; a note
  whose text contains it is read back as an empty note without a message
  (`parseNoteField()`).
- Notes saved into a file of another locale have the separators of this one
  (`datafileexporter.cpp:333-354`) and come back as empty or not at all.
- `docs/adapter-sequence-diagram.md` and the comment at `adapterclient.cpp:806-807`
  describe earlier versions.

## 7. Plan

Done: the adapter session and its process, message framing, the hub and the poll
loop, device ownership, data point requests and their clients, the signal list and
its dialog, a session from poll to log file, data files, their notes and their
text. Next, in this order:

1. *Proofs*
   - DataFileFormat: that a quality code is read as it was written, for all
     states and flags, and with it `NothingMisread` for files that are recognised.
2. *Modules*
   - Project files: what a project written and read again keeps, and what the
     migration of the XML format does to devices and expressions.
   - The counters of CommunicationStats against the cycles of AdapterPolling, with
     the two chains of updates that a quick stop and start leave running
     (`communicationstats.cpp:66`).
   - Markers and tracers of the graph view over a list that changes.
3. *Runs*. The runs of section 3 stay small on purpose and one per module. A new
   module takes the place of ReactivateHidden once the code is fixed, or shares the
   run of a module it extends.
