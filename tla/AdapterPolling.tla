--------------------------- MODULE AdapterPolling ---------------------------
(***************************************************************************)
(* The start, poll and stop path of a logging session over several         *)
(* adapters: ScopeController (controllers/scopecontroller.cpp),            *)
(* AdapterPoll (communication/adapterpoll.cpp) and AdapterHub              *)
(* (ProtocolAdapter/adapterhub.cpp) above one AdapterManager per adapter,  *)
(* which is represented by its SessionContract.                            *)
(*                                                                         *)
(* All of it runs in one event loop and signals are direct calls: a slot   *)
(* that emits or calls is interrupted by what it reaches, and loops over   *)
(* adapters go on afterwards with whatever the nested calls left behind.   *)
(* "todo" is that call stack: the calls and signals still to be carried    *)
(* out before the event loop can look at another event.                    *)
(***************************************************************************)
EXTENDS Naturals, Sequences, OrderedSets

CONSTANTS
    NAdapters,        \* number of discovered adapters; ids in the order of the hub's map
    MaxOwed,          \* bound: unanswered readData requests counted per adapter
    LaunchMayFail,    \* whether an adapter program may fail to launch
    ChannelMayBreak,  \* whether a write channel may break under a request
    RepliesInOrder    \* whether adapters answer requests in the order they got them

ASSUME PollingAssumption ==
    /\ NAdapters \in Nat \ {0}
    /\ MaxOwed \in Nat \ {0}
    /\ {LaunchMayFail, ChannelMayBreak, RepliesInOrder} \subseteq BOOLEAN

VARIABLES
    phase,            \* adapter -> phase of its session (SessionContract)
    owed,             \* adapter -> unanswered readData requests
    pendingReady,     \* AdapterHub::_pendingReadyAdapters
    pendingStart,     \* AdapterHub::_pendingStartAdapters
    pollState,        \* AdapterPoll::_pollState
    groups,           \* keys of AdapterPoll::_adapterGroups
    results,          \* keys of AdapterPoll::_pendingResults
    pendingResults,   \* AdapterPoll::_pendingResultAdapters
    pollTimer,        \* whether _pPollTimer is running
    started,          \* whether the GUI state is STARTED
    statsRunning,     \* CommunicationStats::_bRunning
    cycle,            \* history: what became of the current poll cycle
    todo              \* calls and signals not carried out yet, innermost first

hubVars == <<pendingReady, pendingStart>>
clientVars == <<phase, owed>>
cycleVars == <<results, pendingResults, cycle>>
sessionVars == <<pollState, groups, pollTimer, started, statsRunning>>
vars == <<clientVars, hubVars, cycleVars, sessionVars, todo>>

Adapters == 1 .. NAdapters

Table == INSTANCE SessionContract
            WITH phase <- phase, signals <- todo, owed <- owed

ActivePhases == {"active", "degraded", "announcing"}
SessionPhases == ActivePhases \cup {"starting"}

(* Work on the stack: a call of one adapter, a signal of one, or the rest  *)
(* of ScopeController::start().                                            *)
Work(op, a) == [op |-> op, adapter |-> a]
AfterStart == Work("afterStart", 1)
Ops == {"prepare", "configure", "read", "stop", "adapterReady", "sessionStarted",
        "sessionError", "readDataResult", "afterStart"}

(* A loop over some of the adapters, in the order of the hub's map. *)
ForEach(op, adapters) ==
    LET ids == Ascending(adapters)
    IN  [i \in DOMAIN ids |-> Work(op, ids[i])]

(* The signals of a move that somebody listens to. *)
Heard(out, a) ==
    LET heard == Ascending({i \in DOMAIN out : out[i] # "sessionStopped"})
    IN  [i \in DOMAIN heard |-> Work(out[heard[i]], a)]

Quiescent == todo = << >>
Doing(op) == ~Quiescent /\ Head(todo).op = op
Rest == Tail(todo)

TypeOK ==
    /\ phase \in [Adapters -> Table!Phases]
    /\ owed \in [Adapters -> 0 .. MaxOwed]
    /\ pendingReady \subseteq Adapters
    /\ pendingStart \subseteq Adapters
    /\ pollState \in {"Inactive", "WaitingForAdapter", "Active"}
    /\ groups \subseteq Adapters
    /\ results \subseteq Adapters
    /\ pendingResults \subseteq Adapters
    /\ pollTimer \in BOOLEAN
    /\ started \in BOOLEAN
    /\ statsRunning \in BOOLEAN
    /\ cycle \in {"none", "open", "done", "excess"}
    /\ todo \in Seq([op : Ops, adapter : Adapters])

(* MainApp calls initAdapter() once, before any user action. *)
Init ==
    /\ phase = [a \in Adapters |-> "idle"]
    /\ owed = [a \in Adapters |-> 0]
    /\ pendingReady = {} /\ pendingStart = {}
    /\ pollState = "Inactive"
    /\ groups = {} /\ results = {} /\ pendingResults = {}
    /\ pollTimer = FALSE
    /\ started = FALSE
    /\ statsRunning = FALSE
    /\ cycle = "none"
    /\ todo = ForEach("prepare", Adapters)

-----------------------------------------------------------------------------
(***************************************************************************)
(* Adapter managers.                                                       *)
(***************************************************************************)

Excluded ==
    (IF LaunchMayFail THEN {} ELSE Table!LaunchFailures)
        \cup (IF ChannelMayBreak THEN {} ELSE Table!WriteFailures)

MovesOf(a, on) ==
    {m \in Table!Moves \ Excluded : m.on = on /\ m.from = phase[a]}

(* Replies in order: adapter.stop is answered after every readData. *)
OwedChoices(move, n) ==
    IF RepliesInOrder /\ move.from = "stopping" /\ move.to = "ready"
    THEN {0}
    ELSE {IF k > MaxOwed THEN MaxOwed ELSE k : k \in Table!OwedAfter(move, n)}

(* Adapter a makes a move; its signals are carried out next. *)
Perform(a, move, rest) ==
    /\ phase' = [phase EXCEPT ![a] = move.to]
    /\ \E n \in OwedChoices(move, owed[a]) : owed' = [owed EXCEPT ![a] = n]
    /\ todo' = Heard(move.out, a) \o rest

(* A call of adapter a that takes effect only when "accepted" holds. *)
CallAdapter(on, a, accepted) ==
    IF accepted
    THEN \E move \in MovesOf(a, on) : Perform(a, move, Rest)
    ELSE todo' = Rest /\ UNCHANGED clientVars

(* The adapter, a timer or the event queue. *)
SessionEvent(a) ==
    /\ Quiescent
    /\ \E move \in MovesOf(a, "event") : Perform(a, move, << >>)
    /\ UNCHANGED <<hubVars, cycleVars, sessionVars>>

(* A reply to readData outside a running session is dropped by the client. *)
LateReplyDropped(a) ==
    /\ Quiescent
    /\ phase[a] # "active"
    /\ owed[a] > 0
    /\ owed' = [owed EXCEPT ![a] = @ - 1]
    /\ UNCHANGED <<phase, hubVars, cycleVars, sessionVars, todo>>

-----------------------------------------------------------------------------
(***************************************************************************)
(* Loops of AdapterHub and AdapterPoll over the adapters, one turn each.   *)
(***************************************************************************)

(* Mutation of InitAdapterTurn: managers that need no handshake are waited  *)
(* for as well.                                                             *)
AwaitEveryAdapter ==
    /\ Doing("prepare")
    /\ LET a == Head(todo).adapter IN
        /\ pendingReady' = pendingReady \cup {a}
        /\ CallAdapter("prepare", a, phase[a] = "idle")
    /\ UNCHANGED <<pendingStart, cycleVars, sessionVars>>

(* initAdapter(): only an idle manager is (re)started. *)
InitAdapterTurn ==
    /\ Doing("prepare")
    /\ LET a == Head(todo).adapter IN
        /\ pendingReady' = IF phase[a] = "idle" THEN pendingReady \cup {a}
                                                ELSE pendingReady
        /\ CallAdapter("prepare", a, phase[a] = "idle")
    /\ UNCHANGED <<pendingStart, cycleVars, sessionVars>>

(* startSessions(): provideConfig() ignores a client that is not ready.    *)
(* When a nested stop cleared the groups under the loop, its iterator      *)
(* dangles: the build may go on with the next group or find the end.       *)
StartSessionTurn ==
    /\ Doing("configure")
    /\ LET a == Head(todo).adapter IN
        \/ /\ pendingStart' = pendingStart \cup {a}
           /\ CallAdapter("configure", a, phase[a] = "ready")
        \/ /\ groups = {}
           /\ todo' = Rest
           /\ UNCHANGED <<clientVars, pendingStart>>
    /\ UNCHANGED <<pendingReady, cycleVars, sessionVars>>

RequestReadDataTurn ==
    /\ Doing("read")
    /\ LET a == Head(todo).adapter IN
        CallAdapter("read", a, phase[a] \in ActivePhases)
    /\ UNCHANGED <<hubVars, cycleVars, sessionVars>>

StopSessionTurn ==
    /\ Doing("stop")
    /\ LET a == Head(todo).adapter IN
        CallAdapter("stop", a, phase[a] \notin {"idle", "stopping", "killing"})
    /\ UNCHANGED <<hubVars, cycleVars, sessionVars>>

-----------------------------------------------------------------------------
(***************************************************************************)
(* AdapterPoll and ScopeController.                                        *)
(***************************************************************************)

(* Mutation of TriggerRegisterRead: results are awaited from every adapter. *)
ReadAwaitsAll(rest) ==
    IF pollState = "Active"
    THEN /\ pendingResults' = Adapters
         /\ results' = {}
         /\ cycle' = "open"
         /\ todo' = ForEach("read", Adapters) \o rest
    ELSE /\ todo' = rest
         /\ UNCHANGED cycleVars

(* triggerRegisterRead(), the slot of the poll timer and of the hub's      *)
(* sessionStarted().                                                       *)
TriggerRegisterRead(rest) ==
    IF pollState = "Active"
    THEN /\ pendingResults' = groups
         /\ results' = {}
         /\ cycle' = "open"
         /\ todo' = ForEach("read", Adapters) \o rest
    ELSE /\ todo' = rest
         /\ UNCHANGED cycleVars

(* Mutation of StopAll: only established sessions are stopped. *)
StopActiveOnly(stillStarting, rest) ==
    LET toStop == {a \in Adapters : phase[a] \in ActivePhases} IN
    /\ pollState' = "Inactive"
    /\ groups' = {} /\ results' = {} /\ pendingResults' = {}
    /\ pollTimer' = FALSE
    /\ pendingReady' = pendingReady \cup toStop
    /\ pendingStart' = stillStarting \ toStop
    /\ statsRunning' = FALSE
    /\ started' = FALSE
    /\ cycle' = "none"
    /\ todo' = ForEach("stop", toStop) \o rest

(* ScopeController::stop() with AdapterPoll::stopCommunication() and the   *)
(* bookkeeping that AdapterHub::stopSession() does before any manager is   *)
(* told to stop.                                                           *)
StopAll(stillStarting, rest) ==
    LET toStop == {a \in Adapters : phase[a] \notin {"idle", "ready"}} IN
    /\ pollState' = "Inactive"
    /\ groups' = {} /\ results' = {} /\ pendingResults' = {}
    /\ pollTimer' = FALSE
    /\ pendingReady' = pendingReady \cup {a \in toStop : phase[a] \in ActivePhases}
    /\ pendingStart' = stillStarting \ toStop
    /\ statsRunning' = FALSE
    /\ started' = FALSE
    /\ cycle' = "none"
    /\ todo' = ForEach("stop", toStop) \o rest

(* Start is enabled in the GUI only while no session is started, for data  *)
(* points on adapters the hub knows (sessionValidationError()); a session  *)
(* of constant expressions has no data points and no groups.               *)
StartCommunication(adapters) ==
    /\ Quiescent /\ ~started
    /\ started' = TRUE
    /\ groups' = adapters
    /\ IF \A a \in Adapters : phase[a] = "ready"
       THEN /\ pollState' = "Active"
            /\ todo' = ForEach("configure", adapters) \o <<AfterStart>>
       ELSE /\ pollState' = "WaitingForAdapter"
            /\ todo' = ForEach("prepare", Adapters) \o <<AfterStart>>
    /\ UNCHANGED <<clientVars, hubVars, cycleVars, pollTimer, statsRunning>>

(* Mutation of FinishStart: the poll is not asked whether it is still active. *)
FinishStartBlindly ==
    /\ Doing("afterStart")
    /\ statsRunning' = TRUE
    /\ todo' = Rest
    /\ UNCHANGED <<clientVars, hubVars, cycleVars, pollState, groups, pollTimer, started>>

(* The statistics start unless a nested error already stopped the session. *)
FinishStart ==
    /\ Doing("afterStart")
    /\ statsRunning' = IF pollState = "Inactive" THEN statsRunning ELSE TRUE
    /\ todo' = Rest
    /\ UNCHANGED <<clientVars, hubVars, cycleVars, pollState, groups, pollTimer, started>>

StopCommunication ==
    /\ Quiescent /\ started
    /\ StopAll(pendingStart, << >>)
    /\ UNCHANGED clientVars

PollTimeout ==
    /\ Quiescent /\ pollTimer
    /\ pollTimer' = FALSE
    /\ TriggerRegisterRead(<< >>)
    /\ UNCHANGED <<clientVars, hubVars, pollState, groups, started, statsRunning>>

-----------------------------------------------------------------------------
(***************************************************************************)
(* Signals of the managers, through AdapterHub to AdapterPoll.             *)
(***************************************************************************)

(* The hub is ready when nobody is left to wait for; a waiting poll is     *)
(* connected to that signal, once.                                         *)
OnManagerAdapterReady ==
    /\ Doing("adapterReady")
    /\ pendingReady' = pendingReady \ {Head(todo).adapter}
    /\ IF pendingReady' = {} /\ pollState = "WaitingForAdapter"
       THEN /\ pollState' = "Active"
            /\ todo' = ForEach("configure", groups) \o Rest
       ELSE /\ todo' = Rest
            /\ UNCHANGED pollState
    /\ UNCHANGED <<clientVars, pendingStart, cycleVars, groups, pollTimer, started,
                   statsRunning>>

(* Mutation of OnManagerSessionStarted: the first session starts the poll. *)
FirstSessionStarts ==
    /\ Doing("sessionStarted")
    /\ pendingStart' = pendingStart \ {Head(todo).adapter}
    /\ TriggerRegisterRead(Rest)
    /\ UNCHANGED <<clientVars, pendingReady, sessionVars>>

OnManagerSessionStarted ==
    /\ Doing("sessionStarted")
    /\ pendingStart' = pendingStart \ {Head(todo).adapter}
    /\ IF pendingStart' = {}
       THEN TriggerRegisterRead(Rest)
       ELSE todo' = Rest /\ UNCHANGED cycleVars
    /\ UNCHANGED <<clientVars, pendingReady, sessionVars>>

(* AdapterPoll::onSessionError() reports an error only when communication  *)
(* was running or waiting; then the controller stops everything.           *)
OnManagerSessionError ==
    /\ Doing("sessionError")
    /\ LET stillStarting == pendingStart \ {Head(todo).adapter} IN
        IF pollState # "Inactive"
        THEN StopAll(stillStarting, Rest)
        ELSE /\ pendingStart' = stillStarting
             /\ results' = {} /\ pendingResults' = {}
             /\ todo' = Rest
             /\ UNCHANGED <<pendingReady, cycle, sessionVars>>
    /\ UNCHANGED clientVars

(* Mutation of OnReadDataResult: every result is published when it comes. *)
PublishEach ==
    /\ Doing("readDataResult")
    /\ todo' = Rest
    /\ IF pollState = "Active"
       THEN /\ results' = results \cup {Head(todo).adapter}
            /\ pendingResults' = pendingResults \ {Head(todo).adapter}
            /\ pollTimer' = TRUE
            /\ cycle' = IF cycle = "open" THEN "done" ELSE "excess"
       ELSE UNCHANGED <<cycleVars, pollTimer>>
    /\ UNCHANGED <<clientVars, hubVars, pollState, groups, started, statsRunning>>

(* The results are merged and published when no adapter is waited for. *)
OnReadDataResult ==
    /\ Doing("readDataResult")
    /\ todo' = Rest
    /\ IF pollState = "Active"
       THEN /\ results' = results \cup {Head(todo).adapter}
            /\ pendingResults' = pendingResults \ {Head(todo).adapter}
            /\ IF pendingResults' = {}
               THEN /\ pollTimer' = TRUE
                    /\ cycle' = IF cycle = "open" THEN "done" ELSE "excess"
               ELSE UNCHANGED <<pollTimer, cycle>>
       ELSE UNCHANGED <<cycleVars, pollTimer>>
    /\ UNCHANGED <<clientVars, hubVars, pollState, groups, started, statsRunning>>

-----------------------------------------------------------------------------
Turn ==
    \/ InitAdapterTurn \/ StartSessionTurn \/ RequestReadDataTurn \/ StopSessionTurn
    \/ OnManagerAdapterReady \/ OnManagerSessionStarted \/ OnManagerSessionError
    \/ OnReadDataResult \/ FinishStart

Next ==
    \/ Turn
    \/ \E adapters \in SUBSET Adapters : StartCommunication(adapters)
    \/ StopCommunication
    \/ PollTimeout
    \/ \E a \in Adapters : SessionEvent(a) \/ LateReplyDropped(a)

Spec == Init /\ [][Next]_vars

(* What AdapterClient guarantees by its handshake timer, its kill timer    *)
(* and the event queue: a phase that waits for something ends.             *)
WaitingPhases == {"preparing", "starting", "announcing", "stopping", "killing"}

PhaseEnds(a) == phase[a] \in WaitingPhases /\ SessionEvent(a)

Fairness ==
    /\ WF_vars(Turn)
    /\ WF_vars(PollTimeout)
    /\ \A a \in Adapters : WF_vars(PhaseEnds(a))

FairSpec == Spec /\ Fairness

-----------------------------------------------------------------------------
(***************************************************************************)
(* Properties.                                                             *)
(***************************************************************************)

(* No adapter keeps a session behind the back of a poll that was stopped   *)
(* or failed: AdapterHub::stopSession() leaves no "untracked session".     *)
NoOrphanSession ==
    Quiescent /\ pollState = "Inactive" =>
        \A a \in Adapters : phase[a] \notin SessionPhases

(* The GUI, the statistics and the poll agree on whether a session runs,   *)
(* also after an error that struck while it was being started.             *)
SessionStateAgrees ==
    Quiescent => /\ started <=> pollState # "Inactive"
                 /\ statsRunning <=> started

(* Polling starts when every adapter with data points has its session: a   *)
(* started poll never reads while one of them is still being set up.       *)
PollsWholeSession ==
    cycle # "none" /\ Quiescent => \A a \in groups : phase[a] \in ActivePhases

(* A poll cycle publishes its results once, and nothing is published       *)
(* before the first cycle.                                                 *)
OneResultPerCycle == cycle # "excess"

(* An open cycle waits only for adapters that have been asked.             *)
WaitsForAskedAdapters ==
    Quiescent /\ cycle = "open" =>
        /\ pendingResults # {}
        /\ \A a \in pendingResults : phase[a] = "active" /\ owed[a] > 0

(* A start whose adapters are all ready or on their way ends its waiting.  *)
WaitingEnds ==
    (pollState = "WaitingForAdapter" /\ \A a \in Adapters : phase[a] \in {"ready", "preparing"})
        ~> (pollState # "WaitingForAdapter")

(* A started session does not wait forever for adapters to get ready.      *)
StartIsAnswered == (pollState = "WaitingForAdapter") ~> (pollState # "WaitingForAdapter")

(* A session with data points that got its adapters either polls or ends.  *)
ActivePolls ==
    (pollState = "Active" /\ groups # {} /\ cycle = "none")
        ~> (pollState # "Active" \/ cycle # "none")
=============================================================================
