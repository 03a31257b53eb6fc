---------------------------- MODULE AdapterClient ----------------------------
(***************************************************************************)
(* One adapter as the application sees it: the AdapterManager, its         *)
(* AdapterClient and the AdapterProcess below them                         *)
(* (src/src/ProtocolAdapter/adaptermanager.cpp, adapterclient.cpp,         *)
(* adapterprocess.cpp), facing an adapter that may answer the pending      *)
(* requests in any order, answer with an error or with a result that is    *)
(* not an object, never answer, and exit or crash at any moment.           *)
(*                                                                         *)
(* Everything runs in one event loop, so a step is one event - a call of   *)
(* the application, a message, a timeout, an end of the process - with all *)
(* the slots it reaches.  "signals" is what the client emitted in the last *)
(* step, in order; signals that only carry data for the user interface     *)
(* (describeResult, status, diagnostics, auxiliary results) are left out.  *)
(***************************************************************************)
EXTENDS AdapterProcess, Sequences, FiniteSets

CONSTANTS
    UiMethods,       \* auxiliary requests the user interface makes
    ReadDataErrors,  \* whether the adapter may answer readData with an error
    MaxOutstanding,  \* bound: requests pending when the application adds one
    MaxQueued        \* bound: announceIncompatibleSession() calls in the queue

ASSUME ClientAssumption ==
    /\ UiMethods \subseteq AuxMethods \ {"dataPointSchema"}
    /\ ReadDataErrors \in BOOLEAN
    /\ MaxOutstanding \in Nat
    /\ MaxQueued \in Nat

VARIABLES
    state,            \* _state
    handshakeTimer,   \* whether _handshakeTimer is running
    pendingAux,       \* _pendingAuxRequests: request id -> method, "none" when absent
    incompatible,     \* whether _incompatibilityReason is set
    announcePending,  \* _incompatibleAnnouncePending
    announceQueued,   \* announceIncompatibleSession() calls waiting in the event queue
    signals,          \* signals emitted by the last step
    staleReads        \* history: pending readData requests of an earlier session

announceVars == <<announcePending, announceQueued>>
clientVars == <<state, handshakeTimer, pendingAux, incompatible, announcePending,
                announceQueued, signals, staleReads>>
vars == <<processVars, clientVars>>

States == {"IDLE", "INITIALIZING", "DESCRIBING", "AWAITING_CONFIG", "CONFIGURING",
           "STARTING", "ACTIVE", "ACTIVE_DEGRADED", "STOPPING_SESSION", "STOPPING"}
Signals == {"adapterReady", "sessionStarted", "sessionStopped", "sessionError",
            "readDataResult"}

ActiveStates == {"ACTIVE", "ACTIVE_DEGRADED"}
AuxStates == {"AWAITING_CONFIG"} \cup ActiveStates
UserStopStates == {"STOPPING", "STOPPING_SESSION"}

Emitted(signal) == \E i \in DOMAIN signals : signals[i] = signal
Emits(signal) == Emitted(signal)'

PendingReads == {id \in RequestIds : pendingMethods[id] = "readData"}
FewOutstanding ==
    Cardinality({id \in RequestIds : pendingMethods[id] # "none"}) < MaxOutstanding

TypeOK ==
    /\ ProcessTypeOK
    /\ state \in States
    /\ handshakeTimer \in BOOLEAN
    /\ pendingAux \in [RequestIds -> AuxMethods \cup {"none"}]
    /\ incompatible \in BOOLEAN
    /\ announcePending \in BOOLEAN
    /\ announceQueued \in 0 .. MaxQueued
    /\ signals \in Seq(Signals)
    /\ staleReads \subseteq RequestIds

Init ==
    /\ ProcessInit
    /\ state = "IDLE"
    /\ handshakeTimer = FALSE
    /\ pendingAux = NoRequests
    /\ incompatible = FALSE
    /\ announcePending = FALSE
    /\ announceQueued = 0
    /\ signals = << >>
    /\ staleReads = {}

-----------------------------------------------------------------------------
(***************************************************************************)
(* How a session ends early.                                               *)
(***************************************************************************)

(* The client drops its auxiliary requests and falls back to IDLE. *)
FallIdle(emits) ==
    /\ state' = "IDLE"
    /\ handshakeTimer' = FALSE
    /\ pendingAux' = NoRequests
    /\ signals' = emits

(* What a client that falls to IDLE from state s tells its caller. *)
EndSignal(s) == IF s \in UserStopStates THEN "sessionStopped" ELSE "sessionError"

(* A request of the client in state s cannot be written: processError()    *)
(* reaches onProcessError() before sendRequest() returns.                  *)
SendFails(pending, s) ==
    /\ WriteFails(pending)
    /\ FallIdle(<<EndSignal(s)>>)

-----------------------------------------------------------------------------
(***************************************************************************)
(* Calls of the application.                                               *)
(***************************************************************************)

(* start() returns true for a process that is still there, be it on its    *)
(* way out or the one of a launch that timed out, and initialize is sent   *)
(* to it.                                                                  *)
PrepareAdapter ==
    /\ state = "IDLE"
    /\ proc = "off" \/ Room(3)
    /\ staleReads' = IF proc = "off" THEN {} ELSE staleReads
    /\ UNCHANGED announceVars
    /\ \/ /\ LaunchFails                      \* processError() finds the client IDLE
          /\ handshakeTimer' = FALSE
          /\ signals' = << >>
          /\ UNCHANGED <<state, pendingAux, incompatible>>
       \/ /\ LaunchAndWrite("initialize") \/ Write("initialize", pendingMethods)
          /\ proc' = "open"
          /\ state' = "INITIALIZING"
          /\ incompatible' = FALSE
          /\ handshakeTimer' = TRUE
          /\ signals' = << >>
          /\ UNCHANGED pendingAux
       \/ /\ \/ LaunchAndWrite("initialize") /\ proc' = "shut"
             \/ proc # "off" /\ WriteFails(pendingMethods)
          /\ incompatible' = FALSE
          /\ FallIdle(<<"sessionError">>)

(* Mutation of ProvideConfig: the protocol version is not looked at. *)
ConfigureAnyVersion ==
    /\ state = "AWAITING_CONFIG"
    /\ Write("configure", pendingMethods)
    /\ state' = "CONFIGURING"
    /\ handshakeTimer' = TRUE
    /\ pendingAux' = NoRequests
    /\ staleReads' = PendingReads
    /\ signals' = << >>
    /\ UNCHANGED <<incompatible, announceVars>>

ProvideConfig ==
    /\ state = "AWAITING_CONFIG"
    /\ UNCHANGED incompatible
    /\ staleReads' = PendingReads
    /\ \/ /\ incompatible
          /\ announceQueued < MaxQueued
          /\ state' = "ACTIVE_DEGRADED"
          /\ announcePending' = TRUE
          /\ announceQueued' = announceQueued + 1
          /\ signals' = << >>
          /\ UNCHANGED <<processVars, handshakeTimer, pendingAux>>
       \/ /\ ~incompatible
          /\ Room(3)
          /\ UNCHANGED announceVars
          /\ \/ /\ Write("configure", pendingMethods)
                /\ state' = "CONFIGURING"
                /\ handshakeTimer' = TRUE
                /\ pendingAux' = NoRequests
                /\ signals' = << >>
             \/ SendFails(pendingMethods, "CONFIGURING")

(* requestReadData() and requestStatus(): a degraded session answers itself. *)
PollRequest(method, emits) ==
    /\ state \in ActiveStates
    /\ UNCHANGED <<incompatible, announceVars, staleReads>>
    /\ \/ /\ state = "ACTIVE_DEGRADED"
          /\ signals' = emits
          /\ UNCHANGED <<processVars, state, handshakeTimer, pendingAux>>
       \/ /\ state = "ACTIVE"
          /\ Room(2) /\ FewOutstanding
          /\ \/ /\ Write(method, pendingMethods)
                /\ signals' = << >>
                /\ UNCHANGED <<state, handshakeTimer, pendingAux>>
             \/ SendFails(pendingMethods, state)

RequestReadData == PollRequest("readData", <<"readDataResult">>)
RequestStatus == PollRequest("getStatus", << >>)

(* Mutation of KeptAux: an older request of the method stays tracked. *)
KeptAllAux(method) == pendingAux

(* sendAuxRequest(): only the latest of a method that is not a data point  *)
(* request stays tracked.                                                  *)
KeptAux(method) ==
    [id \in RequestIds |->
        IF method \notin DataPointMethods /\ pendingAux[id] = method
        THEN "none" ELSE pendingAux[id]]

(* An auxiliary request of the user interface.  A refused one (wrong state, *)
(* incompatible adapter) changes nothing.                                   *)
RequestAux(method) ==
    /\ state \in AuxStates
    /\ ~incompatible
    /\ Room(4) /\ FewOutstanding
    /\ UNCHANGED <<incompatible, announceVars, staleReads>>
    /\ \/ /\ Write(method, pendingMethods)
          /\ pendingAux' = [KeptAux(method) EXCEPT ![nextRequestId] = method]
          /\ signals' = << >>
          /\ UNCHANGED <<state, handshakeTimer>>
       \/ SendFails(pendingMethods, state)

(* A degraded session has nothing to stop at the adapter. *)
StopDegraded ==
    /\ state = "ACTIVE_DEGRADED"
    /\ state' = "AWAITING_CONFIG"
    /\ handshakeTimer' = FALSE
    /\ signals' = <<"sessionStopped", "adapterReady">>
    /\ UNCHANGED processVars

(* Mutation of StopActive: nobody waits for the answer with a timer. *)
StopActiveUntimed ==
    /\ state = "ACTIVE"
    /\ Write("stop", pendingMethods)
    /\ state' = "STOPPING_SESSION"
    /\ handshakeTimer' = FALSE
    /\ signals' = << >>

(* adapter.stop keeps the process.  The timer is started after the request *)
(* is sent, so also when sending failed and the client is already IDLE.    *)
StopActive ==
    /\ state = "ACTIVE"
    /\ handshakeTimer' = TRUE
    /\ \/ /\ Write("stop", pendingMethods)
          /\ state' = "STOPPING_SESSION"
          /\ signals' = << >>
       \/ /\ WriteFails(pendingMethods)
          /\ state' = "IDLE"
          /\ signals' = <<"sessionStopped">>

(* Mutation of ForceStop: a handshake is stopped by forgetting about it. *)
ForgetHandshake ==
    /\ state \notin ActiveStates
    /\ state' = "AWAITING_CONFIG"
    /\ handshakeTimer' = FALSE
    /\ signals' = <<"sessionStopped">>
    /\ UNCHANGED processVars

(* Any other session is cut off by ending the process. *)
ForceStop ==
    /\ state \notin ActiveStates
    /\ state' = "STOPPING"
    /\ handshakeTimer' = FALSE
    /\ signals' = << >>
    /\ StopProcess(pendingMethods)

StopSession ==
    /\ state \notin UserStopStates \cup {"IDLE"}
    /\ pendingAux' = NoRequests
    /\ announcePending' = FALSE
    /\ UNCHANGED <<incompatible, announceQueued, staleReads>>
    /\ StopDegraded \/ StopActive \/ ForceStop

-----------------------------------------------------------------------------
(***************************************************************************)
(* Replies of the adapter.                                                 *)
(***************************************************************************)

(* A reply to request id is taken off the transport's map.  A queued       *)
(* announcement runs before the next exchange with the adapter.            *)
Receive(id) ==
    /\ proc # "off" /\ ~starting
    /\ pendingMethods[id] # "none"
    /\ announceQueued = 0
    /\ staleReads' = staleReads \ {id}
    /\ UNCHANGED announceVars

(* The tracked auxiliary requests without the one that id answers; a stale *)
(* reply leaves them alone.                                                *)
Consumed(id) ==
    IF pendingAux[id] = pendingMethods[id]
    THEN [pendingAux EXCEPT ![id] = "none"] ELSE pendingAux

(* The reply has no effect beyond leaving the transport's map. *)
Ignored(id) ==
    /\ Undisturbed(Answered(id))
    /\ signals' = << >>
    /\ UNCHANGED <<state, handshakeTimer, pendingAux, incompatible>>

(* Mutations of SendNext: a request that cannot be written goes unnoticed;  *)
(* a session request is tracked like an auxiliary one.                      *)
SendUnchecked(id, next, method) ==
    /\ UNCHANGED incompatible
    /\ Write(method, Answered(id)) \/ WriteFails(Answered(id))
    /\ state' = next
    /\ signals' = << >>
    /\ UNCHANGED <<handshakeTimer, pendingAux>>

SendTracked(id, next, method) ==
    /\ UNCHANGED incompatible
    /\ Write(method, Answered(id))
    /\ pendingAux' = [pendingAux EXCEPT ![nextRequestId] = method]
    /\ state' = next
    /\ signals' = << >>
    /\ UNCHANGED handshakeTimer

(* The reply moves the handshake on: the next request is sent. *)
SendNext(id, next, method) ==
    /\ UNCHANGED incompatible
    /\ \/ /\ Write(method, Answered(id))
          /\ state' = next
          /\ signals' = << >>
          /\ UNCHANGED <<handshakeTimer, pendingAux>>
       \/ SendFails(Answered(id), next)

Initialized(id) ==
    /\ pendingMethods[id] = "initialize"
    /\ state = "INITIALIZING"
    /\ SendNext(id, "DESCRIBING", "describe")

(* The client is ready and describeResult() makes the AdapterManager ask   *)
(* for the data point schema, unless the protocol version does not match;  *)
(* adapterReady() follows whatever became of that request.                 *)
Described(id) ==
    /\ pendingMethods[id] = "describe"
    /\ state = "DESCRIBING"
    /\ incompatible' \in {incompatible, TRUE}
    /\ \/ /\ incompatible'
          /\ Undisturbed(Answered(id))
          /\ state' = "AWAITING_CONFIG"
          /\ handshakeTimer' = FALSE
          /\ signals' = <<"adapterReady">>
          /\ UNCHANGED pendingAux
       \/ /\ ~incompatible'
          /\ Write("dataPointSchema", Answered(id))
          /\ pendingAux' = [KeptAux("dataPointSchema") EXCEPT
                                ![nextRequestId] = "dataPointSchema"]
          /\ state' = "AWAITING_CONFIG"
          /\ handshakeTimer' = FALSE
          /\ signals' = <<"adapterReady">>
       \/ /\ ~incompatible'
          /\ WriteFails(Answered(id))
          /\ FallIdle(<<"sessionError", "adapterReady">>)

Configured(id) ==
    /\ pendingMethods[id] = "configure"
    /\ state = "CONFIGURING"
    /\ SendNext(id, "STARTING", "start")

(* A handshake that completes stops its timer. *)
Complete(id, next, emits) ==
    /\ Undisturbed(Answered(id))
    /\ state' = next
    /\ handshakeTimer' = FALSE
    /\ signals' = emits
    /\ UNCHANGED <<pendingAux, incompatible>>

Started(id) ==
    /\ pendingMethods[id] = "start"
    /\ state = "STARTING"
    /\ Complete(id, "ACTIVE", <<"sessionStarted">>)

Stopped(id) ==
    /\ pendingMethods[id] = "stop"
    /\ state = "STOPPING_SESSION"
    /\ Complete(id, "AWAITING_CONFIG", <<"sessionStopped", "adapterReady">>)

(* Data of the session: whichever readData or getStatus request it answers, *)
(* the client only looks at the state it is in now.                         *)
DataReceived(id) ==
    /\ pendingMethods[id] \in PollMethods
    /\ state = "ACTIVE"
    /\ Undisturbed(Answered(id))
    /\ signals' = IF pendingMethods[id] = "readData"
                  THEN <<"readDataResult">> ELSE << >>
    /\ UNCHANGED <<state, handshakeTimer, pendingAux, incompatible>>

AuxAnswered(id) ==
    /\ pendingMethods[id] \in AuxMethods
    /\ state \in IF pendingMethods[id] = "dataPointSchema"
                 THEN {"AWAITING_CONFIG"} ELSE AuxStates
    /\ pendingAux' = Consumed(id)
    /\ Undisturbed(Answered(id))
    /\ signals' = << >>
    /\ UNCHANGED <<state, handshakeTimer, incompatible>>

Handled(id) ==
    \/ Initialized(id) \/ Described(id) \/ Configured(id) \/ Started(id)
    \/ Stopped(id) \/ DataReceived(id) \/ AuxAnswered(id)

(* The state in which a reply to a method is waited for. *)
Awaiting(method) ==
    CASE method = "initialize" -> {"INITIALIZING"}
      [] method = "describe" -> {"DESCRIBING"}
      [] method = "configure" -> {"CONFIGURING"}
      [] method = "start" -> {"STARTING"}
      [] method = "stop" -> {"STOPPING_SESSION"}
      [] method \in PollMethods -> {"ACTIVE"}
      [] method = "dataPointSchema" -> {"AWAITING_CONFIG"}
      [] OTHER -> AuxStates

(* handleLifecycleResponse(): a result that nobody waits for is ignored. *)
OnResponse(id) ==
    /\ Receive(id)
    /\ \/ Handled(id)
       \/ state \notin Awaiting(pendingMethods[id]) /\ Ignored(id)

(* An auxiliary request is answered with an error or a malformed result: no *)
(* effect on the session, in any state.                                     *)
OnAuxError(id) ==
    /\ pendingMethods[id] \in AuxMethods
    /\ Receive(id)
    /\ pendingAux' = Consumed(id)
    /\ Undisturbed(Answered(id))
    /\ signals' = << >>
    /\ UNCHANGED <<state, handshakeTimer, incompatible>>

(* A session request is answered with a result that is not an object. *)
OnNonObject(id) ==
    /\ pendingMethods[id] \notin AuxMethods
    /\ Receive(id)
    /\ FallIdle(<<"sessionError">>)
    /\ StopProcess(Answered(id))
    /\ UNCHANGED incompatible

(* A read failed: the points are invalid, the session goes on.  The        *)
(* handshake timer is stopped before the method is looked at.              *)
OnReadDataError(id) ==
    /\ ReadDataErrors
    /\ pendingMethods[id] = "readData"
    /\ Receive(id)
    /\ handshakeTimer' = FALSE
    /\ signals' = IF state = "ACTIVE" THEN <<"readDataResult">> ELSE << >>
    /\ Undisturbed(Answered(id))
    /\ UNCHANGED <<state, pendingAux, incompatible>>

(* The adapter rejects the configuration or the data points. *)
SetupRejected(id) ==
    \/ pendingMethods[id] = "configure" /\ state = "CONFIGURING"
    \/ pendingMethods[id] = "start" /\ state = "STARTING"

OnSetupRejected(id) ==
    /\ SetupRejected(id)
    /\ Receive(id)
    /\ state' = "ACTIVE_DEGRADED"
    /\ handshakeTimer' = FALSE
    /\ signals' = <<"sessionStarted">>
    /\ Undisturbed(Answered(id))
    /\ UNCHANGED <<pendingAux, incompatible>>

(* Any other error ends the session and the process. *)
OnFatalError(id) ==
    /\ pendingMethods[id] \in SessionMethods \cup {"getStatus"}
    /\ ~SetupRejected(id)
    /\ Receive(id)
    /\ FallIdle(<<EndSignal(state)>>)
    /\ StopProcess(Answered(id))
    /\ UNCHANGED incompatible

Reply(id) ==
    \/ OnResponse(id) \/ OnAuxError(id) \/ OnNonObject(id)
    \/ OnReadDataError(id) \/ OnSetupRejected(id) \/ OnFatalError(id)

-----------------------------------------------------------------------------
(***************************************************************************)
(* Timers, the queued announcement and the end of the process.             *)
(***************************************************************************)
OnHandshakeTimeout ==
    /\ handshakeTimer
    /\ FallIdle(<<EndSignal(state)>>)
    /\ StopProcess(pendingMethods)
    /\ UNCHANGED <<incompatible, announceVars, staleReads>>

(* Mutation of AnnounceIncompatibleSession: the pending flag is not reset,  *)
(* so a session that was stopped and started again is announced twice.      *)
AnnounceAgain ==
    /\ announceQueued > 0
    /\ announceQueued' = announceQueued - 1
    /\ signals' = IF state = "ACTIVE_DEGRADED" THEN <<"sessionStarted">> ELSE << >>
    /\ UNCHANGED <<processVars, state, handshakeTimer, pendingAux, incompatible,
                   announcePending, staleReads>>

AnnounceIncompatibleSession ==
    /\ announceQueued > 0
    /\ announceQueued' = announceQueued - 1
    /\ \/ /\ announcePending /\ state = "ACTIVE_DEGRADED"
          /\ announcePending' = FALSE
          /\ signals' = <<"sessionStarted">>
       \/ /\ ~(announcePending /\ state = "ACTIVE_DEGRADED")
          /\ signals' = << >>
          /\ UNCHANGED announcePending
    /\ UNCHANGED <<processVars, state, handshakeTimer, pendingAux, incompatible,
                   staleReads>>

(* The process exits, crashes or is killed.  QProcess reports a crash with *)
(* errorOccurred() and then finished(): the second finds the client IDLE.  *)
OnProcessFinished ==
    /\ ProcessGone
    /\ staleReads' = {}
    /\ FallIdle(IF state = "IDLE" THEN << >> ELSE <<EndSignal(state)>>)
    /\ UNCHANGED <<incompatible, announceVars>>

OnChannelError ==
    /\ ChannelBreaks
    /\ FallIdle(IF state = "IDLE" THEN << >> ELSE <<EndSignal(state)>>)
    /\ UNCHANGED <<incompatible, announceVars, staleReads>>

(* A launch that timed out comes to its end: the process runs, which       *)
(* nobody is told, or processError() reports that it failed to start.      *)
OnLateStart ==
    /\ \/ /\ ProcessComesUp
          /\ signals' = << >>
          /\ UNCHANGED <<state, handshakeTimer, pendingAux>>
       \/ /\ StartFailsLate
          /\ FallIdle(IF state = "IDLE" THEN << >> ELSE <<EndSignal(state)>>)
    /\ UNCHANGED <<incompatible, announceVars, staleReads>>

(* A process told to stop exits on the end of its input or is killed when  *)
(* the kill timer expires.                                                 *)
ProcessStops == killTimer /\ OnProcessFinished

-----------------------------------------------------------------------------
Call ==
    \/ PrepareAdapter \/ ProvideConfig \/ RequestReadData \/ RequestStatus
    \/ StopSession
    \/ \E method \in UiMethods : RequestAux(method)

Next ==
    \/ Call
    \/ \E id \in RequestIds : Reply(id)
    \/ OnHandshakeTimeout
    \/ AnnounceIncompatibleSession
    \/ OnProcessFinished
    \/ OnChannelError
    \/ OnLateStart

Spec == Init /\ [][Next]_vars

(* A running timer expires, a queued call is delivered and a process that  *)
(* was told to stop is gone in the end; nothing forces the adapter to      *)
(* answer or the user to do anything.                                      *)
Fairness ==
    /\ WF_vars(OnHandshakeTimeout)
    /\ WF_vars(AnnounceIncompatibleSession)
    /\ WF_vars(ProcessStops)

FairSpec == Spec /\ Fairness

-----------------------------------------------------------------------------
(***************************************************************************)
(* The contract with the AdapterHub.                                       *)
(***************************************************************************)

Announcing ==
    state = "ACTIVE_DEGRADED" /\ announcePending /\ announceQueued > 0

Phase ==
    CASE state = "IDLE" -> "idle"
      [] state \in {"INITIALIZING", "DESCRIBING"} -> "preparing"
      [] state = "AWAITING_CONFIG" -> "ready"
      [] state \in {"CONFIGURING", "STARTING"} -> "starting"
      [] state = "ACTIVE" -> "active"
      [] Announcing -> "announcing"
      [] state = "ACTIVE_DEGRADED" /\ ~Announcing -> "degraded"
      [] state = "STOPPING_SESSION" -> "stopping"
      [] state = "STOPPING" -> "killing"

Contract == INSTANCE SessionContract
                WITH phase <- Phase, owed <- Cardinality(PendingReads)

(* The client does what the hub relies on: sessionStarted() exactly once   *)
(* for an accepted configuration, adapterReady() when it gets ready, data  *)
(* only as the answer to a request, and a session that ends says so once.  *)
ImplementsContract == Contract!Spec

-----------------------------------------------------------------------------
(***************************************************************************)
(* Properties.                                                             *)
(***************************************************************************)

HandshakeStates == {"INITIALIZING", "DESCRIBING", "CONFIGURING", "STARTING"}
TimedStates == HandshakeStates \cup {"STOPPING_SESSION"}

(* No reply of an earlier handshake or session can be taken for one of the *)
(* present: while the process is used, the only session request pending is *)
(* the one the state waits for (handleLifecycleResponse() checks the       *)
(* method and the state, never the id).                                    *)
RepliesBelongToState ==
    state \notin {"IDLE", "STOPPING"} =>
        \A i, j \in RequestIds :
            pendingMethods[i] \in SessionMethods =>
                /\ state \in Awaiting(pendingMethods[i])
                /\ pendingMethods[j] \in SessionMethods => i = j

(* A state that waits for a reply has the request for it outstanding, so   *)
(* the adapter can still move it on.                                       *)
WaitsForRequest ==
    state \in TimedStates =>
        \E id \in RequestIds : state \in Awaiting(pendingMethods[id])

(* Every tracked auxiliary request is still going to be answered by the    *)
(* transport, in a state in which the answer is delivered; of the methods  *)
(* of which only the latest counts, at most one is tracked.                *)
AuxTracked ==
    \A id \in RequestIds : pendingAux[id] # "none" =>
        /\ pendingMethods[id] = pendingAux[id]
        /\ state \in Awaiting(pendingAux[id])
        /\ \A other \in RequestIds :
              pendingAux[other] = pendingAux[id] =>
                  other = id \/ pendingAux[id] \in DataPointMethods

(* A session always has a process it can write to, and a client that waits *)
(* for its process to end has told it to.  An IDLE client can have such a  *)
(* process too, but only the one of a launch that timed out, as fresh as   *)
(* start() left it: none of an earlier session, with requests of its own,  *)
(* ids used up and a timer that would end it in the next session.          *)
ProcessServesSession ==
    /\ state \notin {"IDLE", "STOPPING"} => proc = "open"
    /\ proc = "open" => ~killTimer
    /\ state = "STOPPING" => proc = "shut" /\ killTimer
    /\ state = "IDLE" /\ proc = "open" =>
          pendingMethods = NoRequests /\ nextRequestId = 1 /\ ~handshakeTimer

(* adapter-protocol-spec.md: the client must not configure or start an     *)
(* incompatible adapter, nor read from it.  Nothing at all is sent to it   *)
(* once its version is known, and a session with it waits for its queued   *)
(* announcement.                                                           *)
IncompatibleLeftAlone ==
    incompatible =>
        /\ pendingMethods = NoRequests
        /\ state \notin TimedStates \cup {"ACTIVE"}
        /\ state = "ACTIVE_DEGRADED" /\ announcePending => announceQueued > 0

(* The results handed to the application are those of a request made in    *)
(* the running session.                                                    *)
ReadsOfThisSession ==
    [][\A id \in staleReads :
          state = "ACTIVE" /\ id \notin staleReads' /\ state' = "ACTIVE"
              => ~Emits("readDataResult")]_vars

(* A handshake, whatever the adapter does, ends.                           *)
HandshakeEnds ==
    \A s \in {{"INITIALIZING", "DESCRIBING"}, {"CONFIGURING", "STARTING"},
              {"STOPPING_SESSION"}} : (state \in s) ~> (state \notin s)

(* A stop ends with the adapter ready for the next session, or without     *)
(* process.                                                                *)
StopEnds == (state \in UserStopStates) ~> (state \in {"AWAITING_CONFIG", "IDLE"})

(* A degraded session with an incompatible adapter is announced or stopped. *)
AnnouncementEnds ==
    (state = "ACTIVE_DEGRADED" /\ incompatible /\ announcePending)
        ~> (~announcePending \/ state # "ACTIVE_DEGRADED")
=============================================================================
