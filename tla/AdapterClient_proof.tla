------------------------- MODULE AdapterClient_proof -------------------------
(***************************************************************************)
(* Proofs about AdapterClient for every bound and every set of requests of *)
(* the user interface.  The invariants are proved in layers: each layer    *)
(* uses the invariants of the layers before it and is inductive relative   *)
(* to them.  The second part is about FramingReader, which turns what the  *)
(* process writes into the messages the client handles, for every set of   *)
(* messages, their sizes, the limits of the reader and of the pipe.        *)
(***************************************************************************)
EXTENDS AdapterClient, FramingReader, FiniteSetTheorems, OrderedSets_proof, SequenceTheorems,
        TLAPS

PendingMaps == [RequestIds -> Methods \cup {"none"}]

(* Request ids are not reused within one run of the process: an id that is *)
(* still to be handed out belongs to no pending request.                   *)
FreshIds ==
    \A id \in RequestIds : id >= nextRequestId => pendingMethods[id] = "none"

(* A process that is being initialized has been asked for nothing but its  *)
(* handshake: no poll or auxiliary request of an earlier run is pending.   *)
HandshakeClean ==
    state \in {"INITIALIZING", "DESCRIBING"} =>
        \A id \in RequestIds : pendingMethods[id] \in SessionMethods \cup {"none"}

(* The bound of the announcement queue is a number. *)
LEMMA QueueBound == MaxQueued \in Nat
BY ClientAssumption DEF ClientAssumption

(* An id is left for each request of a handshake. *)
LEMMA RequestBound == MaxRequestId \in Nat /\ MaxRequestId > 2
BY ProcessAssumption DEF ProcessAssumption

-----------------------------------------------------------------------------
(***************************************************************************)
(* The transport keeps its types, whatever the handler that uses it does:  *)
(* each way a handler can leave the transport behind preserves them.       *)
(***************************************************************************)

(* The ids of the first requests of a process are ids, and no request is   *)
(* a map of requests.                                                      *)
LEMMA FirstIds ==
    /\ 1 \in 1 .. MaxRequestId + 1
    /\ 2 \in 1 .. MaxRequestId + 1
    /\ 1 \in RequestIds
    /\ NoRequests \in PendingMaps
BY RequestBound DEF NoRequests, RequestIds, PendingMaps

(* start() followed by the first request. *)
LEMMA LaunchType ==
    ASSUME ProcessTypeOK, NEW m \in Methods, LaunchAndWrite(m)
    PROVE  ProcessTypeOK'
BY FirstIds DEF ProcessTypeOK, PendingMaps, LaunchAndWrite

(* start() of a program that does not run. *)
LEMMA LaunchFailsType ==
    ASSUME ProcessTypeOK, LaunchFails
    PROVE  ProcessTypeOK'
BY FirstIds DEF ProcessTypeOK, PendingMaps, LaunchFails

(* sendRequest() that reaches the adapter. *)
LEMMA WriteType ==
    ASSUME ProcessTypeOK, NEW m \in Methods, NEW p \in PendingMaps, Write(m, p)
    PROVE  ProcessTypeOK'
BY RequestBound DEF ProcessTypeOK, PendingMaps, Write, Room, RequestIds

(* sendRequest() that fails. *)
LEMMA WriteFailsType ==
    ASSUME ProcessTypeOK, NEW p \in PendingMaps, WriteFails(p)
    PROVE  ProcessTypeOK'
BY RequestBound DEF ProcessTypeOK, PendingMaps, WriteFails, Room

(* stop(). *)
LEMMA StopProcessType ==
    ASSUME ProcessTypeOK, NEW p \in PendingMaps, StopProcess(p)
    PROVE  ProcessTypeOK'
BY DEF ProcessTypeOK, PendingMaps, StopProcess

(* A reply that only leaves the map. *)
LEMMA UndisturbedType ==
    ASSUME ProcessTypeOK, NEW p \in PendingMaps, Undisturbed(p)
    PROVE  ProcessTypeOK'
BY DEF ProcessTypeOK, PendingMaps, Undisturbed

(* The end of the process. *)
LEMMA ProcessGoneType ==
    ASSUME ProcessTypeOK, ProcessGone
    PROVE  ProcessTypeOK'
BY FirstIds DEF ProcessTypeOK, PendingMaps, ProcessGone

(* The late end of a launch that timed out. *)
LEMMA LateStartType ==
    ASSUME ProcessTypeOK, ProcessComesUp \/ StartFailsLate
    PROVE  ProcessTypeOK'
BY DEF ProcessTypeOK, ProcessComesUp, StartFailsLate

(* A broken write channel. *)
LEMMA ChannelBreaksType ==
    ASSUME ProcessTypeOK, ChannelBreaks
    PROVE  ProcessTypeOK'
BY DEF ProcessTypeOK, ChannelBreaks

(* A step that does not involve the transport. *)
LEMMA UnchangedType ==
    ASSUME ProcessTypeOK, UNCHANGED processVars
    PROVE  ProcessTypeOK'
BY DEF ProcessTypeOK, processVars

-----------------------------------------------------------------------------
(***************************************************************************)
(* Type correctness.                                                       *)
(***************************************************************************)

(* Taking a reply off the map leaves a map of requests. *)
LEMMA AnsweredType ==
    ASSUME ProcessTypeOK, NEW id \in RequestIds
    PROVE  Answered(id) \in PendingMaps
BY DEF ProcessTypeOK, Answered, PendingMaps

(* The cleared table of auxiliary requests has the type of the table. *)
LEMMA NoRequestsType == NoRequests \in [RequestIds -> AuxMethods \cup {"none"}]
BY DEF NoRequests

(* Every request the client makes is one the transport knows. *)
LEMMA MethodSubsets ==
    /\ SessionMethods \subseteq Methods
    /\ PollMethods \subseteq Methods
    /\ AuxMethods \subseteq Methods
    /\ {"initialize", "describe", "configure", "start", "stop"} \subseteq Methods
    /\ {"readData", "getStatus", "dataPointSchema"} \subseteq Methods
BY DEF Methods, SessionMethods, PollMethods, AuxMethods, LatestOnlyMethods

(* What the handlers emit are sequences of signals. *)
LEMMA SignalSeqs ==
    /\ << >> \in Seq(Signals)
    /\ \A s \in Signals : <<s>> \in Seq(Signals)
    /\ \A s, t \in Signals : <<s, t>> \in Seq(Signals)
    /\ {"adapterReady", "sessionStarted", "sessionStopped", "sessionError",
        "readDataResult"} \subseteq Signals
    /\ \A s : EndSignal(s) \in Signals
BY DEF Signals, EndSignal

(* The client's own variables have their types after a step that does what *)
(* the handlers do to them.                                                *)
ClientTypeOK ==
    /\ state \in States
    /\ handshakeTimer \in BOOLEAN
    /\ pendingAux \in [RequestIds -> AuxMethods \cup {"none"}]
    /\ incompatible \in BOOLEAN
    /\ announcePending \in BOOLEAN
    /\ announceQueued \in 0 .. MaxQueued
    /\ signals \in Seq(Signals)
    /\ staleReads \subseteq RequestIds

(* Each kind of step keeps every variable within its type. *)
LEMMA TypeStep ==
    ASSUME TypeOK, [Next]_vars
    PROVE  TypeOK'
<1>1. TypeOK <=> ProcessTypeOK /\ ClientTypeOK
  BY DEF TypeOK, ClientTypeOK
<1>2. TypeOK' <=> ProcessTypeOK' /\ ClientTypeOK'
  BY DEF TypeOK, ClientTypeOK
<1>3. pendingMethods \in PendingMaps
  BY DEF TypeOK, ProcessTypeOK, PendingMaps
<1>. USE <1>1, <1>3, MethodSubsets
<1>4. CASE PrepareAdapter
  <2>1. ProcessTypeOK'
    BY <1>4, LaunchType, LaunchFailsType, WriteType, WriteFailsType
       DEF PrepareAdapter
  <2>2. ClientTypeOK'
    BY <1>4, NoRequestsType, SignalSeqs
       DEF PrepareAdapter, ClientTypeOK, FallIdle, announceVars, States
  <2> QED BY <1>2, <2>1, <2>2
<1>5. CASE ProvideConfig
  <2>1. ProcessTypeOK'
    BY <1>5, WriteType, WriteFailsType, UnchangedType DEF ProvideConfig, SendFails
  <2>2. announceQueued' \in 0 .. MaxQueued
    BY <1>5, QueueBound DEF ProvideConfig, ClientTypeOK, announceVars
  <2>3. staleReads' \subseteq RequestIds
    BY <1>5 DEF ProvideConfig, PendingReads
  <2>4. ClientTypeOK'
    BY <1>5, <2>2, <2>3, NoRequestsType, SignalSeqs
       DEF ProvideConfig, ClientTypeOK, SendFails, FallIdle, announceVars, States
  <2> QED BY <1>2, <2>1, <2>4
<1>6. CASE RequestReadData \/ RequestStatus
  <2>1. ProcessTypeOK'
    BY <1>6, WriteType, WriteFailsType, UnchangedType DEF RequestReadData, RequestStatus, PollRequest, SendFails
  <2>2. ClientTypeOK'
    BY <1>6, NoRequestsType, SignalSeqs
       DEF ClientTypeOK, RequestReadData, RequestStatus, PollRequest, SendFails, FallIdle,
           announceVars, States
  <2> QED BY <1>2, <2>1, <2>2
<1>7. CASE StopSession
  <2>1. ProcessTypeOK'
    BY <1>7, WriteType, WriteFailsType, StopProcessType, UnchangedType DEF StopSession, StopDegraded, StopActive, ForceStop
  <2>2. ClientTypeOK'
    BY <1>7, NoRequestsType, SignalSeqs
       DEF ClientTypeOK, StopSession, StopDegraded, StopActive, ForceStop, States
  <2> QED BY <1>2, <2>1, <2>2
<1>8. ASSUME NEW method \in UiMethods, RequestAux(method)
      PROVE  TypeOK'
  <2>1. method \in AuxMethods /\ method \in Methods
    BY ClientAssumption DEF ClientAssumption
  <2>2. ProcessTypeOK'
    BY <1>8, <2>1, WriteType, WriteFailsType DEF RequestAux, SendFails
  <2>3. KeptAux(method) \in [RequestIds -> AuxMethods \cup {"none"}]
    BY DEF KeptAux, ClientTypeOK
  <2>4. pendingAux' \in [RequestIds -> AuxMethods \cup {"none"}]
    BY <1>8, <2>1, <2>3, NoRequestsType DEF RequestAux, SendFails, FallIdle
  <2>5. ClientTypeOK'
    BY <1>8, <2>4, SignalSeqs
       DEF ClientTypeOK, RequestAux, SendFails, FallIdle, announceVars, States
  <2> QED BY <1>2, <2>2, <2>5
<1>9. ASSUME NEW id \in RequestIds, OnResponse(id)
      PROVE  TypeOK'
  <2>1. Answered(id) \in PendingMaps
    BY AnsweredType
  <2>2. ProcessTypeOK'
    BY <1>9, <2>1, WriteType, WriteFailsType, UndisturbedType
       DEF OnResponse, Handled, Initialized, Described, Configured, Started, Stopped,
           DataReceived, AuxAnswered, Ignored, SendNext, SendFails, Complete
  <2>3. /\ KeptAux("dataPointSchema") \in [RequestIds -> AuxMethods \cup {"none"}]
        /\ Consumed(id) \in [RequestIds -> AuxMethods \cup {"none"}]
        /\ "dataPointSchema" \in AuxMethods
    BY DEF KeptAux, Consumed, ClientTypeOK, AuxMethods, LatestOnlyMethods
  <2>4. pendingAux' \in [RequestIds -> AuxMethods \cup {"none"}]
    BY <1>9, <2>3, NoRequestsType
       DEF OnResponse, Handled, Initialized, Described, Configured, Started, Stopped,
           DataReceived, AuxAnswered, Ignored, SendNext, SendFails, FallIdle, Complete,
           ClientTypeOK
  <2>5. signals' \in Seq(Signals)
    BY <1>9, SignalSeqs
       DEF OnResponse, Handled, Initialized, Described, Configured, Started, Stopped,
           DataReceived, AuxAnswered, Ignored, SendNext, SendFails, FallIdle, Complete
  <2>6. ClientTypeOK'
    BY <1>9, <2>4, <2>5
       DEF ClientTypeOK, OnResponse, Receive, Handled, Initialized, Described, Configured,
           Started, Stopped, DataReceived, AuxAnswered, Ignored, SendNext, SendFails,
           FallIdle, Complete, announceVars, States
  <2> QED BY <1>2, <2>2, <2>6
<1>10. ASSUME NEW id \in RequestIds,
              \/ OnAuxError(id) \/ OnNonObject(id) \/ OnReadDataError(id)
              \/ OnSetupRejected(id) \/ OnFatalError(id)
       PROVE  TypeOK'
  <2>1. Answered(id) \in PendingMaps
    BY AnsweredType
  <2>2. ProcessTypeOK'
    BY <1>10, <2>1, StopProcessType, UndisturbedType
       DEF OnAuxError, OnNonObject, OnReadDataError, OnSetupRejected, OnFatalError
  <2>3. Consumed(id) \in [RequestIds -> AuxMethods \cup {"none"}]
    BY DEF Consumed, ClientTypeOK
  <2>4. ClientTypeOK'
    BY <1>10, <2>3, NoRequestsType, SignalSeqs
       DEF ClientTypeOK, OnAuxError, OnNonObject, OnReadDataError, OnSetupRejected,
           OnFatalError, Receive, FallIdle, announceVars, States
  <2> QED BY <1>2, <2>2, <2>4
<1>11. CASE OnHandshakeTimeout
  <2>1. ProcessTypeOK'
    BY <1>11, StopProcessType DEF OnHandshakeTimeout
  <2>2. ClientTypeOK'
    BY <1>11, NoRequestsType, SignalSeqs
       DEF ClientTypeOK, OnHandshakeTimeout, FallIdle, announceVars, States
  <2> QED BY <1>2, <2>1, <2>2
<1>12. CASE AnnounceIncompatibleSession
  <2>1. ProcessTypeOK'
    BY <1>12, UnchangedType DEF AnnounceIncompatibleSession
  <2>2. announceQueued' \in 0 .. MaxQueued
    BY <1>12, QueueBound DEF AnnounceIncompatibleSession, ClientTypeOK
  <2>3. ClientTypeOK'
    BY <1>12, <2>2, SignalSeqs DEF ClientTypeOK, AnnounceIncompatibleSession
  <2> QED BY <1>2, <2>1, <2>3
<1>13. CASE OnProcessFinished \/ OnChannelError
  <2>1. ProcessTypeOK'
    BY <1>13, ProcessGoneType, ChannelBreaksType DEF OnProcessFinished, OnChannelError
  <2>2. ClientTypeOK'
    BY <1>13, NoRequestsType, SignalSeqs
       DEF ClientTypeOK, OnProcessFinished, OnChannelError, FallIdle, announceVars, States
  <2> QED BY <1>2, <2>1, <2>2
<1>14. CASE OnLateStart
  <2>1. ProcessTypeOK'
    BY <1>14, LateStartType DEF OnLateStart
  <2>2. ClientTypeOK'
    BY <1>14, NoRequestsType, SignalSeqs
       DEF ClientTypeOK, OnLateStart, FallIdle, announceVars, States
  <2> QED BY <1>2, <2>1, <2>2
<1>15. CASE UNCHANGED vars
  BY <1>15, <1>2, UnchangedType DEF vars, clientVars, processVars, ClientTypeOK
<1> QED
  BY <1>4, <1>5, <1>6, <1>7, <1>8, <1>9, <1>10, <1>11, <1>12, <1>13, <1>14, <1>15
     DEF Next, Call, Reply

(* The client starts with every variable in its type. *)
LEMMA TypeInit == Init => TypeOK
<1> SUFFICES ASSUME Init PROVE TypeOK
  OBVIOUS
<1>1. ProcessTypeOK
  BY FirstIds DEF Init, ProcessInit, ProcessTypeOK, PendingMaps
<1>2. announceQueued \in 0 .. MaxQueued
  BY QueueBound DEF Init
<1> QED
  BY <1>1, <1>2, NoRequestsType, SignalSeqs DEF Init, TypeOK, States

(* Every variable of the client and of its transport stays within its type *)
(* in every behaviour.                                                     *)
THEOREM TypeCorrect == Spec => []TypeOK
BY TypeInit, TypeStep, PTL DEF Spec

-----------------------------------------------------------------------------
(***************************************************************************)
(* The process serves the session.                                         *)
(***************************************************************************)

(* The process of a launch that timed out comes up, which changes nothing  *)
(* the client looks at, or it turns out not to run and the client is IDLE. *)
LEMMA LateStart ==
    ASSUME OnLateStart
    PROVE  /\ UNCHANGED <<pendingMethods, nextRequestId, killTimer, incompatible, announceVars>>
           /\ \/ /\ UNCHANGED <<proc, state, handshakeTimer, pendingAux>>
                 /\ signals' = << >>
              \/ /\ proc' = "off" /\ state' = "IDLE" /\ pendingAux' = NoRequests
                 /\ signals' = IF state = "IDLE" THEN << >> ELSE <<EndSignal(state)>>
BY DEF OnLateStart, ProcessComesUp, StartFailsLate, FallIdle

(* Every step leaves a session with a process it can write to. *)
LEMMA ProcessStep ==
    ASSUME TypeOK, ProcessServesSession, [Next]_vars
    PROVE  ProcessServesSession'
<1>1. proc \in {"off", "open", "shut"} /\ killTimer \in BOOLEAN /\ state \in States
  BY DEF TypeOK, ProcessTypeOK
<1>. USE <1>1 DEF ProcessServesSession, States
<1>2. CASE PrepareAdapter
  <2>1. ASSUME LaunchFails, state' = state, handshakeTimer' = FALSE
        PROVE  ProcessServesSession'
    BY <1>2, <2>1 DEF PrepareAdapter, LaunchFails
  <2>2. CASE state' = "INITIALIZING" /\ proc' = "open"
             /\ (LaunchAndWrite("initialize") \/ Write("initialize", pendingMethods))
    BY <2>2 DEF LaunchAndWrite, Write
  <2>3. CASE state' = "IDLE" /\ proc' = "shut"
    BY <2>3
  <2> QED BY <1>2, <2>1, <2>2, <2>3 DEF PrepareAdapter, WriteFails, FallIdle
<1>3. CASE ProvideConfig
  BY <1>3 DEF ProvideConfig, Write, SendFails, WriteFails, FallIdle, processVars
<1>4. CASE RequestReadData \/ RequestStatus
  BY <1>4 DEF RequestReadData, RequestStatus, PollRequest, Write, SendFails, WriteFails,
              FallIdle, ActiveStates, processVars
<1>5. CASE StopSession
  BY <1>5 DEF StopSession, StopDegraded, StopActive, ForceStop, Write, WriteFails,
              StopProcess, ActiveStates, UserStopStates, processVars
<1>6. ASSUME NEW method \in UiMethods, RequestAux(method)
      PROVE  ProcessServesSession'
  BY <1>6 DEF RequestAux, Write, SendFails, WriteFails, FallIdle, AuxStates, ActiveStates
<1>7. ASSUME NEW id \in RequestIds, OnResponse(id)
      PROVE  ProcessServesSession'
  <2>1. CASE Initialized(id) \/ Configured(id)
    BY <2>1 DEF Initialized, Configured, SendNext, Write, SendFails, WriteFails, FallIdle
  <2>2. CASE Described(id)
    BY <2>2 DEF Described, Undisturbed, Write, WriteFails, FallIdle
  <2>3. CASE Started(id) \/ Stopped(id)
    BY <2>3 DEF Started, Stopped, Complete, Undisturbed
  <2>4. pendingMethods # NoRequests
    BY <1>7 DEF OnResponse, Receive, NoRequests
  <2>5. CASE DataReceived(id) \/ AuxAnswered(id) \/ Ignored(id)
    BY <2>4, <2>5 DEF DataReceived, AuxAnswered, Ignored, Undisturbed
  <2> QED BY <1>7, <2>1, <2>2, <2>3, <2>5 DEF OnResponse, Handled
<1>8. ASSUME NEW id \in RequestIds,
             \/ OnAuxError(id) \/ OnNonObject(id) \/ OnReadDataError(id)
             \/ OnSetupRejected(id) \/ OnFatalError(id)
      PROVE  ProcessServesSession'
  <2>1. pendingMethods # NoRequests
    BY <1>8 DEF OnAuxError, OnNonObject, OnReadDataError, OnSetupRejected, OnFatalError,
                Receive, NoRequests
  <2>2. CASE OnAuxError(id) \/ OnReadDataError(id) \/ OnSetupRejected(id)
    BY <2>1, <2>2 DEF OnAuxError, OnReadDataError, OnSetupRejected, SetupRejected, Undisturbed
  <2>3. CASE OnNonObject(id) \/ OnFatalError(id)
    BY <2>3 DEF OnNonObject, OnFatalError, StopProcess, FallIdle
  <2> QED BY <1>8, <2>2, <2>3
<1>9. CASE OnHandshakeTimeout
  BY <1>9 DEF OnHandshakeTimeout, StopProcess, FallIdle
<1>10. CASE AnnounceIncompatibleSession
  BY <1>10 DEF AnnounceIncompatibleSession, processVars
<1>11. CASE OnProcessFinished \/ OnChannelError
  BY <1>11 DEF OnProcessFinished, OnChannelError, ProcessGone, ChannelBreaks, FallIdle
<1>12. CASE OnLateStart
  <2>1. CASE UNCHANGED <<proc, state, handshakeTimer>>
    BY <1>12, <2>1, LateStart
  <2>2. CASE proc' = "off" /\ state' = "IDLE"
    BY <2>2
  <2> QED BY <1>12, <2>1, <2>2, LateStart
<1>13. CASE UNCHANGED vars
  BY <1>13 DEF vars, clientVars, processVars
<1> QED
  BY <1>2, <1>3, <1>4, <1>5, <1>6, <1>7, <1>8, <1>9, <1>10, <1>11, <1>12, <1>13
     DEF Next, Call, Reply

(* A session always has a process it can write to, a client that waits for *)
(* the end of its process has told it to end, and the only process an IDLE *)
(* client can write to is one whose launch timed out and that has been     *)
(* asked for nothing.                                                      *)
THEOREM ProcessServes == Spec => []ProcessServesSession
<1>1. Init => ProcessServesSession
  BY DEF Init, ProcessInit, ProcessServesSession
<1> QED BY <1>1, ProcessStep, TypeCorrect, PTL DEF Spec

-----------------------------------------------------------------------------
(***************************************************************************)
(* Request ids.                                                            *)
(***************************************************************************)

(* A reply takes its own request off the map and no other. *)
LEMMA AnsweredMap ==
    ASSUME TypeOK, NEW id \in RequestIds
    PROVE  /\ Answered(id) \in PendingMaps
           /\ Answered(id)[id] = "none"
           /\ \A other \in RequestIds \ {id} : Answered(id)[other] = pendingMethods[other]
BY DEF TypeOK, ProcessTypeOK, Answered, PendingMaps

(* A request that is written gets the next id; the others stay as they are. *)
LEMMA WriteMap ==
    ASSUME TypeOK, NEW m, NEW p \in PendingMaps, Write(m, p)
    PROVE  /\ nextRequestId \in RequestIds
           /\ nextRequestId' = nextRequestId + 1
           /\ pendingMethods'[nextRequestId] = m
           /\ \A id \in RequestIds \ {nextRequestId} : pendingMethods'[id] = p[id]
BY RequestBound DEF TypeOK, ProcessTypeOK, PendingMaps, Write, Room, RequestIds

(* A launched process has no request pending but its first. *)
LEMMA LaunchMap ==
    ASSUME NEW m, LaunchAndWrite(m)
    PROVE  /\ nextRequestId' = 2
           /\ pendingMethods'[1] \in {m, "none"}
           /\ proc' = "open" => pendingMethods'[1] = m
           /\ \A id \in RequestIds \ {1} : pendingMethods'[id] = "none"
BY FirstIds DEF LaunchAndWrite, NoRequests

(* prepareAdapter() leaves the client IDLE, or with a process that has been *)
(* asked for nothing but initialize: a new one, or the fresh one that a    *)
(* launch left when it timed out.                                          *)
LEMMA PreparedMap ==
    ASSUME ProcessServesSession, PrepareAdapter
    PROVE  \/ state' = "IDLE" /\ pendingMethods' \in {pendingMethods, NoRequests}
           \/ /\ state' = "INITIALIZING"
              /\ pendingMethods' = [NoRequests EXCEPT ![1] = "initialize"]
<1>1. state = "IDLE"
  BY DEF PrepareAdapter
<1>2. CASE LaunchAndWrite("initialize")
  BY <1>1, <1>2 DEF PrepareAdapter, LaunchAndWrite, LaunchFails, WriteFails, FallIdle
<1>3. CASE Write("initialize", pendingMethods)
  <2>1. pendingMethods = NoRequests /\ nextRequestId = 1
    BY <1>1, <1>3 DEF Write, ProcessServesSession
  <2>2. pendingMethods' = [NoRequests EXCEPT ![1] = "initialize"]
    BY <1>3, <2>1 DEF Write
  <2>3. proc = "open" /\ proc' = "open"
    BY <1>3 DEF Write
  <2> QED BY <2>2, <2>3 DEF PrepareAdapter, LaunchAndWrite, LaunchFails, WriteFails
<1>4. CASE LaunchFails \/ WriteFails(pendingMethods)
  BY <1>1, <1>2, <1>3, <1>4 DEF PrepareAdapter, LaunchFails, WriteFails, FallIdle
<1> QED BY <1>2, <1>3, <1>4 DEF PrepareAdapter

(* The request of a client that prepares its adapter is the only one. *)
LEMMA FirstRequest ==
    ASSUME pendingMethods' = [NoRequests EXCEPT ![1] = "initialize"]
    PROVE  /\ pendingMethods'[1] = "initialize"
           /\ \A id \in RequestIds \ {1} : pendingMethods'[id] = "none"
BY FirstIds DEF NoRequests

(* No step makes an id that is still to be handed out pending. *)
LEMMA FreshStep ==
    ASSUME TypeOK, FreshIds, [Next]_vars
    PROVE  FreshIds'
<1>1. /\ nextRequestId \in 1 .. MaxRequestId + 1
      /\ pendingMethods \in PendingMaps
      /\ RequestIds \subseteq Nat
  BY RequestBound DEF TypeOK, ProcessTypeOK, PendingMaps, RequestIds
<1>. USE <1>1
<1>2. ASSUME NEW m, LaunchAndWrite(m) PROVE FreshIds'
  BY <1>2, LaunchMap DEF FreshIds
<1>3. ASSUME NEW m, NEW p \in PendingMaps, Write(m, p),
             \A id \in RequestIds : p[id] \in {pendingMethods[id], "none"}
      PROVE  FreshIds'
  BY <1>3, WriteMap DEF FreshIds
<1>4. ASSUME NEW p \in PendingMaps,
             WriteFails(p) \/ StopProcess(p) \/ Undisturbed(p),
             \A id \in RequestIds : p[id] \in {pendingMethods[id], "none"}
      PROVE  FreshIds'
  <2>1. pendingMethods' = p /\ nextRequestId' \in {nextRequestId, nextRequestId + 1}
    BY <1>4 DEF WriteFails, StopProcess, Undisturbed
  <2> QED BY <2>1, <1>4 DEF FreshIds
<1>5. CASE pendingMethods' = NoRequests
  BY <1>5 DEF FreshIds, NoRequests
<1>6. CASE UNCHANGED <<pendingMethods, nextRequestId>>
  BY <1>6 DEF FreshIds
<1>7. \A id \in RequestIds :
        /\ Answered(id) \in PendingMaps
        /\ \A other \in RequestIds : Answered(id)[other] \in {pendingMethods[other], "none"}
  BY AnsweredMap
<1>8. CASE Call
  <2>1. CASE PrepareAdapter
    BY <2>1, <1>2, <1>3, <1>4, <1>5 DEF PrepareAdapter, LaunchFails
  <2>2. CASE ProvideConfig
    BY <2>2, <1>3, <1>4, <1>6 DEF ProvideConfig, SendFails, processVars
  <2>3. CASE RequestReadData \/ RequestStatus
    BY <2>3, <1>3, <1>4, <1>6
       DEF RequestReadData, RequestStatus, PollRequest, SendFails, processVars
  <2>4. CASE StopSession
    BY <2>4, <1>3, <1>4, <1>6 DEF StopSession, StopDegraded, StopActive, ForceStop, processVars
  <2>5. CASE \E method \in UiMethods : RequestAux(method)
    BY <2>5, <1>3, <1>4 DEF RequestAux, SendFails
  <2> QED BY <1>8, <2>1, <2>2, <2>3, <2>4, <2>5 DEF Call
<1>9. ASSUME NEW id \in RequestIds, Reply(id) PROVE FreshIds'
  <2>1. CASE OnResponse(id)
    BY <2>1, <1>3, <1>4, <1>7
       DEF OnResponse, Handled, Initialized, Described, Configured, Started, Stopped,
           DataReceived, AuxAnswered, Ignored, SendNext, SendFails, Complete
  <2>2. CASE ~OnResponse(id)
    BY <2>2, <1>9, <1>4, <1>7
       DEF Reply, OnAuxError, OnNonObject, OnReadDataError, OnSetupRejected, OnFatalError
  <2> QED BY <2>1, <2>2
<1>10. CASE \/ OnHandshakeTimeout \/ AnnounceIncompatibleSession
            \/ OnProcessFinished \/ OnChannelError
  BY <1>10, <1>4, <1>5, <1>6
     DEF OnHandshakeTimeout, AnnounceIncompatibleSession, OnProcessFinished, OnChannelError,
         ProcessGone, ChannelBreaks, processVars
<1>11. CASE OnLateStart
  BY <1>11, <1>6, LateStart
<1>12. CASE UNCHANGED vars
  BY <1>12, <1>6 DEF vars, processVars
<1> QED
  BY <1>8, <1>9, <1>10, <1>11, <1>12 DEF Next

(* An id that is still to be handed out belongs to no pending request.     *)
THEOREM IdsAreFresh == Spec => []FreshIds
<1>1. Init => FreshIds
  BY DEF Init, ProcessInit, FreshIds, NoRequests
<1> QED BY <1>1, FreshStep, TypeCorrect, PTL DEF Spec

-----------------------------------------------------------------------------
(***************************************************************************)
(* Replies belong to the state that waits for them.                        *)
(***************************************************************************)

(* What the state waits for, method by method. *)
LEMMA Awaits ==
    /\ \A m \in SessionMethods : Awaiting(m) \subseteq TimedStates
    /\ "INITIALIZING" \in Awaiting("initialize")
    /\ "DESCRIBING" \in Awaiting("describe")
    /\ "CONFIGURING" \in Awaiting("configure")
    /\ "STARTING" \in Awaiting("start")
    /\ "STOPPING_SESSION" \in Awaiting("stop")
    /\ \A m \in PollMethods : Awaiting(m) = {"ACTIVE"}
    /\ \A m \in AuxMethods \cup {"none"} :
          Awaiting(m) = IF m = "dataPointSchema" THEN {"AWAITING_CONFIG"} ELSE AuxStates
BY DEF Awaiting, SessionMethods, PollMethods, AuxMethods, DataPointMethods,
       LatestOnlyMethods, TimedStates, HandshakeStates

(* The kinds of requests do not overlap. *)
LEMMA DisjointMethods ==
    /\ {"initialize", "describe", "configure", "start", "stop"} = SessionMethods
    /\ {"readData", "getStatus"} = PollMethods
    /\ "dataPointSchema" \in AuxMethods
    /\ "none" \notin SessionMethods \cup PollMethods \cup AuxMethods
    /\ \A m \in PollMethods \cup AuxMethods : m \notin SessionMethods
    /\ \A m \in AuxMethods : m \notin PollMethods
BY DEF SessionMethods, PollMethods, AuxMethods, DataPointMethods, LatestOnlyMethods

(* No session request is pending in map p. *)
NoSession(p) == \A id \in RequestIds : p[id] \notin SessionMethods

(* While a session or its preparation runs, only a state that waits for a  *)
(* session request has one, and its reply is the last of them.             *)
LEMMA LastSessionRequest ==
    ASSUME TypeOK, RepliesBelongToState, state \notin {"IDLE", "STOPPING"}
    PROVE  /\ state \notin TimedStates => NoSession(pendingMethods)
           /\ \A id \in RequestIds :
                 pendingMethods[id] \in SessionMethods => NoSession(Answered(id))
BY Awaits, AnsweredMap, DisjointMethods DEF RepliesBelongToState, NoSession

(* Every step keeps the pending session request the one the state waits    *)
(* for.                                                                    *)
LEMMA RepliesStep ==
    ASSUME TypeOK, FreshIds, ProcessServesSession, RepliesBelongToState, [Next]_vars
    PROVE  RepliesBelongToState'
<1>1. /\ pendingMethods \in PendingMaps
      /\ \A id \in RequestIds : Answered(id) \in PendingMaps
  BY AnsweredMap DEF TypeOK, ProcessTypeOK, PendingMaps
<1>. USE <1>1, DisjointMethods
<1>2. CASE state' \in {"IDLE", "STOPPING"}
  BY <1>2 DEF RepliesBelongToState
<1>3. CASE NoSession(pendingMethods')
  BY <1>3 DEF RepliesBelongToState, NoSession
(* The one session request that is pending is the one just written. *)
<1>4. ASSUME NEW m, NEW p \in PendingMaps, NoSession(p), Write(m, p),
             state' \in Awaiting(m) \/ m \notin SessionMethods
      PROVE  RepliesBelongToState'
  BY <1>4, WriteMap DEF RepliesBelongToState, NoSession
(* The state waits for what it waited for, with fewer requests pending. *)
<1>5. ASSUME state' = state,
             \A id \in RequestIds : pendingMethods'[id] \in {pendingMethods[id], "none"}
      PROVE  RepliesBelongToState'
  BY <1>5 DEF RepliesBelongToState
<1>6. CASE Call
  <2>1. CASE PrepareAdapter
    <3>1. CASE /\ state' = "INITIALIZING"
               /\ pendingMethods' = [NoRequests EXCEPT ![1] = "initialize"]
      BY <3>1, FirstRequest, Awaits DEF RepliesBelongToState
    <3> QED BY <2>1, <3>1, <1>2, PreparedMap
  <2>2. CASE ProvideConfig
    <3>1. NoSession(pendingMethods)
      BY <2>2, LastSessionRequest DEF ProvideConfig, TimedStates, HandshakeStates
    <3> QED BY <2>2, <3>1, <1>2, <1>3, <1>4, Awaits
            DEF ProvideConfig, SendFails, FallIdle, processVars
  <2>3. CASE \/ RequestReadData \/ RequestStatus
             \/ \E method \in UiMethods : RequestAux(method)
    <3>1. NoSession(pendingMethods)
      BY <2>3, LastSessionRequest
         DEF RequestReadData, RequestStatus, PollRequest, RequestAux, AuxStates, ActiveStates,
             TimedStates, HandshakeStates
    <3>2. UiMethods \subseteq AuxMethods
      BY ClientAssumption DEF ClientAssumption
    <3> QED BY <2>3, <3>1, <3>2, <1>2, <1>3, <1>4
            DEF RequestReadData, RequestStatus, PollRequest, RequestAux, SendFails, FallIdle,
                processVars
  <2>4. CASE StopSession
    <3>1. state \in ActiveStates => NoSession(pendingMethods)
      BY LastSessionRequest DEF ActiveStates, TimedStates, HandshakeStates
    <3> QED BY <2>4, <3>1, <1>2, <1>3, <1>4, Awaits
            DEF StopSession, StopDegraded, StopActive, ForceStop, ActiveStates, processVars
  <2> QED BY <1>6, <2>1, <2>2, <2>3, <2>4 DEF Call
<1>7. ASSUME NEW id \in RequestIds, Reply(id) PROVE RepliesBelongToState'
  <2>1. CASE \/ Initialized(id) \/ Configured(id) \/ Described(id)
             \/ Started(id) \/ Stopped(id)
    <3>1. NoSession(Answered(id))
      BY <2>1, LastSessionRequest
         DEF Initialized, Configured, Described, Started, Stopped
    <3> QED BY <2>1, <3>1, <1>2, <1>3, <1>4, Awaits
            DEF Initialized, Configured, Described, Started, Stopped, SendNext, SendFails,
                FallIdle, Complete, Undisturbed
  <2>2. CASE \/ DataReceived(id) \/ AuxAnswered(id) \/ Ignored(id)
             \/ OnAuxError(id) \/ OnReadDataError(id)
    BY <2>2, <1>5, AnsweredMap
       DEF DataReceived, AuxAnswered, Ignored, OnAuxError, OnReadDataError, Undisturbed
  <2>3. CASE OnSetupRejected(id)
    <3>1. NoSession(Answered(id))
      BY <2>3, LastSessionRequest DEF OnSetupRejected, SetupRejected
    <3> QED BY <2>3, <3>1, <1>3 DEF OnSetupRejected, Undisturbed
  <2>4. CASE OnNonObject(id) \/ OnFatalError(id)
    BY <2>4, <1>2 DEF OnNonObject, OnFatalError, FallIdle
  <2> QED BY <1>7, <2>1, <2>2, <2>3, <2>4 DEF Reply, OnResponse, Handled
<1>8. CASE OnHandshakeTimeout \/ OnProcessFinished \/ OnChannelError
  BY <1>8, <1>2 DEF OnHandshakeTimeout, OnProcessFinished, OnChannelError, FallIdle
<1>9. CASE AnnounceIncompatibleSession \/ UNCHANGED vars
  BY <1>9, <1>5 DEF AnnounceIncompatibleSession, vars, clientVars, processVars
<1>10. CASE OnLateStart
  BY <1>10, <1>2, <1>5, LateStart
<1> QED
  BY <1>6, <1>7, <1>8, <1>9, <1>10 DEF Next

(* No reply of an earlier handshake or session can be taken for one of the *)
(* present.                                                                *)
THEOREM RepliesBelong == Spec => []RepliesBelongToState
<1>1. Init => RepliesBelongToState
  BY DEF Init, RepliesBelongToState
<1> QED BY <1>1, RepliesStep, IdsAreFresh, ProcessServes, TypeCorrect, PTL DEF Spec

-----------------------------------------------------------------------------
(***************************************************************************)
(* A state that waits has its request outstanding.                         *)
(***************************************************************************)

(* Every step into or within a waiting state leaves its request pending. *)
LEMMA WaitsStep ==
    ASSUME TypeOK, ProcessServesSession, WaitsForRequest, [Next]_vars
    PROVE  WaitsForRequest'
<1>1. /\ pendingMethods \in PendingMaps
      /\ \A id \in RequestIds : Answered(id) \in PendingMaps
  BY AnsweredMap DEF TypeOK, ProcessTypeOK, PendingMaps
<1>. USE <1>1
<1>2. CASE state' \notin TimedStates
  BY <1>2 DEF WaitsForRequest
<1>3. ASSUME NEW m, NEW p \in PendingMaps, Write(m, p), state' \in Awaiting(m)
      PROVE  WaitsForRequest'
  BY <1>3, WriteMap DEF WaitsForRequest
(* What leaves the map is not what the state waits for. *)
<1>4. ASSUME state' = state,
             \A id \in RequestIds :
                \/ pendingMethods'[id] = pendingMethods[id]
                \/ state \notin Awaiting(pendingMethods[id])
      PROVE  WaitsForRequest'
  <2>1. SUFFICES ASSUME state \in TimedStates
                 PROVE  \E id \in RequestIds : state' \in Awaiting(pendingMethods'[id])
    BY <1>4 DEF WaitsForRequest
  <2>2. PICK id \in RequestIds : state \in Awaiting(pendingMethods[id])
    BY <2>1 DEF WaitsForRequest
  <2> QED BY <2>2, <1>4
<1>5. CASE Call
  <2>1. CASE PrepareAdapter
    <3>1. CASE /\ state' = "INITIALIZING"
               /\ pendingMethods' = [NoRequests EXCEPT ![1] = "initialize"]
      BY <3>1, FirstRequest, FirstIds, Awaits DEF WaitsForRequest
    <3> QED BY <2>1, <3>1, <1>2, PreparedMap DEF TimedStates, HandshakeStates
  <2>2. CASE ProvideConfig
    BY <2>2, <1>2, <1>3, Awaits
       DEF ProvideConfig, SendFails, FallIdle, TimedStates, HandshakeStates
  <2>3. CASE \/ RequestReadData \/ RequestStatus
             \/ \E method \in UiMethods : RequestAux(method)
    BY <2>3, <1>2
       DEF RequestReadData, RequestStatus, PollRequest, RequestAux, SendFails, FallIdle,
           AuxStates, ActiveStates, TimedStates, HandshakeStates
  <2>4. CASE StopSession
    BY <2>4, <1>2, <1>3, Awaits
       DEF StopSession, StopDegraded, StopActive, ForceStop, TimedStates, HandshakeStates
  <2> QED BY <1>5, <2>1, <2>2, <2>3, <2>4 DEF Call
<1>6. ASSUME NEW id \in RequestIds, Reply(id) PROVE WaitsForRequest'
  <2>1. CASE Initialized(id) \/ Configured(id)
    BY <2>1, <1>2, <1>3, Awaits
       DEF Initialized, Configured, SendNext, SendFails, FallIdle, TimedStates, HandshakeStates
  <2>2. CASE \/ Described(id) \/ Started(id) \/ Stopped(id) \/ OnSetupRejected(id)
             \/ OnNonObject(id) \/ OnFatalError(id)
    BY <2>2, <1>2
       DEF Described, Started, Stopped, Complete, OnSetupRejected, OnNonObject, OnFatalError,
           FallIdle, TimedStates, HandshakeStates
  <2>3. CASE DataReceived(id) \/ AuxAnswered(id)
    BY <2>3, <1>2
       DEF DataReceived, AuxAnswered, AuxStates, ActiveStates, TimedStates, HandshakeStates
  <2>4. CASE OnAuxError(id) \/ OnReadDataError(id)
    <3>1. CASE state \in TimedStates
      <4>1. state \notin Awaiting(pendingMethods[id])
        BY <2>4, <3>1, Awaits, DisjointMethods
           DEF OnAuxError, OnReadDataError, AuxStates, ActiveStates, TimedStates,
               HandshakeStates
      <4> QED BY <2>4, <4>1, <1>4, AnsweredMap
              DEF OnAuxError, OnReadDataError, Undisturbed
    <3> QED BY <2>4, <3>1, <1>2 DEF OnAuxError, OnReadDataError
  <2>5. CASE Ignored(id) /\ state \notin Awaiting(pendingMethods[id])
    BY <2>5, <1>4, AnsweredMap DEF Ignored, Undisturbed
  <2> QED BY <1>6, <2>1, <2>2, <2>3, <2>4, <2>5 DEF Reply, OnResponse, Handled
<1>7. CASE OnHandshakeTimeout \/ OnProcessFinished \/ OnChannelError
  BY <1>7, <1>2
     DEF OnHandshakeTimeout, OnProcessFinished, OnChannelError, FallIdle, TimedStates,
         HandshakeStates
<1>8. CASE AnnounceIncompatibleSession \/ UNCHANGED vars
  BY <1>8, <1>4 DEF AnnounceIncompatibleSession, vars, clientVars, processVars
<1>9. CASE OnLateStart
  BY <1>9, <1>2, <1>4, LateStart DEF TimedStates, HandshakeStates
<1> QED
  BY <1>5, <1>6, <1>7, <1>8, <1>9 DEF Next

(* A handshake or a stop that waits for the adapter has its request        *)
(* outstanding.                                                            *)
THEOREM WaitsHaveRequests == Spec => []WaitsForRequest
<1>1. Init => WaitsForRequest
  BY DEF Init, WaitsForRequest, TimedStates, HandshakeStates
<1> QED BY <1>1, WaitsStep, ProcessServes, TypeCorrect, PTL DEF Spec

-----------------------------------------------------------------------------
(***************************************************************************)
(* An incompatible adapter is left alone, and auxiliary requests are       *)
(* tracked exactly while the transport answers them.                       *)
(***************************************************************************)

(* A process that is being prepared is asked for nothing but its handshake. *)
LEMMA CleanStep ==
    ASSUME TypeOK, ProcessServesSession, HandshakeClean, [Next]_vars
    PROVE  HandshakeClean'
<1>1. /\ pendingMethods \in PendingMaps
      /\ \A id \in RequestIds : Answered(id) \in PendingMaps
  BY AnsweredMap DEF TypeOK, ProcessTypeOK, PendingMaps
<1>. USE <1>1
<1>2. CASE state' \notin {"INITIALIZING", "DESCRIBING"}
  BY <1>2 DEF HandshakeClean
<1>3. ASSUME state' = state,
             \A id \in RequestIds : pendingMethods'[id] \in {pendingMethods[id], "none"}
      PROVE  HandshakeClean'
  BY <1>3 DEF HandshakeClean
<1>4. CASE Call
  <2>1. CASE PrepareAdapter
    <3>1. CASE pendingMethods' = [NoRequests EXCEPT ![1] = "initialize"]
      BY <3>1, FirstRequest, DisjointMethods DEF HandshakeClean
    <3> QED BY <2>1, <3>1, <1>2, PreparedMap
  <2>2. CASE ~PrepareAdapter
    BY <2>2, <1>4, <1>2
       DEF Call, ProvideConfig, RequestReadData, RequestStatus, PollRequest, StopSession,
           StopDegraded, StopActive, ForceStop, RequestAux, SendFails, FallIdle, AuxStates,
           ActiveStates
  <2> QED BY <2>1, <2>2
<1>5. ASSUME NEW id \in RequestIds, Reply(id) PROVE HandshakeClean'
  <2>1. CASE Initialized(id)
    <3>1. ASSUME Write("describe", Answered(id)) PROVE HandshakeClean'
      BY <2>1, <3>1, WriteMap, AnsweredMap, DisjointMethods DEF Initialized, HandshakeClean
    <3> QED BY <2>1, <3>1, <1>2 DEF Initialized, SendNext, SendFails, FallIdle
  <2>2. CASE \/ Described(id) \/ Configured(id) \/ Started(id) \/ Stopped(id)
             \/ DataReceived(id) \/ OnSetupRejected(id) \/ OnNonObject(id)
             \/ OnFatalError(id)
    BY <2>2, <1>2
       DEF Described, Configured, Started, Stopped, DataReceived, SendNext, SendFails, Complete,
           OnSetupRejected, OnNonObject, OnFatalError, FallIdle
  <2>3. CASE AuxAnswered(id) \/ OnAuxError(id) \/ OnReadDataError(id) \/ Ignored(id)
    BY <2>3, <1>3, AnsweredMap
       DEF AuxAnswered, OnAuxError, OnReadDataError, Ignored, Undisturbed
  <2> QED BY <1>5, <2>1, <2>2, <2>3 DEF Reply, OnResponse, Handled
<1>6. CASE OnHandshakeTimeout \/ OnProcessFinished \/ OnChannelError
  BY <1>6, <1>2 DEF OnHandshakeTimeout, OnProcessFinished, OnChannelError, FallIdle
<1>7. CASE AnnounceIncompatibleSession \/ UNCHANGED vars
  BY <1>7, <1>3 DEF AnnounceIncompatibleSession, vars, clientVars, processVars
<1>8. CASE OnLateStart
  BY <1>8, <1>2, <1>3, LateStart
<1> QED
  BY <1>4, <1>5, <1>6, <1>7, <1>8 DEF Next

(* An adapter that is in its handshake has no request pending but those of *)
(* the handshake.                                                          *)
THEOREM HandshakesAreClean == Spec => []HandshakeClean
<1>1. Init => HandshakeClean
  BY DEF Init, HandshakeClean
<1> QED BY <1>1, CleanStep, ProcessServes, TypeCorrect, PTL DEF Spec

(* An adapter that has just described itself has nothing else to answer. *)
LEMMA NothingPending ==
    ASSUME TypeOK, RepliesBelongToState, HandshakeClean, state = "DESCRIBING",
           NEW id \in RequestIds, pendingMethods[id] = "describe"
    PROVE  Answered(id) = NoRequests
<1>1. NoSession(Answered(id))
  BY LastSessionRequest, DisjointMethods
<1>2. \A other \in RequestIds : Answered(id)[other] \in SessionMethods \cup {"none"}
  BY AnsweredMap DEF HandshakeClean
<1>3. \A other \in RequestIds : Answered(id)[other] = "none"
  BY <1>1, <1>2 DEF NoSession
<1> QED BY <1>3, AnsweredMap DEF NoRequests, PendingMaps

(* Every step leaves an incompatible adapter alone. *)
LEMMA IncompatibleStep ==
    ASSUME TypeOK, RepliesBelongToState, HandshakeClean, IncompatibleLeftAlone, [Next]_vars
    PROVE  IncompatibleLeftAlone'
<1>1. announceQueued \in Nat /\ announcePending \in BOOLEAN /\ incompatible \in BOOLEAN
  BY QueueBound DEF TypeOK
<1>2. "IDLE" \notin TimedStates /\ "STOPPING" \notin TimedStates
      /\ "AWAITING_CONFIG" \notin TimedStates /\ "ACTIVE_DEGRADED" \notin TimedStates
  BY DEF TimedStates, HandshakeStates
<1>. USE <1>1, <1>2
<1>3. CASE ~incompatible'
  BY <1>3 DEF IncompatibleLeftAlone
<1>4. ASSUME incompatible' => incompatible,
             pendingMethods' \in {pendingMethods, NoRequests},
             state' \in {"IDLE", "STOPPING", "AWAITING_CONFIG"}
      PROVE  IncompatibleLeftAlone'
  BY <1>4 DEF IncompatibleLeftAlone
<1>5. CASE Call
  <2>1. CASE PrepareAdapter
    BY <2>1, <1>3, <1>4 DEF PrepareAdapter, LaunchFails
  <2>2. CASE ProvideConfig
    BY <2>2 DEF ProvideConfig, IncompatibleLeftAlone, processVars
  <2>3. CASE RequestReadData \/ RequestStatus
    BY <2>3 DEF RequestReadData, RequestStatus, PollRequest, IncompatibleLeftAlone,
                ActiveStates, processVars, announceVars
  <2>4. CASE StopSession
    <3>1. CASE StopActive
      BY <2>4, <3>1, <1>3 DEF StopSession, StopActive, IncompatibleLeftAlone
    <3> QED BY <2>4, <3>1, <1>4
            DEF StopSession, StopDegraded, ForceStop, StopProcess, processVars
  <2>5. CASE \E method \in UiMethods : RequestAux(method)
    BY <2>5, <1>3 DEF RequestAux
  <2> QED BY <1>5, <2>1, <2>2, <2>3, <2>4, <2>5 DEF Call
<1>6. ASSUME NEW id \in RequestIds, Reply(id) PROVE IncompatibleLeftAlone'
  <2>1. ~incompatible
    BY <1>6 DEF Reply, OnResponse, OnAuxError, OnNonObject, OnReadDataError, OnSetupRejected,
                OnFatalError, Receive, IncompatibleLeftAlone, NoRequests
  <2>2. CASE Described(id)
    <3>1. Answered(id) = NoRequests
      BY <2>2, NothingPending DEF Described
    <3> QED BY <2>2, <3>1, <1>3 DEF Described, Undisturbed, IncompatibleLeftAlone
  <2>3. CASE ~Described(id)
    BY <1>6, <2>1, <2>3, <1>3
       DEF Reply, OnResponse, Handled, Initialized, Configured, Started, Stopped, DataReceived,
           AuxAnswered, Ignored, SendNext, Complete, OnAuxError, OnNonObject,
           OnReadDataError, OnSetupRejected, OnFatalError
  <2> QED BY <2>2, <2>3
<1>7. CASE OnHandshakeTimeout \/ OnProcessFinished \/ OnChannelError
  BY <1>7, <1>4 DEF OnHandshakeTimeout, OnProcessFinished, OnChannelError, FallIdle,
                    StopProcess, ProcessGone, ChannelBreaks
<1>8. CASE AnnounceIncompatibleSession
  BY <1>8 DEF AnnounceIncompatibleSession, IncompatibleLeftAlone, processVars
<1>9. CASE OnLateStart
  <2>1. CASE UNCHANGED state
    BY <1>9, <2>1, LateStart DEF IncompatibleLeftAlone, announceVars
  <2>2. CASE state' = "IDLE"
    BY <1>9, <2>2, <1>4, LateStart
  <2> QED BY <1>9, <2>1, <2>2, LateStart
<1>10. CASE UNCHANGED vars
  BY <1>10 DEF vars, clientVars, processVars, IncompatibleLeftAlone
<1> QED
  BY <1>5, <1>6, <1>7, <1>8, <1>9, <1>10 DEF Next

(* Nothing is sent to an adapter of an incompatible protocol version, and  *)
(* a session with it that still has to be announced has its announcement   *)
(* in the queue.                                                           *)
THEOREM IncompatibleIsLeftAlone == Spec => []IncompatibleLeftAlone
<1>1. Init => IncompatibleLeftAlone
  BY DEF Init, IncompatibleLeftAlone
<1> QED BY <1>1, IncompatibleStep, RepliesBelong, HandshakesAreClean, TypeCorrect, PTL DEF Spec

(* In a state in which no auxiliary request is answered, none is tracked. *)
LEMMA UntrackedOutsideAux ==
    ASSUME TypeOK, AuxTracked, state \notin AuxStates
    PROVE  pendingAux = NoRequests
<1>1. \A id \in RequestIds : pendingAux[id] = "none"
  BY Awaits DEF AuxTracked, TypeOK, AuxStates
<1> QED BY <1>1 DEF TypeOK, NoRequests

(* A reply that no tracked request is waiting for leaves them all tracked. *)
LEMMA OthersStayTracked ==
    ASSUME TypeOK, AuxTracked, NEW id \in RequestIds, pendingAux[id] = "none",
           pendingMethods' = Answered(id), pendingAux' = pendingAux, state' = state
    PROVE  AuxTracked'
BY AnsweredMap DEF AuxTracked

(* The tracked request that a reply answers is taken off. *)
LEMMA ConsumedTracked ==
    ASSUME TypeOK, AuxTracked, NEW id \in RequestIds, pendingMethods[id] # "none",
           pendingMethods' = Answered(id), pendingAux' = Consumed(id), state' = state
    PROVE  AuxTracked'
<1>1. /\ pendingAux'[id] = "none"
      /\ \A other \in RequestIds \ {id} : pendingAux'[other] = pendingAux[other]
  BY DEF Consumed, AuxTracked, TypeOK
<1> QED BY <1>1, AnsweredMap DEF AuxTracked

(* A new auxiliary request is tracked under the id it was sent with. *)
LEMMA NewTracked ==
    ASSUME TypeOK, FreshIds, NEW m \in AuxMethods, NEW p \in PendingMaps, Write(m, p),
           state' \in Awaiting(m),
           pendingAux' = [KeptAux(m) EXCEPT ![nextRequestId] = m],
           \A id \in RequestIds : pendingAux[id] # "none" =>
              /\ p[id] = pendingAux[id]
              /\ state' \in Awaiting(pendingAux[id])
              /\ \A other \in RequestIds :
                    pendingAux[other] = pendingAux[id] =>
                        other = id \/ pendingAux[id] \in DataPointMethods,
           p[nextRequestId] = "none"
    PROVE  AuxTracked'
<1>1. /\ nextRequestId \in RequestIds
      /\ pendingAux'[nextRequestId] = m
      /\ pendingMethods'[nextRequestId] = m
      /\ \A id \in RequestIds \ {nextRequestId} :
            /\ pendingMethods'[id] = p[id]
            /\ pendingAux'[id] = IF m \notin DataPointMethods /\ pendingAux[id] = m
                                 THEN "none" ELSE pendingAux[id]
  BY WriteMap DEF KeptAux
<1>2. ASSUME NEW id \in RequestIds, pendingAux'[id] # "none"
      PROVE  /\ pendingMethods'[id] = pendingAux'[id]
             /\ state' \in Awaiting(pendingAux'[id])
  BY <1>1, <1>2
<1>3. ASSUME NEW id \in RequestIds, pendingAux'[id] # "none",
             NEW other \in RequestIds, pendingAux'[other] = pendingAux'[id],
             pendingAux'[id] \notin DataPointMethods
      PROVE  other = id
  BY <1>1, <1>3
<1> QED BY <1>2, <1>3 DEF AuxTracked

(* Every step keeps the tracked requests pending and deliverable. *)
LEMMA TrackedStep ==
    ASSUME TypeOK, FreshIds, IncompatibleLeftAlone, AuxTracked, [Next]_vars
    PROVE  AuxTracked'
<1>1. /\ pendingMethods \in PendingMaps
      /\ \A id \in RequestIds : Answered(id) \in PendingMaps
      /\ nextRequestId \in RequestIds => pendingMethods[nextRequestId] = "none"
  BY AnsweredMap, RequestBound DEF TypeOK, ProcessTypeOK, PendingMaps, FreshIds, RequestIds
<1>. USE <1>1
<1>2. CASE pendingAux' = NoRequests
  BY <1>2 DEF AuxTracked, NoRequests
<1>3. CASE state \notin AuxStates /\ pendingAux' = pendingAux
  BY <1>2, <1>3, UntrackedOutsideAux
<1>4. CASE UNCHANGED <<state, pendingAux, pendingMethods>>
  BY <1>4 DEF AuxTracked
<1>5. CASE Call
  <2>1. CASE PrepareAdapter
    BY <2>1, <1>2, <1>3 DEF PrepareAdapter, FallIdle, AuxStates, ActiveStates
  <2>2. CASE ProvideConfig
    <3>1. incompatible => pendingAux = NoRequests
      <4>1. incompatible => \A id \in RequestIds : pendingAux[id] = "none"
        BY DEF IncompatibleLeftAlone, AuxTracked, NoRequests
      <4> QED BY <4>1 DEF TypeOK, NoRequests
    <3> QED BY <2>2, <3>1, <1>2 DEF ProvideConfig, SendFails, FallIdle
  <2>3. CASE RequestReadData \/ RequestStatus
    <3>1. ASSUME NEW m, Write(m, pendingMethods), state' = state, pendingAux' = pendingAux
          PROVE  AuxTracked'
      BY <3>1, WriteMap DEF AuxTracked
    <3>2. CASE RequestReadData
      BY <3>1, <3>2, <1>2, <1>4 DEF RequestReadData, PollRequest, SendFails, FallIdle, processVars
    <3>3. CASE RequestStatus
      BY <3>1, <3>3, <1>2, <1>4 DEF RequestStatus, PollRequest, SendFails, FallIdle, processVars
    <3> QED BY <2>3, <3>2, <3>3
  <2>4. CASE StopSession
    BY <2>4, <1>2 DEF StopSession
  <2>5. ASSUME NEW method \in UiMethods, RequestAux(method) PROVE AuxTracked'
    <3>1. method \in AuxMethods /\ state \in Awaiting(method)
      BY <2>5, ClientAssumption, Awaits DEF ClientAssumption, RequestAux
    <3>2. CASE pendingAux' = [KeptAux(method) EXCEPT ![nextRequestId] = method]
               /\ Write(method, pendingMethods) /\ state' = state
      <4>1. /\ TypeOK /\ FreshIds /\ pendingMethods \in PendingMaps /\ Write(method, pendingMethods)
            /\ method \in AuxMethods /\ state' \in Awaiting(method)
            /\ pendingAux' = [KeptAux(method) EXCEPT ![nextRequestId] = method]
        BY <3>1, <3>2
      <4>2. \A id \in RequestIds : pendingAux[id] # "none" =>
               /\ pendingMethods[id] = pendingAux[id]
               /\ state' \in Awaiting(pendingAux[id])
               /\ \A other \in RequestIds :
                     pendingAux[other] = pendingAux[id] =>
                         other = id \/ pendingAux[id] \in DataPointMethods
        BY <3>2 DEF AuxTracked
      <4>3. pendingMethods[nextRequestId] = "none"
        BY <3>2, WriteMap DEF FreshIds
      <4> QED BY ONLY <4>1, <4>2, <4>3, NewTracked
    <3> QED BY <2>5, <3>2, <1>2 DEF RequestAux, SendFails, FallIdle
  <2> QED BY <1>5, <2>1, <2>2, <2>3, <2>4, <2>5 DEF Call
<1>6. ASSUME NEW id \in RequestIds, Reply(id) PROVE AuxTracked'
  <2>1. CASE \/ Initialized(id) \/ Configured(id) \/ Started(id) \/ Stopped(id)
             \/ OnSetupRejected(id)
    BY <2>1, <1>2, <1>3
       DEF Initialized, Configured, Started, Stopped, SendNext, SendFails, FallIdle, Complete,
           OnSetupRejected, SetupRejected, AuxStates, ActiveStates
  <2>2. CASE Described(id)
    <3>1. pendingAux = NoRequests
      BY <2>2, UntrackedOutsideAux DEF Described, AuxStates, ActiveStates
    <3>2. CASE Write("dataPointSchema", Answered(id)) /\ state' = "AWAITING_CONFIG"
               /\ pendingAux' = [KeptAux("dataPointSchema") EXCEPT
                                    ![nextRequestId] = "dataPointSchema"]
      <4>1. Answered(id)[nextRequestId] = "none"
        BY <3>2, WriteMap, AnsweredMap
      <4> QED BY <3>1, <3>2, <4>1, NewTracked, Awaits, DisjointMethods DEF NoRequests
    <3> QED BY <2>2, <3>1, <3>2, <1>2 DEF Described, FallIdle
  <2>3. CASE AuxAnswered(id) \/ OnAuxError(id)
    BY <2>3, ConsumedTracked, DisjointMethods DEF AuxAnswered, OnAuxError, Undisturbed
  <2>4. CASE \/ DataReceived(id) \/ OnReadDataError(id)
             \/ Ignored(id) /\ state \notin Awaiting(pendingMethods[id])
    <3>1. pendingAux[id] = "none"
      BY <2>4, DisjointMethods DEF DataReceived, OnReadDataError, Ignored, AuxTracked, TypeOK
    <3> QED BY <2>4, <3>1, OthersStayTracked
            DEF DataReceived, OnReadDataError, Ignored, Undisturbed
  <2>5. CASE OnNonObject(id) \/ OnFatalError(id)
    BY <2>5, <1>2 DEF OnNonObject, OnFatalError, FallIdle
  <2> QED BY <1>6, <2>1, <2>2, <2>3, <2>4, <2>5 DEF Reply, OnResponse, Handled
<1>7. CASE OnHandshakeTimeout \/ OnProcessFinished \/ OnChannelError
  BY <1>7, <1>2 DEF OnHandshakeTimeout, OnProcessFinished, OnChannelError, FallIdle
<1>8. CASE AnnounceIncompatibleSession \/ UNCHANGED vars
  BY <1>8, <1>4 DEF AnnounceIncompatibleSession, vars, clientVars, processVars
<1>9. CASE OnLateStart
  BY <1>9, <1>2, <1>4, LateStart
<1> QED
  BY <1>5, <1>6, <1>7, <1>8, <1>9 DEF Next

(* Every tracked auxiliary request is pending at the transport, in a state *)
(* in which its answer is delivered; of the methods of which only the      *)
(* latest counts, at most one is tracked.                                  *)
THEOREM AuxIsTracked == Spec => []AuxTracked
<1>1. Init => AuxTracked
  BY DEF Init, AuxTracked, NoRequests
<1> QED BY <1>1, TrackedStep, IdsAreFresh, IncompatibleIsLeftAlone, TypeCorrect, PTL DEF Spec

-----------------------------------------------------------------------------
(***************************************************************************)
(* The client implements the contract with the hub.                        *)
(***************************************************************************)

Owes == Cardinality(PendingReads)

(* The requests that are pending can be counted. *)
LEMMA OwesType ==
    ASSUME NEW S \in SUBSET RequestIds
    PROVE  IsFiniteSet(S) /\ Cardinality(S) \in Nat
<1>1. IsFiniteSet(RequestIds)
  BY FS_Interval, RequestBound DEF RequestIds
<1> QED BY <1>1, FS_Subset, FS_CardinalityType

(* Replies and the end of the process only take readData requests away. *)
LEMMA OwesLess ==
    ASSUME PendingReads' \subseteq PendingReads
    PROVE  Owes' \in 0 .. Owes /\ (PendingReads' = {} => Owes' = 0)
<1>1. IsFiniteSet(PendingReads) /\ Owes \in Nat /\ Owes' \in Nat
  BY OwesType DEF Owes, PendingReads
<1>2. Owes' <= Owes
  BY <1>1, FS_Subset DEF Owes
<1>3. PendingReads' = {} => Owes' = 0
  BY FS_EmptySet DEF Owes
<1> QED BY <1>1, <1>2, <1>3

(* What a written request, or an answered one, does to the readData        *)
(* requests that are pending.                                              *)
LEMMA ReadsWritten ==
    ASSUME TypeOK, FreshIds, NEW m, NEW p \in PendingMaps, Write(m, p),
           \A id \in RequestIds : p[id] \in {pendingMethods[id], "none"}
    PROVE  /\ m # "readData" => PendingReads' \subseteq PendingReads
           /\ m = "readData" /\ p = pendingMethods => Owes' = Owes + 1 /\ Owes \in Nat
<1>1. /\ nextRequestId \in RequestIds /\ pendingMethods'[nextRequestId] = m
      /\ \A id \in RequestIds \ {nextRequestId} : pendingMethods'[id] = p[id]
  BY WriteMap
<1>2. m # "readData" => PendingReads' \subseteq PendingReads
  BY <1>1 DEF PendingReads
<1>3. ASSUME m = "readData", p = pendingMethods
      PROVE  Owes' = Owes + 1 /\ Owes \in Nat
  <2>1. nextRequestId \in Nat
    BY <1>1, RequestBound DEF RequestIds
  <2>2. nextRequestId \notin PendingReads
    BY <1>1, <2>1 DEF FreshIds, PendingReads
  <2>3. PendingReads' = PendingReads \cup {nextRequestId}
    BY <1>1, <1>3 DEF PendingReads
  <2>4. IsFiniteSet(PendingReads) /\ Owes \in Nat
    BY OwesType DEF Owes, PendingReads
  <2> QED BY <2>2, <2>3, <2>4, FS_AddElement DEF Owes
<1> QED BY <1>2, <1>3

(* Answering one takes exactly one away. *)
LEMMA ReadsAnswered ==
    ASSUME TypeOK, NEW id \in RequestIds, pendingMethods' = Answered(id)
    PROVE  /\ PendingReads' \subseteq PendingReads
           /\ pendingMethods[id] = "readData" => Owes' = Owes - 1 /\ Owes \in Nat \ {0}
<1>1. /\ pendingMethods'[id] = "none"
      /\ \A other \in RequestIds \ {id} : pendingMethods'[other] = pendingMethods[other]
  BY AnsweredMap
<1>2. PendingReads' \subseteq PendingReads
  BY <1>1 DEF PendingReads
<1>3. ASSUME pendingMethods[id] = "readData"
      PROVE  Owes' = Owes - 1 /\ Owes \in Nat \ {0}
  <2>1. id \in PendingReads /\ PendingReads' = PendingReads \ {id}
    BY <1>1, <1>3 DEF PendingReads
  <2>2. IsFiniteSet(PendingReads) /\ Owes \in Nat /\ Owes' \in Nat
    BY OwesType DEF Owes, PendingReads
  <2>3. Owes' = Owes - 1
    BY <2>1, <2>2, FS_RemoveElement DEF Owes
  <2> QED BY <2>2, <2>3
<1> QED BY <1>2, <1>3

(* The phases of the client's states. *)
LEMMA PhaseTable ==
    /\ state = "IDLE" => Phase = "idle"
    /\ state \in {"INITIALIZING", "DESCRIBING"} => Phase = "preparing"
    /\ state = "AWAITING_CONFIG" => Phase = "ready"
    /\ state \in {"CONFIGURING", "STARTING"} => Phase = "starting"
    /\ state = "ACTIVE" => Phase = "active"
    /\ state = "ACTIVE_DEGRADED" /\ Announcing => Phase = "announcing"
    /\ state = "ACTIVE_DEGRADED" /\ ~Announcing => Phase = "degraded"
    /\ state = "STOPPING_SESSION" => Phase = "stopping"
    /\ state = "STOPPING" => Phase = "killing"
BY DEF Phase, Announcing

(* The same of the state after a step. *)
LEMMA PhasePrimed ==
    /\ state' = "IDLE" => Phase' = "idle"
    /\ state' \in {"INITIALIZING", "DESCRIBING"} => Phase' = "preparing"
    /\ state' = "AWAITING_CONFIG" => Phase' = "ready"
    /\ state' \in {"CONFIGURING", "STARTING"} => Phase' = "starting"
    /\ state' = "ACTIVE" => Phase' = "active"
    /\ state' = "ACTIVE_DEGRADED" /\ Announcing' => Phase' = "announcing"
    /\ state' = "ACTIVE_DEGRADED" /\ ~Announcing' => Phase' = "degraded"
    /\ state' = "STOPPING_SESSION" => Phase' = "stopping"
    /\ state' = "STOPPING" => Phase' = "killing"
BY DEF Phase, Announcing

(* The contract has a move between two phases that emits these signals. *)
May(from, to, out) ==
    \E on \in {"prepare", "configure", "read", "stop", "event"} :
        Contract!Move(on, from, to, out) \in Contract!Moves

(* The moves of the contract the client makes. *)
LEMMA MoveTable ==
    /\ May("idle", "preparing", << >>) /\ May("idle", "idle", << >>)
    /\ May("ready", "starting", << >>) /\ May("ready", "announcing", << >>)
    /\ May("degraded", "degraded", <<"readDataResult">>)
    /\ May("announcing", "announcing", <<"readDataResult">>)
    /\ May("active", "stopping", << >>)
    /\ \A from \in {"preparing", "ready", "starting"} : May(from, "killing", << >>)
    /\ \A from \in {"degraded", "announcing", "stopping"} :
          May(from, "ready", <<"sessionStopped", "adapterReady">>)
    /\ \A from \in Contract!Phases : May(from, "idle", <<"sessionError">>)
    /\ \A from \in {"active", "stopping", "killing"} : May(from, "idle", <<"sessionStopped">>)
    /\ May("preparing", "idle", <<"sessionError", "adapterReady">>)
    /\ May("preparing", "ready", <<"adapterReady">>)
    /\ May("starting", "active", <<"sessionStarted">>)
    /\ May("starting", "degraded", <<"sessionStarted">>)
    /\ May("announcing", "degraded", <<"sessionStarted">>)
<1> USE DEF May, Contract!Moves, Contract!Move, Contract!Error
<1>1. /\ May("idle", "preparing", << >>) /\ May("idle", "idle", << >>)
      /\ May("ready", "starting", << >>) /\ May("ready", "announcing", << >>)
  BY DEF Contract!CallMoves, Contract!LaunchFailures
<1>2. /\ May("degraded", "degraded", <<"readDataResult">>)
      /\ May("announcing", "announcing", <<"readDataResult">>)
      /\ May("active", "stopping", << >>)
  BY DEF Contract!CallMoves
<1>3. \A from \in {"preparing", "ready", "starting"} : May(from, "killing", << >>)
  <2> TAKE from \in {"preparing", "ready", "starting"}
  <2>1. Contract!Move("stop", from, "killing", << >>) \in Contract!CallMoves
    BY ONLY from \in {"preparing", "ready", "starting"} DEF Contract!CallMoves
  <2> QED BY ONLY <2>1 DEF May, Contract!Moves
<1>4. \A from \in {"degraded", "announcing", "stopping"} :
         May(from, "ready", <<"sessionStopped", "adapterReady">>)
  BY DEF Contract!CallMoves, Contract!EventMoves
<1>5. \A from \in Contract!Phases : May(from, "idle", <<"sessionError">>)
  BY DEF Contract!EventMoves, Contract!Phases
<1>6. \A from \in {"active", "stopping", "killing"} : May(from, "idle", <<"sessionStopped">>)
  BY DEF Contract!WriteFailures, Contract!EventMoves
<1>7. May("preparing", "idle", <<"sessionError", "adapterReady">>)
  BY DEF Contract!WriteFailures
<1>8. /\ May("preparing", "ready", <<"adapterReady">>)
      /\ May("starting", "active", <<"sessionStarted">>)
      /\ May("starting", "degraded", <<"sessionStarted">>)
      /\ May("announcing", "degraded", <<"sessionStarted">>)
  BY DEF Contract!EventMoves
<1> QED BY ONLY <1>1, <1>2, <1>3, <1>4, <1>5, <1>6, <1>7, <1>8

(* A step of the client that makes such a move. *)
LEMMA Moves ==
    ASSUME NEW from, NEW to, NEW out, May(from, to, out),
           Phase = from, Phase' = to, signals' = out, Owes' \in 0 .. Owes,
           from # "active" \/ to # "active", to = "preparing" => Owes' = 0
    PROVE  Contract!Next
<1>1. PICK on \in {"prepare", "configure", "read", "stop", "event"} :
         Contract!Move(on, from, to, out) \in Contract!Moves
  BY DEF May
<1> DEFINE m == Contract!Move(on, from, to, out)
<1>2. m.from = from /\ m.to = to /\ m.out = out /\ m.on = on /\ m \in Contract!Moves
  BY <1>1 DEF Contract!Move
<1> HIDE DEF m
<1>3. Owes' \in Contract!OwedAfter(m, Owes)
  BY <1>2 DEF Contract!OwedAfter
<1>4. Contract!MakeMove(m)
  BY <1>2, <1>3 DEF Contract!MakeMove, Owes
<1> QED BY <1>2, <1>4 DEF Contract!Next

(* A readData request of a running session is sent. *)
LEMMA MovesRead ==
    ASSUME Phase = "active", Phase' = "active", signals' = << >>, Owes' = Owes + 1
    PROVE  Contract!Next
<1> DEFINE m == Contract!Move("read", "active", "active", << >>)
<1>1. m.from = "active" /\ m.to = "active" /\ m.out = << >> /\ m.on = "read" /\ m \in Contract!Moves
  BY DEF Contract!Move, Contract!Moves, Contract!CallMoves
<1> HIDE DEF m
<1>2. Owes' \in Contract!OwedAfter(m, Owes)
  BY <1>1 DEF Contract!OwedAfter
<1>3. Contract!MakeMove(m)
  BY <1>1, <1>2 DEF Contract!MakeMove, Owes
<1> QED BY <1>1, <1>3 DEF Contract!Next

(* A readData request of a running session is answered. *)
LEMMA MovesResult ==
    ASSUME Phase = "active", Phase' = "active", signals' = <<"readDataResult">>,
           Owes' = Owes - 1, Owes \in Nat \ {0}
    PROVE  Contract!Next
<1> DEFINE m == Contract!Move("event", "active", "active", <<"readDataResult">>)
<1>1. /\ m.from = "active" /\ m.to = "active" /\ m.out = <<"readDataResult">> /\ m.on = "event"
      /\ m \in Contract!Moves
  BY DEF Contract!Move, Contract!Moves, Contract!EventMoves
<1> HIDE DEF m
<1>2. Owes' \in Contract!OwedAfter(m, Owes)
  BY <1>1 DEF Contract!OwedAfter
<1>3. Contract!MakeMove(m)
  BY <1>1, <1>2 DEF Contract!MakeMove, Owes
<1> QED BY <1>1, <1>3 DEF Contract!Next

(* A step of which the hub hears nothing. *)
LEMMA MovesUnseen ==
    ASSUME Phase' = Phase, signals' = << >>, Owes' \in 0 .. Owes
    PROVE  Contract!Next
BY DEF Contract!Next, Contract!Unseen, Owes

(* A session that ends, with the signal its state calls for. *)
LEMMA FallsIdle ==
    ASSUME state \in States, state' = "IDLE", PendingReads' \subseteq PendingReads,
           \/ signals' = <<"sessionError">>
           \/ signals' = <<"sessionStopped">> /\ state \in {"ACTIVE"} \cup UserStopStates
    PROVE  Contract!Next
<1>1. Phase \in Contract!Phases
  BY PhaseTable DEF States, Contract!Phases
<1>2. Phase' = "idle" /\ Owes' \in 0 .. Owes
  BY PhasePrimed, OwesLess
<1>3. CASE signals' = <<"sessionError">>
  BY <1>1, <1>2, <1>3, MoveTable, Moves
<1>4. CASE signals' = <<"sessionStopped">> /\ state \in {"ACTIVE"} \cup UserStopStates
  <2>1. Phase \in {"active", "stopping", "killing"}
    BY <1>4, PhaseTable DEF UserStopStates
  <2> QED BY <1>2, <1>4, <2>1, MoveTable, Moves
<1> QED BY <1>3, <1>4

(* The same with the signal EndSignal() chooses. *)
LEMMA EndsSession ==
    ASSUME state \in States, state' = "IDLE", PendingReads' \subseteq PendingReads,
           signals' = <<EndSignal(state)>>
    PROVE  Contract!Next
BY FallsIdle DEF EndSignal

(* Unless its state changes, the client stays in its phase. *)
LEMMA SamePhase ==
    ASSUME state' = state, UNCHANGED announceVars
    PROVE  Phase' = Phase
BY DEF Phase, Announcing, announceVars

(* Every call of the application makes a move of the contract. *)
LEMMA CallMove ==
    ASSUME TypeOK, FreshIds, ProcessServesSession, Call
    PROVE  Contract!Next
<1>1. state \in States /\ pendingMethods \in PendingMaps
  BY DEF TypeOK, ProcessTypeOK, PendingMaps
<1>2. ASSUME NEW m, m # "readData", Write(m, pendingMethods) PROVE PendingReads' \subseteq PendingReads
  BY <1>1, <1>2, ReadsWritten
<1>3. ASSUME NEW s, s \notin UserStopStates, SendFails(pendingMethods, s) PROVE Contract!Next
  <2>1. /\ state' = "IDLE" /\ signals' = <<"sessionError">> /\ pendingMethods' = pendingMethods
    BY <1>3 DEF SendFails, WriteFails, FallIdle, EndSignal
  <2>2. PendingReads' \subseteq PendingReads
    BY <2>1 DEF PendingReads
  <2> QED BY <1>1, <2>1, <2>2, FallsIdle
<1>4. CASE PrepareAdapter
  <2>1. state = "IDLE"
    BY <1>4 DEF PrepareAdapter
  <2>2. PendingReads' \subseteq PendingReads /\ (state' = "INITIALIZING" => PendingReads' = {})
    <3>1. CASE pendingMethods' = pendingMethods /\ state' # "INITIALIZING"
      BY <3>1 DEF PendingReads
    <3>2. CASE pendingMethods' = NoRequests
      BY <3>2 DEF PendingReads, NoRequests
    <3>3. CASE pendingMethods' = [NoRequests EXCEPT ![1] = "initialize"]
      BY <3>3, FirstRequest DEF PendingReads
    <3> QED BY <1>4, <3>1, <3>2, <3>3, PreparedMap
  <2>3. Owes' \in 0 .. Owes /\ (state' = "INITIALIZING" => Owes' = 0)
    BY <2>2, OwesLess
  <2>4. CASE state' = "INITIALIZING" /\ signals' = << >>
    BY <2>1, <2>3, <2>4, PhaseTable, PhasePrimed, MoveTable, Moves
  <2>5. CASE state' = "IDLE" /\ signals' = << >>
    BY <2>1, <2>3, <2>5, PhaseTable, PhasePrimed, MoveTable, Moves
  <2>6. CASE state' = "IDLE" /\ signals' = <<"sessionError">>
    BY <1>1, <2>2, <2>6, FallsIdle
  <2> QED BY <1>4, <2>1, <2>4, <2>5, <2>6 DEF PrepareAdapter, FallIdle
<1>5. CASE ProvideConfig
  <2>1. Phase = "ready"
    BY <1>5, PhaseTable DEF ProvideConfig
  <2>2. CASE /\ state' = "ACTIVE_DEGRADED" /\ announcePending' /\ announceQueued' = announceQueued + 1
             /\ signals' = << >> /\ UNCHANGED processVars
    <3>1. Announcing'
      BY <2>2, QueueBound DEF Announcing, TypeOK
    <3>2. Owes' \in 0 .. Owes
      BY <2>2, OwesLess DEF PendingReads, processVars
    <3> QED BY <2>1, <2>2, <3>1, <3>2, PhasePrimed, MoveTable, Moves
  <2>3. CASE Write("configure", pendingMethods) /\ state' = "CONFIGURING" /\ signals' = << >>
    <3>1. Owes' \in 0 .. Owes
      BY <1>2, <2>3, OwesLess
    <3> QED BY <2>1, <2>3, <3>1, PhasePrimed, MoveTable, Moves
  <2>4. CASE SendFails(pendingMethods, "CONFIGURING")
    BY <1>3, <2>4 DEF UserStopStates
  <2> QED BY <1>5, <2>2, <2>3, <2>4 DEF ProvideConfig
<1>6. ASSUME NEW method, NEW emits, PollRequest(method, emits), state = "ACTIVE_DEGRADED"
      PROVE  /\ Owes' \in 0 .. Owes /\ signals' = emits /\ Phase' = Phase
             /\ Phase \in {"degraded", "announcing"}
  <2>1. UNCHANGED <<processVars, state, announceVars>> /\ signals' = emits
    BY <1>6 DEF PollRequest
  <2>2. Owes' \in 0 .. Owes
    BY <2>1, OwesLess DEF PendingReads, processVars
  <2> QED BY <1>6, <2>1, <2>2, SamePhase, PhaseTable
<1>7. CASE RequestReadData
  <2>1. CASE state = "ACTIVE_DEGRADED"
    BY <1>6, <1>7, <2>1, MoveTable, Moves DEF RequestReadData
  <2>2. CASE /\ state = "ACTIVE" /\ Write("readData", pendingMethods) /\ signals' = << >>
             /\ UNCHANGED <<state, announceVars>>
    <3>1. Owes' = Owes + 1
      BY <1>1, <2>2, ReadsWritten
    <3>2. Phase = "active" /\ Phase' = "active"
      BY <2>2, PhaseTable, PhasePrimed
    <3> QED BY <2>2, <3>1, <3>2, MovesRead
  <2>3. CASE state = "ACTIVE" /\ SendFails(pendingMethods, state)
    BY <1>3, <2>3 DEF UserStopStates
  <2> QED BY <1>7, <2>1, <2>2, <2>3 DEF RequestReadData, PollRequest
<1>8. CASE RequestStatus
  <2>1. CASE state = "ACTIVE_DEGRADED"
    BY <1>6, <1>8, <2>1, MovesUnseen DEF RequestStatus
  <2>2. CASE /\ state = "ACTIVE" /\ Write("getStatus", pendingMethods) /\ signals' = << >>
             /\ UNCHANGED <<state, announceVars>>
    <3>1. Owes' \in 0 .. Owes
      BY <1>2, <2>2, OwesLess
    <3> QED BY <2>2, <3>1, SamePhase, MovesUnseen
  <2>3. CASE state = "ACTIVE" /\ SendFails(pendingMethods, state)
    BY <1>3, <2>3 DEF UserStopStates
  <2> QED BY <1>8, <2>1, <2>2, <2>3 DEF RequestStatus, PollRequest
<1>9. ASSUME NEW method \in UiMethods, RequestAux(method)
      PROVE  Contract!Next
  <2>1. method # "readData"
    BY ClientAssumption, DisjointMethods DEF ClientAssumption
  <2>2. CASE Write(method, pendingMethods) /\ signals' = << >> /\ UNCHANGED <<state, announceVars>>
    <3>1. Owes' \in 0 .. Owes
      BY <1>2, <2>1, <2>2, OwesLess
    <3> QED BY <2>2, <3>1, SamePhase, MovesUnseen
  <2>3. CASE SendFails(pendingMethods, state)
    BY <1>3, <1>9, <2>3 DEF UserStopStates, RequestAux, AuxStates, ActiveStates
  <2> QED BY <1>9, <2>2, <2>3 DEF RequestAux
<1>10. CASE StopSession
  <2>1. CASE StopDegraded
    <3>1. Owes' \in 0 .. Owes
      BY <2>1, OwesLess DEF StopDegraded, PendingReads, processVars
    <3>2. Phase \in {"degraded", "announcing"} /\ Phase' = "ready"
      BY <2>1, PhaseTable, PhasePrimed DEF StopDegraded
    <3> QED BY <2>1, <3>1, <3>2, MoveTable, Moves DEF StopDegraded
  <2>2. CASE state = "ACTIVE" /\ Write("stop", pendingMethods) /\ state' = "STOPPING_SESSION" /\ signals' = << >>
    <3>1. Owes' \in 0 .. Owes
      BY <1>2, <2>2, OwesLess
    <3> QED BY <2>2, <3>1, PhaseTable, PhasePrimed, MoveTable, Moves
  <2>3. CASE /\ state = "ACTIVE" /\ WriteFails(pendingMethods) /\ state' = "IDLE"
             /\ signals' = <<"sessionStopped">>
    BY <1>1, <2>3, FallsIdle DEF WriteFails, PendingReads
  <2>4. CASE ForceStop
    <3>1. Owes' \in 0 .. Owes
      BY <2>4, OwesLess DEF ForceStop, StopProcess, PendingReads
    <3>2. Phase \in {"preparing", "ready", "starting"}
      BY <1>1, <1>10, <2>4, PhaseTable DEF StopSession, ForceStop, States, ActiveStates, UserStopStates
    <3>3. Phase' = "killing" /\ signals' = << >>
      BY <2>4, PhasePrimed DEF ForceStop
    <3> QED BY <3>1, <3>2, <3>3, MoveTable, Moves
  <2> QED BY <1>10, <2>1, <2>2, <2>3, <2>4 DEF StopSession, StopActive
<1> QED BY <1>4, <1>5, <1>7, <1>8, <1>9, <1>10 DEF Call

(* Every reply of the adapter makes a move of the contract. *)
LEMMA ReplyMove ==
    ASSUME TypeOK, FreshIds, ProcessServesSession, NEW id \in RequestIds, Reply(id)
    PROVE  Contract!Next
<1>1. /\ state \in States /\ Answered(id) \in PendingMaps
      /\ \A other \in RequestIds : Answered(id)[other] \in {pendingMethods[other], "none"}
  BY AnsweredMap DEF TypeOK
<1>2. announceQueued = 0 /\ UNCHANGED announceVars
  BY DEF Reply, OnResponse, OnAuxError, OnNonObject, OnReadDataError, OnSetupRejected,
         OnFatalError, Receive
<1>3. ASSUME pendingMethods' = Answered(id) PROVE PendingReads' \subseteq PendingReads /\ Owes' \in 0 .. Owes
  BY <1>3, ReadsAnswered, OwesLess
<1>4. ASSUME Undisturbed(Answered(id)), signals' = << >>, state' = state
      PROVE  Contract!Next
  BY <1>2, <1>3, <1>4, SamePhase, MovesUnseen DEF Undisturbed
<1>5. ASSUME NEW next, NEW method, SendNext(id, next, method), method # "readData",
             next \notin UserStopStates, state' = next => Phase' = Phase
      PROVE  Contract!Next
  <2>1. CASE Write(method, Answered(id)) /\ state' = next /\ signals' = << >>
    <3>1. Owes' \in 0 .. Owes
      BY <1>1, <1>5, <2>1, ReadsWritten, OwesLess
    <3> QED BY <1>5, <2>1, <3>1, MovesUnseen
  <2>2. CASE SendFails(Answered(id), next)
    <3>1. /\ state' = "IDLE" /\ signals' = <<"sessionError">> /\ pendingMethods' = Answered(id)
      BY <1>5, <2>2 DEF SendFails, WriteFails, FallIdle, EndSignal
    <3> QED BY <1>1, <1>3, <3>1, FallsIdle
  <2> QED BY <1>5, <2>1, <2>2 DEF SendNext
<1>6. CASE Initialized(id)
  <2>1. state' = "DESCRIBING" => Phase' = Phase
    BY <1>6, PhaseTable, PhasePrimed DEF Initialized
  <2> QED BY <1>5, <1>6, <2>1 DEF Initialized, UserStopStates
<1>7. CASE Configured(id)
  <2>1. state' = "STARTING" => Phase' = Phase
    BY <1>7, PhaseTable, PhasePrimed DEF Configured
  <2> QED BY <1>5, <1>7, <2>1 DEF Configured, UserStopStates
<1>8. CASE Described(id)
  <2>1. Phase = "preparing"
    BY <1>8, PhaseTable DEF Described
  <2>2. Owes' \in 0 .. Owes
    <3>1. CASE pendingMethods' = Answered(id)
      BY <1>3, <3>1
    <3>2. CASE Write("dataPointSchema", Answered(id))
      BY <1>1, <3>2, ReadsWritten, OwesLess
    <3> QED BY <1>8, <3>1, <3>2 DEF Described, Undisturbed, WriteFails
  <2>3. CASE state' = "AWAITING_CONFIG" /\ signals' = <<"adapterReady">>
    BY <2>1, <2>2, <2>3, PhasePrimed, MoveTable, Moves
  <2>4. CASE state' = "IDLE" /\ signals' = <<"sessionError", "adapterReady">>
    BY <2>1, <2>2, <2>4, PhasePrimed, MoveTable, Moves
  <2> QED BY <1>8, <2>3, <2>4 DEF Described, FallIdle
<1>9. CASE Started(id) \/ OnSetupRejected(id)
  <2>1. pendingMethods' = Answered(id) /\ signals' = <<"sessionStarted">> /\ Phase = "starting"
    BY <1>9, PhaseTable DEF Started, Complete, OnSetupRejected, SetupRejected, Undisturbed
  <2>2. ~Announcing'
    BY <1>2 DEF Announcing, announceVars
  <2>3. Phase' \in {"active", "degraded"}
    BY <1>9, <2>2, PhasePrimed DEF Started, Complete, OnSetupRejected
  <2> QED BY <1>3, <2>1, <2>3, MoveTable, Moves
<1>10. CASE Stopped(id)
  <2>1. /\ pendingMethods' = Answered(id) /\ signals' = <<"sessionStopped", "adapterReady">>
        /\ Phase = "stopping" /\ Phase' = "ready"
    BY <1>10, PhaseTable, PhasePrimed DEF Stopped, Complete, Undisturbed
  <2> QED BY <1>3, <2>1, MoveTable, Moves
<1>11. CASE DataReceived(id) \/ OnReadDataError(id)
  <2>1. pendingMethods' = Answered(id) /\ state' = state
    BY <1>11 DEF DataReceived, OnReadDataError, Undisturbed
  <2>2. CASE signals' = << >>
    BY <1>4, <1>11, <2>2 DEF DataReceived, OnReadDataError
  <2>3. CASE signals' = <<"readDataResult">> /\ state = "ACTIVE" /\ pendingMethods[id] = "readData"
    <3>1. Phase = "active" /\ Phase' = "active"
      BY <2>1, <2>3, PhaseTable, PhasePrimed
    <3> QED BY <2>1, <2>3, <3>1, ReadsAnswered, MovesResult
  <2> QED BY <1>11, <2>2, <2>3 DEF DataReceived, OnReadDataError
<1>12. CASE AuxAnswered(id) \/ OnAuxError(id) \/ Ignored(id)
  BY <1>4, <1>12 DEF AuxAnswered, OnAuxError, Ignored
<1>13. CASE OnNonObject(id) \/ OnFatalError(id)
  <2>1. /\ state' = "IDLE" /\ pendingMethods' = Answered(id)
        /\ signals' = <<"sessionError">> \/ signals' = <<EndSignal(state)>>
    BY <1>13 DEF OnNonObject, OnFatalError, StopProcess, FallIdle
  <2> QED BY <1>1, <1>3, <2>1, FallsIdle, EndsSession
<1> QED BY <1>6, <1>7, <1>8, <1>9, <1>10, <1>11, <1>12, <1>13 DEF Reply, OnResponse, Handled

(* Every step of the client is a move of the contract, or one of which the *)
(* hub hears nothing.                                                      *)
LEMMA ContractStep ==
    ASSUME TypeOK, FreshIds, ProcessServesSession, [Next]_vars
    PROVE  [Contract!Next]_<<Phase, signals, Cardinality(PendingReads)>>
<1>1. state \in States /\ announceQueued \in Nat
  BY QueueBound DEF TypeOK
<1>2. CASE OnHandshakeTimeout
  <2>1. state' = "IDLE" /\ signals' = <<EndSignal(state)>> /\ PendingReads' \subseteq PendingReads
    BY <1>2 DEF OnHandshakeTimeout, FallIdle, StopProcess, PendingReads
  <2> QED BY <1>1, <2>1, EndsSession
<1>3. CASE OnProcessFinished \/ OnChannelError
  <2>1. /\ state' = "IDLE" /\ PendingReads' \subseteq PendingReads
        /\ signals' = IF state = "IDLE" THEN << >> ELSE <<EndSignal(state)>>
    BY <1>3 DEF OnProcessFinished, OnChannelError, FallIdle, ProcessGone, ChannelBreaks, PendingReads,
                NoRequests
  <2>2. CASE state = "IDLE"
    <3>1. Phase = "idle" /\ Phase' = "idle" /\ Owes' \in 0 .. Owes
      BY <2>1, <2>2, PhaseTable, PhasePrimed, OwesLess
    <3> QED BY <2>1, <2>2, <3>1, MovesUnseen
  <2>3. CASE state # "IDLE"
    BY <1>1, <2>1, <2>3, EndsSession
  <2> QED BY <2>2, <2>3
<1>4. CASE AnnounceIncompatibleSession
  <2>1. UNCHANGED state /\ Owes' \in 0 .. Owes
    BY <1>4, OwesLess DEF AnnounceIncompatibleSession, PendingReads, processVars
  <2>2. CASE /\ announcePending /\ state = "ACTIVE_DEGRADED" /\ ~announcePending'
             /\ signals' = <<"sessionStarted">>
    <3>1. Announcing /\ ~Announcing'
      BY <1>4, <2>2 DEF AnnounceIncompatibleSession, Announcing
    <3> QED BY <2>1, <2>2, <3>1, PhaseTable, PhasePrimed, MoveTable, Moves
  <2>3. CASE ~(announcePending /\ state = "ACTIVE_DEGRADED") /\ signals' = << >> /\ UNCHANGED announcePending
    <3>1. Phase' = Phase
      BY <1>1, <2>1, <2>3, PhaseTable, PhasePrimed DEF States, Announcing
    <3> QED BY <2>1, <2>3, <3>1, MovesUnseen
  <2> QED BY <1>4, <2>2, <2>3 DEF AnnounceIncompatibleSession
<1>5. CASE OnLateStart
  <2>1. PendingReads' \subseteq PendingReads /\ Owes' \in 0 .. Owes
    BY <1>5, LateStart, OwesLess DEF PendingReads
  <2>2. CASE state' = state /\ signals' = << >>
    <3>1. Phase' = Phase
      BY <1>5, <2>2, LateStart, SamePhase
    <3> QED BY <2>1, <2>2, <3>1, MovesUnseen
  <2>3. CASE state # "IDLE" /\ state' = "IDLE" /\ signals' = <<EndSignal(state)>>
    BY <1>1, <2>1, <2>3, EndsSession
  <2> QED BY <1>5, <2>2, <2>3, LateStart
<1>6. CASE UNCHANGED vars
  BY <1>6 DEF vars, clientVars, processVars, Phase, Announcing, PendingReads
<1> QED BY <1>2, <1>3, <1>4, <1>5, <1>6, CallMove, ReplyMove DEF Next

(* The client implements what the hub relies on, for every bound and every *)
(* set of auxiliary requests: the poll loop, which is built on the         *)
(* contract alone, sees every behaviour of the client.                     *)
THEOREM ContractImplemented == Spec => ImplementsContract
<1>1. ASSUME Init PROVE Contract!Init
  <2>1. PendingReads = {}
    BY <1>1 DEF Init, ProcessInit, PendingReads, NoRequests
  <2>2. Cardinality(PendingReads) = 0
    BY <2>1, FS_EmptySet
  <2>3. Phase = "idle" /\ signals = << >>
    BY <1>1 DEF Init, ProcessInit, Phase, Announcing
  <2> QED BY <2>2, <2>3 DEF Contract!Init
<1> QED BY <1>1, ContractStep, IdsAreFresh, ProcessServes, TypeCorrect, PTL
        DEF Spec, ImplementsContract, Contract!Spec

-----------------------------------------------------------------------------
(***************************************************************************)
(* The reader of the messages.  What it holds is a piece of the stream of  *)
(* the frames that were written, and where the frames begin in the stream  *)
(* is known.                                                               *)
(***************************************************************************)

(* A function on 1 .. n whose values are in S is a list of S.              *)
LEMMA ListOf ==
    ASSUME NEW S, NEW n \in Nat, NEW s, s = [i \in 1 .. n |-> s[i]], \A i \in 1 .. n : s[i] \in S
    PROVE  s \in Seq(S) /\ Len(s) = n /\ DOMAIN s = 1 .. n
<1>1. s \in [1 .. n -> S]
  OBVIOUS
<1> QED BY <1>1

(* A frame: the header with the size, the separator, the body. *)
LEMMA FrameOf ==
    ASSUME NEW m \in Messages
    PROVE  /\ Size[m] \in Nat /\ Size[m] > 0
           /\ Body(m) \in Seq(Tokens) /\ Len(Body(m)) = Size[m]
           /\ Frame(m) \in Seq(Tokens) /\ Len(Frame(m)) = Size[m] + 2
           /\ Frame(m)[1] = Header(Size[m]) /\ Frame(m)[2] = Separator
           /\ \A i \in 1 .. Size[m] : Frame(m)[i + 2] = Body(m)[i] /\ Body(m)[i].kind = "body"
<1> DEFINE head == <<Header(Size[m]), Separator>>
           Wider == Range(head) \cup Range(Body(m))
           n == Size[m]
           body == Body(m)
           frame == Frame(m)
<1>1. n \in Nat /\ n > 0
  BY FramingAssumption
<1>2. DOMAIN body = 1 .. n /\ body = [i \in 1 .. n |-> body[i]]
  BY DEF Body
<1>3. Len(head) = 2 /\ head[1] = Header(n) /\ head[2] = Separator /\ DOMAIN head = {1, 2}
  OBVIOUS
<1>4. frame = head \o body
  BY DEF Frame
<1>5. \A i \in 1 .. n : body[i].kind = "body"
  BY DEF Body
<1>6. head \in Seq(Wider)
  BY <1>3 DEF Range
<1>7. \A i \in 1 .. n : body[i] \in Wider
  BY <1>2 DEF Range
<1> HIDE DEF Wider, head, n, body, frame
<1>8. body \in Seq(Wider) /\ Len(body) = n
  BY <1>1, <1>2, <1>7, ListOf
<1>9. /\ frame \in Seq(Wider) /\ Len(frame) = n + 2 /\ DOMAIN frame = 1 .. n + 2
      /\ \A i \in 1 .. n + 2 : frame[i] = IF i <= 2 THEN head[i] ELSE body[i - 2]
  <2>1. /\ frame \in Seq(Wider) /\ Len(frame) = Len(head) + Len(body)
        /\ \A i \in 1 .. Len(head) + Len(body) :
              frame[i] = IF i <= Len(head) THEN head[i] ELSE body[i - Len(head)]
    BY <1>4, <1>6, <1>8, ConcatProperties
  <2>2. Len(head) + Len(body) = n + 2
    BY <1>1, <1>3, <1>8
  <2> QED BY <1>3, <2>1, <2>2
<1>10. \A i \in 1 .. n : i + 2 \in 1 .. n + 2 /\ frame[i + 2] = body[i]
  <2>1. \A i \in 1 .. n : i + 2 \in 1 .. n + 2 /\ ~(i + 2 <= 2) /\ (i + 2) - 2 = i
    BY <1>1
  <2> QED BY <1>9, <2>1
<1>11. frame[1] = Header(n) /\ frame[2] = Separator
  BY <1>1, <1>3, <1>9
<1>12. \A i \in 1 .. n + 2 : frame[i] \in Tokens
  BY <1>9 DEF Tokens, Range, frame
<1>13. frame \in Seq(Tokens)
  <2>1. frame = [i \in 1 .. n + 2 |-> frame[i]] /\ n + 2 \in Nat
    BY <1>1, <1>9
  <2> QED BY <1>12, <2>1, ListOf
<1>14. body \in Seq(Tokens)
  <2>1. \A i \in 1 .. n : body[i] \in Tokens
    BY <1>10, <1>12
  <2> QED BY <1>1, <1>2, <2>1, ListOf
<1> QED BY <1>1, <1>5, <1>8, <1>9, <1>10, <1>11, <1>13, <1>14 DEF n, body, frame

(* Tokens have a length that is a number. *)
LEMMA TokenLengths == \A t \in Tokens : t.len \in Nat /\ t.kind \in {"header", "separator", "body"}
<1> SUFFICES ASSUME NEW m \in Messages, NEW i \in DOMAIN Frame(m)
             PROVE  /\ Frame(m)[i].len \in Nat
                    /\ Frame(m)[i].kind \in {"header", "separator", "body"}
  BY DEF Tokens, Range
<1>1. i \in 1 .. Size[m] + 2 /\ Size[m] \in Nat
  BY FrameOf
<1>2. \/ Frame(m)[i] = Header(Size[m])
      \/ Frame(m)[i] = Separator
      \/ \E j \in 1 .. Size[m] : Frame(m)[i] = Body(m)[j]
  <2>1. i = 1 \/ i = 2 \/ (i - 2 \in 1 .. Size[m] /\ (i - 2) + 2 = i)
    BY <1>1
  <2>2. CASE i - 2 \in 1 .. Size[m] /\ (i - 2) + 2 = i
    <3>1. Frame(m)[(i - 2) + 2] = Body(m)[i - 2]
      BY <2>2, FrameOf
    <3> QED BY <2>2, <3>1
  <2> QED BY <2>1, <2>2, FrameOf
<1>3. \A j \in 1 .. Size[m] : Body(m)[j].len = j /\ Body(m)[j].kind = "body"
  BY DEF Body
<1>4. Header(Size[m]).len \in Nat /\ Header(Size[m]).kind = "header"
  BY <1>1 DEF Header
<1>5. Separator.len \in Nat /\ Separator.kind = "separator"
  BY DEF Separator
<1>6. \A j \in 1 .. Size[m] : j \in Nat
  BY <1>1
<1> QED BY <1>2, <1>3, <1>4, <1>5, <1>6

(* The sequences that FlattenSeq puts together, one after another. *)
Joined(f, parts, n) ==
    f[0] = << >> /\ \A k \in 1 .. n : f[k] = f[k - 1] \o parts[k]

(* FlattenSeq is the last of them. *)
LEMMA FlattenedParts ==
    ASSUME NEW T, NEW n \in Nat, NEW parts \in Seq(Seq(T)), Len(parts) = n
    PROVE  \E f \in [0 .. n -> Seq(T)] : Joined(f, parts, n) /\ FlattenSeq(parts) = f[n]
<1> DEFINE none == << >>
           S == Seq(T)
           Turn(s, k) == s \o parts[k]
           turn == [x \in S \X (1 .. n) |-> Turn(x[1], x[2])]
           flatten[i \in 1 .. n] == IF i = 1 THEN parts[i] ELSE Turn(flatten[i - 1], i)
           flat == [k \in 0 .. n |-> IF k = 0 THEN none ELSE flatten[k]]
<1>1. none \in S
  OBVIOUS
<1>2. \A k \in 1 .. n : parts[k] \in S /\ none \o parts[k] = parts[k]
  BY ElementOfSeq, ConcatEmptySeq
<1>3. FlattenSeq(parts) = IF n = 0 THEN parts ELSE flatten[n]
  BY DEF FlattenSeq, Turn
<1>4. n = 0 => parts = none
  OBVIOUS
<1>5. \A s \in S, k \in 1 .. n : Turn(s, k) \in S
  BY <1>2
<1> HIDE DEF S, none, Turn
<1>6. turn \in Turns(S, n) /\ \A s \in S, k \in 1 .. n : turn[<<s, k>>] = Turn(s, k)
  BY <1>5 DEF Turns
<1> HIDE DEF turn
<1>7. PICK f \in [0 .. n -> S] : f[0] = none /\ \A k \in 1 .. n : f[k] = turn[<<f[k - 1], k>>]
  BY <1>1, <1>6, LoopExists
<1>8. \A k \in 1 .. n : k - 1 \in 0 .. n /\ k \in 0 .. n /\ f[k - 1] \in S /\ f[k] = f[k - 1] \o parts[k]
  <2>1. \A k \in 1 .. n : k - 1 \in 0 .. n /\ k \in 0 .. n /\ f[k - 1] \in S
    BY <1>7
  <2>2. \A k \in 1 .. n : f[k] = Turn(f[k - 1], k)
    BY <1>6, <1>7, <2>1
  <2> QED BY <2>1, <2>2 DEF Turn
<1>9. flatten = [i \in 1 .. n |-> IF i = 1 THEN parts[i] ELSE Turn(flatten[i - 1], i)]
  <2>0. PICK h : h = [i \in 1 .. n |-> f[i]]
    OBVIOUS
  <2>1. \A i \in 1 .. n : h[i] = IF i = 1 THEN parts[i] ELSE Turn(h[i - 1], i)
    <3> TAKE i \in 1 .. n
    <3>1. CASE i = 1
      <4>1. f[i] = f[0] \o parts[i]
        BY <1>8, <3>1
      <4> QED BY <1>2, <1>7, <2>0, <3>1, <4>1
    <3>2. CASE i # 1
      <4>1. i - 1 \in 1 .. n
        BY <3>2
      <4>2. h[i - 1] = f[i - 1] /\ h[i] = f[i]
        BY <2>0, <4>1
      <4> QED BY <1>8, <3>2, <4>2 DEF Turn
    <3> QED BY <3>1, <3>2
  <2>2. h = [i \in 1 .. n |-> IF i = 1 THEN parts[i] ELSE Turn(h[i - 1], i)]
    <3>1. DOMAIN h = 1 .. n /\ h = [i \in 1 .. n |-> h[i]]
      BY <2>0
    <3> QED BY <2>1, <3>1
  <2> QED BY <2>2
<1> HIDE DEF flatten
<1>10. \A k \in 0 .. n : flat[k] \in {f[k]}
  <2> DEFINE after == [k \in 0 .. n |-> {f[k]}]
  <2>0. 0 \in 0 .. n /\ \A k \in 1 .. n : k \in 0 .. n /\ k - 1 \in 0 .. n /\ k # 0
    OBVIOUS
  <2>1. flat[0] \in after[0]
    BY <1>7, <2>0
  <2>2. ASSUME NEW k \in 1 .. n, flat[k - 1] \in after[k - 1]
        PROVE  flat[k] \in after[k]
    <3>1. flat[k - 1] = f[k - 1]
      BY <2>0, <2>2
    <3>2. flat[k] = flatten[k]
      BY <2>0
    <3>3. flatten[k] = flat[k - 1] \o parts[k]
      <4>1. CASE k = 1
        <5>1. flat[k - 1] = none
          BY <4>1
        <5>2. flatten[k] = parts[k]
          BY <1>9, <4>1
        <5> QED BY <1>2, <5>1, <5>2
      <4>2. CASE k # 1
        <5>1. k - 1 # 0
          BY <4>2
        <5>2. flat[k - 1] = flatten[k - 1]
          BY <2>0, <5>1
        <5>3. flatten[k] = flatten[k - 1] \o parts[k]
          BY <1>9, <4>2 DEF Turn
        <5> QED BY <5>2, <5>3
      <4> QED BY <4>1, <4>2
    <3> HIDE DEF flat
    <3> QED BY <1>8, <2>0, <3>1, <3>2, <3>3
  <2> HIDE DEF flat
  <2>3. \A k \in 0 .. n : after[k] = {f[k]}
    OBVIOUS
  <2> HIDE DEF after
  <2>4. \A k \in 0 .. n : flat[k] \in after[k]
    BY <2>1, <2>2, LoopKeeps
  <2> QED BY <2>3, <2>4
<1>11. FlattenSeq(parts) = f[n]
  <2>1. flat[n] = f[n]
    BY <1>10
  <2> QED BY <1>3, <1>4, <2>1
<1>12. Joined(f, parts, n)
  BY <1>7, <1>8 DEF Joined, none
<1> QED BY <1>7, <1>11, <1>12 DEF S

(* Putting one more sequence at the end.                                   *)
LEMMA FlattenMore ==
    ASSUME NEW T, NEW parts \in Seq(Seq(T)), NEW part \in Seq(T)
    PROVE  /\ FlattenSeq(parts) \in Seq(T)
           /\ FlattenSeq(Append(parts, part)) = FlattenSeq(parts) \o part
<1> DEFINE S == Seq(T)
           n == Len(parts)
           more == Append(parts, part)
           last == n + 1
<1>1. n \in Nat /\ last \in Nat /\ last - 1 = n
  OBVIOUS
<1>2. /\ more \in Seq(S) /\ Len(more) = last /\ more[last] = part
      /\ \A k \in 1 .. n : more[k] = parts[k]
  OBVIOUS
<1>3. PICK f \in [0 .. n -> S] : Joined(f, parts, n) /\ FlattenSeq(parts) = f[n]
  BY FlattenedParts
<1> HIDE DEF n, more, last
<1>4. PICK g \in [0 .. last -> S] : Joined(g, more, last) /\ FlattenSeq(more) = g[last]
  BY <1>1, <1>2, FlattenedParts DEF S
<1> DEFINE after == [k \in 0 .. n |-> {f[k]}]
<1>5. 0 \in 0 .. n /\ \A k \in 1 .. n : k - 1 \in 0 .. n /\ k \in 0 .. n /\ k \in 1 .. last
  BY <1>1 DEF last
<1>6. g[0] \in after[0]
  BY <1>3, <1>4, <1>5 DEF Joined
<1>7. ASSUME NEW k \in 1 .. n, g[k - 1] \in after[k - 1]
      PROVE  g[k] \in after[k]
  <2>1. g[k - 1] = f[k - 1]
    BY <1>5, <1>7
  <2>2. g[k] = g[k - 1] \o more[k] /\ f[k] = f[k - 1] \o parts[k] /\ more[k] = parts[k]
    BY <1>2, <1>3, <1>4, <1>5 DEF Joined
  <2> QED BY <1>5, <2>1, <2>2
<1>8. \A k \in 0 .. n : after[k] = {f[k]}
  OBVIOUS
<1> HIDE DEF after
<1>9. \A k \in 0 .. n : g[k] \in after[k]
  BY <1>1, <1>6, <1>7, LoopKeeps
<1>10. n \in 0 .. n /\ last \in 1 .. last
  BY <1>1 DEF last
<1>11. g[n] = f[n] /\ f[n] \in S
  BY <1>8, <1>9, <1>10
<1>12. g[last] = g[n] \o part
  BY <1>1, <1>2, <1>4, <1>10 DEF Joined
<1> QED BY <1>3, <1>4, <1>11, <1>12 DEF more

(* The stream of the frames grows by a frame at its end.                   *)
LEMMA StreamOf ==
    /\ Stream(<< >>) = << >>
    /\ \A w \in Seq(Messages) :
         /\ Stream(w) \in Seq(Tokens)
         /\ \A m \in Messages : Stream(Append(w, m)) = Stream(w) \o Frame(m)
<1>1. Stream(<< >>) = << >>
  BY DEF Stream, FlattenSeq
<1>2. ASSUME NEW w \in Seq(Messages)
      PROVE  /\ Stream(w) \in Seq(Tokens)
             /\ \A m \in Messages : Stream(Append(w, m)) = Stream(w) \o Frame(m)
  <2> DEFINE Frames(v) == [i \in DOMAIN v |-> Frame(v[i])]
             S == Seq(Tokens)
  <2>1. \A m \in Messages : Frame(m) \in S
    BY FrameOf
  <2> HIDE DEF S
  <2>2. /\ Len(w) \in Nat /\ DOMAIN w = 1 .. Len(w)
        /\ \A i \in 1 .. Len(w) : w[i] \in Messages
    OBVIOUS
  <2>3. Frames(w) \in Seq(S) /\ Len(Frames(w)) = Len(w)
    <3>1. \A i \in 1 .. Len(w) : Frames(w)[i] \in S
      BY <2>1, <2>2
    <3>2. Frames(w) = [i \in 1 .. Len(w) |-> Frames(w)[i]]
      BY <2>2
    <3> HIDE DEF Frames
    <3> QED BY <2>2, <3>1, <3>2, ListOf
  <2>4. Stream(w) \in Seq(Tokens)
    <3> HIDE DEF Frames
    <3>1. FlattenSeq(Frames(w)) \in Seq(Tokens)
      <4>1. Frame(w[1]) \in S \/ Len(w) = 0
        BY <2>1, <2>2
      <4>2. << >> \in S
        BY DEF S
      <4> QED BY <2>3, <4>2, FlattenMore DEF S
    <3> QED BY <3>1 DEF Stream, Frames
  <2>5. ASSUME NEW m \in Messages PROVE Stream(Append(w, m)) = Stream(w) \o Frame(m)
    <3> DEFINE more == Append(w, m)
    <3>1. /\ DOMAIN more = 1 .. Len(w) + 1 /\ more[Len(w) + 1] = m
          /\ \A i \in 1 .. Len(w) : more[i] = w[i]
      BY <2>2
    <3> HIDE DEF more
    <3>2. Frames(more) = Append(Frames(w), Frame(m))
      <4> DEFINE longer == Append(Frames(w), Frame(m))
      <4>1. /\ DOMAIN longer = 1 .. Len(w) + 1 /\ longer = [i \in 1 .. Len(w) + 1 |-> longer[i]]
            /\ longer[Len(w) + 1] = Frame(m)
            /\ \A i \in 1 .. Len(w) : longer[i] = Frames(w)[i]
        <5>1. ASSUME NEW seq \in Seq(S), NEW elt \in S
              PROVE  LET l == Append(seq, elt)
                     IN  /\ DOMAIN l = 1 .. Len(seq) + 1 /\ l = [i \in 1 .. Len(seq) + 1 |-> l[i]]
                         /\ l[Len(seq) + 1] = elt
                         /\ \A i \in 1 .. Len(seq) : l[i] = seq[i]
          <6> DEFINE l == Append(seq, elt)
          <6>1. /\ l \in Seq(S) /\ Len(l) = Len(seq) + 1 /\ l[Len(seq) + 1] = elt
                /\ \A i \in 1 .. Len(seq) : l[i] = seq[i]
            BY AppendProperties
          <6> HIDE DEF l
          <6>2. DOMAIN l = 1 .. Len(seq) + 1 /\ l = [i \in 1 .. Len(seq) + 1 |-> l[i]]
            <7>1. DOMAIN l = 1 .. Len(l) /\ l = [i \in 1 .. Len(l) |-> l[i]]
              BY <6>1
            <7> QED BY <6>1, <7>1
          <6> QED BY <6>1, <6>2 DEF l
        <5>2. Frame(m) \in S
          BY <2>1
        <5> HIDE DEF Frames
        <5> QED BY <2>3, <5>1, <5>2
      <4>2. \A i \in 1 .. Len(w) : longer[i] = Frame(w[i])
        BY <2>2, <4>1
      <4> HIDE DEF longer
      <4>3. \A i \in 1 .. Len(w) + 1 : longer[i] = Frame(more[i])
        <5>1. \A i \in 1 .. Len(w) + 1 : i = Len(w) + 1 \/ i \in 1 .. Len(w)
          BY <2>2
        <5> QED BY <3>1, <4>1, <4>2, <5>1
      <4>4. longer = [i \in 1 .. Len(w) + 1 |-> Frame(more[i])]
        BY <4>1, <4>3
      <4> QED BY <3>1, <4>4 DEF longer
    <3> HIDE DEF Frames
    <3>3. FlattenSeq(Append(Frames(w), Frame(m))) = FlattenSeq(Frames(w)) \o Frame(m)
      BY <2>1, <2>3, FlattenMore DEF S
    <3>4. Stream(more) = FlattenSeq(Frames(more)) /\ Stream(w) = FlattenSeq(Frames(w))
      BY DEF Stream, Frames
    <3> QED BY <3>2, <3>3, <3>4 DEF more
  <2> QED BY <2>4, <2>5
<1> QED BY <1>1, <1>2

(* The frames of the first k messages, and where they end in the stream.   *)
FirstFrames(w, k) == Stream(SubSeq(w, 1, k))
End(w, k) == Len(FirstFrames(w, k))

(* Each adds the frame of its message to the one before.                  *)
LEMMA FramesFollow ==
    ASSUME NEW w \in Seq(Messages)
    PROVE  /\ FirstFrames(w, 0) = << >> /\ FirstFrames(w, Len(w)) = Stream(w)
           /\ \A k \in 0 .. Len(w) : FirstFrames(w, k) \in Seq(Tokens) /\ End(w, k) \in Nat
           /\ \A k \in 1 .. Len(w) :
                /\ w[k] \in Messages
                /\ FirstFrames(w, k) = FirstFrames(w, k - 1) \o Frame(w[k])
<1>1. SubSeq(w, 1, 0) = << >> /\ SubSeq(w, 1, Len(w)) = w
  BY SubSeqEmpty, SubSeqFull
<1>2. \A k \in 0 .. Len(w) : SubSeq(w, 1, k) \in Seq(Messages)
  OBVIOUS
<1>3. ASSUME NEW k \in 1 .. Len(w)
      PROVE  w[k] \in Messages /\ FirstFrames(w, k) = FirstFrames(w, k - 1) \o Frame(w[k])
  <2>1. w[k] \in Messages /\ k - 1 \in 0 .. Len(w) /\ 1 \in 1 .. Len(w)
    OBVIOUS
  <2>2. SubSeq(w, 1, k) = SubSeq(w, 1, k - 1) \o <<w[k]>>
    BY <2>1, SubSeqRecursiveSecond
  <2>3. SubSeq(w, 1, k) = Append(SubSeq(w, 1, k - 1), w[k])
    BY <1>2, <2>1, <2>2, AppendIsConcat
  <2> QED BY <1>2, <2>1, <2>3, StreamOf DEF FirstFrames
<1>4. \A k \in 0 .. Len(w) : FirstFrames(w, k) \in Seq(Tokens)
  BY <1>2, StreamOf DEF FirstFrames
<1>5. \A k \in 0 .. Len(w) : End(w, k) \in Nat
  BY <1>4, LenProperties DEF End
<1> QED BY <1>1, <1>3, <1>4, <1>5, StreamOf DEF FirstFrames

(* A message more leaves the frames before it where they are.              *)
LEMMA FramesStay ==
    ASSUME NEW w \in Seq(Messages), NEW m \in Messages, NEW k \in 0 .. Len(w)
    PROVE  /\ Append(w, m) \in Seq(Messages) /\ Len(Append(w, m)) = Len(w) + 1
           /\ FirstFrames(Append(w, m), k) = FirstFrames(w, k)
           /\ End(Append(w, m), k) = End(w, k)
<1>1. /\ Append(w, m) \in Seq(Messages) /\ Len(Append(w, m)) = Len(w) + 1
      /\ \A i \in 1 .. Len(w) : Append(w, m)[i] = w[i]
  OBVIOUS
<1>2. SubSeq(Append(w, m), 1, k) = SubSeq(w, 1, k)
  <2>1. k \in Nat /\ k <= Len(w) /\ Len(w) \in Nat
    OBVIOUS
  <2> QED BY <1>1, <2>1
<1> QED BY <1>1, <1>2 DEF FirstFrames, End

(* What is known of the first k frames as a sequence of tokens.            *)
BeginsWith(s, t) == Len(t) <= Len(s) /\ \A x \in 1 .. Len(t) : s[x] = t[x]

FrameAt(s, start, m) ==
    /\ s[start + 1] = Header(Size[m]) /\ s[start + 2] = Separator
    /\ \A x \in 1 .. Size[m] : s[start + 2 + x] = Body(m)[x]

LaidOut(w, k) ==
    {s \in Seq(Tokens) :
        /\ Len(s) = End(w, k)
        /\ \A i \in 0 .. k : BeginsWith(s, FirstFrames(w, i))
        /\ \A i \in 1 .. k : /\ End(w, i) = End(w, i - 1) + 2 + Size[w[i]]
                             /\ FrameAt(s, End(w, i - 1), w[i])
        /\ \A x \in 1 .. Len(s) :
             /\ s[x].kind = "header" => \E i \in 1 .. k : x = End(w, i - 1) + 1
             /\ s[x] = Separator => \E i \in 1 .. k : x = End(w, i - 1) + 2}

(* The places of the parts in a concatenation.                             *)
LEMMA PlacesOfParts ==
    ASSUME NEW S, NEW s \in Seq(S), NEW f \in Seq(S)
    PROVE  \A a, b \in Nat : a = Len(s) /\ b = Len(f) =>
              /\ s \o f \in Seq(S) /\ Len(s \o f) = a + b
              /\ \A x \in 1 .. a : (s \o f)[x] = s[x]
              /\ \A x \in 1 .. b : (s \o f)[a + x] = f[x]
<1> SUFFICES ASSUME NEW a \in Nat, NEW b \in Nat
             PROVE  a = Len(s) /\ b = Len(f) =>
                      /\ s \o f \in Seq(S) /\ Len(s \o f) = a + b
                      /\ \A x \in 1 .. a : (s \o f)[x] = s[x]
                      /\ \A x \in 1 .. b : (s \o f)[a + x] = f[x]
  OBVIOUS
<1>1. \A x \in 1 .. a : x \in 1 .. a + b /\ x <= a
  OBVIOUS
<1>2. \A x \in 1 .. b : a + x \in 1 .. a + b /\ ~(a + x <= a) /\ (a + x) - a = x
  OBVIOUS
<1> DEFINE t == s \o f
<1>3. /\ t \in Seq(S) /\ Len(t) = Len(s) + Len(f)
      /\ \A i \in 1 .. Len(s) + Len(f) : t[i] = IF i <= Len(s) THEN s[i] ELSE f[i - Len(s)]
  BY ConcatProperties
<1> HIDE DEF t
<1>4. ASSUME a = Len(s) /\ b = Len(f)
      PROVE  /\ t \in Seq(S) /\ Len(t) = a + b
             /\ \A i \in 1 .. a + b : t[i] = IF i <= a THEN s[i] ELSE f[i - a]
  BY <1>3, <1>4
<1>5. ASSUME a = Len(s) /\ b = Len(f)
      PROVE  /\ \A x \in 1 .. a : t[x] = s[x]
             /\ \A x \in 1 .. b : t[a + x] = f[x]
  <2>1. \A i \in 1 .. a + b : t[i] = IF i <= a THEN s[i] ELSE f[i - a]
    BY <1>4, <1>5
  <2>2. ASSUME NEW x \in 1 .. a PROVE t[x] = s[x]
    BY <1>1, <2>1
  <2>3. ASSUME NEW x \in 1 .. b PROVE t[a + x] = f[x]
    BY <1>2, <2>1
  <2> QED BY <2>2, <2>3
<1> QED BY <1>4, <1>5 DEF t

(* A frame put at the end of a sequence.                                   *)
Framed(t, s, start, m, size) ==
    /\ Len(t) = start + 2 + size
    /\ \A x \in 1 .. start : t[x] = s[x]
    /\ FrameAt(t, start, m)
    /\ t[start + 1] # Separator /\ t[start + 2].kind # "header"
    /\ \A x \in 1 .. size : t[start + 2 + x] # Separator /\ t[start + 2 + x].kind # "header"

(* Such a sequence is the concatenation with the frame.                   *)
LEMMA FramedOnto ==
    ASSUME NEW s \in Seq(Tokens), NEW m \in Messages
    PROVE  \A start, size \in Nat, t \in Seq(Tokens) :
              start = Len(s) /\ size = Size[m] /\ t = s \o Frame(m) => Framed(t, s, start, m, size)
<1> TAKE start, size \in Nat, t \in Seq(Tokens)
<1> DEFINE b == size + 2
<1>1. SUFFICES ASSUME start = Len(s), size = Size[m], t = s \o Frame(m)
               PROVE  Framed(t, s, start, m, size)
  OBVIOUS
<1>2. PICK f \in Seq(Tokens) : f = Frame(m)
  BY FrameOf
<1>3. Len(f) = b /\ f[1] = Header(size) /\ f[2] = Separator
  BY <1>1, <1>2, FrameOf
<1>4. \A i \in 1 .. size : f[i + 2] = Body(m)[i] /\ Body(m)[i].kind = "body"
  BY <1>1, <1>2, FrameOf
<1>5. 1 \in 1 .. b /\ 2 \in 1 .. b /\ b \in Nat /\ start + b = start + 2 + size
  OBVIOUS
<1>6. \A x \in 1 .. size : x + 2 \in 1 .. b /\ start + 2 + x = start + (x + 2)
  OBVIOUS
<1> HIDE DEF b
<1>7. /\ Len(t) = start + b
      /\ \A x \in 1 .. start : t[x] = s[x]
      /\ \A x \in 1 .. b : t[start + x] = f[x]
  <2>1. start = Len(s) /\ b = Len(f) /\ t = s \o f
    BY <1>1, <1>2, <1>3
  <2> QED BY <1>5, <2>1, PlacesOfParts
<1>8. t[start + 1] = Header(size) /\ t[start + 2] = Separator
  BY <1>3, <1>5, <1>7
<1>9. ASSUME NEW x \in 1 .. size
      PROVE  t[start + 2 + x] = Body(m)[x] /\ t[start + 2 + x].kind = "body"
  <2>1. t[start + (x + 2)] = f[x + 2]
    BY <1>6, <1>7
  <2> QED BY <1>4, <1>6, <2>1
<1>10. FrameAt(t, start, m)
  BY <1>1, <1>8, <1>9 DEF FrameAt
<1>11. Header(size).kind = "header" /\ Separator.kind = "separator"
  BY DEF Header, Separator
<1>12. t[start + 1] # Separator /\ t[start + 2].kind # "header"
  BY <1>8, <1>11
<1>13. \A x \in 1 .. size : t[start + 2 + x] # Separator /\ t[start + 2 + x].kind # "header"
  BY <1>9, <1>11
<1> QED BY <1>5, <1>7, <1>10, <1>12, <1>13 DEF Framed

(* A frame within the first tokens stays where it is.                      *)
LEMMA FrameStays ==
    ASSUME NEW s, NEW t, NEW start \in Nat, \A x \in 1 .. start : t[x] = s[x],
           NEW m \in Messages, NEW before \in Nat, before + 2 + Size[m] <= start,
           FrameAt(s, before, m)
    PROVE  FrameAt(t, before, m)
<1>1. PICK size \in Nat : size = Size[m]
  BY FrameOf
<1>2. before + 1 \in 1 .. start /\ before + 2 \in 1 .. start
  BY <1>1
<1>3. \A x \in 1 .. size : before + 2 + x \in 1 .. start
  BY <1>1
<1> QED BY <1>1, <1>2, <1>3 DEF FrameAt

(* One more frame. *)
LEMMA FrameAdded ==
    ASSUME NEW w \in Seq(Messages), NEW k \in 1 .. Len(w), FirstFrames(w, k - 1) \in LaidOut(w, k - 1)
    PROVE  FirstFrames(w, k) \in LaidOut(w, k)
<1>1. /\ k \in Nat /\ k - 1 \in 0 .. Len(w) /\ k \in 0 .. Len(w) /\ Len(w) \in Nat
      /\ \A i \in 0 .. k : i \in 0 .. Len(w) /\ (i = k \/ i \in 0 .. k - 1)
      /\ \A i \in 1 .. k : i \in 1 .. Len(w) /\ i - 1 \in 0 .. Len(w) /\ i \in 0 .. Len(w)
      /\ \A i \in 1 .. k : i = k \/ i \in 1 .. k - 1
      /\ \A i \in 1 .. k - 1 : i \in 1 .. k /\ i \in 0 .. k - 1
      /\ k \in 1 .. k
  OBVIOUS
<1>2. PICK m \in Messages : m = w[k]
  BY <1>1, FramesFollow
<1>3. PICK start \in Nat : start = End(w, k - 1)
  BY <1>1, FramesFollow
<1>4. PICK s \in Seq(Tokens) : s = FirstFrames(w, k - 1)
  BY <1>1, FramesFollow
<1>5. PICK t \in Seq(Tokens) : t = FirstFrames(w, k)
  BY <1>1, FramesFollow
<1>6. Len(s) = start /\ Len(t) = End(w, k) /\ t = s \o Frame(m)
  BY <1>1, <1>2, <1>3, <1>4, <1>5, FramesFollow DEF End
<1>7. PICK size \in Nat : size = Size[m]
  BY FrameOf
<1>8. Framed(t, s, start, m, size)
  BY <1>6, <1>7, FramedOnto
<1>9. s \in LaidOut(w, k - 1)
  BY <1>4
<1>10. \A i \in 0 .. k : BeginsWith(t, FirstFrames(w, i))
  <2> TAKE i \in 0 .. k
  <2>1. PICK p \in Seq(Tokens) : p = FirstFrames(w, i)
    BY <1>1, FramesFollow
  <2>2. CASE i = k
    <3>1. p = t
      BY <1>5, <2>1, <2>2
    <3> QED BY <2>1, <3>1 DEF BeginsWith
  <2>3. CASE i \in 0 .. k - 1
    <3>1. BeginsWith(s, p)
      BY <1>9, <2>1, <2>3 DEF LaidOut
    <3>2. Len(p) <= start /\ \A x \in 1 .. Len(p) : x \in 1 .. start /\ s[x] = p[x]
      BY <1>6, <3>1 DEF BeginsWith
    <3> QED BY <1>8, <2>1, <3>2 DEF Framed, BeginsWith
  <2> QED BY <1>1, <2>2, <2>3
<1>11. \A i \in 1 .. k : /\ End(w, i) = End(w, i - 1) + 2 + Size[w[i]]
                         /\ FrameAt(t, End(w, i - 1), w[i])
  <2> TAKE i \in 1 .. k
  <2>1. CASE i = k
    BY <1>2, <1>3, <1>6, <1>7, <1>8, <2>1 DEF Framed
  <2>2. CASE i \in 1 .. k - 1
    <3>1. /\ End(w, i) = End(w, i - 1) + 2 + Size[w[i]] /\ FrameAt(s, End(w, i - 1), w[i])
          /\ BeginsWith(s, FirstFrames(w, i))
      BY <1>1, <1>9, <2>2 DEF LaidOut
    <3>2. End(w, i) <= start
      BY <1>6, <3>1 DEF BeginsWith, End
    <3>3. w[i] \in Messages /\ End(w, i - 1) \in Nat
      BY <1>1, FramesFollow
    <3>4. FrameAt(t, End(w, i - 1), w[i])
      <4>1. PICK before \in Nat : before = End(w, i - 1)
        BY <3>3
      <4>2. before + 2 + Size[w[i]] <= start /\ FrameAt(s, before, w[i])
        BY <3>1, <3>2, <4>1
      <4>3. \A x \in 1 .. start : t[x] = s[x]
        BY <1>8 DEF Framed
      <4>4. FrameAt(t, before, w[i])
        BY <3>3, <4>2, <4>3, FrameStays
      <4> QED BY <4>1, <4>4
    <3> QED BY <3>1, <3>4
  <2> QED BY <1>1, <2>1, <2>2
<1>12. ASSUME NEW x \in 1 .. Len(t)
       PROVE  /\ t[x].kind = "header" => \E i \in 1 .. k : x = End(w, i - 1) + 1
              /\ t[x] = Separator => \E i \in 1 .. k : x = End(w, i - 1) + 2
  <2>1. CASE x \in 1 .. start
    <3>1. /\ s[x].kind = "header" => \E i \in 1 .. k - 1 : x = End(w, i - 1) + 1
          /\ s[x] = Separator => \E i \in 1 .. k - 1 : x = End(w, i - 1) + 2
      BY <1>6, <1>9, <2>1 DEF LaidOut
    <3> QED BY <1>1, <1>8, <2>1, <3>1 DEF Framed
  <2>2. CASE x = start + 1
    BY <1>1, <1>3, <1>8, <2>2 DEF Framed
  <2>3. CASE x = start + 2
    BY <1>1, <1>3, <1>8, <2>3 DEF Framed
  <2>4. CASE x - (start + 2) \in 1 .. size
    <3>1. start + 2 + (x - (start + 2)) = x
      OBVIOUS
    <3> QED BY <1>8, <2>4, <3>1 DEF Framed
  <2>5. x \in 1 .. start \/ x = start + 1 \/ x = start + 2 \/ x - (start + 2) \in 1 .. size
    BY <1>8 DEF Framed
  <2> QED BY <2>1, <2>2, <2>3, <2>4, <2>5
<1>13. t \in LaidOut(w, k)
  BY <1>6, <1>10, <1>11, <1>12 DEF LaidOut
<1> QED BY <1>5, <1>13

(* The stream of the frames that were written.                             *)
LEMMA StreamLayout ==
    ASSUME NEW w \in Seq(Messages)
    PROVE  /\ Stream(w) \in LaidOut(w, Len(w)) /\ End(w, 0) = 0
           /\ \A k \in 0 .. Len(w) : End(w, k) <= End(w, Len(w))
           /\ \A i, j \in 0 .. Len(w) : i < j => End(w, i) < End(w, j)
<1> DEFINE n == Len(w)
           s == [k \in 0 .. n |-> FirstFrames(w, k)]
           after == [k \in 0 .. n |-> LaidOut(w, k)]
<1>1. n \in Nat /\ 0 \in 0 .. n /\ n \in 0 .. n
  OBVIOUS
<1>2. \A k \in 1 .. n : k \in 0 .. n /\ k - 1 \in 0 .. n
  BY <1>1
<1>3. End(w, 0) = 0 /\ Len(<< >>) = 0
  BY FramesFollow DEF End
<1>4. FirstFrames(w, 0) \in LaidOut(w, 0)
  <2>1. << >> \in Seq(Tokens) /\ \A i \in 0 .. 0 : i = 0
    OBVIOUS
  <2>2. BeginsWith(<< >>, << >>)
    BY DEF BeginsWith
  <2> QED BY <1>3, <2>1, <2>2, FramesFollow DEF LaidOut
<1>5. ASSUME NEW k \in 1 .. n, s[k - 1] \in after[k - 1] PROVE s[k] \in after[k]
  <2>1. FirstFrames(w, k - 1) \in LaidOut(w, k - 1)
    BY <1>2, <1>5
  <2>2. FirstFrames(w, k) \in LaidOut(w, k)
    BY <2>1, FrameAdded
  <2> QED BY <1>2, <2>2
<1>6. s[0] \in after[0]
  BY <1>1, <1>4
<1>7. \A k \in 0 .. n : s[k] = FirstFrames(w, k) /\ after[k] = LaidOut(w, k)
  OBVIOUS
<1> HIDE DEF s, after
<1>8. \A k \in 0 .. n : s[k] \in after[k]
  BY <1>1, <1>5, <1>6, LoopKeeps
<1>9. \A k \in 0 .. n : FirstFrames(w, k) \in LaidOut(w, k)
  BY <1>7, <1>8
<1>10. \A j \in 0 .. n : \A i \in 0 .. j : End(w, i) <= End(w, j)
  BY <1>9 DEF LaidOut, BeginsWith, End
<1>11. \A i, j \in 0 .. n : i < j => End(w, i) < End(w, j)
  <2> TAKE i, j \in 0 .. n
  <2> HAVE i < j
  <2>1. i + 1 \in 1 .. j /\ i + 1 \in 0 .. j /\ i + 1 \in 1 .. n /\ (i + 1) - 1 = i
    OBVIOUS
  <2>2. w[i + 1] \in Messages /\ End(w, i) \in Nat /\ End(w, j) \in Nat
    BY <2>1, FramesFollow
  <2>3. Size[w[i + 1]] \in Nat
    BY <2>2, FrameOf
  <2>4. End(w, i + 1) = End(w, i) + 2 + Size[w[i + 1]]
    BY <1>9, <2>1 DEF LaidOut
  <2>5. End(w, i + 1) <= End(w, j)
    BY <1>10, <2>1
  <2> QED BY <2>2, <2>3, <2>4, <2>5
<1>12. \A k \in 0 .. n : End(w, k) <= End(w, n)
  BY <1>1, <1>10
<1> QED BY <1>1, <1>3, <1>9, <1>11, <1>12, FramesFollow

-----------------------------------------------------------------------------
(***************************************************************************)
(* The loop of tryParse().                                                 *)
(***************************************************************************)

Readers == [buffer : Seq(Tokens), state : {"HEADER", "BODY"}, pending : 0 .. MaxBodySize]
Sane(r) == (r.state = "BODY") <=> (r.pending > 0)
Parses == {p \in [reader : Readers, bodies : Seq(Seq(Tokens)), returned : BOOLEAN] : Sane(p.reader)}

(* Nothing more can be taken from the buffer. *)
AtRest(r) ==
    /\ r.state = "HEADER" => \A i \in 1 .. Len(r.buffer) : r.buffer[i] # Separator
    /\ r.state = "BODY" => Len(r.buffer) < r.pending

(* The buffer begins with a header that is accepted, or has to be dropped.  *)
Accepted(b) ==
    /\ Len(b) >= 2 /\ b[1].kind = "header" /\ b[1].len \in 1 .. MaxBodySize
    /\ b[1] # Separator /\ b[2] = Separator
Refused(b) ==
    \/ Len(b) > MaxBufferSize /\ \A i \in 1 .. Len(b) : b[i] # Separator
    \/ (\E i \in 1 .. Len(b) : b[i] = Separator) /\ ~Accepted(b)

(* The first separator of a buffer. *)
LEMMA SeparatorFound ==
    ASSUME NEW b \in Seq(Tokens)
    PROVE  /\ SeparatorPos(b) \in 0 .. Len(b)
           /\ SeparatorPos(b) # 0 =>
                 /\ b[SeparatorPos(b)] = Separator
                 /\ \A i \in 1 .. Len(b) : b[i] = Separator => SeparatorPos(b) <= i
           /\ SeparatorPos(b) = 0 => \A i \in 1 .. Len(b) : b[i] # Separator
<1> DEFINE I == {i \in 1 .. Len(b) : b[i] = Separator}
<1>1. I \in SUBSET Nat /\ Len(b) \in Nat /\ I \subseteq 1 .. Len(b)
  OBVIOUS
<1>2. SeparatorPos(b) = IF I # {} THEN Min(I) ELSE 0
  BY DEF SeparatorPos, SelectInSeq
<1>3. I # {} => Min(I) \in I /\ \A i \in I : Min(I) <= i
  <2> HIDE DEF I
  <2> QED BY <1>1, MinIsLeast
<1>4. CASE I = {}
  BY <1>1, <1>2, <1>4
<1>5. CASE I # {}
  <2>1. SeparatorPos(b) \in I /\ \A i \in I : SeparatorPos(b) <= i
    <3> HIDE DEF I
    <3> QED BY <1>2, <1>3, <1>5
  <2> QED BY <1>1, <2>1
<1> QED BY <1>4, <1>5

(* What is left of a buffer, and what was before. *)
LEMMA Pieces ==
    ASSUME NEW S, NEW b \in Seq(S), NEW n \in 0 .. Len(b)
    PROVE  /\ After(b, n) \in Seq(S) /\ Len(After(b, n)) = Len(b) - n
           /\ \A i \in 1 .. Len(b) - n : After(b, n)[i] = b[n + i]
           /\ SubSeq(b, 1, n) \in Seq(S) /\ Len(SubSeq(b, 1, n)) = n
           /\ \A i \in 1 .. n : SubSeq(b, 1, n)[i] = b[i]
<1>1. Len(b) \in Nat /\ n \in Nat /\ n <= Len(b)
  OBVIOUS
<1>2. \A i \in 1 .. Len(b) : b[i] \in S
  OBVIOUS
<1>3. After(b, n) \in Seq(S) /\ Len(After(b, n)) = Len(b) - n
  BY <1>1, <1>2 DEF After
<1>4. \A i \in 1 .. Len(b) - n : After(b, n)[i] = b[n + i]
  <2>1. \A i \in 1 .. Len(b) - (n + 1) + 1 : SubSeq(b, n + 1, Len(b))[i] = b[(n + 1) + i - 1]
    BY <1>1, <1>2
  <2>2. \A i \in 1 .. Len(b) - n : i \in 1 .. Len(b) - (n + 1) + 1 /\ (n + 1) + i - 1 = n + i
    BY <1>1
  <2> QED BY <2>1, <2>2 DEF After
<1>5. /\ SubSeq(b, 1, n) \in Seq(S) /\ Len(SubSeq(b, 1, n)) = n
      /\ \A i \in 1 .. n : SubSeq(b, 1, n)[i] = b[i]
  BY <1>1, <1>2
<1> QED BY <1>3, <1>4, <1>5

(* A header is accepted when the separator follows it at once.             *)
LEMMA HeaderAccepted ==
    ASSUME NEW b \in Seq(Tokens)
    PROVE  \A pos \in 1 .. Len(b) : pos = SeparatorPos(b) =>
              LET text == Before(b, pos)
              IN  /\ StartsWithHeader(text) /\ IsNumber(text) /\ text[1].len <= MaxBodySize
                       <=> Accepted(b)
                  /\ Accepted(b) => pos = 2 /\ text[1] = b[1]
<1> TAKE pos \in 1 .. Len(b)
<1> DEFINE text == Before(b, pos)
<1>0. SUFFICES ASSUME pos = SeparatorPos(b)
               PROVE  /\ StartsWithHeader(text) /\ IsNumber(text) /\ text[1].len <= MaxBodySize
                           <=> Accepted(b)
                      /\ Accepted(b) => pos = 2 /\ text[1] = b[1]
  OBVIOUS
<1>1. /\ b[pos] = Separator /\ \A i \in 1 .. Len(b) : b[i] = Separator => pos <= i
      /\ Len(b) \in Nat /\ pos - 1 \in 0 .. Len(b)
  BY <1>0, SeparatorFound
<1>2. text \in Seq(Tokens) /\ Len(text) = pos - 1 /\ \A i \in 1 .. pos - 1 : text[i] = b[i]
  <2> DEFINE n == pos - 1
  <2>1. n \in 0 .. Len(b) /\ text = SubSeq(b, 1, n)
    BY <1>1 DEF Before
  <2> HIDE DEF n, text
  <2>2. text \in Seq(Tokens) /\ Len(text) = n /\ \A i \in 1 .. n : text[i] = b[i]
    BY <2>1, Pieces
  <2> QED BY <2>2 DEF n
<1> HIDE DEF text
<1>3. ASSUME StartsWithHeader(text), IsNumber(text), text[1].len <= MaxBodySize
      PROVE  Accepted(b)
  <2>1. Len(text) = 1 /\ text[1].len > 0 /\ text[1].kind = "header"
    BY <1>3 DEF StartsWithHeader, IsNumber
  <2>2. pos = 2 /\ 1 \in 1 .. pos - 1 /\ 2 <= Len(b)
    <3>1. pos - 1 = Len(text) /\ Len(text) = 1
      BY <1>2, <2>1
    <3>2. pos = 2
      BY <3>1
    <3> QED BY <3>2
  <2>3. text[1] = b[1] /\ 1 \in 1 .. Len(b)
    BY <1>2, <2>2
  <2>4. b[1] \in Tokens
    BY <2>3, ElementOfSeq
  <2>5. text[1].len \in Nat
    BY <2>3, <2>4, TokenLengths
  <2>6. text[1].len \in 1 .. MaxBodySize
    BY <1>3, <2>1, <2>5, FramingAssumption
  <2>7. Separator.kind # "header"
    BY DEF Separator
  <2> QED BY <1>1, <2>1, <2>2, <2>3, <2>6, <2>7 DEF Accepted
<1>4. ASSUME Accepted(b)
      PROVE  /\ StartsWithHeader(text) /\ IsNumber(text) /\ text[1].len <= MaxBodySize
             /\ pos = 2 /\ text[1] = b[1]
  <2>1. /\ Len(b) >= 2 /\ b[1].kind = "header" /\ b[1].len \in 1 .. MaxBodySize
        /\ b[1] # Separator /\ b[2] = Separator
    BY <1>4 DEF Accepted
  <2>2. pos <= 2 /\ pos # 1
    <3>1. 2 \in 1 .. Len(b)
      BY <1>1, <2>1
    <3> QED BY <1>1, <2>1, <3>1
  <2>3. pos = 2 /\ 1 \in 1 .. pos - 1
    BY <2>2
  <2>4. text[1] = b[1] /\ Len(text) = 1 /\ text # << >>
    <3>1. Len(text) = pos - 1 /\ pos - 1 = 1
      BY <1>2, <2>3
    <3>2. text[1] = b[1]
      BY <1>2, <2>3
    <3>3. Len(text) = 1
      BY <3>1
    <3>4. text # << >>
      <4> DEFINE none == << >>
      <4>1. Len(none) = 0
        OBVIOUS
      <4> HIDE DEF none
      <4>2. text # none
        BY <3>3, <4>1
      <4> QED BY <4>2 DEF none
    <3> QED BY <3>2, <3>3, <3>4
  <2>5. b[1].len > 0 /\ b[1].len <= MaxBodySize
    BY <2>1, FramingAssumption
  <2> QED BY <2>1, <2>3, <2>4, <2>5 DEF StartsWithHeader, IsNumber
<1> QED BY <1>3, <1>4 DEF text

(* What an iteration may do: return, drop the buffer and return, take the  *)
(* header off or take a body off.                                          *)
Rested(p, n) == n.returned /\ n.reader = p.reader /\ n.bodies = p.bodies /\ AtRest(p.reader)
Dropped(p, n) ==
    /\ n.returned /\ p.reader.state = "HEADER" /\ Refused(p.reader.buffer)
    /\ n.reader = Discard(p.reader) /\ n.bodies = p.bodies
BodyExpected(p, n) ==
    /\ ~n.returned /\ p.reader.state = "HEADER" /\ Accepted(p.reader.buffer)
    /\ n.reader = ExpectBody(p.reader, 2, p.reader.buffer[1].len) /\ n.bodies = p.bodies
BodyTaken(p, n) ==
    /\ ~n.returned /\ p.reader.state = "BODY" /\ Len(p.reader.buffer) >= p.reader.pending
    /\ n.reader = TakeBody(p.reader)
    /\ n.bodies = Append(p.bodies, SubSeq(p.reader.buffer, 1, p.reader.pending))

(* The states of the reader after an iteration are sane. *)
LEMMA ReadersAfter ==
    ASSUME NEW r \in Readers, Sane(r)
    PROVE  /\ r.buffer \in Seq(Tokens) /\ r.state \in {"HEADER", "BODY"} /\ r.pending \in Nat
           /\ LET n == Discard(r)
              IN  n \in Readers /\ Sane(n) /\ n.buffer = << >> /\ n.state = r.state
           /\ Accepted(r.buffer) =>
                LET n == ExpectBody(r, 2, r.buffer[1].len)
                IN  /\ n \in Readers /\ Sane(n) /\ n.buffer = After(r.buffer, 2)
                    /\ n.state = "BODY" /\ n.pending = r.buffer[1].len
           /\ Len(r.buffer) >= r.pending =>
                LET n == TakeBody(r)
                IN  /\ n \in Readers /\ Sane(n) /\ n.buffer = After(r.buffer, r.pending)
                    /\ n.state = "HEADER"
                    /\ SubSeq(r.buffer, 1, r.pending) \in Seq(Tokens)
<1> DEFINE S == Seq(Tokens)
           P == 0 .. MaxBodySize
<1>1. r \in [buffer : S, state : {"HEADER", "BODY"}, pending : P]
  BY DEF Readers
<1>2. << >> \in S /\ 0 \in P /\ P \subseteq Nat /\ 1 .. MaxBodySize \subseteq P \ {0}
  BY FramingAssumption
<1>3. \A n \in P : n > 0 <=> n # 0
  BY FramingAssumption
<1>4. \A n \in Nat : n <= Len(r.buffer) => After(r.buffer, n) \in S /\ SubSeq(r.buffer, 1, n) \in S
  <2> TAKE n \in Nat
  <2> HAVE n <= Len(r.buffer)
  <2>1. r.buffer \in Seq(Tokens)
    BY <1>1
  <2>2. n \in 0 .. Len(r.buffer)
    BY <2>1
  <2> QED BY <2>1, <2>2, Pieces
<1> HIDE DEF S, P
<1>5. r.buffer \in S /\ r.state \in {"HEADER", "BODY"} /\ r.pending \in P
  BY <1>1
<1>6. LET n == Discard(r)
      IN  n \in Readers /\ Sane(n) /\ n.buffer = << >> /\ n.state = r.state
  <2> DEFINE n == Discard(r)
             none == << >>
  <2>1. none \in S
    BY <1>2
  <2> HIDE DEF none
  <2>2. n \in [buffer : S, state : {"HEADER", "BODY"}, pending : P]
    BY <1>1, <2>1 DEF Discard, none
  <2>3. n.buffer = none /\ n.state = r.state /\ n.pending = r.pending
    BY <1>1 DEF Discard, none
  <2> QED BY <2>2, <2>3 DEF Readers, S, P, Sane, none
<1>7. ASSUME Accepted(r.buffer)
      PROVE  LET n == ExpectBody(r, 2, r.buffer[1].len)
             IN  /\ n \in Readers /\ Sane(n) /\ n.buffer = After(r.buffer, 2)
                 /\ n.state = "BODY" /\ n.pending = r.buffer[1].len
  <2> DEFINE rest == After(r.buffer, 2)
             size == r.buffer[1].len
             n == [buffer |-> rest, state |-> "BODY", pending |-> size]
  <2>1. rest \in S /\ size \in P /\ size # 0
    BY <1>2, <1>4, <1>7 DEF Accepted
  <2> HIDE DEF rest, size
  <2>2. /\ n \in [buffer : S, state : {"HEADER", "BODY"}, pending : P]
        /\ n.buffer = rest /\ n.state = "BODY" /\ n.pending = size
    BY <2>1
  <2>3. n = ExpectBody(r, 2, r.buffer[1].len)
    BY DEF ExpectBody, rest, size
  <2> HIDE DEF n
  <2>4. n \in Readers
    BY <2>2 DEF Readers, S, P
  <2>5. Sane(n)
    BY <1>3, <2>1, <2>2 DEF Sane
  <2> QED BY <2>2, <2>3, <2>4, <2>5 DEF rest, size
<1>8. ASSUME Len(r.buffer) >= r.pending
      PROVE  LET n == TakeBody(r)
             IN  /\ n \in Readers /\ Sane(n) /\ n.buffer = After(r.buffer, r.pending)
                 /\ n.state = "HEADER"
                 /\ SubSeq(r.buffer, 1, r.pending) \in Seq(Tokens)
  <2> DEFINE rest == After(r.buffer, r.pending)
             none == 0
             n == [buffer |-> rest, state |-> "HEADER", pending |-> none]
  <2>1. r.pending \in Nat /\ r.pending <= Len(r.buffer)
    <3>1. r.buffer \in Seq(Tokens)
      BY <1>5 DEF S
    <3> QED BY <1>2, <1>5, <1>8, <3>1
  <2>2. rest \in S /\ none \in P /\ SubSeq(r.buffer, 1, r.pending) \in S
    BY <1>2, <1>4, <2>1
  <2>3. ~(none > 0)
    OBVIOUS
  <2> HIDE DEF rest, none
  <2>4. /\ n \in [buffer : S, state : {"HEADER", "BODY"}, pending : P]
        /\ n.buffer = rest /\ n.state = "HEADER" /\ n.pending = none
    BY <2>2
  <2>5. n = TakeBody(r)
    BY DEF TakeBody, rest, none
  <2> HIDE DEF n
  <2>6. n \in Readers /\ Sane(n)
    BY <2>3, <2>4 DEF Readers, S, P, Sane
  <2> QED BY <2>2, <2>4, <2>5, <2>6 DEF rest, S
<1> QED BY <1>2, <1>5, <1>6, <1>7, <1>8 DEF S

(* An iteration does one of these things. *)
LEMMA Iterated ==
    ASSUME NEW p \in Parses, ~p.returned
    PROVE  /\ Iterate(p) \in Parses
           /\ \/ Rested(p, Iterate(p)) \/ Dropped(p, Iterate(p))
              \/ BodyExpected(p, Iterate(p)) \/ BodyTaken(p, Iterate(p))
<1> DEFINE r == p.reader
           B == Seq(Seq(Tokens))
           Sound == [reader : Readers, bodies : B, returned : BOOLEAN]
<1>1. p \in Sound /\ Sane(r) /\ r \in Readers /\ p.bodies \in B
  BY DEF Parses
<1>2. \A n : n \in Parses <=> n \in Sound /\ Sane(n.reader)
  BY DEF Parses
<1>3. r.buffer \in Seq(Tokens) /\ r.state \in {"HEADER", "BODY"} /\ r.pending \in Nat
  BY <1>1, ReadersAfter
<1> HIDE DEF B
<1>4. \A x \in Readers : LET n == Return(p, x)
                         IN  /\ n \in Sound /\ n.returned
                             /\ n.reader = x /\ n.bodies = p.bodies
  BY <1>1 DEF Return
<1>5. CASE r.state = "HEADER"
  <2> DEFINE pos == SeparatorPos(r.buffer)
             text == Before(r.buffer, pos)
  <2>1. Iterate(p) = ParseHeader(p)
    BY <1>5 DEF Iterate
  <2>2. /\ pos \in 0 .. Len(r.buffer)
        /\ pos = 0 => \A i \in 1 .. Len(r.buffer) : r.buffer[i] # Separator
        /\ pos # 0 => r.buffer[pos] = Separator /\ pos \in 1 .. Len(r.buffer)
    BY <1>3, SeparatorFound
  <2>3. CASE pos = 0 /\ ~(Len(r.buffer) > MaxBufferSize)
    <3>1. Iterate(p) = Return(p, r)
      BY <2>1, <2>3 DEF ParseHeader
    <3>2. AtRest(r)
      BY <1>5, <2>2, <2>3 DEF AtRest
    <3> QED BY <1>1, <1>2, <1>4, <3>1, <3>2 DEF Rested
  <2>4. CASE pos = 0 /\ Len(r.buffer) > MaxBufferSize
    <3>1. Iterate(p) = Return(p, Discard(r))
      BY <2>1, <2>4 DEF ParseHeader
    <3>2. Refused(r.buffer)
      BY <2>2, <2>4 DEF Refused
    <3>3. Discard(r) \in Readers /\ Sane(Discard(r))
      BY <1>1, ReadersAfter
    <3> QED BY <1>2, <1>4, <1>5, <3>1, <3>2, <3>3 DEF Dropped
  <2>5. CASE pos # 0 /\ ~Accepted(r.buffer)
    <3>1. ~(StartsWithHeader(text) /\ IsNumber(text) /\ text[1].len <= MaxBodySize)
      BY <1>3, <2>2, <2>5, HeaderAccepted
    <3>2. Iterate(p) = Return(p, Discard(r))
      BY <2>1, <2>5, <3>1 DEF ParseHeader
    <3>3. Refused(r.buffer)
      BY <2>2, <2>5 DEF Refused
    <3>4. Discard(r) \in Readers /\ Sane(Discard(r))
      BY <1>1, ReadersAfter
    <3> QED BY <1>2, <1>4, <1>5, <3>2, <3>3, <3>4 DEF Dropped
  <2>6. CASE pos # 0 /\ Accepted(r.buffer)
    <3> DEFINE x == ExpectBody(r, 2, r.buffer[1].len)
    <3>1. /\ StartsWithHeader(text) /\ IsNumber(text) /\ text[1].len <= MaxBodySize
          /\ pos = 2 /\ text[1] = r.buffer[1]
      BY <1>3, <2>2, <2>6, HeaderAccepted
    <3>2. ParseHeader(p) = [p EXCEPT !.reader = ExpectBody(r, pos, text[1].len)]
      BY <2>6, <3>1 DEF ParseHeader
    <3>3. Iterate(p) = [p EXCEPT !.reader = x]
      BY <2>1, <3>1, <3>2
    <3>4. x \in Readers /\ Sane(x)
      BY <1>1, <2>6, ReadersAfter
    <3> HIDE DEF x
    <3>5. LET n == [p EXCEPT !.reader = x]
          IN  n \in Sound /\ ~n.returned /\ n.reader = x /\ n.bodies = p.bodies
      BY <1>1, <3>4
    <3> QED BY <1>2, <1>5, <2>6, <3>3, <3>4, <3>5 DEF BodyExpected, x
  <2> QED BY <2>3, <2>4, <2>5, <2>6
<1>6. CASE r.state # "HEADER"
  <2>1. Iterate(p) = ParseBody(p) /\ r.state = "BODY"
    BY <1>3, <1>6 DEF Iterate
  <2>2. CASE ~(Len(r.buffer) >= r.pending)
    <3>1. Iterate(p) = Return(p, r)
      BY <2>1, <2>2 DEF ParseBody, HasBody
    <3>2. AtRest(r)
      <4>1. Len(r.buffer) \in Nat
        BY <1>3
      <4> QED BY <1>3, <1>6, <2>2, <4>1 DEF AtRest
    <3> QED BY <1>1, <1>2, <1>4, <3>1, <3>2 DEF Rested
  <2>3. CASE Len(r.buffer) >= r.pending
    <3> DEFINE x == TakeBody(r)
               body == SubSeq(r.buffer, 1, r.pending)
               more == Append(p.bodies, body)
    <3>1. Iterate(p) = [p EXCEPT !.reader = x, !.bodies = more]
      BY <1>1, <2>1, <2>3 DEF ParseBody, HasBody
    <3>2. x \in Readers /\ Sane(x) /\ body \in Seq(Tokens)
      BY <1>1, <2>3, ReadersAfter
    <3>3. more \in B
      <4> HIDE DEF body
      <4> QED BY <1>1, <3>2, AppendProperties DEF B
    <3> HIDE DEF x, more
    <3>4. LET n == [p EXCEPT !.reader = x, !.bodies = more]
          IN  n \in Sound /\ ~n.returned /\ n.reader = x /\ n.bodies = more
      BY <1>1, <3>2, <3>3
    <3> QED BY <1>2, <2>1, <2>3, <3>1, <3>2, <3>4 DEF BodyTaken, x, more
  <2> QED BY <2>2, <2>3
<1> QED BY <1>5, <1>6

-----------------------------------------------------------------------------
(***************************************************************************)
(* What the reader has is a piece of the stream.                           *)
(***************************************************************************)

Fitting(w) == \A i \in DOMAIN w : Size[w[i]] <= MaxBodySize

(* b is what the stream of the messages w has from q on. *)
Piece(w, b, q) ==
    /\ q \in Nat /\ q + Len(b) <= Len(Stream(w))
    /\ \A i \in 1 .. Len(b) : b[i] = Stream(w)[q + i]

(* The bodies are those of some of the first j messages, in their order. *)
Places(w, bodies, j, place) ==
    /\ place \in [1 .. Len(bodies) -> 1 .. j]
    /\ \A i, k \in 1 .. Len(bodies) : i < k => place[i] < place[k]
    /\ \A i \in 1 .. Len(bodies) : bodies[i] = Body(w[place[i]])

(* The reader is at q and past the first j messages.                       *)
Past(w, r, q, j) ==
    /\ j \in 0 .. Len(w) /\ End(w, j) <= q /\ Piece(w, r.buffer, q)
    /\ r.state = "BODY" => j < Len(w) /\ q = End(w, j) + 2 /\ r.pending = Size[w[j + 1]]

(* When nothing is rejected it has emitted all of them and is at their end. *)
AllEmitted(w, r, bodies, q, j, place) ==
    /\ Len(bodies) = j /\ \A i \in 1 .. j : place[i] = i
    /\ r.state = "HEADER" => q = End(w, j)

(* What the reader was fed is the stream up to e. *)
Stands(w, r, bodies, e, q, j, place) ==
    /\ q \in Nat /\ j \in Nat
    /\ q + Len(r.buffer) = e /\ Past(w, r, q, j)
    /\ Places(w, bodies, j, place)
    /\ Fitting(w) => AllEmitted(w, r, bodies, q, j, place)
Holds(w, r, bodies, e) == \E q, j, place : Stands(w, r, bodies, e, q, j, place)

(* The messages and where their frames are. *)
LEMMA FramesIn ==
    ASSUME NEW w \in Seq(Messages)
    PROVE  \A n \in Nat : n = Len(w) =>
             /\ Stream(w) \in Seq(Tokens) /\ Len(Stream(w)) \in Nat
             /\ End(w, n) = Len(Stream(w)) /\ End(w, 0) = 0
             /\ \A k \in 0 .. n : End(w, k) \in Nat /\ End(w, k) <= Len(Stream(w))
             /\ \A i, j \in 0 .. n : i < j => End(w, i) < End(w, j)
             /\ \A k \in 0 .. n : k < n =>
                  /\ w[k + 1] \in Messages /\ Size[w[k + 1]] \in Nat /\ Size[w[k + 1]] > 0
                  /\ End(w, k + 1) = End(w, k) + 2 + Size[w[k + 1]]
                  /\ FrameAt(Stream(w), End(w, k), w[k + 1])
             /\ \A x \in 1 .. Len(Stream(w)) :
                  /\ Stream(w)[x].kind = "header" => \E k \in 0 .. n : k < n /\ x = End(w, k) + 1
                  /\ Stream(w)[x] = Separator => \E k \in 0 .. n : k < n /\ x = End(w, k) + 2
<1> TAKE n \in Nat
<1>0. SUFFICES ASSUME n = Len(w)
      PROVE  /\ Stream(w) \in Seq(Tokens) /\ Len(Stream(w)) \in Nat
             /\ End(w, n) = Len(Stream(w)) /\ End(w, 0) = 0
             /\ \A k \in 0 .. n : End(w, k) \in Nat /\ End(w, k) <= Len(Stream(w))
             /\ \A i, j \in 0 .. n : i < j => End(w, i) < End(w, j)
             /\ \A k \in 0 .. n : k < n =>
                  /\ w[k + 1] \in Messages /\ Size[w[k + 1]] \in Nat /\ Size[w[k + 1]] > 0
                  /\ End(w, k + 1) = End(w, k) + 2 + Size[w[k + 1]]
                  /\ FrameAt(Stream(w), End(w, k), w[k + 1])
             /\ \A x \in 1 .. Len(Stream(w)) :
                  /\ Stream(w)[x].kind = "header" => \E k \in 0 .. n : k < n /\ x = End(w, k) + 1
                  /\ Stream(w)[x] = Separator => \E k \in 0 .. n : k < n /\ x = End(w, k) + 2
  OBVIOUS
<1>1. /\ \A k \in 0 .. n : k < n => k + 1 \in 1 .. n /\ (k + 1) - 1 = k
      /\ \A k \in 1 .. n : k - 1 \in 0 .. n /\ k - 1 < n
  OBVIOUS
<1>2. Stream(w) \in LaidOut(w, n) /\ Stream(w) \in Seq(Tokens)
  BY <1>0, StreamLayout, StreamOf
<1>3. /\ \A k \in 0 .. n : End(w, k) <= End(w, n) /\ End(w, k) \in Nat
      /\ \A i, j \in 0 .. n : i < j => End(w, i) < End(w, j)
      /\ End(w, 0) = 0
      /\ \A k \in 1 .. n : w[k] \in Messages
  BY <1>0, StreamLayout, FramesFollow
<1>4. Len(Stream(w)) = End(w, n)
  BY <1>2 DEF LaidOut
<1>5. \A k \in 1 .. n : End(w, k) = End(w, k - 1) + 2 + Size[w[k]]
                        /\ FrameAt(Stream(w), End(w, k - 1), w[k])
  BY <1>2 DEF LaidOut
<1>6. ASSUME NEW k \in 0 .. n, k < n
      PROVE  /\ w[k + 1] \in Messages /\ Size[w[k + 1]] \in Nat /\ Size[w[k + 1]] > 0
             /\ End(w, k + 1) = End(w, k) + 2 + Size[w[k + 1]]
             /\ FrameAt(Stream(w), End(w, k), w[k + 1])
  <2>1. k + 1 \in 1 .. n /\ (k + 1) - 1 = k
    BY <1>1, <1>6
  <2>2. w[k + 1] \in Messages
    BY <1>3, <2>1
  <2>3. Size[w[k + 1]] \in Nat /\ Size[w[k + 1]] > 0
    BY <2>2, FrameOf
  <2> QED BY <1>5, <2>1, <2>2, <2>3
<1>7. ASSUME NEW x \in 1 .. Len(Stream(w))
      PROVE  /\ Stream(w)[x].kind = "header" => \E k \in 0 .. n : k < n /\ x = End(w, k) + 1
             /\ Stream(w)[x] = Separator => \E k \in 0 .. n : k < n /\ x = End(w, k) + 2
  <2>1. /\ Stream(w)[x].kind = "header" => \E i \in 1 .. n : x = End(w, i - 1) + 1
        /\ Stream(w)[x] = Separator => \E i \in 1 .. n : x = End(w, i - 1) + 2
    BY <1>2 DEF LaidOut
  <2> QED BY <1>1, <2>1
<1>8. Len(Stream(w)) \in Nat
  BY <1>2
<1> QED BY <1>2, <1>3, <1>4, <1>6, <1>7, <1>8

(* At the beginning of a frame that fits nothing is refused.               *)
LEMMA NotRefused ==
    ASSUME NEW w \in Seq(Messages), Fitting(w), NEW j \in 0 .. Len(w),
           NEW b \in Seq(Tokens), Piece(w, b, End(w, j))
    PROVE  ~Refused(b)
<1>1. PICK n \in Nat : n = Len(w)
  OBVIOUS
<1>2. PICK start \in Nat : start = End(w, j)
  BY FramesFollow
<1>3. PICK l \in Nat : l = Len(b)
  OBVIOUS
<1>4. PICK str \in Seq(Tokens) : str = Stream(w)
  BY StreamOf
<1>5. start + l <= Len(str) /\ \A i \in 1 .. l : b[i] = str[start + i]
  BY <1>2, <1>3, <1>4 DEF Piece
<1>6. MaxBufferSize \in Nat /\ MaxBufferSize >= 1
  BY FramingAssumption
<1>7. CASE l = 0
  BY <1>3, <1>6, <1>7 DEF Refused
<1>8. CASE l # 0
  <2>1. j < n
    <3>1. CASE j = n
      <4>1. start = Len(str)
        BY <1>1, <1>2, <1>4, <3>1, FramesIn
      <4> QED BY <1>5, <1>8, <4>1
    <3> QED BY <1>1, <3>1
  <2>2. PICK m \in Messages : m = w[j + 1] /\ FrameAt(str, start, m)
    BY <1>1, <1>2, <1>4, <2>1, FramesIn
  <2>3. PICK size \in Nat : size = Size[m] /\ size > 0
    BY FrameOf
  <2>4. size \in 1 .. MaxBodySize
    <3>1. j + 1 \in DOMAIN w
      BY <1>1, <2>1
    <3>2. Size[w[j + 1]] <= MaxBodySize
      BY <3>1 DEF Fitting
    <3>3. size <= MaxBodySize /\ MaxBodySize \in Nat
      BY <2>2, <2>3, <3>2, FramingAssumption
    <3> QED BY <2>3, <3>3
  <2>5. 1 \in 1 .. l
    BY <1>8
  <2>6. b[1] = Header(size)
    BY <1>5, <2>2, <2>3, <2>5 DEF FrameAt
  <2>7. b[1].kind = "header" /\ b[1].len = size /\ b[1] # Separator
    <3>1. Header(size).kind = "header" /\ Header(size).len = size /\ Separator.kind = "separator"
      BY DEF Header, Separator
    <3> QED BY <2>6, <3>1
  <2>8. CASE l = 1
    <3>1. \A i \in 1 .. l : b[i] # Separator
      BY <2>7, <2>8
    <3>2. ~(l > MaxBufferSize)
      BY <1>6, <2>8
    <3> QED BY <1>3, <3>1, <3>2 DEF Refused
  <2>9. CASE l >= 2
    <3>1. 2 \in 1 .. l
      BY <2>9
    <3>2. b[2] = Separator
      BY <1>5, <2>2, <3>1 DEF FrameAt
    <3>3. Accepted(b)
      BY <1>3, <2>4, <2>7, <2>9, <3>2 DEF Accepted
    <3> QED BY <1>3, <3>1, <3>2, <3>3 DEF Refused
  <2> QED BY <1>8, <2>8, <2>9
<1> QED BY <1>7, <1>8

(* A buffer that is dropped. *)
LEMMA DropHolds ==
    ASSUME NEW w \in Seq(Messages), NEW r \in Readers, Sane(r), NEW bodies, NEW e \in Nat,
           Holds(w, r, bodies, e), r.state = "HEADER", Refused(r.buffer)
    PROVE  Holds(w, Discard(r), bodies, e)
<1>0. PICK q \in Nat, j \in Nat : \E place : Stands(w, r, bodies, e, q, j, place)
  BY DEF Holds, Stands
<1>1. PICK place : Stands(w, r, bodies, e, q, j, place)
  BY <1>0
<1>11. /\ q \in Nat /\ j \in Nat /\ q + Len(r.buffer) = e /\ Past(w, r, q, j)
       /\ Places(w, bodies, j, place)
       /\ Fitting(w) => AllEmitted(w, r, bodies, q, j, place)
  BY <1>1 DEF Stands
<1>2. PICK l \in Nat : l = Len(r.buffer)
  BY ReadersAfter
<1>3. ~Fitting(w)
  <2> SUFFICES ASSUME Fitting(w) PROVE FALSE
    OBVIOUS
  <2>1. q = End(w, j)
    BY <1>11 DEF AllEmitted
  <2>2. Piece(w, r.buffer, End(w, j)) /\ j \in 0 .. Len(w)
    BY <1>11, <2>1 DEF Past
  <2>3. r.buffer \in Seq(Tokens)
    BY ReadersAfter
  <2> QED BY <2>2, <2>3, NotRefused
<1> DEFINE d == Discard(r)
           none == d.buffer
<1>4. d.state = "HEADER" /\ none = << >>
  BY ReadersAfter
<1>5. Len(none) = 0 /\ \A i \in 1 .. 0 : FALSE
  BY <1>4
<1> HIDE DEF d, none
<1>6. /\ j \in 0 .. Len(w) /\ q \in Nat /\ End(w, j) <= q
      /\ e <= Len(Stream(w)) /\ q + l = e
  BY <1>11, <1>2 DEF Past, Piece
<1>7. Piece(w, none, e)
  <2>1. e + Len(none) <= Len(Stream(w))
    BY <1>5, <1>6
  <2> QED BY <1>5, <2>1 DEF Piece
<1>8. End(w, j) <= e
  <2>1. End(w, j) \in Nat
    BY <1>6, FramesFollow
  <2> QED BY <1>6, <2>1
<1>9. Past(w, d, e, j)
  BY <1>4, <1>6, <1>7, <1>8 DEF Past, none
<1>10. e + Len(d.buffer) = e
  BY <1>5 DEF none
<1>12. Stands(w, d, bodies, e, e, j, place)
  BY <1>3, <1>9, <1>10, <1>11 DEF Stands
<1> QED BY <1>12 DEF Holds, d

(* A header that is taken off. *)
LEMMA ExpectHolds ==
    ASSUME NEW w \in Seq(Messages), NEW r \in Readers, Sane(r), NEW bodies \in Seq(Seq(Tokens)),
           NEW e \in Nat, Holds(w, r, bodies, e), r.state = "HEADER", Accepted(r.buffer)
    PROVE  Holds(w, ExpectBody(r, 2, r.buffer[1].len), bodies, e)
<1>0. PICK q \in Nat, j \in Nat : \E place : Stands(w, r, bodies, e, q, j, place)
  BY DEF Holds, Stands
<1>1. PICK place : Stands(w, r, bodies, e, q, j, place)
  BY <1>0
<1>2. /\ q \in Nat /\ j \in Nat /\ q + Len(r.buffer) = e /\ Past(w, r, q, j)
      /\ Places(w, bodies, j, place)
      /\ Fitting(w) => AllEmitted(w, r, bodies, q, j, place)
  BY <1>1 DEF Stands
<1>3. PICK n \in Nat : n = Len(w)
  OBVIOUS
<1>4. PICK b \in Seq(Tokens), str \in Seq(Tokens) : b = r.buffer /\ str = Stream(w)
  BY StreamOf, ReadersAfter
<1>5. PICK l \in Nat, all \in Nat : l = Len(b) /\ all = Len(str)
  BY <1>4
<1>6. l >= 2 /\ b[1].kind = "header" /\ b[1].len \in 1 .. MaxBodySize
  BY <1>4, <1>5 DEF Accepted
<1>7. /\ j \in 0 .. n /\ End(w, j) <= q /\ q + l = e /\ q + l <= all
      /\ \A i \in 1 .. l : b[i] = str[q + i]
  BY <1>2, <1>3, <1>4, <1>5 DEF Past, Piece
<1>8. PICK k \in 0 .. n : k < n /\ q + 1 = End(w, k) + 1
  <2>1. 1 \in 1 .. l /\ q + 1 \in 1 .. all
    <3>1. q + l <= all
      BY <1>7
    <3>2. l >= 2
      BY <1>6
    <3> QED BY <3>1, <3>2
  <2>2. str[q + 1].kind = "header"
    BY <1>6, <1>7, <2>1
  <2> QED BY <1>3, <1>4, <1>5, <2>1, <2>2, FramesIn
<1>9. q = End(w, k) /\ k \in Nat /\ j <= k /\ (k = j \/ q # End(w, j))
  <2>1. PICK c \in Nat, d \in Nat : c = End(w, k) /\ d = End(w, j)
    BY <1>3, <1>7, FramesIn
  <2>2. q = c /\ d <= q
    <3>1. q + 1 = c + 1
      BY <1>8, <2>1
    <3>2. d <= q
      BY <1>7, <2>1
    <3> QED BY <3>1, <3>2
  <2>3. (k < j => c < d) /\ (j < k => d < c)
    BY <1>3, <1>7, <2>1, FramesIn
  <2>4. k \in Nat
    OBVIOUS
  <2>5. j <= k /\ (k = j \/ q # d)
    BY <2>2, <2>3, <2>4
  <2> QED BY <2>1, <2>2, <2>4, <2>5
<1>10. PICK size \in Nat : size = Size[w[k + 1]] /\ b[1].len = size
  <2>1. w[k + 1] \in Messages /\ FrameAt(str, q, w[k + 1])
    BY <1>3, <1>4, <1>8, <1>9, FramesIn
  <2>2. PICK s \in Nat : s = Size[w[k + 1]]
    BY <2>1, FrameOf
  <2>3. 1 \in 1 .. l
    BY <1>6
  <2>4. b[1] = Header(s)
    BY <1>7, <2>1, <2>2, <2>3 DEF FrameAt
  <2>5. b[1].len = s
    BY <2>4 DEF Header
  <2> QED BY <2>2, <2>5
<1> DEFINE x == ExpectBody(r, 2, r.buffer[1].len)
           rest == x.buffer
<1>11. x.state = "BODY" /\ x.pending = size /\ rest = After(b, 2)
  BY <1>4, <1>10, ReadersAfter
<1> HIDE DEF x, rest
<1>12. Len(rest) = l - 2 /\ \A i \in 1 .. l - 2 : rest[i] = b[2 + i]
  <2> DEFINE two == 2
  <2>1. two \in 0 .. Len(b)
    BY <1>5, <1>6
  <2>2. b \in Seq(Tokens) /\ l = Len(b) /\ rest = After(b, two)
    BY <1>5, <1>11
  <2> HIDE DEF two
  <2>3. Len(After(b, two)) = Len(b) - two /\ \A i \in 1 .. Len(b) - two : After(b, two)[i] = b[two + i]
    BY ONLY <2>1, <2>2, Pieces
  <2>4. Len(rest) = l - two /\ \A i \in 1 .. l - two : rest[i] = b[two + i]
    BY ONLY <2>2, <2>3
  <2> QED BY ONLY <2>4 DEF two
<1>13. PICK p \in Nat : p = q + 2
  BY <1>2
<1>14. Piece(w, rest, p) /\ p + Len(rest) = e
  <2>1. p + Len(rest) = e /\ p + Len(rest) <= all
    BY <1>2, <1>7, <1>12, <1>13
  <2>2. ASSUME NEW i \in 1 .. l - 2 PROVE rest[i] = str[p + i]
    <3>1. 2 + i \in 1 .. l /\ q + (2 + i) = p + i
      BY <1>13
    <3>2. rest[i] = b[2 + i]
      BY <1>12
    <3> QED BY <1>7, <3>1, <3>2
  <2> QED BY <1>4, <1>5, <1>12, <2>1, <2>2 DEF Piece
<1>15. Past(w, x, p, k)
  <2>1. End(w, k) <= p /\ p = End(w, k) + 2
    BY <1>2, <1>9, <1>13
  <2> QED BY <1>3, <1>8, <1>10, <1>11, <1>14, <2>1 DEF Past, rest
<1>16. Places(w, bodies, k, place)
  <2>1. 1 .. j \subseteq 1 .. k
    BY <1>2, <1>9
  <2> QED BY <1>2, <2>1 DEF Places
<1>17. Fitting(w) => AllEmitted(w, x, bodies, p, k, place)
  <2> SUFFICES ASSUME Fitting(w) PROVE AllEmitted(w, x, bodies, p, k, place)
    OBVIOUS
  <2>1. /\ Len(bodies) = j /\ \A i \in 1 .. j : place[i] = i
        /\ q = End(w, j)
    BY <1>2 DEF AllEmitted
  <2>2. k = j
    BY <1>9, <2>1
  <2> QED BY <1>11, <2>1, <2>2 DEF AllEmitted
<1>18. Stands(w, x, bodies, e, p, k, place)
  BY <1>9, <1>14, <1>15, <1>16, <1>17 DEF Stands, rest
<1> QED BY <1>18 DEF Holds, x

(* A body that is emitted. *)
LEMMA TakeHolds ==
    ASSUME NEW w \in Seq(Messages), NEW r \in Readers, Sane(r), NEW bodies \in Seq(Seq(Tokens)),
           NEW e \in Nat, Holds(w, r, bodies, e), r.state = "BODY", Len(r.buffer) >= r.pending
    PROVE  Holds(w, TakeBody(r), Append(bodies, SubSeq(r.buffer, 1, r.pending)), e)
<1>0. PICK q \in Nat, j \in Nat : \E place : Stands(w, r, bodies, e, q, j, place)
  BY DEF Holds, Stands
<1>1. PICK place : Stands(w, r, bodies, e, q, j, place)
  BY <1>0
<1>2. /\ q + Len(r.buffer) = e /\ Past(w, r, q, j)
      /\ Places(w, bodies, j, place)
      /\ Fitting(w) => AllEmitted(w, r, bodies, q, j, place)
  BY <1>1 DEF Stands
<1>3. PICK n \in Nat, c \in Nat : n = Len(w) /\ c = Len(bodies)
  OBVIOUS
<1>4. PICK b \in Seq(Tokens), str \in Seq(Tokens) : b = r.buffer /\ str = Stream(w)
  BY StreamOf, ReadersAfter
<1>5. PICK l \in Nat, all \in Nat : l = Len(b) /\ all = Len(str)
  BY <1>4
<1>22. q = End(w, j) + 2 /\ r.pending = Size[w[j + 1]]
  BY <1>2 DEF Past
<1>6. /\ j < n /\ q + l = e /\ q + l <= all
      /\ \A i \in 1 .. l : b[i] = str[q + i]
  BY <1>2, <1>3, <1>4, <1>5 DEF Past, Piece
<1>7. j \in 0 .. n /\ j + 1 \in 0 .. n /\ j + 1 \in Nat
  BY <1>6
<1>8. PICK d \in Nat : d = End(w, j)
  BY <1>3, <1>7, FramesIn
<1>9. PICK m \in Messages : m = w[j + 1] /\ FrameAt(str, d, m) /\ End(w, j + 1) = d + 2 + Size[m]
  BY <1>3, <1>4, <1>6, <1>7, <1>8, FramesIn
<1>10. PICK size \in Nat : size = Size[m]
  BY FrameOf
<1>11. q = d + 2 /\ r.pending = size /\ size <= l
  <2>1. q = d + 2 /\ r.pending = size
    BY <1>8, <1>9, <1>10, <1>22
  <2>2. l >= size
    BY <1>4, <1>5, <2>1
  <2> QED BY <2>1, <2>2
<1> DEFINE body == SubSeq(r.buffer, 1, r.pending)
           x == TakeBody(r)
           rest == x.buffer
           more == Append(bodies, body)
           end == q + size
           put == [i \in 1 .. c + 1 |-> IF i <= c THEN place[i] ELSE j + 1]
<1>12. x.state = "HEADER" /\ rest = After(b, size) /\ body = SubSeq(b, 1, size)
  BY <1>4, <1>11, ReadersAfter
<1>13. /\ Len(rest) = l - size /\ \A i \in 1 .. l - size : rest[i] = b[size + i]
       /\ body \in Seq(Tokens) /\ Len(body) = size /\ \A i \in 1 .. size : body[i] = b[i]
  <2> HIDE DEF body, x, rest
  <2>1. size \in 0 .. Len(b)
    BY <1>5, <1>11
  <2> QED BY <1>5, <1>12, <2>1, Pieces
<1> HIDE DEF body, x, rest
<1>14. body = Body(m)
  <2>1. Body(m) \in Seq(Tokens) /\ Len(Body(m)) = size
    BY <1>10, FrameOf
  <2>2. ASSUME NEW i \in 1 .. size PROVE body[i] = Body(m)[i]
    <3>1. i \in 1 .. l /\ q + i = d + 2 + i
      BY <1>11
    <3>2. body[i] = str[q + i]
      BY <1>6, <1>13, <3>1
    <3> QED BY <1>9, <1>10, <3>1, <3>2 DEF FrameAt
  <2> QED BY <1>13, <2>1, <2>2, SeqEqual
<1>15. end \in Nat /\ end = d + 2 + size
  BY <1>11
<1>16. Piece(w, rest, end) /\ end + Len(rest) = e
  <2>1. end + Len(rest) = e /\ end + Len(rest) <= all
    <3>1. q + l = e /\ q + l <= all
      BY <1>6
    <3>2. Len(rest) = l - size
      BY <1>13
    <3> QED BY <1>11, <3>1, <3>2
  <2>2. ASSUME NEW i \in 1 .. l - size PROVE rest[i] = str[end + i]
    <3>1. size + i \in 1 .. l /\ q + (size + i) = end + i
      BY <1>11
    <3> QED BY <1>6, <1>13, <3>1
  <2> QED BY <1>4, <1>5, <1>13, <1>15, <2>1, <2>2 DEF Piece
<1> HIDE DEF end
<1>17. Past(w, x, end, j + 1)
  <2>1. End(w, j + 1) = end
    BY <1>9, <1>10, <1>15
  <2> QED BY <1>3, <1>7, <1>12, <1>15, <1>16, <2>1 DEF Past, rest
<1>18. Len(more) = c + 1 /\ more[c + 1] = body /\ \A i \in 1 .. c : more[i] = bodies[i]
  BY <1>3, <1>13
<1> HIDE DEF more
<1>19. Places(w, more, j + 1, put)
  <2>1. /\ place \in [1 .. c -> 1 .. j]
        /\ \A i, k \in 1 .. c : i < k => place[i] < place[k]
        /\ \A i \in 1 .. c : bodies[i] = Body(w[place[i]])
    BY <1>2, <1>3 DEF Places
  <2>2. /\ \A i \in 1 .. c : put[i] = place[i] /\ place[i] \in 1 .. j
        /\ put[c + 1] = j + 1 /\ \A i \in 1 .. c + 1 : i \in 1 .. c \/ i = c + 1
    BY <2>1
  <2>3. put \in [1 .. c + 1 -> 1 .. j + 1]
    BY <2>1
  <2> HIDE DEF put
  <2>4. ASSUME NEW i \in 1 .. c + 1, NEW k \in 1 .. c + 1, i < k PROVE put[i] < put[k]
    <3>1. i \in 1 .. c /\ (k \in 1 .. c \/ k = c + 1)
      BY <2>4
    <3>2. put[i] = place[i] /\ place[i] \in 1 .. j
      BY <2>2, <3>1
    <3>3. CASE k \in 1 .. c
      <4>1. place[i] < place[k] /\ put[k] = place[k]
        BY <2>1, <2>2, <2>4, <3>1, <3>3
      <4> QED BY <3>2, <4>1
    <3>4. CASE k = c + 1
      <4>1. put[k] = j + 1
        BY <2>2, <3>4
      <4> QED BY <3>2, <4>1
    <3> QED BY <3>1, <3>3, <3>4
  <2>5. \A i \in 1 .. c + 1 : more[i] = Body(w[put[i]])
    BY <1>9, <1>14, <1>18, <2>1, <2>2
  <2> QED BY <1>18, <2>3, <2>4, <2>5 DEF Places
<1>20. Fitting(w) => AllEmitted(w, x, more, end, j + 1, put)
  <2> SUFFICES ASSUME Fitting(w) PROVE AllEmitted(w, x, more, end, j + 1, put)
    OBVIOUS
  <2>1. c = j /\ \A i \in 1 .. j : place[i] = i
    BY <1>2, <1>3 DEF AllEmitted
  <2>2. \A i \in 1 .. j + 1 : put[i] = i
    BY <2>1
  <2>3. end = End(w, j + 1)
    BY <1>9, <1>10, <1>15
  <2> QED BY <1>18, <2>1, <2>2, <2>3 DEF AllEmitted
<1> HIDE DEF put
<1>21. Stands(w, x, more, e, end, j + 1, put)
  BY <1>7, <1>15, <1>16, <1>17, <1>19, <1>20 DEF Stands, rest
<1> QED BY <1>21 DEF Holds, x, more, body

(* Appending to the second of two lists. *)
LEMMA AppendBehind ==
    \A s, t \in Seq(Seq(Tokens)) : \A x \in Seq(Tokens) : Append(s \o t, x) = s \o Append(t, x)
<1> DEFINE S == Seq(Tokens)
<1> HIDE DEF S
<1> SUFFICES ASSUME NEW s \in Seq(S), NEW t \in Seq(S), NEW x \in S
             PROVE  Append(s \o t, x) = s \o Append(t, x)
  BY DEF S
<1>1. PICK one \in Seq(S) : one = <<x>>
  <2>1. <<x>> \in Seq(S)
    OBVIOUS
  <2> QED BY <2>1
<1>2. s \o t \in Seq(S)
  BY ConcatProperties
<1>3. Append(s \o t, x) = (s \o t) \o one /\ Append(t, x) = t \o one
  BY <1>1, <1>2, AppendIsConcat
<1>4. (s \o t) \o one = s \o (t \o one)
  BY ConcatAssociative
<1> QED BY <1>3, <1>4

(* An iteration keeps what is known of the bodies emitted so far, the ones *)
(* of earlier calls before them.                                           *)
LEMMA IterateHolds ==
    ASSUME NEW w \in Seq(Messages), NEW before \in Seq(Seq(Tokens)), NEW e \in Nat,
           NEW p \in Parses, ~p.returned, Holds(w, p.reader, before \o p.bodies, e)
    PROVE  Holds(w, Iterate(p).reader, before \o Iterate(p).bodies, e)
<1> DEFINE B == Seq(Tokens)
           n == Iterate(p)
           bodies == before \o p.bodies
<1>1. p.reader \in Readers /\ Sane(p.reader) /\ p.bodies \in Seq(B)
  BY DEF Parses
<1> HIDE DEF B
<1>2. before \in Seq(B) /\ bodies \in Seq(B)
  BY <1>1, ConcatProperties DEF B
<1> HIDE DEF n, bodies
<1>3. Rested(p, n) \/ Dropped(p, n) \/ BodyExpected(p, n) \/ BodyTaken(p, n)
  BY Iterated DEF n
<1>4. CASE Rested(p, n)
  BY <1>4 DEF Rested, n
<1>5. CASE Dropped(p, n)
  <2>1. Holds(w, Discard(p.reader), bodies, e)
    BY <1>1, <1>5, DropHolds DEF Dropped, bodies
  <2> QED BY <1>5, <2>1 DEF Dropped, n, bodies
<1>6. CASE BodyExpected(p, n)
  <2>1. Holds(w, ExpectBody(p.reader, 2, p.reader.buffer[1].len), bodies, e)
    BY <1>1, <1>2, <1>6, ExpectHolds DEF BodyExpected, bodies, B
  <2> QED BY <1>6, <2>1 DEF BodyExpected, n, bodies
<1>7. CASE BodyTaken(p, n)
  <2> DEFINE body == SubSeq(p.reader.buffer, 1, p.reader.pending)
  <2>1. Holds(w, TakeBody(p.reader), Append(bodies, body), e)
    BY <1>1, <1>2, <1>7, TakeHolds DEF BodyTaken, bodies, B
  <2>2. body \in B
    BY <1>1, <1>7, ReadersAfter DEF BodyTaken, B
  <2> HIDE DEF body
  <2>3. Append(bodies, body) = before \o Append(p.bodies, body)
    BY <1>1, <1>2, <2>2, AppendBehind DEF bodies, B
  <2> QED BY <1>7, <2>1, <2>3 DEF BodyTaken, n, body
<1> QED BY <1>3, <1>4, <1>5, <1>6, <1>7

(* An iteration that does not return makes the buffer shorter.             *)
LEMMA Shorter ==
    ASSUME NEW p \in Parses, ~p.returned
    PROVE  LET n == Iterate(p)
           IN  /\ n.returned => AtRest(n.reader)
               /\ ~n.returned => Len(n.reader.buffer) < Len(p.reader.buffer)
<1> DEFINE n == Iterate(p)
           r == p.reader
<1>1. r \in Readers /\ Sane(r)
  BY DEF Parses
<1>2. PICK b \in Seq(Tokens) : b = r.buffer
  BY <1>1, ReadersAfter
<1>3. PICK l \in Nat : l = Len(b)
  OBVIOUS
<1> HIDE DEF n, r
<1>4. Rested(p, n) \/ Dropped(p, n) \/ BodyExpected(p, n) \/ BodyTaken(p, n)
  BY Iterated DEF n
<1>5. CASE Rested(p, n)
  BY <1>5 DEF Rested, n
<1>6. CASE Dropped(p, n)
  <2>1. n.returned /\ n.reader = Discard(r) /\ r.state = "HEADER"
    BY <1>6 DEF Dropped, r
  <2>2. n.reader.state = "HEADER" /\ n.reader.buffer = << >>
    BY <1>1, <2>1, ReadersAfter
  <2>3. Len(n.reader.buffer) = 0
    BY <2>2
  <2>4. \A i \in 1 .. Len(n.reader.buffer) : FALSE
    BY <2>3
  <2> QED BY <2>1, <2>2, <2>4 DEF AtRest, n
<1>7. CASE BodyExpected(p, n)
  <2>1. ~n.returned /\ n.reader = ExpectBody(r, 2, r.buffer[1].len) /\ Accepted(r.buffer)
    BY <1>7 DEF BodyExpected, r
  <2>2. n.reader.buffer = After(b, 2)
    BY <1>1, <1>2, <2>1, ReadersAfter
  <2>3. 2 \in 0 .. Len(b) /\ l >= 2
    BY <1>2, <1>3, <2>1 DEF Accepted
  <2>4. Len(n.reader.buffer) = l - 2
    BY <1>3, <2>2, <2>3, Pieces
  <2>5. Len(n.reader.buffer) < l
    BY <2>3, <2>4
  <2> QED BY <1>2, <1>3, <2>1, <2>5 DEF n, r
<1>8. CASE BodyTaken(p, n)
  <2>1. ~n.returned /\ n.reader = TakeBody(r) /\ r.state = "BODY" /\ Len(r.buffer) >= r.pending
    BY <1>8 DEF BodyTaken, r
  <2>2. PICK size \in Nat : size = r.pending
    BY <1>1, ReadersAfter
  <2>3. size > 0 /\ size <= l
    <3>1. size > 0
      BY <1>1, <2>1, <2>2 DEF Sane
    <3>2. l >= size
      BY <1>2, <1>3, <2>1, <2>2
    <3> QED BY <3>1, <3>2
  <2>4. n.reader.buffer = After(b, size)
    BY <1>1, <1>2, <2>1, <2>2, ReadersAfter
  <2>5. Len(n.reader.buffer) = l - size
    <3>1. size \in 0 .. Len(b)
      BY <1>3, <2>3
    <3> QED BY <1>3, <2>4, <3>1, Pieces
  <2>6. Len(n.reader.buffer) < l
    BY <2>3, <2>5
  <2> QED BY <1>2, <1>3, <2>1, <2>6 DEF n, r
<1> QED BY <1>4, <1>5, <1>6, <1>7, <1>8

(* The loop of tryParse(), one iteration after the other.                  *)
LEMMA Iterations ==
    ASSUME NEW r \in Readers, Sane(r)
    PROVE  \A n \in Nat : n = Len(r.buffer) + 1 =>
             \E all : /\ TryParse(r) = all[n] /\ all[0] = Parse(r) /\ Parse(r) \in Parses
                      /\ \A k \in 1 .. n : all[k] = Iterate(all[k - 1])
<1> TAKE n \in Nat
<1>0. SUFFICES ASSUME n = Len(r.buffer) + 1
               PROVE  \E all : /\ TryParse(r) = all[n] /\ all[0] = Parse(r) /\ Parse(r) \in Parses
                               /\ \A k \in 1 .. n : all[k] = Iterate(all[k - 1])
  OBVIOUS
<1>2. 0 \in 0 .. n /\ n \in 0 .. n /\ \A k \in 1 .. n : k \in 0 .. n /\ k - 1 \in 0 .. n /\ k # 0
  OBVIOUS
<1> DEFINE turn == [pk \in Parses \X (1 .. n) |-> Iterate(pk[1])]
           first == Parse(r)
<1>3. first \in Parses /\ ~first.returned /\ first.reader = r /\ first.bodies = << >>
  <2> DEFINE none == << >>
             B == Seq(Seq(Tokens))
  <2>1. none \in B
    OBVIOUS
  <2> HIDE DEF none, B
  <2>2. first \in [reader : Readers, bodies : B, returned : BOOLEAN]
        /\ ~first.returned /\ first.reader = r /\ first.bodies = none
    BY <2>1 DEF Parse, none
  <2> QED BY <2>2 DEF Parses, B, none
<1>4. \A p \in Parses : Iterate(p) \in Parses /\ (p.returned => Iterate(p) = p)
  BY Iterated DEF Iterate
<1>5. turn \in Turns(Parses, n) /\ \A p \in Parses : \A k \in 1 .. n : turn[<<p, k>>] = Iterate(p)
  BY <1>4 DEF Turns
<1> HIDE DEF turn, first
<1>6. PICK g \in [0 .. n -> Parses] : g[0] = first /\ \A k \in 1 .. n : g[k] = turn[<<g[k - 1], k>>]
  <2>1. first \in Parses /\ turn \in Turns(Parses, n)
    BY <1>3, <1>5
  <2> QED BY <2>1, LoopExists
<1> DEFINE all == CHOOSE f : f = [k \in 0 .. n |-> IF k = 0 THEN Parse(r) ELSE Iterate(f[k - 1])]
<1>7. all = [k \in 0 .. n |-> IF k = 0 THEN Parse(r) ELSE Iterate(all[k - 1])]
  <2>1. \A k \in 0 .. n : g[k] = IF k = 0 THEN Parse(r) ELSE Iterate(g[k - 1])
    <3> TAKE k \in 0 .. n
    <3>1. k = 0 \/ (k \in 1 .. n /\ k - 1 \in 0 .. n /\ k # 0)
      OBVIOUS
    <3> QED BY <1>5, <1>6, <3>1 DEF first
  <2>2. g = [k \in 0 .. n |-> IF k = 0 THEN Parse(r) ELSE Iterate(g[k - 1])]
    BY <1>6, <2>1
  <2> QED BY <2>2
<1>8. TryParse(r) = all[n]
  BY <1>0 DEF TryParse
<1> HIDE DEF all
<1>9. all[0] = first /\ \A k \in 1 .. n : all[k] = Iterate(all[k - 1])
  BY <1>2, <1>7 DEF first
<1> QED BY <1>3, <1>8, <1>9 DEF first

(* The loop of tryParse() takes what it can: it always returns, at a point *)
(* where the buffer holds nothing that could be taken, and it keeps what   *)
(* is known of the bodies, those of earlier calls included.                *)
LEMMA Parsed ==
    ASSUME NEW w \in Seq(Messages), NEW before \in Seq(Seq(Tokens)), NEW e \in Nat,
           NEW r \in Readers, Sane(r)
    PROVE  /\ TryParse(r) \in Parses /\ AtRest(TryParse(r).reader)
           /\ Holds(w, r, before, e) =>
                 Holds(w, TryParse(r).reader, before \o TryParse(r).bodies, e)
<1>1. PICK n \in Nat : n = Len(r.buffer) + 1
  BY ReadersAfter
<1>2. 0 \in 0 .. n /\ n \in 0 .. n /\ \A k \in 1 .. n : k \in 0 .. n /\ k - 1 \in 0 .. n /\ k # 0
  BY <1>1
<1> DEFINE first == Parse(r)
           after == [k \in 0 .. n |-> {p \in Parses :
               /\ p.returned => AtRest(p.reader)
               /\ ~p.returned => Len(p.reader.buffer) + k + 1 <= n
               /\ Holds(w, r, before, e) => Holds(w, p.reader, before \o p.bodies, e)}]
<1>4. PICK all : /\ TryParse(r) = all[n] /\ all[0] = Parse(r) /\ Parse(r) \in Parses
                /\ \A k \in 1 .. n : all[k] = Iterate(all[k - 1])
  BY <1>1, Iterations
<1>3. first \in Parses /\ ~first.returned /\ first.reader = r /\ first.bodies = << >>
  BY <1>4 DEF Parse
<1> HIDE DEF first
<1>9. all[0] \in after[0]
  <2>1. all[0] = first
    BY <1>4 DEF first
  <2>2. before \o first.bodies = before
    BY <1>3, ConcatEmptySeq
  <2>3. Len(r.buffer) + 0 + 1 <= n
    BY <1>1
  <2> QED BY <1>2, <1>3, <2>1, <2>2, <2>3
<1>10. ASSUME NEW k \in 1 .. n, all[k - 1] \in after[k - 1]
       PROVE  all[k] \in after[k]
  <2> DEFINE p == all[k - 1]
             m == Iterate(p)
  <2>1. all[k] = m
    BY <1>4
  <2>2. /\ p \in Parses
        /\ p.returned => AtRest(p.reader)
        /\ ~p.returned => Len(p.reader.buffer) + (k - 1) + 1 <= n
        /\ Holds(w, r, before, e) => Holds(w, p.reader, before \o p.bodies, e)
    BY <1>2, <1>10
  <2> HIDE DEF p
  <2>3. m \in Parses
    BY <2>2, Iterated DEF Iterate
  <2>4. CASE p.returned
    <3>1. m = p
      BY <2>4 DEF Iterate
    <3> HIDE DEF m
    <3> QED BY <1>2, <2>1, <2>2, <2>4, <3>1
  <2>5. CASE ~p.returned
    <3>1. /\ m.returned => AtRest(m.reader)
          /\ ~m.returned => Len(m.reader.buffer) < Len(p.reader.buffer)
      BY <2>2, <2>5, Shorter
    <3>2. Holds(w, r, before, e) => Holds(w, m.reader, before \o m.bodies, e)
      BY <2>2, <2>5, IterateHolds
    <3>3. Len(m.reader.buffer) \in Nat /\ Len(p.reader.buffer) \in Nat
      <4>1. m.reader.buffer \in Seq(Tokens) /\ p.reader.buffer \in Seq(Tokens)
        BY <2>2, <2>3, ReadersAfter DEF Parses
      <4> QED BY <4>1
    <3> HIDE DEF m
    <3>4. ~m.returned => Len(m.reader.buffer) + k + 1 <= n
      <4>1. PICK x \in Nat, y \in Nat : x = Len(m.reader.buffer) /\ y = Len(p.reader.buffer)
        BY <3>3
      <4>2. ~m.returned => x < y /\ y + (k - 1) + 1 <= n
        BY <2>2, <2>5, <3>1, <4>1
      <4>3. k \in Nat /\ (x < y /\ y + (k - 1) + 1 <= n => x + k + 1 <= n)
        OBVIOUS
      <4> QED BY <4>1, <4>2, <4>3
    <3> QED BY <1>2, <2>1, <2>3, <3>1, <3>2, <3>4
  <2> QED BY <2>4, <2>5
<1> HIDE DEF after
<1>11. all[n] \in after[n]
  <2>1. \A k \in 0 .. n : all[k] \in after[k]
    BY <1>9, <1>10, LoopKeeps
  <2> QED BY <1>2, <2>1
<1> DEFINE last == TryParse(r)
<1>12. /\ last \in Parses
       /\ last.returned => AtRest(last.reader)
       /\ ~last.returned => Len(last.reader.buffer) + n + 1 <= n
       /\ Holds(w, r, before, e) => Holds(w, last.reader, before \o last.bodies, e)
  BY <1>2, <1>4, <1>11 DEF after
<1> HIDE DEF last
<1>13. last.returned
  <2>1. PICK l \in Nat : l = Len(last.reader.buffer)
    <3>1. last.reader.buffer \in Seq(Tokens)
      BY <1>12, ReadersAfter DEF Parses
    <3> QED BY <3>1
  <2>2. ~(l + n + 1 <= n)
    BY <1>1
  <2> QED BY <1>12, <2>1, <2>2
<1> QED BY <1>12, <1>13 DEF last

-----------------------------------------------------------------------------
(***************************************************************************)
(* What is written and what is fed.                                        *)
(***************************************************************************)

(* Nothing is written and nothing was read. *)
LEMMA NothingRead ==
    /\ << >> \in Seq(Messages) /\ << >> \in Seq(Seq(Tokens)) /\ << >> \in Seq(Tokens)
    /\ EmptyReader \in Readers /\ Sane(EmptyReader) /\ AtRest(EmptyReader)
    /\ Holds(<< >>, EmptyReader, << >>, 0) /\ Piece(<< >>, << >>, 0) /\ Len(Stream(<< >>)) = 0
<1> DEFINE none == << >>
           r == EmptyReader
           S == Seq(Tokens)
           zero == 0
           put == [i \in 1 .. 0 |-> 0]
<1>1. /\ none \in Seq(Messages) /\ none \in Seq(S) /\ none \in S /\ Len(none) = 0
      /\ DOMAIN none = {} /\ \A i \in 1 .. 0 : FALSE
  OBVIOUS
<1>2. zero \in 0 .. MaxBodySize /\ ~(zero > 0) /\ zero = 0
  BY FramingAssumption
<1> HIDE DEF none, S, zero
<1>3. r = [buffer |-> none, state |-> "HEADER", pending |-> zero]
  BY DEF EmptyReader, none, zero
<1>4. /\ r \in [buffer : S, state : {"HEADER", "BODY"}, pending : 0 .. MaxBodySize]
      /\ r.buffer = none /\ r.state = "HEADER" /\ r.pending = zero
  BY <1>1, <1>2, <1>3
<1> HIDE DEF r
<1>5. r \in Readers /\ Sane(r) /\ AtRest(r)
  BY <1>1, <1>2, <1>4 DEF Readers, Sane, AtRest, S
<1>6. Stream(none) \in S /\ Len(Stream(none)) = 0 /\ End(none, 0) = 0
  <2>1. none \in Seq(Messages) /\ 0 = Len(none) /\ 0 \in Nat
    BY <1>1
  <2>2. Len(Stream(none)) = End(none, 0) /\ End(none, 0) = 0 /\ Stream(none) \in Seq(Tokens)
    BY <2>1, FramesIn
  <2> QED BY <2>2 DEF S
<1>7. Piece(none, none, 0)
  BY <1>1, <1>6 DEF Piece
<1>8. Past(none, r, 0, 0)
  BY <1>1, <1>4, <1>6, <1>7 DEF Past
<1>9. Places(none, none, 0, put)
  <2>1. put \in [1 .. 0 -> 1 .. 0]
    OBVIOUS
  <2> HIDE DEF put
  <2> QED BY <1>1, <2>1 DEF Places
<1> HIDE DEF put
<1>10. AllEmitted(none, r, none, 0, 0, put)
  BY <1>1, <1>6 DEF AllEmitted
<1>11. Stands(none, r, none, 0, 0, 0, put)
  BY <1>1, <1>4, <1>8, <1>9, <1>10 DEF Stands
<1>12. Holds(none, r, none, 0)
  BY <1>11 DEF Holds
<1> QED BY <1>1, <1>5, <1>6, <1>7, <1>12 DEF none, r, S

(* A message more is written behind what was there. *)
LEMMA StreamGrows ==
    ASSUME NEW w \in Seq(Messages), NEW m \in Messages
    PROVE  /\ Append(w, m) \in Seq(Messages)
           /\ \A r \in Readers : Sane(r) => \A bodies \in Seq(Seq(Tokens)), e \in Nat :
                Holds(w, r, bodies, e) => Holds(Append(w, m), r, bodies, e)
           /\ \A b \in Seq(Tokens), e \in Nat :
                Piece(w, b, e) /\ e + Len(b) = Len(Stream(w)) =>
                   /\ b \o Frame(m) \in Seq(Tokens) /\ Piece(Append(w, m), b \o Frame(m), e)
                   /\ e + Len(b \o Frame(m)) = Len(Stream(Append(w, m)))
<1>1. PICK n \in Nat, old \in Seq(Tokens), f \in Seq(Tokens) :
        n = Len(w) /\ old = Stream(w) /\ f = Frame(m)
  BY StreamOf, FrameOf
<1>2. PICK all \in Nat, size \in Nat : all = Len(old) /\ size = Len(f)
  OBVIOUS
<1> DEFINE more == Append(w, m)
           str == Stream(more)
<1>3. /\ more \in Seq(Messages) /\ Len(more) = n + 1
      /\ \A i \in 1 .. n : more[i] = w[i] /\ i \in 1 .. n + 1
      /\ DOMAIN w = 1 .. n /\ DOMAIN more = 1 .. n + 1
  BY <1>1
<1>4. \A k \in 0 .. n : End(more, k) = End(w, k) /\ k \in 0 .. n + 1
  <2> TAKE k \in 0 .. n
  <2>1. k \in 0 .. Len(w)
    BY <1>1
  <2>2. End(more, k) = End(w, k)
    BY <2>1, FramesStay
  <2>3. k \in 0 .. n + 1
    OBVIOUS
  <2> QED BY <2>2, <2>3
<1>5. str = old \o f
  BY <1>1, StreamOf
<1> HIDE DEF more, str
<1>6. /\ str \in Seq(Tokens) /\ Len(str) = all + size
      /\ \A i \in 1 .. all : str[i] = old[i]
      /\ \A i \in 1 .. size : str[all + i] = f[i]
  BY <1>2, <1>5, PlacesOfParts
<1>7. ASSUME NEW b \in Seq(Tokens), NEW q \in Nat, Piece(w, b, q) PROVE Piece(more, b, q)
  <2>1. PICK l \in Nat : l = Len(b)
    OBVIOUS
  <2>2. q + l <= all /\ \A i \in 1 .. l : b[i] = old[q + i]
    BY <1>1, <1>2, <1>7, <2>1 DEF Piece
  <2>3. q + l <= all + size
    BY <2>2
  <2>4. ASSUME NEW i \in 1 .. l PROVE b[i] = str[q + i]
    <3>1. q + i \in 1 .. all
      BY <2>2
    <3> QED BY <1>6, <2>2, <3>1
  <2> QED BY <1>6, <2>1, <2>3, <2>4 DEF Piece, str
<1>8. ASSUME NEW r \in Readers, Sane(r), NEW bodies \in Seq(Seq(Tokens)), NEW e \in Nat,
             Holds(w, r, bodies, e)
      PROVE  Holds(more, r, bodies, e)
  <2>1. PICK q \in Nat, j \in Nat : \E place : Stands(w, r, bodies, e, q, j, place)
    BY <1>8 DEF Holds, Stands
  <2>2. PICK place : Stands(w, r, bodies, e, q, j, place)
    BY <2>1
  <2>3. /\ q + Len(r.buffer) = e /\ Past(w, r, q, j)
        /\ Places(w, bodies, j, place)
        /\ Fitting(w) => AllEmitted(w, r, bodies, q, j, place)
    BY <2>2 DEF Stands
  <2>4. /\ j \in 0 .. n /\ j \in 0 .. n + 1 /\ End(more, j) = End(w, j)
        /\ End(w, j) <= q /\ Piece(w, r.buffer, q)
    BY <1>1, <1>4, <2>3 DEF Past
  <2>5. Piece(more, r.buffer, q)
    BY <1>7, <1>8, <2>4, ReadersAfter
  <2>6. r.state = "BODY" => j < n + 1 /\ q = End(w, j) + 2 /\ r.pending = Size[more[j + 1]]
    <3> SUFFICES ASSUME r.state = "BODY"
                 PROVE  j < n + 1 /\ q = End(w, j) + 2 /\ r.pending = Size[more[j + 1]]
      OBVIOUS
    <3>1. j < n
      BY <1>1, <2>3 DEF Past
    <3>2. j + 1 \in 1 .. n /\ j < n + 1
      BY <3>1
    <3>3. more[j + 1] = w[j + 1]
      BY <1>3, <3>2
    <3>4. q = End(w, j) + 2 /\ r.pending = Size[w[j + 1]]
      BY <2>3 DEF Past
    <3> QED BY <3>2, <3>3, <3>4
  <2>7. Past(more, r, q, j)
    BY <1>3, <2>4, <2>5, <2>6 DEF Past
  <2>8. Places(more, bodies, j, place)
    <3>1. \A i \in 1 .. Len(bodies) : place[i] \in 1 .. j
      BY <2>3 DEF Places
    <3>2. 1 .. j \subseteq 1 .. n
      BY <2>4
    <3>3. \A i \in 1 .. Len(bodies) : more[place[i]] = w[place[i]]
      BY <1>3, <3>1, <3>2
    <3> QED BY <2>3, <3>3 DEF Places
  <2>9. Fitting(more) => Fitting(w)
    BY <1>3 DEF Fitting
  <2>10. AllEmitted(w, r, bodies, q, j, place) => AllEmitted(more, r, bodies, q, j, place)
    BY <2>4 DEF AllEmitted
  <2>11. Stands(more, r, bodies, e, q, j, place)
    BY <2>3, <2>7, <2>8, <2>9, <2>10 DEF Stands
  <2> QED BY <2>11 DEF Holds
<1>9. ASSUME NEW b \in Seq(Tokens), NEW e \in Nat, Piece(w, b, e), e + Len(b) = Len(Stream(w))
      PROVE  /\ b \o f \in Seq(Tokens) /\ Piece(more, b \o f, e)
             /\ e + Len(b \o f) = Len(str)
  <2>1. PICK l \in Nat : l = Len(b)
    OBVIOUS
  <2>2. PICK bf \in Seq(Tokens) :
          /\ bf = b \o f /\ Len(bf) = l + size
          /\ \A i \in 1 .. l : bf[i] = b[i]
          /\ \A i \in 1 .. size : bf[l + i] = f[i]
    <3>0. l = Len(b) /\ size = Len(f)
      BY <1>2, <2>1
    <3>1. /\ b \o f \in Seq(Tokens) /\ Len(b \o f) = l + size
          /\ \A i \in 1 .. l : (b \o f)[i] = b[i]
          /\ \A i \in 1 .. size : (b \o f)[l + i] = f[i]
      BY <3>0, PlacesOfParts
    <3> QED BY <3>1
  <2>3. e + l = all /\ \A i \in 1 .. l : b[i] = old[e + i]
    BY <1>1, <1>2, <1>9, <2>1 DEF Piece
  <2>4. e + Len(bf) = all + size
    <3>1. Len(bf) = l + size
      BY <2>2
    <3>2. e + l = all
      BY <2>3
    <3> QED BY <3>1, <3>2
  <2>5. ASSUME NEW i \in 1 .. l + size PROVE bf[i] = str[e + i]
    <3>1. CASE i \in 1 .. l
      <4>1. e + l = all
        BY <2>3
      <4>2. e + i \in 1 .. all
        BY <3>1, <4>1
      <4> QED BY <1>6, <2>2, <2>3, <3>1, <4>2
    <3>2. CASE i - l \in 1 .. size
      <4>1. PICK x \in 1 .. size : x = i - l
        BY <3>2
      <4>2. i = l + x /\ e + i = all + x
        BY <2>3, <4>1
      <4>3. bf[l + x] = f[x] /\ str[all + x] = f[x]
        BY <1>6, <2>2
      <4> QED BY <4>2, <4>3
    <3>3. i \in 1 .. l \/ i - l \in 1 .. size
      OBVIOUS
    <3> QED BY <3>1, <3>2, <3>3
  <2>6. Piece(more, bf, e)
    <3>1. PICK top \in Nat : top = l + size
      OBVIOUS
    <3>2. Len(bf) = top /\ \A i \in 1 .. top : bf[i] = str[e + i]
      BY <2>2, <2>5, <3>1
    <3>3. e + top <= Len(str)
      <4>1. e + top = all + size
        BY <2>4, <3>2
      <4>2. Len(str) = all + size
        BY <1>6
      <4> QED BY <4>1, <4>2
    <3> QED BY <3>2, <3>3 DEF Piece, str
  <2> QED BY <1>6, <2>2, <2>4, <2>6
<1> QED BY <1>1, <1>3, <1>7, <1>8, <1>9 DEF more, str

(* The data of a read are put behind what is in the buffer.                *)
LEMMA Fed ==
    ASSUME NEW w \in Seq(Messages), NEW r \in Readers, Sane(r), NEW bodies \in Seq(Seq(Tokens)),
           NEW data \in Seq(Tokens)
    PROVE  LET x == [r EXCEPT !.buffer = @ \o data]
           IN  /\ x \in Readers /\ Sane(x)
               /\ \A e, n \in Nat : n = Len(data) /\ Holds(w, r, bodies, e) /\ Piece(w, data, e)
                      => Holds(w, x, bodies, e + n)
<1> DEFINE S == Seq(Tokens)
<1>1. PICK b \in S, fed \in S : b = r.buffer /\ fed = b \o data
  <2>1. r.buffer \in Seq(Tokens)
    BY ReadersAfter
  <2>2. r.buffer \o data \in Seq(Tokens)
    BY <2>1, ConcatProperties
  <2> QED BY <2>1, <2>2
<1> DEFINE x == [r EXCEPT !.buffer = fed]
<1>2. x = [r EXCEPT !.buffer = @ \o data]
  BY <1>1 DEF Readers
<1> HIDE DEF S
<1>3. /\ x \in [buffer : S, state : {"HEADER", "BODY"}, pending : 0 .. MaxBodySize]
      /\ x.buffer = fed /\ x.state = r.state /\ x.pending = r.pending
  BY <1>1 DEF Readers, S
<1> HIDE DEF x
<1>4. x \in Readers /\ Sane(x)
  BY <1>3 DEF Readers, Sane, S
<1>5. ASSUME NEW e \in Nat, NEW n \in Nat, n = Len(data), Holds(w, r, bodies, e), Piece(w, data, e)
      PROVE  Holds(w, x, bodies, e + n)
  <2>1. PICK q \in Nat, j \in Nat : \E place : Stands(w, r, bodies, e, q, j, place)
    BY <1>5 DEF Holds, Stands
  <2>2. PICK place : Stands(w, r, bodies, e, q, j, place)
    BY <2>1
  <2>3. /\ q + Len(b) = e /\ Past(w, r, q, j)
        /\ Places(w, bodies, j, place)
        /\ Fitting(w) => AllEmitted(w, r, bodies, q, j, place)
    BY <1>1, <2>2 DEF Stands
  <2>4. PICK l \in Nat, str \in Seq(Tokens) : l = Len(b) /\ str = Stream(w)
    BY <1>1, StreamOf DEF S
  <2>5. PICK all \in Nat : all = Len(str)
    OBVIOUS
  <2>6. /\ q + l = e /\ e + n <= all
        /\ \A i \in 1 .. l : b[i] = str[q + i]
        /\ \A i \in 1 .. n : data[i] = str[e + i]
    BY <1>1, <1>5, <2>3, <2>4, <2>5 DEF Past, Piece
  <2>7. /\ Len(fed) = l + n
        /\ \A i \in 1 .. l : fed[i] = b[i]
        /\ \A i \in 1 .. n : fed[l + i] = data[i]
    BY <1>1, <1>5, <2>4, PlacesOfParts DEF S
  <2>8. q + Len(fed) = e + n /\ q + Len(fed) <= all
    <3>1. Len(fed) = l + n
      BY <2>7
    <3>2. q + l = e /\ e + n <= all
      BY <2>6
    <3> QED BY <3>1, <3>2
  <2>9. ASSUME NEW i \in 1 .. l + n PROVE fed[i] = str[q + i]
    <3>1. CASE i \in 1 .. l
      BY <2>6, <2>7, <3>1
    <3>2. CASE i - l \in 1 .. n
      <4>1. PICK k \in 1 .. n : k = i - l
        BY <3>2
      <4>2. i = l + k /\ q + i = e + k
        <5>1. q + l = e
          BY <2>6
        <5> QED BY <4>1, <5>1
      <4>3. fed[l + k] = data[k] /\ data[k] = str[e + k]
        BY <2>6, <2>7
      <4> QED BY <4>2, <4>3
    <3>3. i \in 1 .. l \/ i - l \in 1 .. n
      OBVIOUS
    <3> QED BY <3>1, <3>2, <3>3
  <2>10. Piece(w, fed, q)
    BY <2>4, <2>5, <2>7, <2>8, <2>9 DEF Piece
  <2>11. Past(w, x, q, j)
    BY <1>3, <2>3, <2>10 DEF Past
  <2>12. AllEmitted(w, r, bodies, q, j, place) => AllEmitted(w, x, bodies, q, j, place)
    BY <1>3 DEF AllEmitted
  <2>13. Stands(w, x, bodies, e + n, q, j, place)
    BY <1>3, <2>3, <2>8, <2>11, <2>12 DEF Stands
  <2> QED BY <2>13 DEF Holds
<1> QED BY <1>2, <1>4, <1>5

(* A piece is read in two parts, and what was lost is missing at its end.  *)
LEMMA PieceCut ==
    ASSUME NEW w \in Seq(Messages), NEW b \in Seq(Tokens), NEW e \in Nat, NEW n \in 0 .. Len(b),
           Piece(w, b, e)
    PROVE  /\ Piece(w, SubSeq(b, 1, n), e)
           /\ Piece(w, After(b, n), e + n)
           /\ e + n + Len(After(b, n)) = e + Len(b)
<1>1. PICK l \in Nat, str \in Seq(Tokens) : l = Len(b) /\ str = Stream(w)
  BY StreamOf
<1>2. PICK all \in Nat : all = Len(str)
  OBVIOUS
<1>3. e + l <= all /\ \A i \in 1 .. l : b[i] = str[e + i]
  BY <1>1, <1>2 DEF Piece
<1>4. n \in Nat /\ n <= l
  BY <1>1
<1> DEFINE first == SubSeq(b, 1, n)
           rest == After(b, n)
<1>5. /\ Len(first) = n /\ \A i \in 1 .. n : first[i] = b[i]
      /\ Len(rest) = l - n /\ \A i \in 1 .. l - n : rest[i] = b[n + i]
  BY <1>1, Pieces
<1> HIDE DEF first, rest
<1>6. e + Len(first) <= all /\ e + n + Len(rest) = e + l /\ e + n + Len(rest) <= all
  BY <1>3, <1>4, <1>5
<1>7. \A i \in 1 .. n : i \in 1 .. l
  BY <1>4
<1>8. Piece(w, first, e)
  BY <1>1, <1>2, <1>3, <1>5, <1>6, <1>7 DEF Piece
<1>9. ASSUME NEW i \in 1 .. l - n PROVE rest[i] = str[e + n + i]
  <2>1. n + i \in 1 .. l /\ e + (n + i) = e + n + i
    BY <1>4
  <2> QED BY <1>3, <1>5, <2>1
<1>10. Piece(w, rest, e + n)
  BY <1>1, <1>2, <1>4, <1>5, <1>6, <1>9 DEF Piece
<1> QED BY <1>1, <1>6, <1>8, <1>10 DEF first, rest

-----------------------------------------------------------------------------
(***************************************************************************)
(* The invariant: when the reader was empty at the start of the process,   *)
(* what it was fed is the stream up to a place, what is in the pipe is the *)
(* stream from there, and while the process runs the pipe ends where the   *)
(* stream does.                                                            *)
(***************************************************************************)

ReaderSound ==
    /\ running \in BOOLEAN /\ clean \in BOOLEAN /\ runs \in 0 .. MaxRuns
    /\ pipe \in Seq(Tokens) /\ written \in Seq(Messages) /\ got \in Seq(Seq(Tokens))
    /\ reader \in Readers /\ Sane(reader) /\ AtRest(reader)
InStep(e) ==
    /\ Holds(written, reader, got, e) /\ Piece(written, pipe, e)
    /\ running => e + Len(pipe) = Len(Stream(written))
ReadsTheStream == clean => \E e \in Nat : InStep(e)
ReaderInv == ReaderSound /\ ReadsTheStream

(* The invariant holds initially. *)
LEMMA ReaderInitInv == ReaderInit => ReaderInv
<1> DEFINE none == << >>
<1>1. ReaderInit => /\ running = FALSE /\ runs = 0 /\ pipe = none /\ reader = EmptyReader
                    /\ written = none /\ got = none /\ clean = TRUE
  BY DEF ReaderInit
<1>2. /\ none \in Seq(Messages) /\ none \in Seq(Seq(Tokens)) /\ none \in Seq(Tokens)
      /\ EmptyReader \in Readers /\ Sane(EmptyReader) /\ AtRest(EmptyReader)
      /\ Holds(none, EmptyReader, none, 0) /\ Piece(none, none, 0)
  BY NothingRead
<1>3. 0 \in 0 .. MaxRuns /\ 0 \in Nat
  BY FramingAssumption
<1> HIDE DEF none
<1> SUFFICES ASSUME ReaderInit PROVE ReaderInv
  OBVIOUS
<1>4. ReaderSound
  BY <1>1, <1>2, <1>3 DEF ReaderSound
<1>5. InStep(0)
  BY <1>1, <1>2 DEF InStep
<1> QED BY <1>3, <1>4, <1>5 DEF ReaderInv, ReadsTheStream

(* Every step keeps it. *)
LEMMA ReaderStepInv == ReaderInv /\ [ReaderNext]_readerVars => ReaderInv'
<1> SUFFICES ASSUME ReaderInv, [ReaderNext]_readerVars PROVE ReaderInv'
  OBVIOUS
<1>0. ReaderSound /\ ReadsTheStream
  BY DEF ReaderInv
<1>1. CASE Start
  <2> DEFINE none == << >>
  <2>1. /\ none \in Seq(Messages) /\ none \in Seq(Seq(Tokens))
        /\ Holds(none, EmptyReader, none, 0) /\ Piece(none, none, 0)
        /\ Len(none) = 0 /\ Len(Stream(none)) = 0
    BY NothingRead
  <2>2. /\ pipe = none /\ runs < MaxRuns /\ running' = TRUE /\ runs' = runs + 1
        /\ written' = none /\ got' = none /\ clean' = (reader = EmptyReader)
        /\ pipe' = pipe /\ reader' = reader
    BY <1>1 DEF Start
  <2> HIDE DEF none
  <2>3. runs' \in 0 .. MaxRuns
    BY <1>0, <2>2, FramingAssumption DEF ReaderSound
  <2>4. ReaderSound'
    BY <1>0, <2>1, <2>2, <2>3 DEF ReaderSound
  <2>5. ASSUME clean' PROVE InStep(0)'
    <3>1. reader' = EmptyReader
      BY <2>2, <2>5
    <3>2. 0 + Len(none) = Len(Stream(none))
      BY <2>1
    <3>3. pipe' = none /\ written' = none /\ got' = none
      BY <2>2
    <3> QED BY <2>1, <3>1, <3>2, <3>3 DEF InStep
  <2>6. 0 \in Nat
    OBVIOUS
  <2> QED BY <2>4, <2>5, <2>6 DEF ReaderInv, ReadsTheStream
<1>2. ASSUME NEW m \in Messages, WriteMessage(m) PROVE ReaderInv'
  <2>1. /\ running /\ written' = Append(written, m) /\ pipe' = pipe \o Frame(m)
        /\ running' = running /\ runs' = runs /\ reader' = reader /\ got' = got /\ clean' = clean
    BY <1>2 DEF WriteMessage
  <2>2. /\ written \in Seq(Messages) /\ pipe \in Seq(Tokens) /\ got \in Seq(Seq(Tokens))
        /\ reader \in Readers /\ Sane(reader)
    BY <1>0 DEF ReaderSound
  <2>3. written' \in Seq(Messages) /\ pipe' \in Seq(Tokens)
    BY <2>1, <2>2, StreamGrows, FrameOf, ConcatProperties
  <2>4. ReaderSound'
    BY <1>0, <2>1, <2>3 DEF ReaderSound
  <2>5. ASSUME NEW e \in Nat, InStep(e) PROVE InStep(e)'
    <3>1. /\ Holds(written, reader, got, e) /\ Piece(written, pipe, e)
          /\ e + Len(pipe) = Len(Stream(written))
      BY <2>1, <2>5 DEF InStep
    <3>2. Holds(written', reader, got, e)
      BY <2>1, <2>2, <3>1, StreamGrows
    <3>3. Piece(written', pipe', e) /\ e + Len(pipe') = Len(Stream(written'))
      BY <2>1, <2>2, <3>1, StreamGrows
    <3> QED BY <2>1, <3>2, <3>3 DEF InStep
  <2> QED BY <1>0, <2>1, <2>4, <2>5 DEF ReaderInv, ReadsTheStream
<1>3. ASSUME NEW n \in 1 .. MaxInPipe, ReadyRead(n) PROVE ReaderInv'
  <2> DEFINE data == SubSeq(pipe, 1, n)
             x == [reader EXCEPT !.buffer = @ \o data]
             fed == TryParse(x)
  <2>1. /\ n \in 1 .. Len(pipe) /\ reader' = fed.reader /\ got' = got \o fed.bodies
        /\ pipe' = After(pipe, n)
        /\ running' = running /\ runs' = runs /\ written' = written /\ clean' = clean
    BY <1>3 DEF ReadyRead, Feed, After
  <2>2. /\ written \in Seq(Messages) /\ pipe \in Seq(Tokens) /\ got \in Seq(Seq(Tokens))
        /\ reader \in Readers /\ Sane(reader)
    BY <1>0 DEF ReaderSound
  <2>3. n \in 0 .. Len(pipe) /\ n \in Nat
    BY <2>1
  <2>4. /\ data \in Seq(Tokens) /\ n = Len(data)
        /\ pipe' \in Seq(Tokens)
    BY <2>1, <2>2, <2>3, Pieces
  <2> HIDE DEF data
  <2>5. /\ x \in Readers /\ Sane(x)
        /\ \A e \in Nat : Holds(written, reader, got, e) /\ Piece(written, data, e)
              => Holds(written, x, got, e + n)
    BY <2>2, <2>3, <2>4, Fed
  <2> HIDE DEF x
  <2>6. /\ fed \in Parses /\ AtRest(fed.reader)
        /\ \A e \in Nat : Holds(written, x, got, e)
              => Holds(written, fed.reader, got \o fed.bodies, e)
    BY <2>2, <2>5, Parsed
  <2> HIDE DEF fed
  <2>7. /\ fed.reader \in Readers /\ Sane(fed.reader) /\ fed.bodies \in Seq(Seq(Tokens))
    BY <2>6 DEF Parses
  <2>8. got \o fed.bodies \in Seq(Seq(Tokens))
    <3> DEFINE S == Seq(Tokens)
    <3> HIDE DEF S
    <3>1. got \in Seq(S) /\ fed.bodies \in Seq(S)
      BY <2>2, <2>7 DEF S
    <3>2. got \o fed.bodies \in Seq(S)
      BY <3>1, ConcatProperties
    <3> QED BY <3>2 DEF S
  <2>9. ReaderSound'
    BY <1>0, <2>1, <2>4, <2>6, <2>7, <2>8 DEF ReaderSound
  <2>10. ASSUME NEW e \in Nat, InStep(e) PROVE InStep(e + n)'
    <3>1. /\ Holds(written, reader, got, e) /\ Piece(written, pipe, e)
          /\ running => e + Len(pipe) = Len(Stream(written))
      BY <2>10 DEF InStep
    <3>2. /\ Piece(written, data, e) /\ Piece(written, pipe', e + n)
          /\ e + n + Len(pipe') = e + Len(pipe)
      BY <2>1, <2>2, <2>3, <3>1, PieceCut DEF data
    <3>3. e + n \in Nat
      BY <2>3
    <3>4. Holds(written, fed.reader, got \o fed.bodies, e + n)
      BY <2>5, <2>6, <3>1, <3>2, <3>3
    <3> QED BY <2>1, <3>1, <3>2, <3>4 DEF InStep
  <2>11. \A e \in Nat : e + n \in Nat
    BY <2>3
  <2> QED BY <1>0, <2>1, <2>9, <2>10, <2>11 DEF ReaderInv, ReadsTheStream
<1>4. ASSUME NEW lost \in 0 .. MaxInPipe, Exit(lost) PROVE ReaderInv'
  <2>1. /\ lost \in 0 .. Len(pipe) /\ running' = FALSE /\ pipe' = SubSeq(pipe, 1, Len(pipe) - lost)
        /\ runs' = runs /\ reader' = reader /\ written' = written /\ got' = got /\ clean' = clean
    BY <1>4 DEF Exit
  <2>2. written \in Seq(Messages) /\ pipe \in Seq(Tokens)
    BY <1>0 DEF ReaderSound
  <2>3. PICK n \in 0 .. Len(pipe) : n = Len(pipe) - lost
    BY <2>1, <2>2
  <2>4. pipe' = SubSeq(pipe, 1, n)
    BY <2>1, <2>3
  <2>5. pipe' \in Seq(Tokens)
    BY <2>2, <2>4, Pieces
  <2>6. ReaderSound'
    BY <1>0, <2>1, <2>5 DEF ReaderSound
  <2>7. ASSUME NEW e \in Nat, InStep(e) PROVE InStep(e)'
    <3>1. Piece(written, pipe', e)
      BY <2>2, <2>4, <2>7, PieceCut DEF InStep
    <3> QED BY <2>1, <2>7, <3>1 DEF InStep
  <2> QED BY <1>0, <2>1, <2>6, <2>7 DEF ReaderInv, ReadsTheStream
<1>5. CASE UNCHANGED readerVars
  BY <1>0, <1>5 DEF readerVars, ReaderInv, ReaderSound, ReadsTheStream, InStep
<1> QED BY <1>1, <1>2, <1>3, <1>4, <1>5 DEF ReaderNext

(* The invariant of the reader. *)
LEMMA ReaderInvariant == ReaderSpec => []ReaderInv
<1>1. ReaderInit => ReaderInv
  BY ReaderInitInv
<1>2. ReaderInv /\ [ReaderNext]_readerVars => ReaderInv'
  BY ReaderStepInv
<1> QED BY <1>1, <1>2, PTL DEF ReaderSpec

(* The reader, the pipe and what was emitted have their types, and the     *)
(* reader waits for a body exactly when it knows how long it is            *)
(* (FramingReader::tryParse).                                              *)
THEOREM ReaderTyped == ReaderSpec => []ReaderTypeOK
<1>1. ReaderInv => ReaderTypeOK
  <2> SUFFICES ASSUME ReaderInv PROVE ReaderTypeOK
    OBVIOUS
  <2>1. ReaderSound
    BY DEF ReaderInv
  <2>2. /\ reader \in [buffer : Seq(Tokens), state : {"HEADER", "BODY"}, pending : 0 .. MaxBodySize]
        /\ (reader.state = "BODY") <=> (reader.pending > 0)
    BY <2>1 DEF ReaderSound, Readers, Sane
  <2>3. \A i \in DOMAIN got : got[i] \in Seq(Tokens)
    BY <2>1, ElementOfSeq DEF ReaderSound
  <2> QED BY <2>1, <2>2, <2>3 DEF ReaderSound, ReaderTypeOK
<1> QED BY <1>1, ReaderInvariant, PTL

(* What the reader emits are whole messages of the process, in their order *)
(* and none of them twice (FramingReader::tryParse).                       *)
THEOREM OnlyMessagesDelivered == ReaderSpec => []DeliversOnlyMessages
<1>1. ReaderInv => DeliversOnlyMessages
  <2> SUFFICES ASSUME ReaderInv, clean
               PROVE  \E place \in [DOMAIN got -> DOMAIN written] :
                         /\ \A i, j \in DOMAIN got : i < j => place[i] < place[j]
                         /\ \A i \in DOMAIN got : got[i] = Body(written[place[i]])
    BY DEF DeliversOnlyMessages
  <2>1. PICK e \in Nat : Holds(written, reader, got, e)
    BY DEF ReaderInv, ReadsTheStream, InStep
  <2>2. PICK q, j, place : Stands(written, reader, got, e, q, j, place)
    BY <2>1 DEF Holds
  <2>3. /\ j \in 0 .. Len(written) /\ place \in [1 .. Len(got) -> 1 .. j]
        /\ \A i, k \in 1 .. Len(got) : i < k => place[i] < place[k]
        /\ \A i \in 1 .. Len(got) : got[i] = Body(written[place[i]])
    BY <2>2 DEF Stands, Past, Places
  <2>4. DOMAIN got = 1 .. Len(got) /\ DOMAIN written = 1 .. Len(written) /\ Len(written) \in Nat
    BY DEF ReaderInv, ReaderSound
  <2>5. 1 .. j \subseteq 1 .. Len(written)
    BY <2>3, <2>4
  <2>6. place \in [DOMAIN got -> DOMAIN written]
    BY <2>3, <2>4, <2>5
  <2> QED BY <2>3, <2>4, <2>6
<1> QED BY <1>1, ReaderInvariant, PTL

(* Two pieces that follow each other, and the piece they make. *)
Following(w, a, b, q, e) == q + Len(a) = e /\ Piece(w, a, q) /\ Piece(w, b, e)
Together(w, a, b, q, e) ==
    a \o b \in Seq(Tokens) /\ Piece(w, a \o b, q) /\ q + Len(a \o b) = e + Len(b)

(* Following pieces are one piece. *)
LEMMA PiecesJoin ==
    ASSUME NEW w \in Seq(Messages), NEW a \in Seq(Tokens), NEW b \in Seq(Tokens), NEW q \in Nat
    PROVE  \A e \in Nat : Following(w, a, b, q, e) => Together(w, a, b, q, e)
<1> TAKE e \in Nat
<1>0. SUFFICES ASSUME q + Len(a) = e, Piece(w, a, q), Piece(w, b, e)
               PROVE  /\ a \o b \in Seq(Tokens) /\ Piece(w, a \o b, q)
                      /\ q + Len(a \o b) = e + Len(b)
  BY DEF Following, Together
<1>1. PICK l \in Nat, n \in Nat, str \in Seq(Tokens) : l = Len(a) /\ n = Len(b) /\ str = Stream(w)
  BY StreamOf
<1>2. PICK all \in Nat : all = Len(str)
  OBVIOUS
<1>3. PICK both \in Seq(Tokens) :
        /\ both = a \o b /\ Len(both) = l + n
        /\ \A i \in 1 .. l : both[i] = a[i]
        /\ \A i \in 1 .. n : both[l + i] = b[i]
  <2>1. l = Len(a) /\ n = Len(b)
    BY <1>1
  <2>2. /\ a \o b \in Seq(Tokens) /\ Len(a \o b) = l + n
        /\ \A i \in 1 .. l : (a \o b)[i] = a[i]
        /\ \A i \in 1 .. n : (a \o b)[l + i] = b[i]
    BY <2>1, PlacesOfParts
  <2> QED BY <2>2
<1>4. /\ e + n <= all
      /\ \A i \in 1 .. l : a[i] = str[q + i]
      /\ \A i \in 1 .. n : b[i] = str[e + i]
  BY <1>0, <1>1, <1>2 DEF Piece
<1>5. q + l = e
  BY <1>0, <1>1
<1>6. PICK top \in Nat : top = l + n
  OBVIOUS
<1>7. q + top = e + n /\ q + top <= all
  <2>1. e + n <= all
    BY <1>4
  <2> QED BY <1>5, <1>6, <2>1
<1>8. ASSUME NEW i \in 1 .. top PROVE both[i] = str[q + i]
  <2>1. CASE i \in 1 .. l
    BY <1>3, <1>4, <2>1
  <2>2. CASE i - l \in 1 .. n
    <3>1. PICK x \in 1 .. n : x = i - l
      BY <2>2
    <3>2. i = l + x /\ q + i = e + x
      BY <1>5, <3>1
    <3>3. both[l + x] = b[x] /\ b[x] = str[e + x]
      BY <1>3, <1>4
    <3> QED BY <3>2, <3>3
  <2>3. i \in 1 .. l \/ i - l \in 1 .. n
    BY <1>6
  <2> QED BY <2>1, <2>2, <2>3
<1>9. Len(both) = top
  BY <1>3, <1>6
<1>10. Piece(w, both, q)
  BY <1>1, <1>2, <1>7, <1>8, <1>9 DEF Piece
<1>11. q + Len(both) = e + Len(b)
  BY <1>1, <1>7, <1>9
<1> QED BY <1>3, <1>10, <1>11

(* A piece at the beginning is a prefix, and the stream when it is as long. *)
LEMMA PieceIsPrefix ==
    ASSUME NEW w \in Seq(Messages), NEW b \in Seq(Tokens), Piece(w, b, 0)
    PROVE  IsPrefix(b, Stream(w)) /\ (Len(b) = Len(Stream(w)) => b = Stream(w))
<1>1. PICK l \in Nat, str \in Seq(Tokens) : l = Len(b) /\ str = Stream(w)
  BY StreamOf
<1>2. PICK all \in Nat : all = Len(str)
  OBVIOUS
<1>3. l <= all /\ \A i \in 1 .. l : b[i] = str[0 + i] /\ 0 + i = i
  BY <1>1, <1>2 DEF Piece
<1>4. l \in 0 .. Len(str)
  BY <1>2, <1>3
<1> DEFINE first == SubSeq(str, 1, l)
<1>5. first \in Seq(Tokens) /\ Len(first) = l /\ \A i \in 1 .. l : first[i] = str[i]
  BY <1>4, Pieces
<1> HIDE DEF first
<1>6. first = b
  BY <1>1, <1>3, <1>5, SeqEqual
<1>7. SubSeq(b, 1, l) = b
  BY <1>1, SubSeqFull
<1>8. IsPrefix(b, str)
  BY <1>1, <1>2, <1>3, <1>6, <1>7 DEF IsPrefix, first
<1>9. l = all => b = str
  BY <1>1, <1>2, <1>3, SeqEqual
<1> QED BY <1>1, <1>2, <1>8, <1>9

(* The frames of the first messages are a piece at the beginning. *)
LEMMA FirstFramesPiece ==
    ASSUME NEW w \in Seq(Messages), NEW j \in 0 .. Len(w)
    PROVE  FirstFrames(w, j) \in Seq(Tokens) /\ Piece(w, FirstFrames(w, j), 0)
<1>1. PICK f \in Seq(Tokens), str \in Seq(Tokens) : f = FirstFrames(w, j) /\ str = Stream(w)
  BY StreamOf, FramesFollow
<1>2. PICK l \in Nat, all \in Nat : l = Len(f) /\ all = Len(str)
  OBVIOUS
<1>3. BeginsWith(str, f)
  BY <1>1, StreamLayout DEF LaidOut
<1>4. 0 + l <= all /\ \A i \in 1 .. l : f[i] = str[0 + i]
  <2>1. l <= all /\ \A i \in 1 .. l : f[i] = str[i]
    BY <1>2, <1>3 DEF BeginsWith
  <2> QED BY <2>1
<1>5. 0 \in Nat
  OBVIOUS
<1> QED BY <1>1, <1>2, <1>4, <1>5 DEF Piece

(* What the reader holds begins with the header it has taken off.          *)
LEMMA AnnouncedPiece ==
    ASSUME NEW w \in Seq(Messages), NEW r \in Readers, Sane(r), NEW q \in Nat, NEW j \in Nat,
           Past(w, r, q, j), r.state = "HEADER" => q = End(w, j)
    PROVE  LET head == (IF r.state = "BODY" THEN <<Header(r.pending), Separator>> ELSE << >>) \o r.buffer
           IN  /\ head \in Seq(Tokens) /\ Piece(w, head, End(w, j))
               /\ End(w, j) + Len(head) = q + Len(r.buffer)
<1>1. PICK b \in Seq(Tokens), n \in Nat : b = r.buffer /\ n = Len(w)
  BY ReadersAfter
<1>2. r.state \in {"HEADER", "BODY"} /\ Piece(w, b, q) /\ j \in 0 .. n
  BY <1>1, ReadersAfter DEF Past
<1>3. PICK d \in Nat : d = End(w, j)
  BY <1>1, <1>2, FramesIn
<1>4. CASE r.state = "HEADER"
  <2>1. << >> \o b = b
    BY ConcatEmptySeq
  <2> QED BY <1>1, <1>2, <1>4, <2>1
<1>5. CASE r.state = "BODY"
  <2> DEFINE text == <<Header(r.pending), Separator>>
  <2>1. j < n /\ q = d + 2
    BY <1>1, <1>3, <1>5 DEF Past
  <2>2. PICK m \in Messages : /\ m = w[j + 1] /\ FrameAt(Stream(w), d, m)
                              /\ End(w, j + 1) = d + 2 + Size[m]
    BY <1>1, <1>2, <1>3, <2>1, FramesIn
  <2>3. r.pending = Size[m]
    BY <1>5, <2>2 DEF Past
  <2>4. PICK f \in Seq(Tokens) : f = Frame(m)
    BY FrameOf
  <2>5. f[1] = Header(r.pending) /\ f[2] = Separator /\ Len(f) = Size[m] + 2 /\ Size[m] \in Nat
    BY <2>3, <2>4, FrameOf
  <2>6. Header(r.pending) \in Tokens /\ Separator \in Tokens
    <3>1. 1 \in 1 .. Len(f) /\ 2 \in 1 .. Len(f)
      <4>1. PICK size \in Nat : size = Size[m]
        BY <2>5
      <4>2. Len(f) = size + 2
        BY <2>5, <4>1
      <4> QED BY <4>2
    <3> QED BY <2>5, <3>1, ElementOfSeq
  <2>7. /\ text \in Seq(Tokens) /\ Len(text) = 2
        /\ text[1] = Header(r.pending) /\ text[2] = Separator
    <3> DEFINE first == Header(r.pending)
               second == Separator
    <3> HIDE DEF first, second
    <3>1. first \in Tokens /\ second \in Tokens
      BY <2>6 DEF first, second
    <3>2. LET t == <<first, second>>
          IN  t \in Seq(Tokens) /\ Len(t) = 2 /\ t[1] = first /\ t[2] = second
      BY <3>1
    <3> QED BY <3>2 DEF first, second
  <2> HIDE DEF text
  <2>8. Piece(w, text, d)
    <3>1. PICK str \in Seq(Tokens), all \in Nat : str = Stream(w) /\ all = Len(str)
      BY StreamOf
    <3>2. d + 2 <= all
      <4>1. PICK l \in Nat : l = Len(b)
        OBVIOUS
      <4>2. q + l <= all
        BY <1>2, <3>1, <4>1 DEF Piece
      <4> QED BY <2>1, <4>2
    <3>3. \A i \in 1 .. 2 : i = 1 \/ i = 2
      OBVIOUS
    <3>4. text[1] = str[d + 1] /\ text[2] = str[d + 2]
      BY <2>2, <2>3, <2>7, <3>1 DEF FrameAt
    <3>5. \A i \in 1 .. 2 : text[i] = str[d + i]
      BY <3>3, <3>4
    <3> QED BY <2>7, <3>1, <3>2, <3>5 DEF Piece
  <2>9. d + Len(text) = q
    BY <2>1, <2>7
  <2>10. /\ text \o b \in Seq(Tokens) /\ Piece(w, text \o b, d)
         /\ d + Len(text \o b) = q + Len(b)
    <3>1. Following(w, text, b, d, q)
      BY <1>2, <2>8, <2>9 DEF Following
    <3>2. Together(w, text, b, d, q)
      BY <2>7, <3>1, PiecesJoin
    <3> QED BY <3>2 DEF Together
  <2> QED BY <1>1, <1>3, <1>5, <2>10 DEF text
<1> QED BY <1>2, <1>4, <1>5

(* At rest the reader holds no whole frame. *)
LEMMA NoFrameHeld ==
    ASSUME NEW r \in Readers, Sane(r), AtRest(r), NEW m \in Messages
    PROVE  ~IsPrefix(Frame(m),
                     (IF r.state = "BODY" THEN <<Header(r.pending), Separator>> ELSE << >>) \o r.buffer)
<1>1. PICK b \in Seq(Tokens), f \in Seq(Tokens) : b = r.buffer /\ f = Frame(m)
  BY FrameOf, ReadersAfter
<1>2. PICK l \in Nat, size \in Nat : l = Len(b) /\ size = Size[m] /\ size > 0
  BY FrameOf
<1>3. Len(f) = size + 2 /\ f[1] = Header(size) /\ f[2] = Separator
  BY <1>1, <1>2, FrameOf
<1>4. r.state \in {"HEADER", "BODY"}
  BY ReadersAfter
<1>5. ASSUME NEW s, IsPrefix(f, s)
      PROVE  size + 2 <= Len(s) /\ SubSeq(f, 1, size + 2) = SubSeq(s, 1, size + 2)
  BY <1>3, <1>5 DEF IsPrefix
<1>6. 1 \in 1 .. size + 2 /\ 2 \in 1 .. size + 2 /\ size + 2 \in Nat
  BY <1>2
<1>7. SubSeq(f, 1, size + 2) = f
  BY <1>3, SubSeqFull
<1>8. CASE r.state = "HEADER"
  <2>1. << >> \o b = b
    BY ConcatEmptySeq
  <2>2. ASSUME IsPrefix(f, b) PROVE FALSE
    <3>1. size + 2 <= l /\ f = SubSeq(b, 1, size + 2)
      BY <1>2, <1>5, <1>7, <2>2
    <3>2. size + 2 \in 0 .. Len(b) /\ 2 \in 1 .. l
      BY <1>2, <3>1
    <3>3. f[2] = b[2]
      BY <1>6, <3>1, <3>2, Pieces
    <3>4. b[2] # Separator
      BY <1>1, <1>2, <1>8, <3>2 DEF AtRest
    <3> QED BY <1>3, <3>3, <3>4
  <2> QED BY <1>1, <1>8, <2>1, <2>2
<1>9. CASE r.state = "BODY"
  <2>1. PICK p \in Nat : p = r.pending
    BY ReadersAfter
  <2>2. l < p
    BY <1>1, <1>2, <1>9, <2>1 DEF AtRest
  <2> DEFINE first == Header(p)
             second == Separator
             text == <<first, second>>
             s == text \o b
  <2>3. ASSUME IsPrefix(f, s) PROVE FALSE
    <3> DEFINE Wider == Tokens \cup {first, second}
    <3>0. first \in Wider /\ second \in Wider /\ b \in Seq(Wider)
      OBVIOUS
    <3> HIDE DEF first, second, Wider
    <3>1. text \in Seq(Wider) /\ 2 = Len(text) /\ text[1] = first
      BY <3>0
    <3> HIDE DEF text
    <3>2. /\ s \in Seq(Wider) /\ Len(s) = 2 + l
          /\ \A x \in 1 .. 2 : s[x] = text[x]
      <4>1. PICK t \in Seq(Wider), two \in Nat : t = text /\ two = Len(t)
        BY <3>1
      <4>2. l = Len(b)
        BY <1>2
      <4>3. /\ t \o b \in Seq(Wider) /\ Len(t \o b) = two + l
            /\ \A x \in 1 .. two : (t \o b)[x] = t[x]
        BY <3>0, <4>1, <4>2, PlacesOfParts
      <4>4. two = 2
        BY <3>1, <4>1
      <4> QED BY <4>1, <4>3, <4>4
    <3> HIDE DEF s
    <3>3. s[1] = first
      <4>1. 1 \in 1 .. 2
        OBVIOUS
      <4> QED BY <3>1, <3>2, <4>1
    <3>4. size + 2 <= Len(s) /\ f = SubSeq(s, 1, size + 2)
      BY <1>5, <1>7, <2>3
    <3>5. size + 2 \in 0 .. Len(s) /\ size <= l
      BY <3>2, <3>4
    <3>6. f[1] = s[1]
      BY <1>6, <3>2, <3>4, <3>5, Pieces
    <3>7. Header(size).len = size /\ Header(p).len = p
      BY DEF Header
    <3>8. size = p
      BY <1>3, <3>3, <3>6, <3>7 DEF first
    <3> QED BY <2>2, <3>5, <3>8
  <2> QED BY <1>1, <1>9, <2>1, <2>3
<1> QED BY <1>4, <1>8, <1>9

(* A process that found the reader empty has its messages delivered whole  *)
(* and in order, however the pipe cuts the stream, and nothing complete    *)
(* waits in the buffer (FramingReader::tryParse).                          *)
THEOREM WhatWasReadIsDelivered == ReaderSpec => []DeliversWhatWasRead
<1>1. ReaderInv => DeliversWhatWasRead
  <2> SUFFICES ASSUME ReaderInv, clean, NoneRejected
               PROVE  LET delivered == SubSeq(written, 1, Len(got))
                          rest == Announced \o reader.buffer \o pipe
                      IN  /\ got = [i \in DOMAIN delivered |-> Body(delivered[i])]
                          /\ IsPrefix(Stream(delivered) \o rest, Stream(written))
                          /\ running => Stream(delivered) \o rest = Stream(written)
                          /\ \A m \in Messages : ~IsPrefix(Frame(m), Announced \o reader.buffer)
    BY DEF DeliversWhatWasRead
  <2>1. /\ written \in Seq(Messages) /\ pipe \in Seq(Tokens) /\ got \in Seq(Seq(Tokens))
        /\ reader \in Readers /\ Sane(reader) /\ AtRest(reader)
    BY DEF ReaderInv, ReaderSound
  <2>2. PICK e \in Nat : InStep(e)
    BY DEF ReaderInv, ReadsTheStream
  <2>3. PICK q \in Nat, j \in Nat : \E place : Stands(written, reader, got, e, q, j, place)
    BY <2>2 DEF InStep, Holds, Stands
  <2>4. PICK place : Stands(written, reader, got, e, q, j, place)
    BY <2>3
  <2>5. Fitting(written)
    BY DEF NoneRejected, Fitting
  <2>6. /\ q + Len(reader.buffer) = e /\ Past(written, reader, q, j)
        /\ Places(written, got, j, place) /\ AllEmitted(written, reader, got, q, j, place)
    BY <2>4, <2>5 DEF Stands
  <2>7. /\ Len(got) = j /\ \A i \in 1 .. j : place[i] = i
        /\ reader.state = "HEADER" => q = End(written, j)
        /\ j \in 0 .. Len(written)
        /\ \A i \in 1 .. Len(got) : got[i] = Body(written[place[i]])
    BY <2>6 DEF AllEmitted, Past, Places
  <2> DEFINE delivered == SubSeq(written, 1, Len(got))
             head == Announced \o reader.buffer
             rest == head \o pipe
             frames == Stream(delivered)
  <2>8. got = [i \in DOMAIN delivered |-> Body(delivered[i])]
    <3>1. /\ delivered \in Seq(Messages) /\ Len(delivered) = j
          /\ \A i \in 1 .. j : delivered[i] = written[i]
      BY <2>1, <2>7, Pieces
    <3> HIDE DEF delivered
    <3>2. DOMAIN delivered = 1 .. j
      BY <3>1
    <3>3. \A i \in 1 .. j : got[i] = Body(delivered[i])
      BY <2>7, <3>1
    <3>4. got = [i \in 1 .. j |-> got[i]]
      BY <2>1, <2>7
    <3> QED BY <3>2, <3>3, <3>4
  <2>9. frames = FirstFrames(written, j) /\ frames \in Seq(Tokens) /\ Piece(written, frames, 0)
    BY <2>1, <2>7, FirstFramesPiece DEF FirstFrames
  <2>10. /\ head \in Seq(Tokens) /\ Piece(written, head, End(written, j))
         /\ End(written, j) + Len(head) = e
    <3>1. head = (IF reader.state = "BODY" THEN <<Header(reader.pending), Separator>> ELSE << >>)
                     \o reader.buffer
      BY DEF Announced
    <3> HIDE DEF delivered, frames, rest, head
    <3>2. /\ written \in Seq(Messages) /\ reader \in Readers /\ Sane(reader)
          /\ q \in Nat /\ j \in Nat /\ Past(written, reader, q, j)
          /\ reader.state = "HEADER" => q = End(written, j)
      BY <2>1, <2>6, <2>7
    <3>3. /\ head \in Seq(Tokens) /\ Piece(written, head, End(written, j))
          /\ End(written, j) + Len(head) = q + Len(reader.buffer)
      BY ONLY <3>1, <3>2, AnnouncedPiece
    <3> QED BY <2>6, <3>3
  <2>11. PICK d \in Nat : d = End(written, j) /\ d = Len(frames)
    BY <2>9 DEF End
  <2> HIDE DEF head, frames
  <2>13. /\ rest \in Seq(Tokens) /\ Piece(written, rest, d)
         /\ d + Len(rest) = e + Len(pipe)
    <3>1. Following(written, head, pipe, d, e)
      BY <2>2, <2>10, <2>11 DEF InStep, Following
    <3>2. Together(written, head, pipe, d, e)
      BY <2>1, <2>10, <3>1, PiecesJoin
    <3> QED BY <3>2 DEF Together
  <2> HIDE DEF rest
  <2>14. 0 + Len(frames) = d
    BY <2>11
  <2> DEFINE whole == frames \o rest
  <2>15. whole \in Seq(Tokens) /\ Piece(written, whole, 0) /\ 0 + Len(whole) = d + Len(rest)
    <3>1. Following(written, frames, rest, 0, d) /\ 0 \in Nat
      BY <2>9, <2>13, <2>14 DEF Following
    <3>2. Together(written, frames, rest, 0, d)
      BY <2>1, <2>9, <2>13, <3>1, PiecesJoin
    <3> QED BY <3>2 DEF Together
  <2> HIDE DEF whole
  <2>16. IsPrefix(whole, Stream(written)) /\ (Len(whole) = Len(Stream(written)) => whole = Stream(written))
    BY <2>1, <2>15, PieceIsPrefix
  <2>17. running => whole = Stream(written)
    <3>1. running => e + Len(pipe) = Len(Stream(written))
      BY <2>2 DEF InStep
    <3>2. Len(whole) = e + Len(pipe)
      <4>1. Len(whole) \in Nat
        BY <2>15
      <4> QED BY <2>13, <2>15, <4>1
    <3> QED BY <2>16, <3>1, <3>2
  <2>18. \A m \in Messages : ~IsPrefix(Frame(m), head)
    BY <2>1, NoFrameHeld DEF head, Announced
  <2> QED BY <2>8, <2>16, <2>17, <2>18 DEF whole, rest, frames, head
<1> QED BY <1>1, ReaderInvariant, PTL
=============================================================================
