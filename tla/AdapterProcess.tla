--------------------------- MODULE AdapterProcess ---------------------------
(***************************************************************************)
(* The transport below an AdapterClient (src/src/ProtocolAdapter/          *)
(* adapterprocess.cpp): one QProcess, the JSON-RPC requests it has not     *)
(* answered yet and the timer that kills it when it does not exit.         *)
(*                                                                         *)
(* A handler of AdapterClient calls these functions in the middle of its   *)
(* own work, so they are stated here as parts of an action: each fixes the *)
(* next value of the variables it names and AdapterClient conjoins it with *)
(* its own changes.  The pending map that a handler starts from is a       *)
(* parameter, because a reply leaves the map before its handler runs.      *)
(*                                                                         *)
(* proc is "off" (QProcess::NotRunning), "open" (requests can be written)  *)
(* or "shut" (its write channel is closed: stop() was called, or a write   *)
(* to it failed).  isRunning() tells "off" from the other two only: it is  *)
(* also true of a QProcess that is still in Starting when waitForStarted() *)
(* gives up on it.  QProcess keeps what is written to it in that state,    *)
(* and it comes up, ends or reports that it failed to start later.         *)
(***************************************************************************)
EXTENDS Naturals

CONSTANTS
    MaxRequestId,   \* bound: request ids handed out to one run of the process
    ChannelMayBreak \* whether the write channel of a running process may break

ASSUME ProcessAssumption ==
    /\ MaxRequestId \in Nat \ (0 .. 2)   \* a handshake takes three requests
    /\ ChannelMayBreak \in BOOLEAN

VARIABLES
    proc,            \* state of the QProcess and of its write channel
    starting,        \* whether the QProcess is still in Starting after start()
    killTimer,       \* whether _pKillTimer is running
    nextRequestId,   \* _nextRequestId
    pendingMethods   \* _pendingMethods: request id -> method, "none" when absent

processVars == <<proc, starting, killTimer, nextRequestId, pendingMethods>>

RequestIds == 1 .. MaxRequestId

SessionMethods == {"initialize", "describe", "configure", "start", "stop"}
PollMethods == {"readData", "getStatus"}
DataPointMethods == {"describeDataPoint", "buildExpression"}
LatestOnlyMethods == {"dataPointSchema", "validateDataPoint", "inspectLicense",
                      "expressionHelp"}
AuxMethods == DataPointMethods \cup LatestOnlyMethods
Methods == SessionMethods \cup PollMethods \cup AuxMethods

NoRequests == [id \in RequestIds |-> "none"]

(* The state space is bounded here.  A call of the application is taken     *)
(* only while enough ids are left for the requests its session leads to.   *)
Room(n) == nextRequestId + n <= MaxRequestId + 1

ProcessTypeOK ==
    /\ proc \in {"off", "open", "shut"}
    /\ starting \in BOOLEAN
    /\ killTimer \in BOOLEAN
    /\ nextRequestId \in 1 .. MaxRequestId + 1
    /\ pendingMethods \in [RequestIds -> Methods \cup {"none"}]

ProcessInit ==
    /\ proc = "off"
    /\ starting = FALSE
    /\ killTimer = FALSE
    /\ nextRequestId = 1
    /\ pendingMethods = NoRequests

(* start() on a process that is not running, followed by the first request *)
(* of the new run.                                                         *)
LaunchAndWrite(method) ==
    /\ proc = "off"
    /\ starting' = FALSE
    /\ killTimer' = FALSE
    /\ nextRequestId' = 2
    /\ \/ /\ proc' = "open"
          /\ pendingMethods' = [NoRequests EXCEPT ![1] = method]
       \/ /\ ChannelMayBreak
          /\ proc' = "shut"
          /\ pendingMethods' = NoRequests

(* start() that returns false: its bookkeeping is reset.  Either the       *)
(* program cannot be run, or waitForStarted() times out and the QProcess   *)
(* stays in Starting; nothing stops it then.                               *)
LaunchFails ==
    /\ proc = "off"
    /\ killTimer' = FALSE
    /\ nextRequestId' = 1
    /\ pendingMethods' = NoRequests
    /\ \/ proc' = "off" /\ starting' = FALSE
       \/ proc' = "open" /\ starting' = TRUE

(* A process that start() gave up on comes up after all. *)
ProcessComesUp ==
    /\ starting
    /\ starting' = FALSE
    /\ UNCHANGED <<proc, killTimer, nextRequestId, pendingMethods>>

(* It fails to start instead: errorOccurred() without finished(), so the   *)
(* map and the kill timer stay; the next start() resets both, and the      *)
(* timer does nothing to a process that is not running.                    *)
StartFailsLate ==
    /\ starting
    /\ starting' = FALSE
    /\ proc' = "off"
    /\ UNCHANGED <<killTimer, nextRequestId, pendingMethods>>

(* sendRequest() that reaches the adapter. *)
Write(method, pending) ==
    /\ proc = "open" /\ Room(1)
    /\ pendingMethods' = [pending EXCEPT ![nextRequestId] = method]
    /\ nextRequestId' = nextRequestId + 1
    /\ UNCHANGED <<proc, starting, killTimer>>

(* sendRequest() that emits processError() and returns -1.  The id is used  *)
(* up before the write is tried.                                            *)
WriteFails(pending) ==
    /\ proc = "open" => ChannelMayBreak
    /\ Room(1)
    /\ proc' = IF proc = "off" THEN "off" ELSE "shut"
    /\ nextRequestId' = IF proc = "off" THEN nextRequestId ELSE nextRequestId + 1
    /\ pendingMethods' = pending
    /\ UNCHANGED <<starting, killTimer>>

(* Mutation of StopProcess: nobody kills a process that ignores its input. *)
CloseInput(pending) ==
    /\ pendingMethods' = pending
    /\ proc' = IF proc = "off" THEN "off" ELSE "shut"
    /\ UNCHANGED <<starting, killTimer, nextRequestId>>

(* stop(): close stdin and give the process the kill timeout to exit. *)
StopProcess(pending) ==
    /\ pendingMethods' = pending
    /\ UNCHANGED <<starting, nextRequestId>>
    /\ IF proc = "off"
       THEN UNCHANGED <<proc, killTimer>>
       ELSE proc' = "shut" /\ killTimer' = TRUE

(* The process is left alone while the client handles a reply. *)
Undisturbed(pending) ==
    /\ pendingMethods' = pending
    /\ UNCHANGED <<proc, starting, killTimer, nextRequestId>>

(* onMessageReceived() takes the method of an answered request off the map. *)
Answered(id) == [pendingMethods EXCEPT ![id] = "none"]

(* finished(): whatever was pending is never answered. *)
ProcessGone ==
    /\ proc # "off"
    /\ proc' = "off"
    /\ starting' = FALSE
    /\ killTimer' = FALSE
    /\ pendingMethods' = NoRequests
    /\ UNCHANGED nextRequestId

(* QProcess reports that its write channel broke; nothing stops the process. *)
ChannelBreaks ==
    /\ ChannelMayBreak
    /\ proc = "open"
    /\ proc' = "shut"
    /\ UNCHANGED <<starting, killTimer, nextRequestId, pendingMethods>>
=============================================================================
