--------------------------- MODULE SessionContract ---------------------------
(***************************************************************************)
(* What an AdapterManager promises the AdapterHub, without the transport,  *)
(* the handshake messages, the timers and the auxiliary requests: the      *)
(* phase of its session, the signals each change of phase emits and the    *)
(* number of readData requests the adapter has not answered.               *)
(*                                                                         *)
(* AdapterClient is shown to implement this contract, and AdapterPolling   *)
(* is built on it: both take the moves from the one table below.           *)
(***************************************************************************)
EXTENDS Naturals, Sequences

(* "announcing" is a degraded session whose sessionStarted() is still in   *)
(* the event queue; "stopping" waits for adapter.stop to be answered,      *)
(* "killing" for the process to end.                                       *)
Phases == {"idle", "preparing", "ready", "starting", "active", "degraded",
           "announcing", "stopping", "killing"}

Move(on, from, to, out) == [on |-> on, from |-> from, to |-> to, out |-> out]

Error == <<"sessionError">>

(* Moves the hub asks for. *)
CallMoves ==
    { Move("prepare", "idle", "preparing", << >>),
      Move("configure", "ready", "starting", << >>),
      Move("configure", "ready", "announcing", << >>),
      Move("read", "active", "active", << >>),
      Move("read", "degraded", "degraded", <<"readDataResult">>),
      Move("read", "announcing", "announcing", <<"readDataResult">>),
      Move("stop", "active", "stopping", << >>) }
    \cup { Move("stop", from, "killing", << >>) :
             from \in {"preparing", "ready", "starting"} }
    \cup { Move("stop", from, "ready", <<"sessionStopped", "adapterReady">>) :
             from \in {"degraded", "announcing"} }

(* The adapter program cannot be launched: nobody is told. *)
LaunchFailures == { Move("prepare", "idle", "idle", << >>) }

(* The previous process is still on its way out. *)
RestartFailures == { Move("prepare", "idle", "idle", Error) }

(* The write channel breaks under a request. *)
WriteFailures ==
    { Move("configure", "ready", "idle", Error),
      Move("read", "active", "idle", Error),
      Move("stop", "active", "idle", <<"sessionStopped">>),
      Move("event", "preparing", "idle", <<"sessionError", "adapterReady">>) }

(* Moves the adapter, a timer or the event queue makes.  Errors of a       *)
(* process that is on its way out are still reported when the client is    *)
(* idle, and a malformed result is an error even while stopping.           *)
EventMoves ==
    { Move("event", "preparing", "ready", <<"adapterReady">>),
      Move("event", "starting", "active", <<"sessionStarted">>),
      Move("event", "starting", "degraded", <<"sessionStarted">>),
      Move("event", "announcing", "degraded", <<"sessionStarted">>),
      Move("event", "active", "active", <<"readDataResult">>),
      Move("event", "stopping", "ready", <<"sessionStopped", "adapterReady">>) }
    \cup { Move("event", from, "idle", Error) : from \in Phases }
    \cup { Move("event", from, "idle", <<"sessionStopped">>) :
             from \in {"stopping", "killing"} }

Moves == CallMoves \cup LaunchFailures \cup RestartFailures \cup WriteFailures
            \cup EventMoves

(* The readData requests that can be unanswered after a move when n were   *)
(* before.  Outside an active session replies are taken and dropped.       *)
OwedAfter(move, n) ==
    CASE move.from = "active" /\ move.to = "active" /\ move.on = "read" -> {n + 1}
      [] move.from = "active" /\ move.to = "active" /\ move.on = "event" -> {n - 1} \cap Nat
      [] move.to = "preparing" -> {0}
      [] OTHER -> 0 .. n

-----------------------------------------------------------------------------
VARIABLES phase, signals, owed

Init ==
    /\ phase = "idle"
    /\ signals = << >>
    /\ owed = 0

MakeMove(move) ==
    /\ phase = move.from
    /\ phase' = move.to
    /\ signals' = move.out
    /\ owed' \in OwedAfter(move, owed)

(* Steps of the implementation that the hub does not see. *)
Unseen ==
    /\ signals' = << >>
    /\ owed' \in 0 .. owed
    /\ UNCHANGED phase

Next == (\E move \in Moves : MakeMove(move)) \/ Unseen

Spec == Init /\ [][Next]_<<phase, signals, owed>>
=============================================================================
