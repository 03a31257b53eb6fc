-------------------------- MODULE DataPointService --------------------------
(***************************************************************************)
(* DataPointService (ProtocolAdapter/datapointservice.cpp): requests of    *)
(* the signals dialog that an adapter answers, each known to the caller by *)
(* a ticket.                                                               *)
(*                                                                         *)
(* The adapters are reduced to what the service sees of AdapterClient: when *)
(* they accept requests, which requests they track, and that they cancel   *)
(* all of them when they stop accepting.  Request ids are the positions in *)
(* "tracked"; requests of other components, which take ids too, are left   *)
(* out.  Which adapter serves a device is reconciled as in DeviceReconcile, *)
(* for adapters without a stored config.                                   *)
(***************************************************************************)
EXTENDS DeviceReconcile, OrderedSets, Sequences

CONSTANTS
    Claims,       \* adapter -> devices of its default config
    Forms,        \* contents of the address form; Default is that of the adapter
    Default,
    MaxTickets    \* bound: tickets issued

ASSUME ServiceAssumption ==
    /\ Claims \in [Adapters -> SUBSET Devices]
    /\ Default \in Forms
    /\ MaxTickets \in Nat \ {0}

VARIABLES
    owner,             \* SettingsModel::adapterIdForDevice()
    described,         \* adapters that described themselves
    adapter,           \* adapter -> whether it accepts requests
    tracked,           \* _pendingAuxRequests of its client: id -> ticket or 0
    asked,             \* tickets issued so far, and what each asks for
    pendingRequests,   \* _pendingRequests
    queuedFailures,    \* _queuedFailures
    emitting,          \* local copy of emitQueuedFailures()
    ends               \* history: how often each ticket was reported

adapterVars == <<owner, described, adapter, tracked>>
ticketVars == <<asked, pendingRequests, queuedFailures>>
serviceVars == <<adapterVars, ticketVars, emitting, ends>>

Tickets == 1 .. MaxTickets
NoTicket == 0
NewTicket == Len(asked) + 1   \* ++_lastTicket
Room == NewTicket \in Tickets

Requests == [kind : {"describe", "build"}, device : Devices \cup {0},
             adapter : Adapters \cup {NoAdapter}, form : Forms]

ServiceTypeOK ==
    /\ owner \in DeviceLists
    /\ described \subseteq Adapters
    /\ adapter \in [Adapters -> {"down", "busy", "usable"}]
    /\ tracked \in [Adapters -> Seq(0 .. Len(asked))]
    /\ \A a \in Adapters : Len(tracked[a]) <= Len(asked)
    /\ asked \in Seq(Requests) /\ Len(asked) <= MaxTickets
    /\ pendingRequests \subseteq [ticket : DOMAIN asked, adapter : Adapters, id : Tickets]
    /\ queuedFailures \in Seq(DOMAIN asked)
    /\ emitting \in Seq(DOMAIN asked)
    /\ ends \in [Tickets -> 0 .. 1]

ServiceInit ==
    /\ owner \in {[d \in Devices |-> NoAdapter],
                  [d \in Devices |-> IF d = FirstDevice THEN Modbus ELSE NoAdapter]}
    /\ described = {}
    /\ adapter = [a \in Adapters |-> "down"]
    /\ tracked = [a \in Adapters |-> << >>]
    /\ asked = << >>
    /\ pendingRequests = {}
    /\ queuedFailures = << >>
    /\ emitting = << >>
    /\ ends = [t \in Tickets |-> 0]

-----------------------------------------------------------------------------
(***************************************************************************)
(* Requests and what becomes of them.                                      *)
(***************************************************************************)

Exists(d) == d \in Ids(owner)

(* usableManager() *)
Usable(d) == Exists(d) /\ adapter[owner[d]] = "usable"

Tracks(a, id) == id \in DOMAIN tracked[a] /\ tracked[a][id] # NoTicket

(* takeTicket(): the requests found for a reply of this adapter. *)
TakenBy(a, id) == {r \in pendingRequests : r.adapter = a /\ r.id = id}

(* failLater() *)
FailLater(tickets) == queuedFailures' = queuedFailures \o tickets /\ UNCHANGED emitting

(* The tickets of the requests a client cancels, in the order of their ids. *)
CancelledBy(a) ==
    LET ids == Ascending({id \in DOMAIN tracked[a] : Tracks(a, id) /\ TakenBy(a, id) # {}})
    IN  [i \in DOMAIN ids |-> (CHOOSE r \in TakenBy(a, ids[i]) : TRUE).ticket]

(* Mutation of Cancelling: only the client forgets the requests. *)
ForgetRequests(a, andThen) ==
    /\ tracked' = [tracked EXCEPT ![a] = [id \in DOMAIN @ |-> NoTicket]]
    /\ FailLater(andThen)
    /\ UNCHANGED pendingRequests

(* clearPendingAuxRequests() and the failures it reports to the service. *)
Cancelling(a, andThen) ==
    /\ tracked' = [tracked EXCEPT ![a] = [id \in DOMAIN @ |-> NoTicket]]
    /\ pendingRequests' = {r \in pendingRequests : r.adapter # a \/ ~Tracks(a, r.id)}
    /\ FailLater(CancelledBy(a) \o andThen)

(* buildExpression() and describeDataPoint(): one ticket in any case. *)
Ask(kind, d, form) ==
    LET a == owner[d]
        request == [kind |-> kind, device |-> d, adapter |-> a, form |-> form]
    IN  /\ Room
        /\ asked' = Append(asked, request)
        /\ UNCHANGED <<owner, described, ends>>
        /\ \/ (* the adapter is not running, or it refuses *)
              /\ FailLater(<<NewTicket>>)
              /\ UNCHANGED <<adapter, tracked, pendingRequests>>
           \/ /\ Usable(d)
              /\ tracked' = [tracked EXCEPT ![a] = Append(@, NewTicket)]
              /\ pendingRequests' = pendingRequests \cup
                     {[ticket |-> NewTicket, adapter |-> a, id |-> Len(tracked[a]) + 1]}
              /\ UNCHANGED <<adapter, queuedFailures, emitting>>
           \/ (* the pipe breaks under the request *)
              /\ Usable(d)
              /\ adapter' = [adapter EXCEPT ![a] = "down"]
              /\ Cancelling(a, <<NewTicket>>)

(* Mutation of Answered: the request stays pending, its timer fails it later. *)
AnsweredAndKept(a, id, failed) ==
    /\ adapter[a] = "usable" /\ Tracks(a, id)
    /\ tracked' = [tracked EXCEPT ![a][id] = NoTicket]
    /\ FailLater(IF failed /\ TakenBy(a, id) # {}
                 THEN <<(CHOOSE r \in TakenBy(a, id) : TRUE).ticket>> ELSE << >>)
    /\ UNCHANGED <<owner, described, adapter, asked, pendingRequests>>

(* A reply the client delivers; a ticket that timed out takes nothing. *)
Answered(a, id, failed) ==
    /\ adapter[a] = "usable" /\ Tracks(a, id)
    /\ tracked' = [tracked EXCEPT ![a][id] = NoTicket]
    /\ pendingRequests' = pendingRequests \ TakenBy(a, id)
    /\ FailLater(IF failed /\ TakenBy(a, id) # {}
                 THEN <<(CHOOSE r \in TakenBy(a, id) : TRUE).ticket>> ELSE << >>)
    /\ UNCHANGED <<owner, described, adapter, asked>>

(* onRequestTimeout(); the timer of a ticket that ended does nothing. *)
RequestTimeout(r) ==
    /\ r \in pendingRequests
    /\ pendingRequests' = pendingRequests \ {r}
    /\ FailLater(<<r.ticket>>)
    /\ UNCHANGED <<adapterVars, asked, ends>>

(* emitQueuedFailures(), a call queued while there are failures. *)
EmitQueuedFailures ==
    /\ queuedFailures # << >>
    /\ emitting' = queuedFailures
    /\ queuedFailures' = << >>
    /\ UNCHANGED <<adapterVars, asked, pendingRequests, ends>>

-----------------------------------------------------------------------------
(***************************************************************************)
(* The adapters.                                                           *)
(***************************************************************************)

(* A new process described itself and accepts requests; its ids begin anew. *)
Describes(a) ==
    /\ adapter[a] = "down"
    /\ adapter' = [adapter EXCEPT ![a] = "usable"]
    /\ described' = described \cup {a}
    /\ owner' = Reconciled(owner, described', {}, Claims)
    /\ tracked' = [tracked EXCEPT ![a] = << >>]
    /\ UNCHANGED <<ticketVars, emitting, ends>>

(* It is configured or its session is stopped ("busy"), or its process ends *)
(* or fails ("down"): the client cancels what it tracks.                   *)
StopsAccepting(a, next) ==
    /\ adapter[a] \in {"usable", "busy"} \ {next} /\ next \in {"busy", "down"}
    /\ adapter' = [adapter EXCEPT ![a] = next]
    /\ Cancelling(a, << >>)
    /\ UNCHANGED <<owner, described, asked, ends>>

(* The session started or was stopped. *)
AcceptsAgain(a) ==
    /\ adapter[a] = "busy"
    /\ adapter' = [adapter EXCEPT ![a] = "usable"]
    /\ UNCHANGED <<owner, described, tracked, ticketVars, emitting, ends>>

-----------------------------------------------------------------------------
(***************************************************************************)
(* Properties.                                                             *)
(***************************************************************************)

(* A reply finds the ticket of the request it answers: the ids the service *)
(* waits for are those the client tracks for the same ticket, although ids *)
(* start again with every process.                                         *)
RepliesReachTheirRequest ==
    \A r \in pendingRequests :
        /\ Tracks(r.adapter, r.id) /\ tracked[r.adapter][r.id] = r.ticket
        /\ TakenBy(r.adapter, r.id) = {r}

Occurrences(t, seq) == Cardinality({i \in DOMAIN seq : seq[i] = t})

(* "Every ticket ends in exactly one" report: it waits for its adapter, or  *)
(* for the report of its failure, or it was reported, and only once, however *)
(* late replies, timeouts, cancellations and broken pipes fall together.   *)
TicketsAccounted ==
    \A t \in DOMAIN asked :
        (IF \E r \in pendingRequests : r.ticket = t THEN 1 ELSE 0)
        + Occurrences(t, queuedFailures) + Occurrences(t, emitting) + ends[t] = 1
=============================================================================
