----------------------- MODULE DataPointClients_proof -----------------------
(***************************************************************************)
(* Theorems about the data point service and its users, the description    *)
(* cache and the editor of a data point.                                   *)
(***************************************************************************)
EXTENDS DataPointClients, OrderedSets_proof

-----------------------------------------------------------------------------
(* The owners of devices that a reconcile leaves.                          *)

(* Adapters are numbers, none of them is NoAdapter. *)
LEMMA AdaptersAreIds == Adapters \in SUBSET Nat /\ NoAdapter \notin Adapters /\ Modbus \in Adapters
BY ReconcileAssumption DEF Adapters, NoAdapter

(* A device that is claimed goes to one of the claimants: a stored config   *)
(* before any other, "modbus" before the rest, then in their order.        *)
LEMMA ClaimedByOne ==
    ASSUME NEW claimants \in SUBSET Adapters, claimants # {}, NEW stored
    PROVE  FirstOf(claimants, stored) \in claimants
<1>1. PICK least \in claimants : \A b \in claimants : least <= b
  BY AdaptersAreIds, LeastExists
<1>2. claimants \cap stored # {} =>
        \E a \in claimants \cap stored : \A b \in claimants \cap stored : a <= b
  BY AdaptersAreIds, LeastExists
<1>3. \E a \in claimants : \A b \in claimants : Precedes(a, b, stored)
  <2>1. CASE claimants \cap stored # {}
    BY <1>2, <2>1 DEF Precedes
  <2>2. CASE claimants \cap stored = {} /\ Modbus \in claimants
    BY <2>2 DEF Precedes
  <2>3. CASE claimants \cap stored = {} /\ Modbus \notin claimants
    BY <1>1, <2>3 DEF Precedes
  <2> QED BY <2>1, <2>2, <2>3
<1> QED BY <1>3 DEF FirstOf

(* A reconciled list is a list of devices and loses none of them. *)
LEMMA ReconciledType ==
    ASSUME NEW list \in DeviceLists, NEW claiming \in SUBSET Adapters, NEW stored, NEW declared
    PROVE  /\ Reconciled(list, claiming, stored, declared) \in DeviceLists
           /\ Ids(list) \subseteq Ids(Reconciled(list, claiming, stored, declared))
<1>1. ASSUME NEW d \in Devices
      PROVE  Reconciled(list, claiming, stored, declared)[d] \in {list[d]} \cup claiming
  <2> DEFINE claimants == {a \in claiming : d \in declared[a]}
  <2>1. claimants # {} => FirstOf(claimants, stored) \in claiming
    BY ClaimedByOne
  <2> QED BY <2>1 DEF Reconciled
<1>2. Reconciled(list, claiming, stored, declared) =
        [d \in Devices |-> Reconciled(list, claiming, stored, declared)[d]]
  BY DEF Reconciled
<1> QED BY <1>1, <1>2, AdaptersAreIds DEF DeviceLists, Ids

-----------------------------------------------------------------------------
(***************************************************************************)
(* The inductive invariant.  Besides its type it says where a ticket is:   *)
(* with a request that waits for its adapter, in the queue of failures, in *)
(* the list being emitted or among the reported ones, in one of them only; *)
(* that the service waits for what the client tracks; and that the cache   *)
(* and the editor only wait for tickets that will still be reported.       *)
(***************************************************************************)

(* What the service waits for is tracked by a client that accepts requests. *)
PendingAreTracked ==
    \A r \in pendingRequests :
        /\ adapter[r.adapter] = "usable"
        /\ r.id \in DOMAIN tracked[r.adapter] /\ tracked[r.adapter][r.id] = r.ticket

Waiting == {r.ticket : r \in pendingRequests}
Reported == {t \in Tickets : ends[t] = 1}

(* No ticket is twice in one place ... *)
TicketsOnce ==
    /\ \A r, s \in pendingRequests : r.ticket = s.ticket => r = s
    /\ OnceIn(queuedFailures) /\ OnceIn(emitting)

(* ... and none is in two places, or nowhere. *)
OnePlace ==
    /\ Waiting \cup Members(queuedFailures) \cup Members(emitting) \cup Reported = DOMAIN asked
    /\ Waiting \cap Members(queuedFailures) = {}
    /\ Waiting \cap Members(emitting) = {}
    /\ Waiting \cap Reported = {}
    /\ Members(queuedFailures) \cap Members(emitting) = {}
    /\ Members(queuedFailures) \cap Reported = {}
    /\ Members(emitting) \cap Reported = {}

ServiceInv == ServiceTypeOK /\ PendingAreTracked /\ TicketsOnce /\ OnePlace

(* The cache waits for descriptions that will still be reported. *)
CacheWaits ==
    \A t \in cacheRequests : asked[t].kind = "describe" /\ ends[t] = 0

(* A described entry knows the request that brought it. *)
EntriesAreKnown ==
    \A d \in Devices :
        entries[d].state \in {"Valid", "Invalid", "Failed"} => entries[d].from \in DOMAIN asked

(* The editor waits for the expression of the form it shows; the device it *)
(* shows stays in the list.                                                *)
EditorWaits ==
    /\ editor.ticket # NoTicket =>
        /\ editor.ticket \in DOMAIN asked
        /\ ends[editor.ticket] = 0
        /\ asked[editor.ticket].kind = "build"
        /\ asked[editor.ticket].device = editor.device
        /\ asked[editor.ticket].form = editor.form
    /\ editor.device # 0 => Exists(editor.device)

ClientTypeOK ==
    /\ entries \in [Devices -> Entries]
    /\ cacheRequests \subseteq DOMAIN asked
    /\ editor \in Editors
    /\ announced \in Adapters \cup {NoAdapter}

CacheInv == CacheWaits /\ EntriesAreKnown /\ DescriptionsAwaited /\ DescribedByItsAdapter
EditorInv == EditorWaits /\ ExpressionMatchesForm /\ EditorNotSilent

IInv == ServiceInv /\ ClientTypeOK /\ CacheInv /\ EditorInv

-----------------------------------------------------------------------------
(***************************************************************************)
(* The operations of the service and the places of the tickets.            *)
(***************************************************************************)

(* The tickets issued so far, and the next one. *)
LEMMA IssuedTickets ==
    ASSUME ServiceTypeOK
    PROVE  /\ Len(asked) \in Nat /\ DOMAIN asked = 1 .. Len(asked) /\ DOMAIN asked \subseteq Tickets
           /\ NoTicket \notin Tickets /\ MaxTickets \in Nat
           /\ NewTicket \notin DOMAIN asked
           /\ Room => NewTicket \in Tickets
BY ServiceAssumption DEF ServiceTypeOK, Tickets, NoTicket, NewTicket, Room

(* Tickets that leave the waiting requests, and new ones, are found in the *)
(* queue of failures: what every operation of the service does with them.  *)
LEMMA TicketsMove ==
    ASSUME OnePlace, TicketsOnce, queuedFailures \in Seq(DOMAIN asked), DOMAIN asked \subseteq DOMAIN asked',
           DOMAIN asked' \subseteq Tickets,
           NEW tickets \in Seq(DOMAIN asked'), OnceIn(tickets),
           FailLater(tickets), UNCHANGED ends,
           \A r, s \in pendingRequests' : r.ticket = s.ticket => r = s,
           Waiting' \cup Members(tickets) = Waiting \cup (DOMAIN asked' \ DOMAIN asked),
           Waiting' \cap Members(tickets) = {}
    PROVE  /\ queuedFailures' \in Seq(DOMAIN asked')
           /\ TicketsOnce' /\ OnePlace'
<1>1. emitting' = emitting /\ queuedFailures' = queuedFailures \o tickets
  BY DEF FailLater
<1>2. Members(emitting)' = Members(emitting) /\ Reported' = Reported
  BY <1>1 DEF Members, Reported
<1>3. queuedFailures \in Seq(DOMAIN asked')
  OBVIOUS
<1>4. Members(tickets) \cap (DOMAIN asked \ Waiting) = {}
  BY DEF OnePlace
<1>5. Members(queuedFailures) \cap Members(tickets) = {}
  BY <1>4 DEF OnePlace
<1>6. /\ queuedFailures' \in Seq(DOMAIN asked')
      /\ Members(queuedFailures)' = Members(queuedFailures) \cup Members(tickets)
      /\ OnceIn(queuedFailures)'
  BY <1>1, <1>3, <1>5, Concatenation DEF TicketsOnce
<1>7. TicketsOnce'
  BY <1>1, <1>6 DEF TicketsOnce
<1>8. OnePlace'
  BY <1>2, <1>6 DEF OnePlace
<1> QED BY <1>6, <1>7, <1>8

(* A client cancels all requests the service waits for at this adapter.    *)
LEMMA CancelledTickets ==
    ASSUME ServiceTypeOK, PendingAreTracked, TicketsOnce, NEW a \in Adapters
    PROVE  /\ CancelledBy(a) \in Seq(DOMAIN asked) /\ OnceIn(CancelledBy(a))
           /\ Members(CancelledBy(a)) = {r.ticket : r \in {s \in pendingRequests : s.adapter = a}}
           /\ {r \in pendingRequests : r.adapter # a \/ ~Tracks(a, r.id)} =
              {r \in pendingRequests : r.adapter # a}
<1> DEFINE Cancelled == {id \in DOMAIN tracked[a] : Tracks(a, id) /\ TakenBy(a, id) # {}}
           ids == Ascending(Cancelled)
           n == Cardinality(Cancelled)
<1>1. /\ \A r \in pendingRequests : /\ r.ticket \in DOMAIN asked /\ r.ticket # NoTicket
                                    /\ r.adapter = a => r.id \in Cancelled
      /\ \A id \in Cancelled : \E r \in pendingRequests : r.adapter = a /\ r.id = id
  BY IssuedTickets DEF ServiceTypeOK, PendingAreTracked, Tracks, TakenBy
<1>2. \A r, s \in pendingRequests : r.adapter = a /\ s.adapter = a /\ r.id = s.id => r = s
  BY DEF PendingAreTracked, TicketsOnce
<1>3. /\ n \in Nat /\ ids \in [1 .. n -> Cancelled]
      /\ \A i, j \in 1 .. n : ids[i] = ids[j] => i = j
      /\ \A x \in Cancelled : \E i \in 1 .. n : ids[i] = x
  <2>1. Len(tracked[a]) \in Nat /\ Cancelled \in SUBSET (1 .. Len(tracked[a]))
    BY DEF ServiceTypeOK
  <2> QED BY <2>1, AscendingOrder
<1> DEFINE request(i) == CHOOSE r \in TakenBy(a, ids[i]) : TRUE
<1>4. CancelledBy(a) = [i \in 1 .. n |-> request(i).ticket]
  BY <1>3 DEF CancelledBy
<1>5. \A i \in 1 .. n : request(i) \in pendingRequests /\ request(i).adapter = a /\ request(i).id = ids[i]
  <2> SUFFICES ASSUME NEW i \in 1 .. n
               PROVE  request(i) \in TakenBy(a, ids[i])
    BY DEF TakenBy
  <2>1. ids[i] \in Cancelled
    BY <1>3
  <2> QED BY <2>1
<1> HIDE DEF n, ids, request
<1>6. CancelledBy(a) \in Seq(DOMAIN asked)
  BY <1>1, <1>3, <1>4, <1>5
<1>7. OnceIn(CancelledBy(a))
  <2> SUFFICES ASSUME NEW i \in 1 .. n, NEW j \in 1 .. n, request(i).ticket = request(j).ticket
               PROVE  i = j
    BY <1>4 DEF OnceIn
  <2> QED BY <1>3, <1>5 DEF TicketsOnce
<1>8. \A r \in pendingRequests : r.adapter = a => \E i \in 1 .. n : request(i) = r
  BY <1>1, <1>2, <1>3, <1>5
<1>9. Members(CancelledBy(a)) = {r.ticket : r \in {s \in pendingRequests : s.adapter = a}}
  <2>1. Members(CancelledBy(a)) = {request(i).ticket : i \in 1 .. n}
    BY <1>4 DEF Members
  <2> QED BY <2>1, <1>5, <1>8
<1>10. \A r \in pendingRequests : r.adapter = a => Tracks(a, r.id)
  BY <1>1
<1> QED BY <1>6, <1>7, <1>9, <1>10

(* The list of requests only grows. *)
Grows ==
    /\ asked' \in Seq(Requests) /\ Len(asked') <= MaxTickets /\ Len(asked) <= Len(asked')
    /\ \A t \in DOMAIN asked : t \in DOMAIN asked' /\ asked'[t] = asked[t]

(* What holds of sequences of tickets still does when more are issued. *)
LEMMA Growing ==
    ASSUME ServiceTypeOK, Grows
    PROVE  /\ Len(asked') \in Nat /\ DOMAIN asked' = 1 .. Len(asked')
           /\ DOMAIN asked \subseteq DOMAIN asked' /\ DOMAIN asked' \subseteq Tickets
           /\ \A S : S \in Seq(DOMAIN asked) => S \in Seq(DOMAIN asked')
           /\ \A S : S \in Seq(0 .. Len(asked)) => S \in Seq(0 .. Len(asked'))
BY IssuedTickets DEF Grows, Tickets

(* The client of an adapter cancels its requests; the failures of what it  *)
(* cancelled, and of a request that could not be sent, are queued.         *)
LEMMA CancellingStep ==
    ASSUME ServiceInv, Grows, NEW a \in Adapters,
           NEW tickets \in Seq(DOMAIN asked'), OnceIn(tickets),
           Members(tickets) = DOMAIN asked' \ DOMAIN asked,
           Cancelling(a, tickets), UNCHANGED <<owner, described, ends>>,
           NEW next \in {"down", "busy"}, adapter' = [adapter EXCEPT ![a] = next]
    PROVE  ServiceInv'
<1> USE DEF ServiceInv
<1>1. /\ CancelledBy(a) \in Seq(DOMAIN asked) /\ OnceIn(CancelledBy(a))
      /\ Members(CancelledBy(a)) = {r.ticket : r \in {s \in pendingRequests : s.adapter = a}}
      /\ pendingRequests' = {r \in pendingRequests : r.adapter # a}
  BY CancelledTickets DEF Cancelling
<1>2. \A r \in pendingRequests : r.ticket \in DOMAIN asked
  BY DEF ServiceTypeOK
<1>3. CancelledBy(a) \in Seq(DOMAIN asked')
  BY <1>1, Growing
<1>4. Members(CancelledBy(a)) \subseteq DOMAIN asked
  BY <1>1, <1>2
<1>5. /\ CancelledBy(a) \o tickets \in Seq(DOMAIN asked')
      /\ OnceIn(CancelledBy(a) \o tickets)
      /\ Members(CancelledBy(a) \o tickets) = Members(CancelledBy(a)) \cup Members(tickets)
  BY <1>1, <1>3, <1>4, Concatenation
<1>6. \A r, s \in pendingRequests : r.ticket = s.ticket => r = s
  BY DEF TicketsOnce
<1>7. Waiting' \cup Members(CancelledBy(a)) = Waiting /\ Waiting' \cap Members(CancelledBy(a)) = {}
  BY <1>1, <1>6 DEF Waiting
<1>8. /\ Waiting' \cup Members(CancelledBy(a) \o tickets) = Waiting \cup (DOMAIN asked' \ DOMAIN asked)
      /\ Waiting' \cap Members(CancelledBy(a) \o tickets) = {}
  <2>1. Waiting \subseteq DOMAIN asked
    BY <1>2 DEF Waiting
  <2> QED BY <1>5, <1>7, <2>1
<1>9. FailLater(CancelledBy(a) \o tickets)
  BY DEF Cancelling
<1>10. queuedFailures' \in Seq(DOMAIN asked') /\ TicketsOnce' /\ OnePlace'
  BY <1>1, <1>5, <1>6, <1>8, <1>9, Growing, TicketsMove DEF ServiceTypeOK
<1>11. PendingAreTracked'
  BY <1>1 DEF PendingAreTracked, Cancelling, ServiceTypeOK
<1>12. /\ tracked' \in [Adapters -> Seq(0 .. Len(asked'))]
       /\ \A b \in Adapters : Len(tracked'[b]) <= Len(asked')
  <2>1. tracked' = [tracked EXCEPT ![a] = [id \in DOMAIN tracked[a] |-> NoTicket]]
    BY DEF Cancelling
  <2>2. /\ [id \in DOMAIN tracked[a] |-> NoTicket] \in Seq(0 .. Len(asked'))
        /\ Len([id \in DOMAIN tracked[a] |-> NoTicket]) = Len(tracked[a])
    BY Growing DEF ServiceTypeOK, NoTicket
  <2>3. \A b \in Adapters : tracked[b] \in Seq(0 .. Len(asked')) /\ Len(tracked[b]) <= Len(asked')
    BY Growing, IssuedTickets DEF ServiceTypeOK, Grows
  <2> QED BY <2>1, <2>2, <2>3 DEF ServiceTypeOK
<1>13. ServiceTypeOK'
  <2>1. emitting' \in Seq(DOMAIN asked')
    BY <1>9, Growing DEF FailLater, ServiceTypeOK
  <2>2. pendingRequests' \subseteq [ticket : DOMAIN asked', adapter : Adapters, id : Tickets]
    BY <1>1, Growing DEF ServiceTypeOK
  <2> QED BY <1>10, <1>12, <2>1, <2>2 DEF ServiceTypeOK, Grows
<1> QED BY <1>10, <1>11, <1>13

(* A request gets the next ticket, whether it is sent, refused or breaks   *)
(* the pipe.                                                               *)
LEMMA Asking ==
    ASSUME ServiceInv, NEW kind \in {"describe", "build"}, NEW d \in Devices, NEW form \in Forms,
           Ask(kind, d, form)
    PROVE  /\ ServiceInv' /\ Grows /\ UNCHANGED <<owner, ends>>
           /\ NewTicket \in Tickets /\ DOMAIN asked' = DOMAIN asked \cup {NewTicket}
           /\ NewTicket \notin DOMAIN asked /\ ends[NewTicket] = 0
           /\ asked'[NewTicket] = [kind |-> kind, device |-> d, adapter |-> owner[d], form |-> form]
<1> USE DEF ServiceInv
<1> DEFINE a == owner[d]
           request == [kind |-> kind, device |-> d, adapter |-> a, form |-> form]
<1>1. /\ a \in Adapters \cup {NoAdapter} /\ request \in Requests
      /\ NewTicket \in Tickets /\ NewTicket \notin DOMAIN asked
      /\ asked' = Append(asked, request) /\ Room
      /\ UNCHANGED <<owner, described, ends>>
  BY IssuedTickets DEF Ask, ServiceTypeOK, DeviceLists, Requests
<1>2. /\ Grows /\ DOMAIN asked' = DOMAIN asked \cup {NewTicket}
      /\ asked'[NewTicket] = request
  BY <1>1, IssuedTickets DEF Grows, ServiceTypeOK, NewTicket, Tickets
<1>3. ends[NewTicket] = 0
  BY <1>1 DEF ServiceTypeOK, OnePlace, Reported
<1>4. /\ <<NewTicket>> \in Seq(DOMAIN asked') /\ OnceIn(<<NewTicket>>)
      /\ Members(<<NewTicket>>) = DOMAIN asked' \ DOMAIN asked
      /\ << >> \in Seq(DOMAIN asked') /\ OnceIn(<< >>) /\ Members(<< >>) = {}
  BY <1>1, <1>2, ShortLists
<1>5. /\ \A r \in pendingRequests : r.ticket \in DOMAIN asked
      /\ \A r, s \in pendingRequests : r.ticket = s.ticket => r = s
      /\ Waiting \subseteq DOMAIN asked
  BY DEF ServiceTypeOK, TicketsOnce, Waiting
<1>6. ServiceInv'
  <2>1. CASE FailLater(<<NewTicket>>) /\ UNCHANGED <<adapter, tracked, pendingRequests>>
    <3>1. Waiting' = Waiting
      BY <2>1 DEF Waiting
    <3>2. queuedFailures' \in Seq(DOMAIN asked') /\ TicketsOnce' /\ OnePlace'
      <4>1. /\ OnePlace /\ TicketsOnce /\ queuedFailures \in Seq(DOMAIN asked) /\ UNCHANGED ends
            /\ DOMAIN asked \subseteq DOMAIN asked' /\ DOMAIN asked' \subseteq Tickets
        BY <1>1, <1>2, Growing DEF ServiceTypeOK
      <4>2. /\ FailLater(<<NewTicket>>)
            /\ \A r, s \in pendingRequests' : r.ticket = s.ticket => r = s
        BY <1>5, <2>1
      <4>3. /\ Waiting' \cup Members(<<NewTicket>>) = Waiting \cup (DOMAIN asked' \ DOMAIN asked)
            /\ Waiting' \cap Members(<<NewTicket>>) = {}
        BY ONLY <1>4, <1>5, <3>1
      <4>4. <<NewTicket>> \in Seq(DOMAIN asked') /\ OnceIn(<<NewTicket>>)
        BY <1>4
      <4> QED BY ONLY <4>1, <4>2, <4>3, <4>4, TicketsMove
    <3>3. PendingAreTracked'
      BY <2>1 DEF PendingAreTracked
    <3>4. ServiceTypeOK'
      BY <1>1, <1>2, <2>1, <3>2, Growing DEF ServiceTypeOK, FailLater, Grows
    <3> QED BY <3>2, <3>3, <3>4
  <2>2. CASE /\ Usable(d)
             /\ tracked' = [tracked EXCEPT ![a] = Append(@, NewTicket)]
             /\ pendingRequests' = pendingRequests \cup
                    {[ticket |-> NewTicket, adapter |-> a, id |-> Len(tracked[a]) + 1]}
             /\ UNCHANGED <<adapter, queuedFailures, emitting>>
    <3> DEFINE id == Len(tracked[a]) + 1
               r0 == [ticket |-> NewTicket, adapter |-> a, id |-> id]
    <3>1. /\ a \in Adapters /\ adapter[a] = "usable"
          /\ tracked[a] \in Seq(0 .. Len(asked)) /\ Len(tracked[a]) <= Len(asked)
      BY <1>1, <2>2 DEF Usable, Exists, Ids, ServiceTypeOK
    <3>2. id \in Tickets /\ id \notin DOMAIN tracked[a]
      BY <1>1, <3>1, IssuedTickets DEF ServiceTypeOK, NewTicket, Tickets
    <3>3. pendingRequests' = pendingRequests \cup {r0}
      BY <2>2
    <3>4. Append(tracked[a], NewTicket) \in Seq(0 .. Len(asked'))
      BY <1>1, <1>2, <3>1, IssuedTickets, Growing DEF NewTicket
    <3>5. /\ tracked' \in [Adapters -> Seq(0 .. Len(asked'))]
          /\ \A b \in Adapters : Len(tracked'[b]) <= Len(asked')
      <4>1. \A b \in Adapters : tracked[b] \in Seq(0 .. Len(asked')) /\ Len(tracked[b]) <= Len(asked')
        BY <1>2, Growing, IssuedTickets DEF ServiceTypeOK, Grows
      <4>2. Len(Append(tracked[a], NewTicket)) <= Len(asked')
        BY <1>1, <3>1, IssuedTickets DEF ServiceTypeOK
      <4> QED BY <2>2, <3>4, <4>1, <4>2 DEF ServiceTypeOK
    <3>6. PendingAreTracked'
      <4>1. \A r \in pendingRequests :
               /\ r.id \in DOMAIN tracked'[r.adapter] /\ tracked'[r.adapter][r.id] = r.ticket
        <5> TAKE r \in pendingRequests
        <5>1. /\ r.adapter \in Adapters /\ r.id \in DOMAIN tracked[r.adapter]
              /\ tracked[r.adapter][r.id] = r.ticket
          BY DEF PendingAreTracked, ServiceTypeOK
        <5>2. CASE r.adapter = a
          <6> DEFINE old == tracked[a]
          <6>1. old \in Seq(0 .. Len(asked)) /\ r.id \in DOMAIN old /\ old[r.id] = r.ticket
            BY <3>1, <5>1, <5>2
          <6>2. tracked'[r.adapter] = Append(old, NewTicket)
            BY <2>2, <3>1, <5>2 DEF ServiceTypeOK
          <6> HIDE DEF old
          <6>3. r.id \in DOMAIN Append(old, NewTicket) /\ Append(old, NewTicket)[r.id] = old[r.id]
            BY ONLY <6>1
          <6> QED BY <6>1, <6>2, <6>3
        <5>3. CASE r.adapter # a
          BY <2>2, <5>1, <5>3 DEF ServiceTypeOK
        <5> QED BY <5>2, <5>3
      <4>2. id \in DOMAIN tracked'[a] /\ tracked'[a][id] = NewTicket
        BY <2>2, <3>1 DEF ServiceTypeOK
      <4> QED BY <2>2, <3>1, <3>3, <4>1, <4>2 DEF PendingAreTracked
    <3>7. TicketsOnce'
      BY <1>1, <1>5, <2>2, <3>3 DEF TicketsOnce
    <3>8. OnePlace'
      <4>1. Waiting' = Waiting \cup {NewTicket}
        <5>1. r0.ticket = NewTicket
          OBVIOUS
        <5> HIDE DEF r0
        <5> QED BY <3>3, <5>1 DEF Waiting
      <4>2. UNCHANGED <<Members(queuedFailures), Members(emitting), Reported>>
        BY <1>1, <2>2 DEF Members, Reported
      <4> QED BY <1>1, <1>2, <4>1, <4>2 DEF OnePlace
    <3>9. ServiceTypeOK'
      <4>1. r0 \in [ticket : DOMAIN asked', adapter : Adapters, id : Tickets]
        BY <1>2, <3>1, <3>2
      <4>2. pendingRequests' \subseteq [ticket : DOMAIN asked', adapter : Adapters, id : Tickets]
        BY <1>2, <3>3, <4>1 DEF ServiceTypeOK
      <4> QED BY <1>1, <1>2, <2>2, <3>5, <4>2, Growing DEF ServiceTypeOK, Grows
    <3> QED BY <3>6, <3>7, <3>8, <3>9
  <2>3. CASE /\ Usable(d)
             /\ adapter' = [adapter EXCEPT ![a] = "down"]
             /\ Cancelling(a, <<NewTicket>>)
    <3>1. a \in Adapters
      BY <1>1, <2>3 DEF Usable, Exists, Ids
    <3> QED BY <1>1, <1>2, <1>4, <2>3, <3>1, CancellingStep
  <2> QED BY <2>1, <2>2, <2>3 DEF Ask
<1> QED BY <1>1, <1>2, <1>3, <1>6

(* The client stops accepting requests. *)
LEMMA StoppingAccepting ==
    ASSUME ServiceInv, NEW a \in Adapters, NEW next \in {"down", "busy"}, StopsAccepting(a, next)
    PROVE  ServiceInv' /\ UNCHANGED <<owner, asked, ends>>
<1>1. Grows
  BY IssuedTickets DEF ServiceInv, ServiceTypeOK, Grows, StopsAccepting
<1>2. << >> \in Seq(DOMAIN asked') /\ OnceIn(<< >>) /\ Members(<< >>) = DOMAIN asked' \ DOMAIN asked
  BY DEF OnceIn, Members, StopsAccepting
<1> QED BY <1>1, <1>2, CancellingStep DEF StopsAccepting

(* What a reply and a timeout do: one request stops waiting, and when it   *)
(* failed its ticket is queued.                                            *)
LEMMA Settling ==
    ASSUME ServiceInv, NEW r \in pendingRequests, pendingRequests' = pendingRequests \ {r}
    PROVE  /\ r.ticket \in DOMAIN asked /\ r.ticket \in Tickets
           /\ ends[r.ticket] = 0 /\ r.ticket \notin Members(queuedFailures) \cup Members(emitting)
           /\ Waiting' = Waiting \ {r.ticket} /\ r.ticket \in Waiting
           /\ \A s, u \in pendingRequests' : s.ticket = u.ticket => s = u
           /\ pendingRequests' \subseteq [ticket : DOMAIN asked, adapter : Adapters, id : Tickets]
<1> USE DEF ServiceInv
<1>1. r.ticket \in DOMAIN asked /\ r.ticket \in Tickets
  BY IssuedTickets DEF ServiceTypeOK
<1>2. r.ticket \in Waiting
  BY DEF Waiting
<1>3. ends[r.ticket] = 0
  BY <1>1, <1>2 DEF ServiceTypeOK, OnePlace, Reported
<1>4. Waiting' = Waiting \ {r.ticket}
  BY DEF Waiting, TicketsOnce
<1> QED BY <1>1, <1>2, <1>3, <1>4 DEF OnePlace, TicketsOnce, ServiceTypeOK

(* A failed request's ticket waits for its report.                         *)
LEMMA Failing ==
    ASSUME ServiceInv, NEW r \in pendingRequests, pendingRequests' = pendingRequests \ {r},
           FailLater(<<r.ticket>>), UNCHANGED <<asked, ends>>
    PROVE  /\ TicketsOnce' /\ OnePlace' /\ queuedFailures' \in Seq(DOMAIN asked')
           /\ emitting' \in Seq(DOMAIN asked')
           /\ pendingRequests' \subseteq [ticket : DOMAIN asked', adapter : Adapters, id : Tickets]
<1> USE DEF ServiceInv
<1>1. /\ <<r.ticket>> \in Seq(DOMAIN asked') /\ OnceIn(<<r.ticket>>)
      /\ Members(<<r.ticket>>) = {r.ticket}
  BY Settling, ShortLists
<1>2. /\ Waiting' \cup Members(<<r.ticket>>) = Waiting \cup (DOMAIN asked' \ DOMAIN asked)
      /\ Waiting' \cap Members(<<r.ticket>>) = {}
  BY <1>1, Settling
<1>3. DOMAIN asked \subseteq DOMAIN asked' /\ DOMAIN asked' \subseteq Tickets
  BY IssuedTickets
<1>4. \A s, u \in pendingRequests' : s.ticket = u.ticket => s = u
  BY Settling
<1>5. TicketsOnce' /\ OnePlace' /\ queuedFailures' \in Seq(DOMAIN asked')
  BY <1>1, <1>2, <1>3, <1>4, TicketsMove DEF ServiceTypeOK
<1> QED BY <1>5, Settling DEF FailLater, ServiceTypeOK

(* The ids a client tracks when one of its requests is answered.           *)
LEMMA TrackedOnAnswer ==
    ASSUME ServiceInv, UNCHANGED asked, NEW a \in Adapters, NEW id, Tracks(a, id),
           tracked' = [tracked EXCEPT ![a][id] = NoTicket]
    PROVE  /\ tracked' \in [Adapters -> Seq(0 .. Len(asked'))]
           /\ \A b \in Adapters : Len(tracked'[b]) <= Len(asked')
           /\ \A b \in Adapters : DOMAIN tracked'[b] = DOMAIN tracked[b]
           /\ \A b \in Adapters : \A j \in DOMAIN tracked[b] :
                 (b # a \/ j # id) => tracked'[b][j] = tracked[b][j]
<1> USE DEF ServiceInv
<1> DEFINE seq == [tracked[a] EXCEPT ![id] = NoTicket]
<1>1. tracked' = [tracked EXCEPT ![a] = seq]
  OBVIOUS
<1>2. /\ tracked[a] \in Seq(0 .. Len(asked)) /\ id \in DOMAIN tracked[a]
      /\ Len(asked) \in Nat
  BY IssuedTickets DEF ServiceTypeOK, Tracks
<1>3. /\ seq \in Seq(0 .. Len(asked)) /\ Len(seq) = Len(tracked[a])
      /\ \A j \in DOMAIN tracked[a] : j # id => seq[j] = tracked[a][j]
  BY <1>2 DEF NoTicket
<1> HIDE DEF seq
<1>4. DOMAIN seq = DOMAIN tracked[a]
  BY <1>2, <1>3
<1> QED BY <1>1, <1>2, <1>3, <1>4 DEF ServiceTypeOK

(* The reply of an adapter ends the wait of the request it answers; a      *)
(* result is reported at once, an error later.                             *)
LEMMA Answering ==
    ASSUME ServiceInv, NEW a \in Adapters, NEW id \in Tickets, NEW failed \in BOOLEAN,
           Answered(a, id, failed),
           \/ (failed \/ TakenBy(a, id) = {}) /\ UNCHANGED ends
           \/ ~failed /\ \E r \in TakenBy(a, id) : ends' = [ends EXCEPT ![r.ticket] = @ + 1]
    PROVE  ServiceInv'
<1> USE DEF ServiceInv
<1>1. /\ tracked' \in [Adapters -> Seq(0 .. Len(asked'))]
      /\ \A b \in Adapters : Len(tracked'[b]) <= Len(asked')
      /\ \A b \in Adapters : DOMAIN tracked'[b] = DOMAIN tracked[b]
      /\ \A b \in Adapters : \A j \in DOMAIN tracked[b] :
            (b # a \/ j # id) => tracked'[b][j] = tracked[b][j]
  BY TrackedOnAnswer DEF Answered
<1>2. PendingAreTracked'
  <2> SUFFICES ASSUME NEW r \in pendingRequests'
               PROVE  /\ adapter'[r.adapter] = "usable"
                      /\ r.id \in DOMAIN tracked'[r.adapter]
                      /\ tracked'[r.adapter][r.id] = r.ticket
    BY DEF PendingAreTracked
  <2>1. r \in pendingRequests /\ (r.adapter # a \/ r.id # id) /\ r.adapter \in Adapters
    BY DEF Answered, TakenBy, ServiceTypeOK
  <2> QED BY <1>1, <2>1 DEF PendingAreTracked, Answered
<1>3. CASE TakenBy(a, id) = {}
  <2>1. /\ pendingRequests' = pendingRequests /\ FailLater(<< >>)
        /\ UNCHANGED <<owner, described, adapter, asked, ends>>
    BY <1>3 DEF Answered
  <2>2. queuedFailures' = queuedFailures /\ emitting' = emitting
    BY <2>1 DEF FailLater, ServiceTypeOK
  <2>3. TicketsOnce' /\ OnePlace'
    <3>1. /\ Waiting' = Waiting /\ Reported' = Reported
          /\ Members(queuedFailures)' = Members(queuedFailures)
          /\ Members(emitting)' = Members(emitting)
          /\ DOMAIN asked' = DOMAIN asked
      BY <2>1, <2>2 DEF Waiting, Reported, Members
    <3> QED BY <2>1, <2>2, <3>1 DEF TicketsOnce, OnePlace, OnceIn
  <2> QED BY <1>1, <1>2, <2>1, <2>2, <2>3 DEF ServiceTypeOK
<1>4. CASE TakenBy(a, id) # {}
  <2>1. PICK r \in TakenBy(a, id) : ~failed => ends' = [ends EXCEPT ![r.ticket] = @ + 1]
    BY <1>4
  <2>2. TakenBy(a, id) = {r} /\ r \in pendingRequests
    BY <2>1 DEF TakenBy, PendingAreTracked, TicketsOnce
  <2>3. /\ pendingRequests' = pendingRequests \ {r}
        /\ FailLater(IF failed THEN <<r.ticket>> ELSE << >>)
        /\ UNCHANGED <<owner, described, adapter, asked>>
    BY <1>4, <2>2 DEF Answered
  <2>4. CASE failed
    <3>1. FailLater(<<r.ticket>>) /\ UNCHANGED ends
      BY <2>3, <2>4
    <3>2. /\ TicketsOnce' /\ OnePlace' /\ queuedFailures' \in Seq(DOMAIN asked')
          /\ emitting' \in Seq(DOMAIN asked')
          /\ pendingRequests' \subseteq [ticket : DOMAIN asked', adapter : Adapters, id : Tickets]
      BY <2>2, <2>3, <3>1, Failing
    <3> QED BY <1>1, <1>2, <2>3, <3>1, <3>2 DEF ServiceTypeOK
  <2>5. CASE ~failed
    <3>1. queuedFailures' = queuedFailures /\ emitting' = emitting
      BY <2>3, <2>5 DEF FailLater, ServiceTypeOK
    <3>2. /\ r.ticket \in Tickets /\ r.ticket \in DOMAIN asked /\ ends[r.ticket] = 0
          /\ r.ticket \notin Members(queuedFailures) \cup Members(emitting)
          /\ Waiting' = Waiting \ {r.ticket} /\ r.ticket \in Waiting
          /\ \A s, u \in pendingRequests' : s.ticket = u.ticket => s = u
          /\ pendingRequests' \subseteq [ticket : DOMAIN asked, adapter : Adapters, id : Tickets]
      BY <2>2, <2>3, Settling
    <3>3. ends' \in [Tickets -> 0 .. 1] /\ Reported' = Reported \cup {r.ticket}
      <4>1. ends \in [Tickets -> 0 .. 1]
        BY DEF ServiceTypeOK
      <4>2. /\ ends' = [ends EXCEPT ![r.ticket] = @ + 1]
            /\ r.ticket \in Tickets /\ ends[r.ticket] = 0
        BY ONLY <2>1, <2>5, <3>2
      <4>3. /\ ends' \in [Tickets -> 0 .. 1] /\ ends'[r.ticket] = 1
            /\ \A t \in Tickets \ {r.ticket} : ends'[t] = ends[t]
        BY ONLY <4>1, <4>2
      <4> QED BY ONLY <4>2, <4>3 DEF Reported
    <3>4. TicketsOnce'
      BY <3>1, <3>2 DEF TicketsOnce, OnceIn
    <3>5. OnePlace'
      <4>1. /\ Members(queuedFailures)' = Members(queuedFailures)
            /\ Members(emitting)' = Members(emitting)
            /\ DOMAIN asked' = DOMAIN asked
        BY <2>3, <3>1 DEF Members
      <4> QED BY <3>2, <3>3, <4>1 DEF OnePlace
    <3>6. ServiceTypeOK'
      BY <1>1, <2>3, <3>1, <3>2, <3>3 DEF ServiceTypeOK
    <3> QED BY <1>2, <3>4, <3>5, <3>6
  <2> QED BY <2>4, <2>5
<1> QED BY <1>3, <1>4

(* A request that timed out stays tracked by its client, but the service   *)
(* no longer waits for it.                                                 *)
LEMMA TimingOut ==
    ASSUME ServiceInv, NEW r \in pendingRequests, RequestTimeout(r)
    PROVE  ServiceInv'
<1>1. /\ TicketsOnce' /\ OnePlace' /\ queuedFailures' \in Seq(DOMAIN asked')
      /\ emitting' \in Seq(DOMAIN asked')
      /\ pendingRequests' \subseteq [ticket : DOMAIN asked', adapter : Adapters, id : Tickets]
  BY Failing DEF RequestTimeout
<1>2. PendingAreTracked'
  BY DEF ServiceInv, PendingAreTracked, RequestTimeout, adapterVars
<1>3. ServiceTypeOK'
  BY <1>1 DEF ServiceInv, ServiceTypeOK, RequestTimeout, adapterVars
<1> QED BY <1>1, <1>2, <1>3 DEF ServiceInv

(* The queued failures become the list being emitted.                      *)
LEMMA EmittingQueue ==
    ASSUME ServiceInv, emitting = << >>, EmitQueuedFailures
    PROVE  ServiceInv'
<1> USE DEF ServiceInv
<1>1. /\ emitting' = queuedFailures /\ queuedFailures' = << >>
      /\ UNCHANGED <<adapterVars, asked, pendingRequests, ends>>
  BY DEF EmitQueuedFailures
<1>2. /\ Members(emitting)' = Members(queuedFailures) /\ Members(emitting) = {}
      /\ Members(queuedFailures)' = {} /\ OnceIn(queuedFailures)' /\ OnceIn(emitting)'
      /\ Waiting' = Waiting /\ Reported' = Reported
  BY <1>1 DEF Members, Waiting, Reported, OnceIn, TicketsOnce
<1>3. OnePlace'
  BY <1>1, <1>2 DEF OnePlace
<1>4. TicketsOnce'
  BY <1>1, <1>2 DEF TicketsOnce
<1>5. ServiceTypeOK' /\ PendingAreTracked'
  BY <1>1 DEF ServiceTypeOK, PendingAreTracked, adapterVars
<1> QED BY <1>3, <1>4, <1>5

(* One of the failures is reported.                                        *)
LEMMA EmittingOne ==
    ASSUME ServiceInv, emitting # << >>, emitting' = Tail(emitting),
           ends' = [ends EXCEPT ![Head(emitting)] = @ + 1],
           UNCHANGED <<adapterVars, ticketVars>>
    PROVE  /\ ServiceInv'
           /\ Head(emitting) \in DOMAIN asked /\ Head(emitting) \in Tickets
           /\ ends[Head(emitting)] = 0
<1> USE DEF ServiceInv
<1> DEFINE t == Head(emitting)
<1>1. /\ t \in DOMAIN asked /\ t \in Members(emitting)
      /\ emitting' \in Seq(DOMAIN asked) /\ OnceIn(emitting)'
      /\ Members(emitting)' = Members(emitting) \ {t}
  BY FirstAndRest, HeadAndTail DEF ServiceTypeOK, TicketsOnce
<1>2. t \in Tickets /\ ends[t] = 0
  BY <1>1, IssuedTickets DEF OnePlace, Reported, ServiceTypeOK
<1>3. ends' \in [Tickets -> 0 .. 1] /\ Reported' = Reported \cup {t}
  BY <1>2 DEF ServiceTypeOK, Reported
<1>4. /\ Members(queuedFailures)' = Members(queuedFailures) /\ Waiting' = Waiting
      /\ OnceIn(queuedFailures)' /\ DOMAIN asked' = DOMAIN asked
  BY DEF ticketVars, Members, Waiting, OnceIn, TicketsOnce
<1> HIDE DEF t
<1>5. OnePlace'
  <2>1. /\ Waiting \cup Members(queuedFailures) \cup Members(emitting) \cup Reported = DOMAIN asked
        /\ Waiting \cap Members(queuedFailures) = {} /\ Waiting \cap Members(emitting) = {}
        /\ Waiting \cap Reported = {} /\ Members(queuedFailures) \cap Members(emitting) = {}
        /\ Members(queuedFailures) \cap Reported = {} /\ Members(emitting) \cap Reported = {}
    BY DEF OnePlace
  <2>2. /\ Waiting' = Waiting /\ Members(queuedFailures)' = Members(queuedFailures)
        /\ Members(emitting)' = Members(emitting) \ {t} /\ Reported' = Reported \cup {t}
        /\ DOMAIN asked' = DOMAIN asked /\ t \in Members(emitting)
    BY <1>1, <1>3, <1>4
  <2>3. Waiting' \cup Members(queuedFailures)' \cup Members(emitting)' \cup Reported' = DOMAIN asked'
    BY ONLY <2>1, <2>2
  <2>4. /\ Waiting' \cap Members(queuedFailures)' = {} /\ Waiting' \cap Members(emitting)' = {}
        /\ Waiting' \cap Reported' = {}
    BY ONLY <2>1, <2>2
  <2>5. /\ Members(queuedFailures)' \cap Members(emitting)' = {}
        /\ Members(queuedFailures)' \cap Reported' = {} /\ Members(emitting)' \cap Reported' = {}
    BY ONLY <2>1, <2>2
  <2> QED BY <2>3, <2>4, <2>5 DEF OnePlace
<1>6. TicketsOnce'
  BY <1>1, <1>4 DEF TicketsOnce, ticketVars
<1>7. ServiceTypeOK' /\ PendingAreTracked'
  BY <1>1, <1>3 DEF ServiceTypeOK, PendingAreTracked, adapterVars, ticketVars
<1> QED BY <1>1, <1>2, <1>5, <1>6, <1>7 DEF t

(* The ticket's places when no ticket moved.                               *)
LEMMA NothingMoves ==
    ASSUME ServiceInv, UNCHANGED <<ticketVars, emitting, ends>>
    PROVE  TicketsOnce' /\ OnePlace'
<1>1. /\ Members(queuedFailures)' = Members(queuedFailures)
      /\ Members(emitting)' = Members(emitting)
      /\ Waiting' = Waiting /\ Reported' = Reported /\ DOMAIN asked' = DOMAIN asked
  BY DEF ticketVars, Members, Waiting, Reported
<1> QED BY <1>1 DEF ServiceInv, OnePlace, TicketsOnce, OnceIn, ticketVars

(* A new process describes itself: nothing waits for its adapter.  Devices *)
(* may change their adapter, none leaves the list.                         *)
LEMMA Describing ==
    ASSUME ServiceInv, NEW a \in Adapters, Describes(a)
    PROVE  ServiceInv' /\ Ids(owner) \subseteq Ids(owner')
<1> USE DEF ServiceInv
<1>1. /\ adapter[a] = "down" /\ adapter' = [adapter EXCEPT ![a] = "usable"]
      /\ described' = described \cup {a}
      /\ owner' = Reconciled(owner, described', {}, Claims)
      /\ tracked' = [tracked EXCEPT ![a] = << >>]
      /\ UNCHANGED <<ticketVars, emitting, ends>>
  BY DEF Describes
<1>2. described' \in SUBSET Adapters
  BY <1>1 DEF ServiceTypeOK
<1>3. owner' \in DeviceLists /\ Ids(owner) \subseteq Ids(owner')
  BY <1>1, <1>2, ReconciledType DEF ServiceTypeOK
<1>4. PendingAreTracked'
  BY <1>1 DEF PendingAreTracked, ServiceTypeOK, ticketVars
<1>5. /\ tracked' \in [Adapters -> Seq(0 .. Len(asked'))]
      /\ \A b \in Adapters : Len(tracked'[b]) <= Len(asked')
  <2>1. << >> \in Seq(0 .. Len(asked')) /\ Len(<< >>) <= Len(asked')
    BY <1>1, IssuedTickets DEF ticketVars
  <2> QED BY <1>1, <2>1 DEF ServiceTypeOK, ticketVars
<1>6. ServiceTypeOK'
  BY <1>1, <1>2, <1>3, <1>5 DEF ServiceTypeOK, ticketVars
<1> QED BY <1>1, <1>3, <1>4, <1>6, NothingMoves

(* An adapter that accepts requests again disturbs no ticket. *)
LEMMA AcceptingAgain ==
    ASSUME ServiceInv, NEW a \in Adapters, AcceptsAgain(a)
    PROVE  ServiceInv'
<1>1. ServiceTypeOK' /\ PendingAreTracked'
  BY DEF AcceptsAgain, ServiceInv, ServiceTypeOK, PendingAreTracked, ticketVars
<1> QED BY <1>1, NothingMoves DEF AcceptsAgain, ServiceInv

(* A step that leaves the service alone keeps its invariant. *)
LEMMA ServiceUnchanged ==
    ASSUME ServiceInv, UNCHANGED serviceVars
    PROVE  ServiceInv'
<1>1. ServiceTypeOK' /\ PendingAreTracked'
  BY DEF serviceVars, adapterVars, ticketVars, ServiceInv, ServiceTypeOK, PendingAreTracked
<1> QED BY <1>1, NothingMoves DEF serviceVars, ServiceInv

-----------------------------------------------------------------------------
(***************************************************************************)
(* The cache.                                                              *)
(***************************************************************************)

CacheTypeOK == entries \in [Devices -> Entries] /\ cacheRequests \subseteq DOMAIN asked

(* The cache may stand still while the service works, as long as nothing   *)
(* it waits for is reported.                                               *)
LEMMA CacheKept ==
    ASSUME ServiceTypeOK, CacheTypeOK, CacheInv, Grows, UNCHANGED cacheVars,
           \A t \in cacheRequests : ends'[t] = ends[t]
    PROVE  CacheTypeOK' /\ CacheInv'
<1>1. entries' = entries /\ cacheRequests' = cacheRequests
  BY DEF cacheVars
<1>2. \A t \in DOMAIN asked : t \in DOMAIN asked' /\ asked'[t] = asked[t]
  BY DEF Grows
<1>3. CacheTypeOK'
  BY <1>1, <1>2 DEF CacheTypeOK
<1>4. CacheWaits'
  BY <1>1, <1>2 DEF CacheWaits, CacheInv, CacheTypeOK
<1>5. EntriesAreKnown' /\ DescribedByItsAdapter'
  BY <1>1, <1>2 DEF EntriesAreKnown, DescribedByItsAdapter, CacheInv
<1>6. DescriptionsAwaited'
  BY <1>1, <1>2 DEF DescriptionsAwaited, CacheInv, CacheTypeOK
<1> QED BY <1>3, <1>4, <1>5, <1>6 DEF CacheInv

(* A reported description leaves the requests and replaces its entry, when *)
(* that still stands for the adapter that was asked.                       *)
LEMMA Learning ==
    ASSUME ServiceTypeOK, CacheTypeOK, CacheInv, UNCHANGED asked, NEW t \in DOMAIN asked,
           NEW state \in {"Valid", "Invalid", "Failed"}, Learned(t, state),
           \A u \in DOMAIN asked : u # t => ends'[u] = ends[u]
    PROVE  CacheTypeOK' /\ CacheInv'
<1> DEFINE d == asked[t].device
           mine == t \in cacheRequests /\ entries[d].adapter = asked[t].adapter
<1>1. /\ cacheRequests' = cacheRequests \ {t}
      /\ mine => entries' = [entries EXCEPT ![d].state = state, ![d].from = t]
      /\ ~mine => entries' = entries
      /\ asked' = asked
  BY DEF Learned
<1>2. t \in 0 .. MaxTickets
  BY IssuedTickets DEF Tickets
<1>3. /\ entries' \in [Devices -> Entries]
      /\ \A c \in Devices :
            \/ entries'[c] = entries[c] /\ ~(c = d /\ mine)
            \/ /\ c = d /\ mine /\ entries'[c].state = state /\ entries'[c].from = t
               /\ entries'[c].adapter = entries[c].adapter
  <2>1. CASE mine
    BY <1>1, <1>2, <2>1 DEF CacheTypeOK, Entries
  <2>2. CASE ~mine
    BY <1>1, <2>2 DEF CacheTypeOK
  <2> QED BY <2>1, <2>2
<1>4. CacheTypeOK'
  BY <1>1, <1>3 DEF CacheTypeOK
<1>5. CacheWaits'
  BY <1>1 DEF CacheWaits, CacheInv, CacheTypeOK
<1>6. EntriesAreKnown'
  BY <1>1, <1>3 DEF EntriesAreKnown, CacheInv
<1>7. DescribedByItsAdapter'
  BY <1>1, <1>3 DEF DescribedByItsAdapter, CacheInv
<1>8. DescriptionsAwaited'
  <2> SUFFICES ASSUME NEW c \in Devices, entries'[c].state = "Pending"
               PROVE  \E u \in cacheRequests' : /\ asked'[u].device = c
                                                /\ asked'[u].adapter = entries'[c].adapter
                                                /\ ends'[u] = 0
    BY DEF DescriptionsAwaited
  <2>1. entries'[c] = entries[c] /\ ~(c = d /\ mine)
    BY <1>3
  <2>2. PICK u \in cacheRequests : /\ asked[u].device = c /\ asked[u].adapter = entries[c].adapter
                                   /\ ends[u] = 0
    BY <2>1 DEF DescriptionsAwaited, CacheInv
  <2>3. u # t
    BY <2>1, <2>2
  <2> QED BY <1>1, <2>1, <2>2, <2>3 DEF CacheTypeOK
<1> QED BY <1>4, <1>5, <1>6, <1>7, <1>8 DEF CacheInv

(* A miss: the entry waits for the answer to a new request, or shows that  *)
(* there is nobody to ask.                                                 *)
LEMMA LookingUp ==
    ASSUME ServiceInv, CacheTypeOK, CacheInv, NEW d \in Devices, Lookup(d)
    PROVE  /\ ServiceInv' /\ CacheTypeOK' /\ CacheInv' /\ Grows
           /\ UNCHANGED <<owner, ends, editor, announced>>
<1> DEFINE empty(state) == [state |-> state, adapter |-> owner[d], from |-> NoTicket]
<1>1. \A state \in {"Unavailable", "Pending"} : empty(state) \in Entries /\ empty(state).state = state
                                                /\ empty(state).adapter = owner[d]
  <2>1. owner[d] \in Adapters \cup {NoAdapter}
    BY DEF ServiceInv, ServiceTypeOK, DeviceLists
  <2>2. NoTicket \in 0 .. MaxTickets
    BY ServiceAssumption DEF NoTicket
  <2> QED BY <2>1, <2>2 DEF Entries
<1>2. \A t \in DOMAIN asked : ends[t] \in 0 .. 1
  BY IssuedTickets DEF ServiceInv, ServiceTypeOK
<1>3. CASE /\ entries' = [entries EXCEPT ![d] = empty("Unavailable")]
           /\ UNCHANGED <<serviceVars, cacheRequests, editor, announced>>
  <2> HIDE DEF empty
  <2>1. /\ entries'[d].state = "Unavailable" /\ entries'[d] \in Entries
        /\ \A c \in Devices \ {d} : entries'[c] = entries[c]
        /\ entries' \in [Devices -> Entries]
    BY <1>1, <1>3 DEF CacheTypeOK
  <2>2. asked' = asked /\ ends' = ends /\ cacheRequests' = cacheRequests /\ owner' = owner
    BY <1>3 DEF serviceVars, ticketVars, adapterVars
  <2>3. Grows
    BY <2>2, IssuedTickets DEF Grows, ServiceInv, ServiceTypeOK
  <2>4. CacheTypeOK' /\ CacheWaits'
    BY <2>1, <2>2 DEF CacheTypeOK, CacheWaits, CacheInv
  <2>5. EntriesAreKnown' /\ DescribedByItsAdapter'
    BY <2>1, <2>2 DEF EntriesAreKnown, DescribedByItsAdapter, CacheInv
  <2>6. DescriptionsAwaited'
    BY <2>1, <2>2 DEF DescriptionsAwaited, CacheInv
  <2> QED BY <1>3, <2>2, <2>3, <2>4, <2>5, <2>6, ServiceUnchanged DEF CacheInv
<1>4. CASE /\ Ask("describe", d, Default)
           /\ cacheRequests' = cacheRequests \cup {NewTicket}
           /\ entries' = [entries EXCEPT ![d] = empty("Pending")]
           /\ UNCHANGED <<editor, announced>>
  <2> HIDE DEF empty
  <2>1. /\ entries'[d] = empty("Pending")
        /\ \A c \in Devices \ {d} : entries'[c] = entries[c]
        /\ entries' \in [Devices -> Entries]
    BY <1>1, <1>4 DEF CacheTypeOK
  <2>2. /\ ServiceInv' /\ Grows /\ UNCHANGED <<owner, ends>>
        /\ DOMAIN asked' = DOMAIN asked \cup {NewTicket}
        /\ ends[NewTicket] = 0 /\ NewTicket \notin DOMAIN asked
        /\ asked'[NewTicket] =
               [kind |-> "describe", device |-> d, adapter |-> owner[d], form |-> Default]
    <3>1. Ask("describe", d, Default) /\ "describe" \in {"describe", "build"} /\ Default \in Forms
      BY <1>4, ServiceAssumption
    <3> QED BY <3>1, Asking
  <2>3. \A t \in DOMAIN asked : asked'[t] = asked[t] /\ t \in DOMAIN asked'
    BY <2>2 DEF Grows
  <2>4. CacheTypeOK' /\ CacheWaits'
    BY <1>4, <2>1, <2>2, <2>3 DEF CacheTypeOK, CacheWaits, CacheInv
  <2>5. EntriesAreKnown' /\ DescribedByItsAdapter'
    BY <1>1, <2>1, <2>2, <2>3 DEF EntriesAreKnown, DescribedByItsAdapter, CacheInv
  <2>6. DescriptionsAwaited'
    <3> SUFFICES ASSUME NEW c \in Devices, entries'[c].state = "Pending"
                 PROVE  \E u \in cacheRequests' : /\ asked'[u].device = c
                                                  /\ asked'[u].adapter = entries'[c].adapter
                                                  /\ ends'[u] = 0
      BY DEF DescriptionsAwaited
    <3>1. CASE c = d
      BY <1>1, <1>4, <2>1, <2>2, <3>1
    <3>2. CASE c # d
      <4>1. PICK u \in cacheRequests : /\ asked[u].device = c /\ asked[u].adapter = entries[c].adapter
                                       /\ ends[u] = 0
        BY <2>1, <3>2 DEF DescriptionsAwaited, CacheInv
      <4> QED BY <1>4, <2>1, <2>2, <2>3, <3>2, <4>1 DEF CacheTypeOK
    <3> QED BY <3>1, <3>2
  <2> QED BY <1>4, <2>2, <2>4, <2>5, <2>6 DEF CacheInv
<1> QED BY <1>3, <1>4 DEF Lookup

-----------------------------------------------------------------------------
(***************************************************************************)
(* The editor.                                                             *)
(***************************************************************************)

EditorOK == editor \in Editors /\ EditorInv

(* The editor may stand still while its ticket is not reported and its     *)
(* device stays in the list.                                               *)
LEMMA EditorKept ==
    ASSUME ServiceTypeOK, EditorOK, Grows, UNCHANGED editor,
           editor.ticket # NoTicket => ends'[editor.ticket] = ends[editor.ticket],
           Ids(owner) \subseteq Ids(owner')
    PROVE  EditorOK'
<1>1. editor' = editor /\ \A t \in DOMAIN asked : t \in DOMAIN asked' /\ asked'[t] = asked[t]
  BY DEF Grows
<1>2. EditorWaits'
  BY <1>1 DEF EditorWaits, EditorOK, EditorInv, Exists
<1>3. ExpressionMatchesForm' /\ EditorNotSilent'
  BY <1>1 DEF ExpressionMatchesForm, EditorNotSilent, EditorOK, EditorInv
<1> QED BY <1>1, <1>2, <1>3 DEF EditorOK, EditorInv

(* A request for the expression of a form: the editor waits for it.        *)
LEMMA RequestingBuild ==
    ASSUME ServiceInv, NEW e \in Editors, e.device # 0, Exists(e.device), RequestBuild(e)
    PROVE  ServiceInv' /\ Grows /\ EditorOK' /\ UNCHANGED <<owner, ends>>
<1>1. e.device \in Devices /\ e.form \in Forms
  BY DEF Editors
<1>2. Ask("build", e.device, e.form) /\ "build" \in {"describe", "build"}
  BY DEF RequestBuild
<1>3. /\ ServiceInv' /\ Grows /\ UNCHANGED <<owner, ends>>
      /\ NewTicket \in Tickets /\ DOMAIN asked' = DOMAIN asked \cup {NewTicket}
      /\ ends[NewTicket] = 0
      /\ asked'[NewTicket] = [kind |-> "build", device |-> e.device,
                              adapter |-> owner[e.device], form |-> e.form]
  BY <1>1, <1>2, Asking
<1>4. /\ editor' = [e EXCEPT !.waiting = FALSE, !.built = e.form, !.ticket = NewTicket,
                             !.error = FALSE, !.valid = FALSE]
      /\ NewTicket \in 0 .. MaxTickets /\ NewTicket # NoTicket
  BY <1>3, IssuedTickets DEF RequestBuild, Tickets, ServiceInv
<1>5. /\ editor' \in Editors
      /\ editor'.ticket = NewTicket /\ editor'.valid = FALSE
      /\ editor'.device = e.device /\ editor'.form = e.form
  BY <1>1, <1>4 DEF Editors
<1>6. EditorWaits'
  BY <1>3, <1>5 DEF EditorWaits, Exists
<1>7. ExpressionMatchesForm' /\ EditorNotSilent'
  BY <1>3, <1>4, <1>5 DEF ExpressionMatchesForm, EditorNotSilent
<1> QED BY <1>3, <1>5, <1>6, <1>7 DEF EditorOK, EditorInv

(* Another device is shown: its default form is built, unless there is no  *)
(* device at all.                                                          *)
LEMMA SelectingDevice ==
    ASSUME ServiceInv, EditorOK, NEW d \in Devices \cup {0}, d # 0 => Exists(d), OnDeviceSelected(d)
    PROVE  ServiceInv' /\ Grows /\ EditorOK' /\ UNCHANGED <<owner, ends>>
<1> DEFINE cleared == [editor EXCEPT !.open = TRUE, !.device = d, !.form = Default,
                         !.ticket = NoTicket, !.valid = FALSE, !.shown = NoExpression]
<1>1. /\ NoTicket \in 0 .. MaxTickets /\ Default \in Forms
      /\ NoExpression \in [device : Devices \cup {0}, form : Forms]
  BY ServiceAssumption DEF NoTicket, NoExpression
<1>2. /\ cleared \in Editors /\ cleared.device = d /\ cleared.ticket = NoTicket
      /\ cleared.valid = FALSE /\ cleared.form = Default
  BY <1>1 DEF Editors, EditorOK
<1>3. CASE Exists(d)
  <2>1. RequestBuild(cleared)
    BY <1>3 DEF OnDeviceSelected
  <2>2. d # 0
    BY <1>3, ReconcileAssumption DEF Exists, Ids, Devices
  <2> HIDE DEF cleared
  <2> QED BY <1>2, <1>3, <2>1, <2>2, RequestingBuild
<1>4. CASE ~Exists(d)
  <2>1. d = 0
    BY <1>4
  <2>2. editor' = [cleared EXCEPT !.error = FALSE] /\ UNCHANGED serviceVars
    BY <1>4 DEF OnDeviceSelected
  <2> HIDE DEF cleared
  <2>3. /\ editor' \in Editors /\ editor'.device = 0 /\ editor'.ticket = NoTicket
        /\ editor'.valid = FALSE
    BY <1>2, <2>1, <2>2 DEF Editors
  <2>4. EditorOK'
    BY <2>3 DEF EditorOK, EditorInv, EditorWaits, ExpressionMatchesForm, EditorNotSilent
  <2>5. asked' = asked /\ UNCHANGED <<owner, ends>>
    BY <2>2 DEF serviceVars, adapterVars, ticketVars
  <2>6. Grows
    BY <2>5, IssuedTickets DEF Grows, ServiceInv, ServiceTypeOK
  <2> QED BY <2>2, <2>4, <2>5, <2>6, ServiceUnchanged
<1> QED BY <1>3, <1>4

(* A step that leaves the service and the editor alone. *)
LEMMA Standing ==
    ASSUME ServiceInv, UNCHANGED <<serviceVars, editor>>, EditorOK
    PROVE  ServiceInv' /\ Grows /\ EditorOK' /\ UNCHANGED <<owner, ends>>
<1>1. asked' = asked /\ UNCHANGED <<owner, ends>>
  BY DEF serviceVars, adapterVars, ticketVars
<1>2. Grows
  BY <1>1, IssuedTickets DEF Grows, ServiceInv, ServiceTypeOK
<1> QED BY <1>1, <1>2, ServiceUnchanged, EditorKept DEF ServiceInv

(* A retry of the cache keeps its invariant. *)
LEMMA Retrying ==
    ASSUME ServiceInv, EditorOK, RetryAfterFailure
    PROVE  ServiceInv' /\ Grows /\ EditorOK' /\ UNCHANGED <<owner, ends>>
<1>1. /\ editor.device \in Devices \cup {0}
      /\ editor.device # 0 => Exists(editor.device)
  BY DEF EditorOK, EditorInv, EditorWaits, Editors
<1> QED BY <1>1, SelectingDevice, Standing DEF RetryAfterFailure

(* The ticket of the editor is answered: it shows the expression of its    *)
(* form, or an error.                                                      *)
LEMMA Built ==
    ASSUME ServiceTypeOK, EditorOK, UNCHANGED <<asked, owner>>, NEW t \in DOMAIN asked,
           NEW good \in BOOLEAN, OnExpressionBuilt(t, good),
           \A u \in DOMAIN asked : u # t => ends'[u] = ends[u]
    PROVE  EditorOK'
<1>1. /\ EditorWaits /\ editor \in Editors /\ ExpressionMatchesForm /\ EditorNotSilent
      /\ NoTicket \in 0 .. MaxTickets /\ Default \in Forms
      /\ NoExpression \in [device : Devices \cup {0}, form : Forms]
  BY ServiceAssumption DEF EditorOK, EditorInv, NoTicket, NoExpression
<1>2. CASE t # editor.ticket
  <2>1. editor' = editor
    BY <1>2 DEF OnExpressionBuilt
  <2>2. EditorWaits' /\ ExpressionMatchesForm' /\ EditorNotSilent'
    BY <1>1, <1>2, <2>1 DEF EditorWaits, ExpressionMatchesForm, EditorNotSilent, Exists
  <2> QED BY <1>1, <2>1, <2>2 DEF EditorOK, EditorInv
<1>3. CASE t = editor.ticket
  <2> DEFINE shown == IF good THEN [device |-> asked[t].device, form |-> asked[t].form]
                              ELSE NoExpression
  <2>1. editor' = [editor EXCEPT !.ticket = NoTicket, !.valid = good, !.error = ~good,
                                 !.shown = shown]
    BY <1>3 DEF OnExpressionBuilt
  <2>2. t # NoTicket
    BY IssuedTickets
  <2>3. /\ asked[t].device = editor.device /\ asked[t].form = editor.form
        /\ editor.device \in Devices \cup {0} /\ editor.form \in Forms
    BY <1>1, <1>3, <2>2 DEF EditorWaits, Editors
  <2>4. /\ shown \in [device : Devices \cup {0}, form : Forms]
        /\ good => shown = [device |-> editor.device, form |-> editor.form]
    BY <1>1, <2>3
  <2> HIDE DEF shown
  <2>5. /\ editor' \in Editors
        /\ editor'.ticket = NoTicket /\ editor'.valid = good /\ editor'.error = ~good
        /\ editor'.shown = shown /\ editor'.device = editor.device /\ editor'.form = editor.form
    BY <1>1, <2>1, <2>4 DEF Editors
  <2>6. EditorWaits'
    BY <1>1, <2>5 DEF EditorWaits, Exists
  <2>7. ExpressionMatchesForm' /\ EditorNotSilent'
    BY <2>4, <2>5 DEF ExpressionMatchesForm, EditorNotSilent
  <2> QED BY <2>5, <2>6, <2>7 DEF EditorOK, EditorInv
<1> QED BY <1>2, <1>3

(* It failed: the editor shows an error.                                   *)
LEMMA Failed ==
    ASSUME ServiceTypeOK, EditorOK, UNCHANGED <<asked, owner>>, NEW t \in DOMAIN asked,
           OnRequestFailed(t), \A u \in DOMAIN asked : u # t => ends'[u] = ends[u]
    PROVE  EditorOK'
<1>1. /\ EditorWaits /\ editor \in Editors /\ ExpressionMatchesForm /\ EditorNotSilent
      /\ NoTicket \in 0 .. MaxTickets
      /\ NoExpression \in [device : Devices \cup {0}, form : Forms]
  BY ServiceAssumption DEF EditorOK, EditorInv, NoTicket, NoExpression
<1>2. CASE t # editor.ticket
  <2>1. editor' = editor
    BY <1>2 DEF OnRequestFailed
  <2>2. EditorWaits' /\ ExpressionMatchesForm' /\ EditorNotSilent'
    BY <1>1, <1>2, <2>1 DEF EditorWaits, ExpressionMatchesForm, EditorNotSilent, Exists
  <2> QED BY <1>1, <2>1, <2>2 DEF EditorOK, EditorInv
<1>3. CASE t = editor.ticket
  <2> DEFINE waits == ~Usable(editor.device)
  <2>1. editor' = [editor EXCEPT !.ticket = NoTicket, !.waiting = waits, !.valid = FALSE,
                                 !.shown = NoExpression, !.error = TRUE]
    BY <1>3 DEF OnRequestFailed
  <2>2. waits \in BOOLEAN
    OBVIOUS
  <2> HIDE DEF waits
  <2>3. /\ editor' \in Editors
        /\ editor'.ticket = NoTicket /\ editor'.valid = FALSE /\ editor'.error = TRUE
        /\ editor'.device = editor.device
    BY <1>1, <2>1, <2>2 DEF Editors
  <2> QED BY <1>1, <2>3 DEF EditorOK, EditorInv, EditorWaits, ExpressionMatchesForm,
                            EditorNotSilent, Exists
<1> QED BY <1>2, <1>3

-----------------------------------------------------------------------------
(***************************************************************************)
(* The steps of the dialog.                                                *)
(***************************************************************************)

AnnouncedOK == announced \in Adapters \cup {NoAdapter}

(* The invariant by its parts, *)
LEMMA Parts == IInv <=> ServiceInv /\ CacheTypeOK /\ CacheInv /\ EditorOK /\ AnnouncedOK
BY DEF IInv, ClientTypeOK, CacheTypeOK, EditorOK, AnnouncedOK

(* and after a step. *)
LEMMA PartsAfterwards == ServiceInv' /\ CacheTypeOK' /\ CacheInv' /\ EditorOK' /\ AnnouncedOK' => IInv'
BY DEF IInv, ClientTypeOK, CacheTypeOK, EditorOK, AnnouncedOK

(* The user's steps: they ask the service, the cache stands still. *)
LEMMA UserStep ==
    ASSUME IInv, ServiceInv', Grows, EditorOK', UNCHANGED <<owner, ends, cacheVars>>, AnnouncedOK'
    PROVE  IInv'
<1>1. CacheTypeOK' /\ CacheInv'
  BY Parts, CacheKept DEF ServiceInv
<1> QED BY <1>1, PartsAfterwards

(* A lookup keeps the invariant. *)
LEMMA LookupStep ==
    ASSUME IInv, NEW d \in Devices, Lookup(d)
    PROVE  IInv'
<1>1. /\ ServiceInv' /\ CacheTypeOK' /\ CacheInv' /\ Grows
      /\ UNCHANGED <<owner, ends, editor, announced>>
  BY Parts, LookingUp
<1>2. EditorOK'
  BY <1>1, Parts, EditorKept DEF ServiceInv
<1> QED BY <1>1, <1>2, Parts, PartsAfterwards DEF AnnouncedOK

(* Opening the editor keeps it. *)
LEMMA OpenStep ==
    ASSUME IInv, OpenEditor
    PROVE  IInv'
<1> DEFINE d == IF Ids(owner) = {} THEN 0 ELSE Min(Ids(owner))
<1>1. d \in Devices \cup {0} /\ (d # 0 => Exists(d))
  <2>1. Ids(owner) \in SUBSET Nat /\ Ids(owner) \subseteq Devices
    BY ReconcileAssumption DEF Ids, Devices
  <2> QED BY <2>1, MinIsLeast DEF Exists
<1>2. OnDeviceSelected(d) /\ UNCHANGED <<cacheVars, announced>>
  BY DEF OpenEditor
<1> HIDE DEF d
<1>3. ServiceInv' /\ Grows /\ EditorOK' /\ UNCHANGED <<owner, ends>>
  BY <1>1, <1>2, Parts, SelectingDevice
<1> QED BY <1>2, <1>3, Parts, UserStep DEF AnnouncedOK

(* Choosing a device keeps it. *)
LEMMA SelectStep ==
    ASSUME IInv, NEW d \in Devices, SelectDevice(d)
    PROVE  IInv'
<1>1. Exists(d) /\ OnDeviceSelected(d) /\ UNCHANGED <<cacheVars, announced>>
  BY DEF SelectDevice
<1>2. ServiceInv' /\ Grows /\ EditorOK' /\ UNCHANGED <<owner, ends>>
  BY <1>1, Parts, SelectingDevice
<1> QED BY <1>1, <1>2, Parts, UserStep DEF AnnouncedOK

(* Editing the form keeps it. *)
LEMMA EditStep ==
    ASSUME IInv, NEW form \in Forms, EditForm(form)
    PROVE  IInv'
<1> DEFINE e == [editor EXCEPT !.form = form]
<1>1. /\ editor.device # 0 /\ Exists(editor.device) /\ RequestBuild(e)
      /\ UNCHANGED <<cacheVars, announced>>
  BY Parts DEF EditForm, EditorOK, EditorInv, EditorWaits
<1>2. e \in Editors /\ e.device = editor.device
  BY Parts DEF EditorOK, Editors
<1> HIDE DEF e
<1>3. ServiceInv' /\ Grows /\ EditorOK' /\ UNCHANGED <<owner, ends>>
  BY <1>1, <1>2, Parts, RequestingBuild
<1> QED BY <1>1, <1>3, Parts, UserStep DEF AnnouncedOK

(* A given reference needs no request: the editor waits for nothing.       *)
LEMMA SetReferenceStep ==
    ASSUME IInv, NEW d \in Devices, NEW form \in Forms, SetReference(d, form)
    PROVE  IInv'
<1> DEFINE shown == [device |-> d, form |-> form]
<1>1. /\ EditorWaits /\ editor \in Editors /\ NoTicket \in 0 .. MaxTickets
      /\ shown \in [device : Devices \cup {0}, form : Forms]
  BY Parts, ServiceAssumption DEF EditorOK, EditorInv, NoTicket
<1>2. UNCHANGED <<serviceVars, cacheVars, announced>>
  BY DEF SetReference
<1>3. asked' = asked /\ UNCHANGED <<owner, ends>>
  BY <1>2 DEF serviceVars, adapterVars, ticketVars
<1>4. Grows
  BY <1>3, IssuedTickets, Parts DEF Grows, ServiceInv, ServiceTypeOK
<1>5. EditorOK'
  <2>1. CASE Exists(d)
    <3>1. editor' = [editor EXCEPT !.ticket = NoTicket, !.waiting = FALSE, !.device = d,
                       !.form = form, !.built = form, !.error = FALSE, !.valid = TRUE,
                       !.shown = shown]
      BY <2>1 DEF SetReference
    <3> HIDE DEF shown
    <3>2. /\ editor' \in Editors
          /\ editor'.ticket = NoTicket /\ editor'.device = d /\ editor'.form = form
          /\ editor'.valid = TRUE /\ editor'.shown = shown
      BY <1>1, <3>1 DEF Editors
    <3> QED BY <1>3, <2>1, <3>2 DEF EditorOK, EditorInv, EditorWaits, ExpressionMatchesForm,
                                   EditorNotSilent, Exists, shown
  <2>2. CASE ~Exists(d)
    <3>1. editor' = [editor EXCEPT !.ticket = NoTicket, !.waiting = FALSE, !.error = TRUE,
                       !.valid = FALSE, !.shown = shown]
      BY <2>2 DEF SetReference
    <3> HIDE DEF shown
    <3>2. /\ editor' \in Editors
          /\ editor'.ticket = NoTicket /\ editor'.device = editor.device
          /\ editor'.valid = FALSE /\ editor'.error = TRUE
      BY <1>1, <3>1 DEF Editors
    <3> QED BY <1>1, <1>3, <3>2 DEF EditorOK, EditorInv, EditorWaits, ExpressionMatchesForm,
                                   EditorNotSilent, Exists
  <2> QED BY <2>1, <2>2
<1> QED BY <1>2, <1>3, <1>4, <1>5, Parts, ServiceUnchanged, UserStep DEF AnnouncedOK

(* A result reaches the user that asked for it; the other one stands still. *)
LEMMA ResultStep ==
    ASSUME IInv, NEW a \in Adapters, NEW id \in Tickets, NEW good \in BOOLEAN, Result(a, id, good)
    PROVE  IInv'
<1>1. /\ ServiceInv /\ ServiceTypeOK /\ CacheTypeOK /\ CacheInv /\ EditorOK /\ AnnouncedOK
  BY Parts DEF ServiceInv
<1>2. /\ UNCHANGED <<announced, owner, asked>> /\ Answered(a, id, FALSE)
      /\ \/ TakenBy(a, id) = {} /\ UNCHANGED ends
         \/ \E r \in TakenBy(a, id) : ends' = [ends EXCEPT ![r.ticket] = @ + 1]
  BY DEF Result, Answered
<1>3. ServiceInv'
  BY <1>1, <1>2, Answering
<1>4. Grows
  BY <1>1, <1>2, IssuedTickets DEF Grows, ServiceTypeOK
<1>5. CASE TakenBy(a, id) = {}
  <2>1. UNCHANGED <<ends, cacheVars, editor>>
    BY <1>5 DEF Result
  <2>2. EditorOK'
    BY <1>1, <1>2, <1>4, <2>1, EditorKept
  <2> QED BY <1>1, <1>2, <1>3, <1>4, <2>1, <2>2, UserStep DEF AnnouncedOK
<1>6. CASE TakenBy(a, id) # {}
  <2>1. PICK r \in TakenBy(a, id) :
          /\ ends' = [ends EXCEPT ![r.ticket] = @ + 1]
          /\ IF asked[r.ticket].kind = "build"
             THEN OnExpressionBuilt(r.ticket, good) /\ UNCHANGED cacheVars
             ELSE /\ Learned(r.ticket, IF good THEN "Valid" ELSE "Invalid")
                  /\ UNCHANGED editor
    BY <1>6 DEF Result
  <2> DEFINE t == r.ticket
  <2>2. /\ t \in DOMAIN asked /\ \A u \in DOMAIN asked : u # t => ends'[u] = ends[u]
    BY <1>1, <2>1, IssuedTickets DEF TakenBy, ServiceTypeOK
  <2>3. CASE asked[t].kind = "build"
    <3>1. EditorOK'
      BY <1>1, <1>2, <2>1, <2>2, <2>3, Built
    <3>2. \A u \in cacheRequests : ends'[u] = ends[u]
      BY <1>1, <2>2, <2>3 DEF CacheInv, CacheWaits, CacheTypeOK
    <3>3. CacheTypeOK' /\ CacheInv'
      BY <1>1, <1>4, <2>1, <2>3, <3>2, CacheKept
    <3> QED BY <1>1, <1>2, <1>3, <3>1, <3>3, PartsAfterwards DEF AnnouncedOK
  <2>4. CASE asked[t].kind # "build"
    <3>1. CacheTypeOK' /\ CacheInv'
      BY <1>1, <1>2, <2>1, <2>2, <2>4, Learning
    <3>2. editor.ticket # NoTicket => ends'[editor.ticket] = ends[editor.ticket]
      BY <1>1, <2>2, <2>4 DEF EditorOK, EditorInv, EditorWaits
    <3>3. EditorOK'
      BY <1>1, <1>2, <1>4, <2>1, <2>4, <3>2, EditorKept
    <3> QED BY <1>1, <1>2, <1>3, <3>1, <3>3, PartsAfterwards DEF AnnouncedOK
  <2> QED BY <2>3, <2>4
<1> QED BY <1>5, <1>6

(* The failures of a step of the service are reported later: the users     *)
(* stand still.                                                            *)
LEMMA QuietStep ==
    ASSUME IInv, ServiceInv', UNCHANGED <<asked, ends, cacheVars, editor>>, AnnouncedOK',
           Ids(owner) \subseteq Ids(owner')
    PROVE  IInv'
<1>1. Grows
  BY IssuedTickets, Parts DEF Grows, ServiceInv, ServiceTypeOK
<1>2. CacheTypeOK' /\ CacheInv'
  BY <1>1, Parts, CacheKept DEF ServiceInv
<1>3. EditorOK'
  BY <1>1, Parts, EditorKept DEF ServiceInv
<1> QED BY <1>2, <1>3, PartsAfterwards

(* A failure of the adapter keeps it. *)
LEMMA ErrorStep ==
    ASSUME IInv, NEW a \in Adapters, NEW id \in Tickets, ErrorReply(a, id)
    PROVE  IInv'
<1>1. /\ Answered(a, id, TRUE) /\ UNCHANGED <<ends, cacheVars, editor, announced, owner, asked>>
  BY DEF ErrorReply, Answered
<1>2. ServiceInv'
  BY <1>1, Parts, Answering
<1> QED BY <1>1, <1>2, Parts, QuietStep DEF AnnouncedOK

(* A step of the service keeps it. *)
LEMMA ServiceStep ==
    ASSUME IInv, ServiceSteps
    PROVE  IInv'
<1>1. UNCHANGED <<cacheVars, editor, announced>> /\ emitting = << >>
  BY DEF ServiceSteps, Quiet
<1>2. CASE EmitQueuedFailures
  <2>1. UNCHANGED <<asked, ends, owner>> /\ ServiceInv'
    BY <1>1, <1>2, Parts, EmittingQueue DEF EmitQueuedFailures, adapterVars
  <2> QED BY <1>1, <2>1, Parts, QuietStep DEF AnnouncedOK
<1>3. ASSUME NEW r \in pendingRequests, RequestTimeout(r)
      PROVE  IInv'
  <2>1. UNCHANGED <<asked, ends, owner>> /\ ServiceInv'
    BY <1>3, Parts, TimingOut DEF RequestTimeout, adapterVars
  <2> QED BY <1>1, <2>1, Parts, QuietStep DEF AnnouncedOK
<1>4. ASSUME NEW a \in Adapters, AcceptsAgain(a)
      PROVE  IInv'
  <2>1. UNCHANGED <<asked, ends, owner>> /\ ServiceInv'
    BY <1>4, Parts, AcceptingAgain DEF AcceptsAgain, ticketVars
  <2> QED BY <1>1, <2>1, Parts, QuietStep DEF AnnouncedOK
<1>5. ASSUME NEW a \in Adapters, NEW next \in {"down", "busy"}, StopsAccepting(a, next)
      PROVE  IInv'
  <2>1. UNCHANGED <<asked, ends, owner>> /\ ServiceInv'
    BY <1>5, Parts, StoppingAccepting
  <2> QED BY <1>1, <2>1, Parts, QuietStep DEF AnnouncedOK
<1> QED BY <1>2, <1>3, <1>4, <1>5 DEF ServiceSteps

(* A failure reaches the user that asked.                                  *)
LEMMA FailureStep ==
    ASSUME IInv, EmitFailure
    PROVE  IInv'
<1> DEFINE t == Head(emitting)
<1>1. /\ emitting # << >> /\ emitting' = Tail(emitting)
      /\ ends' = [ends EXCEPT ![t] = @ + 1]
      /\ Learned(t, "Failed") /\ OnRequestFailed(t)
      /\ UNCHANGED <<adapterVars, ticketVars>> /\ UNCHANGED announced
  BY DEF EmitFailure
<1>2. ServiceInv' /\ t \in DOMAIN asked /\ t \in Tickets
  BY <1>1, Parts, EmittingOne
<1> HIDE DEF t
<1>3. /\ \A u \in DOMAIN asked : u # t => ends'[u] = ends[u]
      /\ UNCHANGED <<asked, owner>>
  BY <1>1, <1>2, Parts, IssuedTickets DEF ServiceInv, ServiceTypeOK, adapterVars, ticketVars
<1>4. CacheTypeOK' /\ CacheInv'
  BY <1>1, <1>2, <1>3, Parts, Learning DEF ServiceInv
<1>5. EditorOK'
  BY <1>1, <1>2, <1>3, Parts, Failed DEF ServiceInv
<1> QED BY <1>1, <1>2, <1>4, <1>5, Parts, PartsAfterwards DEF AnnouncedOK

(* A description keeps it. *)
LEMMA DescribeStep ==
    ASSUME IInv, NEW a \in Adapters, AdapterDescribes(a)
    PROVE  IInv'
<1>1. /\ Describes(a) /\ announced' = a /\ UNCHANGED <<cacheVars, editor>>
      /\ UNCHANGED <<asked, ends>>
  BY DEF AdapterDescribes, Describes, ticketVars
<1>2. ServiceInv' /\ Ids(owner) \subseteq Ids(owner')
  BY <1>1, Parts, Describing
<1> QED BY <1>1, <1>2, Parts, QuietStep DEF AnnouncedOK

(* The delivery of what the service announced keeps it. *)
LEMMA HearStep ==
    ASSUME IInv, HearDescription
    PROVE  IInv'
<1>1. announced' = NoAdapter /\ UNCHANGED cacheVars /\ ServiceInv /\ EditorOK
  BY Parts DEF HearDescription
<1>2. ServiceInv' /\ Grows /\ EditorOK' /\ UNCHANGED <<owner, ends>>
  <2>1. CASE editor.open /\ editor.device = 0 /\ Ids(owner) # {}
    <3>1. OnDeviceSelected(Min(Ids(owner)))
      BY <2>1 DEF HearDescription
    <3>2. Ids(owner) \in SUBSET Nat /\ Ids(owner) \subseteq Devices
      BY ReconcileAssumption DEF Ids, Devices
    <3>3. Min(Ids(owner)) \in Devices /\ Exists(Min(Ids(owner)))
      BY <2>1, <3>2, MinIsLeast DEF Exists
    <3> QED BY <1>1, <3>1, <3>3, SelectingDevice
  <2>2. CASE RetryAfterFailure
    BY <1>1, <2>2, Retrying
  <2>3. CASE UNCHANGED <<serviceVars, editor>>
    BY <1>1, <2>3, Standing
  <2> QED BY <2>1, <2>2, <2>3 DEF HearDescription
<1> QED BY <1>1, <1>2, UserStep DEF AnnouncedOK

(* Entries without an answer are looked up again when an adapter may have  *)
(* become usable.                                                          *)
LEMMA AdaptersChangedStep ==
    ASSUME IInv, AdaptersChanged
    PROVE  IInv'
<1>1. /\ cacheRequests' = cacheRequests /\ announced' = announced
      /\ entries' = [d \in Devices |-> IF entries[d].state \in {"Unavailable", "Failed"}
                                       THEN NoEntry ELSE entries[d]]
      /\ ServiceInv /\ CacheTypeOK /\ CacheInv /\ EditorOK /\ AnnouncedOK
  BY Parts DEF AdaptersChanged
<1>2. ServiceInv' /\ Grows /\ EditorOK' /\ UNCHANGED <<owner, ends>>
  BY <1>1, Retrying DEF AdaptersChanged
<1>3. /\ NoEntry \in Entries /\ NoEntry.state = "none"
      /\ \A t \in DOMAIN asked : t \in DOMAIN asked' /\ asked'[t] = asked[t]
  BY <1>2, ServiceAssumption DEF NoEntry, NoTicket, Entries, Grows
<1>4. \A d \in Devices : entries'[d] = entries[d] \/ entries'[d] = NoEntry
  BY <1>1
<1>5. CacheTypeOK' /\ CacheWaits'
  BY <1>1, <1>2, <1>3 DEF CacheTypeOK, CacheInv, CacheWaits
<1>6. EntriesAreKnown' /\ DescribedByItsAdapter'
  BY <1>1, <1>3, <1>4 DEF CacheInv, EntriesAreKnown, DescribedByItsAdapter
<1>7. DescriptionsAwaited'
  BY <1>1, <1>2, <1>3, <1>4 DEF CacheTypeOK, CacheInv, DescriptionsAwaited
<1> QED BY <1>1, <1>2, <1>5, <1>6, <1>7, PartsAfterwards DEF CacheInv, AnnouncedOK

(* A step that changes nothing keeps it. *)
LEMMA StutterStep ==
    ASSUME IInv, UNCHANGED vars
    PROVE  IInv'
<1>1. /\ UNCHANGED <<serviceVars, cacheVars, editor, announced>>
      /\ UNCHANGED <<asked, ends, owner>>
  BY DEF vars, serviceVars, adapterVars, ticketVars
<1> QED BY <1>1, Parts, ServiceUnchanged, QuietStep DEF AnnouncedOK

(* The invariant is inductive, *)
LEMMA Inductive == IInv /\ [Next]_vars => IInv'
BY LookupStep, OpenStep, SelectStep, EditStep, SetReferenceStep, ResultStep, ErrorStep,
   FailureStep, ServiceStep, DescribeStep, HearStep, AdaptersChangedStep, StutterStep DEF Next

(* it holds at first, *)
LEMMA Initial == Init => IInv
<1> SUFFICES ASSUME Init PROVE IInv
  OBVIOUS
<1> USE DEF Init, ServiceInit
<1>1. ServiceTypeOK
  BY ReconcileAssumption, ServiceAssumption, AdaptersAreIds DEF ServiceTypeOK, DeviceLists
<1>2. PendingAreTracked /\ TicketsOnce
  BY DEF PendingAreTracked, TicketsOnce, OnceIn
<1>3. OnePlace
  BY DEF OnePlace, Waiting, Members, Reported
<1>4. CacheTypeOK /\ CacheInv
  BY ServiceAssumption DEF CacheTypeOK, Entries, NoEntry, NoTicket, CacheInv, CacheWaits,
     EntriesAreKnown, DescriptionsAwaited, DescribedByItsAdapter
<1>5. EditorOK
  BY ServiceAssumption DEF EditorOK, Editors, NoTicket, NoExpression, EditorInv, EditorWaits,
     ExpressionMatchesForm, EditorNotSilent
<1> QED BY <1>1, <1>2, <1>3, <1>4, <1>5, Parts DEF ServiceInv, AnnouncedOK

(* and so always. *)
LEMMA Invariant == Spec => []IInv
BY Initial, Inductive, PTL DEF Spec

-----------------------------------------------------------------------------
(* Every variable keeps its type, whatever the users, the adapters and the *)
(* timers do; in particular no ticket is reported more than once.          *)
THEOREM DataPointsTyped == Spec => []TypeOK
<1>1. IInv => TypeOK
  BY DEF IInv, ServiceInv, ClientTypeOK, TypeOK
<1> QED BY Invariant, <1>1, PTL

(* A reply finds exactly the request it answers: what the service waits for *)
(* is what the client tracks under that id, whatever process uses the id    *)
(* (takeTicket()).                                                         *)
THEOREM RepliesMatched == Spec => []RepliesReachTheirRequest
<1>1. IInv => RepliesReachTheirRequest
  <2> SUFFICES ASSUME IInv, NEW r \in pendingRequests
               PROVE  /\ Tracks(r.adapter, r.id) /\ tracked[r.adapter][r.id] = r.ticket
                      /\ TakenBy(r.adapter, r.id) = {r}
    BY DEF RepliesReachTheirRequest
  <2>1. /\ r.id \in DOMAIN tracked[r.adapter] /\ tracked[r.adapter][r.id] = r.ticket
        /\ r.ticket # NoTicket
    BY IssuedTickets DEF IInv, ServiceInv, ServiceTypeOK, PendingAreTracked
  <2>2. TakenBy(r.adapter, r.id) = {r}
    BY DEF IInv, ServiceInv, PendingAreTracked, TicketsOnce, TakenBy
  <2> QED BY <2>1, <2>2 DEF Tracks
<1> QED BY Invariant, <1>1, PTL

(* Every ticket waits for its adapter, waits for the report of its failure, *)
(* or was reported, and is in one of these places once: requests end in     *)
(* exactly one report (datapointservice.h).                                *)
THEOREM TicketsEndOnce == Spec => []TicketsAccounted
<1>1. ASSUME IInv, NEW t \in DOMAIN asked, NEW seq, OnceIn(seq)
      PROVE  Occurrences(t, seq) = IF t \in Members(seq) THEN 1 ELSE 0
  <2> DEFINE at == {i \in DOMAIN seq : seq[i] = t}
  <2>1. CASE t \in Members(seq)
    <3>1. PICK i \in DOMAIN seq : seq[i] = t
      BY <2>1 DEF Members
    <3>2. at = {i}
      BY <1>1, <3>1 DEF OnceIn
    <3> QED BY <2>1, <3>2, FS_Singleton DEF Occurrences
  <2>2. CASE t \notin Members(seq)
    <3>1. at = {}
      BY <2>2 DEF Members
    <3> QED BY <2>2, <3>1, FS_EmptySet DEF Occurrences
  <2> QED BY <2>1, <2>2
<1>2. IInv => TicketsAccounted
  <2> SUFFICES ASSUME IInv, NEW t \in DOMAIN asked
               PROVE  (IF \E r \in pendingRequests : r.ticket = t THEN 1 ELSE 0)
                      + Occurrences(t, queuedFailures) + Occurrences(t, emitting) + ends[t] = 1
    BY DEF TicketsAccounted
  <2>1. /\ Occurrences(t, queuedFailures) = IF t \in Members(queuedFailures) THEN 1 ELSE 0
        /\ Occurrences(t, emitting) = IF t \in Members(emitting) THEN 1 ELSE 0
    BY <1>1 DEF IInv, ServiceInv, TicketsOnce
  <2>2. (\E r \in pendingRequests : r.ticket = t) <=> t \in Waiting
    BY DEF Waiting
  <2>3. ends[t] = IF t \in Reported THEN 1 ELSE 0
    BY IssuedTickets DEF IInv, ServiceInv, ServiceTypeOK, Reported
  <2>4. OnePlace
    BY DEF IInv, ServiceInv
  <2> HIDE DEF IInv
  <2> QED BY <2>1, <2>2, <2>3, <2>4 DEF OnePlace
<1> QED BY Invariant, <1>2, PTL

(* A reference shown as pending has a request at the adapter its entry      *)
(* stands for whose outcome is still to come.                              *)
THEOREM PendingIsAwaited == Spec => []DescriptionsAwaited
<1>1. IInv => DescriptionsAwaited
  BY DEF IInv, CacheInv
<1> QED BY Invariant, <1>1, PTL

(* What the views show was said by the adapter the entry stands for.       *)
THEOREM DescribedByOwner == Spec => []DescribedByItsAdapter
<1>1. IInv => DescribedByItsAdapter
  BY DEF IInv, CacheInv
<1> QED BY Invariant, <1>1, PTL

(* The expression the editor offers is that of the device and the fields   *)
(* it shows.                                                               *)
THEOREM ExpressionIsOfForm == Spec => []ExpressionMatchesForm
<1>1. IInv => ExpressionMatchesForm
  BY DEF IInv, EditorInv
<1> QED BY Invariant, <1>1, PTL

(* The editor always has an expression, an error or a request under way.   *)
THEOREM EditorAnswers == Spec => []EditorNotSilent
<1>1. IInv => EditorNotSilent
  BY DEF IInv, EditorInv
<1> QED BY Invariant, <1>1, PTL
=============================================================================
