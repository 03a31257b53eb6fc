-------------------------- MODULE DataPointClients --------------------------
(***************************************************************************)
(* The two users of DataPointService in the signals dialog: the cache of   *)
(* descriptions (models/datapointdescriptioncache.cpp) and the editor of   *)
(* one data point (customwidgets/datapointeditorwidget.cpp).               *)
(*                                                                         *)
(* There is one reference per device, so the cache is indexed by devices.  *)
(* A slot runs inside the signal that calls it: while adapterDataChanged() *)
(* is delivered ("announced") nothing else happens, while queued failures  *)
(* are delivered ("emitting") only lookups of the views do.                *)
(***************************************************************************)
EXTENDS DataPointService, FiniteSetsExt

VARIABLES
    entries,         \* _entries: device -> what is known of its reference
    cacheRequests,   \* _pendingRequests of the cache
    editor,          \* members of DataPointEditorWidget
    announced        \* adapter whose adapterDataChanged() is delivered

cacheVars == <<entries, cacheRequests>>
vars == <<serviceVars, cacheVars, editor, announced>>

NoEntry == [state |-> "none", adapter |-> NoAdapter, from |-> NoTicket]
NoExpression == [device |-> 0, form |-> Default]

Entries == [state : {"none", "Pending", "Valid", "Invalid", "Unavailable", "Failed"},
            adapter : Adapters \cup {NoAdapter},
            from : 0 .. MaxTickets]      \* history: the request that brought it

Editors == [open : BOOLEAN,
            device : Devices \cup {0},   \* deviceId()
            form : Forms,                \* values of _pAddressForm
            built : Forms,               \* _expressionValues
            valid : BOOLEAN,             \* _bValid
            shown : [device : Devices \cup {0}, form : Forms],
                                         \* what _expression refers to
            error : BOOLEAN,             \* whether _error is set
            ticket : 0 .. MaxTickets,    \* _pendingTicket
            waiting : BOOLEAN]           \* _bWaitingForAdapter

TypeOK ==
    /\ ServiceTypeOK
    /\ entries \in [Devices -> Entries]
    /\ cacheRequests \subseteq DOMAIN asked
    /\ editor \in Editors
    /\ announced \in Adapters \cup {NoAdapter}

Init ==
    /\ ServiceInit
    /\ entries = [d \in Devices |-> NoEntry]
    /\ cacheRequests = {}
    /\ editor = [open |-> FALSE, device |-> 0, form |-> Default, built |-> Default,
                 valid |-> FALSE, shown |-> NoExpression, error |-> FALSE,
                 ticket |-> NoTicket, waiting |-> FALSE]
    /\ announced = NoAdapter

NothingAnnounced == announced = NoAdapter
Quiet == NothingAnnounced /\ emitting = << >>

-----------------------------------------------------------------------------
(***************************************************************************)
(* The cache of descriptions.                                              *)
(***************************************************************************)

(* A miss of lookup(): no entry, one of another adapter, or a failure whose *)
(* retry is due.                                                           *)
Missed(d) == \/ entries[d].state \in {"none", "Failed"}
             \/ entries[d].adapter # owner[d]

Lookup(d) ==
    /\ NothingAnnounced /\ Missed(d)
    /\ \/ /\ ~Usable(d)
          /\ entries' = [entries EXCEPT ![d] =
                 [state |-> "Unavailable", adapter |-> owner[d], from |-> NoTicket]]
          /\ UNCHANGED <<serviceVars, cacheRequests>>
       \/ /\ Usable(d)
          /\ Ask("describe", d, Default)
          /\ cacheRequests' = cacheRequests \cup {NewTicket}
          /\ entries' = [entries EXCEPT ![d] =
                 [state |-> "Pending", adapter |-> owner[d], from |-> NoTicket]]
    /\ UNCHANGED <<editor, announced>>

(* Mutation of Learned: what an adapter says that lost the device is stored. *)
LearnedOfAnyAdapter(t, state) ==
    /\ cacheRequests' = cacheRequests \ {t}
    /\ entries' = IF t \in cacheRequests
                  THEN [entries EXCEPT ![asked[t].device].state = state,
                                       ![asked[t].device].from = t]
                  ELSE entries

(* Mutation of Learned: the requests are known by their reference only. *)
LearnedByReference(t, state) ==
    /\ cacheRequests' = {u \in cacheRequests : asked[u].device # asked[t].device}
    /\ entries' = IF t \in cacheRequests /\ entries[asked[t].device].adapter = asked[t].adapter
                  THEN [entries EXCEPT ![asked[t].device].state = state,
                                       ![asked[t].device].from = t]
                  ELSE entries

(* onDataPointDescribed() and onRequestFailed() of the cache. *)
Learned(t, state) ==
    /\ cacheRequests' = cacheRequests \ {t}
    /\ entries' = IF t \in cacheRequests /\ entries[asked[t].device].adapter = asked[t].adapter
                  THEN [entries EXCEPT ![asked[t].device].state = state,
                                       ![asked[t].device].from = t]
                  ELSE entries

-----------------------------------------------------------------------------
(***************************************************************************)
(* The editor.                                                             *)
(***************************************************************************)

(* requestBuild() of a form. *)
RequestBuild(e) ==
    /\ Ask("build", e.device, e.form)
    /\ editor' = [e EXCEPT !.waiting = FALSE, !.built = e.form, !.ticket = NewTicket,
                           !.error = FALSE, !.valid = FALSE]

(* Mutation of OnDeviceSelected: the ticket is reset after the request. *)
SelectedThenForgotten(d) ==
    IF Exists(d)
    THEN /\ Ask("build", d, Default)
         /\ editor' = [editor EXCEPT !.open = TRUE, !.device = d, !.form = Default,
                         !.built = Default, !.waiting = FALSE, !.error = FALSE,
                         !.ticket = NoTicket, !.valid = FALSE, !.shown = NoExpression]
    ELSE UNCHANGED <<serviceVars, editor>>

OnDeviceSelected(d) ==
    LET cleared == [editor EXCEPT !.open = TRUE, !.device = d, !.form = Default,
                      !.ticket = NoTicket, !.valid = FALSE, !.shown = NoExpression]
    IN  IF Exists(d)
        THEN RequestBuild(cleared)
        ELSE editor' = [cleared EXCEPT !.error = FALSE] /\ UNCHANGED serviceVars

RetryAfterFailure ==
    IF editor.waiting THEN OnDeviceSelected(editor.device)
                      ELSE UNCHANGED <<serviceVars, editor>>

(* The constructor: the first device of the list. *)
OpenEditor ==
    /\ Quiet /\ ~editor.open
    /\ OnDeviceSelected(IF Ids(owner) = {} THEN 0 ELSE Min(Ids(owner)))
    /\ UNCHANGED <<cacheVars, announced>>

(* The device box, or setDevice() with any device of the list. *)
SelectDevice(d) ==
    /\ Quiet /\ editor.open /\ Exists(d)
    /\ OnDeviceSelected(d)
    /\ UNCHANGED <<cacheVars, announced>>

(* onValuesChanged(): a field was edited, or confirmed with Enter. *)
EditForm(f) ==
    /\ Quiet /\ editor.open /\ editor.device # 0
    /\ ~(editor.valid /\ f = editor.built)
    /\ RequestBuild([editor EXCEPT !.form = f])
    /\ UNCHANGED <<cacheVars, announced>>

(* setReference() *)
SetReference(d, f) ==
    /\ Quiet /\ editor.open
    /\ editor' = IF Exists(d)
                 THEN [editor EXCEPT !.ticket = NoTicket, !.waiting = FALSE, !.device = d,
                         !.form = f, !.built = f, !.error = FALSE, !.valid = TRUE,
                         !.shown = [device |-> d, form |-> f]]
                 ELSE [editor EXCEPT !.ticket = NoTicket, !.waiting = FALSE, !.error = TRUE,
                         !.valid = FALSE, !.shown = [device |-> d, form |-> f]]
    /\ UNCHANGED <<serviceVars, cacheVars, announced>>

(* Mutation of OnExpressionBuilt: the result of any build is shown. *)
AnyExpressionBuilt(t, good) ==
    editor' = IF editor.ticket # NoTicket /\ good
              THEN [editor EXCEPT !.ticket = NoTicket, !.valid = TRUE, !.error = FALSE,
                      !.shown = [device |-> asked[t].device, form |-> asked[t].form]]
              ELSE editor

(* An empty expression is an error. *)
OnExpressionBuilt(t, good) ==
    editor' = IF t # editor.ticket THEN editor
              ELSE [editor EXCEPT !.ticket = NoTicket, !.valid = good, !.error = ~good,
                      !.shown = IF good THEN [device |-> asked[t].device, form |-> asked[t].form]
                                        ELSE NoExpression]

OnRequestFailed(t) ==
    editor' = IF t # editor.ticket THEN editor
              ELSE [editor EXCEPT !.ticket = NoTicket, !.waiting = ~Usable(editor.device),
                      !.valid = FALSE, !.shown = NoExpression, !.error = TRUE]

-----------------------------------------------------------------------------
(***************************************************************************)
(* Signals of the service, the hub and the settings.                       *)
(***************************************************************************)

(* A result: valid or invalid description, usable or empty expression. *)
Result(a, id, good) ==
    /\ Quiet
    /\ Answered(a, id, FALSE)
    /\ UNCHANGED announced
    /\ IF TakenBy(a, id) = {}
       THEN UNCHANGED <<ends, cacheVars, editor>>
       ELSE \E r \in TakenBy(a, id) :
              /\ ends' = [ends EXCEPT ![r.ticket] = @ + 1]
              /\ IF asked[r.ticket].kind = "build"
                 THEN OnExpressionBuilt(r.ticket, good) /\ UNCHANGED cacheVars
                 ELSE /\ Learned(r.ticket, IF good THEN "Valid" ELSE "Invalid")
                      /\ UNCHANGED editor

(* An error, or a result without an expression. *)
ErrorReply(a, id) ==
    /\ Quiet
    /\ Answered(a, id, TRUE)
    /\ UNCHANGED <<ends, cacheVars, editor, announced>>

(* One requestFailed() of emitQueuedFailures(). *)
EmitFailure ==
    /\ NothingAnnounced /\ emitting # << >>
    /\ LET t == Head(emitting)
       IN  /\ ends' = [ends EXCEPT ![t] = @ + 1]
           /\ Learned(t, "Failed")
           /\ OnRequestFailed(t)
    /\ emitting' = Tail(emitting)
    /\ UNCHANGED <<adapterVars, ticketVars, announced>>

ServiceSteps ==
    /\ Quiet
    /\ \/ EmitQueuedFailures
       \/ \E r \in pendingRequests : RequestTimeout(r)
       \/ \E a \in Adapters : AcceptsAgain(a) \/ StopsAccepting(a, "busy") \/ StopsAccepting(a, "down")
    /\ UNCHANGED <<cacheVars, editor, announced>>

(* describeResult(): deviceListChanged() and adapterDataChanged() follow. *)
AdapterDescribes(a) ==
    /\ Quiet
    /\ editor.open /\ (editor.device = 0 \/ editor.waiting) => Room
    /\ Describes(a)
    /\ announced' = a
    /\ UNCHANGED <<cacheVars, editor>>

(* The device box selects the first device when it had none, the editor    *)
(* retries when its adapter described itself.                              *)
HearDescription ==
    /\ ~NothingAnnounced
    /\ announced' = NoAdapter
    /\ IF editor.open /\ editor.device = 0 /\ Ids(owner) # {}
       THEN OnDeviceSelected(Min(Ids(owner)))
       ELSE IF editor.open /\ Exists(editor.device) /\ owner[editor.device] = announced
            THEN RetryAfterFailure
            ELSE UNCHANGED <<serviceVars, editor>>
    /\ UNCHANGED cacheVars

(* adaptersChanged(), when the hub reports adapters ready or a session. *)
AdaptersChanged ==
    /\ Quiet /\ \E a \in Adapters : adapter[a] = "usable"
    /\ entries' = [d \in Devices |-> IF entries[d].state \in {"Unavailable", "Failed"}
                                     THEN NoEntry ELSE entries[d]]
    /\ RetryAfterFailure
    /\ UNCHANGED <<cacheRequests, announced>>

Next ==
    \/ \E d \in Devices : Lookup(d)
    \/ OpenEditor
    \/ \E d \in Devices : SelectDevice(d)
    \/ \E f \in Forms : EditForm(f)
    \/ \E d \in Devices, f \in Forms : SetReference(d, f)
    \/ \E a \in Adapters, id \in Tickets, good \in BOOLEAN : Result(a, id, good)
    \/ \E a \in Adapters, id \in Tickets : ErrorReply(a, id)
    \/ EmitFailure
    \/ ServiceSteps
    \/ \E a \in Adapters : AdapterDescribes(a)
    \/ HearDescription
    \/ AdaptersChanged

Spec == Init /\ [][Next]_vars

-----------------------------------------------------------------------------
(***************************************************************************)
(* Properties.                                                             *)
(***************************************************************************)

(* A reference shown as pending is being described: the entry has a request *)
(* at the adapter it stands for, whose outcome will replace it, however the *)
(* device changed its adapter in between.                                  *)
DescriptionsAwaited ==
    \A d \in Devices : entries[d].state = "Pending" =>
        \E t \in cacheRequests : /\ asked[t].device = d
                                 /\ asked[t].adapter = entries[d].adapter
                                 /\ ends[t] = 0

(* What the views show of a reference was said by the adapter the entry     *)
(* stands for, never by one that had the device before.                    *)
DescribedByItsAdapter ==
    \A d \in Devices : entries[d].state \in {"Valid", "Invalid", "Failed"} =>
        LET request == asked[entries[d].from]
        IN  request.device = d /\ request.adapter = entries[d].adapter

(* The expression the editor offers is the one of the device and the fields *)
(* it shows, whatever was requested, answered or cancelled before.         *)
ExpressionMatchesForm ==
    editor.valid => editor.shown = [device |-> editor.device, form |-> editor.form]

(* The editor never leaves the user without an expression, an error or a   *)
(* request that will bring one of them.                                    *)
EditorNotSilent ==
    editor.open /\ editor.device # 0 =>
        \/ editor.valid \/ editor.error
        \/ editor.ticket # NoTicket /\ ends[editor.ticket] = 0
=============================================================================
