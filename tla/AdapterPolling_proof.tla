------------------------ MODULE AdapterPolling_proof ------------------------
(***************************************************************************)
(* Theorems about the start, poll and stop path of a session.              *)
(***************************************************************************)
EXTENDS AdapterPolling, OrderedSets_proof

(* What is to be done, without its order. *)
Stack == Members(todo)
OnStack(op) == \E w \in Stack : w.op = op

Works == [op : Ops, adapter : Adapters]
Signals == {"adapterReady", "sessionStarted", "sessionError", "readDataResult"}
Calls == Ops \ Signals

(* Adapters are numbered from 1. *)
LEMMA AdaptersAreIds == Adapters \in SUBSET Nat /\ 1 \in Adapters /\ NAdapters \in Nat
BY PollingAssumption DEF Adapters

-----------------------------------------------------------------------------
(***************************************************************************)
(* The lists of work.                                                      *)
(***************************************************************************)

(* A loop over adapters has one turn for each of them. *)
LEMMA Loops ==
    ASSUME NEW op \in Ops, NEW adapters \in SUBSET Adapters
    PROVE  /\ ForEach(op, adapters) \in Seq(Works)
           /\ Members(ForEach(op, adapters)) = {Work(op, a) : a \in adapters}
           /\ OnceIn(ForEach(op, adapters))
<1> DEFINE ids == Ascending(adapters)
           n == Cardinality(adapters)
<1>1. /\ n \in Nat /\ ids \in [1 .. n -> adapters]
      /\ \A i, j \in 1 .. n : ids[i] = ids[j] => i = j
      /\ \A x \in adapters : \E i \in 1 .. n : ids[i] = x
  BY AdaptersAreIds, AscendingOrder DEF Adapters
<1>2. ForEach(op, adapters) = [i \in 1 .. n |-> Work(op, ids[i])]
  BY <1>1 DEF ForEach
<1> HIDE DEF ids, n
<1>3. \A i \in 1 .. n : Work(op, ids[i]) \in Works
  BY <1>1 DEF Work, Works
<1>4. ForEach(op, adapters) \in Seq(Works)
  BY <1>1, <1>2, <1>3
<1>5. OnceIn(ForEach(op, adapters))
  BY <1>1, <1>2 DEF OnceIn, Work
<1>6. Members(ForEach(op, adapters)) = {Work(op, a) : a \in adapters}
  <2>1. Members(ForEach(op, adapters)) = {Work(op, ids[i]) : i \in 1 .. n}
    BY <1>2 DEF Members
  <2> QED BY <1>1, <2>1
<1> QED BY <1>4, <1>5, <1>6

(* The moves of a session: their phases, and the signals they emit. *)
LEMMA MovesAre ==
    ASSUME NEW m \in Table!Moves
    PROVE  /\ m.from \in Table!Phases /\ m.to \in Table!Phases
           /\ m.out \in {<< >>, <<"sessionError">>, <<"readDataResult">>, <<"sessionStopped">>,
                         <<"adapterReady">>, <<"sessionStarted">>,
                         <<"sessionStopped", "adapterReady">>, <<"sessionError", "adapterReady">>}
<1> USE DEF Table!Move, Table!Error, Table!Phases
<1>1. CASE m \in Table!CallMoves
  BY <1>1 DEF Table!CallMoves
<1>2. CASE m \in Table!LaunchFailures \cup Table!RestartFailures \cup Table!WriteFailures
  BY <1>2 DEF Table!LaunchFailures, Table!RestartFailures, Table!WriteFailures
<1>3. CASE m \in Table!EventMoves
  BY <1>3 DEF Table!EventMoves
<1> QED BY <1>1, <1>2, <1>3 DEF Table!Moves

(* The signals of a move in the hub's order: sessionStopped() is not heard. *)
LEMMA HeardSignals ==
    ASSUME NEW m \in Table!Moves, NEW a \in Adapters
    PROVE  /\ Heard(m.out, a) \in Seq(Works)
           /\ m.out \in {<< >>, <<"sessionStopped">>} => Heard(m.out, a) = << >>
           /\ \A s \in Signals : m.out = <<s>> => Heard(m.out, a) = <<Work(s, a)>>
           /\ m.out = <<"sessionStopped", "adapterReady">> =>
                 Heard(m.out, a) = <<Work("adapterReady", a)>>
<1> DEFINE loud == {i \in DOMAIN m.out : m.out[i] # "sessionStopped"}
           heard == Ascending(loud)
           n == Cardinality(loud)
<1>1. /\ n \in Nat /\ heard \in [1 .. n -> loud]
  <2>1. 2 \in Nat /\ loud \in SUBSET (1 .. 2)
    BY MovesAre
  <2> HIDE DEF loud
  <2>2. Cardinality(loud) \in Nat /\ Ascending(loud) \in [1 .. Cardinality(loud) -> loud]
    BY ONLY <2>1, AscendingOrder
  <2> QED BY <2>2
<1>2. Heard(m.out, a) = [i \in 1 .. n |-> Work(m.out[heard[i]], a)]
  BY <1>1 DEF Heard
<1>3. \A i \in 1 .. n : heard[i] \in loud
  BY <1>1
<1>4. \A i \in loud : m.out[i] \in Signals
  BY MovesAre DEF Signals
<1>5. loud = {} => n = 0
  BY FS_EmptySet
<1>6. \A k : loud = {k} => n = 1
  BY FS_Singleton
<1> HIDE DEF heard, n
<1>7. \A i \in 1 .. n : Work(m.out[heard[i]], a) \in Works
  BY <1>3, <1>4 DEF Work, Works, Signals, Ops
<1>8. Heard(m.out, a) \in Seq(Works)
  BY <1>1, <1>2, <1>7
<1>9. loud = {} => Heard(m.out, a) = << >>
  BY <1>2, <1>5
<1>10. \A k : loud = {k} => Heard(m.out, a) = <<Work(m.out[k], a)>>
  <2> SUFFICES ASSUME NEW k, loud = {k}
               PROVE  Heard(m.out, a) = <<Work(m.out[k], a)>>
    OBVIOUS
  <2>1. n = 1 /\ heard[1] = k
    <3>1. n = 1
      BY <1>6
    <3> QED BY <1>3, <3>1
  <2>2. \A i \in 1 .. n : i = 1
    BY <2>1
  <2>3. Heard(m.out, a) = [i \in 1 .. 1 |-> Work(m.out[k], a)]
    BY <1>2, <2>1, <2>2
  <2> QED BY <2>3
<1>11. m.out \in {<< >>, <<"sessionStopped">>} => loud = {}
  OBVIOUS
<1>12. \A s \in Signals : m.out = <<s>> => loud = {1}
  BY DEF Signals
<1>13. m.out = <<"sessionStopped", "adapterReady">> => loud = {2}
  OBVIOUS
<1> HIDE DEF loud
<1>14. m.out = <<"sessionStopped", "adapterReady">> => m.out[2] = "adapterReady"
  OBVIOUS
<1> QED BY <1>8, <1>9, <1>10, <1>11, <1>12, <1>13, <1>14

-----------------------------------------------------------------------------
(***************************************************************************)
(* Types, and the state the user sees.                                     *)
(***************************************************************************)

(* The poll and the GUI change together; statistics that do not run yet    *)
(* are started by the rest of ScopeController::start().                    *)
GuiInv ==
    /\ started <=> pollState # "Inactive"
    /\ statsRunning => started
    /\ started /\ ~statsRunning => OnStack("afterStart")

(* The work on top of the stack, and what is left below it. *)
LEMMA WorkOnTop ==
    ASSUME TypeOK, ~Quiescent
    PROVE  /\ Head(todo) \in Works /\ Head(todo) \in Stack /\ Rest \in Seq(Works)
           /\ Head(todo).adapter \in Adapters /\ Head(todo).op \in Ops
           /\ Stack = {Head(todo)} \cup Members(Rest)
<1>1. todo \in Seq(Works) /\ todo # << >>
  BY DEF TypeOK, Works, Quiescent
<1>2. Head(todo) \in Works
  BY <1>1, FirstAndRest
<1> QED BY <1>1, <1>2, FirstAndRest DEF Stack, Rest, Works

(* Everything on the stack is work of a known kind. *)
LEMMA StackIsWork == TypeOK => Stack \subseteq Works
<1> SUFFICES ASSUME TypeOK PROVE Stack \subseteq Works
  OBVIOUS
<1>1. todo \in Seq(Works)
  BY DEF TypeOK, Works
<1> QED BY <1>1 DEF Stack, Members

(* A move of an adapter puts its signals on top of the remaining work. *)
LEMMA Performing ==
    ASSUME TypeOK, NEW a \in Adapters, NEW move \in Table!Moves, NEW rest \in Seq(Works),
           Perform(a, move, rest)
    PROVE  /\ phase' \in [Adapters -> Table!Phases] /\ owed' \in [Adapters -> 0 .. MaxOwed]
           /\ todo' \in Seq(Works)
           /\ Stack' = Members(Heard(move.out, a)) \cup Members(rest)
<1>1. phase' = [phase EXCEPT ![a] = move.to] /\ todo' = Heard(move.out, a) \o rest
  BY DEF Perform
<1>2. PICK n \in OwedChoices(move, owed[a]) : owed' = [owed EXCEPT ![a] = n]
  BY DEF Perform
<1>3. n \in 0 .. MaxOwed
  <2>1. owed[a] \in Nat /\ MaxOwed \in Nat
    BY PollingAssumption DEF TypeOK
  <2>2. Table!OwedAfter(move, owed[a]) \subseteq Nat
    BY <2>1 DEF Table!OwedAfter
  <2> QED BY <2>1, <2>2 DEF OwedChoices
<1>4. phase' \in [Adapters -> Table!Phases] /\ owed' \in [Adapters -> 0 .. MaxOwed]
  BY <1>1, <1>2, <1>3, MovesAre DEF TypeOK
<1>5. todo' \in Seq(Works) /\ Members(todo') = Members(Heard(move.out, a)) \cup Members(rest)
  BY <1>1, HeardSignals, Concatenation
<1> QED BY <1>4, <1>5 DEF Stack

(* A call of an adapter that is taken or ignored. *)
Called(on, a) ==
    \/ \E move \in MovesOf(a, on) : Perform(a, move, Rest)
    \/ todo' = Rest /\ UNCHANGED clientVars

(* What a call of a manager does to the stack. *)
LEMMA Calling ==
    ASSUME TypeOK, ~Quiescent, NEW a \in Adapters, NEW on, Called(on, a)
    PROVE  /\ phase' \in [Adapters -> Table!Phases] /\ owed' \in [Adapters -> 0 .. MaxOwed]
           /\ todo' \in Seq(Works) /\ Members(Rest) \subseteq Stack'
<1>1. ASSUME NEW move \in MovesOf(a, on), Perform(a, move, Rest)
      PROVE  /\ phase' \in [Adapters -> Table!Phases] /\ owed' \in [Adapters -> 0 .. MaxOwed]
             /\ todo' \in Seq(Works) /\ Members(Rest) \subseteq Stack'
  <2>1. move \in Table!Moves
    BY DEF MovesOf
  <2> QED BY <1>1, <2>1, Performing, WorkOnTop
<1>2. CASE todo' = Rest /\ UNCHANGED clientVars
  BY <1>2, WorkOnTop DEF TypeOK, clientVars, Stack
<1> QED BY <1>1, <1>2 DEF Called

(* Work that is put before the rest. *)
LEMMA Looping ==
    ASSUME NEW op \in Ops, NEW adapters \in SUBSET Adapters, NEW rest \in Seq(Works),
           todo' = ForEach(op, adapters) \o rest
    PROVE  /\ todo' \in Seq(Works) /\ Members(rest) \subseteq Stack'
           /\ Stack' = {Work(op, a) : a \in adapters} \cup Members(rest)
BY Loops, Concatenation DEF Stack

(* The GUI's state while the work on top is done and the rest remains. *)
LEMMA GuiKept ==
    ASSUME TypeOK, GuiInv, UNCHANGED <<started, statsRunning>>,
           pollState' # "Inactive" <=> pollState # "Inactive",
           \/ Stack \subseteq Stack'
           \/ ~Quiescent /\ Head(todo).op # "afterStart" /\ Members(Rest) \subseteq Stack'
    PROVE  GuiInv'
<1>1. OnStack("afterStart") => OnStack("afterStart")'
  BY WorkOnTop DEF OnStack
<1> QED BY <1>1 DEF GuiInv

(* Stopping leaves nothing on. *)
LEMMA StoppingAll ==
    ASSUME TypeOK, NEW still \in SUBSET Adapters, NEW rest \in Seq(Works), StopAll(still, rest),
           UNCHANGED clientVars
    PROVE  TypeOK' /\ GuiInv'
<1> DEFINE toStop == {a \in Adapters : phase[a] \notin {"idle", "ready"}}
<1>1. /\ todo' = ForEach("stop", toStop) \o rest
      /\ pollState' = "Inactive" /\ groups' = {} /\ results' = {} /\ pendingResults' = {}
      /\ pollTimer' = FALSE /\ statsRunning' = FALSE /\ started' = FALSE /\ cycle' = "none"
      /\ pendingReady' \subseteq pendingReady \cup toStop /\ pendingStart' \subseteq still
  BY DEF StopAll
<1>2. todo' \in Seq(Works)
  BY <1>1, Looping DEF Ops
<1> QED BY <1>1, <1>2 DEF TypeOK, GuiInv, clientVars, Works

(* A new poll cycle asks every adapter. *)
LEMMA Triggering ==
    ASSUME TypeOK, NEW rest \in Seq(Works), TriggerRegisterRead(rest)
    PROVE  /\ todo' \in Seq(Works) /\ Members(rest) \subseteq Stack'
           /\ results' \subseteq Adapters /\ pendingResults' \subseteq Adapters
           /\ cycle' \in {"none", "open", "done", "excess"}
<1>1. CASE pollState = "Active"
  <2>1. /\ todo' = ForEach("read", Adapters) \o rest
        /\ pendingResults' = groups /\ results' = {} /\ cycle' = "open"
    BY <1>1 DEF TriggerRegisterRead
  <2>2. "read" \in Ops /\ Adapters \in SUBSET Adapters
    BY DEF Ops
  <2>3. todo' \in Seq(Works) /\ Members(rest) \subseteq Stack'
    BY <2>1, <2>2, Looping
  <2> QED BY <2>1, <2>3 DEF TypeOK
<1>2. CASE pollState # "Active"
  <2>1. todo' = rest /\ UNCHANGED cycleVars
    BY <1>2 DEF TriggerRegisterRead
  <2> QED BY <2>1 DEF TypeOK, cycleVars, Stack
<1> QED BY <1>1, <1>2

(* The type invariant holds at first. *)
LEMMA TypedInitially == Init => TypeOK /\ GuiInv
<1> SUFFICES ASSUME Init PROVE TypeOK /\ GuiInv
  OBVIOUS
<1>1. todo \in Seq(Works)
  BY Loops DEF Init, Ops
<1>2. phase \in [Adapters -> Table!Phases] /\ owed \in [Adapters -> 0 .. MaxOwed]
  BY PollingAssumption DEF Init, Table!Phases
<1> QED BY <1>1, <1>2 DEF Init, TypeOK, GuiInv, Works

(* Every step keeps the type invariant. *)
LEMMA TypedStep == TypeOK /\ GuiInv /\ [Next]_vars => TypeOK' /\ GuiInv'
<1> SUFFICES ASSUME TypeOK, GuiInv, [Next]_vars PROVE TypeOK' /\ GuiInv'
  OBVIOUS
<1> USE DEF hubVars, cycleVars, sessionVars, clientVars
<1>1. ASSUME InitAdapterTurn \/ StartSessionTurn \/ RequestReadDataTurn \/ StopSessionTurn
      PROVE  TypeOK' /\ GuiInv'
  <2>1. /\ ~Quiescent /\ Head(todo).op # "afterStart"
    BY <1>1 DEF InitAdapterTurn, StartSessionTurn, RequestReadDataTurn, StopSessionTurn, Doing
  <2> DEFINE a == Head(todo).adapter
  <2>2. a \in Adapters /\ Rest \in Seq(Works)
    BY <2>1, WorkOnTop
  <2>3. /\ phase' \in [Adapters -> Table!Phases] /\ owed' \in [Adapters -> 0 .. MaxOwed]
        /\ todo' \in Seq(Works) /\ Members(Rest) \subseteq Stack'
        /\ pendingReady' \subseteq pendingReady \cup {a} /\ pendingStart' \subseteq pendingStart \cup {a}
        /\ UNCHANGED <<cycleVars, sessionVars>>
    <3>1. CASE InitAdapterTurn
      <4>1. Called("prepare", a)
        BY <3>1 DEF InitAdapterTurn, CallAdapter, Called
      <4> QED BY <2>1, <2>2, <3>1, <4>1, Calling DEF InitAdapterTurn
    <3>2. CASE StartSessionTurn
      <4>1. CASE groups = {} /\ todo' = Rest /\ UNCHANGED <<clientVars, pendingStart>>
        BY <2>2, <3>2, <4>1 DEF StartSessionTurn, TypeOK, Stack
      <4>2. CASE pendingStart' = pendingStart \cup {a} /\ Called("configure", a)
        BY <2>1, <2>2, <3>2, <4>2, Calling DEF StartSessionTurn
      <4> QED BY <3>2, <4>1, <4>2 DEF StartSessionTurn, CallAdapter, Called
    <3>3. CASE RequestReadDataTurn
      <4>1. Called("read", a)
        BY <3>3 DEF RequestReadDataTurn, CallAdapter, Called
      <4> QED BY <2>1, <2>2, <3>3, <4>1, Calling DEF RequestReadDataTurn
    <3>4. CASE StopSessionTurn
      <4>1. Called("stop", a)
        BY <3>4 DEF StopSessionTurn, CallAdapter, Called
      <4> QED BY <2>1, <2>2, <3>4, <4>1, Calling DEF StopSessionTurn
    <3> QED BY <1>1, <3>1, <3>2, <3>3, <3>4
  <2>4. GuiInv'
    BY <2>1, <2>3, GuiKept
  <2> QED BY <2>2, <2>3, <2>4 DEF TypeOK, Works
<1>2. CASE OnManagerAdapterReady
  <2>1. ~Quiescent /\ Head(todo).op = "adapterReady"
    BY <1>2 DEF OnManagerAdapterReady, Doing
  <2>2. Rest \in Seq(Works) /\ groups \in SUBSET Adapters
    BY <2>1, WorkOnTop DEF TypeOK
  <2>3. todo' \in Seq(Works) /\ Members(Rest) \subseteq Stack'
    <3>1. CASE todo' = ForEach("configure", groups) \o Rest
      <4>1. "configure" \in Ops
        BY DEF Ops
      <4> QED BY <2>2, <3>1, <4>1, Looping
    <3>2. CASE todo' = Rest
      BY <2>2, <3>2 DEF Stack
    <3> QED BY <1>2, <3>1, <3>2 DEF OnManagerAdapterReady
  <2>4. GuiInv'
    BY <1>2, <2>1, <2>3, GuiKept DEF OnManagerAdapterReady
  <2> QED BY <1>2, <2>3, <2>4 DEF OnManagerAdapterReady, TypeOK, Works
<1>3. CASE OnManagerSessionStarted
  <2>1. ~Quiescent /\ Head(todo).op = "sessionStarted"
    BY <1>3 DEF OnManagerSessionStarted, Doing
  <2>2. Rest \in Seq(Works)
    BY <2>1, WorkOnTop
  <2>3. /\ todo' \in Seq(Works) /\ Members(Rest) \subseteq Stack'
        /\ results' \subseteq Adapters /\ pendingResults' \subseteq Adapters
        /\ cycle' \in {"none", "open", "done", "excess"}
    <3>1. CASE TriggerRegisterRead(Rest)
      BY <2>2, <3>1, Triggering
    <3>2. CASE todo' = Rest /\ UNCHANGED cycleVars
      BY <2>2, <3>2 DEF TypeOK, Stack
    <3> QED BY <1>3, <3>1, <3>2 DEF OnManagerSessionStarted
  <2>4. GuiInv'
    BY <1>3, <2>1, <2>3, GuiKept DEF OnManagerSessionStarted
  <2> QED BY <1>3, <2>3, <2>4 DEF OnManagerSessionStarted, TypeOK, Works
<1>4. CASE OnManagerSessionError
  <2> DEFINE still == pendingStart \ {Head(todo).adapter}
  <2>1. ~Quiescent /\ Head(todo).op = "sessionError" /\ UNCHANGED clientVars
    BY <1>4 DEF OnManagerSessionError, Doing
  <2>2. Rest \in Seq(Works) /\ still \in SUBSET Adapters
    BY <2>1, WorkOnTop DEF TypeOK
  <2>3. CASE pollState # "Inactive"
    <3>1. StopAll(still, Rest)
      BY <1>4, <2>3 DEF OnManagerSessionError
    <3> HIDE DEF still
    <3> QED BY <2>1, <2>2, <3>1, StoppingAll
  <2>4. CASE pollState = "Inactive"
    <3>1. /\ pendingStart' = still /\ results' = {} /\ pendingResults' = {} /\ todo' = Rest
          /\ UNCHANGED <<pendingReady, cycle, sessionVars>>
      BY <1>4, <2>4 DEF OnManagerSessionError
    <3>2. GuiInv'
      BY <2>1, <3>1, GuiKept DEF Stack
    <3> QED BY <2>1, <2>2, <3>1, <3>2 DEF TypeOK, Works
  <2> QED BY <2>3, <2>4
<1>5. CASE OnReadDataResult
  <2>1. ~Quiescent /\ Head(todo).op = "readDataResult" /\ todo' = Rest
    BY <1>5 DEF OnReadDataResult, Doing
  <2>2. Rest \in Seq(Works) /\ Head(todo).adapter \in Adapters
    BY <2>1, WorkOnTop
  <2>3. GuiInv'
    BY <1>5, <2>1, GuiKept DEF OnReadDataResult, Stack
  <2> QED BY <1>5, <2>1, <2>2, <2>3 DEF OnReadDataResult, TypeOK, Works
<1>6. CASE FinishStart
  <2>1. Rest \in Seq(Works) /\ todo' = Rest
    BY <1>6, WorkOnTop DEF FinishStart, Doing
  <2>2. TypeOK'
    BY <1>6, <2>1 DEF FinishStart, TypeOK, Works
  <2> QED BY <1>6, <2>2 DEF FinishStart, GuiInv
<1>7. ASSUME NEW adapters \in SUBSET Adapters, StartCommunication(adapters)
      PROVE  TypeOK' /\ GuiInv'
  <2>1. <<AfterStart>> \in Seq(Works) /\ Members(<<AfterStart>>) = {AfterStart} /\ AfterStart.op = "afterStart"
    BY AdaptersAreIds DEF AfterStart, Work, Works, Ops, Members
  <2>2. PICK op \in Ops, as \in SUBSET Adapters : todo' = ForEach(op, as) \o <<AfterStart>>
    BY <1>7 DEF StartCommunication, Ops
  <2>3. todo' \in Seq(Works) /\ Members(<<AfterStart>>) \subseteq Stack'
    <3> DEFINE rest == <<AfterStart>>
    <3>1. rest \in Seq(Works) /\ todo' = ForEach(op, as) \o rest
      BY <2>1, <2>2
    <3> HIDE DEF rest
    <3>2. todo' \in Seq(Works) /\ Members(rest) \subseteq Stack'
      BY <3>1, Looping
    <3> QED BY <3>2 DEF rest
  <2>4. GuiInv'
    BY <1>7, <2>1, <2>3 DEF StartCommunication, GuiInv, OnStack
  <2> QED BY <1>7, <2>3, <2>4 DEF StartCommunication, TypeOK, Works
<1>8. CASE StopCommunication
  <2>1. StopAll(pendingStart, << >>) /\ UNCHANGED clientVars
    BY <1>8 DEF StopCommunication
  <2>2. pendingStart \in SUBSET Adapters /\ << >> \in Seq(Works)
    BY DEF TypeOK
  <2> QED BY <2>1, <2>2, StoppingAll
<1>9. CASE PollTimeout
  <2>1. TriggerRegisterRead(<< >>) /\ todo = << >> /\ << >> \in Seq(Works)
    BY <1>9 DEF PollTimeout, Quiescent
  <2>2. /\ todo' \in Seq(Works)
        /\ results' \subseteq Adapters /\ pendingResults' \subseteq Adapters
        /\ cycle' \in {"none", "open", "done", "excess"}
    BY <2>1, Triggering
  <2>3. GuiInv'
    <3>1. Stack \subseteq Stack'
      BY <2>1 DEF Stack, Members
    <3> QED BY <1>9, <3>1, GuiKept DEF PollTimeout
  <2> QED BY <1>9, <2>2, <2>3 DEF PollTimeout, TypeOK, Works
<1>10. ASSUME NEW a \in Adapters, SessionEvent(a)
       PROVE  TypeOK' /\ GuiInv'
  <2>1. PICK move \in MovesOf(a, "event") : Perform(a, move, << >>)
    BY <1>10 DEF SessionEvent
  <2>2. move \in Table!Moves /\ << >> \in Seq(Works)
    BY DEF MovesOf
  <2>3. /\ phase' \in [Adapters -> Table!Phases] /\ owed' \in [Adapters -> 0 .. MaxOwed]
        /\ todo' \in Seq(Works)
    BY <2>1, <2>2, Performing
  <2>4. GuiInv'
    <3>1. Stack \subseteq Stack'
      BY <1>10 DEF SessionEvent, Quiescent, Stack, Members
    <3> QED BY <1>10, <3>1, GuiKept DEF SessionEvent
  <2> QED BY <1>10, <2>3, <2>4 DEF SessionEvent, TypeOK, Works
<1>11. ASSUME NEW a \in Adapters, LateReplyDropped(a)
       PROVE  TypeOK' /\ GuiInv'
  <2>1. owed' \in [Adapters -> 0 .. MaxOwed] /\ UNCHANGED <<phase, hubVars, cycleVars, sessionVars, todo>>
    BY <1>11, PollingAssumption DEF LateReplyDropped, TypeOK
  <2>2. GuiInv'
    BY <2>1, GuiKept DEF Stack
  <2> QED BY <2>1, <2>2 DEF TypeOK
<1>12. CASE UNCHANGED vars
  <2>1. GuiInv'
    BY <1>12, GuiKept DEF vars, Stack
  <2> QED BY <1>12, <2>1 DEF vars, TypeOK
<1> QED BY <1>1, <1>2, <1>3, <1>4, <1>5, <1>6, <1>7, <1>8, <1>9, <1>10, <1>11, <1>12 DEF Next, Turn

(* Every variable keeps its type. *)
THEOREM PollingTyped == Spec => []TypeOK
BY TypedInitially, TypedStep, PTL DEF Spec

(* The GUI, the statistics and the poll agree whenever the event loop is    *)
(* reached, for any number of adapters, with failing launches, broken       *)
(* channels and replies in any order: an error below start() cannot leave   *)
(* one of them on.                                                          *)
THEOREM SessionStateKept == Spec => []SessionStateAgrees
<1>1. TypeOK /\ GuiInv => SessionStateAgrees
  BY DEF GuiInv, SessionStateAgrees, OnStack, Stack, Members, Quiescent
<1> QED BY TypedInitially, TypedStep, <1>1, PTL DEF Spec

-----------------------------------------------------------------------------
(***************************************************************************)
(* The invariant of an orderly session: no write channel breaks under a    *)
(* request, and an adapter answers its requests in the order it got them.  *)
(***************************************************************************)

Orderly == ~ChannelMayBreak /\ RepliesInOrder

On(op, a) == Work(op, a) \in Stack

(* Loops over adapters do not interrupt each other: a signal is handled    *)
(* before anything else, a loop that configures or reads adapters runs     *)
(* alone, and the start of a session finds an empty stack.                 *)
SignalsOnTop == ~Quiescent => \A w \in Members(Rest) : w.op \in Calls

StackInv ==
    /\ SignalsOnTop
    /\ \A b \in Adapters : On("configure", b) =>
          /\ pollState = "Active" /\ cycle = "none" /\ b \in groups
          /\ \A w \in Stack : w.op \in {"configure", "afterStart"}
    /\ \A b \in Adapters : On("read", b) =>
          /\ pollState = "Active" /\ OnceIn(todo)
          /\ \A w \in Stack : w.op \in {"read", "readDataResult"}
    /\ \A b \in Adapters : On("stop", b) => pollState = "Inactive"
    /\ \A b \in Adapters : On("adapterReady", b) /\ pollState # "Inactive" => Rest = << >>
    /\ \A b \in Adapters : On("sessionStarted", b) => Rest = << >>

(* Sessions belong to the data points of a poll that is active; without a  *)
(* poll they are about to be stopped.  An adapter of an active poll is to  *)
(* be configured, waited for, or running, unless an error is about to end  *)
(* the poll; the cycles begin when nobody is waited for.                   *)
SessionInv ==
    /\ \A a \in Adapters : phase[a] \in SessionPhases =>
          \/ pollState = "Inactive" /\ On("stop", a)
          \/ pollState = "Active" /\ a \in groups
    /\ pollState = "Active" => \A a \in groups :
          \/ a \in pendingStart \/ phase[a] \in {"active", "degraded"} \/ On("configure", a)
          \/ \E b \in Adapters : On("sessionError", b)
    /\ pollState = "Active" =>
          \A a \in Adapters : phase[a] \in {"starting", "announcing"} => a \in pendingStart
    /\ \A a \in Adapters : On("sessionStarted", a) =>
          phase[a] \in {"active", "degraded"} /\ pollState = "Active" /\ a \in pendingStart
    /\ cycle # "none" => pollState = "Active" /\ pendingStart \cap groups = {} /\ groups # {}

(* An adapter owes the result of the current cycle as long as the cycle    *)
(* waits for it: its request is to be sent, or sent, or its result is to   *)
(* be handled; and it owes nothing else.                                   *)
Due(a) ==
    \/ On("read", a) /\ ~On("readDataResult", a) /\ (phase[a] = "active" => owed[a] = 0)
    \/ ~On("read", a) /\ On("readDataResult", a) /\ (phase[a] = "active" => owed[a] = 0)
    \/ ~On("read", a) /\ ~On("readDataResult", a) /\ phase[a] = "active" /\ owed[a] = 1

Settled(a) == ~On("read", a) /\ ~On("readDataResult", a) /\ (phase[a] = "active" => owed[a] = 0)

CycleInv ==
    /\ cycle # "excess"
    /\ pollTimer <=> cycle = "done"
    /\ \A a \in Adapters :
          phase[a] \in {"preparing", "ready", "starting", "degraded", "announcing"} => owed[a] = 0
    /\ cycle = "open" => pendingResults # {} /\ pendingResults \subseteq groups
    /\ pollState = "Active" => \A a \in groups :
          \/ IF cycle = "open" /\ a \in pendingResults THEN Due(a) ELSE Settled(a)
          \/ \E b \in Adapters : On("sessionError", b)
    /\ pollState = "Active" => \A a \in Adapters : On("readDataResult", a) => a \in groups

IInv == TypeOK /\ GuiInv /\ StackInv /\ SessionInv /\ CycleInv

(* How the stack changes. *)
LEMMA WorkIs ==
    /\ \A op, a : Work(op, a).op = op /\ Work(op, a).adapter = a
    /\ \A w \in Works : w = Work(w.op, w.adapter) /\ w.op \in Ops /\ w.adapter \in Adapters
    /\ \A op \in Ops, a \in Adapters : Work(op, a) \in Works
BY DEF Work, Works

(* The facts about the work below the top survive its end. *)
LEMMA Popped ==
    ASSUME TypeOK, ~Quiescent, todo' = Rest
    PROVE  /\ Stack' \subseteq Stack /\ Stack \subseteq Stack' \cup {Head(todo)}
           /\ OnceIn(todo) => OnceIn(todo)' /\ Head(todo) \notin Stack'
           /\ SignalsOnTop => SignalsOnTop' /\ \A w \in Stack' : w.op \in Calls
<1>1. todo \in Seq(Works) /\ todo # << >> /\ Rest = Tail(todo)
  BY DEF TypeOK, Works, Quiescent, Rest
<1>2. OnceIn(todo) => OnceIn(todo)' /\ Head(todo) \notin Stack'
  BY <1>1, HeadAndTail DEF Stack
<1>3. Stack' \subseteq Stack /\ Stack \subseteq Stack' \cup {Head(todo)}
  BY <1>1, FirstAndRest DEF Stack
<1>4. SignalsOnTop => \A w \in Stack' : w.op \in Calls
  BY <1>1 DEF SignalsOnTop, Stack
<1>5. SignalsOnTop => SignalsOnTop'
  <2>1. CASE Rest = << >>
    BY <2>1 DEF SignalsOnTop, Quiescent
  <2>2. CASE Rest # << >>
    <3>1. Members(Tail(Rest)) \subseteq Members(Rest)
      BY <1>1, <2>2, FirstAndRest
    <3> QED BY <3>1 DEF SignalsOnTop, Rest
  <2> QED BY <2>1, <2>2
<1> QED BY <1>2, <1>3, <1>4, <1>5

(* A signal on top of the remaining work. *)
LEMMA Pushed ==
    ASSUME TypeOK, ~Quiescent, SignalsOnTop, NEW w \in Works, todo' = <<w>> \o Rest
    PROVE  /\ Stack' = {w} \cup Members(Rest) /\ Members(Rest) \subseteq Stack
           /\ Stack \subseteq Members(Rest) \cup {Head(todo)}
           /\ \A v \in Members(Rest) : v.op \in Calls
           /\ SignalsOnTop'
           /\ OnceIn(todo) => Head(todo) \notin Members(Rest)
           /\ OnceIn(todo) /\ w \notin Members(Rest) => OnceIn(todo)'
<1>1. todo \in Seq(Works) /\ todo # << >> /\ Rest = Tail(todo) /\ Rest \in Seq(Works)
  BY FirstAndRest DEF TypeOK, Works, Quiescent, Rest
<1>2. <<w>> \in Seq(Works) /\ Members(<<w>>) = {w} /\ OnceIn(<<w>>)
  BY ShortLists
<1>3. Stack' = {w} \cup Members(Rest)
  <2> DEFINE first == <<w>>
             rest == Rest
  <2>1. first \in Seq(Works) /\ rest \in Seq(Works) /\ todo' = first \o rest
    BY <1>1, <1>2
  <2> HIDE DEF first, rest
  <2>2. Members(first \o rest) = Members(first) \cup Members(rest)
    BY ONLY <2>1, Concatenation
  <2> QED BY <1>2, <2>1, <2>2 DEF Stack, first, rest
<1>4. Members(Rest) \subseteq Stack /\ Stack \subseteq Members(Rest) \cup {Head(todo)}
  BY <1>1, FirstAndRest DEF Stack
<1>5. OnceIn(todo) => OnceIn(Rest) /\ Head(todo) \notin Members(Rest)
  BY <1>1, HeadAndTail
<1>6. OnceIn(todo) /\ w \notin Members(Rest) => OnceIn(todo)'
  <2> DEFINE first == <<w>>
             rest == Rest
  <2>1. /\ first \in Seq(Works) /\ rest \in Seq(Works) /\ todo' = first \o rest
        /\ Members(first) = {w} /\ OnceIn(first) /\ (OnceIn(todo) => OnceIn(rest))
    BY <1>1, <1>2, <1>5
  <2> HIDE DEF first, rest
  <2>2. OnceIn(first) /\ OnceIn(rest) /\ Members(first) \cap Members(rest) = {} => OnceIn(first \o rest)
    BY ONLY <2>1, Concatenation
  <2>3. w \notin Members(rest) => Members(first) \cap Members(rest) = {}
    BY ONLY <2>1
  <2>4. OnceIn(todo)' <=> OnceIn(first \o rest)
    BY <2>1 DEF OnceIn
  <2> QED BY ONLY <2>1, <2>2, <2>3, <2>4 DEF rest
<1>7. Tail(todo') = Rest
  BY <1>1
<1>8. \A v \in Members(Rest) : v.op \in Calls
  BY DEF SignalsOnTop
<1>9. SignalsOnTop'
  BY <1>7, <1>8 DEF SignalsOnTop, Rest
<1> QED BY <1>3, <1>4, <1>5, <1>6, <1>8, <1>9

(* The first signal of an event. *)
LEMMA Begun ==
    ASSUME NEW w \in Works, todo' = <<w>>
    PROVE  /\ Stack' = {w} /\ SignalsOnTop' /\ OnceIn(todo)' /\ Rest' = << >>
<1>1. Rest' = << >>
  BY DEF Rest
<1>2. Stack' = {w} /\ OnceIn(todo)'
  BY ShortLists DEF Stack
<1> QED BY <1>1, <1>2 DEF SignalsOnTop, Members

(* A loop put before work that consists of calls. *)
LEMMA Looped ==
    ASSUME NEW op \in Calls, NEW adapters \in SUBSET Adapters, NEW rest \in Seq(Works),
           \A v \in Members(rest) : v.op \in Calls,
           todo' = ForEach(op, adapters) \o rest
    PROVE  /\ Stack' = {Work(op, a) : a \in adapters} \cup Members(rest)
           /\ \A w \in Stack' : w.op \in Calls
           /\ SignalsOnTop'
           /\ rest = << >> => OnceIn(todo)'
<1>1. op \in Ops
  BY DEF Calls
<1>2. todo' \in Seq(Works) /\ Stack' = {Work(op, a) : a \in adapters} \cup Members(rest)
  BY <1>1, Looping
<1>3. \A w \in Stack' : w.op \in Calls
  BY <1>2, WorkIs
<1>4. SignalsOnTop'
  <2>1. CASE todo' = << >>
    BY <2>1 DEF SignalsOnTop, Quiescent
  <2>2. CASE todo' # << >>
    <3>1. Members(Tail(todo')) \subseteq Members(todo')
      BY <1>2, <2>2, FirstAndRest
    <3> QED BY <1>3, <3>1 DEF SignalsOnTop, Rest, Stack
  <2> QED BY <2>1, <2>2
<1>5. rest = << >> => OnceIn(todo)'
  <2>1. rest = << >> => todo' = ForEach(op, adapters)
    BY <1>1, Loops
  <2> QED BY <1>1, <2>1, Loops
<1> QED BY <1>2, <1>3, <1>4, <1>5

-----------------------------------------------------------------------------
(***************************************************************************)
(* What a move of an adapter changes in an orderly session.                *)
(***************************************************************************)

(* A move and what is heard of it, by the call or event that makes it. *)
LEMMA OrderlyMoves ==
    ASSUME Orderly, NEW a, NEW on, NEW m \in MovesOf(a, on)
    PROVE  /\ m \in Table!Moves /\ m.from = phase[a] /\ m.on = on
           /\ on = "prepare" =>
                 \/ m.to \in {"preparing", "idle"} /\ m.out = << >>
                 \/ m.to = "idle" /\ m.out = <<"sessionError">>
           /\ on = "configure" => m.from = "ready" /\ m.to \in {"starting", "announcing"} /\ m.out = << >>
           /\ on = "read" =>
                 \/ m.from = "active" /\ m.to = "active" /\ m.out = << >>
                 \/ m.from \in {"degraded", "announcing"} /\ m.to = m.from /\ m.out = <<"readDataResult">>
           /\ on = "stop" =>
                 \/ m.to \in {"stopping", "killing"} /\ m.out = << >>
                 \/ /\ m.from \in {"degraded", "announcing"} /\ m.to = "ready"
                    /\ m.out = <<"sessionStopped", "adapterReady">>
           /\ on = "event" =>
                 \/ m.from = "preparing" /\ m.to = "ready" /\ m.out = <<"adapterReady">>
                 \/ m.from = "starting" /\ m.to \in {"active", "degraded"} /\ m.out = <<"sessionStarted">>
                 \/ m.from = "announcing" /\ m.to = "degraded" /\ m.out = <<"sessionStarted">>
                 \/ m.from = "active" /\ m.to = "active" /\ m.out = <<"readDataResult">>
                 \/ m.from = "stopping" /\ m.to = "ready" /\ m.out = <<"sessionStopped", "adapterReady">>
                 \/ m.to = "idle" /\ m.out = <<"sessionError">>
                 \/ m.from \in {"stopping", "killing"} /\ m.to = "idle" /\ m.out = <<"sessionStopped">>
<1> USE DEF Table!Move, Table!Error
<1>1. m \in Table!Moves /\ m \notin Table!WriteFailures /\ m.from = phase[a] /\ m.on = on
  BY DEF MovesOf, Excluded, Orderly
<1>2. CASE m \in Table!CallMoves
  BY <1>1, <1>2 DEF Table!CallMoves
<1>3. CASE m \in Table!LaunchFailures \cup Table!RestartFailures
  BY <1>1, <1>3 DEF Table!LaunchFailures, Table!RestartFailures
<1>4. CASE m \in Table!EventMoves
  BY <1>1, <1>4 DEF Table!EventMoves
<1> QED BY <1>1, <1>2, <1>3, <1>4 DEF Table!Moves

(* The requests an adapter owes after its move. *)
LEMMA OrderlyDebt ==
    ASSUME Orderly, TypeOK, NEW a \in Adapters, NEW on, NEW m \in MovesOf(a, on),
           NEW n \in OwedChoices(m, owed[a])
    PROVE  /\ n \in Nat
           /\ m.to = "preparing" => n = 0
           /\ m.from = "active" /\ m.to = "active" /\ on = "read" /\ owed[a] = 0 => n = 1
           /\ m.from = "active" /\ m.to = "active" /\ on = "event" => n = owed[a] - 1
           /\ m.from = "stopping" /\ m.to = "ready" => n = 0
           /\ owed[a] = 0 /\ ~(m.from = "active" /\ m.to = "active") => n = 0
<1>1. owed[a] \in Nat /\ owed[a] <= MaxOwed /\ MaxOwed \in Nat \ {0} /\ m.on = on /\ RepliesInOrder
  BY PollingAssumption DEF TypeOK, MovesOf, Orderly
<1>2. CASE m.from = "stopping" /\ m.to = "ready"
  BY <1>1, <1>2 DEF OwedChoices
<1>3. CASE ~(m.from = "stopping" /\ m.to = "ready")
  <2>1. PICK k \in Table!OwedAfter(m, owed[a]) : n = IF k > MaxOwed THEN MaxOwed ELSE k
    BY <1>3 DEF OwedChoices
  <2>2. CASE m.from = "active" /\ m.to = "active" /\ on = "read"
    BY <1>1, <2>1, <2>2 DEF Table!OwedAfter
  <2>3. CASE m.from = "active" /\ m.to = "active" /\ on = "event"
    BY <1>1, <2>1, <2>3 DEF Table!OwedAfter
  <2>4. CASE m.to = "preparing"
    BY <1>1, <2>1, <2>4 DEF Table!OwedAfter
  <2>5. CASE m.to # "preparing" /\ ~(m.from = "active" /\ m.to = "active" /\ on \in {"read", "event"})
    <3>1. k \in 0 .. owed[a]
      BY <1>1, <2>1, <2>5 DEF Table!OwedAfter
    <3> QED BY <1>1, <1>3, <2>1, <2>5, <3>1
  <2> QED BY <2>2, <2>3, <2>4, <2>5
<1> QED BY <1>2, <1>3

(* Adapter a alone changes, and at most one signal of it is heard. *)
Changed(a, to, n) ==
    /\ phase' = [phase EXCEPT ![a] = to]
    /\ owed' = [owed EXCEPT ![a] = n]

Said(s, a, rest) == todo' = <<Work(s, a)>> \o rest

(* What the invariant needs to know of a move: the phase it leads to, and *)
(* the signals it puts on the stack.                                       *)
LEMMA Effects ==
    ASSUME Orderly, TypeOK, NEW a \in Adapters, NEW on, NEW m \in MovesOf(a, on),
           NEW rest \in Seq(Works), Perform(a, m, rest)
    PROVE  /\ \E n \in OwedChoices(m, owed[a]) : Changed(a, m.to, n)
           /\ m.out \in {<< >>, <<"sessionStopped">>} => todo' = rest
           /\ \A s \in Signals : m.out = <<s>> => Said(s, a, rest)
           /\ m.out = <<"sessionStopped", "adapterReady">> => Said("adapterReady", a, rest)
<1>1. m \in Table!Moves
  BY OrderlyMoves
<1>2. todo' = Heard(m.out, a) \o rest /\ << >> \o rest = rest
  BY DEF Perform
<1> QED BY <1>1, <1>2, HeardSignals DEF Perform, Changed, Said

-----------------------------------------------------------------------------
(***************************************************************************)
(* Every step keeps the invariant of an orderly session.                   *)
(***************************************************************************)

Kept == StackInv' /\ SessionInv' /\ CycleInv'

OnTop(op, a) == Doing(op) /\ a = Head(todo).adapter

(* The work on top: a signal that is to be handled is the only one. *)
LEMMA Top ==
    ASSUME TypeOK, StackInv, NEW op, NEW a, OnTop(op, a)
    PROVE  /\ ~Quiescent /\ op \in Ops /\ a \in Adapters
           /\ Head(todo) = Work(op, a) /\ On(op, a)
           /\ Rest \in Seq(Works) /\ \A w \in Members(Rest) : w.op \in Calls
           /\ \A s \in Signals, b \in Adapters : On(s, b) => s = op /\ b = a
<1>1. ~Quiescent /\ Head(todo).op = op
  BY DEF OnTop, Doing
<1>2. Head(todo) \in Works /\ Stack = {Head(todo)} \cup Members(Rest) /\ Rest \in Seq(Works)
  BY <1>1, WorkOnTop
<1>3. \A w \in Members(Rest) : w.op \in Calls
  BY <1>1 DEF StackInv, SignalsOnTop
<1>4. \A s \in Signals, b \in Adapters : On(s, b) => Work(s, b) = Head(todo)
  BY <1>2, <1>3, WorkIs DEF On, Calls
<1> QED BY <1>1, <1>2, <1>3, <1>4, WorkIs DEF On, OnTop

(* Work that is done leaves the stack; the rest of it holds no signals. *)
LEMMA Done ==
    ASSUME TypeOK, StackInv, NEW op, NEW a, OnTop(op, a), todo' = Rest
    PROVE  /\ \A w \in Stack' : w \in Stack /\ w.op \in Calls
           /\ \A o \in Ops, b \in Adapters : On(o, b)' => On(o, b) /\ o \in Calls
           /\ \A o \in Ops, b \in Adapters : On(o, b) => On(o, b)' \/ (o = op /\ b = a)
           /\ OnceIn(todo) => OnceIn(todo)' /\ ~On(op, a)'
           /\ SignalsOnTop'
<1>1. ~Quiescent /\ Head(todo) = Work(op, a)
  BY Top
<1>2. /\ Stack' \subseteq Stack /\ Stack \subseteq Stack' \cup {Head(todo)}
      /\ OnceIn(todo) => OnceIn(todo)' /\ Head(todo) \notin Stack'
      /\ SignalsOnTop' /\ \A w \in Stack' : w.op \in Calls
  BY <1>1, Popped DEF StackInv
<1>3. \A o \in Ops, b \in Adapters : On(o, b) => Work(o, b) \in Stack' \/ (o = op /\ b = a)
  BY <1>1, <1>2, WorkIs DEF On
<1>4. \A o \in Ops, b \in Adapters : Work(o, b) \in Stack' => On(o, b) /\ o \in Calls
  BY <1>2, WorkIs DEF On
<1> QED BY <1>1, <1>2, <1>3, <1>4 DEF On

(* The end of work keeps what is known of the work below it.               *)
LEMMA DoneInOrder ==
    ASSUME TypeOK, StackInv, NEW op, NEW a, OnTop(op, a), todo' = Rest, UNCHANGED <<pollState, groups>>,
           cycle' = cycle \/ op \in Signals
    PROVE  StackInv'
<1> USE DEF Ops, Calls, Signals
<1>1. \A b \in Adapters : ~On("adapterReady", b)' /\ ~On("sessionStarted", b)'
  BY Done
<1>2. \A b \in Adapters : \A o \in Ops : On(o, b)' => On(o, b)
  BY Done
<1>3. SignalsOnTop' /\ \A w \in Stack' : w \in Stack
  BY Done
<1>4. OnceIn(todo) => OnceIn(todo)'
  BY Done
<1>5. ASSUME NEW b \in Adapters, On("configure", b)'
      PROVE  cycle' = cycle
  <2>1. On("configure", b) /\ Work(op, a) \in Stack /\ Work(op, a).op = op
    BY <1>2, <1>5, Top, WorkIs DEF On
  <2> QED BY <2>1 DEF StackInv
<1> QED BY <1>1, <1>2, <1>3, <1>4, <1>5 DEF StackInv

(* A call that makes its adapter emit a signal, which is handled next. *)
LEMMA Told ==
    ASSUME TypeOK, StackInv, NEW op \in Calls, NEW a, OnTop(op, a), NEW s \in Signals, Said(s, a, Rest)
    PROVE  /\ On(s, a)' /\ \A w \in Stack' : w \in Stack \/ w.op = s
           /\ \A o \in Ops, b \in Adapters : On(o, b)' => On(o, b) \/ (o = s /\ b = a)
           /\ \A o \in Ops, b \in Adapters : On(o, b) => On(o, b)' \/ (o = op /\ b = a)
           /\ OnceIn(todo) => OnceIn(todo)' /\ ~On(op, a)'
           /\ SignalsOnTop'
           /\ \A t \in Signals, b \in Adapters : On(t, b)' => t = s /\ b = a
<1> DEFINE w == Work(s, a)
<1>1. ~Quiescent /\ Head(todo) = Work(op, a) /\ a \in Adapters /\ todo' = <<w>> \o Rest
  BY Top DEF Said
<1>2. w \in Works /\ w.op = s /\ s \in Ops /\ op \in Ops /\ s # op /\ s \notin Calls
  BY <1>1, WorkIs DEF Signals, Ops, Calls
<1> HIDE DEF w
<1>3. /\ Stack' = {w} \cup Members(Rest) /\ Members(Rest) \subseteq Stack
      /\ Stack \subseteq Members(Rest) \cup {Head(todo)}
      /\ \A v \in Members(Rest) : v.op \in Calls
      /\ SignalsOnTop'
      /\ OnceIn(todo) => Head(todo) \notin Members(Rest)
      /\ OnceIn(todo) /\ w \notin Members(Rest) => OnceIn(todo)'
  BY <1>1, <1>2, Pushed DEF StackInv
<1>4. w \notin Members(Rest)
  BY <1>2, <1>3
<1>5. \A o \in Ops, b \in Adapters : Work(o, b) \in Stack' => (On(o, b) /\ o \in Calls) \/ (o = s /\ b = a)
  BY <1>1, <1>2, <1>3, WorkIs DEF On, w
<1>6. \A o \in Ops, b \in Adapters : On(o, b) => Work(o, b) \in Stack' \/ (o = op /\ b = a)
  BY <1>1, <1>2, <1>3, WorkIs DEF On
<1>7. OnceIn(todo) => Work(op, a) \notin Stack'
  BY <1>1, <1>2, <1>3, WorkIs
<1>8. Work(s, a) \in Stack' /\ \A v \in Stack' : v \in Stack \/ v.op = s
  BY <1>2, <1>3 DEF w
<1>9. \A t \in Signals : t \in Ops /\ t \notin Calls
  BY DEF Calls, Signals, Ops
<1> QED BY <1>3, <1>4, <1>5, <1>6, <1>7, <1>8, <1>9 DEF On

(* initAdapter() keeps the invariant. *)
LEMMA PrepareKept == Orderly /\ IInv /\ InitAdapterTurn => Kept
<1> SUFFICES ASSUME Orderly, TypeOK, StackInv, SessionInv, CycleInv, InitAdapterTurn,
                    NEW a, OnTop("prepare", a)
             PROVE  Kept
  BY DEF IInv, InitAdapterTurn, OnTop
<1> USE DEF Ops, Calls, Signals
<1>1. /\ a \in Adapters /\ Rest \in Seq(Works) /\ UNCHANGED <<pendingStart, cycleVars, sessionVars>>
      /\ CallAdapter("prepare", a, phase[a] = "idle")
  BY Top DEF InitAdapterTurn, OnTop
<1>2. Work("prepare", a) \in Stack /\ Work("prepare", a).op = "prepare"
  BY Top, WorkIs DEF On
<1>3. \A b \in Adapters : ~On("configure", b) /\ ~On("read", b)
  BY <1>2 DEF StackInv
<1>4. \A s \in Signals, b \in Adapters : ~On(s, b)
  BY Top
<1>5. /\ \A b \in Adapters : \A o \in Ops : On(o, b)' => On(o, b) \/ o = "sessionError"
      /\ \A b \in Adapters : On("stop", b) => On("stop", b)'
      /\ StackInv'
  <2>1. CASE todo' = Rest
    BY <1>1, <2>1, Done, DoneInOrder DEF cycleVars, sessionVars
  <2>2. CASE Said("sessionError", a, Rest)
    <3>1. /\ \A b \in Adapters : \A o \in Ops : On(o, b)' => On(o, b) \/ o = "sessionError"
          /\ \A b \in Adapters : On("stop", b) => On("stop", b)'
          /\ SignalsOnTop'
      BY <2>2, Told
    <3> QED BY <1>1, <1>3, <1>4, <3>1 DEF StackInv, cycleVars, sessionVars
  <2>3. todo' = Rest \/ Said("sessionError", a, Rest)
    <3>1. ASSUME NEW m \in MovesOf(a, "prepare"), Perform(a, m, Rest)
          PROVE  todo' = Rest \/ Said("sessionError", a, Rest)
      BY <1>1, <3>1, OrderlyMoves, Effects
    <3> QED BY <1>1, <3>1 DEF CallAdapter
  <2> QED BY <2>1, <2>2, <2>3
<1>6. \/ UNCHANGED <<phase, owed>>
      \/ /\ phase[a] = "idle" /\ \E to \in {"preparing", "idle"}, n \in Nat : Changed(a, to, n) /\ (to = "preparing" => n = 0)
  <2>1. ASSUME NEW m \in MovesOf(a, "prepare"), Perform(a, m, Rest), phase[a] = "idle"
        PROVE  \E to \in {"preparing", "idle"}, n \in Nat : Changed(a, to, n) /\ (to = "preparing" => n = 0)
    <3>1. PICK n \in OwedChoices(m, owed[a]) : Changed(a, m.to, n)
      BY <1>1, <2>1, Effects
    <3> QED BY <1>1, <2>1, <3>1, OrderlyMoves, OrderlyDebt
  <2> QED BY <1>1, <2>1 DEF CallAdapter, clientVars
<1>7. \A b \in Adapters :
         \/ phase'[b] = phase[b] /\ owed'[b] = owed[b]
         \/ b = a /\ phase[b] = "idle" /\ phase'[b] \in {"idle", "preparing"} /\ (phase'[b] = "preparing" => owed'[b] = 0)
  BY <1>1, <1>6 DEF Changed, TypeOK
<1>8. groups \subseteq Adapters /\ UNCHANGED <<pendingStart, pendingResults, cycle, pollState, groups, pollTimer>>
  BY <1>1 DEF TypeOK, cycleVars, sessionVars
<1>9. SessionInv'
  BY <1>3, <1>4, <1>5, <1>7, <1>8 DEF SessionInv, SessionPhases, ActivePhases
<1>10. CycleInv'
  BY <1>3, <1>4, <1>5, <1>7, <1>8 DEF CycleInv, Due, Settled
<1> QED BY <1>5, <1>9, <1>10 DEF Kept

(* startSession() of one adapter keeps it. *)
LEMMA ConfigureKept == Orderly /\ IInv /\ StartSessionTurn => Kept
<1> SUFFICES ASSUME Orderly, TypeOK, StackInv, SessionInv, CycleInv, StartSessionTurn,
                    NEW a, OnTop("configure", a)
             PROVE  Kept
  BY DEF IInv, StartSessionTurn, OnTop
<1> USE DEF Ops, Calls, Signals
<1>1. a \in Adapters /\ Rest \in Seq(Works) /\ Work("configure", a) \in Stack /\ On("configure", a)
  BY Top DEF On
<1>2. a \in groups /\ pollState = "Active" /\ cycle = "none"
  BY <1>1 DEF StackInv
<1>3. /\ UNCHANGED <<cycleVars, sessionVars>> /\ pendingStart' = pendingStart \cup {a}
      /\ CallAdapter("configure", a, phase[a] = "ready")
  BY <1>2 DEF StartSessionTurn, OnTop
<1>4. \A w \in Stack : w.op \in {"configure", "afterStart"}
  BY <1>1 DEF StackInv
<1>5. \A b \in Adapters : \A o \in Ops : On(o, b) => o \in {"configure", "afterStart"}
  BY <1>4, WorkIs DEF On
<1>6. /\ todo' = Rest
      /\ \/ UNCHANGED <<phase, owed>>
         \/ phase[a] = "ready" /\ \E to \in {"starting", "announcing"} : Changed(a, to, 0)
  <2>1. ASSUME NEW m \in MovesOf(a, "configure"), Perform(a, m, Rest), phase[a] = "ready"
        PROVE  todo' = Rest /\ \E to \in {"starting", "announcing"} : Changed(a, to, 0)
    <3>1. PICK n \in OwedChoices(m, owed[a]) : Changed(a, m.to, n)
      BY <1>1, <2>1, Effects
    <3>2. owed[a] = 0
      BY <1>1, <2>1 DEF CycleInv
    <3>3. m.to \in {"starting", "announcing"} /\ m.out = << >>
      BY OrderlyMoves
    <3>4. n = 0
      BY <1>1, <3>2, <3>3, OrderlyDebt
    <3>5. todo' = Rest
      BY <1>1, <2>1, <3>3, Effects
    <3> QED BY <3>1, <3>3, <3>4, <3>5
  <2> QED BY <1>3, <2>1 DEF CallAdapter, clientVars
<1>7. /\ \A b \in Adapters : \A o \in Ops : On(o, b)' => On(o, b)
      /\ \A b \in Adapters : On("configure", b) => On("configure", b)' \/ b = a
      /\ StackInv'
  BY <1>3, <1>6, Done, DoneInOrder DEF cycleVars, sessionVars
<1>8. \A b \in Adapters :
         \/ phase'[b] = phase[b] /\ owed'[b] = owed[b]
         \/ b = a /\ phase'[b] \in {"starting", "announcing"} /\ owed'[b] = 0
  BY <1>1, <1>6 DEF Changed, TypeOK
<1>9. /\ groups \subseteq Adapters /\ pendingStart' = pendingStart \cup {a}
      /\ UNCHANGED <<pendingResults, cycle, pollState, groups, pollTimer>>
  BY <1>3 DEF TypeOK, cycleVars, sessionVars
<1>10. SessionInv'
  BY <1>2, <1>5, <1>7, <1>8, <1>9 DEF SessionInv, SessionPhases, ActivePhases
<1>11. CycleInv'
  BY <1>2, <1>5, <1>7, <1>8, <1>9 DEF CycleInv, Due, Settled
<1> QED BY <1>7, <1>10, <1>11 DEF Kept

(* stopSession() of one adapter keeps it. *)
LEMMA StopKept == Orderly /\ IInv /\ StopSessionTurn => Kept
<1> SUFFICES ASSUME Orderly, TypeOK, StackInv, SessionInv, CycleInv, StopSessionTurn,
                    NEW a, OnTop("stop", a)
             PROVE  Kept
  BY DEF IInv, StopSessionTurn, OnTop
<1> USE DEF Ops, Calls, Signals
<1>1. a \in Adapters /\ Rest \in Seq(Works) /\ On("stop", a)
  BY Top
<1>2. pollState = "Inactive" /\ cycle = "none"
  BY <1>1 DEF StackInv, SessionInv
<1>3. /\ UNCHANGED <<pendingStart, pendingResults, cycle, pollState, groups, pollTimer>>
      /\ CallAdapter("stop", a, phase[a] \notin {"idle", "stopping", "killing"})
  BY DEF StopSessionTurn, OnTop, hubVars, cycleVars, sessionVars
<1>4. \A b \in Adapters : ~On("configure", b) /\ ~On("read", b)
  BY <1>2 DEF StackInv
<1>5. \A s \in Signals, b \in Adapters : ~On(s, b)
  BY Top
<1>6. \/ /\ todo' = Rest
         /\ \/ UNCHANGED <<phase, owed>> /\ phase[a] \in {"idle", "stopping", "killing"}
            \/ \E to \in {"stopping", "killing"}, n \in Nat : Changed(a, to, n)
      \/ Said("adapterReady", a, Rest) /\ Changed(a, "ready", 0)
  <2>1. ASSUME NEW m \in MovesOf(a, "stop"), Perform(a, m, Rest)
        PROVE  \/ todo' = Rest /\ \E to \in {"stopping", "killing"}, n \in Nat : Changed(a, to, n)
               \/ Said("adapterReady", a, Rest) /\ Changed(a, "ready", 0)
    <3>1. PICK n \in OwedChoices(m, owed[a]) : Changed(a, m.to, n)
      BY <1>1, <2>1, Effects
    <3>2. n \in Nat /\ (phase[a] \in {"degraded", "announcing"} => n = 0)
      BY <1>1, OrderlyMoves, OrderlyDebt DEF CycleInv
    <3>3. CASE m.to \in {"stopping", "killing"} /\ m.out = << >>
      <4>1. todo' = Rest
        BY <1>1, <2>1, <3>3, Effects
      <4> QED BY <3>1, <3>2, <3>3, <4>1
    <3>4. CASE phase[a] \in {"degraded", "announcing"} /\ m.to = "ready" /\ m.out = <<"sessionStopped", "adapterReady">>
      <4>1. Said("adapterReady", a, Rest)
        BY <1>1, <2>1, <3>4, Effects
      <4> QED BY <3>1, <3>2, <3>4, <4>1
    <3> QED BY <3>3, <3>4, OrderlyMoves
  <2> QED BY <1>3, <2>1 DEF CallAdapter, clientVars
<1>7. /\ \A b \in Adapters : \A o \in Ops : On(o, b)' => On(o, b) \/ o = "adapterReady"
      /\ \A b \in Adapters : On("stop", b) => On("stop", b)' \/ b = a
      /\ StackInv'
  <2>1. CASE todo' = Rest
    BY <1>3, <2>1, Done, DoneInOrder
  <2>2. CASE Said("adapterReady", a, Rest)
    <3>1. /\ \A b \in Adapters : \A o \in Ops : On(o, b)' => On(o, b) \/ o = "adapterReady"
          /\ \A b \in Adapters : On("stop", b) => On("stop", b)' \/ b = a
          /\ SignalsOnTop'
      BY <2>2, Told
    <3> QED BY <1>2, <1>3, <1>4, <1>5, <3>1 DEF StackInv
  <2> QED BY <1>6, <2>1, <2>2
<1>8. \A b \in Adapters :
         \/ phase'[b] = phase[b] /\ owed'[b] = owed[b] /\ (b = a => phase[b] \in {"idle", "stopping", "killing"})
         \/ b = a /\ phase'[b] \in {"stopping", "killing"}
         \/ b = a /\ phase'[b] = "ready" /\ owed'[b] = 0
  BY <1>1, <1>6 DEF Changed, TypeOK
<1>9. SessionInv'
  BY <1>2, <1>3, <1>5, <1>7, <1>8 DEF SessionInv, SessionPhases, ActivePhases
<1>10. CycleInv'
  BY <1>2, <1>3, <1>5, <1>7, <1>8 DEF CycleInv
<1> QED BY <1>7, <1>9, <1>10 DEF Kept

(* requestReadData() of one adapter keeps it. *)
LEMMA ReadKept == Orderly /\ IInv /\ RequestReadDataTurn => Kept
<1> SUFFICES ASSUME Orderly, TypeOK, StackInv, SessionInv, CycleInv, RequestReadDataTurn,
                    NEW a, OnTop("read", a)
             PROVE  Kept
  BY DEF IInv, RequestReadDataTurn, OnTop
<1> USE DEF Ops, Calls, Signals
<1>1. a \in Adapters /\ Rest \in Seq(Works) /\ On("read", a)
  BY Top
<1>2. pollState = "Active" /\ OnceIn(todo) /\ \A w \in Stack : w.op \in {"read", "readDataResult"}
  BY <1>1 DEF StackInv
<1>3. /\ UNCHANGED <<pendingStart, pendingResults, cycle, pollState, groups, pollTimer>>
      /\ CallAdapter("read", a, phase[a] \in ActivePhases) /\ groups \subseteq Adapters
  BY DEF RequestReadDataTurn, OnTop, hubVars, cycleVars, sessionVars, TypeOK
<1>4. \A b \in Adapters : \A o \in Ops : On(o, b) => o = "read"
  <2>1. \A b \in Adapters : \A o \in Ops : On(o, b) => o \in {"read", "readDataResult"}
    BY <1>2, WorkIs DEF On
  <2>2. \A b \in Adapters : ~On("readDataResult", b)
    BY Top
  <2> QED BY <2>1, <2>2
<1>5. a \in groups => cycle = "open" /\ a \in pendingResults /\ Due(a) /\ phase[a] \in {"active", "degraded"}
  BY <1>1, <1>2, <1>3, <1>4 DEF CycleInv, Settled, SessionInv
<1>6. phase[a] \in ActivePhases => a \in groups
  BY <1>1, <1>2 DEF SessionInv, SessionPhases
<1>7. \/ todo' = Rest /\ phase[a] = "active" /\ UNCHANGED phase /\ Changed(a, phase[a], 1)
      \/ Said("readDataResult", a, Rest) /\ phase[a] \in {"degraded", "announcing"} /\ Changed(a, phase[a], 0)
      \/ todo' = Rest /\ UNCHANGED <<phase, owed>> /\ a \notin groups
  <2>1. ASSUME NEW m \in MovesOf(a, "read"), Perform(a, m, Rest), phase[a] \in ActivePhases
        PROVE  \/ todo' = Rest /\ phase[a] = "active" /\ Changed(a, phase[a], 1)
               \/ Said("readDataResult", a, Rest) /\ phase[a] \in {"degraded", "announcing"} /\ Changed(a, phase[a], 0)
    <3>1. PICK n \in OwedChoices(m, owed[a]) : Changed(a, m.to, n)
      BY <1>1, <2>1, Effects
    <3>2. owed[a] = 0
      BY <1>1, <1>4, <1>5, <1>6, <2>1 DEF Due, CycleInv
    <3> m.from = phase[a]
      BY OrderlyMoves
    <3>3. CASE phase[a] = "active" /\ m.to = "active" /\ m.out = << >>
      <4>1. n = 1
        BY <1>1, <3>2, <3>3, OrderlyDebt
      <4>2. todo' = Rest
        BY <1>1, <2>1, <3>3, Effects
      <4> QED BY <3>1, <3>3, <4>1, <4>2
    <3>4. CASE phase[a] \in {"degraded", "announcing"} /\ m.to = phase[a] /\ m.out = <<"readDataResult">>
      <4>1. n = 0
        BY <1>1, <3>2, <3>4, OrderlyDebt
      <4>2. Said("readDataResult", a, Rest)
        BY <1>1, <2>1, <3>4, Effects
      <4> QED BY <3>1, <3>4, <4>1, <4>2
    <3> QED BY <3>3, <3>4, OrderlyMoves
  <2>2. ASSUME Changed(a, phase[a], 1)
        PROVE  UNCHANGED phase
    BY <1>1, <2>2 DEF Changed, TypeOK
  <2>3. a \in groups => phase[a] \in ActivePhases
    BY <1>5 DEF ActivePhases
  <2> QED BY <1>3, <2>1, <2>2, <2>3 DEF CallAdapter, clientVars
<1>8. /\ \A b \in Adapters : \A o \in Ops : On(o, b)' => On(o, b) \/ (o = "readDataResult" /\ b = a)
      /\ \A b \in Adapters : On("read", b) => On("read", b)' \/ b = a
      /\ ~On("read", a)'
      /\ On("readDataResult", a)' <=> Said("readDataResult", a, Rest)
      /\ StackInv'
  <2>1. CASE todo' = Rest
    <3>1. ~Said("readDataResult", a, Rest)
      BY <1>1, <2>1 DEF Said
    <3> QED BY <1>1, <1>2, <1>3, <2>1, <3>1, Done, DoneInOrder
  <2>2. CASE Said("readDataResult", a, Rest)
    <3>1. /\ \A b \in Adapters : \A o \in Ops : On(o, b)' => On(o, b) \/ (o = "readDataResult" /\ b = a)
          /\ \A b \in Adapters : On("read", b) => On("read", b)' \/ b = a
          /\ ~On("read", a)' /\ OnceIn(todo)'
          /\ On("readDataResult", a)' /\ SignalsOnTop'
          /\ \A w \in Stack' : w \in Stack \/ w.op = "readDataResult"
      BY <1>2, <2>2, Told
    <3> QED BY <1>2, <1>3, <1>4, <2>2, <3>1 DEF StackInv
  <2> QED BY <1>7, <2>1, <2>2
<1>9. /\ \A b \in Adapters : phase'[b] = phase[b] /\ (b # a => owed'[b] = owed[b])
      /\ phase[a] = "active" => owed'[a] = 1 /\ ~On("readDataResult", a)'
      /\ phase[a] \in {"degraded", "announcing"} => owed'[a] = 0 /\ On("readDataResult", a)'
      /\ phase[a] \notin ActivePhases => owed'[a] = owed[a]
      /\ On("readDataResult", a)' => a \in groups
  <2>1. todo' = Rest => ~Said("readDataResult", a, Rest)
    BY <1>1 DEF Said
  <2> QED BY <1>1, <1>5, <1>6, <1>7, <1>8, <2>1 DEF Changed, TypeOK, ActivePhases
<1>10. SessionInv'
  BY <1>2, <1>3, <1>4, <1>8, <1>9 DEF SessionInv, SessionPhases, ActivePhases
<1>11. \A b \in groups : b # a => (Due(b) => Due(b)') /\ (Settled(b) => Settled(b)')
  BY <1>3, <1>4, <1>8, <1>9 DEF Due, Settled
<1>12. a \in groups => Due(a)'
  BY <1>1, <1>5, <1>8, <1>9 DEF Due
<1>13. CycleInv'
  BY <1>3, <1>4, <1>5, <1>8, <1>9, <1>11, <1>12 DEF CycleInv, ActivePhases
<1> QED BY <1>8, <1>10, <1>13 DEF Kept

(* Stopping everything is orderly when no loop over adapters is under way   *)
(* that configures or reads them.                                          *)
LEMMA StopAllKept ==
    ASSUME TypeOK, CycleInv, NEW still \in SUBSET Adapters, NEW rest \in Seq(Works),
           StopAll(still, rest), UNCHANGED clientVars,
           \A v \in Members(rest) : v.op \in Calls \ {"configure", "read"}
    PROVE  Kept
<1> USE DEF Ops, Calls, Signals
<1> DEFINE toStop == {a \in Adapters : phase[a] \notin {"idle", "ready"}}
<1>1. /\ pollState' = "Inactive" /\ cycle' = "none" /\ pollTimer' = FALSE
      /\ UNCHANGED <<phase, owed>> /\ todo' = ForEach("stop", toStop) \o rest
  BY DEF StopAll, clientVars
<1>2. \A a \in Adapters : phase[a] \in SessionPhases => a \in toStop
  BY DEF SessionPhases, ActivePhases
<1>3. toStop \in SUBSET Adapters /\ "stop" \in Calls
  OBVIOUS
<1> HIDE DEF toStop
<1>4. Stack' = {Work("stop", a) : a \in toStop} \cup Members(rest) /\ SignalsOnTop'
  BY <1>1, <1>3, Looped
<1>5. \A w \in Stack' : w.op \in Calls \ {"configure", "read"}
  BY <1>4, WorkIs
<1>6. \A b \in Adapters : \A o \in Ops : On(o, b)' => o \in Calls \ {"configure", "read"}
  BY <1>5, WorkIs DEF On
<1>7. \A b \in toStop : On("stop", b)'
  BY <1>4 DEF On
<1>8. StackInv'
  BY <1>1, <1>4, <1>6 DEF StackInv
<1>9. SessionInv'
  BY <1>1, <1>2, <1>6, <1>7 DEF SessionInv
<1>10. CycleInv'
  BY <1>1 DEF CycleInv
<1> QED BY <1>8, <1>9, <1>10 DEF Kept

(* A poll cycle is begun from a quiescent session whose adapters have      *)
(* answered everything.                                                    *)
LEMMA TriggerKept ==
    ASSUME TypeOK, CycleInv, TriggerRegisterRead(<< >>), UNCHANGED <<clientVars, pollState, groups>>,
           pollState = "Active", ~pollTimer', groups # {}, pendingStart' \cap groups = {},
           \A a \in groups : phase[a] \in {"active", "degraded"} /\ (phase[a] = "active" => owed[a] = 0),
           \A a \in Adapters : phase[a] \in SessionPhases => a \in groups,
           \A a \in Adapters : phase[a] \in {"starting", "announcing"} => a \in pendingStart'
    PROVE  Kept
<1> USE DEF Ops, Calls, Signals
<1>1. /\ todo' = ForEach("read", Adapters) \o << >> /\ pendingResults' = groups /\ cycle' = "open"
      /\ UNCHANGED <<phase, owed, pollState, groups>> /\ groups \subseteq Adapters
  BY DEF TriggerRegisterRead, clientVars, TypeOK
<1>2. Members(<< >>) = {} /\ << >> \in Seq(Works) /\ Adapters \in SUBSET Adapters /\ "read" \in Calls
  BY DEF Members
<1>3. Stack' = {Work("read", a) : a \in Adapters} /\ SignalsOnTop' /\ OnceIn(todo)'
  <2> DEFINE rest == << >>
  <2>1. todo' = ForEach("read", Adapters) \o rest /\ Members(rest) = {} /\ rest \in Seq(Works) /\ rest = << >>
    BY <1>1, <1>2
  <2> HIDE DEF rest
  <2> QED BY <1>2, <2>1, Looped
<1>4. \A w \in Stack' : w.op = "read"
  BY <1>3, WorkIs
<1>5. \A b \in Adapters : \A o \in Ops : On(o, b)' <=> o = "read"
  <2>1. \A b \in Adapters : \A o \in Ops : On(o, b)' => o = "read"
    BY <1>4, WorkIs DEF On
  <2>2. \A b \in Adapters : On("read", b)'
    BY <1>3 DEF On
  <2> QED BY <2>1, <2>2
<1>6. StackInv'
  BY <1>1, <1>3, <1>4, <1>5 DEF StackInv
<1>7. SessionInv'
  BY <1>1, <1>5 DEF SessionInv
<1>8. \A a \in groups : Due(a)'
  BY <1>1, <1>5 DEF Due
<1>9. CycleInv'
  BY <1>1, <1>5, <1>8 DEF CycleInv
<1> QED BY <1>6, <1>7, <1>9 DEF Kept

(* onManagerAdapterReady() keeps it. *)
LEMMA AdapterReadyKept == Orderly /\ IInv /\ OnManagerAdapterReady => Kept
<1> SUFFICES ASSUME Orderly, TypeOK, StackInv, SessionInv, CycleInv, OnManagerAdapterReady,
                    NEW a, OnTop("adapterReady", a)
             PROVE  Kept
  BY DEF IInv, OnManagerAdapterReady, OnTop
<1> USE DEF Ops, Calls, Signals
<1>1. /\ a \in Adapters /\ On("adapterReady", a) /\ groups \in SUBSET Adapters
      /\ \A s \in Signals, b \in Adapters : On(s, b) => s = "adapterReady"
  BY Top DEF TypeOK
<1>2. UNCHANGED <<phase, owed, pendingStart, pendingResults, cycle, groups, pollTimer>>
  BY DEF OnManagerAdapterReady, clientVars, cycleVars
<1>3. CASE pollState = "WaitingForAdapter" /\ pollState' = "Active" /\ todo' = ForEach("configure", groups) \o Rest
  <2>1. Rest = << >> /\ cycle = "none" /\ \A b \in Adapters : phase[b] \notin SessionPhases
    BY <1>1, <1>3 DEF StackInv, SessionInv
  <2>2. Stack' = {Work("configure", b) : b \in groups} /\ SignalsOnTop'
    <3> DEFINE rest == << >>
    <3>1. todo' = ForEach("configure", groups) \o rest /\ Members(rest) = {} /\ rest \in Seq(Works)
      BY <1>3, <2>1 DEF Members
    <3> HIDE DEF rest
    <3>2. "configure" \in Calls
      OBVIOUS
    <3> QED BY <1>1, <3>1, <3>2, Looped
  <2>3. \A w \in Stack' : w.op = "configure" /\ w.adapter \in groups
    BY <2>2, WorkIs
  <2>4. \A b \in Adapters : \A o \in Ops : On(o, b)' => o = "configure" /\ b \in groups
    BY <2>3, WorkIs DEF On
  <2>5. \A b \in groups : On("configure", b)'
    BY <2>2 DEF On
  <2>6. StackInv'
    BY <1>2, <1>3, <2>1, <2>2, <2>3, <2>4 DEF StackInv
  <2>7. SessionInv'
    BY <1>1, <1>2, <1>3, <2>1, <2>4, <2>5 DEF SessionInv, SessionPhases, ActivePhases
  <2>8. CycleInv'
    BY <1>1, <1>2, <1>3, <2>1, <2>4 DEF CycleInv, Settled, SessionPhases, ActivePhases
  <2> QED BY <2>6, <2>7, <2>8 DEF Kept
<1>4. CASE UNCHANGED pollState /\ todo' = Rest
  <2>1. /\ \A b \in Adapters : \A o \in Ops : On(o, b)' => On(o, b) /\ o \in Calls
        /\ \A b \in Adapters : \A o \in Calls : On(o, b) => On(o, b)'
        /\ StackInv'
    BY <1>2, <1>4, Done, DoneInOrder
  <2>2. SessionInv'
    BY <1>1, <1>2, <1>4, <2>1 DEF SessionInv
  <2>3. CycleInv'
    BY <1>1, <1>2, <1>4, <2>1 DEF CycleInv, Due, Settled
  <2> QED BY <2>1, <2>2, <2>3 DEF Kept
<1> QED BY <1>3, <1>4 DEF OnManagerAdapterReady

(* onManagerSessionStarted() keeps it. *)
LEMMA SessionStartedKept == Orderly /\ IInv /\ OnManagerSessionStarted => Kept
<1> SUFFICES ASSUME Orderly, TypeOK, StackInv, SessionInv, CycleInv, OnManagerSessionStarted,
                    NEW a, OnTop("sessionStarted", a)
             PROVE  Kept
  BY DEF IInv, OnManagerSessionStarted, OnTop
<1> USE DEF Ops, Calls, Signals
<1>1. /\ a \in Adapters /\ On("sessionStarted", a) /\ groups \in SUBSET Adapters /\ Stack = {Work("sessionStarted", a)}
      /\ \A s \in Signals, b \in Adapters : On(s, b) => s = "sessionStarted"
  <2>1. On("sessionStarted", a) /\ a \in Adapters /\ ~Quiescent /\ Head(todo) = Work("sessionStarted", a)
    BY Top
  <2>2. Rest = << >>
    BY <2>1 DEF StackInv
  <2>3. Stack = {Head(todo)}
    BY <2>1, <2>2, WorkOnTop DEF Members
  <2> QED BY <2>1, <2>3, Top DEF TypeOK
<1>2. /\ UNCHANGED <<phase, owed, pollState, groups, pollTimer>> /\ pendingStart' = pendingStart \ {a}
      /\ UNCHANGED <<clientVars, sessionVars>>
  BY DEF OnManagerSessionStarted, clientVars, sessionVars, OnTop
<1>3. Rest = << >> /\ phase[a] \in {"active", "degraded"} /\ pollState = "Active" /\ a \in pendingStart
  BY <1>1 DEF StackInv, SessionInv
<1>4. a \in groups /\ cycle = "none" /\ pollTimer = FALSE
  BY <1>1, <1>3 DEF SessionInv, SessionPhases, ActivePhases, CycleInv, TypeOK
<1>5. \A b \in Adapters : \A o \in Ops : On(o, b) => o = "sessionStarted"
  BY <1>1, WorkIs DEF On
<1>6. CASE pendingStart' = {} /\ TriggerRegisterRead(Rest)
  <2>1. TriggerRegisterRead(<< >>) /\ pendingStart = {a} /\ UNCHANGED <<clientVars, pollState, groups>>
    BY <1>2, <1>3, <1>6
  <2>2. \A b \in groups : phase[b] \in {"active", "degraded"} /\ (phase[b] = "active" => owed[b] = 0)
    BY <1>1, <1>3, <1>4, <1>5, <2>1 DEF SessionInv, CycleInv, Settled
  <2>3. \A b \in Adapters : phase[b] \in SessionPhases => b \in groups
    BY <1>3 DEF SessionInv
  <2>4. \A b \in Adapters : phase[b] \in {"starting", "announcing"} => b \in pendingStart'
    BY <1>3, <2>1 DEF SessionInv
  <2>5. ~pollTimer' /\ groups # {} /\ pendingStart' \cap groups = {}
    BY <1>2, <1>4, <1>6
  <2> QED BY <1>3, <2>1, <2>2, <2>3, <2>4, <2>5, TriggerKept
<1>7. CASE todo' = Rest /\ UNCHANGED cycleVars
  <2>1. /\ \A b \in Adapters : \A o \in Ops : ~On(o, b)'
        /\ StackInv' /\ UNCHANGED <<cycle, pendingResults>>
    <3>1. StackInv' /\ UNCHANGED <<cycle, pendingResults>>
      BY <1>2, <1>7, DoneInOrder DEF cycleVars
    <3>2. Stack' = {}
      BY <1>3, <1>7 DEF Stack, Members
    <3> QED BY <3>1, <3>2 DEF On
  <2>2. SessionInv'
    BY <1>1, <1>2, <1>3, <1>4, <1>5, <2>1 DEF SessionInv
  <2>3. CycleInv'
    BY <1>1, <1>2, <1>4, <1>5, <2>1 DEF CycleInv, Settled
  <2> QED BY <2>1, <2>2, <2>3 DEF Kept
<1> QED BY <1>6, <1>7 DEF OnManagerSessionStarted

(* onManagerSessionError() keeps it. *)
LEMMA SessionErrorKept == Orderly /\ IInv /\ OnManagerSessionError => Kept
<1> SUFFICES ASSUME Orderly, TypeOK, StackInv, SessionInv, CycleInv, OnManagerSessionError,
                    NEW a, OnTop("sessionError", a)
             PROVE  Kept
  BY DEF IInv, OnManagerSessionError, OnTop
<1> USE DEF Ops, Calls, Signals
<1>1. /\ a \in Adapters /\ On("sessionError", a) /\ Work("sessionError", a) \in Stack /\ Rest \in Seq(Works)
      /\ \A v \in Members(Rest) : v.op \in Calls
      /\ \A s \in Signals, b \in Adapters : On(s, b) => s = "sessionError"
      /\ Members(Rest) \subseteq Stack
  BY Top, WorkOnTop DEF On
<1>2. \A b \in Adapters : ~On("configure", b) /\ ~On("read", b)
  <2>1. Work("sessionError", a).op = "sessionError"
    BY WorkIs
  <2> QED BY <1>1, <2>1 DEF StackInv
<1>3. CASE pollState # "Inactive"
  <2>1. \A v \in Members(Rest) : v.op \in Calls \ {"configure", "read"}
    <3>1. \A v \in Members(Rest) : v \in Stack /\ v = Work(v.op, v.adapter) /\ v.adapter \in Adapters
      BY <1>1, StackIsWork, WorkIs
    <3> QED BY <1>1, <1>2, <3>1 DEF On
  <2> DEFINE still == pendingStart \ {a}
  <2>2. StopAll(still, Rest) /\ UNCHANGED clientVars /\ still \in SUBSET Adapters
    BY <1>3 DEF OnManagerSessionError, OnTop, TypeOK
  <2> HIDE DEF still
  <2> QED BY <1>1, <2>1, <2>2, StopAllKept
<1>4. CASE pollState = "Inactive"
  <2>1. /\ todo' = Rest /\ UNCHANGED <<phase, owed, pollState, groups, cycle, pollTimer>>
    BY <1>4 DEF OnManagerSessionError, clientVars, sessionVars
  <2>2. /\ \A b \in Adapters : \A o \in Ops : On(o, b)' => On(o, b) /\ o \in Calls
        /\ \A b \in Adapters : \A o \in Calls : On(o, b) => On(o, b)'
        /\ StackInv'
    BY <2>1, Done, DoneInOrder
  <2>3. cycle = "none"
    BY <1>4 DEF SessionInv
  <2>4. SessionInv'
    BY <1>4, <2>1, <2>2, <2>3 DEF SessionInv
  <2>5. CycleInv'
    BY <1>4, <2>1, <2>3 DEF CycleInv
  <2> QED BY <2>2, <2>4, <2>5 DEF Kept
<1> QED BY <1>3, <1>4

(* onReadDataResult() keeps it. *)
LEMMA ResultKept == Orderly /\ IInv /\ OnReadDataResult => Kept
<1> SUFFICES ASSUME Orderly, TypeOK, StackInv, SessionInv, CycleInv, OnReadDataResult,
                    NEW a, OnTop("readDataResult", a)
             PROVE  Kept
  BY DEF IInv, OnReadDataResult, OnTop
<1> USE DEF Ops, Calls, Signals
<1>1. /\ a \in Adapters /\ On("readDataResult", a) /\ groups \in SUBSET Adapters
      /\ \A s \in Signals, b \in Adapters : On(s, b) => s = "readDataResult" /\ b = a
  BY Top DEF TypeOK
<1>2. UNCHANGED <<phase, owed, pendingStart, pollState, groups>> /\ todo' = Rest
  BY DEF OnReadDataResult, clientVars, hubVars
<1>3. /\ \A b \in Adapters : \A o \in Ops : On(o, b)' => On(o, b) /\ o \in Calls
      /\ \A b \in Adapters : \A o \in Calls : On(o, b) => On(o, b)'
  BY <1>2, Done
<1>4. \A b \in Adapters : ~On("configure", b)
  <2>1. Work("readDataResult", a) \in Stack /\ Work("readDataResult", a).op = "readDataResult"
    BY <1>1, WorkIs DEF On
  <2> QED BY <2>1 DEF StackInv
<1>5. CASE pollState = "Active"
  <2>1. a \in groups /\ cycle = "open" /\ a \in pendingResults /\ Due(a)
    BY <1>1, <1>5 DEF CycleInv, Settled
  <2>2. /\ pendingResults' = pendingResults \ {a}
        /\ IF pendingResults' = {} THEN pollTimer' = TRUE /\ cycle' = "done" ELSE UNCHANGED <<pollTimer, cycle>>
    BY <1>5, <2>1 DEF OnReadDataResult, OnTop
  <2>3. StackInv'
    BY <1>2, <2>1, <2>2, DoneInOrder
  <2>4. SessionInv'
    BY <1>1, <1>2, <1>3, <1>4, <1>5, <2>1, <2>2 DEF SessionInv
  <2>5. Settled(a)'
    BY <1>1, <1>2, <1>3, <2>1 DEF Settled, Due
  <2>6. \A b \in groups : b # a => (Due(b) => Due(b)') /\ (Settled(b) => Settled(b)')
    BY <1>1, <1>2, <1>3 DEF Settled, Due
  <2>7. CycleInv'
    BY <1>1, <1>2, <1>3, <1>5, <2>1, <2>2, <2>5, <2>6 DEF CycleInv
  <2> QED BY <2>3, <2>4, <2>7 DEF Kept
<1>6. CASE pollState # "Active"
  <2>1. UNCHANGED <<cycle, pendingResults, pollTimer>>
    BY <1>6 DEF OnReadDataResult, cycleVars
  <2>2. StackInv'
    BY <1>2, <2>1, DoneInOrder
  <2>3. SessionInv'
    BY <1>1, <1>2, <1>3, <1>4, <1>6, <2>1 DEF SessionInv
  <2>4. CycleInv'
    BY <1>2, <1>6, <2>1 DEF CycleInv
  <2> QED BY <2>2, <2>3, <2>4 DEF Kept
<1> QED BY <1>5, <1>6

(* The end of start() keeps it. *)
LEMMA FinishStartKept == Orderly /\ IInv /\ FinishStart => Kept
<1> SUFFICES ASSUME Orderly, TypeOK, StackInv, SessionInv, CycleInv, FinishStart,
                    NEW a, OnTop("afterStart", a)
             PROVE  Kept
  BY DEF IInv, FinishStart, OnTop
<1> USE DEF Ops, Calls, Signals
<1>1. /\ UNCHANGED <<phase, owed, pendingStart, pendingResults, cycle, pollState, groups, pollTimer>>
      /\ todo' = Rest /\ groups \subseteq Adapters
  BY DEF FinishStart, clientVars, hubVars, cycleVars, TypeOK
<1>2. \A s \in Signals, b \in Adapters : ~On(s, b)
  BY Top
<1>3. /\ \A b \in Adapters : \A o \in Ops : On(o, b)' => On(o, b) /\ o \in Calls
      /\ \A b \in Adapters : \A o \in Calls : o # "afterStart" => (On(o, b) => On(o, b)')
      /\ StackInv'
  BY <1>1, Done, DoneInOrder
<1>4. SessionInv'
  BY <1>1, <1>2, <1>3 DEF SessionInv
<1>5. CycleInv'
  BY <1>1, <1>2, <1>3 DEF CycleInv, Due, Settled
<1> QED BY <1>3, <1>4, <1>5 DEF Kept

(* Nothing is to be done when an event is looked at. *)
LEMMA NothingToDo ==
    ASSUME Quiescent
    PROVE  Stack = {} /\ \A o, b : ~On(o, b)
BY DEF Quiescent, On, Stack, Members

(* start() of the application keeps it. *)
LEMMA StartKept ==
    ASSUME Orderly, IInv, NEW adapters \in SUBSET Adapters, StartCommunication(adapters)
    PROVE  Kept
<1> USE DEF Ops, Calls, Signals
<1>1. /\ TypeOK /\ StackInv /\ SessionInv /\ CycleInv /\ Quiescent /\ pollState = "Inactive"
      /\ UNCHANGED <<phase, owed, pendingStart, pendingResults, cycle, pollTimer>> /\ groups' = adapters
  BY DEF IInv, StartCommunication, GuiInv, clientVars, hubVars, cycleVars
<1>2. cycle = "none" /\ \A b \in Adapters : phase[b] \notin SessionPhases
  BY <1>1, NothingToDo DEF SessionInv
<1>3. \E op \in {"configure", "prepare"}, as \in SUBSET Adapters :
         /\ todo' = ForEach(op, as) \o <<AfterStart>>
         /\ op = "configure" => pollState' = "Active" /\ as = adapters
         /\ op = "prepare" => pollState' = "WaitingForAdapter"
  BY DEF StartCommunication
<1>4. PICK op \in {"configure", "prepare"}, as \in SUBSET Adapters :
         /\ todo' = ForEach(op, as) \o <<AfterStart>>
         /\ op = "configure" => pollState' = "Active" /\ as = adapters
         /\ op = "prepare" => pollState' = "WaitingForAdapter"
  BY <1>3
<1>5. Stack' = {Work(op, b) : b \in as} \cup {AfterStart} /\ SignalsOnTop'
  <2> DEFINE rest == <<AfterStart>>
  <2>1. AfterStart \in Works /\ AfterStart.op = "afterStart"
    BY AdaptersAreIds, WorkIs DEF AfterStart
  <2>2. rest \in Seq(Works) /\ Members(rest) = {AfterStart} /\ todo' = ForEach(op, as) \o rest
    BY <1>4, <2>1, ShortLists
  <2>3. \A v \in Members(rest) : v.op \in Calls
    BY <2>1, <2>2
  <2> HIDE DEF rest
  <2> QED BY <2>2, <2>3, Looped
<1>6. /\ \A w \in Stack' : w.op \in {op, "afterStart"} /\ (w.op = op => w.adapter \in as)
      /\ \A b \in as : On(op, b)'
  <2>1. AfterStart.op = "afterStart"
    BY WorkIs DEF AfterStart
  <2>2. \A b \in as : Work(op, b).op = op /\ Work(op, b).adapter = b
    BY WorkIs
  <2>3. \A w \in Stack' : w.op \in {op, "afterStart"} /\ (w.op = op => w.adapter \in as)
    <3> SUFFICES ASSUME NEW w \in Stack'
                 PROVE  w.op \in {op, "afterStart"} /\ (w.op = op => w.adapter \in as)
      OBVIOUS
    <3>1. CASE w = AfterStart
      BY <2>1, <3>1
    <3>2. CASE w # AfterStart
      <4>1. PICK b \in as : w = Work(op, b)
        BY <1>5, <3>2
      <4> QED BY <2>2, <4>1
    <3> QED BY <3>1, <3>2
  <2>4. \A b \in as : On(op, b)'
    BY <1>5 DEF On
  <2> QED BY <2>3, <2>4
<1>7. \A b \in Adapters : \A o \in Ops : On(o, b)' => o \in {op, "afterStart"} /\ (o = op => b \in as)
  <2> SUFFICES ASSUME NEW b \in Adapters, NEW o \in Ops, Work(o, b) \in Stack'
               PROVE  o \in {op, "afterStart"} /\ (o = op => b \in as)
    BY DEF On
  <2>1. Work(o, b).op = o /\ Work(o, b).adapter = b
    BY WorkIs
  <2> QED BY <1>6, <2>1
<1>8. StackInv'
  BY <1>1, <1>2, <1>4, <1>5, <1>6, <1>7 DEF StackInv
<1>9. SessionInv'
  BY <1>1, <1>2, <1>4, <1>6, <1>7 DEF SessionInv, SessionPhases, ActivePhases
<1>10. CycleInv'
  BY <1>1, <1>2, <1>4, <1>7 DEF CycleInv, Settled, SessionPhases, ActivePhases
<1> QED BY <1>8, <1>9, <1>10 DEF Kept

(* stopCommunication() keeps it. *)
LEMMA StopCommunicationKept == Orderly /\ IInv /\ StopCommunication => Kept
<1> SUFFICES ASSUME Orderly, TypeOK, CycleInv, StopCommunication
             PROVE  Kept
  BY DEF IInv
<1>1. StopAll(pendingStart, << >>) /\ UNCHANGED clientVars /\ pendingStart \in SUBSET Adapters
  BY DEF StopCommunication, TypeOK
<1> DEFINE rest == << >>
<1>2. rest \in Seq(Works) /\ Members(rest) = {} /\ StopAll(pendingStart, rest)
  BY <1>1 DEF Members
<1> HIDE DEF rest
<1> QED BY <1>1, <1>2, StopAllKept

(* The poll timer keeps it. *)
LEMMA PollTimeoutKept == Orderly /\ IInv /\ PollTimeout => Kept
<1> SUFFICES ASSUME Orderly, TypeOK, StackInv, SessionInv, CycleInv, PollTimeout
             PROVE  Kept
  BY DEF IInv
<1>1. /\ TriggerRegisterRead(<< >>) /\ UNCHANGED <<clientVars, pollState, groups>> /\ ~pollTimer'
      /\ UNCHANGED pendingStart /\ pollTimer /\ groups \subseteq Adapters /\ Quiescent
  BY DEF PollTimeout, hubVars, TypeOK
<1>2. cycle = "done" /\ pollState = "Active" /\ groups # {} /\ pendingStart \cap groups = {}
  BY <1>1 DEF CycleInv, SessionInv
<1>3. \A a \in groups : phase[a] \in {"active", "degraded"} /\ (phase[a] = "active" => owed[a] = 0)
  BY <1>1, <1>2, NothingToDo DEF SessionInv, CycleInv, Settled
<1>4. /\ \A a \in Adapters : phase[a] \in SessionPhases => a \in groups
      /\ \A a \in Adapters : phase[a] \in {"starting", "announcing"} => a \in pendingStart'
  BY <1>1, <1>2 DEF SessionInv
<1> QED BY <1>1, <1>2, <1>3, <1>4, TriggerKept

(* What an adapter does of its own accord keeps it. *)
LEMMA EventKept ==
    ASSUME Orderly, IInv, NEW a \in Adapters, SessionEvent(a)
    PROVE  Kept
<1> USE DEF Ops, Calls, Signals
<1>1. /\ TypeOK /\ StackInv /\ SessionInv /\ CycleInv /\ Quiescent /\ groups \subseteq Adapters
      /\ UNCHANGED <<pendingStart, pendingResults, cycle, pollState, groups, pollTimer>>
  BY DEF IInv, SessionEvent, hubVars, cycleVars, sessionVars, TypeOK
<1>2. PICK m \in MovesOf(a, "event") : Perform(a, m, << >>)
  BY DEF SessionEvent
<1>3. PICK n \in OwedChoices(m, owed[a]) : Changed(a, m.to, n)
  BY <1>2 DEF Perform, Changed
<1>4. /\ n \in Nat
      /\ m.from = "active" /\ m.to = "active" => n = owed[a] - 1
      /\ m.from = "stopping" /\ m.to = "ready" => n = 0
      /\ owed[a] = 0 /\ ~(m.from = "active" /\ m.to = "active") => n = 0
  BY <1>1, OrderlyDebt
<1>5. /\ \A b \in Adapters : b # a => phase'[b] = phase[b] /\ owed'[b] = owed[b]
      /\ phase'[a] = m.to /\ owed'[a] = n /\ m.from = phase[a]
  BY <1>1, <1>3, OrderlyMoves DEF Changed, TypeOK
<1>6. \A o, b : ~On(o, b)
  BY <1>1, NothingToDo
<1>7. phase[a] \in SessionPhases => pollState = "Active" /\ a \in groups
  BY <1>1, <1>6 DEF SessionInv
<1>8. ASSUME todo' = << >>
      PROVE  /\ \A o, b : (Work(o, b) \in Stack) <=> (Work(o, b) \in Stack')
             /\ StackInv'
  <2>1. Stack' = {} /\ Stack = {}
    BY <1>1, <1>8, NothingToDo DEF Stack, Members
  <2>2. SignalsOnTop' /\ \A o \in Ops, b \in Adapters : ~On(o, b)'
    BY <1>8, <2>1 DEF SignalsOnTop, Quiescent, On
  <2> QED BY <2>1, <2>2 DEF StackInv
<1>9. ASSUME NEW s \in Signals, Said(s, a, << >>)
      PROVE  /\ \A o \in Ops, b \in Adapters : On(o, b)' <=> o = s /\ b = a
             /\ StackInv'
  <2>1. todo' = <<Work(s, a)>> /\ Work(s, a) \in Works
    BY <1>9, WorkIs DEF Said
  <2>2. Stack' = {Work(s, a)} /\ SignalsOnTop' /\ Rest' = << >>
    BY <2>1, Begun
  <2>3. \A o \in Ops, b \in Adapters : On(o, b)' <=> o = s /\ b = a
    BY <2>2, WorkIs DEF On
  <2> QED BY <2>2, <2>3 DEF StackInv
<1>10. /\ m.out = <<"sessionStopped">> => todo' = << >>
       /\ \A s \in Signals : m.out = <<s>> => Said(s, a, << >>)
       /\ m.out = <<"sessionStopped", "adapterReady">> => Said("adapterReady", a, << >>)
  <2> DEFINE none == << >>
  <2>1. none \in Seq(Works) /\ Perform(a, m, none)
    BY <1>2
  <2> HIDE DEF none
  <2>2. /\ m.out = <<"sessionStopped">> => todo' = none
        /\ \A s \in Signals : m.out = <<s>> => Said(s, a, none)
        /\ m.out = <<"sessionStopped", "adapterReady">> => Said("adapterReady", a, none)
    BY <1>1, <2>1, Effects
  <2> QED BY <2>2 DEF none
<1>11. CASE \/ m.from = "preparing" /\ m.to = "ready" /\ m.out = <<"adapterReady">>
            \/ m.from = "stopping" /\ m.to = "ready" /\ m.out = <<"sessionStopped", "adapterReady">>
  <2>1. /\ \A o \in Ops, b \in Adapters : On(o, b)' <=> o = "adapterReady" /\ b = a
        /\ StackInv'
    BY <1>9, <1>11, <1>10
  <2>2. n = 0
    BY <1>1, <1>4, <1>5, <1>11 DEF CycleInv
  <2>3. SessionInv'
    BY <1>1, <1>5, <1>6, <1>11, <2>1 DEF SessionInv, SessionPhases, ActivePhases
  <2>4. CycleInv'
    BY <1>1, <1>5, <1>6, <1>11, <2>1, <2>2 DEF CycleInv, Due, Settled
  <2> QED BY <2>1, <2>3, <2>4 DEF Kept
<1>12. CASE m.from \in {"starting", "announcing"} /\ m.to \in {"active", "degraded"} /\ m.out = <<"sessionStarted">>
  <2>1. /\ \A o \in Ops, b \in Adapters : On(o, b)' <=> o = "sessionStarted" /\ b = a
        /\ StackInv'
    BY <1>9, <1>12, <1>10
  <2>2. n = 0
    BY <1>1, <1>4, <1>5, <1>12 DEF CycleInv
  <2>3. pollState = "Active" /\ a \in groups /\ a \in pendingStart
    BY <1>1, <1>5, <1>7, <1>12 DEF SessionInv, SessionPhases, ActivePhases
  <2>4. SessionInv'
    BY <1>1, <1>5, <1>6, <1>12, <2>1, <2>3 DEF SessionInv
  <2>5. cycle = "none"
    BY <1>1, <2>3 DEF SessionInv, TypeOK
  <2>6. CycleInv'
    BY <1>1, <1>5, <1>6, <1>12, <2>1, <2>2, <2>3, <2>5 DEF CycleInv, Settled
  <2> QED BY <2>1, <2>4, <2>6 DEF Kept
<1>13. CASE m.from = "active" /\ m.to = "active" /\ m.out = <<"readDataResult">>
  <2>1. /\ \A o \in Ops, b \in Adapters : On(o, b)' <=> o = "readDataResult" /\ b = a
        /\ StackInv'
    BY <1>9, <1>13, <1>10
  <2>2. pollState = "Active" /\ a \in groups
    BY <1>5, <1>7, <1>13 DEF SessionPhases, ActivePhases
  <2>3. owed[a] = n + 1 /\ n \in Nat
    BY <1>1, <1>4, <1>13 DEF TypeOK
  <2>4. cycle = "open" /\ a \in pendingResults /\ Due(a)
    <3>1. phase[a] = "active" /\ owed[a] # 0
      BY <1>5, <1>13, <2>3
    <3>2. ~Settled(a)
      BY <3>1 DEF Settled
    <3> QED BY <1>1, <1>6, <2>2, <3>2 DEF CycleInv
  <2>5. n = 0
    BY <1>6, <2>3, <2>4 DEF Due
  <2>6. SessionInv'
    BY <1>1, <1>5, <1>6, <1>13, <2>1, <2>2 DEF SessionInv
  <2>7. \A b \in groups : b # a => (Due(b) => Due(b)') /\ (Settled(b) => Settled(b)')
    BY <1>1, <1>5, <1>6, <2>1 DEF Settled, Due
  <2>8. Due(a)'
    BY <1>5, <2>1, <2>5 DEF Due
  <2>9. CycleInv'
    BY <1>1, <1>5, <1>6, <1>13, <2>1, <2>2, <2>4, <2>7, <2>8 DEF CycleInv
  <2> QED BY <2>1, <2>6, <2>9 DEF Kept
<1>14. CASE m.to = "idle" /\ m.out = <<"sessionError">>
  <2>1. /\ \A o \in Ops, b \in Adapters : On(o, b)' <=> o = "sessionError" /\ b = a
        /\ StackInv'
    BY <1>9, <1>14, <1>10
  <2>2. On("sessionError", a)'
    BY <2>1
  <2>3. SessionInv'
    BY <1>1, <1>5, <1>6, <1>14, <2>1, <2>2 DEF SessionInv, SessionPhases, ActivePhases
  <2>4. CycleInv'
    BY <1>1, <1>5, <1>6, <1>14, <2>1, <2>2 DEF CycleInv
  <2> QED BY <2>1, <2>3, <2>4 DEF Kept
<1>15. CASE m.from \in {"stopping", "killing"} /\ m.to = "idle" /\ m.out = <<"sessionStopped">>
  <2>1. todo' = << >>
    BY <1>15, <1>10
  <2>2. (\A o \in Ops, b \in Adapters : ~On(o, b)') /\ StackInv'
    BY <1>6, <1>8, <2>1 DEF On
  <2>3. SessionInv'
    BY <1>1, <1>5, <1>6, <1>15, <2>2 DEF SessionInv, SessionPhases, ActivePhases
  <2>4. CycleInv'
    BY <1>1, <1>5, <1>6, <1>15, <2>2 DEF CycleInv, Due, Settled
  <2> QED BY <2>2, <2>3, <2>4 DEF Kept
<1>16. \/ m.from = "preparing" /\ m.to = "ready" /\ m.out = <<"adapterReady">>
       \/ m.from = "starting" /\ m.to \in {"active", "degraded"} /\ m.out = <<"sessionStarted">>
       \/ m.from = "announcing" /\ m.to = "degraded" /\ m.out = <<"sessionStarted">>
       \/ m.from = "active" /\ m.to = "active" /\ m.out = <<"readDataResult">>
       \/ m.from = "stopping" /\ m.to = "ready" /\ m.out = <<"sessionStopped", "adapterReady">>
       \/ m.to = "idle" /\ m.out = <<"sessionError">>
       \/ m.from \in {"stopping", "killing"} /\ m.to = "idle" /\ m.out = <<"sessionStopped">>
  BY OrderlyMoves
<1> QED BY <1>11, <1>12, <1>13, <1>14, <1>15, <1>16

(* So does the reply of an adapter to a request of the past. *)
LEMMA LateReplyKept ==
    ASSUME Orderly, IInv, NEW a \in Adapters, LateReplyDropped(a)
    PROVE  Kept
<1>1. /\ StackInv /\ SessionInv /\ CycleInv /\ groups \subseteq Adapters
      /\ UNCHANGED <<phase, todo, pendingStart, pendingResults, cycle, pollState, groups, pollTimer>>
  BY DEF IInv, TypeOK, LateReplyDropped, hubVars, cycleVars, sessionVars
<1>2. \A b \in Adapters : (phase[b] = "active" => owed'[b] = owed[b]) /\ (owed[b] = 0 => owed'[b] = 0)
  BY DEF LateReplyDropped, IInv, TypeOK
<1>3. Stack' = Stack /\ SignalsOnTop' = SignalsOnTop /\ Rest' = Rest
  BY <1>1 DEF Stack, SignalsOnTop, Rest, Quiescent
<1>4. StackInv' /\ SessionInv'
  BY <1>1, <1>3 DEF StackInv, SessionInv, On
<1>5. CycleInv'
  BY <1>1, <1>2, <1>3 DEF CycleInv, Due, Settled, On
<1> QED BY <1>4, <1>5 DEF Kept

(* So does a step that changes nothing. *)
LEMMA StutterKept == IInv /\ UNCHANGED vars => Kept
<1> SUFFICES ASSUME IInv, UNCHANGED vars PROVE Kept
  OBVIOUS
<1> USE DEF vars, clientVars, hubVars, cycleVars, sessionVars
<1>1. Stack' = Stack /\ SignalsOnTop' = SignalsOnTop /\ Rest' = Rest
  BY DEF Stack, SignalsOnTop, Rest, Quiescent
<1> QED BY <1>1 DEF IInv, Kept, StackInv, SessionInv, CycleInv, Due, Settled, On

(* The invariant holds at first. *)
LEMMA OrderlyInitially == Init => IInv
<1> SUFFICES ASSUME Init PROVE IInv
  OBVIOUS
<1> USE DEF Ops, Calls, Signals
<1>1. TypeOK /\ GuiInv
  BY TypedInitially
<1>2. todo = ForEach("prepare", Adapters) /\ Stack = {Work("prepare", a) : a \in Adapters}
  BY Loops DEF Init, Stack
<1>3. \A w \in Stack : w.op = "prepare"
  BY <1>2, WorkIs
<1>4. \A o \in Ops, b \in Adapters : On(o, b) => o = "prepare"
  BY <1>3, WorkIs DEF On
<1>5. SignalsOnTop
  BY <1>1, <1>3, WorkOnTop DEF SignalsOnTop
<1>6. StackInv
  BY <1>3, <1>4, <1>5 DEF StackInv
<1>7. SessionInv
  BY <1>4 DEF SessionInv, Init, SessionPhases, ActivePhases
<1>8. CycleInv
  BY <1>4 DEF CycleInv, Init
<1> QED BY <1>1, <1>6, <1>7, <1>8 DEF IInv

(* The invariant is inductive when replies come in order. *)
LEMMA OrderlyStep == Orderly /\ IInv /\ [Next]_vars => IInv'
<1> SUFFICES ASSUME Orderly, IInv, [Next]_vars PROVE IInv'
  OBVIOUS
<1>1. TypeOK' /\ GuiInv'
  BY TypedStep DEF IInv
<1> SUFFICES Kept
  BY <1>1 DEF Kept, IInv
<1>2. CASE Turn
  BY <1>2, PrepareKept, ConfigureKept, ReadKept, StopKept, AdapterReadyKept, SessionStartedKept,
     SessionErrorKept, ResultKept, FinishStartKept DEF Turn
<1>3. CASE \E adapters \in SUBSET Adapters : StartCommunication(adapters)
  BY <1>3, StartKept
<1>4. CASE StopCommunication \/ PollTimeout
  BY <1>4, StopCommunicationKept, PollTimeoutKept
<1>5. CASE \E a \in Adapters : SessionEvent(a) \/ LateReplyDropped(a)
  BY <1>5, EventKept, LateReplyKept
<1>6. CASE UNCHANGED vars
  BY <1>6, StutterKept
<1> QED BY <1>2, <1>3, <1>4, <1>5, <1>6 DEF Next

(* The invariant holds of every orderly behaviour. *)
LEMMA OrderlyAlways ==
    ASSUME Orderly
    PROVE  Spec => []IInv
<1>1. IInv /\ [Next]_vars => IInv'
  BY OrderlyStep
<1> QED BY <1>1, OrderlyInitially, PTL DEF Spec

(* In an orderly session a poll that was stopped, or failed, leaves no     *)
(* adapter behind with a session nobody tracks: stopSession() and the      *)
(* errors that strike while adapters are started reach every one of them.  *)
THEOREM NoOrphans ==
    ASSUME Orderly
    PROVE  Spec => []NoOrphanSession
<1>1. IInv => NoOrphanSession
  BY NothingToDo DEF IInv, SessionInv, NoOrphanSession
<1> QED BY <1>1, OrderlyAlways, PTL

(* In an orderly session nothing is read before every adapter with data    *)
(* points has its session.                                                 *)
THEOREM WholeSessionPolled ==
    ASSUME Orderly
    PROVE  Spec => []PollsWholeSession
<1>1. IInv => PollsWholeSession
  BY NothingToDo DEF IInv, TypeOK, SessionInv, PollsWholeSession, ActivePhases, Ops
<1> QED BY <1>1, OrderlyAlways, PTL

(* In an orderly session the merged results of a poll cycle are published  *)
(* once, whatever the order in which the adapters answer each other.       *)
THEOREM OneResultEach ==
    ASSUME Orderly
    PROVE  Spec => []OneResultPerCycle
<1>1. IInv => OneResultPerCycle
  BY DEF IInv, CycleInv, OneResultPerCycle
<1> QED BY <1>1, OrderlyAlways, PTL

(* In an orderly session a cycle that is not complete waits for adapters   *)
(* that run a session and owe the answer to a request: none of them was    *)
(* left out of the requests, and none has answered unnoticed.              *)
THEOREM AskedAdaptersAwaited ==
    ASSUME Orderly
    PROVE  Spec => []WaitsForAskedAdapters
<1>1. IInv => WaitsForAskedAdapters
  <2> SUFFICES ASSUME IInv, Quiescent, cycle = "open"
               PROVE  /\ pendingResults # {}
                      /\ \A a \in pendingResults : phase[a] = "active" /\ owed[a] > 0
    BY DEF WaitsForAskedAdapters
  <2>1. pendingResults # {} /\ pendingResults \subseteq groups /\ pollState = "Active"
    BY DEF IInv, CycleInv, SessionInv
  <2>2. \A a \in pendingResults : Due(a)
    BY <2>1, NothingToDo DEF IInv, CycleInv
  <2> QED BY <2>1, <2>2, NothingToDo DEF Due
<1> QED BY <1>1, OrderlyAlways, PTL
=============================================================================
