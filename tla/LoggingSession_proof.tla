------------------------ MODULE LoggingSession_proof ------------------------
(***************************************************************************)
(* Proofs about LoggingSession for any signals, expressions, adapters and  *)
(* bounds: a value that was measured for a signal was computed from the    *)
(* signal's own data points, and the temporary log file with what is still *)
(* buffered for it is the series that are plotted.                         *)
(*                                                                         *)
(* Both rest on indices that are handed on: from a point to its place in   *)
(* the list that is polled, from there to its place in the answer of an    *)
(* adapter and back, and from an expression to the signal that is the      *)
(* k-th active one.  The invariant says that they agree while a session    *)
(* polls the signals it was started with (InSession).                      *)
(***************************************************************************)
EXTENDS LoggingSession, OrderedSets_proof, SequenceTheorems

Verdicts == {"UNKNOWN", "VALID", "SYNTAX_ERROR", "UNKNOWN_DEVICE"}
Values == Seq(Points \X (1 .. MaxCycles))
Samples == [at : 1 .. MaxCycles, value : Values, quality : Qualities]

(* The signals there may be: one that is not active has no samples.        *)
Signals ==
    {s \in [id : 1 .. MaxIds, expression : Expressions, active : BOOLEAN, visible : BOOLEAN,
            state : Verdicts, data : Seq(Samples)] : s.active \/ s.data = << >>}

(* A value was computed from the points of its signal's expression, read   *)
(* when the sample was taken.                                              *)
IsOwn(sample, e) ==
    sample.value = [j \in DOMAIN Reads[e] |-> <<Reads[e][j], sample.at>>]
Own(s) == \A k \in DOMAIN s.data : s.data[k].quality \in Usable => IsOwn(s.data[k], s.expression)
OwnSignals == {s \in Signals : Own(s)}

(* The lists of signals out of S, all of them plotted. *)
ListsOf(S) ==
    [rows : Seq(S), selected : Nat, plotted : {TRUE}, graphs : Seq(Nat), crashed : BOOLEAN]

(* The active series have the same length. *)
Level(m) == \A i, j \in Active(m) : Len(m.rows[i].data) = Len(m.rows[j].data)

(* A set of signals that a change of a list does not leave: it holds those *)
(* with nothing measured, and with a signal those of the same expression   *)
(* and series.                                                             *)
Closed(S) ==
    /\ S \subseteq Signals
    /\ \A s \in Signals : NothingMeasured(s.data) => s \in S
    /\ \A s \in S, t \in Signals : t.data = s.data /\ t.expression = s.expression => t \in S

-----------------------------------------------------------------------------
(* Rows and signals. *)

(* Bounds are numbers, ids are, and a record of the fields of a signal is  *)
(* one.                                                                    *)
LEMMA SignalFields ==
    ASSUME NEW s \in Signals
    PROVE  /\ s.id \in 1 .. MaxIds /\ s.id \in Nat /\ s.expression \in Expressions
           /\ s.active \in BOOLEAN /\ s.visible \in BOOLEAN /\ s.state \in Verdicts
           /\ s.data \in Seq(Samples) /\ (s.active \/ s.data = << >>)
BY SessionAssumption DEF Signals

(* Nothing is measured in a series without samples, and what was not       *)
(* measured was not measured wrongly.                                      *)
LEMMA SignalSets == Closed(Signals) /\ Closed(OwnSignals)
<1>1. Closed(Signals)
  BY DEF Closed
<1>2. \A s \in Signals : NothingMeasured(s.data) => Own(s)
  BY DEF NothingMeasured, Own, Usable
<1>3. \A s \in OwnSignals, t \in Signals :
        t.data = s.data /\ t.expression = s.expression => Own(t)
  BY DEF OwnSignals, Own
<1>4. OwnSignals \subseteq Signals
  BY DEF OwnSignals
<1> QED BY <1>1, <1>2, <1>3, <1>4 DEF Closed, OwnSignals

(* The rows of a list. *)
LEMMA RowsOf ==
    ASSUME NEW S, Closed(S), NEW m \in ListsOf(S)
    PROVE  /\ m.rows \in Seq(S) /\ Len(m.rows) \in Nat /\ DOMAIN m.rows = 1 .. Len(m.rows)
           /\ \A i \in DOMAIN m.rows : m.rows[i] \in S /\ m.rows[i] \in Signals
           /\ m.plotted = TRUE /\ m.crashed \in BOOLEAN
<1>1. m.rows \in Seq(S) /\ m.plotted = TRUE /\ m.crashed \in BOOLEAN
  BY DEF ListsOf
<1>2. Len(m.rows) \in Nat /\ DOMAIN m.rows = 1 .. Len(m.rows) /\ \A i \in DOMAIN m.rows : m.rows[i] \in S
  BY <1>1
<1> QED BY <1>1, <1>2 DEF Closed

(* A list of some signals is a list of signals. *)
LEMMA ListsOfSignals ==
    ASSUME NEW S, Closed(S)
    PROVE  ListsOf(S) \subseteq ListsOf(Signals)
<1>1. Seq(S) \subseteq Seq(Signals)
  BY SeqMonotonic DEF Closed
<1> QED BY <1>1 DEF ListsOf

(* The same list with other rows. *)
LEMMA OtherRows ==
    ASSUME NEW S, NEW m \in ListsOf(Signals), NEW rows \in Seq(S)
    PROVE  LET n == [m EXCEPT !.rows = rows]
           IN  n \in ListsOf(S) /\ n.rows = rows /\ n.crashed = m.crashed /\ n.selected = m.selected
BY DEF ListsOf

Reordered(m, rows) == [m EXCEPT !.rows = rows, !.selected = 0]

(* The same list with other rows, of which none is selected. *)
LEMMA OtherOrder ==
    ASSUME NEW S, NEW m \in ListsOf(Signals), NEW rows \in Seq(S)
    PROVE  Reordered(m, rows) \in ListsOf(S)
BY DEF ListsOf, Reordered

(* The same list with another row. *)
LEMMA OtherRow ==
    ASSUME NEW S, Closed(S), NEW m \in ListsOf(Signals), NEW i \in DOMAIN m.rows, NEW s \in S,
           \A j \in DOMAIN m.rows : j # i => m.rows[j] \in S
    PROVE  LET n == [m EXCEPT !.rows[i] = s]
           IN  /\ n \in ListsOf(S) /\ DOMAIN n.rows = DOMAIN m.rows /\ n.crashed = m.crashed
               /\ n.selected = m.selected
               /\ \A j \in DOMAIN m.rows : n.rows[j] = IF j = i THEN s ELSE m.rows[j]
<1> DEFINE rows == [m.rows EXCEPT ![i] = s]
           n == [m EXCEPT !.rows[i] = s]
<1>1. DOMAIN m.rows = 1 .. Len(m.rows) /\ Len(m.rows) \in Nat
  BY RowsOf, SignalSets
<1>2. DOMAIN rows = DOMAIN m.rows /\ \A j \in DOMAIN m.rows : rows[j] = IF j = i THEN s ELSE m.rows[j]
  OBVIOUS
<1>3. rows \in [1 .. Len(m.rows) -> S]
  BY <1>1, <1>2
<1>4. n = [m EXCEPT !.rows = rows]
  BY DEF ListsOf
<1> HIDE DEF rows, n
<1>5. rows \in Seq(S)
  BY <1>1, <1>3
<1>6. n \in ListsOf(S) /\ n.rows = rows /\ n.crashed = m.crashed /\ n.selected = m.selected
  BY <1>4, <1>5, OtherRows
<1> QED BY <1>2, <1>6 DEF n

(* The rows that are active, in their order. *)
LEMMA ActiveOnes ==
    ASSUME NEW m \in ListsOf(Signals)
    PROVE  /\ Active(m) \in SUBSET (1 .. Len(m.rows)) /\ Cardinality(Active(m)) \in Nat
           /\ ActiveRows(m) \in [1 .. Cardinality(Active(m)) -> Active(m)]
           /\ DOMAIN ActiveRows(m) = 1 .. Len(ActiveRows(m)) /\ Len(ActiveRows(m)) \in Nat
           /\ \A k \in DOMAIN ActiveRows(m) :
                 ActiveRows(m)[k] \in DOMAIN m.rows /\ m.rows[ActiveRows(m)[k]].active
           /\ \A i \in Active(m) : \E k \in DOMAIN ActiveRows(m) : ActiveRows(m)[k] = i
           /\ \A k, l \in DOMAIN ActiveRows(m) : ActiveRows(m)[k] = ActiveRows(m)[l] => k = l
           /\ ActiveIds(m) \in Seq(Nat)
<1> DEFINE a == ActiveRows(m)
           n == Cardinality(Active(m))
<1>1. Len(m.rows) \in Nat /\ Active(m) \in SUBSET (1 .. Len(m.rows))
      /\ \A i \in DOMAIN m.rows : m.rows[i] \in Signals
  BY RowsOf, SignalSets DEF Active
<1>2. /\ n \in Nat /\ a \in [1 .. n -> Active(m)]
      /\ \A i, j \in 1 .. n : a[i] = a[j] => i = j
      /\ \A x \in Active(m) : \E i \in 1 .. n : a[i] = x
  BY <1>1, AscendingOrder DEF ActiveRows
<1>3. \A k \in 1 .. n : a[k] \in DOMAIN m.rows /\ m.rows[a[k]].active /\ m.rows[a[k]].id \in Nat
  BY <1>1, <1>2, SignalFields DEF Active
<1>4. ActiveIds(m) = [k \in DOMAIN a |-> m.rows[a[k]].id]
  BY DEF ActiveIds
<1> HIDE DEF a, n
<1>5. DOMAIN a = 1 .. n /\ Len(a) = n
  BY <1>2
<1>6. ActiveIds(m) \in [1 .. n -> Nat]
  BY <1>3, <1>4, <1>5
<1>7. ActiveIds(m) \in Seq(Nat)
  BY <1>2, <1>6
<1> QED BY <1>1, <1>2, <1>3, <1>5, <1>7 DEF a, n

-----------------------------------------------------------------------------
(* The plot: what updateGraphs() leaves. *)

(* The blank of a series: its length, and nothing measured. *)
LEMMA BlankOf ==
    ASSUME NEW data \in Seq(Samples)
    PROVE  /\ Blank(data) \in Seq(Samples) /\ NothingMeasured(Blank(data))
           /\ Len(Blank(data)) = Len(data)
<1> DEFINE b == [k \in DOMAIN data |-> SampleOf(data[k].at, Zero, "NoValue")]
<1>1. DOMAIN data = 1 .. Len(data) /\ Len(data) \in Nat /\ \A k \in DOMAIN data : data[k] \in Samples
  OBVIOUS
<1>2. \A sample \in Samples : /\ SampleOf(sample.at, Zero, "NoValue") \in Samples
                              /\ SampleOf(sample.at, Zero, "NoValue").quality = "NoValue"
  <2>1. Zero \in Values /\ "NoValue" \in Qualities
    BY DEF Zero, Values, Qualities
  <2> QED BY <2>1 DEF Samples, SampleOf
<1>3. \A k \in DOMAIN data : b[k] \in Samples /\ b[k].quality = "NoValue"
  BY <1>1, <1>2
<1>4. b \in Seq(Samples) /\ Len(b) = Len(data) /\ DOMAIN b = DOMAIN data
  BY <1>1, <1>3
<1>5. Blank(data) = b
  BY <1>4 DEF Blank
<1> QED BY <1>3, <1>4, <1>5 DEF NothingMeasured

(* A signal with nothing measured, or with what another one measured for   *)
(* the same expression, belongs to every closed set.                       *)
LEMMA StaysIn ==
    ASSUME NEW S, Closed(S), NEW s \in S, NEW t \in Signals,
           NothingMeasured(t.data) \/ (t.data = s.data /\ t.expression = s.expression)
    PROVE  t \in S
BY DEF Closed

(* The lengths of the series of a list are bounded. *)
LEMMA SeriesBounded ==
    ASSUME NEW m \in ListsOf(Signals)
    PROVE  \E n \in Nat : \A i \in DOMAIN m.rows : Len(m.rows[i].data) <= n
<1> DEFINE n == Len(m.rows)
           size(i) == Len(m.rows[i].data)
           greater(b, i) == IF b < size(i) THEN size(i) ELSE b
           turn == [x \in Nat \X (1 .. n) |-> greater(x[1], x[2])]
           after == [k \in 0 .. n |-> {b \in Nat : \A i \in 1 .. k : size(i) <= b}]
<1>1. n \in Nat /\ DOMAIN m.rows = 1 .. n /\ \A i \in 1 .. n : size(i) \in Nat
  <2>1. n \in Nat /\ DOMAIN m.rows = 1 .. n /\ \A i \in DOMAIN m.rows : m.rows[i] \in Signals
    BY RowsOf, SignalSets
  <2>2. \A s \in Signals : Len(s.data) \in Nat
    BY SignalFields
  <2> QED BY <2>1, <2>2
<1> HIDE DEF n, size
<1>2. turn \in Turns(Nat, n)
  BY <1>1 DEF Turns
<1>3. \A b \in Nat, k \in 1 .. n : turn[<<b, k>>] = greater(b, k)
  OBVIOUS
<1> HIDE DEF turn
<1>4. PICK g \in [0 .. n -> Nat] : g[0] = 0 /\ \A k \in 1 .. n : g[k] = turn[<<g[k - 1], k>>]
  <2> DEFINE none == 0
             N == Nat
  <2>1. n \in Nat /\ none \in N /\ turn \in Turns(N, n)
    BY <1>1, <1>2
  <2> HIDE DEF none, N
  <2>2. \E g \in [0 .. n -> N] : g[0] = none /\ \A k \in 1 .. n : g[k] = turn[<<g[k - 1], k>>]
    BY <2>1, LoopExists
  <2> QED BY <2>2 DEF none, N
<1>5. g[0] \in after[0]
  BY <1>1, <1>4
<1>6. ASSUME NEW k \in 1 .. n, g[k - 1] \in after[k - 1]
      PROVE  g[k] \in after[k]
  <2>1. k \in 0 .. n /\ k - 1 \in 0 .. n /\ g[k - 1] \in Nat /\ g[k] \in Nat
    BY <1>1, <1>4
  <2>2. g[k] = greater(g[k - 1], k)
    BY <1>3, <1>4, <2>1
  <2>3. \A i \in 1 .. k - 1 : size(i) <= g[k - 1]
    BY <1>6, <2>1
  <2>4. \A i \in 1 .. k : size(i) <= g[k]
    <3> TAKE i \in 1 .. k
    <3>1. size(i) \in Nat /\ size(k) \in Nat /\ (i = k \/ i \in 1 .. k - 1)
      BY <1>1
    <3>2. i = k \/ size(i) <= g[k - 1]
      BY <2>3, <3>1
    <3> QED BY <2>1, <2>2, <3>1, <3>2
  <2> QED BY <2>1, <2>4
<1> HIDE DEF after
<1>7. g[n] \in after[n]
  <2>1. \A k \in 0 .. n : g[k] \in after[k]
    BY <1>1, <1>5, <1>6, LoopKeeps
  <2> QED BY <1>1, <2>1
<1>8. g[n] \in Nat /\ \A i \in 1 .. n : size(i) <= g[n]
  BY <1>1, <1>7 DEF after
<1> QED BY <1>1, <1>8 DEF size

(* The longest series is the series of an active signal. *)
LEMMA LongestSeries ==
    ASSUME NEW m \in ListsOf(Signals), Active(m) # {}
    PROVE  \E i \in Active(m) : Longest(m) = Len(m.rows[i].data) /\ FirstLongest(m) = m.rows[i].data
<1> DEFINE size(i) == Len(m.rows[i].data)
           bounds == {n \in Nat : \A i \in Active(m) : size(i) <= n}
<1>1. \A i \in Active(m) : i \in DOMAIN m.rows /\ i \in Nat /\ size(i) \in Nat
  <2>1. Len(m.rows) \in Nat /\ DOMAIN m.rows = 1 .. Len(m.rows)
        /\ \A i \in DOMAIN m.rows : m.rows[i] \in Signals
    BY RowsOf, SignalSets
  <2>2. \A s \in Signals : Len(s.data) \in Nat
    BY SignalFields
  <2> QED BY <2>1, <2>2 DEF Active
<1>2. bounds \in SUBSET Nat /\ bounds # {}
  BY <1>1, SeriesBounded
<1>3. PICK b \in bounds : \A n \in bounds : b <= n
  <2> HIDE DEF bounds
  <2> QED BY <1>2, LeastExists
<1>4. \E i \in Active(m) : size(i) = b
  <2> SUFFICES ASSUME \A i \in Active(m) : size(i) # b
               PROVE  FALSE
    OBVIOUS
  <2>1. \A i \in Active(m) : size(i) <= b - 1 /\ b - 1 \in Nat
    BY <1>1, <1>3
  <2>2. b - 1 \in bounds
    BY <2>1
  <2>3. b \in Nat
    BY <1>3
  <2> HIDE DEF bounds
  <2> QED BY <1>3, <2>2, <2>3
<1>5. Longest(m) = b
  <2> DEFINE lengths == {Len(m.rows[i].data) : i \in Active(m)}
  <2>1. lengths \in SUBSET Nat /\ b \in lengths /\ \A other \in lengths : other <= b
    BY <1>1, <1>3, <1>4
  <2>2. \A n \in lengths : (\A other \in lengths : other <= n) => n = b
    BY <1>3, <2>1
  <2>3. Longest(m) = CHOOSE n \in lengths : \A other \in lengths : other <= n
    BY DEF Longest
  <2> HIDE DEF lengths
  <2> QED BY <2>1, <2>2, <2>3
<1> DEFINE first == {i \in Active(m) : Len(m.rows[i].data) = Longest(m)}
<1>6. first \in SUBSET Nat /\ first # {}
  BY <1>1, <1>4, <1>5
<1>7. Min(first) \in first
  <2> HIDE DEF first
  <2> QED BY <1>6, MinIsLeast
<1>8. FirstLongest(m) = m.rows[Min(first)].data
  BY DEF FirstLongest
<1> HIDE DEF FirstLongest
<1> QED BY <1>7, <1>8

(* updateGraphs() leaves the series of a list of some signals level, with  *)
(* samples of those signals.                                               *)
LEMMA GraphsUpdated ==
    ASSUME NEW S, Closed(S), NEW m \in ListsOf(S)
    PROVE  UpdateGraphs(m) \in ListsOf(S) /\ Level(UpdateGraphs(m))
<1> DEFINE n == UpdateGraphs(m)
           drawn == [m EXCEPT !.graphs = ActiveIds(m)]
           short(i) == m.rows[i].active /\ Len(m.rows[i].data) # Longest(m)
           row(i) == IF short(i) THEN [m.rows[i] EXCEPT !.data = Blank(FirstLongest(m))] ELSE m.rows[i]
           rows == [i \in DOMAIN m.rows |-> row(i)]
<1>0. m \in ListsOf(Signals)
  BY ListsOfSignals
<1>1. /\ Len(m.rows) \in Nat /\ DOMAIN m.rows = 1 .. Len(m.rows) /\ m.plotted
      /\ \A i \in DOMAIN m.rows : m.rows[i] \in S /\ m.rows[i] \in Signals
  BY RowsOf
<1>2. drawn \in ListsOf(Signals) /\ drawn.rows = m.rows
  <2>1. ActiveIds(m) \in Seq(Nat)
    BY <1>0, ActiveOnes
  <2> HIDE DEF ActiveIds
  <2> QED BY <1>0, <2>1 DEF ListsOf
<1>3. \A i \in DOMAIN m.rows : /\ row(i) \in S /\ row(i).active = m.rows[i].active
                               /\ m.rows[i].active => Len(row(i).data) = Longest(m)
  <2> TAKE i \in DOMAIN m.rows
  <2>1. CASE short(i)
    <3>1. PICK j \in Active(m) : Longest(m) = Len(m.rows[j].data) /\ FirstLongest(m) = m.rows[j].data
      BY <1>0, <2>1, LongestSeries DEF Active
    <3>2. FirstLongest(m) \in Seq(Samples) /\ Len(FirstLongest(m)) = Longest(m)
      BY <1>1, <3>1, SignalFields DEF Active
    <3> DEFINE blank == Blank(FirstLongest(m))
    <3>3. blank \in Seq(Samples) /\ NothingMeasured(blank) /\ Len(blank) = Longest(m)
      BY <3>2, BlankOf
    <3> HIDE DEF blank
    <3>4. m.rows[i] \in Signals /\ m.rows[i].active
      BY <1>1, <2>1
    <3> DEFINE t == [m.rows[i] EXCEPT !.data = blank]
    <3>5. t \in Signals /\ t.data = blank /\ t.active = m.rows[i].active
      BY <3>3, <3>4 DEF Signals
    <3>6. row(i) = t
      BY <2>1 DEF blank
    <3> HIDE DEF t, row
    <3>7. t \in S
      BY <1>1, <3>3, <3>5, StaysIn
    <3> QED BY <3>3, <3>5, <3>6, <3>7
  <2>2. CASE ~short(i)
    BY <1>1, <2>2
  <2> QED BY <2>1, <2>2
<1> HIDE DEF row
<1>4. rows \in Seq(S) /\ Len(rows) = Len(m.rows) /\ SubSeq(rows, 1, Len(m.rows)) = rows
  BY <1>1, <1>3
<1>5. n = [drawn EXCEPT !.rows = rows]
  <2>1. n = [drawn EXCEPT !.rows = SubSeq(rows, 1, Len(m.rows))]
    BY <1>1, <1>2 DEF UpdateGraphs, MapRows, row
  <2> QED BY <2>1, <1>4
<1> HIDE DEF drawn, n
<1>6. n \in ListsOf(S) /\ n.rows = rows
  BY <1>2, <1>4, <1>5, OtherRows
<1>7. DOMAIN rows = DOMAIN m.rows /\ \A i \in DOMAIN rows : rows[i] = row(i)
  OBVIOUS
<1> HIDE DEF rows
<1>8. Level(n)
  BY <1>3, <1>6, <1>7 DEF Level, Active
<1> QED BY <1>6, <1>8 DEF n

-----------------------------------------------------------------------------
(* The operations on the list keep it a list of the signals of a closed    *)
(* set, with series of one length.                                         *)

(* The verdict on a signal changes neither its expression nor its series.  *)
LEMMA CheckedSignal ==
    ASSUME NEW S, Closed(S), NEW s \in S, NEW devs
    PROVE  /\ Checked(s, devs) \in S /\ Checked(s, devs).data = s.data
           /\ Checked(s, devs).active = s.active
<1>1. s \in Signals
  BY DEF Closed
<1>2. Verdict(s.expression, devs) \in Verdicts
  BY DEF Verdict, Verdicts
<1>3. /\ Checked(s, devs) \in Signals /\ Checked(s, devs).data = s.data
      /\ Checked(s, devs).active = s.active /\ Checked(s, devs).expression = s.expression
  BY <1>1, <1>2 DEF Checked, Signals
<1> QED BY <1>3, StaysIn

(* A new signal is in every closed set. *)
LEMMA NewSignal ==
    ASSUME NEW S, Closed(S), NEW id \in 1 .. MaxIds, NEW e \in Expressions, NEW active \in BOOLEAN
    PROVE  Signal(id, e, active, TRUE) \in S
<1> DEFINE s == Signal(id, e, active, TRUE)
<1>1. s \in Signals /\ s.data = << >>
  BY DEF Signal, Signals, Verdicts
<1> HIDE DEF s
<1>2. NothingMeasured(s.data)
  BY <1>1 DEF NothingMeasured
<1>3. s \in S
  BY <1>1, <1>2 DEF Closed
<1> QED BY <1>3 DEF s

(* addToModel() *)
LEMMA AddedRow ==
    ASSUME NEW S, Closed(S), NEW m \in ListsOf(S), NEW s \in S, NEW devs
    PROVE  AddSignal(m, s, devs) \in ListsOf(S) /\ Level(AddSignal(m, s, devs))
<1> DEFINE k == Size(m) + 1
           rows == Append(m.rows, s)
           longer == [m EXCEPT !.rows = rows]
           checked == CheckExpression(longer, k, devs)
<1>1. m.rows \in Seq(S) /\ Size(m) \in Nat /\ m \in ListsOf(Signals)
  BY RowsOf, ListsOfSignals DEF Size
<1>2. rows \in Seq(S) /\ k \in DOMAIN rows /\ \A i \in DOMAIN rows : rows[i] \in S
  BY <1>1 DEF Size
<1>3. AddSignal(m, s, devs) = UpdateGraphs(checked)
  BY DEF AddSignal
<1> HIDE DEF rows, k
<1>4. longer \in ListsOf(S) /\ longer.rows = rows /\ longer \in ListsOf(Signals)
  BY <1>1, <1>2, OtherRows, ListsOfSignals
<1>5. checked = [longer EXCEPT !.rows[k] = Checked(rows[k], devs)]
  BY <1>4 DEF CheckExpression, ListsOf
<1> HIDE DEF longer, checked
<1>6. Checked(rows[k], devs) \in S
  BY <1>2, CheckedSignal
<1>7. checked \in ListsOf(S)
  BY <1>2, <1>4, <1>5, <1>6, OtherRow
<1>8. UpdateGraphs(checked) \in ListsOf(S) /\ Level(UpdateGraphs(checked))
  BY <1>7, GraphsUpdated
<1> QED BY <1>3, <1>8

(* A list with a row taken out. *)
LEMMA TakenOut ==
    ASSUME NEW S, NEW s \in Seq(S), NEW i \in 1 .. Len(s)
    PROVE  RemoveAt(s, i) \in Seq(S) /\ Len(RemoveAt(s, i)) = Len(s) - 1
<1> DEFINE a == SubSeq(s, 1, i - 1)
           b == SubSeq(s, i + 1, Len(s))
<1>1. Len(s) \in Nat /\ i \in Nat
  OBVIOUS
<1>2. a \in Seq(S) /\ Len(a) = i - 1
  OBVIOUS
<1>3. b \in Seq(S) /\ Len(b) = Len(s) - i
  OBVIOUS
<1>4. RemoveAt(s, i) = a \o b
  BY DEF RemoveAt
<1> HIDE DEF a, b
<1>5. a \o b \in Seq(S) /\ Len(a \o b) = Len(a) + Len(b)
  BY <1>2, <1>3, ConcatProperties
<1> QED BY <1>1, <1>2, <1>3, <1>4, <1>5

(* A list with a row put in. *)
LEMMA PutIn ==
    ASSUME NEW S, NEW s \in Seq(S), NEW i \in 1 .. Len(s) + 1, NEW e \in S
    PROVE  InsertAt(s, i, e) \in Seq(S)
<1> DEFINE a == SubSeq(s, 1, i - 1)
           b == SubSeq(s, i, Len(s))
<1>1. a \in Seq(S)
  OBVIOUS
<1>2. b \in Seq(S)
  OBVIOUS
<1>3. InsertAt(s, i, e) = a \o <<e>> \o b
  BY DEF InsertAt
<1> HIDE DEF a, b
<1> QED BY <1>1, <1>2, <1>3

(* removeFromModel() *)
LEMMA RemovedRow ==
    ASSUME NEW S, Closed(S), NEW m \in ListsOf(S), NEW i \in DOMAIN m.rows
    PROVE  RemoveSignal(m, i) \in ListsOf(S) /\ Level(RemoveSignal(m, i))
<1> DEFINE rows == RemoveAt(m.rows, i)
           shorter == Reordered(m, rows)
<1>1. m.rows \in Seq(S) /\ i \in 1 .. Len(m.rows) /\ Len(m.rows) \in Nat /\ m \in ListsOf(Signals)
  BY RowsOf, ListsOfSignals
<1>2. rows \in Seq(S)
  BY <1>1, TakenOut
<1>3. RemoveSignal(m, i) = UpdateGraphs(shorter)
  BY DEF RemoveSignal, ListsOf, Reordered
<1> HIDE DEF rows
<1>4. shorter \in ListsOf(S)
  BY <1>1, <1>2, OtherOrder
<1> HIDE DEF shorter
<1> QED BY <1>3, <1>4, GraphsUpdated

(* moveRow() *)
LEMMA MovedRow ==
    ASSUME NEW S, Closed(S), NEW m \in ListsOf(S), NEW from \in DOMAIN m.rows,
           NEW to \in DOMAIN m.rows, from # to
    PROVE  MoveSignal(m, from, to) \in ListsOf(S) /\ Level(MoveSignal(m, from, to))
<1> DEFINE others == RemoveAt(m.rows, from)
           rows == InsertAt(others, to, m.rows[from])
           moved == Reordered(m, rows)
<1>1. /\ m.rows \in Seq(S) /\ Len(m.rows) \in Nat /\ m \in ListsOf(Signals)
      /\ from \in 1 .. Len(m.rows) /\ to \in 1 .. Len(m.rows) /\ m.rows[from] \in S
  BY RowsOf, ListsOfSignals
<1>2. others \in Seq(S) /\ Len(others) = Len(m.rows) - 1
  BY <1>1, TakenOut
<1>3. MoveSignal(m, from, to) = UpdateGraphs(moved)
  BY DEF MoveSignal, ListsOf, Reordered
<1> HIDE DEF others
<1>4. rows \in Seq(S)
  <2>1. to \in 1 .. Len(others) + 1
    BY <1>1, <1>2
  <2> HIDE DEF rows
  <2> QED BY <1>1, <1>2, <2>1, PutIn DEF rows
<1> HIDE DEF rows
<1>5. moved \in ListsOf(S)
  BY <1>1, <1>4, OtherOrder
<1> HIDE DEF moved
<1> QED BY <1>3, <1>5, GraphsUpdated

(* A graph that is used may not exist; the list is the same.               *)
LEMMA GraphUsed ==
    ASSUME NEW S, NEW m \in ListsOf(S), NEW i
    PROVE  /\ UseGraph(m, i) \in ListsOf(S) /\ UseGraph(m, i).rows = m.rows
           /\ UseGraph(m, i).selected = m.selected
BY DEF UseGraph, ListsOf

(* setVisible() *)
LEMMA ShownRow ==
    ASSUME NEW S, Closed(S), NEW m \in ListsOf(S), NEW i \in DOMAIN m.rows, NEW visible \in BOOLEAN
    PROVE  SetVisible(m, i, visible) \in ListsOf(S)
<1> DEFINE s == [m.rows[i] EXCEPT !.visible = visible]
           n == [m EXCEPT !.rows[i] = s]
           shown == ShowGraph(n, i)
<1>1. m.rows[i] \in S /\ m.rows[i] \in Signals /\ m \in ListsOf(Signals) /\ \A j \in DOMAIN m.rows : m.rows[j] \in S
  BY RowsOf, ListsOfSignals
<1>2. s \in Signals /\ s.data = m.rows[i].data /\ s.expression = m.rows[i].expression
  BY <1>1 DEF Signals
<1>3. [m EXCEPT !.rows[i].visible = visible] = n
  BY <1>1 DEF ListsOf
<1> HIDE DEF s
<1>4. s \in S
  BY <1>1, <1>2, StaysIn
<1>5. n \in ListsOf(S)
  BY <1>1, <1>4, OtherRow
<1> HIDE DEF n
<1>6. shown \in ListsOf(S)
  BY <1>5, GraphUsed DEF ShowGraph
<1>7. SetSelected(shown, 0) \in ListsOf(S)
  <2> HIDE DEF shown
  <2> QED BY <1>6 DEF SetSelected, ListsOf
<1>8. \/ SetVisible(m, i, visible) = m
      \/ SetVisible(m, i, visible) = shown
      \/ SetVisible(m, i, visible) = SetSelected(shown, 0)
  BY <1>3 DEF SetVisible
<1> QED BY <1>6, <1>7, <1>8

(* setActive() *)
LEMMA ActivatedRow ==
    ASSUME NEW S, Closed(S), NEW m \in ListsOf(S), NEW i \in DOMAIN m.rows
    PROVE  LET n == SetActive(m, i, ~m.rows[i].active) IN n \in ListsOf(S) /\ Level(n)
<1>1. /\ m.rows[i] \in S /\ m.rows[i] \in Signals /\ m \in ListsOf(Signals)
      /\ \A j \in DOMAIN m.rows : m.rows[j] \in S
  BY RowsOf, ListsOfSignals
<1>2. m.rows[i].active \in BOOLEAN
  BY <1>1, SignalFields
<1>3. CASE ~m.rows[i].active
  <2> DEFINE s == [m.rows[i] EXCEPT !.active = TRUE]
             n == [m EXCEPT !.rows[i] = s]
             shown == SetVisible(n, i, TRUE)
  <2>1. s \in Signals /\ s.data = m.rows[i].data /\ s.expression = m.rows[i].expression
    BY <1>1 DEF Signals
  <2>2. [m EXCEPT !.rows[i].active = TRUE] = n
    BY <1>1 DEF ListsOf
  <2> HIDE DEF s
  <2>3. s \in S
    BY <1>1, <2>1, StaysIn
  <2>4. n \in ListsOf(S) /\ DOMAIN n.rows = DOMAIN m.rows
    BY <1>1, <2>3, OtherRow
  <2>5. SetActive(m, i, TRUE) = UpdateGraphs(shown)
    BY <1>3, <2>2 DEF SetActive
  <2> HIDE DEF n
  <2>6. shown \in ListsOf(S)
    BY <2>4, ShownRow
  <2> HIDE DEF shown
  <2>7. UpdateGraphs(shown) \in ListsOf(S) /\ Level(UpdateGraphs(shown))
    BY <2>6, GraphsUpdated
  <2>8. (~m.rows[i].active) = TRUE
    BY <1>2, <1>3
  <2> QED BY <2>5, <2>7, <2>8
<1>4. CASE m.rows[i].active
  <2> DEFINE s == [m.rows[i] EXCEPT !.active = FALSE, !.data = << >>]
             n == [m EXCEPT !.rows[i] = s]
  <2>1. s \in Signals /\ s.data = << >>
    <3>1. << >> \in Seq(Samples) /\ m.rows[i] \in Signals
      BY <1>1
    <3> QED BY <3>1 DEF Signals
  <2>2. Deactivated(m, i) = n
    BY <1>1 DEF ListsOf, Deactivated
  <2> HIDE DEF s
  <2>3. s \in S
    BY <1>1, <2>1, StaysIn DEF NothingMeasured
  <2>4. n \in ListsOf(S)
    BY <1>1, <2>3, OtherRow
  <2>5. SetActive(m, i, FALSE) = UpdateGraphs(n)
    BY <1>4, <2>2 DEF SetActive
  <2> HIDE DEF n
  <2>6. UpdateGraphs(n) \in ListsOf(S) /\ Level(UpdateGraphs(n))
    BY <2>4, GraphsUpdated
  <2>7. (~m.rows[i].active) = FALSE
    BY <1>2, <1>4
  <2> QED BY <2>5, <2>6, <2>7
<1> QED BY <1>2, <1>3, <1>4

(* clear() *)
LEMMA ClearedList ==
    ASSUME NEW S, Closed(S), NEW m \in ListsOf(S), NEW T, Closed(T)
    PROVE  ClearList(m) \in ListsOf(T) /\ Level(ClearList(m))
<1> DEFINE none == << >>
<1>1. m \in ListsOf(Signals)
  BY ListsOfSignals
<1>2. none \in Seq(T)
  OBVIOUS
<1>3. CASE m.rows = none
  <2> HIDE DEF none
  <2>1. m = [m EXCEPT !.rows = none]
    BY <1>1, <1>3 DEF ListsOf
  <2>2. m \in ListsOf(T)
    BY <1>1, <1>2, <2>1, OtherRows
  <2>3. Level(m)
    BY <1>3 DEF Level, Active, none
  <2> QED BY <1>3, <2>2, <2>3 DEF ClearList, none
<1>4. CASE m.rows # none
  <2>1. ClearList(m) = UpdateGraphs(Reordered(m, none))
    BY <1>4 DEF ClearList, Reordered
  <2> HIDE DEF none
  <2>2. Reordered(m, none) \in ListsOf(T)
    BY <1>1, <1>2, OtherOrder
  <2> QED BY <2>1, <2>2, GraphsUpdated
<1> QED BY <1>3, <1>4

(* setExpression(), with the plot: nothing that was measured under the old *)
(* expression is left.                                                     *)
LEMMA ExpressionRow ==
    ASSUME NEW S, Closed(S), NEW m \in ListsOf(S), NEW i \in DOMAIN m.rows, NEW e \in Expressions,
           e # m.rows[i].expression, NEW devs
    PROVE  LET n == SetExpression(m, i, e, devs) IN n \in ListsOf(S) /\ (Level(m) => Level(n))
<1> DEFINE s == [m.rows[i] EXCEPT !.expression = e]
           renamed == [m EXCEPT !.rows[i] = s]
           used == UseGraph(renamed, i)
           data == IF Len(ActiveRows(renamed)) = 1 THEN << >> ELSE Blank(s.data)
           t == [s EXCEPT !.data = data]
           cleared == IF s.active THEN [used EXCEPT !.rows[i] = t] ELSE renamed
           n == CheckExpression(cleared, i, devs)
<1>1. /\ m.rows[i] \in S /\ m.rows[i] \in Signals /\ m \in ListsOf(Signals) /\ m.plotted
      /\ \A j \in DOMAIN m.rows : m.rows[j] \in S /\ m.rows[j] \in Signals
  BY RowsOf, ListsOfSignals
<1>2. /\ s \in Signals /\ s.data = m.rows[i].data /\ s.active = m.rows[i].active
      /\ s.data \in Seq(Samples) /\ (s.active \/ s.data = << >>)
  BY <1>1 DEF Signals
<1>3. [m EXCEPT !.rows[i].expression = e] = renamed
  BY <1>1 DEF ListsOf
<1> HIDE DEF s
<1>4. /\ renamed \in ListsOf(Signals) /\ DOMAIN renamed.rows = DOMAIN m.rows
      /\ \A j \in DOMAIN m.rows : renamed.rows[j] = IF j = i THEN s ELSE m.rows[j]
  BY <1>1, <1>2, SignalSets, OtherRow
<1> HIDE DEF renamed
<1>5. used \in ListsOf(Signals) /\ used.rows = renamed.rows
  BY <1>4, GraphUsed
<1>6. data \in Seq(Samples) /\ NothingMeasured(data)
  <2>1. << >> \in Seq(Samples) /\ NothingMeasured(<< >>)
    BY DEF NothingMeasured
  <2>2. Blank(s.data) \in Seq(Samples) /\ NothingMeasured(Blank(s.data))
    BY <1>2, BlankOf
  <2> QED BY <2>1, <2>2
<1>7. ASSUME s.active
      PROVE  t \in Signals /\ t.data = data /\ t.active = s.active
  <2> HIDE DEF data
  <2> QED BY <1>2, <1>6, <1>7 DEF Signals
<1>8. ClearGraph(renamed, i) = cleared
  <2>1. renamed.rows[i] = s /\ renamed.plotted
    BY <1>4 DEF ListsOf
  <2>2. CASE s.active
    <3>1. ClearGraph(renamed, i) =
            [used EXCEPT !.rows[i].data = IF Len(ActiveRows(renamed)) = 1 THEN << >> ELSE Blank(@)]
      BY <2>1, <2>2 DEF ClearGraph
    <3>2. used.rows[i] = s /\ i \in DOMAIN used.rows
      BY <1>4, <1>5, <2>1
    <3> HIDE DEF used
    <3> QED BY <1>5, <2>2, <3>1, <3>2 DEF ListsOf
  <2>3. CASE ~s.active
    BY <2>1, <2>3 DEF ClearGraph
  <2> QED BY <2>2, <2>3
<1>9. SetExpression(m, i, e, devs) = n
  BY <1>3, <1>8 DEF SetExpression
<1> HIDE DEF used, data, n
<1> DEFINE r == IF s.active THEN t ELSE s
<1>10. r \in S /\ r.active = s.active
  <2>1. CASE s.active
    <3> HIDE DEF t
    <3> QED BY <1>1, <1>6, <1>7, <2>1, StaysIn
  <2>2. CASE ~s.active
    <3>1. NothingMeasured(s.data)
      BY <1>2, <2>2 DEF NothingMeasured
    <3> QED BY <1>1, <1>2, <2>2, <3>1, StaysIn
  <2> QED BY <2>1, <2>2
<1>11. /\ cleared \in ListsOf(S) /\ DOMAIN cleared.rows = DOMAIN m.rows
       /\ \A j \in DOMAIN m.rows : cleared.rows[j] = IF j = i THEN r ELSE m.rows[j]
  <2>1. CASE s.active
    <3>1. r = t /\ cleared = [used EXCEPT !.rows[i] = t]
      BY <2>1
    <3>2. \A j \in DOMAIN used.rows : j # i => used.rows[j] \in S
      BY <1>1, <1>4, <1>5
    <3>3. i \in DOMAIN used.rows /\ t \in S
      BY <1>4, <1>5, <1>10, <3>1
    <3> HIDE DEF t, r, cleared
    <3> DEFINE c == [used EXCEPT !.rows[i] = t]
    <3>4. /\ c \in ListsOf(S) /\ DOMAIN c.rows = DOMAIN used.rows
          /\ \A j \in DOMAIN used.rows : c.rows[j] = IF j = i THEN t ELSE used.rows[j]
      BY <1>5, <3>2, <3>3, OtherRow
    <3> HIDE DEF c
    <3>5. cleared = c
      BY <3>1 DEF c
    <3> QED BY <1>4, <1>5, <3>1, <3>4, <3>5
  <2>2. CASE ~s.active
    <3>1. r = s /\ cleared = renamed /\ s \in S
      BY <1>10, <2>2
    <3> HIDE DEF cleared, r, t
    <3>2. renamed \in ListsOf(S)
      <4> DEFINE c == [m EXCEPT !.rows[i] = s]
      <4>1. c \in ListsOf(S)
        BY <1>1, <3>1, OtherRow
      <4> QED BY <4>1 DEF renamed
    <3> QED BY <1>4, <3>1, <3>2
  <2> QED BY <2>1, <2>2
<1> HIDE DEF r, t
<1>12. n = [cleared EXCEPT !.rows[i] = Checked(r, devs)]
  <2>1. cleared.rows[i] = r
    BY <1>11
  <2> HIDE DEF cleared
  <2> QED BY <1>11, <2>1 DEF n, CheckExpression, ListsOf
<1> HIDE DEF cleared
<1> DEFINE last == Checked(r, devs)
<1>13. last \in S /\ last.active = s.active /\ last.data = r.data
  BY <1>10, CheckedSignal
<1> HIDE DEF last
<1>14. /\ n \in ListsOf(S) /\ DOMAIN n.rows = DOMAIN m.rows
       /\ \A j \in DOMAIN m.rows : n.rows[j] = IF j = i THEN last ELSE m.rows[j]
  <2> DEFINE c == [cleared EXCEPT !.rows[i] = last]
  <2>1. cleared \in ListsOf(Signals) /\ \A j \in DOMAIN cleared.rows : cleared.rows[j] \in S
    BY <1>11, RowsOf, ListsOfSignals
  <2>2. /\ c \in ListsOf(S) /\ DOMAIN c.rows = DOMAIN cleared.rows
        /\ \A j \in DOMAIN cleared.rows : c.rows[j] = IF j = i THEN last ELSE cleared.rows[j]
    BY <1>11, <1>13, <2>1, OtherRow
  <2>3. n = c
    BY <1>12 DEF last
  <2> HIDE DEF c
  <2> QED BY <1>11, <2>2, <2>3
<1>15. ASSUME Level(m)
       PROVE  Level(n)
  <2>1. CASE ~s.active
    <3>1. \A j \in Active(n) : j \in Active(m) /\ n.rows[j] = m.rows[j]
      BY <1>13, <1>14, <2>1 DEF Active
    <3> QED BY <1>15, <3>1 DEF Level
  <2>2. CASE s.active /\ Len(ActiveRows(renamed)) # 1
    <3>1. t.data = data /\ data = Blank(s.data)
      BY <1>7, <2>2 DEF data
    <3>2. Len(last.data) = Len(m.rows[i].data)
      BY <1>2, <1>13, <2>2, <3>1, BlankOf DEF r
    <3>3. \A j \in Active(n) : j \in Active(m) /\ Len(n.rows[j].data) = Len(m.rows[j].data)
      BY <1>2, <1>13, <1>14, <3>2 DEF Active
    <3> QED BY <1>15, <3>3 DEF Level
  <2>3. CASE s.active /\ Len(ActiveRows(renamed)) = 1
    <3>1. \A j \in Active(renamed) : j = ActiveRows(renamed)[1]
      BY <1>4, <2>3, ActiveOnes
    <3>2. \A j \in Active(n) : j \in Active(renamed)
      BY <1>2, <1>4, <1>13, <1>14 DEF Active
    <3> QED BY <3>1, <3>2 DEF Level
  <2> QED BY <2>1, <2>2, <2>3
<1> QED BY <1>9, <1>14, <1>15

(* The lists with the same signals active, under the same ids and          *)
(* expressions.                                                            *)
SameSignals(m, n) ==
    /\ DOMAIN n.rows = DOMAIN m.rows
    /\ \A i \in DOMAIN m.rows : /\ n.rows[i].active = m.rows[i].active
                                /\ n.rows[i].id = m.rows[i].id
                                /\ n.rows[i].expression = m.rows[i].expression

(* They are found at the same rows. *)
LEMMA SameActiveOnes ==
    ASSUME NEW m \in ListsOf(Signals), NEW n \in ListsOf(Signals), SameSignals(m, n)
    PROVE  /\ Active(n) = Active(m) /\ ActiveRows(n) = ActiveRows(m)
           /\ ActiveIds(n) = ActiveIds(m) /\ ActiveExpressions(n) = ActiveExpressions(m)
<1>1. Active(n) = Active(m)
  BY DEF SameSignals, Active
<1>2. ActiveRows(n) = ActiveRows(m)
  BY <1>1 DEF ActiveRows
<1> DEFINE a == ActiveRows(m)
<1>3. \A k \in DOMAIN a : a[k] \in DOMAIN m.rows
  BY ActiveOnes
<1> HIDE DEF a
<1>4. [k \in DOMAIN a |-> m.rows[a[k]].id] = [k \in DOMAIN a |-> n.rows[a[k]].id]
  BY <1>3 DEF SameSignals
<1>5. [k \in DOMAIN a |-> m.rows[a[k]].expression] = [k \in DOMAIN a |-> n.rows[a[k]].expression]
  BY <1>3 DEF SameSignals
<1> QED BY <1>1, <1>2, <1>4, <1>5 DEF ActiveIds, ActiveExpressions, a

(* The series of a session are cleared together. *)
LEMMA ClearedSeries ==
    ASSUME NEW S, Closed(S), NEW m \in ListsOf(S)
    PROVE  LET n == SeriesCleared(m)
           IN  /\ n \in ListsOf(S) /\ Level(n) /\ SameSignals(m, n) /\ n.crashed = m.crashed
               /\ \A i \in DOMAIN n.rows : n.rows[i].data = << >>
<1> DEFINE row(i) == IF m.rows[i].active THEN [m.rows[i] EXCEPT !.data = << >>] ELSE m.rows[i]
           rows == [i \in DOMAIN m.rows |-> row(i)]
           n == SeriesCleared(m)
<1>1. /\ Len(m.rows) \in Nat /\ DOMAIN m.rows = 1 .. Len(m.rows) /\ m \in ListsOf(Signals)
      /\ \A i \in DOMAIN m.rows : m.rows[i] \in S /\ m.rows[i] \in Signals
  BY RowsOf, ListsOfSignals
<1>2. \A s \in Signals : /\ [s EXCEPT !.data = << >>].data = << >>
                         /\ s.active => [s EXCEPT !.data = << >>] \in Signals
                         /\ [s EXCEPT !.data = << >>].active = s.active
                         /\ [s EXCEPT !.data = << >>].id = s.id
                         /\ [s EXCEPT !.data = << >>].expression = s.expression
  <2>1. << >> \in Seq(Samples)
    OBVIOUS
  <2> QED BY <2>1 DEF Signals
<1>3. \A i \in DOMAIN m.rows :
        /\ row(i) \in S /\ row(i).data = << >>
        /\ row(i).active = m.rows[i].active /\ row(i).id = m.rows[i].id
        /\ row(i).expression = m.rows[i].expression
  <2> TAKE i \in DOMAIN m.rows
  <2> DEFINE s == m.rows[i]
             t == [s EXCEPT !.data = << >>]
  <2>1. s \in Signals /\ s \in S
    BY <1>1
  <2>2. CASE s.active
    <3>1. /\ t \in Signals /\ t.data = << >> /\ t.active = s.active /\ t.id = s.id
          /\ t.expression = s.expression /\ row(i) = t
      BY <1>2, <2>1, <2>2
    <3> HIDE DEF s, t, row
    <3>2. NothingMeasured(t.data)
      BY <3>1 DEF NothingMeasured
    <3>3. t \in S
      BY <2>1, <3>1, <3>2, StaysIn
    <3> QED BY <3>1, <3>3 DEF s
  <2>3. CASE ~s.active
    <3>1. s.data = << >> /\ row(i) = s
      BY <2>1, <2>3, SignalFields
    <3> QED BY <2>1, <3>1
  <2> QED BY <2>2, <2>3
<1> HIDE DEF row
<1>4. rows \in Seq(S) /\ Len(rows) = Len(m.rows) /\ SubSeq(rows, 1, Len(m.rows)) = rows
  BY <1>1, <1>3
<1>5. n = [m EXCEPT !.rows = rows]
  <2>1. n = [m EXCEPT !.rows = SubSeq(rows, 1, Len(m.rows))]
    BY DEF SeriesCleared, MapRows, row
  <2> QED BY <2>1, <1>4
<1>6. DOMAIN rows = DOMAIN m.rows /\ \A i \in DOMAIN m.rows : rows[i] = row(i)
  OBVIOUS
<1> HIDE DEF rows, n
<1>7. n \in ListsOf(S) /\ n.rows = rows /\ n.crashed = m.crashed
  BY <1>1, <1>4, <1>5, OtherRows
<1>8. SameSignals(m, n) /\ \A i \in DOMAIN n.rows : n.rows[i].data = << >>
  BY <1>3, <1>6, <1>7 DEF SameSignals
<1>9. Level(n)
  BY <1>8 DEF Level, Active
<1> QED BY <1>7, <1>8, <1>9 DEF n

-----------------------------------------------------------------------------
(* The points that are polled, and the parsers that look for them.         *)

PointLists == {found \in Seq(Points) : OnceIn(found)}

(* findOrAddDataPoint() keeps what was found, once.                        *)
LEMMA FoundOrAdded ==
    ASSUME NEW found \in PointLists, NEW p \in Points
    PROVE  LET more == FindOrAddDataPoint(found, p)
           IN  more \in PointLists /\ Range(found) \cup {p} \subseteq Range(more)
<1> DEFINE more == Append(found, p)
<1>1. found \in Seq(Points) /\ Len(found) \in Nat /\ DOMAIN found = 1 .. Len(found)
  BY DEF PointLists
<1>2. CASE p \in Range(found)
  BY <1>2 DEF FindOrAddDataPoint
<1>3. CASE p \notin Range(found)
  <2>1. /\ more \in Seq(Points) /\ DOMAIN more = 1 .. Len(found) + 1 /\ more[Len(found) + 1] = p
        /\ \A i \in 1 .. Len(found) : more[i] = found[i]
    BY <1>1
  <2> HIDE DEF more
  <2>2. \A i \in 1 .. Len(found) : found[i] # p
    BY <1>1, <1>3 DEF Range
  <2>3. \A i, j \in 1 .. Len(found) : found[i] = found[j] => i = j
    BY <1>1 DEF PointLists, OnceIn
  <2>4. ASSUME NEW i \in DOMAIN more, NEW j \in DOMAIN more, more[i] = more[j]
        PROVE  i = j
    <3>1. (i \in 1 .. Len(found) \/ i = Len(found) + 1) /\ (j \in 1 .. Len(found) \/ j = Len(found) + 1)
      BY <1>1, <2>1
    <3> QED BY <2>1, <2>2, <2>3, <2>4, <3>1
  <2>5. \A q \in Range(found) : q \in Range(more)
    BY <1>1, <2>1 DEF Range
  <2>6. p \in Range(more)
    BY <1>1, <2>1 DEF Range
  <2>7. FindOrAddDataPoint(found, p) = more
    BY <1>3 DEF FindOrAddDataPoint, more
  <2> QED BY <2>1, <2>4, <2>5, <2>6, <2>7 DEF PointLists, OnceIn
<1> QED BY <1>2, <1>3

(* The points of an expression. *)
LEMMA PointsRead ==
    ASSUME NEW e \in Expressions
    PROVE  /\ Reads[e] \in Seq(Points) /\ Len(Reads[e]) \in Nat /\ DOMAIN Reads[e] = 1 .. Len(Reads[e])
           /\ \A j \in DOMAIN Reads[e] : Reads[e][j] \in Points
<1>1. Reads[e] \in Seq(Points)
  BY SessionAssumption
<1> DEFINE s == Reads[e]
<1>2. s \in Seq(Points)
  BY <1>1
<1> HIDE DEF s
<1>3. Len(s) \in Nat /\ DOMAIN s = 1 .. Len(s) /\ \A j \in DOMAIN s : s[j] \in Points
  BY <1>2
<1> QED BY <1>2, <1>3 DEF s

(* processExpression() finds every point of the expression.                *)
LEMMA ProcessedExpression ==
    ASSUME NEW found \in PointLists, NEW e \in Expressions
    PROVE  LET more == ProcessExpression(found, e)
           IN  more \in PointLists /\ Range(found) \cup Range(Reads[e]) \subseteq Range(more)
<1> DEFINE n == Len(Reads[e])
           Turn(l, j) == FindOrAddDataPoint(l, Reads[e][j])
           upTo[j \in 0 .. n] == IF j = 0 THEN found ELSE Turn(upTo[j - 1], j)
           turn == [x \in PointLists \X (1 .. n) |-> Turn(x[1], x[2])]
           after == [j \in 0 .. n |-> {l \in PointLists : /\ Range(found) \subseteq Range(l)
                                                          /\ \A i \in 1 .. j : Reads[e][i] \in Range(l)}]
<1>1. ProcessExpression(found, e) = upTo[n]
  BY DEF ProcessExpression
<1>2. n \in Nat /\ DOMAIN Reads[e] = 1 .. n /\ \A j \in 1 .. n : Reads[e][j] \in Points
  BY PointsRead
<1> HIDE DEF n
<1>3. \A l \in PointLists, j \in 1 .. n :
        Turn(l, j) \in PointLists /\ Range(l) \cup {Reads[e][j]} \subseteq Range(Turn(l, j))
  BY <1>2, FoundOrAdded
<1> HIDE DEF Turn
<1>4. turn \in Turns(PointLists, n) /\ \A l \in PointLists, j \in 1 .. n : turn[<<l, j>>] = Turn(l, j)
  BY <1>3 DEF Turns
<1> HIDE DEF turn
<1>5. PICK g \in [0 .. n -> PointLists] :
        g[0] = found /\ \A j \in 1 .. n : g[j] = turn[<<g[j - 1], j>>]
  <2> HIDE DEF upTo, after
  <2>1. n \in Nat /\ found \in PointLists /\ turn \in Turns(PointLists, n)
    BY <1>2, <1>4
  <2> QED BY ONLY <2>1, LoopExists
<1>6. upTo = [j \in 0 .. n |-> IF j = 0 THEN found ELSE Turn(upTo[j - 1], j)]
  <2>1. \A j \in 0 .. n : g[j] = IF j = 0 THEN found ELSE Turn(g[j - 1], j)
    <3> TAKE j \in 0 .. n
    <3>1. j = 0 \/ (j \in 1 .. n /\ j - 1 \in 0 .. n)
      BY <1>2
    <3> QED BY <1>4, <1>5, <3>1
  <2>2. g = [j \in 0 .. n |-> IF j = 0 THEN found ELSE Turn(g[j - 1], j)]
    BY <1>5, <2>1
  <2> QED BY <2>2
<1> HIDE DEF upTo
<1>7. 0 \in 0 .. n /\ n \in 0 .. n /\ \A j \in 1 .. n : j \in 0 .. n /\ j - 1 \in 0 .. n /\ j # 0
  BY <1>2
<1>8. upTo[0] \in after[0]
  <2>1. upTo[0] = found
    BY <1>6, <1>7
  <2> QED BY <1>7, <2>1
<1>9. ASSUME NEW j \in 1 .. n, upTo[j - 1] \in after[j - 1]
      PROVE  upTo[j] \in after[j]
  <2>1. upTo[j] = Turn(upTo[j - 1], j)
    BY <1>6, <1>7
  <2>2. /\ upTo[j - 1] \in PointLists /\ Range(found) \subseteq Range(upTo[j - 1])
        /\ \A i \in 1 .. j - 1 : Reads[e][i] \in Range(upTo[j - 1])
    BY <1>7, <1>9
  <2>3. upTo[j] \in PointLists /\ Range(upTo[j - 1]) \cup {Reads[e][j]} \subseteq Range(upTo[j])
    BY <1>3, <2>1, <2>2
  <2>4. \A i \in 1 .. j : i = j \/ i \in 1 .. j - 1
    BY <1>2
  <2> QED BY <1>7, <2>2, <2>3, <2>4
<1> HIDE DEF after
<1>10. \A j \in 0 .. n : upTo[j] \in after[j]
  BY <1>2, <1>8, <1>9, LoopKeeps
<1>11. /\ upTo[n] \in PointLists /\ Range(found) \subseteq Range(upTo[n])
       /\ \A i \in 1 .. n : Reads[e][i] \in Range(upTo[n])
  BY <1>7, <1>10 DEF after
<1>12. Range(Reads[e]) \subseteq Range(upTo[n])
  BY <1>2, <1>11 DEF Range
<1> QED BY <1>1, <1>11, <1>12

(* parseExpressions() finds the points of all expressions.                 *)
LEMMA ParsedExpressions ==
    ASSUME NEW expressions, NEW n \in Nat, DOMAIN expressions = 1 .. n, Len(expressions) = n,
           \A k \in 1 .. n : expressions[k] \in Expressions
    PROVE  /\ DataPoints(expressions) \in PointLists
           /\ \A k \in 1 .. n : Range(Reads[expressions[k]]) \subseteq Range(DataPoints(expressions))
<1> DEFINE first == << >>
           Turn(l, k) == ProcessExpression(l, expressions[k])
           upTo[k \in 0 .. n] == IF k = 0 THEN first ELSE Turn(upTo[k - 1], k)
           turn == [x \in PointLists \X (1 .. n) |-> Turn(x[1], x[2])]
           after == [k \in 0 .. n |-> {l \in PointLists :
                        \A i \in 1 .. k : Range(Reads[expressions[i]]) \subseteq Range(l)}]
<1>1. DataPoints(expressions) = upTo[n]
  BY DEF DataPoints
<1>2. first \in PointLists
  BY DEF PointLists, OnceIn
<1>3. \A l \in PointLists, k \in 1 .. n :
        /\ Turn(l, k) \in PointLists
        /\ Range(l) \cup Range(Reads[expressions[k]]) \subseteq Range(Turn(l, k))
  BY ProcessedExpression
<1> HIDE DEF Turn, first
<1>4. turn \in Turns(PointLists, n) /\ \A l \in PointLists, k \in 1 .. n : turn[<<l, k>>] = Turn(l, k)
  BY <1>3 DEF Turns
<1> HIDE DEF turn
<1>5. PICK g \in [0 .. n -> PointLists] :
        g[0] = first /\ \A k \in 1 .. n : g[k] = turn[<<g[k - 1], k>>]
  <2> HIDE DEF upTo, after
  <2>1. turn \in Turns(PointLists, n)
    BY <1>4
  <2> QED BY ONLY n \in Nat, <1>2, <2>1, LoopExists
<1>6. upTo = [k \in 0 .. n |-> IF k = 0 THEN first ELSE Turn(upTo[k - 1], k)]
  <2>1. \A k \in 0 .. n : g[k] = IF k = 0 THEN first ELSE Turn(g[k - 1], k)
    <3> TAKE k \in 0 .. n
    <3>1. k = 0 \/ (k \in 1 .. n /\ k - 1 \in 0 .. n)
      OBVIOUS
    <3> QED BY <1>4, <1>5, <3>1
  <2>2. g = [k \in 0 .. n |-> IF k = 0 THEN first ELSE Turn(g[k - 1], k)]
    BY <1>5, <2>1
  <2> QED BY <2>2
<1> HIDE DEF upTo
<1>7. 0 \in 0 .. n /\ n \in 0 .. n /\ \A k \in 1 .. n : k \in 0 .. n /\ k - 1 \in 0 .. n /\ k # 0
  OBVIOUS
<1>8. upTo[0] \in after[0]
  <2>1. upTo[0] = first
    BY <1>6, <1>7
  <2> QED BY <1>2, <1>7, <2>1
<1>9. ASSUME NEW k \in 1 .. n, upTo[k - 1] \in after[k - 1]
      PROVE  upTo[k] \in after[k]
  <2>1. upTo[k] = Turn(upTo[k - 1], k)
    BY <1>6, <1>7
  <2>2. /\ upTo[k - 1] \in PointLists
        /\ \A i \in 1 .. k - 1 : Range(Reads[expressions[i]]) \subseteq Range(upTo[k - 1])
    BY <1>7, <1>9
  <2>3. /\ upTo[k] \in PointLists
        /\ Range(upTo[k - 1]) \cup Range(Reads[expressions[k]]) \subseteq Range(upTo[k])
    BY <1>3, <2>1, <2>2
  <2>4. \A i \in 1 .. k : i = k \/ i \in 1 .. k - 1
    OBVIOUS
  <2> QED BY <1>7, <2>2, <2>3, <2>4
<1> HIDE DEF after
<1>10. \A k \in 0 .. n : upTo[k] \in after[k]
  BY <1>8, <1>9, LoopKeeps
<1>11. /\ upTo[n] \in PointLists
       /\ \A i \in 1 .. n : Range(Reads[expressions[i]]) \subseteq Range(upTo[n])
  BY <1>7, <1>10 DEF after
<1> QED BY <1>1, <1>11

(* indexOf() finds a place of a value that is in the list.                 *)
LEMMA FoundAt ==
    ASSUME NEW s, NEW n \in Nat, DOMAIN s = 1 .. n, Len(s) = n, NEW v, NEW k \in 1 .. n, s[k] = v
    PROVE  IndexOf(v, s) \in 1 .. n /\ s[IndexOf(v, s)] = v
<1> DEFINE I == {i \in 1 .. Len(s) : s[i] = v}
<1>1. I \in SUBSET Nat /\ k \in I
  OBVIOUS
<1>2. IndexOf(v, s) = Min(I)
  BY <1>1 DEF SelectInSeq, IndexOf
<1>3. Min(I) \in I
  <2> HIDE DEF I
  <2> QED BY <1>1, MinIsLeast
<1> QED BY <1>2, <1>3

(* What indexOf() returns is a number, and the place of the value unless   *)
(* it is 0.                                                                *)
LEMMA IndexRange ==
    ASSUME NEW s, NEW n \in Nat, Len(s) = n, NEW v
    PROVE  IndexOf(v, s) = 0 \/ (IndexOf(v, s) \in 1 .. n /\ s[IndexOf(v, s)] = v)
<1> DEFINE I == {i \in 1 .. Len(s) : s[i] = v}
<1>1. IndexOf(v, s) = IF I # {} THEN Min(I) ELSE 0
  BY DEF SelectInSeq, IndexOf
<1>2. I \in SUBSET Nat
  OBVIOUS
<1>3. I # {} => Min(I) \in I
  <2> HIDE DEF I
  <2> QED BY <1>2, MinIsLeast
<1> QED BY <1>1, <1>3

(* A parser of e that finds the points of e in a list.                     *)
Parsers == [expression : Expressions, indices : Seq(Nat)]
ParserReads(parser, e, found) ==
    /\ parser.expression = e /\ DOMAIN parser.indices = DOMAIN Reads[e]
    /\ \A j \in DOMAIN Reads[e] :
          parser.indices[j] \in DOMAIN found /\ found[parser.indices[j]] = Reads[e][j]

(* The parser of an expression finds the points that are in the list.      *)
LEMMA ParserOf ==
    ASSUME NEW found \in PointLists, NEW e \in Expressions, Range(Reads[e]) \subseteq Range(found)
    PROVE  Parser(e, found) \in Parsers /\ ParserReads(Parser(e, found), e, found)
<1> DEFINE indices == [j \in DOMAIN Reads[e] |-> IndexOf(Reads[e][j], found)]
<1>1. Len(found) \in Nat /\ DOMAIN found = 1 .. Len(found)
  BY DEF PointLists
<1>2. ASSUME NEW j \in DOMAIN Reads[e]
      PROVE  indices[j] \in DOMAIN found /\ found[indices[j]] = Reads[e][j]
  <2>1. PICK k \in DOMAIN found : found[k] = Reads[e][j]
    BY DEF Range
  <2>2. IndexOf(Reads[e][j], found) \in DOMAIN found /\ found[IndexOf(Reads[e][j], found)] = Reads[e][j]
    BY <1>1, <2>1, FoundAt
  <2> QED BY <2>2
<1>3. DOMAIN indices = DOMAIN Reads[e] /\ DOMAIN Reads[e] = 1 .. Len(Reads[e]) /\ Len(Reads[e]) \in Nat
  BY PointsRead
<1>4. Parser(e, found) = [expression |-> e, indices |-> indices]
  BY DEF Parser
<1>5. indices \in Seq(Nat)
  <2> DEFINE n == Len(Reads[e])
  <2>1. indices = [j \in 1 .. n |-> indices[j]] /\ n \in Nat
    BY <1>3
  <2> HIDE DEF indices, n
  <2>2. \A j \in 1 .. n : indices[j] \in Nat
    BY <1>1, <1>2, <1>3 DEF n
  <2>3. indices \in [1 .. n -> Nat]
    BY <2>1, <2>2
  <2> QED BY <2>1, <2>3
<1> HIDE DEF indices
<1> QED BY <1>2, <1>3, <1>4, <1>5 DEF Parsers, ParserReads

-----------------------------------------------------------------------------
(* A poll: from the answers of the adapters to a sample of every signal.   *)

Readings ==
    {r \in [point : Points \cup {"none"}, at : 1 .. MaxCycles, quality : Qualities] :
        r.quality \in Usable => r.point \in Points}
Results == [value : Values, quality : Qualities]

(* The merge puts the answer for a point at the place of the point.        *)
LEMMA MergedReadings ==
    ASSUME points \in PointLists, NEW answered, NEW quality, NEW t, NEW i \in DOMAIN points
    PROVE  Merged(answered, quality, t)[i] =
              IF AdapterOf[points[i]] \in answered
              THEN Reading(points[i], t, quality[points[i]]) ELSE NoReading(t)
<1> DEFINE a == AdapterOf[points[i]]
           own == {j \in DOMAIN points : AdapterOf[points[j]] = a}
           n == Cardinality(own)
           o == OriginalIndices(a)
           results == GroupResults(a, answered, quality, t)
<1>1. Len(points) \in Nat /\ DOMAIN points = 1 .. Len(points)
  BY DEF PointLists
<1>2. own \in SUBSET (1 .. Len(points)) /\ i \in own
  BY <1>1
<1>3. o = Ascending(own)
  BY DEF OriginalIndices
<1> HIDE DEF own, o, n
<1>4. /\ n \in Nat /\ o \in [1 .. n -> own] /\ \E k \in 1 .. n : o[k] = i
  BY <1>1, <1>2, <1>3, AscendingOrder DEF n
<1>5. DOMAIN o = 1 .. n /\ Len(o) = n /\ n # 0
  BY <1>4
<1>6. Merged(answered, quality, t)[i] =
        IF Len(results) # Len(o) THEN NoReading(t) ELSE results[IndexOf(i, o)]
  BY DEF Merged, o
<1> HIDE DEF a
<1>7. CASE a \in answered
  <2>1. results = [j \in 1 .. n |-> Reading(points[o[j]], t, quality[points[o[j]]])]
    BY <1>5, <1>7 DEF GroupResults, o
  <2> HIDE DEF results
  <2>2. Len(results) = n
    BY <1>4, <2>1
  <2>3. IndexOf(i, o) \in 1 .. n /\ o[IndexOf(i, o)] = i
    BY <1>4, <1>5, FoundAt
  <2>4. results[IndexOf(i, o)] = Reading(points[i], t, quality[points[i]])
    BY <2>1, <2>3
  <2> QED BY <1>5, <1>6, <1>7, <2>2, <2>4 DEF a
<1>8. CASE a \notin answered
  <2>1. results = << >>
    BY <1>8 DEF GroupResults
  <2> HIDE DEF results
  <2>2. Len(results) = 0
    BY <2>1
  <2> QED BY <1>5, <1>6, <1>8, <2>2 DEF a
<1> QED BY <1>7, <1>8

(* No reading is a reading of no point. *)
LEMMA NoReadings ==
    ASSUME NEW t \in 1 .. MaxCycles
    PROVE  NoReading(t) \in Readings /\ NoReading(t).quality \notin Usable
BY DEF NoReading, Reading, Readings, Qualities, Usable

(* What is merged: readings of the points they are for, or of none.        *)
LEMMA MergedTyped ==
    ASSUME points \in PointLists, NEW answered, NEW quality \in [Range(points) -> PolledQualities],
           NEW t \in 1 .. MaxCycles
    PROVE  LET merged == Merged(answered, quality, t)
           IN  /\ DOMAIN merged = DOMAIN points
               /\ \A i \in DOMAIN merged :
                     /\ merged[i] \in Readings
                     /\ merged[i].quality \in Usable => merged[i].point = points[i] /\ merged[i].at = t
<1> DEFINE merged == Merged(answered, quality, t)
<1>1. DOMAIN merged = DOMAIN points
  BY DEF Merged
<1>2. ASSUME NEW i \in DOMAIN points
      PROVE  /\ merged[i] \in Readings
             /\ merged[i].quality \in Usable => merged[i].point = points[i] /\ merged[i].at = t
  <2> DEFINE r == Reading(points[i], t, quality[points[i]])
  <2>1. points[i] \in Points /\ points[i] \in Range(points)
    <3>1. points \in Seq(Points)
      BY DEF PointLists
    <3> QED BY <3>1 DEF Range
  <2>2. quality[points[i]] \in Qualities
    BY <2>1, SessionAssumption
  <2>3. r \in Readings /\ r.point = points[i] /\ r.at = t
    BY <2>1, <2>2 DEF Reading, Readings
  <2>4. merged[i] = r \/ merged[i] = NoReading(t)
    BY MergedReadings
  <2> HIDE DEF merged, r
  <2> QED BY <2>3, <2>4, NoReadings
<1> QED BY <1>1, <1>2

(* What an expression is evaluated to is a value of readings; a usable one *)
(* is the value of the points of the expression, when the parser finds     *)
(* them where the results are.                                             *)
LEMMA Evaluated ==
    ASSUME NEW parser \in Parsers, NEW results, NEW t \in 1 .. MaxCycles,
           \A i \in DOMAIN results : results[i] \in Readings
    PROVE  LET r == Evaluate(parser, results, t)
           IN  /\ r \in Results
               /\ r.quality \in Usable =>
                     /\ \A j \in DOMAIN parser.indices :
                           parser.indices[j] \in DOMAIN results =>
                              results[parser.indices[j]].quality \in Usable
                     /\ (\A j \in DOMAIN parser.indices : parser.indices[j] \in DOMAIN results) =>
                           r.value = [j \in DOMAIN parser.indices |->
                                        <<results[parser.indices[j]].point, results[parser.indices[j]].at>>]
<1> DEFINE Input(i) == IF i \in DOMAIN results THEN results[i] ELSE NoReading(t)
           inputs == [j \in DOMAIN parser.indices |-> Input(parser.indices[j])]
           qualities == {inputs[j].quality : j \in DOMAIN inputs}
           value == [j \in DOMAIN inputs |-> <<inputs[j].point, inputs[j].at>>]
           r == Evaluate(parser, results, t)
<1>1. \A i : Input(i) \in Readings
  BY NoReadings
<1>2. \/ /\ qualities \subseteq Usable
         /\ \E q \in Usable : r = [value |-> value, quality |-> q]
      \/ \E q \in Qualities \ Usable : r = [value |-> Zero, quality |-> q]
  BY DEF Evaluate, Usable, Qualities
<1>3. parser.indices \in Seq(Nat)
  BY DEF Parsers
<1> DEFINE n == Len(parser.indices)
<1>4. n \in Nat /\ DOMAIN parser.indices = 1 .. n /\ DOMAIN inputs = 1 .. n
  BY <1>3
<1>5. \A j \in 1 .. n : inputs[j] = Input(parser.indices[j]) /\ inputs[j] \in Readings
  BY <1>1, <1>4
<1>6. \A reading \in Readings : reading.quality \in Usable =>
          reading.point \in Points /\ reading.at \in 1 .. MaxCycles
  BY DEF Readings
<1>7. value = [j \in 1 .. n |-> <<inputs[j].point, inputs[j].at>>]
  BY <1>4
<1> HIDE DEF Input, inputs, r, n, value
<1>8. qualities \subseteq Usable => \A j \in 1 .. n : inputs[j].quality \in Usable
  BY <1>4
<1> HIDE DEF qualities
<1>9. qualities \subseteq Usable => value \in Values
  <2> SUFFICES ASSUME qualities \subseteq Usable PROVE value \in Values
    OBVIOUS
  <2> DEFINE Pairs == Points \X (1 .. MaxCycles)
  <2>1. \A j \in 1 .. n : <<inputs[j].point, inputs[j].at>> \in Pairs
    BY <1>5, <1>6, <1>8
  <2> HIDE DEF Pairs
  <2>2. value \in Seq(Pairs)
    BY <1>4, <1>7, <2>1
  <2> QED BY <2>2 DEF Values, Pairs
<1>10. Zero \in Values /\ Usable \subseteq Qualities
  BY DEF Zero, Values, Usable, Qualities
<1>11. r \in Results
  BY <1>2, <1>9, <1>10 DEF Results
<1>12. ASSUME r.quality \in Usable
       PROVE  qualities \subseteq Usable /\ r.value = value
  BY <1>2, <1>12
<1>13. ASSUME r.quality \in Usable, NEW j \in DOMAIN parser.indices, parser.indices[j] \in DOMAIN results
       PROVE  results[parser.indices[j]].quality \in Usable
  BY <1>4, <1>5, <1>8, <1>12, <1>13 DEF Input
<1>14. ASSUME r.quality \in Usable, \A j \in DOMAIN parser.indices : parser.indices[j] \in DOMAIN results
       PROVE  r.value = [j \in DOMAIN parser.indices |->
                            <<results[parser.indices[j]].point, results[parser.indices[j]].at>>]
  <2>1. \A j \in 1 .. n : inputs[j] = results[parser.indices[j]]
    BY <1>4, <1>5, <1>14 DEF Input
  <2> QED BY <1>4, <1>7, <1>12, <1>14, <2>1
<1> QED BY <1>11, <1>13, <1>14 DEF r

(* A usable result of a parser that finds the points of e is their value.  *)
LEMMA EvaluatedOwn ==
    ASSUME points \in PointLists, NEW answered, NEW quality \in [Range(points) -> PolledQualities],
           NEW t \in 1 .. MaxCycles, NEW e \in Expressions, NEW parser \in Parsers,
           ParserReads(parser, e, points)
    PROVE  LET r == Evaluate(parser, Merged(answered, quality, t), t)
           IN  r.quality \in Usable => r.value = [j \in DOMAIN Reads[e] |-> <<Reads[e][j], t>>]
<1> DEFINE merged == Merged(answered, quality, t)
           r == Evaluate(parser, merged, t)
           indices == parser.indices
<1>1. /\ DOMAIN merged = DOMAIN points
      /\ \A i \in DOMAIN merged :
            /\ merged[i] \in Readings
            /\ merged[i].quality \in Usable => merged[i].point = points[i] /\ merged[i].at = t
  BY MergedTyped
<1>2. /\ DOMAIN indices = DOMAIN Reads[e]
      /\ \A j \in DOMAIN indices : indices[j] \in DOMAIN merged /\ points[indices[j]] = Reads[e][j]
  BY <1>1 DEF ParserReads
<1> HIDE DEF merged
<1>3. r.quality \in Usable =>
        /\ \A j \in DOMAIN indices :
              indices[j] \in DOMAIN merged => merged[indices[j]].quality \in Usable
        /\ (\A j \in DOMAIN indices : indices[j] \in DOMAIN merged) =>
              r.value = [j \in DOMAIN indices |-> <<merged[indices[j]].point, merged[indices[j]].at>>]
  BY <1>1, Evaluated
<1> HIDE DEF r, indices
<1>4. ASSUME r.quality \in Usable
      PROVE  r.value = [j \in DOMAIN Reads[e] |-> <<Reads[e][j], t>>]
  <2>1. \A j \in DOMAIN indices : merged[indices[j]].point = Reads[e][j] /\ merged[indices[j]].at = t
    BY <1>1, <1>2, <1>3, <1>4
  <2>2. r.value = [j \in DOMAIN indices |-> <<merged[indices[j]].point, merged[indices[j]].at>>]
    BY <1>2, <1>3, <1>4
  <2> QED BY <1>2, <2>1, <2>2
<1> QED BY <1>4 DEF merged, r

(* A sample more: with the value of the result or the last one. *)
LEMMA SampledSignal ==
    ASSUME NEW s \in Signals, s.active, NEW result \in Results, NEW t \in 1 .. MaxCycles
    PROVE  LET n == WithSample(s, result, t)
               sample == n.data[Len(s.data) + 1]
           IN  /\ n \in Signals /\ n.active /\ n.id = s.id /\ n.expression = s.expression
               /\ Len(n.data) = Len(s.data) + 1
               /\ \A k \in DOMAIN s.data : n.data[k] = s.data[k]
               /\ sample.at = t /\ sample.quality = result.quality
               /\ sample \in Samples
               /\ result.quality \in Usable => sample.value = result.value
<1> DEFINE value == IF result.quality \in Usable THEN result.value ELSE LastValue(s.data)
           sample == SampleOf(t, value, result.quality)
           data == Append(s.data, sample)
           n == WithSample(s, result, t)
<1>1. s.data \in Seq(Samples) /\ Len(s.data) \in Nat /\ DOMAIN s.data = 1 .. Len(s.data)
  BY SignalFields
<1>2. LastValue(s.data) \in Values
  <2>1. Zero \in Values /\ \A x \in Samples : x.value \in Values
    BY DEF Zero, Values, Samples
  <2>2. s.data # << >> => s.data[Len(s.data)] \in Samples
    BY <1>1
  <2> QED BY <2>1, <2>2 DEF LastValue
<1>3. value \in Values
  BY <1>2 DEF Results
<1> HIDE DEF value
<1>4. /\ sample \in Samples /\ sample.at = t /\ sample.quality = result.quality
      /\ sample.value = value
  BY <1>3 DEF SampleOf, Samples, Results
<1> HIDE DEF sample
<1>5. /\ data \in Seq(Samples) /\ Len(data) = Len(s.data) + 1 /\ data[Len(s.data) + 1] = sample
      /\ \A k \in DOMAIN s.data : data[k] = s.data[k]
  BY <1>1, <1>4
<1>6. n = [s EXCEPT !.data = data]
  BY DEF WithSample, sample, value, Signals
<1> HIDE DEF data, n
<1>7. n \in Signals /\ n.active /\ n.id = s.id /\ n.expression = s.expression /\ n.data = data
  BY <1>5, <1>6 DEF Signals
<1> QED BY <1>4, <1>5, <1>7 DEF n, value

(* plotResults(): every signal of a result gets its sample. *)
LEMMA PlottedRows ==
    ASSUME NEW m \in ListsOf(Signals), NEW results \in Seq(Results), NEW t \in 1 .. MaxCycles
    PROVE  LET n == Plotted(m, results, t)
           IN  /\ n \in ListsOf(Signals)
               /\ Len(results) <= Len(ActiveRows(m)) => n.crashed = m.crashed
               /\ ~n.crashed =>
                    /\ Len(results) <= Len(ActiveRows(m)) /\ SameSignals(m, n) /\ ~m.crashed
                    /\ \A k \in DOMAIN results :
                          n.rows[ActiveRows(m)[k]] = WithSample(m.rows[ActiveRows(m)[k]], results[k], t)
                    /\ \A i \in DOMAIN m.rows : i \notin Active(m) => n.rows[i] = m.rows[i]
<1> DEFINE a == ActiveRows(m)
           row(i) == IF ActiveIdxOf(m, i) \in DOMAIN results
                     THEN WithSample(m.rows[i], results[ActiveIdxOf(m, i)], t) ELSE m.rows[i]
           rows == [i \in DOMAIN m.rows |-> row(i)]
           n == Plotted(m, results, t)
<1>1. /\ Len(m.rows) \in Nat /\ DOMAIN m.rows = 1 .. Len(m.rows) /\ m.crashed \in BOOLEAN
      /\ \A i \in DOMAIN m.rows : m.rows[i] \in Signals
  BY RowsOf, SignalSets
<1>2. /\ Len(results) \in Nat /\ DOMAIN results = 1 .. Len(results)
      /\ \A k \in DOMAIN results : results[k] \in Results
  OBVIOUS
<1>3. /\ Len(a) \in Nat /\ DOMAIN a = 1 .. Len(a)
      /\ \A k \in DOMAIN a : a[k] \in DOMAIN m.rows /\ m.rows[a[k]].active
      /\ \A k, l \in DOMAIN a : a[k] = a[l] => k = l
  BY ActiveOnes
<1>4. \A i : ActiveIdxOf(m, i) = IndexOf(i, a)
  BY DEF ActiveIdxOf, IndexOf
<1>5. CASE Len(results) > Len(a)
  <2>1. n = [m EXCEPT !.crashed = TRUE]
    BY <1>5 DEF Plotted
  <2> HIDE DEF n
  <2>2. n \in ListsOf(Signals) /\ n.crashed
    BY <2>1 DEF ListsOf
  <2>3. ~(Len(results) <= Len(a))
    <3> HIDE DEF a
    <3> QED BY <1>2, <1>3, <1>5
  <2> QED BY <2>2, <2>3 DEF n
<1>6. CASE ~(Len(results) > Len(a))
  <2>1. n = [m EXCEPT !.rows = SubSeq(rows, 1, Len(m.rows))]
    BY <1>6 DEF Plotted
  <2> HIDE DEF a
  <2>2. \A i \in DOMAIN m.rows :
          /\ row(i) \in Signals /\ row(i).active = m.rows[i].active /\ row(i).id = m.rows[i].id
          /\ row(i).expression = m.rows[i].expression
    <3> TAKE i \in DOMAIN m.rows
    <3>1. CASE ActiveIdxOf(m, i) \in DOMAIN results
      <4>1. ActiveIdxOf(m, i) \in DOMAIN a /\ a[ActiveIdxOf(m, i)] = i
        BY <1>2, <1>3, <1>4, <1>6, <3>1, IndexRange
      <4>2. m.rows[i].active = TRUE /\ results[ActiveIdxOf(m, i)] \in Results /\ m.rows[i] \in Signals
        BY <1>1, <1>2, <1>3, <3>1, <4>1, SignalFields
      <4> DEFINE w == WithSample(m.rows[i], results[ActiveIdxOf(m, i)], t)
      <4>3. /\ w \in Signals /\ w.active /\ w.id = m.rows[i].id
            /\ w.expression = m.rows[i].expression
        BY <4>2, SampledSignal
      <4>4. row(i) = w
        BY <3>1
      <4> HIDE DEF w, row
      <4>5. w.active = TRUE
        BY <4>3, SignalFields
      <4> QED BY <4>2, <4>3, <4>4, <4>5
    <3>2. CASE ActiveIdxOf(m, i) \notin DOMAIN results
      BY <1>1, <3>2
    <3> QED BY <3>1, <3>2
  <2>3. ASSUME NEW k \in DOMAIN results
        PROVE  row(a[k]) = WithSample(m.rows[a[k]], results[k], t) /\ a[k] \in DOMAIN m.rows
    <3>1. k \in 1 .. Len(a)
      BY <1>2, <1>3, <1>6
    <3>2. IndexOf(a[k], a) \in 1 .. Len(a) /\ a[IndexOf(a[k], a)] = a[k]
      BY <1>3, <3>1, FoundAt
    <3>3. IndexOf(a[k], a) = k
      BY <1>3, <3>1, <3>2
    <3> QED BY <1>3, <1>4, <3>1, <3>3
  <2>4. ASSUME NEW i \in DOMAIN m.rows, i \notin Active(m)
        PROVE  row(i) = m.rows[i]
    <3>1. ActiveIdxOf(m, i) \notin DOMAIN a
      BY <1>3, <1>4, <2>4, IndexRange DEF Active
    <3>2. ActiveIdxOf(m, i) \notin DOMAIN results
      BY <1>2, <1>3, <1>6, <3>1
    <3> QED BY <3>2
  <2> HIDE DEF row
  <2>5. rows \in Seq(Signals) /\ Len(rows) = Len(m.rows) /\ SubSeq(rows, 1, Len(m.rows)) = rows
    BY <1>1, <2>2
  <2>6. DOMAIN rows = DOMAIN m.rows /\ \A i \in DOMAIN m.rows : rows[i] = row(i)
    OBVIOUS
  <2> HIDE DEF rows, n
  <2>7. n \in ListsOf(Signals) /\ n.rows = rows /\ n.crashed = m.crashed
    <3>1. n = [m EXCEPT !.rows = rows]
      BY <2>1, <2>5
    <3> QED BY <2>5, <3>1, OtherRows
  <2>8. SameSignals(m, n)
    BY <2>2, <2>6, <2>7 DEF SameSignals
  <2>9. Len(results) <= Len(a)
    BY <1>2, <1>3, <1>6
  <2> QED BY <2>3, <2>4, <2>6, <2>7, <2>8, <2>9 DEF n, a
<1> QED BY <1>5, <1>6

(* The session polls the signals it was started with: the parsers are      *)
(* those of the active signals, in their order.                            *)
ParsersFit(m, all) ==
    /\ DOMAIN parsers = DOMAIN ActiveRows(m)
    /\ \A k \in DOMAIN parsers : ParserReads(parsers[k], ActiveExpressions(m)[k], all)

(* The results of a poll. *)
Evaluations(answered, quality, t) ==
    [k \in DOMAIN parsers |-> Evaluate(parsers[k], Merged(answered, quality, t), t)]

(* They are results, one per parser. *)
LEMMA EvaluationsTyped ==
    ASSUME points \in PointLists, parsers \in Seq(Parsers), NEW answered,
           NEW quality \in [Range(points) -> PolledQualities], NEW t \in 1 .. MaxCycles
    PROVE  LET results == Evaluations(answered, quality, t)
           IN  /\ results \in Seq(Results) /\ Len(results) = Len(parsers)
               /\ DOMAIN results = DOMAIN parsers
<1> DEFINE merged == Merged(answered, quality, t)
           results == [k \in DOMAIN parsers |-> Evaluate(parsers[k], merged, t)]
<1>1. \A i \in DOMAIN merged : merged[i] \in Readings
  BY MergedTyped
<1>2. /\ Len(parsers) \in Nat /\ DOMAIN parsers = 1 .. Len(parsers)
      /\ \A k \in DOMAIN parsers : parsers[k] \in Parsers
  OBVIOUS
<1> HIDE DEF merged
<1>3. \A k \in DOMAIN parsers : Evaluate(parsers[k], merged, t) \in Results
  BY <1>1, <1>2, Evaluated
<1>4. results \in Seq(Results) /\ Len(results) = Len(parsers) /\ DOMAIN results = DOMAIN parsers
  BY <1>2, <1>3
<1> QED BY <1>4 DEF Evaluations, merged

(* In the session they are the values of the signals' own points, and the  *)
(* series stay level.                                                      *)
LEMMA PlottedInSession ==
    ASSUME points \in PointLists, parsers \in Seq(Parsers), NEW answered,
           NEW quality \in [Range(points) -> PolledQualities], NEW t \in 1 .. MaxCycles,
           NEW m \in ListsOf(OwnSignals), Level(m), ParsersFit(m, points), ~m.crashed
    PROVE  LET results == Evaluations(answered, quality, t)
               n == Plotted(m, results, t)
           IN  n \in ListsOf(OwnSignals) /\ Level(n)
<1> DEFINE results == Evaluations(answered, quality, t)
           n == Plotted(m, results, t)
           a == ActiveRows(m)
<1>1. /\ m \in ListsOf(Signals) /\ \A i \in DOMAIN m.rows : m.rows[i] \in OwnSignals /\ m.rows[i] \in Signals
      /\ Len(m.rows) \in Nat /\ DOMAIN m.rows = 1 .. Len(m.rows)
  BY SignalSets, RowsOf, ListsOfSignals
<1>2. results \in Seq(Results) /\ DOMAIN results = DOMAIN a
  BY EvaluationsTyped DEF ParsersFit
<1>3. ASSUME NEW k \in DOMAIN a
      PROVE  /\ results[k] \in Results
             /\ results[k].quality \in Usable =>
                   results[k].value = [j \in DOMAIN Reads[m.rows[a[k]].expression] |->
                                         <<Reads[m.rows[a[k]].expression][j], t>>]
  <2>1. /\ k \in DOMAIN parsers /\ parsers[k] \in Parsers
        /\ ParserReads(parsers[k], m.rows[a[k]].expression, points)
    BY <1>3 DEF ParsersFit, ActiveExpressions
  <2>2. m.rows[a[k]].expression \in Expressions
    BY <1>1, ActiveOnes, SignalFields
  <2>3. results[k] = Evaluate(parsers[k], Merged(answered, quality, t), t)
    BY <2>1 DEF Evaluations
  <2>4. results[k] \in Results
    BY <1>2
  <2> HIDE DEF results, a
  <2> QED BY <2>1, <2>2, <2>3, <2>4, EvaluatedOwn
<1> HIDE DEF results
<1>4. n \in ListsOf(Signals)
  BY <1>1, <1>2, PlottedRows
<1>5. ~n.crashed
  <2>1. Len(a) \in Nat /\ DOMAIN a = 1 .. Len(a) /\ Len(results) = Len(parsers)
        /\ Len(parsers) \in Nat /\ DOMAIN parsers = 1 .. Len(parsers)
    BY <1>1, ActiveOnes, EvaluationsTyped DEF results
  <2>2. Len(results) <= Len(a)
    BY <2>1 DEF ParsersFit
  <2>3. n.crashed = m.crashed
    BY <1>1, <1>2, <2>2, PlottedRows
  <2> QED BY <2>3
<1>6. /\ SameSignals(m, n)
      /\ \A k \in DOMAIN results : n.rows[a[k]] = WithSample(m.rows[a[k]], results[k], t)
      /\ \A i \in DOMAIN m.rows : i \notin Active(m) => n.rows[i] = m.rows[i]
  BY <1>1, <1>2, <1>5, PlottedRows
<1>7. Active(n) = Active(m)
  BY <1>6 DEF SameSignals, Active
<1> HIDE DEF n
<1>8. ASSUME NEW i \in Active(m)
      PROVE  n.rows[i] \in OwnSignals /\ Len(n.rows[i].data) = Len(m.rows[i].data) + 1
  <2>1. PICK k \in DOMAIN a : a[k] = i
    BY <1>1, ActiveOnes
  <2> DEFINE s == m.rows[i]
             w == WithSample(s, results[k], t)
             e == s.expression
  <2>2. s \in Signals /\ s \in OwnSignals /\ s.active
    BY <1>1, <1>8 DEF Active
  <2>3. /\ results[k] \in Results
        /\ results[k].quality \in Usable => results[k].value = [j \in DOMAIN Reads[e] |-> <<Reads[e][j], t>>]
    BY <1>3, <2>1
  <2>4. n.rows[i] = w
    BY <1>2, <1>6, <2>1
  <2> HIDE DEF s, a
  <2>5. /\ w \in Signals /\ w.expression = e /\ Len(w.data) = Len(s.data) + 1
        /\ \A l \in DOMAIN s.data : w.data[l] = s.data[l]
        /\ LET sample == w.data[Len(s.data) + 1]
           IN  /\ sample.at = t /\ sample.quality = results[k].quality
               /\ results[k].quality \in Usable => sample.value = results[k].value
    BY <2>2, <2>3, SampledSignal
  <2> HIDE DEF w
  <2>6. ASSUME NEW l \in DOMAIN w.data, w.data[l].quality \in Usable
        PROVE  IsOwn(w.data[l], e)
    <3>1. Len(s.data) \in Nat /\ DOMAIN s.data = 1 .. Len(s.data) /\ DOMAIN w.data = 1 .. Len(s.data) + 1
      <4>1. s.data \in Seq(Samples) /\ w.data \in Seq(Samples)
        BY <2>2, <2>5, SignalFields
      <4> QED BY <2>5, <4>1
    <3>2. CASE l \in DOMAIN s.data
      <4>1. w.data[l] = s.data[l] /\ Own(s)
        BY <2>2, <2>5, <3>2 DEF OwnSignals
      <4> QED BY <2>6, <3>2, <4>1 DEF Own
    <3>3. CASE l = Len(s.data) + 1
      BY <2>3, <2>5, <2>6, <3>3 DEF IsOwn
    <3> QED BY <3>1, <3>2, <3>3
  <2>7. Own(w)
    BY <2>5, <2>6 DEF Own
  <2> QED BY <2>4, <2>5, <2>7 DEF OwnSignals, s
<1>9. \A i \in DOMAIN m.rows : n.rows[i] \in OwnSignals
  BY <1>1, <1>6, <1>8
<1>10. n \in ListsOf(OwnSignals)
  <2>1. n.rows \in Seq(Signals) /\ DOMAIN n.rows = 1 .. Len(m.rows)
    BY <1>1, <1>4, <1>6 DEF ListsOf, SameSignals
  <2> DEFINE rows == n.rows
  <2>2. rows \in Seq(Signals) /\ \A i \in DOMAIN rows : rows[i] \in OwnSignals
    BY <1>1, <1>9, <2>1
  <2> HIDE DEF rows
  <2>3. rows \in Seq(OwnSignals)
    BY <2>2
  <2> QED BY <1>4, <2>3 DEF ListsOf, rows
<1>11. Level(n)
  <2>1. \A i \in Active(m) : Len(m.rows[i].data) \in Nat
    BY <1>1, SignalFields DEF Active
  <2> QED BY <1>7, <1>8, <2>1 DEF Level
<1> QED BY <1>10, <1>11 DEF n, results

-----------------------------------------------------------------------------
(* The log file: what is written and what waits to be written together are *)
(* the series of the list.                                                 *)

Lines == [at : 1 .. MaxCycles, cells : Seq(Values \X Qualities)]
Files == [columns : Seq(Nat), rows : Seq(Lines)]
Logs == [writing : BOOLEAN, buffer : Seq(Lines), file : Files, behind : BOOLEAN]

Shows(l, m) ==
    ~l.behind => l.file.columns = ActiveIds(m) /\ l.file.rows \o l.buffer = ExportedRows(m)
Kept(l, m) == Shows(l, m) /\ (~l.writing => l.buffer = << >>)

(* The lines of level series. *)
LEMMA RowsExported ==
    ASSUME NEW m \in ListsOf(Signals), Level(m)
    PROVE  /\ ExportedRows(m) \in Seq(Lines)
           /\ ActiveRows(m) # << >> =>
                 /\ SeriesLength(m) \in Nat
                 /\ ExportedRows(m) = [k \in 1 .. SeriesLength(m) |-> Row(m, k)]
                 /\ \A i \in Active(m) : Len(m.rows[i].data) = SeriesLength(m)
<1> DEFINE a == ActiveRows(m)
           n == SeriesLength(m)
<1>1. /\ Len(a) \in Nat /\ DOMAIN a = 1 .. Len(a)
      /\ \A k \in DOMAIN a : a[k] \in Active(m) /\ m.rows[a[k]] \in Signals
  <2>1. \A i \in DOMAIN m.rows : m.rows[i] \in Signals
    BY RowsOf, SignalSets
  <2>2. /\ Len(a) \in Nat /\ DOMAIN a = 1 .. Len(a)
        /\ \A k \in DOMAIN a : a[k] \in DOMAIN m.rows /\ m.rows[a[k]].active
    BY ONLY m \in ListsOf(Signals), ActiveOnes
  <2> HIDE DEF a
  <2> QED BY ONLY <2>1, <2>2 DEF Active
<1>2. CASE a = << >>
  <2>1. ExportedRows(m) = << >>
    BY <1>2 DEF ExportedRows
  <2> QED BY <1>2, <2>1
<1>3. CASE a # << >>
  <2>1. 1 \in DOMAIN a
    <3>1. PICK c \in Nat : a \in [1 .. c -> Active(m)]
      BY ONLY m \in ListsOf(Signals), ActiveOnes
    <3> HIDE DEF a
    <3> QED BY ONLY <1>1, <1>3, <3>1
  <2>2. n = Len(m.rows[a[1]].data) /\ n \in Nat
    BY <1>1, <2>1, SignalFields DEF SeriesLength
  <2>3. \A i \in Active(m) : Len(m.rows[i].data) = n
    BY <1>1, <2>1, <2>2 DEF Level
  <2>4. ExportedRows(m) = [k \in 1 .. n |-> Row(m, k)]
    BY <1>3 DEF ExportedRows
  <2> HIDE DEF n
  <2>5. ASSUME NEW k \in 1 .. n
        PROVE  Row(m, k) \in Lines
    <3> DEFINE cells == [d \in DOMAIN a |-> Cell(m.rows[a[d]].data[k])]
               Cells == Values \X Qualities
    <3>1. \A d \in DOMAIN a : m.rows[a[d]].data[k] \in Samples
      <4> TAKE d \in DOMAIN a
      <4>1. m.rows[a[d]].data \in Seq(Samples) /\ Len(m.rows[a[d]].data) = n
        BY <1>1, <2>3, SignalFields
      <4> DEFINE data == m.rows[a[d]].data
      <4>2. data \in Seq(Samples) /\ Len(data) = n
        BY <4>1
      <4> HIDE DEF data
      <4>3. data[k] \in Samples
        BY <4>2
      <4> QED BY <4>3 DEF data
    <3>2. \A sample \in Samples : Cell(sample) \in Cells /\ sample.at \in 1 .. MaxCycles
      BY DEF Samples, Cell
    <3>3. \A d \in DOMAIN a : cells[d] \in Cells
      BY <3>1, <3>2
    <3>4. cells \in Seq(Cells)
      <4>1. cells = [d \in 1 .. Len(a) |-> cells[d]]
        BY <1>1
      <4> HIDE DEF cells, Cells, a
      <4>2. \A d \in 1 .. Len(a) : cells[d] \in Cells
        BY <1>1, <3>3
      <4>3. Len(a) \in Nat
        BY <1>1
      <4>4. cells \in [1 .. Len(a) -> Cells]
        BY ONLY <4>1, <4>2
      <4> QED BY ONLY <4>3, <4>4
    <3>5. m.rows[a[1]].data[k].at \in 1 .. MaxCycles
      BY <2>1, <3>1, <3>2
    <3>6. Row(m, k) = [at |-> m.rows[a[1]].data[k].at, cells |-> cells]
      BY DEF Row
    <3>7. Lines = [at : 1 .. MaxCycles, cells : Seq(Cells)]
      BY DEF Lines
    <3> DEFINE time == m.rows[a[1]].data[k].at
    <3>8. time \in 1 .. MaxCycles /\ Row(m, k) = [at |-> time, cells |-> cells]
      BY <3>5, <3>6
    <3> HIDE DEF cells, Cells, time
    <3> QED BY ONLY <3>4, <3>7, <3>8
  <2>6. ExportedRows(m) \in Seq(Lines)
    <3> DEFINE line(k) == Row(m, k)
    <3>1. ExportedRows(m) = [k \in 1 .. n |-> line(k)] /\ \A k \in 1 .. n : line(k) \in Lines
      BY <2>4, <2>5
    <3> HIDE DEF line
    <3> QED BY <2>2, <3>1
  <2> QED BY <2>2, <2>3, <2>4, <2>6 DEF n
<1> QED BY <1>2, <1>3

(* writeToFile() *)
LEMMA FileWritten ==
    ASSUME NEW l \in Logs, NEW f \in Files, NEW ok \in BOOLEAN
    PROVE  LET n == WriteFile(l, f, ok)
           IN  /\ n \in Logs /\ n.buffer = l.buffer
               /\ n.behind \/ (n.file = f /\ n.behind = l.behind)
BY DEF WriteFile, Logs

(* rewriteDataFile() *)
LEMMA FileRewritten ==
    ASSUME NEW l \in Logs, NEW m \in ListsOf(Signals), Level(m), NEW ok \in BOOLEAN
    PROVE  LET n == RewriteDataFile(l, m, ok)
           IN  n \in Logs /\ n.buffer = << >> /\ Shows(n, m)
<1> DEFINE emptied == [l EXCEPT !.buffer = << >>]
           clean == [emptied EXCEPT !.behind = FALSE]
           f == [Header(m) EXCEPT !.rows = ExportedRows(m)]
           n == RewriteDataFile(l, m, ok)
<1>1. emptied \in Logs /\ emptied.buffer = << >>
  <2>1. << >> \in Seq(Lines)
    OBVIOUS
  <2> QED BY <2>1 DEF Logs
<1> HIDE DEF emptied
<1>2. CASE ActiveRows(m) = << >>
  <2>1. n = [emptied EXCEPT !.behind = TRUE]
    BY <1>2 DEF RewriteDataFile, emptied
  <2> HIDE DEF n
  <2> QED BY <1>1, <2>1 DEF Logs, Shows, n
<1>3. CASE ActiveRows(m) # << >>
  <2>1. clean \in Logs /\ clean.buffer = << >> /\ ~clean.behind
    BY <1>1 DEF Logs
  <2>2. f \in Files /\ f.columns = ActiveIds(m) /\ f.rows = ExportedRows(m)
    <3>1. ExportedRows(m) \in Seq(Lines) /\ ActiveIds(m) \in Seq(Nat)
      BY RowsExported, ActiveOnes
    <3> DEFINE rows == ExportedRows(m)
               ids == ActiveIds(m)
               none == << >>
    <3>2. Header(m) = [columns |-> ids, rows |-> none]
      BY DEF Header, NoFile
    <3>3. f = [Header(m) EXCEPT !.rows = rows]
      OBVIOUS
    <3> HIDE DEF rows, ids, none, f
    <3>4. f = [columns |-> ids, rows |-> rows]
      BY <3>2, <3>3
    <3> QED BY <3>1, <3>4 DEF Files, rows, ids
  <2>3. n = WriteFile(clean, f, ok)
    BY <1>3 DEF RewriteDataFile, emptied
  <2> HIDE DEF n, f, clean
  <2>4. n \in Logs /\ n.buffer = << >> /\ (n.behind \/ n.file = f)
    BY <2>1, <2>2, <2>3, FileWritten
  <2>5. f.rows \o << >> = f.rows
    BY <2>2, ConcatEmptySeq DEF Files
  <2>6. Shows(n, m)
    BY <2>2, <2>4, <2>5 DEF Shows
  <2> QED BY <2>4, <2>6 DEF n
<1> QED BY <1>2, <1>3

(* enableExporterDuringLog(), before the first poll. *)
LEMMA ExporterEnabled ==
    ASSUME NEW l \in Logs, NEW m \in ListsOf(Signals), Level(m), NEW ok \in BOOLEAN,
           l.buffer = << >>, Shows(l, m), \A i \in DOMAIN m.rows : m.rows[i].data = << >>
    PROVE  LET n == EnableExporter(l, m, ok) IN n \in Logs /\ n.buffer = << >> /\ Shows(n, m)
<1> DEFINE n == EnableExporter(l, m, ok)
           clean == [l EXCEPT !.buffer = << >>, !.behind = FALSE]
           f == Header(m)
<1>1. CASE ~l.writing
  BY <1>1 DEF EnableExporter
<1>2. CASE l.writing
  <2>0. << >> \in Seq(Lines)
    OBVIOUS
  <2>1. clean \in Logs /\ clean.buffer = << >>
    BY <2>0 DEF Logs
  <2>2. f \in Files /\ f.columns = ActiveIds(m) /\ f.rows = << >>
    <3> DEFINE ids == ActiveIds(m)
    <3>1. ids \in Seq(Nat)
      BY ActiveOnes
    <3>2. f = [columns |-> ids, rows |-> << >>]
      BY DEF Header, NoFile
    <3> HIDE DEF ids, f
    <3> QED BY <2>0, <3>1, <3>2 DEF Files, ids
  <2>3. n = WriteFile(clean, f, ok)
    BY <1>2 DEF EnableExporter
  <2> HIDE DEF n, f, clean
  <2>4. n \in Logs /\ n.buffer = << >> /\ (n.behind \/ n.file = f)
    BY <2>1, <2>2, <2>3, FileWritten
  <2>5. ExportedRows(m) = << >>
    <3>1. CASE ActiveRows(m) = << >>
      BY <3>1 DEF ExportedRows
    <3>2. CASE ActiveRows(m) # << >>
      <4>1. \A i \in Active(m) : i \in DOMAIN m.rows
        BY DEF Active
      <4>2. SeriesLength(m) = 0
        <5>1. ActiveRows(m) \in Seq(Active(m))
          BY ActiveOnes
        <5>2. ActiveRows(m)[1] \in Active(m)
          BY <3>2, <5>1
        <5> QED BY <4>1, <5>2 DEF SeriesLength
      <4>3. ExportedRows(m) = [k \in 1 .. SeriesLength(m) |-> Row(m, k)]
        BY <3>2, RowsExported
      <4>4. 1 .. 0 = {}
        OBVIOUS
      <4>5. ExportedRows(m) \in Seq(Lines) /\ DOMAIN ExportedRows(m) = {}
        BY <4>2, <4>3, <4>4, RowsExported
      <4> QED BY <4>5
    <3> QED BY <3>1, <3>2
  <2>6. << >> \o << >> = << >>
    OBVIOUS
  <2>7. Shows(n, m)
    BY <2>2, <2>4, <2>5, <2>6 DEF Shows
  <2> QED BY <2>4, <2>7 DEF n
<1> QED BY <1>1, <1>2

(* flushExportBuffer() *)
LEMMA BufferFlushed ==
    ASSUME NEW l \in Logs, NEW ok \in BOOLEAN
    PROVE  LET n == FlushExportBuffer(l, ok)
           IN  /\ n \in Logs /\ n.buffer = << >>
               /\ \A m : Shows(l, m) => Shows(n, m)
<1> DEFINE f == [l.file EXCEPT !.rows = @ \o l.buffer]
           w == WriteFile(l, f, ok)
           n == FlushExportBuffer(l, ok)
<1>1. l.file \in Files /\ l.buffer \in Seq(Lines) /\ l.file.rows \in Seq(Lines)
  BY DEF Logs, Files
<1>2. l.file.rows \o l.buffer \in Seq(Lines)
  BY <1>1
<1>3. f \in Files /\ f.columns = l.file.columns /\ f.rows = l.file.rows \o l.buffer
  <2> DEFINE rows == l.file.rows \o l.buffer
  <2>1. f = [l.file EXCEPT !.rows = rows]
    OBVIOUS
  <2> HIDE DEF rows, f
  <2> QED BY <1>1, <1>2, <2>1 DEF Files, rows
<1>4. n = [w EXCEPT !.buffer = << >>]
  BY DEF FlushExportBuffer
<1> HIDE DEF f
<1>5. w \in Logs /\ (w.behind \/ (w.file = f /\ w.behind = l.behind))
  BY <1>3, FileWritten
<1> HIDE DEF w, n
<1>6. << >> \in Seq(Lines)
  OBVIOUS
<1>7. n \in Logs /\ n.buffer = << >> /\ n.behind = w.behind /\ n.file = w.file
  BY <1>4, <1>5, <1>6 DEF Logs
<1>8. f.rows \o << >> = f.rows
  BY <1>2, <1>3, ConcatEmptySeq
<1>9. \A m : Shows(l, m) => Shows(n, m)
  BY <1>3, <1>5, <1>7, <1>8 DEF Shows
<1> QED BY <1>7, <1>9 DEF n

(* disableExporterDuringLog() *)
LEMMA ExporterDisabled ==
    ASSUME NEW l \in Logs, NEW ok \in BOOLEAN
    PROVE  LET n == DisableExporter(l, ok)
           IN  n \in Logs /\ \A m : Kept(l, m) => Shows(n, m) /\ n.buffer = << >>
BY BufferFlushed DEF DisableExporter, Kept

(* exportDataLine(): the line of a poll, after those before it. *)
LEMMA LineExported ==
    ASSUME NEW l \in Logs, NEW row \in Lines, NEW timeout \in BOOLEAN, NEW ok \in BOOLEAN
    PROVE  LET n == ExportDataLine(l, row, timeout, ok)
           IN  /\ n \in Logs
               /\ \A m, o : /\ Kept(l, m) /\ ActiveIds(o) = ActiveIds(m)
                            /\ ExportedRows(o) = Append(ExportedRows(m), row)
                            => Kept(n, o)
<1> DEFINE buffer == Append(l.buffer, row)
           longer == [l EXCEPT !.buffer = buffer]
           n == ExportDataLine(l, row, timeout, ok)
<1>1. l.buffer \in Seq(Lines) /\ l.file.rows \in Seq(Lines) /\ l.writing \in BOOLEAN
  BY DEF Logs, Files
<1>2. buffer \in Seq(Lines) /\ l.file.rows \o buffer = Append(l.file.rows \o l.buffer, row)
  <2> DEFINE rows == l.file.rows
             b == l.buffer
  <2>1. rows \in Seq(Lines) /\ b \in Seq(Lines)
    BY <1>1
  <2> HIDE DEF rows, b
  <2>2. Append(b, row) \in Seq(Lines) /\ rows \o Append(b, row) = Append(rows \o b, row)
    BY <2>1
  <2> QED BY <2>2 DEF rows, b
<1>3. CASE ~l.writing
  <2>1. n = [l EXCEPT !.behind = TRUE]
    BY <1>3 DEF ExportDataLine
  <2> HIDE DEF n
  <2>2. n \in Logs /\ n.behind /\ n.buffer = l.buffer /\ n.writing = l.writing
    BY <2>1 DEF Logs
  <2> QED BY <2>2 DEF Kept, Shows, n
<1>4. CASE l.writing
  <2>1. n = IF timeout THEN FlushExportBuffer(longer, ok) ELSE longer
    BY <1>4 DEF ExportDataLine
  <2> HIDE DEF buffer
  <2>2. /\ longer \in Logs /\ longer.buffer = buffer /\ longer.file = l.file
        /\ longer.behind = l.behind /\ longer.writing = l.writing
    BY <1>2 DEF Logs
  <2> HIDE DEF longer, n
  <2>3. ASSUME NEW m, NEW o, Kept(l, m), ActiveIds(o) = ActiveIds(m),
               ExportedRows(o) = Append(ExportedRows(m), row)
        PROVE  Shows(longer, o)
    BY <1>2, <2>2, <2>3 DEF Kept, Shows, buffer
  <2>4. CASE timeout
    <3>1. n \in Logs /\ n.buffer = << >> /\ \A m : Shows(longer, m) => Shows(n, m)
      BY <2>1, <2>2, <2>4, BufferFlushed
    <3> QED BY <2>3, <3>1 DEF Kept, n
  <2>5. CASE ~timeout
    <3>1. n = longer
      BY <2>1, <2>5
    <3> QED BY <1>4, <2>2, <2>3, <3>1 DEF Kept, n
  <2> QED BY <2>4, <2>5
<1> QED BY <1>1, <1>3, <1>4

-----------------------------------------------------------------------------
(* The line of a poll. *)

PollLine(m, n, results, t) ==
    [at |-> t, cells |-> [k \in DOMAIN results |-> Cell(Last(n.rows[ActiveRows(m)[k]].data))]]

(* A series has one sample more than before, which is the one of a cell.   *)
OneMore(before, after, cell, t) ==
    /\ Len(after) = Len(before) + 1
    /\ \A k \in DOMAIN before : after[k] = before[k]
    /\ after[Len(before) + 1].at = t
    /\ cell = Cell(after[Len(before) + 1])

(* The line of a poll holds the sample each result became. *)
LEMMA LineOf ==
    ASSUME NEW m \in ListsOf(Signals), NEW results \in Seq(Results), NEW t \in 1 .. MaxCycles,
           ~Plotted(m, results, t).crashed
    PROVE  LET n == Plotted(m, results, t)
               line == PollLine(m, n, results, t)
           IN  /\ line \in Lines /\ line.at = t /\ DOMAIN line.cells = DOMAIN results
               /\ \A d \in DOMAIN results :
                     OneMore(m.rows[ActiveRows(m)[d]].data, n.rows[ActiveRows(m)[d]].data, line.cells[d], t)
<1> DEFINE n == Plotted(m, results, t)
           a == ActiveRows(m)
           before(d) == m.rows[a[d]].data
           after(d) == n.rows[a[d]].data
           cells == [d \in DOMAIN results |-> Cell(Last(after(d)))]
<1>1. \A d \in DOMAIN results :
        /\ m.rows[a[d]] \in Signals /\ m.rows[a[d]].active /\ results[d] \in Results
        /\ n.rows[a[d]] = WithSample(m.rows[a[d]], results[d], t)
  <2>1. /\ Len(results) <= Len(a)
        /\ \A d \in DOMAIN results : n.rows[a[d]] = WithSample(m.rows[a[d]], results[d], t)
    BY PlottedRows
  <2>2. /\ Len(a) \in Nat /\ DOMAIN a = 1 .. Len(a)
        /\ \A d \in DOMAIN a : a[d] \in DOMAIN m.rows /\ m.rows[a[d]].active
    BY ActiveOnes
  <2>3. \A i \in DOMAIN m.rows : m.rows[i] \in Signals
    BY RowsOf, SignalSets
  <2> HIDE DEF a, n
  <2>4. DOMAIN results \subseteq DOMAIN a /\ \A d \in DOMAIN results : results[d] \in Results
    BY <2>1, <2>2
  <2> QED BY <2>1, <2>2, <2>3, <2>4
<1> HIDE DEF n, a
<1>2. ASSUME NEW d \in DOMAIN results
      PROVE  /\ Len(after(d)) = Len(before(d)) + 1
             /\ \A k \in DOMAIN before(d) : after(d)[k] = before(d)[k]
             /\ after(d)[Len(before(d)) + 1].at = t
             /\ Last(after(d)) = after(d)[Len(before(d)) + 1]
             /\ Last(after(d)) \in Samples
  <2> DEFINE s == m.rows[a[d]]
             w == WithSample(s, results[d], t)
  <2>1. s \in Signals /\ s.active /\ results[d] \in Results /\ n.rows[a[d]] = w
    BY <1>1
  <2> HIDE DEF s
  <2>2. /\ Len(w.data) = Len(s.data) + 1
        /\ \A k \in DOMAIN s.data : w.data[k] = s.data[k]
        /\ w.data[Len(s.data) + 1].at = t
        /\ w.data[Len(s.data) + 1] \in Samples
    BY <2>1, SampledSignal
  <2> HIDE DEF w
  <2>3. Last(w.data) = w.data[Len(s.data) + 1]
    BY <2>2 DEF Last
  <2> QED BY <2>1, <2>2, <2>3 DEF s
<1>3. \A sample \in Samples : Cell(sample) \in Values \X Qualities
  BY DEF Samples, Cell
<1>4. PollLine(m, n, results, t) = [at |-> t, cells |-> cells]
  BY DEF PollLine, a
<1>5. DOMAIN cells = DOMAIN results
      /\ \A d \in DOMAIN results : /\ cells[d] = Cell(after(d)[Len(before(d)) + 1])
                                   /\ cells[d] \in Values \X Qualities
  <2>1. \A d \in DOMAIN results : cells[d] = Cell(Last(after(d)))
    OBVIOUS
  <2> HIDE DEF cells, after, before
  <2>2. \A d \in DOMAIN results : /\ cells[d] = Cell(after(d)[Len(before(d)) + 1])
                                  /\ cells[d] \in Values \X Qualities
    BY <1>2, <1>3, <2>1
  <2> QED BY <2>2 DEF cells
<1>6. cells = [d \in 1 .. Len(results) |-> cells[d]] /\ Len(results) \in Nat
      /\ DOMAIN results = 1 .. Len(results)
  OBVIOUS
<1> DEFINE Cells == Values \X Qualities
<1>7. \A d \in 1 .. Len(results) : cells[d] \in Cells
  BY <1>5, <1>6
<1> HIDE DEF cells, Cells
<1>8. cells \in Seq(Cells)
  BY <1>6, <1>7
<1>9. [at |-> t, cells |-> cells] \in Lines
  BY <1>8 DEF Lines, Cells
<1> HIDE DEF after, before
<1>10. /\ PollLine(m, n, results, t).cells = cells /\ PollLine(m, n, results, t).at = t
  BY <1>4
<1>11. \A d \in DOMAIN results :
          OneMore(m.rows[a[d]].data, n.rows[a[d]].data, PollLine(m, n, results, t).cells[d], t)
  BY <1>2, <1>5, <1>10 DEF OneMore, after, before
<1>12. PollLine(m, n, results, t) \in Lines
  BY <1>4, <1>9
<1>13. DOMAIN PollLine(m, n, results, t).cells = DOMAIN results
  BY <1>5, <1>10
<1> QED BY <1>10, <1>11, <1>12, <1>13 DEF n, a

(* With a result for every active signal it is the line the series have    *)
(* more than before.                                                       *)
LEMMA LineAppended ==
    ASSUME NEW m \in ListsOf(Signals), NEW results \in Seq(Results), NEW t \in 1 .. MaxCycles,
           Level(m), Level(Plotted(m, results, t)), ~Plotted(m, results, t).crashed,
           ActiveRows(m) # << >>, DOMAIN results = DOMAIN ActiveRows(m)
    PROVE  LET n == Plotted(m, results, t)
           IN  /\ ActiveIds(n) = ActiveIds(m)
               /\ ExportedRows(n) = Append(ExportedRows(m), PollLine(m, n, results, t))
<1> DEFINE n == Plotted(m, results, t)
           a == ActiveRows(m)
           len == SeriesLength(m)
           line == PollLine(m, n, results, t)
<1>1. n \in ListsOf(Signals) /\ SameSignals(m, n)
  BY PlottedRows
<1>2. /\ line \in Lines /\ line.at = t /\ DOMAIN line.cells = DOMAIN a
      /\ \A d \in DOMAIN a : OneMore(m.rows[a[d]].data, n.rows[a[d]].data, line.cells[d], t)
  BY LineOf
<1>3. line = [at |-> t, cells |-> line.cells] /\ line.cells = [d \in DOMAIN a |-> line.cells[d]]
  BY <1>2 DEF PollLine
<1> HIDE DEF n, line
<1>4. ActiveRows(n) = a /\ ActiveIds(n) = ActiveIds(m)
  BY <1>1, SameActiveOnes
<1>5. /\ len \in Nat /\ ExportedRows(m) = [k \in 1 .. len |-> Row(m, k)]
      /\ \A i \in Active(m) : Len(m.rows[i].data) = len
      /\ ExportedRows(m) \in Seq(Lines)
  BY RowsExported
<1>6. /\ SeriesLength(n) \in Nat /\ ExportedRows(n) = [k \in 1 .. SeriesLength(n) |-> Row(n, k)]
      /\ ExportedRows(n) \in Seq(Lines)
  <2>1. Level(n)
    BY DEF n
  <2> QED BY <1>1, <1>4, <2>1, RowsExported
<1>7. 1 \in DOMAIN a /\ \A d \in DOMAIN a : a[d] \in Active(m) /\ Len(m.rows[a[d]].data) = len
                                            /\ DOMAIN m.rows[a[d]].data = 1 .. len
  <2>1. a \in Seq(Active(m)) /\ Len(a) \in Nat /\ DOMAIN a = 1 .. Len(a)
    <3>1. PICK c \in Nat : ActiveRows(m) \in [1 .. c -> Active(m)]
      BY ONLY m \in ListsOf(Signals), ActiveOnes
    <3> HIDE DEF len
    <3> QED BY ONLY <3>1
  <2>2. \A i \in DOMAIN m.rows : m.rows[i] \in Signals
    BY RowsOf, SignalSets
  <2> HIDE DEF a, len
  <2>3. 1 \in DOMAIN a /\ \A d \in DOMAIN a : a[d] \in Active(m)
    BY <2>1 DEF a
  <2>4. \A i \in Active(m) : m.rows[i].data \in Seq(Samples)
    BY <2>2, SignalFields DEF Active
  <2>5. \A i \in Active(m) : DOMAIN m.rows[i].data = 1 .. len
    <3> TAKE i \in Active(m)
    <3> DEFINE data == m.rows[i].data
    <3>1. data \in Seq(Samples) /\ Len(data) = len
      BY <1>5, <2>4
    <3> HIDE DEF data
    <3>2. DOMAIN data = 1 .. len
      BY <3>1
    <3> QED BY <3>2 DEF data
  <2> QED BY <1>5, <2>3, <2>5
<1> HIDE DEF len
<1>8. SeriesLength(n) = len + 1
  BY <1>2, <1>4, <1>7 DEF SeriesLength, OneMore
<1>9. ASSUME NEW k \in 1 .. len
      PROVE  Row(n, k) = Row(m, k)
  <2>1. \A d \in DOMAIN a : n.rows[a[d]].data[k] = m.rows[a[d]].data[k]
    BY <1>2, <1>7 DEF OneMore
  <2> HIDE DEF a
  <2>2. [d \in DOMAIN a |-> Cell(n.rows[a[d]].data[k])] = [d \in DOMAIN a |-> Cell(m.rows[a[d]].data[k])]
    BY <2>1
  <2>3. n.rows[a[1]].data[k].at = m.rows[a[1]].data[k].at
    BY <1>7, <2>1
  <2> QED BY <1>4, <2>2, <2>3 DEF Row, a
<1>10. Row(n, len + 1) = line
  <2>1. \A d \in DOMAIN a : /\ Cell(n.rows[a[d]].data[len + 1]) = line.cells[d]
                            /\ n.rows[a[d]].data[len + 1].at = t
    BY <1>2, <1>7 DEF OneMore
  <2> HIDE DEF a
  <2>2. [d \in DOMAIN a |-> Cell(n.rows[a[d]].data[len + 1])] = [d \in DOMAIN a |-> line.cells[d]]
    BY <2>1
  <2>3. n.rows[a[1]].data[len + 1].at = t
    BY <1>7, <2>1
  <2>4. Row(n, len + 1) = [at |-> n.rows[a[1]].data[len + 1].at,
                           cells |-> [d \in DOMAIN a |-> Cell(n.rows[a[d]].data[len + 1])]]
    BY <1>4 DEF Row, a
  <2> QED BY <1>3, <2>2, <2>3, <2>4
<1>11. ExportedRows(n) = Append(ExportedRows(m), line)
  <2> DEFINE old == ExportedRows(m)
             new == ExportedRows(n)
             more == Append(old, line)
  <2>1. old \in Seq(Lines) /\ Len(old) = len /\ \A k \in 1 .. len : old[k] = Row(m, k)
    BY <1>5
  <2>2. new \in Seq(Lines) /\ Len(new) = len + 1 /\ \A k \in 1 .. len + 1 : new[k] = Row(n, k)
    BY <1>5, <1>6, <1>8
  <2> HIDE DEF old, new
  <2>3. /\ more \in Seq(Lines) /\ Len(more) = len + 1 /\ more[len + 1] = line
        /\ \A k \in 1 .. len : more[k] = old[k]
    <3>1. line \in Lines
      BY <1>2
    <3> QED BY <2>1, <3>1
  <2> HIDE DEF more
  <2>4. \A k \in 1 .. len + 1 : new[k] = more[k]
    <3> TAKE k \in 1 .. len + 1
    <3>1. k \in 1 .. len \/ k = len + 1
      BY <1>5
    <3> QED BY <1>9, <1>10, <2>1, <2>2, <2>3, <3>1
  <2>5. new = more
    BY <2>2, <2>3, <2>4, SeqEqual
  <2> QED BY <2>5 DEF old, new, more
<1> QED BY <1>4, <1>11 DEF n, line

-----------------------------------------------------------------------------
(***************************************************************************)
(* The invariant.  What the list holds was measured for it, the file shows *)
(* it, and a session that polls polls for it, as long as no other project  *)
(* was opened under the session.                                           *)
(***************************************************************************)

Typed ==
    /\ list \in ListsOf(Signals) /\ gui \in {"INIT", "STARTED", "STOPPED"}
    /\ polling \in BOOLEAN /\ swapped \in BOOLEAN
    /\ parsers \in Seq(Parsers) /\ points \in PointLists /\ log \in Logs
    /\ lastId \in 0 .. MaxIds /\ now \in 0 .. MaxCycles
    /\ edits \in 0 .. MaxEdits /\ crashes \in 0 .. MaxCrashes

InSession == gui = "STARTED" /\ ActiveRows(list) # << >> /\ ParsersFit(list, points)

ListShown ==
    /\ list \in ListsOf(OwnSignals) /\ Level(list) /\ Kept(log, list)
    /\ ~polling => log.buffer = << >>

IInv == Typed /\ (Alive /\ ~swapped => ListShown /\ (polling => InSession))

(* A list of signals that are all in S is a list of S. *)
LEMMA ListOfRows ==
    ASSUME NEW S, NEW m \in ListsOf(Signals), \A i \in DOMAIN m.rows : m.rows[i] \in S
    PROVE  m \in ListsOf(S)
<1> DEFINE rows == m.rows
<1>1. rows \in Seq(Signals) /\ \A i \in DOMAIN rows : rows[i] \in S
  BY DEF ListsOf
<1> HIDE DEF rows
<1>2. rows \in Seq(S)
  BY <1>1
<1> QED BY <1>2 DEF ListsOf, rows

(* No signals: nothing is plotted and nothing to be shown. *)
LEMMA NoSignals ==
    /\ EmptyList(TRUE) \in ListsOf(OwnSignals) /\ EmptyList(TRUE) \in ListsOf(Signals)
    /\ Level(EmptyList(TRUE)) /\ ~EmptyList(TRUE).crashed
BY DEF EmptyList, ListsOf, Level, Active

(* What a session starts with. *)
LEMMA NothingPolled == << >> \in Seq(Parsers) /\ << >> \in PointLists /\ << >> \in Seq(Lines)
BY DEF PointLists, OnceIn

(* The initial state satisfies the invariant. *)
LEMMA InitInv == Init => IInv
<1> SUFFICES ASSUME Init PROVE IInv
  OBVIOUS
<1>1. list = EmptyList(TRUE) /\ parsers = << >> /\ points = << >> /\ polling = FALSE /\ swapped = FALSE
      /\ gui = "INIT"
  BY DEF Init
<1>2. log \in Logs /\ log.behind /\ log.buffer = << >>
  <2> DEFINE none == << >>
  <2>1. none \in Seq(Nat) /\ none \in Seq(Lines)
    OBVIOUS
  <2>2. log = [writing |-> TRUE, buffer |-> none, file |-> [columns |-> none, rows |-> none],
               behind |-> TRUE]
    BY DEF Init, NoFile
  <2>3. log.buffer = none
    BY <2>2
  <2> HIDE DEF none
  <2>4. log \in Logs /\ log.behind
    BY <2>1, <2>2 DEF Logs, Files
  <2> QED BY <2>3, <2>4 DEF none
<1>3. Typed
  <2>1. list \in ListsOf(Signals) /\ parsers \in Seq(Parsers) /\ points \in PointLists
    BY <1>1, NoSignals, NothingPolled
  <2>2. lastId = 0 /\ now = 0 /\ edits = 0 /\ crashes = 0
    BY DEF Init
  <2>3. MaxIds \in Nat /\ MaxCycles \in Nat /\ MaxEdits \in Nat /\ MaxCrashes \in Nat
    BY SessionAssumption
  <2>4. /\ lastId \in 0 .. MaxIds /\ now \in 0 .. MaxCycles
        /\ edits \in 0 .. MaxEdits /\ crashes \in 0 .. MaxCrashes
    BY <2>2, <2>3
  <2>5. polling \in BOOLEAN /\ swapped \in BOOLEAN /\ gui \in {"INIT", "STARTED", "STOPPED"}
    BY <1>1
  <2> QED BY <1>2, <2>1, <2>4, <2>5 DEF Typed
<1>4. ListShown
  <2>1. list \in ListsOf(OwnSignals) /\ Level(list)
    BY <1>1, NoSignals
  <2> QED BY <1>2, <2>1 DEF ListShown, Kept, Shows
<1> QED BY <1>1, <1>3, <1>4 DEF IInv

(* stop(), and an error of the communication: what waits is written. *)
LEMMA StoppedKeeps ==
    ASSUME IInv, NEW ok \in BOOLEAN, Stopped(ok)
    PROVE  IInv'
<1>1. polling' = FALSE /\ gui' = "STOPPED" /\ log' = DisableExporter(log, ok)
      /\ UNCHANGED <<list, parsers, points, swapped, lastId, now, edits, crashes>>
  BY DEF Stopped, counters
<1>2. log \in Logs
  BY DEF IInv, Typed
<1>3. log' \in Logs /\ \A m : Kept(log, m) => Shows(log', m) /\ log'.buffer = << >>
  BY <1>1, <1>2, ExporterDisabled
<1>4. Typed'
  BY <1>1, <1>3 DEF IInv, Typed
<1>5. ASSUME Alive', ~swapped'
      PROVE  ListShown'
  <2>1. ListShown
    BY <1>1, <1>5 DEF IInv, Alive
  <2>2. Shows(log', list) /\ log'.buffer = << >>
    BY <1>3, <2>1 DEF ListShown
  <2>3. Kept(log', list)
    BY <2>2 DEF Kept
  <2> QED BY <1>1, <2>1, <2>2, <2>3 DEF ListShown
<1> QED BY <1>1, <1>4, <1>5 DEF IInv

(* Clearing the samples. *)
LEMMA ClearKeeps ==
    ASSUME IInv, NEW ok \in BOOLEAN, Clear(ok)
    PROVE  IInv'
<1>1. /\ list' = SeriesCleared(list) /\ log' = RewriteDataFile(log, list', ok) /\ ~list.crashed
      /\ UNCHANGED <<gui, polling, parsers, points, swapped, lastId, now, edits, crashes>>
  BY DEF Clear, counters, Alive
<1>2. list \in ListsOf(Signals) /\ log \in Logs
  BY DEF IInv, Typed
<1>3. list' \in ListsOf(Signals) /\ Level(list') /\ SameSignals(list, list')
  BY <1>1, <1>2, SignalSets, ClearedSeries
<1>4. log' \in Logs /\ log'.buffer = << >> /\ Shows(log', list')
  BY <1>1, <1>2, <1>3, FileRewritten
<1>5. Typed'
  BY <1>1, <1>3, <1>4 DEF IInv, Typed
<1>6. ASSUME ~swapped'
      PROVE  ListShown' /\ (polling' => InSession')
  <2>1. ListShown /\ (polling => InSession)
    BY <1>1, <1>6 DEF IInv, Alive
  <2>2. list' \in ListsOf(OwnSignals)
    BY <1>1, <2>1, SignalSets, ClearedSeries DEF ListShown
  <2>3. ListShown'
    BY <1>3, <1>4, <2>2 DEF ListShown, Kept
  <2>4. ASSUME polling' PROVE InSession'
    <3>1. InSession
      BY <1>1, <2>1, <2>4
    <3>2. ActiveRows(list') = ActiveRows(list) /\ ActiveExpressions(list') = ActiveExpressions(list)
      BY <1>2, <1>3, SameActiveOnes
    <3> QED BY <1>1, <3>1, <3>2 DEF InSession, ParsersFit
  <2> QED BY <2>3, <2>4
<1> QED BY <1>5, <1>6 DEF IInv

(* A change of the list, which is possible while no session is shown: the  *)
(* list stays one of the signals it was made of, with its series level.    *)
LEMMA EditKeeps ==
    ASSUME IInv, NEW m, NEW rewritten \in BOOLEAN, NEW ok \in BOOLEAN, Edit(m, rewritten, ok),
           lastId' \in 0 .. MaxIds,
           \A S : Closed(S) /\ list \in ListsOf(S) => m \in ListsOf(S),
           IF rewritten THEN Level(m) ELSE Level(list) => Level(m)
    PROVE  IInv'
<1>1. /\ list' = m /\ ~list.crashed /\ gui # "STARTED" /\ edits < MaxEdits /\ edits' = edits + 1
      /\ log' = IF rewritten THEN RewriteDataFile(log, m, ok) ELSE [log EXCEPT !.behind = TRUE]
      /\ UNCHANGED <<gui, polling, parsers, points, swapped, now, crashes>>
  BY DEF Edit, Alive
<1>2. list \in ListsOf(Signals) /\ log \in Logs
  BY DEF IInv, Typed
<1>3. m \in ListsOf(Signals)
  BY <1>2, SignalSets
<1>4. \/ log' \in Logs /\ log'.buffer = << >> /\ Shows(log', m)
      \/ log' \in Logs /\ log'.buffer = log.buffer /\ log'.behind
  <2>1. CASE rewritten
    BY <1>1, <1>2, <1>3, <2>1, FileRewritten
  <2>2. CASE ~rewritten
    <3>1. log' = [log EXCEPT !.behind = TRUE]
      BY <1>1, <2>2
    <3> QED BY <1>2, <3>1 DEF Logs
  <2> QED BY <2>1, <2>2
<1>5. Typed'
  <2>1. edits' \in 0 .. MaxEdits
    BY <1>1, SessionAssumption DEF IInv, Typed
  <2> QED BY <1>1, <1>3, <1>4, <2>1 DEF IInv, Typed
<1>6. ASSUME ~swapped'
      PROVE  ListShown' /\ ~polling'
  <2>1. ListShown /\ ~polling
    BY <1>1, <1>6 DEF IInv, Alive, InSession
  <2>2. m \in ListsOf(OwnSignals) /\ Level(m)
    BY <2>1, SignalSets DEF ListShown
  <2>3. log'.buffer = << >> /\ Kept(log', m)
    BY <1>4, <2>1 DEF ListShown, Kept, Shows
  <2> QED BY <1>1, <2>1, <2>2, <2>3 DEF ListShown
<1> QED BY <1>5, <1>6 DEF IInv

(* A signal is added. *)
LEMMA AddToListKeeps ==
    ASSUME IInv, NEW expression \in Expressions, NEW ok \in BOOLEAN, AddToList(expression, ok)
    PROVE  IInv'
<1> DEFINE s == Signal(lastId', expression, TRUE, TRUE)
           m == AddSignal(list, s, Reachable)
<1>1. lastId' \in 1 .. MaxIds
  BY SessionAssumption DEF AddToList, IInv, Typed
<1>2. Edit(m, TRUE, ok)
  BY DEF AddToList
<1>3. \A S : Closed(S) /\ list \in ListsOf(S) => m \in ListsOf(S) /\ Level(m)
  <2> TAKE S
  <2> SUFFICES ASSUME Closed(S), list \in ListsOf(S) PROVE m \in ListsOf(S) /\ Level(m)
    OBVIOUS
  <2>1. s \in S
    BY <1>1, NewSignal
  <2> HIDE DEF s
  <2> QED BY <2>1, AddedRow
<1>4. Level(m)
  BY <1>3, SignalSets DEF IInv, Typed
<1> HIDE DEF m
<1>5. lastId' \in 0 .. MaxIds
  BY <1>1
<1> QED BY <1>2, <1>3, <1>4, <1>5, EditKeeps

(* A signal is removed. *)
LEMMA RemoveFromListKeeps ==
    ASSUME IInv, NEW row \in DOMAIN list.rows, NEW ok \in BOOLEAN, RemoveFromList(row, ok)
    PROVE  IInv'
<1> DEFINE m == RemoveSignal(list, row)
<1>1. Edit(m, TRUE, ok) /\ lastId' \in 0 .. MaxIds
  BY DEF RemoveFromList, IInv, Typed
<1>2. \A S : Closed(S) /\ list \in ListsOf(S) => m \in ListsOf(S) /\ Level(m)
  BY RemovedRow
<1>3. Level(m)
  BY <1>2, SignalSets DEF IInv, Typed
<1> HIDE DEF m
<1> QED BY <1>1, <1>2, <1>3, EditKeeps

(* A signal is moved. *)
LEMMA MoveInListKeeps ==
    ASSUME IInv, NEW from \in DOMAIN list.rows, NEW to \in DOMAIN list.rows, NEW ok \in BOOLEAN,
           MoveInList(from, to, ok)
    PROVE  IInv'
<1> DEFINE m == MoveSignal(list, from, to)
<1>1. Edit(m, TRUE, ok) /\ lastId' \in 0 .. MaxIds /\ from # to
  BY DEF MoveInList, IInv, Typed
<1>2. \A S : Closed(S) /\ list \in ListsOf(S) => m \in ListsOf(S) /\ Level(m)
  BY <1>1, MovedRow
<1>3. Level(m)
  BY <1>2, SignalSets DEF IInv, Typed
<1> HIDE DEF m
<1> QED BY <1>1, <1>2, <1>3, EditKeeps

(* A signal becomes active or is not any more. *)
LEMMA ToggleActiveKeeps ==
    ASSUME IInv, NEW row \in DOMAIN list.rows, NEW ok \in BOOLEAN, ToggleActive(row, ok)
    PROVE  IInv'
<1> DEFINE m == SetActive(list, row, ~list.rows[row].active)
<1>1. Edit(m, TRUE, ok) /\ lastId' \in 0 .. MaxIds
  BY DEF ToggleActive, IInv, Typed
<1>2. \A S : Closed(S) /\ list \in ListsOf(S) => m \in ListsOf(S) /\ Level(m)
  BY ActivatedRow
<1>3. Level(m)
  BY <1>2, SignalSets DEF IInv, Typed
<1> HIDE DEF m
<1> QED BY <1>1, <1>2, <1>3, EditKeeps

(* A signal gets another expression. *)
LEMMA ChangeExpressionKeeps ==
    ASSUME IInv, NEW row \in DOMAIN list.rows, NEW expression \in Expressions, NEW ok \in BOOLEAN,
           ChangeExpression(row, expression, ok)
    PROVE  IInv'
<1> DEFINE m == SetExpression(list, row, expression, Reachable)
<1>1. Edit(m, FALSE, ok) /\ lastId' \in 0 .. MaxIds /\ expression # list.rows[row].expression
  BY DEF ChangeExpression, IInv, Typed
<1>2. \A S : Closed(S) /\ list \in ListsOf(S) => m \in ListsOf(S) /\ (Level(list) => Level(m))
  BY <1>1, ExpressionRow
<1>3. Level(list) => Level(m)
  BY <1>2, SignalSets DEF IInv, Typed
<1> HIDE DEF m
<1> QED BY <1>1, <1>2, <1>3, EditKeeps

(* The lists a project is loaded into. *)
Loading == {m \in ListsOf(OwnSignals) : Level(m)}

(* openProjectFile(): the signals of the file, one after another.          *)
LEMMA ProjectLoaded ==
    ASSUME IInv, NEW project \in ProjectLists, NEW writing \in BOOLEAN, NEW ok \in BOOLEAN,
           OpenProject(project, writing, ok)
    PROVE  list' \in Loading
<1> DEFINE n == Len(project)
           first == ClearList(list)
           Loaded(k) == Signal(lastId + k, project[k].expression, project[k].active, TRUE)
           Turn(m, k) == AddSignal(m, Loaded(k), Reachable)
           upTo[k \in 0 .. n] == IF k = 0 THEN first ELSE Turn(upTo[k - 1], k)
           turn == [x \in Loading \X (1 .. n) |-> Turn(x[1], x[2])]
           after == [k \in 0 .. n |-> Loading]
<1>1. list' = upTo[n] /\ lastId + n <= MaxIds
  BY DEF OpenProject
<1>2. first \in Loading
  <2>1. list \in ListsOf(Signals)
    BY DEF IInv, Typed
  <2> QED BY <2>1, SignalSets, ClearedList DEF Loading
<1>3. /\ n \in Nat
      /\ \A k \in 1 .. n : project[k].expression \in Expressions /\ project[k].active \in BOOLEAN
  <2> DEFINE Settings == [expression : Expressions, active : BOOLEAN]
  <2>1. project \in Seq(Settings)
    BY SessionAssumption
  <2>2. \A s \in Settings : s.expression \in Expressions /\ s.active \in BOOLEAN
    OBVIOUS
  <2> HIDE DEF Settings
  <2>3. n \in Nat /\ \A k \in 1 .. n : project[k] \in Settings
    BY <2>1
  <2> QED BY <2>2, <2>3
<1> HIDE DEF n
<1>4. \A k \in 1 .. n : Loaded(k) \in OwnSignals
  <2> TAKE k \in 1 .. n
  <2>1. lastId + k \in 1 .. MaxIds
    BY <1>1, <1>3, SessionAssumption DEF IInv, Typed
  <2> QED BY <1>3, <2>1, SignalSets, NewSignal
<1> HIDE DEF first, Loaded
<1>5. \A m \in Loading, k \in 1 .. n : Turn(m, k) \in Loading
  BY <1>4, SignalSets, AddedRow DEF Loading
<1> HIDE DEF Turn
<1>6. turn \in Turns(Loading, n) /\ \A m \in Loading, k \in 1 .. n : turn[<<m, k>>] = Turn(m, k)
  BY <1>5 DEF Turns
<1> HIDE DEF turn
<1>7. PICK g \in [0 .. n -> Loading] :
        g[0] = first /\ \A k \in 1 .. n : g[k] = turn[<<g[k - 1], k>>]
  BY <1>2, <1>3, <1>6, LoopExists
<1>8. 0 \in 0 .. n /\ n \in 0 .. n /\ \A k \in 1 .. n : k \in 0 .. n /\ k - 1 \in 0 .. n /\ k # 0
  BY <1>3
<1>9. upTo = [k \in 0 .. n |-> IF k = 0 THEN first ELSE Turn(upTo[k - 1], k)]
  <2>1. \A k \in 0 .. n : g[k] = IF k = 0 THEN first ELSE Turn(g[k - 1], k)
    <3> TAKE k \in 0 .. n
    <3>1. k = 0 \/ (k \in 1 .. n /\ k - 1 \in 0 .. n)
      BY <1>3
    <3> QED BY <1>6, <1>7, <3>1
  <2>2. g = [k \in 0 .. n |-> IF k = 0 THEN first ELSE Turn(g[k - 1], k)]
    BY <1>7, <2>1
  <2> QED BY <2>2
<1> HIDE DEF upTo
<1>10. upTo[0] \in after[0]
  <2>1. upTo[0] = first
    BY <1>8, <1>9
  <2> QED BY <1>2, <1>8, <2>1
<1>11. ASSUME NEW k \in 1 .. n, upTo[k - 1] \in after[k - 1]
       PROVE  upTo[k] \in after[k]
  <2>1. upTo[k] = Turn(upTo[k - 1], k)
    BY <1>8, <1>9
  <2> QED BY <1>5, <1>8, <1>11, <2>1
<1> HIDE DEF after
<1>12. \A k \in 0 .. n : upTo[k] \in after[k]
  BY <1>3, <1>10, <1>11, LoopKeeps
<1> QED BY <1>1, <1>8, <1>12 DEF after

(* A project file is opened. *)
LEMMA OpenProjectKeeps ==
    ASSUME IInv, NEW project \in ProjectLists, NEW writing \in BOOLEAN, NEW ok \in BOOLEAN,
           OpenProject(project, writing, ok)
    PROVE  IInv'
<1> DEFINE l == [log EXCEPT !.writing = writing]
<1>1. /\ log' = RewriteDataFile(l, list', ok) /\ gui' = "STOPPED" /\ swapped' = polling
      /\ lastId + Len(project) <= MaxIds /\ lastId' = lastId + Len(project)
      /\ UNCHANGED <<polling, parsers, points, now, edits, crashes>>
  BY DEF OpenProject
<1>2. list' \in ListsOf(OwnSignals) /\ Level(list') /\ list' \in ListsOf(Signals)
  BY ProjectLoaded, SignalSets, ListsOfSignals DEF Loading
<1>3. l \in Logs
  BY DEF IInv, Typed, Logs
<1> HIDE DEF l
<1>4. log' \in Logs /\ log'.buffer = << >> /\ Shows(log', list')
  BY <1>1, <1>2, <1>3, FileRewritten
<1>5. lastId' \in 0 .. MaxIds
  <2> DEFINE Settings == [expression : Expressions, active : BOOLEAN]
  <2>1. project \in Seq(Settings)
    BY SessionAssumption
  <2> HIDE DEF Settings
  <2>2. Len(project) \in Nat
    BY <2>1
  <2> QED BY <1>1, <2>2, SessionAssumption DEF IInv, Typed
<1>6. polling \in BOOLEAN
  BY DEF IInv, Typed
<1>7. Typed'
  BY <1>1, <1>2, <1>4, <1>5, <1>6 DEF IInv, Typed
<1>8. ListShown'
  BY <1>2, <1>4 DEF ListShown, Kept
<1> QED BY <1>1, <1>7, <1>8 DEF IInv

(* Logging to the file is switched on or off. *)
LEMMA ToggleWritingKeeps ==
    ASSUME IInv, ToggleWriting
    PROVE  IInv'
<1>1. /\ ~list.crashed /\ gui # "STARTED" /\ edits < MaxEdits /\ edits' = edits + 1
      /\ log' = [log EXCEPT !.writing = ~@, !.behind = TRUE]
      /\ UNCHANGED <<list, gui, polling, parsers, points, swapped, lastId, now, crashes>>
  BY DEF ToggleWriting, Alive
<1>2. log' \in Logs /\ log'.behind /\ log'.buffer = log.buffer
  BY <1>1 DEF IInv, Typed, Logs
<1>3. Typed'
  <2>1. edits' \in 0 .. MaxEdits
    BY <1>1, SessionAssumption DEF IInv, Typed
  <2> QED BY <1>1, <1>2, <2>1 DEF IInv, Typed
<1>4. ASSUME ~swapped'
      PROVE  ListShown' /\ ~polling'
  <2>1. ListShown /\ ~polling
    BY <1>1, <1>4 DEF IInv, Alive, InSession
  <2> QED BY <1>1, <1>2, <2>1 DEF ListShown, Kept, Shows
<1> QED BY <1>3, <1>4 DEF IInv

(* The application dies in a session and is started again. *)
LEMMA CrashKeeps ==
    ASSUME IInv, Crash
    PROVE  IInv'
<1>1. /\ crashes < MaxCrashes /\ crashes' = crashes + 1
      /\ list' = EmptyList(TRUE) /\ gui' = "INIT" /\ polling' = FALSE
      /\ parsers' = << >> /\ points' = << >> /\ swapped' = FALSE
      /\ UNCHANGED <<lastId, now, edits>>
  BY DEF Crash
<1>2. log' \in Logs /\ log'.behind /\ log'.buffer = << >>
  <2> DEFINE none == << >>
  <2>1. log' = [log EXCEPT !.writing = TRUE, !.buffer = none, !.behind = TRUE] /\ log \in Logs
    BY DEF Crash, IInv, Typed
  <2>2. none \in Seq(Lines)
    OBVIOUS
  <2> HIDE DEF none
  <2>3. log' \in Logs /\ log'.behind /\ log'.buffer = none
    BY <2>1, <2>2 DEF Logs
  <2> QED BY <2>3 DEF none
<1>3. Typed'
  <2>1. list' \in ListsOf(Signals) /\ parsers' \in Seq(Parsers) /\ points' \in PointLists
    BY <1>1, NoSignals, NothingPolled
  <2>2. crashes' \in 0 .. MaxCrashes
    BY <1>1, SessionAssumption DEF IInv, Typed
  <2>3. polling' \in BOOLEAN /\ swapped' \in BOOLEAN /\ gui' \in {"INIT", "STARTED", "STOPPED"}
    BY <1>1
  <2>4. lastId' \in 0 .. MaxIds /\ now' \in 0 .. MaxCycles /\ edits' \in 0 .. MaxEdits
    BY <1>1 DEF IInv, Typed
  <2> QED BY <1>2, <2>1, <2>2, <2>3, <2>4 DEF Typed
<1>4. ListShown'
  <2>1. list' \in ListsOf(OwnSignals) /\ Level(list')
    BY <1>1, NoSignals
  <2> QED BY <1>2, <2>1 DEF ListShown, Kept, Shows
<1> QED BY <1>1, <1>3, <1>4 DEF IInv

(* A poll cycle: while the session polls its own signals every one of them *)
(* gets a sample of its own points, and the file or its buffer the line.   *)
LEMMA PollCycleKeeps ==
    ASSUME IInv, NEW answered \in SUBSET Adapters, NEW quality \in [Range(points) -> PolledQualities],
           NEW timeout \in BOOLEAN, NEW ok \in BOOLEAN, PollCycle(answered, quality, timeout, ok)
    PROVE  IInv'
<1> DEFINE results == Evaluations(answered, quality, now')
           plotted == Plotted(list, results, now')
           line == PollLine(list, plotted, results, now')
<1>1. /\ ~list.crashed /\ polling /\ now < MaxCycles /\ now' = now + 1
      /\ list' = plotted
      /\ log' = IF plotted.crashed THEN log ELSE ExportDataLine(log, line, timeout, ok)
      /\ UNCHANGED <<gui, polling, parsers, points, swapped, lastId, edits, crashes>>
  BY DEF PollCycle, Evaluations, PollLine, counters, Alive
<1>2. now' \in 1 .. MaxCycles /\ now' \in 0 .. MaxCycles
  BY <1>1, SessionAssumption DEF IInv, Typed
<1>3. /\ list \in ListsOf(Signals) /\ log \in Logs /\ parsers \in Seq(Parsers)
      /\ points \in PointLists
  BY DEF IInv, Typed
<1>4. results \in Seq(Results) /\ Len(results) = Len(parsers) /\ DOMAIN results = DOMAIN parsers
  BY <1>2, <1>3, EvaluationsTyped
<1>5. ASSUME ~plotted.crashed
      PROVE  line \in Lines
  <2> HIDE DEF results
  <2> QED BY <1>2, <1>3, <1>4, <1>5, LineOf
<1>6. plotted \in ListsOf(Signals)
  <2> HIDE DEF results
  <2> QED BY <1>2, <1>3, <1>4, PlottedRows
<1>7. log' \in Logs
  <2>1. CASE plotted.crashed
    BY <1>1, <1>3, <2>1
  <2>2. CASE ~plotted.crashed
    <3>1. line \in Lines
      BY <1>5, <2>2
    <3> HIDE DEF line, plotted
    <3> QED BY <1>1, <1>3, <2>2, <3>1, LineExported
  <2> QED BY <2>1, <2>2
<1>8. Typed'
  <2> HIDE DEF plotted
  <2> QED BY <1>1, <1>2, <1>6, <1>7 DEF IInv, Typed
<1>9. ASSUME ~list'.crashed, ~swapped'
      PROVE  ListShown' /\ InSession'
  <2>1. ListShown /\ InSession
    BY <1>1, <1>9 DEF IInv, Alive
  <2>2. ActiveRows(list) # << >> /\ DOMAIN results = DOMAIN ActiveRows(list)
    BY <1>4, <2>1 DEF InSession, ParsersFit
  <2>3. plotted \in ListsOf(OwnSignals) /\ Level(plotted)
    <3>1. ParsersFit(list, points) /\ list \in ListsOf(OwnSignals) /\ Level(list)
      BY <2>1 DEF InSession, ListShown
    <3> QED BY <1>1, <1>2, <1>3, <3>1, PlottedInSession
  <2>4. ~plotted.crashed
    BY <1>1, <1>9
  <2> HIDE DEF results
  <2>5. SameSignals(list, plotted)
    BY <1>2, <1>3, <1>4, <2>4, PlottedRows
  <2>6. ActiveIds(plotted) = ActiveIds(list) /\ ExportedRows(plotted) = Append(ExportedRows(list), line)
    <3>1. Level(list)
      BY <2>1 DEF ListShown
    <3> QED BY <1>2, <1>3, <1>4, <2>2, <2>3, <2>4, <3>1, LineAppended
  <2>7. line \in Lines
    BY <1>5, <2>4
  <2>8. ActiveRows(plotted) = ActiveRows(list) /\ ActiveExpressions(plotted) = ActiveExpressions(list)
    BY <1>3, <1>6, <2>5, SameActiveOnes
  <2> HIDE DEF plotted, line
  <2>9. Kept(log', plotted)
    <3>1. Kept(log, list) /\ log' = ExportDataLine(log, line, timeout, ok)
      BY <1>1, <2>1, <2>4 DEF ListShown
    <3> QED BY <1>3, <2>6, <2>7, <3>1, LineExported
  <2>10. ListShown'
    BY <1>1, <2>3, <2>9 DEF ListShown
  <2>11. InSession'
    BY <1>1, <2>1, <2>8 DEF InSession, ParsersFit
  <2> QED BY <2>10, <2>11
<1> QED BY <1>8, <1>9 DEF IInv, Alive

(* A session starts: every active signal gets a parser that finds its      *)
(* points in the list that is polled, and a file with no line yet.         *)
LEMMA StartKeeps ==
    ASSUME IInv, NEW active \in BOOLEAN, NEW ok \in BOOLEAN, Start(active, ok)
    PROVE  IInv'
<1> DEFINE expressions == ActiveExpressions(list)
           all == DataPoints(expressions)
           cleared == SeriesCleared(list)
           rewritten == RewriteDataFile(log, cleared, ok)
           n == Len(ActiveRows(list))
<1>1. /\ ~list.crashed /\ gui # "STARTED" /\ ActiveRows(list) # << >>
      /\ parsers' = [k \in DOMAIN ActiveRows(list) |-> Parser(expressions[k], all)]
      /\ UNCHANGED <<now, lastId, edits, crashes>>
  BY DEF Start, Alive, counters
<1>2. \/ /\ list' = cleared /\ points' = all /\ polling' = active
         /\ gui' = IF active THEN "STARTED" ELSE "STOPPED"
         /\ log' = IF active THEN EnableExporter(rewritten, cleared, ok)
                   ELSE DisableExporter(rewritten, ok)
         /\ swapped' = FALSE
      \/ UNCHANGED <<list, points, polling, gui, log, swapped>>
  BY DEF Start
<1>3. list \in ListsOf(Signals) /\ log \in Logs
  BY DEF IInv, Typed
<1>4. /\ n \in Nat /\ DOMAIN ActiveRows(list) = 1 .. n /\ DOMAIN expressions = 1 .. n
      /\ \A k \in 1 .. n : expressions[k] \in Expressions
  <2>1. /\ n \in Nat /\ DOMAIN ActiveRows(list) = 1 .. n
        /\ \A k \in DOMAIN ActiveRows(list) : ActiveRows(list)[k] \in DOMAIN list.rows
    BY <1>3, ActiveOnes
  <2>2. \A i \in DOMAIN list.rows : list.rows[i].expression \in Expressions
    BY <1>3, SignalSets, RowsOf, SignalFields
  <2> HIDE DEF n
  <2> QED BY <2>1, <2>2 DEF ActiveExpressions
<1>5. Len(expressions) = n
  <2> HIDE DEF expressions, n
  <2> QED BY <1>4, LenProperties
<1> HIDE DEF n
<1>6. all \in PointLists /\ \A k \in 1 .. n : Range(Reads[expressions[k]]) \subseteq Range(all)
  BY <1>4, <1>5, ParsedExpressions
<1>7. \A k \in 1 .. n : /\ parsers'[k] \in Parsers
                        /\ ParserReads(parsers'[k], expressions[k], all)
  <2> HIDE DEF expressions, all
  <2> QED BY <1>1, <1>4, <1>6, ParserOf
<1>8. DOMAIN parsers' = 1 .. n /\ parsers' \in Seq(Parsers)
  <2>1. DOMAIN parsers' = 1 .. n
    BY <1>1, <1>4
  <2>2. parsers' \in [1 .. n -> Parsers]
    BY <1>1, <1>4, <1>7, <2>1
  <2> QED BY <1>4, <2>1, <2>2
<1> HIDE DEF expressions, all
<1>9. CASE UNCHANGED <<list, points, polling, gui, log, swapped>>
  <2>1. Typed'
    BY <1>1, <1>8, <1>9 DEF IInv, Typed
  <2>2. ASSUME ~swapped'
        PROVE  ListShown' /\ ~polling'
    <3>1. ListShown /\ ~polling
      BY <1>1, <1>9, <2>2 DEF IInv, Alive, InSession
    <3> QED BY <1>9, <3>1 DEF ListShown
  <2> QED BY <2>1, <2>2 DEF IInv
<1>10. CASE /\ list' = cleared /\ points' = all /\ polling' = active
            /\ gui' = IF active THEN "STARTED" ELSE "STOPPED"
            /\ log' = IF active THEN EnableExporter(rewritten, cleared, ok)
                      ELSE DisableExporter(rewritten, ok)
            /\ swapped' = FALSE
  <2>1. /\ cleared \in ListsOf(Signals) /\ Level(cleared) /\ SameSignals(list, cleared)
        /\ \A i \in DOMAIN cleared.rows : cleared.rows[i].data = << >>
    BY <1>3, SignalSets, ClearedSeries
  <2>2. /\ ActiveRows(cleared) = ActiveRows(list)
        /\ ActiveExpressions(cleared) = expressions
    BY <1>3, <2>1, SameActiveOnes DEF expressions
  <2> HIDE DEF cleared
  <2>3. cleared \in ListsOf(OwnSignals)
    <3>1. ASSUME NEW i \in DOMAIN cleared.rows
          PROVE  cleared.rows[i] \in OwnSignals
      <4>1. cleared.rows[i] \in Signals
        BY <2>1, SignalSets, RowsOf
      <4>2. NothingMeasured(cleared.rows[i].data)
        BY <2>1 DEF NothingMeasured
      <4> QED BY <4>1, <4>2, SignalSets DEF Closed
    <3> QED BY <2>1, <3>1, ListOfRows
  <2>4. rewritten \in Logs /\ rewritten.buffer = << >> /\ Shows(rewritten, cleared)
    BY <1>3, <2>1, FileRewritten
  <2> HIDE DEF rewritten
  <2>5. log' \in Logs /\ log'.buffer = << >> /\ Shows(log', cleared)
    <3>1. CASE active
      BY <1>10, <2>1, <2>4, <3>1, ExporterEnabled
    <3>2. CASE ~active
      <4>1. Kept(rewritten, cleared)
        BY <2>4 DEF Kept
      <4>2. log' = DisableExporter(rewritten, ok)
        BY <1>10, <3>2
      <4> QED BY <2>4, <4>1, <4>2, ExporterDisabled
    <3> QED BY <3>1, <3>2
  <2>6. Typed'
    BY <1>1, <1>6, <1>8, <1>10, <2>1, <2>5 DEF IInv, Typed
  <2>7. ListShown'
    BY <1>10, <2>1, <2>3, <2>5 DEF ListShown, Kept
  <2>8. ASSUME polling'
        PROVE  InSession'
    <3>1. gui' = "STARTED" /\ list' = cleared /\ points' = all
      BY <1>10, <2>8
    <3>2. DOMAIN parsers' = DOMAIN ActiveRows(cleared)
      BY <1>4, <1>8, <2>2
    <3> QED BY <1>1, <1>7, <1>8, <2>2, <3>1, <3>2 DEF InSession, ParsersFit
  <2> QED BY <2>6, <2>7, <2>8 DEF IInv
<1> QED BY <1>2, <1>9, <1>10

(* Every step keeps the invariant. *)
LEMMA NextInv == IInv /\ [Next]_vars => IInv'
<1> SUFFICES ASSUME IInv, [Next]_vars PROVE IInv'
  OBVIOUS
<1>1. CASE UNCHANGED vars
  <2>1. UNCHANGED <<list, gui, polling, parsers, points, log, swapped, lastId, now, edits, crashes>>
    BY <1>1 DEF vars
  <2>2. Typed'
    BY <2>1 DEF IInv, Typed
  <2>3. (Alive /\ ~swapped => ListShown /\ (polling => InSession))'
    BY <2>1 DEF IInv, Alive, ListShown, InSession, ParsersFit
  <2> QED BY <2>2, <2>3 DEF IInv
<1>2. CASE Crash
  BY <1>2, CrashKeeps
<1>3. CASE ToggleWriting
  BY <1>3, ToggleWritingKeeps
<1>4. ASSUME NEW ok \in BOOLEAN, Stop(ok) \/ SessionError(ok)
      PROVE  IInv'
  BY <1>4, StoppedKeeps DEF Stop, SessionError
<1>5. ASSUME NEW ok \in BOOLEAN, NEW active \in BOOLEAN, Start(active, ok)
      PROVE  IInv'
  BY <1>5, StartKeeps
<1>6. ASSUME NEW ok \in BOOLEAN, Clear(ok)
      PROVE  IInv'
  BY <1>6, ClearKeeps
<1>7. ASSUME NEW ok \in BOOLEAN, NEW answered \in SUBSET Adapters,
             NEW quality \in [Range(points) -> PolledQualities], NEW timeout \in BOOLEAN,
             PollCycle(answered, quality, timeout, ok)
      PROVE  IInv'
  BY <1>7, PollCycleKeeps
<1>8. ASSUME NEW ok \in BOOLEAN, NEW expression \in Expressions, AddToList(expression, ok)
      PROVE  IInv'
  BY <1>8, AddToListKeeps
<1>9. ASSUME NEW ok \in BOOLEAN, NEW row \in DOMAIN list.rows, RemoveFromList(row, ok)
      PROVE  IInv'
  BY <1>9, RemoveFromListKeeps
<1>10. ASSUME NEW ok \in BOOLEAN, NEW row \in DOMAIN list.rows, ToggleActive(row, ok)
       PROVE  IInv'
  BY <1>10, ToggleActiveKeeps
<1>11. ASSUME NEW ok \in BOOLEAN, NEW row \in DOMAIN list.rows, NEW to \in DOMAIN list.rows,
              MoveInList(row, to, ok)
       PROVE  IInv'
  BY <1>11, MoveInListKeeps
<1>12. ASSUME NEW ok \in BOOLEAN, NEW row \in DOMAIN list.rows, NEW expression \in Expressions,
              ChangeExpression(row, expression, ok)
       PROVE  IInv'
  BY <1>12, ChangeExpressionKeeps
<1>13. ASSUME NEW ok \in BOOLEAN, NEW project \in ProjectLists, NEW writing \in BOOLEAN,
              OpenProject(project, writing, ok)
       PROVE  IInv'
  BY <1>13, OpenProjectKeeps
<1> QED
  BY <1>1, <1>2, <1>3, <1>4, <1>5, <1>6, <1>7, <1>8, <1>9, <1>10, <1>11, <1>12, <1>13 DEF Next

(* The invariant holds in every behaviour of the session. *)
THEOREM SessionInvariant == Spec => []IInv
<1>1. Init => IInv
  BY InitInv
<1>2. IInv /\ [Next]_vars => IInv'
  BY NextInv
<1> QED BY <1>1, <1>2, PTL DEF Spec

-----------------------------------------------------------------------------
(* What it says. *)

(* A list without repetition has as many places as members. *)
LEMMA PlacesAndMembers ==
    ASSUME NEW found \in PointLists
    PROVE  Len(found) = Cardinality(Range(found))
<1> DEFINE n == Len(found)
<1>1. n \in Nat /\ DOMAIN found = 1 .. n /\ OnceIn(found)
  BY DEF PointLists
<1>2. IsFiniteSet(1 .. n) /\ Cardinality(1 .. n) = n
  <2> HIDE DEF n
  <2> DEFINE first == 1
  <2>1. first \in Int /\ n \in Int
    BY <1>1
  <2> HIDE DEF first
  <2>2. IsFiniteSet(first .. n) /\ Cardinality(first .. n) = IF first > n THEN 0 ELSE n - first + 1
    BY <2>1, FS_Interval
  <2> QED BY <1>1, <2>2 DEF first
<1>3. found \in Bijection(1 .. n, Range(found))
  <2> HIDE DEF n
  <2>1. found \in [1 .. n -> Range(found)]
    <3>1. found = [i \in 1 .. n |-> found[i]]
      BY <1>1 DEF PointLists
    <3>2. \A i \in 1 .. n : found[i] \in Range(found)
      BY <1>1 DEF Range
    <3> QED BY <3>1, <3>2
  <2> QED BY <1>1, <2>1 DEF Bijection, Injection, Surjection, IsInjective, OnceIn, Range
<1> HIDE DEF n
<1>4. Cardinality(Range(found)) = n
  BY <1>2, <1>3, FS_Bijection DEF ExistsBijection
<1> QED BY <1>4 DEF n

(* Whatever happens to the list, the session and the file, every signal,   *)
(* sample, point and parser is one of those the model speaks of, and no    *)
(* data point is polled twice (ExpressionParser::findOrAddDataPoint).      *)
THEOREM LoggingTyped == Spec => []TypeOK
<1>1. IInv => TypeOK
  <2> SUFFICES ASSUME Typed PROVE TypeOK
    BY DEF IInv
  <2>1. ASSUME NEW i \in DOMAIN list.rows
        PROVE  /\ list.rows[i].id \in 1 .. MaxIds /\ list.rows[i].expression \in Expressions
               /\ \A k \in DOMAIN list.rows[i].data : SampleOK(list.rows[i].data[k])
    <3>1. list.rows[i] \in Signals
      BY <2>1, SignalSets, RowsOf DEF Typed
    <3>2. list.rows[i].data \in Seq(Samples)
      BY <3>1, SignalFields
    <3>3. \A k \in DOMAIN list.rows[i].data : list.rows[i].data[k] \in Samples
      BY <3>2
    <3>4. \A sample \in Samples : SampleOK(sample)
      <4> TAKE sample \in Samples
      <4> HIDE DEF Values
      <4>1. sample.at \in 1 .. MaxCycles /\ sample.quality \in Qualities /\ sample.value \in Values
        BY DEF Samples
      <4> QED BY <4>1 DEF SampleOK, Values
    <3> QED BY <3>1, <3>3, <3>4, SignalFields
  <2>2. {polling, swapped, log.writing, log.behind, list.crashed} \subseteq BOOLEAN
    BY DEF Typed, Logs, ListsOf
  <2>3. Range(points) \subseteq Points /\ Len(points) = Cardinality(Range(points))
    <3>1. points \in PointLists /\ points \in Seq(Points)
      BY DEF Typed, PointLists
    <3>2. Range(points) \subseteq Points
      BY <3>1 DEF Range
    <3> QED BY <3>1, <3>2, PlacesAndMembers
  <2>4. ASSUME NEW k \in DOMAIN parsers
        PROVE  Range(parsers[k].indices) \subseteq Nat
    <3>1. parsers[k] \in Parsers
      BY <2>4 DEF Typed
    <3>2. parsers[k].indices \in Seq(Nat)
      BY <3>1 DEF Parsers
    <3> QED BY <3>2 DEF Range
  <2> QED BY <2>1, <2>2, <2>3, <2>4 DEF Typed, TypeOK
<1> QED BY <1>1, SessionInvariant, PTL

(* Every value measured for a signal was computed from the data points of  *)
(* its own expression, in the cycle of its sample, for any sharing of      *)
(* points between expressions and adapters and any change of the list but  *)
(* a project loaded into the running session (ExpressionParser,            *)
(* AdapterPoll, GraphDataHandler, GraphView).                              *)
THEOREM ValuesFromOwnPoints == Spec => []MeasuredFromOwnPoints
<1>1. IInv => MeasuredFromOwnPoints
  <2> SUFFICES ASSUME IInv, Alive, ~swapped, NEW i \in DOMAIN list.rows,
                      NEW k \in DOMAIN list.rows[i].data,
                      list.rows[i].data[k].quality \in Usable
               PROVE  IsOwn(list.rows[i].data[k], list.rows[i].expression)
    BY DEF MeasuredFromOwnPoints, IsOwn
  <2>1. list \in ListsOf(OwnSignals)
    BY DEF IInv, ListShown
  <2>2. list.rows[i] \in OwnSignals
    BY <2>1, SignalSets, RowsOf
  <2> QED BY <2>2 DEF OwnSignals, Own
<1> QED BY <1>1, SessionInvariant, PTL

(* The temporary file with the lines that wait for it is the plotted       *)
(* series, after every poll, clear, stop, error and change of the list,    *)
(* unless it is known to be behind, or a project was loaded into the       *)
(* running session (DataFileExporter).                                     *)
THEOREM FileKeptComplete == Spec => []LogFileIsComplete
<1>1. IInv => LogFileIsComplete
  BY DEF IInv, ListShown, Kept, Shows, LogFileIsComplete
<1> QED BY <1>1, SessionInvariant, PTL
=============================================================================
