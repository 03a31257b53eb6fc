----------------------- MODULE SignalListDraft_proof -----------------------
(***************************************************************************)
(* Proofs about SignalStore and SignalListDraft for any expressions,       *)
(* devices and bounds.                                                     *)
(*                                                                         *)
(* A list is Sound when its series are aligned, its plot is drawn, its     *)
(* selection is shown and its verdicts are current; every operation of     *)
(* SignalStore keeps it so.  SignalListDraft's inductive invariant says    *)
(* this of both lists, and that rows and origins stand for each other.     *)
(*                                                                         *)
(* The loops of the code are recursive functions of the turns taken.       *)
(* About each there is a lemma on one turn and one on all of them, which   *)
(* first shows that the function exists (Works, Failing) and then that no  *)
(* turn is the first to go wrong (Failing), by LeastExists both times: no  *)
(* lemma on induction can take the turn as a parameter.                    *)
(***************************************************************************)
EXTENDS SignalListDraft, OrderedSets_proof, SequenceTheorems

Signals == [id : Nat, expression : Expressions, active : BOOLEAN, visible : BOOLEAN,
            state : States, data : Seq(Samples)]
Lists == [rows : Seq(Signals), selected : Nat, plotted : BOOLEAN, graphs : Seq(Nat),
          crashed : BOOLEAN]

(* The series of a list: active signals share their times, the others and  *)
(* those of a list without a plot have none.                               *)
DataAligned(m) ==
    /\ \A i \in DOMAIN m.rows : ~m.rows[i].active => m.rows[i].data = << >>
    /\ \A i, j \in DOMAIN m.rows :
          m.rows[i].active /\ m.rows[j].active => Times(m.rows[i]) = Times(m.rows[j])
    /\ ~m.plotted => \A i \in DOMAIN m.rows : m.rows[i].data = << >>
Drawn(m) == m.plotted => m.graphs = ActiveIds(m)
SelectionShown(m) ==
    /\ m.selected \in 0 .. Size(m)
    /\ m.selected # 0 => m.rows[m.selected].visible
Judged(m, devs) == \A i \in DOMAIN m.rows : m.rows[i].state = Verdict(m.rows[i].expression, devs)

Sound(m, devs) ==
    m \in Lists /\ DataAligned(m) /\ Drawn(m) /\ SelectionShown(m) /\ Judged(m, devs)
-----------------------------------------------------------------------------
(* Rows and signals. *)

(* The rows of a list are signals.                                        *)
LEMMA RowsOf ==
    ASSUME NEW m \in Lists
    PROVE  /\ m.rows \in Seq(Signals) /\ Size(m) \in Nat /\ DOMAIN m.rows = 1 .. Size(m)
           /\ \A i \in DOMAIN m.rows :
                /\ m.rows[i] \in Signals /\ m.rows[i].id \in Nat
                /\ m.rows[i].data \in Seq(Samples) /\ m.rows[i].expression \in Expressions
                /\ m.rows[i].active \in BOOLEAN
<1>1. m.rows \in Seq(Signals)
  BY DEF Lists
<1>2. Size(m) \in Nat /\ DOMAIN m.rows = 1 .. Size(m) /\ \A i \in DOMAIN m.rows : m.rows[i] \in Signals
  BY <1>1 DEF Size
<1>3. \A s \in Signals : /\ s.id \in Nat /\ s.data \in Seq(Samples) /\ s.expression \in Expressions
                         /\ s.active \in BOOLEAN
  BY DEF Signals
<1> QED BY <1>1, <1>2, <1>3

(* A verdict is a state. *)
LEMMA VerdictIsState == \A e, devs : Verdict(e, devs) \in States
BY DEF Verdict, States

(* The same list with other rows, or other graphs. *)
LEMMA OtherRows ==
    ASSUME NEW m \in Lists, NEW rows \in Seq(Signals)
    PROVE  /\ [m EXCEPT !.rows = rows] \in Lists
           /\ [m EXCEPT !.rows = rows].rows = rows
           /\ [m EXCEPT !.rows = rows].plotted = m.plotted
           /\ [m EXCEPT !.rows = rows].graphs = m.graphs
           /\ [m EXCEPT !.rows = rows].selected = m.selected
           /\ [m EXCEPT !.rows = rows].crashed = m.crashed
BY DEF Lists

(* The same list with other graphs.                                       *)
LEMMA OtherGraphs ==
    ASSUME NEW m \in Lists, NEW graphs \in Seq(Nat)
    PROVE  /\ [m EXCEPT !.graphs = graphs] \in Lists
           /\ [m EXCEPT !.graphs = graphs].rows = m.rows
           /\ [m EXCEPT !.graphs = graphs].plotted = m.plotted
           /\ [m EXCEPT !.graphs = graphs].graphs = graphs
           /\ [m EXCEPT !.graphs = graphs].selected = m.selected
           /\ [m EXCEPT !.graphs = graphs].crashed = m.crashed
BY DEF Lists

(* The same list with another row. *)
LEMMA OtherRow ==
    ASSUME NEW m \in Lists, NEW i \in DOMAIN m.rows, NEW s \in Signals
    PROVE  /\ [m EXCEPT !.rows[i] = s] \in Lists
           /\ Size([m EXCEPT !.rows[i] = s]) = Size(m)
           /\ \A j \in DOMAIN m.rows : [m EXCEPT !.rows[i] = s].rows[j] = IF j = i THEN s ELSE m.rows[j]
           /\ [m EXCEPT !.rows[i] = s].plotted = m.plotted
           /\ [m EXCEPT !.rows[i] = s].graphs = m.graphs
           /\ [m EXCEPT !.rows[i] = s].selected = m.selected
           /\ [m EXCEPT !.rows[i] = s].crashed = m.crashed
<1>1. m.rows \in Seq(Signals)
  BY DEF Lists
<1>2. [m.rows EXCEPT ![i] = s] \in Seq(Signals) /\ Len([m.rows EXCEPT ![i] = s]) = Len(m.rows)
  BY <1>1
<1>3. \A j \in DOMAIN m.rows : [m.rows EXCEPT ![i] = s][j] = IF j = i THEN s ELSE m.rows[j]
  BY <1>1
<1>4. [m EXCEPT !.rows[i] = s] = [m EXCEPT !.rows = [m.rows EXCEPT ![i] = s]]
  BY DEF Lists
<1> DEFINE rows == [m.rows EXCEPT ![i] = s]
<1> HIDE DEF rows
<1>5. rows \in Seq(Signals) /\ Len(rows) = Len(m.rows)
  BY <1>2 DEF rows
<1>6. \A j \in DOMAIN m.rows : rows[j] = IF j = i THEN s ELSE m.rows[j]
  BY <1>3 DEF rows
<1>7. [m EXCEPT !.rows[i] = s] = [m EXCEPT !.rows = rows]
  BY <1>4 DEF rows
<1> QED BY <1>5, <1>6, <1>7, OtherRows DEF Size

(* The active rows, in their order. *)
LEMMA ActiveOnes ==
    ASSUME NEW m \in Lists
    PROVE  /\ Active(m) \in SUBSET (1 .. Size(m)) /\ Size(m) \in Nat
           /\ ActiveIds(m) \in Seq(Nat)
<1>1. Active(m) \in SUBSET (1 .. Size(m)) /\ Size(m) \in Nat
  BY RowsOf DEF Active
<1> DEFINE a == Ascending(Active(m))
           n == Cardinality(Active(m))
<1>2. n \in Nat /\ a \in [1 .. n -> Active(m)]
  BY <1>1, AscendingOrder
<1> HIDE DEF a, n
<1>3. \A k \in DOMAIN a : m.rows[a[k]].id \in Nat
  BY <1>2, RowsOf DEF Active
<1>4. ActiveIds(m) = [k \in DOMAIN a |-> m.rows[a[k]].id]
  BY DEF ActiveIds, ActiveRows, a
<1>5. ActiveIds(m) \in [1 .. n -> Nat]
  BY <1>2, <1>3, <1>4
<1> QED BY <1>1, <1>2, <1>5

(* The plot depends on the ids and the activity of the rows only. *)
LEMMA SameActiveOnes ==
    ASSUME NEW m \in Lists, NEW n \in Lists, Size(m) = Size(n),
           \A i \in DOMAIN m.rows : m.rows[i].id = n.rows[i].id /\ m.rows[i].active = n.rows[i].active
    PROVE  Active(m) = Active(n) /\ ActiveIds(m) = ActiveIds(n)
<1>1. Active(m) = Active(n)
  BY RowsOf DEF Active
<1> DEFINE a == Ascending(Active(m))
<1>2. a \in [1 .. Cardinality(Active(m)) -> Active(m)]
  BY ActiveOnes, AscendingOrder
<1>3. \A k \in DOMAIN a : m.rows[a[k]].id = n.rows[a[k]].id
  BY <1>2, RowsOf DEF Active
<1>4. a = Ascending(Active(n))
  BY <1>1
<1>5. [k \in DOMAIN a |-> m.rows[a[k]].id] = [k \in DOMAIN a |-> n.rows[a[k]].id]
  BY <1>3
<1> QED BY <1>1, <1>4, <1>5 DEF ActiveIds, ActiveRows

-----------------------------------------------------------------------------
(* Series. *)

(* Series of the same times have the same length. *)
LEMMA SameLength ==
    ASSUME NEW s \in Signals, NEW t \in Signals, Times(s) = Times(t)
    PROVE  Len(s.data) = Len(t.data)
<1>1. s.data \in Seq(Samples) /\ t.data \in Seq(Samples)
  BY DEF Signals
<1>2. DOMAIN s.data = DOMAIN t.data
  <2>1. DOMAIN Times(s) = DOMAIN s.data /\ DOMAIN Times(t) = DOMAIN t.data
    BY DEF Times
  <2> QED BY <2>1
<1> QED BY <1>1, <1>2

(* The blank of a series: its times, and nothing measured. *)
LEMMA BlankOf ==
    ASSUME NEW data \in Seq(Samples), NEW s \in Signals
    PROVE  /\ Blank(data) \in Seq(Samples) /\ NothingMeasured(Blank(data))
           /\ [s EXCEPT !.data = Blank(data)] \in Signals
           /\ \A t \in Signals : t.data = data => Times([s EXCEPT !.data = Blank(data)]) = Times(t)
<1> DEFINE b == [k \in DOMAIN data |-> SampleOf(data[k].at, Zero, "NoValue")]
<1>2. DOMAIN data = 1 .. Len(data) /\ Len(data) \in Nat /\ \A k \in DOMAIN data : data[k] \in Samples
  OBVIOUS
<1>0. \A sample \in Samples : /\ SampleOf(sample.at, Zero, "NoValue") \in Samples
                              /\ SampleOf(sample.at, Zero, "NoValue").at = sample.at
                              /\ SampleOf(sample.at, Zero, "NoValue").quality = "NoValue"
  BY DEF Samples, SampleOf
<1>1. \A k \in DOMAIN data : b[k] \in Samples /\ b[k].at = data[k].at /\ b[k].quality = "NoValue"
  BY <1>0, <1>2
<1>3. b \in Seq(Samples) /\ Len(b) = Len(data)
  BY <1>1, <1>2
<1>4. Blank(data) = b
  BY <1>3 DEF Blank
<1> HIDE DEF b
<1>5. [s EXCEPT !.data = b] \in Signals /\ [s EXCEPT !.data = b].data = b
  BY <1>3 DEF Signals
<1>6. DOMAIN b = DOMAIN data
  BY <1>2, <1>3
<1> QED BY <1>1, <1>2, <1>3, <1>4, <1>5, <1>6 DEF NothingMeasured, Times

(* The longest series, and the first one of its length. *)
LEMMA LongestSeries ==
    ASSUME NEW m \in Lists, NEW n \in Nat, NEW i \in Active(m), Len(m.rows[i].data) = n,
           \A j \in Active(m) : Len(m.rows[j].data) <= n
    PROVE  /\ Longest(m) = n
           /\ \E j \in Active(m) : FirstLongest(m) = m.rows[j].data /\ Len(m.rows[j].data) = n
<1>1. Active(m) \in SUBSET Nat
  BY ActiveOnes
<1>2. Longest(m) = n
  BY DEF Longest
<1> DEFINE S == {j \in Active(m) : Len(m.rows[j].data) = n}
<1>3. S \in SUBSET Nat /\ i \in S
  BY <1>1
<1>4. Min(S) \in S
  BY <1>3, MinIsLeast
<1> QED BY <1>2, <1>4 DEF FirstLongest

-----------------------------------------------------------------------------
(* The plot. *)

(* A list of the same signals, drawn. *)
Redrawn(m, n) ==
    /\ n \in Lists /\ Size(n) = Size(m) /\ DOMAIN n.rows = DOMAIN m.rows
    /\ n.plotted = m.plotted /\ n.selected = m.selected /\ n.crashed = m.crashed
    /\ Drawn(n)

(* What updateGraphs() makes of every row. *)
LEMMA EveryRow ==
    ASSUME NEW m \in Lists, m.plotted,
           \A i \in Active(m) : Len(m.rows[i].data) # Longest(m) => FirstLongest(m) \in Seq(Samples)
    PROVE  /\ Redrawn(m, UpdateGraphs(m))
           /\ \A i \in DOMAIN m.rows :
                 UpdateGraphs(m).rows[i] =
                     IF m.rows[i].active /\ Len(m.rows[i].data) # Longest(m)
                     THEN [m.rows[i] EXCEPT !.data = Blank(FirstLongest(m))] ELSE m.rows[i]
<1> DEFINE n == UpdateGraphs(m)
           drawn == [m EXCEPT !.graphs = ActiveIds(m)]
           row(i) == IF m.rows[i].active /\ Len(m.rows[i].data) # Longest(m)
                     THEN [m.rows[i] EXCEPT !.data = Blank(FirstLongest(m))] ELSE m.rows[i]
           rows == [i \in DOMAIN m.rows |-> row(i)]
<1>1. /\ drawn \in Lists /\ drawn.rows = m.rows /\ drawn.plotted = m.plotted
      /\ drawn.graphs = ActiveIds(m) /\ drawn.selected = m.selected /\ drawn.crashed = m.crashed
  BY ActiveOnes, OtherGraphs
<1>2. \A i \in DOMAIN m.rows : row(i) \in Signals /\ row(i).id = m.rows[i].id
                               /\ row(i).active = m.rows[i].active
  <2> TAKE i \in DOMAIN m.rows
  <2>1. m.rows[i] \in Signals
    BY RowsOf
  <2>2. CASE m.rows[i].active /\ Len(m.rows[i].data) # Longest(m)
    <3>1. [m.rows[i] EXCEPT !.data = Blank(FirstLongest(m))] \in Signals
      BY <2>1, <2>2, BlankOf DEF Active
    <3> QED BY <2>1, <2>2, <3>1 DEF Signals
  <2>3. CASE ~(m.rows[i].active /\ Len(m.rows[i].data) # Longest(m))
    BY <2>1, <2>3
  <2> QED BY <2>2, <2>3
<1>3. rows \in Seq(Signals) /\ Len(rows) = Len(m.rows) /\ SubSeq(rows, 1, Len(m.rows)) = rows
  <2>1. m.rows \in Seq(Signals)
    BY RowsOf
  <2> HIDE DEF row
  <2> QED BY <1>2, <2>1
<1>4. n = [drawn EXCEPT !.rows = rows]
  <2>1. n = [drawn EXCEPT !.rows = SubSeq(rows, 1, Len(m.rows))]
    BY <1>1 DEF UpdateGraphs, MapRows
  <2> QED BY <2>1, <1>3
<1> HIDE DEF drawn, n, row
<1>5. /\ n \in Lists /\ n.rows = rows /\ n.plotted = m.plotted
      /\ n.graphs = ActiveIds(m) /\ n.selected = m.selected /\ n.crashed = m.crashed
  BY <1>1, <1>3, <1>4, OtherRows
<1>6. Size(n) = Size(m) /\ \A i \in DOMAIN m.rows : n.rows[i] = row(i)
  BY <1>3, <1>5 DEF Size
<1> HIDE DEF rows
<1>7. ActiveIds(n) = ActiveIds(m)
  BY <1>2, <1>5, <1>6, SameActiveOnes
<1>8. DOMAIN n.rows = DOMAIN m.rows
  BY <1>5, <1>6, RowsOf
<1> QED BY <1>5, <1>6, <1>7, <1>8 DEF Redrawn, Drawn, n, row

(* Aligned series are drawn as they are. *)
LEMMA UpdateAligned ==
    ASSUME NEW m \in Lists, DataAligned(m)
    PROVE  Redrawn(m, UpdateGraphs(m)) /\ UpdateGraphs(m).rows = m.rows
<1>1. CASE ~m.plotted
  <2>1. UpdateGraphs(m) = m
    BY <1>1 DEF UpdateGraphs
  <2> QED BY <1>1, <2>1 DEF Redrawn, Drawn
<1>2. CASE m.plotted
  <2>1. \A i \in Active(m) : Len(m.rows[i].data) = Longest(m)
    <3> TAKE i \in Active(m)
    <3>1. \A j \in Active(m) : Len(m.rows[j].data) = Len(m.rows[i].data)
      BY RowsOf, SameLength DEF Active, DataAligned
    <3>2. Len(m.rows[i].data) \in Nat
      BY RowsOf DEF Active
    <3>3. PICK n \in Nat : n = Len(m.rows[i].data)
      BY <3>2
    <3>4. \A j \in Active(m) : Len(m.rows[j].data) <= n
      BY <3>1, <3>3
    <3>5. Longest(m) = n
      BY ONLY m \in Lists, i \in Active(m), n \in Nat, <3>3, <3>4, LongestSeries
    <3> QED BY <3>3, <3>5
  <2>2. /\ Redrawn(m, UpdateGraphs(m))
        /\ \A i \in DOMAIN m.rows : UpdateGraphs(m).rows[i] = m.rows[i]
    BY <1>2, <2>1, EveryRow DEF Active
  <2>3. UpdateGraphs(m).rows \in Seq(Signals) /\ m.rows \in Seq(Signals)
    BY <2>2, RowsOf DEF Redrawn
  <2> HIDE DEF Size
  <2> QED BY <2>2, <2>3 DEF Redrawn
<1> QED BY <1>1, <1>2

(* The signal of row k becomes active, or is added, without a series: it   *)
(* gets the times of the others, if there are any, and no measurement.     *)
LEMMA UpdateNew ==
    ASSUME NEW m \in Lists, NEW k \in DOMAIN m.rows, m.rows[k].active, m.rows[k].data = << >>,
           \A i \in DOMAIN m.rows : ~m.rows[i].active => m.rows[i].data = << >>,
           \A i, j \in DOMAIN m.rows \ {k} :
              m.rows[i].active /\ m.rows[j].active => Times(m.rows[i]) = Times(m.rows[j]),
           ~m.plotted => \A i \in DOMAIN m.rows : m.rows[i].data = << >>
    PROVE  LET n == UpdateGraphs(m)
           IN  /\ Redrawn(m, n) /\ DataAligned(n)
               /\ \A i \in DOMAIN m.rows \ {k} : n.rows[i] = m.rows[i]
               /\ n.rows[k] = [m.rows[k] EXCEPT !.data = n.rows[k].data]
               /\ NothingMeasured(n.rows[k].data)
<1> DEFINE n == UpdateGraphs(m)
           Others == Active(m) \ {k}
<1>1. m.rows[k] \in Signals /\ Len(m.rows[k].data) = 0
  BY RowsOf
<1>2. CASE ~m.plotted
  <2>1. n = m
    BY <1>2 DEF UpdateGraphs
  <2>2. \A i, j \in DOMAIN m.rows : Times(m.rows[i]) = Times(m.rows[j])
    BY <1>2 DEF Times
  <2> QED BY <1>1, <1>2, <2>1, <2>2 DEF Redrawn, Drawn, DataAligned, NothingMeasured, Signals
<1>3. CASE m.plotted /\ \A i \in Others : m.rows[i].data = << >>
  <2>1. \A i \in DOMAIN m.rows : m.rows[i].data = << >>
    BY <1>3 DEF Active
  <2>2. DataAligned(m)
    BY <1>3, <2>1 DEF DataAligned, Times
  <2>3. Redrawn(m, n) /\ n.rows = m.rows
    BY <2>2, UpdateAligned
  <2>4. DataAligned(n)
    BY <2>1, <2>2, <2>3 DEF DataAligned, Redrawn
  <2> QED BY <1>1, <2>1, <2>3, <2>4 DEF NothingMeasured, Signals
<1>4. CASE m.plotted /\ \E i \in Others : m.rows[i].data # << >>
  <2>1. PICK i \in Others : m.rows[i].data # << >>
    BY <1>4
  <2> DEFINE l == Len(m.rows[i].data)
  <2>2. l \in Nat /\ l # 0
    BY <2>1, RowsOf DEF Active
  <2>3. \A j \in Others : Times(m.rows[j]) = Times(m.rows[i]) /\ Len(m.rows[j].data) = l
    BY <2>1, RowsOf, SameLength DEF Active
  <2>4. Longest(m) = l /\ \E j \in Active(m) : FirstLongest(m) = m.rows[j].data /\ Len(m.rows[j].data) = l
    <3>1. \A j \in Active(m) : Len(m.rows[j].data) <= l
      BY <1>1, <2>2, <2>3
    <3>2. i \in Active(m)
      BY <2>1
    <3> HIDE DEF Others
    <3> QED BY <2>2, <3>1, <3>2, LongestSeries
  <2>5. PICK j \in Others : FirstLongest(m) = m.rows[j].data
    BY <1>1, <2>2, <2>4
  <2>6. m.rows[j] \in Signals /\ FirstLongest(m) \in Seq(Samples)
    BY <2>5, RowsOf DEF Active
  <2> DEFINE blank == [m.rows[k] EXCEPT !.data = Blank(FirstLongest(m))]
  <2>7. /\ blank \in Signals /\ NothingMeasured(Blank(FirstLongest(m)))
        /\ Times(blank) = Times(m.rows[j])
    <3>1. /\ m.rows[k] \in Signals /\ m.rows[j] \in Signals
          /\ FirstLongest(m) \in Seq(Samples) /\ m.rows[j].data = FirstLongest(m)
      BY <1>1, <2>5, <2>6
    <3> QED BY ONLY <3>1, BlankOf
  <2>8. blank.data = Blank(FirstLongest(m)) /\ blank.active = m.rows[k].active
    BY <1>1 DEF Signals
  <2>9. /\ Redrawn(m, n)
        /\ \A r \in DOMAIN m.rows \ {k} : n.rows[r] = m.rows[r]
        /\ n.rows[k] = blank
    <3> HIDE DEF n, l, blank
    <3>1. /\ m \in Lists /\ m.plotted
          /\ \A r \in Active(m) : Len(m.rows[r].data) # Longest(m) => FirstLongest(m) \in Seq(Samples)
      BY <1>4, <2>6
    <3>2. /\ Redrawn(m, UpdateGraphs(m))
          /\ \A r \in DOMAIN m.rows :
                UpdateGraphs(m).rows[r] =
                    IF m.rows[r].active /\ Len(m.rows[r].data) # Longest(m)
                    THEN [m.rows[r] EXCEPT !.data = Blank(FirstLongest(m))] ELSE m.rows[r]
      BY ONLY <3>1, EveryRow
    <3>3. Longest(m) = l /\ \A r \in DOMAIN m.rows \ {k} : m.rows[r].active => Len(m.rows[r].data) = l
      BY <2>3, <2>4 DEF Active
    <3>4. m.rows[k].active /\ Len(m.rows[k].data) # Longest(m)
      BY <1>1, <2>2, <3>3
    <3> QED BY <3>2, <3>3, <3>4 DEF n, blank
  <2> HIDE DEF blank, l, n
  <2>10. Times(blank) = Times(m.rows[i])
    BY <2>3, <2>5, <2>7
  <2>11. DataAligned(n)
    <3>1. DOMAIN n.rows = DOMAIN m.rows /\ n.plotted
      BY <1>4, <2>9 DEF Redrawn
    <3>2. \A r \in DOMAIN m.rows \ {k} : m.rows[r].active => Times(m.rows[r]) = Times(m.rows[i])
      BY <2>3 DEF Active
    <3>3. \A r \in DOMAIN m.rows : n.rows[r].active => Times(n.rows[r]) = Times(m.rows[i])
      BY <2>9, <2>10, <3>2
    <3>4. \A r \in DOMAIN m.rows : ~n.rows[r].active => n.rows[r].data = << >>
      BY <2>8, <2>9
    <3> QED BY <3>1, <3>3, <3>4 DEF DataAligned
  <2> QED BY <2>7, <2>8, <2>9, <2>11 DEF n, blank
<1> QED BY <1>2, <1>3, <1>4

-----------------------------------------------------------------------------
(* Rows that are taken out, put in and moved. *)

(* removeAt(): the rows behind the one taken out move up.                 *)
LEMMA TakenOut ==
    ASSUME NEW S, NEW s \in Seq(S), NEW i \in 1 .. Len(s)
    PROVE  /\ RemoveAt(s, i) \in Seq(S) /\ Len(RemoveAt(s, i)) = Len(s) - 1
           /\ \A j \in 1 .. Len(s) - 1 : RemoveAt(s, i)[j] = IF j < i THEN s[j] ELSE s[j + 1]
<1> DEFINE a == SubSeq(s, 1, i - 1)
           b == SubSeq(s, i + 1, Len(s))
<1>0. Len(s) \in Nat /\ i \in Nat
  OBVIOUS
<1>1. a \in Seq(S) /\ Len(a) = i - 1 /\ \A j \in 1 .. i - 1 : a[j] = s[j]
  OBVIOUS
<1>2. b \in Seq(S) /\ Len(b) = Len(s) - i /\ \A j \in 1 .. Len(s) - i : b[j] = s[i + j]
  OBVIOUS
<1>3. RemoveAt(s, i) = a \o b
  BY DEF RemoveAt
<1> HIDE DEF a, b
<1>4. /\ a \o b \in Seq(S) /\ Len(a \o b) = Len(a) + Len(b)
      /\ \A j \in 1 .. Len(a) + Len(b) :
            (a \o b)[j] = IF j <= Len(a) THEN a[j] ELSE b[j - Len(a)]
  BY <1>1, <1>2, ConcatProperties
<1>5. Len(a) + Len(b) = Len(s) - 1
  BY <1>0, <1>1, <1>2
<1>6. ASSUME NEW j \in 1 .. Len(s) - 1 PROVE (a \o b)[j] = IF j < i THEN s[j] ELSE s[j + 1]
  <2>1. CASE j < i
    BY <1>0, <1>1, <1>4, <1>5, <2>1
  <2>2. CASE j >= i
    <3>1. ~(j <= Len(a)) /\ j - Len(a) \in 1 .. Len(s) - i /\ i + (j - Len(a)) = j + 1
      BY <1>0, <1>1, <2>2
    <3>2. ~(j < i) /\ j \in 1 .. Len(a) + Len(b)
      BY <1>0, <1>5, <2>2
    <3>3. (a \o b)[j] = b[j - Len(a)]
      BY <1>4, <3>1, <3>2
    <3>4. b[j - Len(a)] = s[j + 1]
      BY <1>2, <3>1
    <3> QED BY <3>2, <3>3, <3>4
  <2>3. j < i \/ j >= i
    BY <1>0
  <2> QED BY <2>1, <2>2, <2>3, Zenon
<1> QED BY <1>3, <1>4, <1>5, <1>6

(* insert(): the rows from the place on move down.                        *)
LEMMA PutIn ==
    ASSUME NEW S, NEW s \in Seq(S), NEW i \in 1 .. Len(s) + 1, NEW e \in S
    PROVE  /\ InsertAt(s, i, e) \in Seq(S) /\ Len(InsertAt(s, i, e)) = Len(s) + 1
           /\ \A j \in 1 .. Len(s) + 1 :
                 InsertAt(s, i, e)[j] = IF j < i THEN s[j] ELSE IF j = i THEN e ELSE s[j - 1]
<1> DEFINE a == SubSeq(s, 1, i - 1)
           b == SubSeq(s, i, Len(s))
           c == a \o <<e>>
<1>0. Len(s) \in Nat /\ i \in Nat
  OBVIOUS
<1>1. a \in Seq(S) /\ Len(a) = i - 1 /\ \A j \in 1 .. i - 1 : a[j] = s[j]
  OBVIOUS
<1>2. b \in Seq(S) /\ Len(b) = Len(s) - i + 1 /\ \A j \in 1 .. Len(s) - i + 1 : b[j] = s[i + j - 1]
  OBVIOUS
<1>3. InsertAt(s, i, e) = c \o b
  BY DEF InsertAt
<1> HIDE DEF a, b
<1>4. c \in Seq(S) /\ Len(c) = i /\ \A j \in 1 .. i : c[j] = IF j < i THEN s[j] ELSE e
  BY <1>0, <1>1
<1> HIDE DEF c
<1>5. /\ c \o b \in Seq(S) /\ Len(c \o b) = Len(c) + Len(b)
      /\ \A j \in 1 .. Len(c) + Len(b) :
            (c \o b)[j] = IF j <= Len(c) THEN c[j] ELSE b[j - Len(c)]
  BY <1>2, <1>4, ConcatProperties
<1>6. Len(c) + Len(b) = Len(s) + 1
  BY <1>0, <1>2, <1>4
<1>7. ASSUME NEW j \in 1 .. Len(s) + 1
      PROVE  (c \o b)[j] = IF j < i THEN s[j] ELSE IF j = i THEN e ELSE s[j - 1]
  <2>1. CASE j <= i
    BY <1>0, <1>4, <1>5, <1>6, <2>1
  <2>2. CASE j > i
    <3>1. ~(j <= Len(c)) /\ j - i \in 1 .. Len(s) - i + 1 /\ i + (j - i) - 1 = j - 1
      BY <1>0, <1>4, <2>2
    <3> QED BY <1>0, <1>2, <1>4, <1>5, <1>6, <2>2, <3>1
  <2>3. j <= i \/ j > i
    BY <1>0
  <2> QED BY <2>1, <2>2, <2>3, Zenon
<1> QED BY <1>3, <1>5, <1>6, <1>7

(* The place row j had before row from was moved to row to. *)
PlaceBefore(from, to, j) ==
    LET k == IF j < to THEN j ELSE j - 1
    IN  IF j = to THEN from ELSE IF k < from THEN k ELSE k + 1

(* The place it has now. *)
PlaceNow(from, to, i) ==
    LET k == IF i < from THEN i ELSE i - 1
    IN  IF i = from THEN to ELSE IF k < to THEN k ELSE k + 1

(* Every place of the list is filled by the row that has that place now.  *)
LEMMA PlaceAndBack ==
    ASSUME NEW n \in Nat, NEW from \in 1 .. n, NEW to \in 1 .. n, NEW i \in 1 .. n
    PROVE  PlaceNow(from, to, i) \in 1 .. n /\ PlaceBefore(from, to, PlaceNow(from, to, i)) = i
<1>1. CASE i = from
  BY ONLY n \in Nat, from \in 1 .. n, to \in 1 .. n, <1>1 DEF PlaceNow, PlaceBefore
<1>2. CASE i < from
  BY ONLY n \in Nat, from \in 1 .. n, to \in 1 .. n, i \in 1 .. n, <1>2 DEF PlaceNow, PlaceBefore
<1>3. CASE i > from
  BY ONLY n \in Nat, from \in 1 .. n, to \in 1 .. n, i \in 1 .. n, <1>3 DEF PlaceNow, PlaceBefore
<1>4. i = from \/ i < from \/ i > from
  OBVIOUS
<1> QED BY ONLY <1>1, <1>2, <1>3, <1>4

(* A move takes no two rows from one place. *)
LEMMA PlacesOfMove ==
    ASSUME NEW n \in Nat, NEW from \in 1 .. n, NEW to \in 1 .. n
    PROVE  /\ \A j \in 1 .. n : PlaceBefore(from, to, j) \in 1 .. n
           /\ \A i, j \in 1 .. n : PlaceBefore(from, to, i) = PlaceBefore(from, to, j) => i = j
<1>1. \A j \in 1 .. n : PlaceBefore(from, to, j) \in 1 .. n
  BY DEF PlaceBefore
<1>2. \A i, j \in 1 .. n : PlaceBefore(from, to, i) = PlaceBefore(from, to, j) => i = j
  BY DEF PlaceBefore
<1> QED BY <1>1, <1>2

Reinserted(s, from, to) == InsertAt(RemoveAt(s, from), to, s[from])

(* Every row of it comes from one of the list's. *)
IsMoved(r, S, s, from, to) ==
    r \in Seq(S) /\ Len(r) = Len(s) /\ \A j \in 1 .. Len(s) : r[j] = s[PlaceBefore(from, to, j)]

(* A row is taken out and put in at another place. *)
LEMMA MovedTo ==
    ASSUME NEW S, NEW s \in Seq(S), NEW from \in 1 .. Len(s), NEW to \in 1 .. Len(s)
    PROVE  IsMoved(Reinserted(s, from, to), S, s, from, to)
<1> DEFINE r == RemoveAt(s, from)
           e == s[from]
<1>8. e \in S /\ Len(s) \in Nat
  OBVIOUS
<1>1. /\ r \in Seq(S) /\ Len(r) = Len(s) - 1 /\ Len(s) \in Nat /\ e \in S
      /\ \A j \in 1 .. Len(s) - 1 : r[j] = IF j < from THEN s[j] ELSE s[j + 1]
  <2> HIDE DEF e
  <2>1. RemoveAt(s, from) \in Seq(S) /\ Len(RemoveAt(s, from)) = Len(s) - 1
    BY TakenOut
  <2>2. \A j \in 1 .. Len(s) - 1 : RemoveAt(s, from)[j] = IF j < from THEN s[j] ELSE s[j + 1]
    BY TakenOut
  <2> QED BY <1>8, <2>1, <2>2
<1>9. e = s[from]
  OBVIOUS
<1> HIDE DEF r, e
<1>2. to \in 1 .. Len(r) + 1
  BY <1>1
<1>3. /\ InsertAt(r, to, e) \in Seq(S) /\ Len(InsertAt(r, to, e)) = Len(r) + 1
      /\ \A j \in 1 .. Len(r) + 1 :
            InsertAt(r, to, e)[j] = IF j < to THEN r[j] ELSE IF j = to THEN e ELSE r[j - 1]
  <2>1. r \in Seq(S) /\ e \in S
    BY <1>1
  <2> QED BY <1>2, <2>1, PutIn
<1>4. ASSUME NEW j \in 1 .. Len(s) PROVE InsertAt(r, to, e)[j] = s[PlaceBefore(from, to, j)]
  <2>1. CASE j < to
    BY <1>1, <1>3, <2>1 DEF PlaceBefore
  <2>2. CASE j = to
    BY <1>1, <1>3, <1>9, <2>2 DEF PlaceBefore
  <2>3. CASE j > to
    <3>1. InsertAt(r, to, e)[j] = r[j - 1] /\ j - 1 \in 1 .. Len(s) - 1
      BY <1>1, <1>3, <2>3
    <3> QED BY <1>1, <2>3, <3>1 DEF PlaceBefore
  <2> QED BY <2>1, <2>2, <2>3
<1>5. Reinserted(s, from, to) = InsertAt(r, to, e)
  BY DEF Reinserted, r, e
<1> QED BY <1>1, <1>3, <1>4, <1>5 DEF IsMoved

-----------------------------------------------------------------------------
(* The operations on a list.  Each keeps it sound, and changes the rows as *)
(* it says.                                                                *)

(* The rows are dropped or put in another order. *)
OtherOrder(m, rows) == [m EXCEPT !.rows = rows, !.selected = 0]
FromRows(rows, m) ==
    rows \in Seq(Signals) /\ \A j \in DOMAIN rows : \E i \in DOMAIN m.rows : rows[j] = m.rows[i]

(* A list whose rows are dropped or put in another order stays sound.     *)
LEMMA Rearranged ==
    ASSUME NEW devs, NEW m, Sound(m, devs), NEW rows, FromRows(rows, m)
    PROVE  LET n == UpdateGraphs(OtherOrder(m, rows))
           IN  Sound(n, devs) /\ n.rows = rows /\ n.plotted = m.plotted
<1> DEFINE moved == OtherOrder(m, rows)
           n == UpdateGraphs(moved)
<1>0. rows \in Seq(Signals) /\ \A j \in DOMAIN rows : \E i \in DOMAIN m.rows : rows[j] = m.rows[i]
  BY DEF FromRows
<1>1. /\ moved \in Lists /\ moved.rows = rows /\ moved.plotted = m.plotted
      /\ moved.selected = 0
  BY <1>0 DEF Sound, Lists, OtherOrder
<1> HIDE DEF moved
<1>2. DataAligned(moved)
  <2>1. \A i \in DOMAIN rows : ~rows[i].active => rows[i].data = << >>
    BY <1>0 DEF Sound, DataAligned
  <2>2. \A i, j \in DOMAIN rows : rows[i].active /\ rows[j].active => Times(rows[i]) = Times(rows[j])
    BY <1>0 DEF Sound, DataAligned
  <2>3. ~m.plotted => \A i \in DOMAIN rows : rows[i].data = << >>
    BY <1>0 DEF Sound, DataAligned
  <2> QED BY <1>1, <2>1, <2>2, <2>3 DEF DataAligned
<1>3. Redrawn(moved, n) /\ n.rows = rows
  BY <1>1, <1>2, UpdateAligned
<1> HIDE DEF n
<1>4. DataAligned(n)
  BY <1>1, <1>2, <1>3 DEF Redrawn, DataAligned
<1>5. Judged(n, devs)
  BY <1>0, <1>3 DEF Sound, Judged
<1>6. SelectionShown(n)
  BY <1>1, <1>3, RowsOf DEF Redrawn, SelectionShown
<1>7. Sound(n, devs) /\ n.rows = rows /\ n.plotted = m.plotted
  BY <1>1, <1>3, <1>4, <1>5, <1>6 DEF Sound, Redrawn
<1> QED BY <1>7 DEF n, moved

(* removeFromModel(): the rows behind move up, with their series.         *)
LEMMA RemovedRow ==
    ASSUME NEW devs, NEW m, Sound(m, devs), NEW i \in DOMAIN m.rows
    PROVE  LET n == RemoveSignal(m, i)
           IN  /\ Sound(n, devs) /\ n.plotted = m.plotted /\ Size(n) = Size(m) - 1
               /\ n.rows = RemoveAt(m.rows, i)
               /\ \A j \in 1 .. Size(m) - 1 : n.rows[j] = IF j < i THEN m.rows[j] ELSE m.rows[j + 1]
<1> DEFINE rows == RemoveAt(m.rows, i)
<1>1. m \in Lists
  BY DEF Sound
<1>2. m.rows \in Seq(Signals) /\ DOMAIN m.rows = 1 .. Len(m.rows) /\ Len(m.rows) \in Nat
  BY <1>1, RowsOf DEF Size
<1>3. /\ rows \in Seq(Signals) /\ Len(rows) = Len(m.rows) - 1
      /\ \A j \in 1 .. Len(m.rows) - 1 : rows[j] = IF j < i THEN m.rows[j] ELSE m.rows[j + 1]
  BY <1>2, TakenOut
<1>4. RemoveSignal(m, i) = UpdateGraphs(OtherOrder(m, rows))
  BY <1>1 DEF RemoveSignal, OtherOrder, Lists
<1> HIDE DEF rows
<1>5. DOMAIN rows = 1 .. Len(m.rows) - 1
  BY <1>3
<1>6. \A j \in DOMAIN rows : \E k \in DOMAIN m.rows : rows[j] = m.rows[k]
  <2> TAKE j \in DOMAIN rows
  <2>1. j \in DOMAIN m.rows /\ j + 1 \in DOMAIN m.rows /\ rows[j] \in {m.rows[j], m.rows[j + 1]}
    BY <1>2, <1>3, <1>5
  <2> QED BY <2>1
<1>8. FromRows(rows, m)
  BY <1>3, <1>6 DEF FromRows
<1>7. /\ Sound(RemoveSignal(m, i), devs) /\ RemoveSignal(m, i).rows = rows
      /\ RemoveSignal(m, i).plotted = m.plotted
  BY <1>4, <1>8, Rearranged
<1> QED BY <1>3, <1>7 DEF Size, rows

(* moveRow(): the rows keep their signals and series in the new order.    *)
LEMMA MovedRow ==
    ASSUME NEW devs, NEW m, Sound(m, devs), NEW from \in DOMAIN m.rows, NEW to \in DOMAIN m.rows
    PROVE  LET n == MoveSignal(m, from, to)
           IN  /\ Sound(n, devs) /\ n.plotted = m.plotted /\ Size(n) = Size(m)
               /\ \A j \in DOMAIN m.rows : n.rows[j] = m.rows[PlaceBefore(from, to, j)]
<1>1. m \in Lists
  BY DEF Sound
<1>2. m.rows \in Seq(Signals) /\ DOMAIN m.rows = 1 .. Len(m.rows) /\ Len(m.rows) \in Nat
  BY <1>1, RowsOf DEF Size
<1>3. CASE from = to
  <2>1. \A j \in DOMAIN m.rows : PlaceBefore(from, to, j) = j
    BY <1>2, <1>3 DEF PlaceBefore
  <2> QED BY <1>3, <2>1 DEF MoveSignal
<1>4. CASE from # to
  <2> DEFINE rows == Reinserted(m.rows, from, to)
  <2>0. from \in 1 .. Len(m.rows) /\ to \in 1 .. Len(m.rows)
    BY <1>2
  <2>1. /\ rows \in Seq(Signals) /\ Len(rows) = Len(m.rows)
        /\ \A j \in 1 .. Len(m.rows) : rows[j] = m.rows[PlaceBefore(from, to, j)]
    <3>1. m.rows \in Seq(Signals)
      BY <1>2
    <3>2. IsMoved(Reinserted(m.rows, from, to), Signals, m.rows, from, to)
      BY ONLY <2>0, <3>1, MovedTo
    <3> QED BY <3>2 DEF IsMoved
  <2>2. MoveSignal(m, from, to) = UpdateGraphs(OtherOrder(m, rows))
    BY <1>1, <1>4 DEF MoveSignal, OtherOrder, Reinserted, Lists
  <2> HIDE DEF rows
  <2>3. \A j \in DOMAIN rows : \E k \in DOMAIN m.rows : rows[j] = m.rows[k]
    <3>1. DOMAIN rows = 1 .. Len(m.rows)
      BY <2>1
    <3> QED BY <1>2, <2>1, <3>1, PlacesOfMove
  <2>4. /\ Sound(MoveSignal(m, from, to), devs) /\ MoveSignal(m, from, to).rows = rows
        /\ MoveSignal(m, from, to).plotted = m.plotted
    <3>1. FromRows(rows, m)
      BY <2>1, <2>3 DEF FromRows
    <3> QED BY <2>2, <3>1, Rearranged
  <2> QED BY <1>2, <2>1, <2>4 DEF Size
<1> QED BY <1>3, <1>4

(* clear() *)
LEMMA ClearedList ==
    ASSUME NEW devs, NEW m, Sound(m, devs)
    PROVE  /\ Sound(ClearList(m), devs) /\ ClearList(m).rows = << >>
           /\ ClearList(m).plotted = m.plotted
<1>1. CASE m.rows = << >>
  BY <1>1 DEF ClearList
<1>2. CASE m.rows # << >>
  <2> DEFINE rows == << >>
  <2>1. rows \in Seq(Signals) /\ DOMAIN rows = {}
    OBVIOUS
  <2>2. ClearList(m) = UpdateGraphs(OtherOrder(m, rows))
    BY <1>2 DEF ClearList, OtherOrder
  <2> HIDE DEF rows
  <2>3. /\ Sound(ClearList(m), devs) /\ ClearList(m).rows = rows
        /\ ClearList(m).plotted = m.plotted
    <3>1. FromRows(rows, m)
      BY <2>1 DEF FromRows
    <3> QED BY <2>2, <3>1, Rearranged
  <2> QED BY <2>3 DEF rows
<1> QED BY <1>1, <1>2

(* A signal as another list shows it: the same settings, whatever was      *)
(* measured.                                                               *)
Resembles(t, s) == t \in Signals /\ t.id = s.id /\ SettingsOf(t) = SettingsOf(s)

(* The verdict on a signal. *)
LEMMA CheckedSignal ==
    ASSUME NEW s \in Signals, NEW devs
    PROVE  /\ Resembles(Checked(s, devs), s) /\ Checked(s, devs).data = s.data
           /\ Checked(s, devs).active = s.active
           /\ Checked(s, devs).state = Verdict(s.expression, devs)
           /\ Checked(s, devs).expression = s.expression
BY VerdictIsState DEF Checked, Signals, Resembles, SettingsOf

(* addToModel() *)
LEMMA AddedRow ==
    ASSUME NEW devs, NEW m, Sound(m, devs), NEW s \in Signals, s.data = << >>
    PROVE  LET n == AddSignal(m, s, devs)
               k == Size(m) + 1
           IN  /\ Sound(n, devs) /\ n.plotted = m.plotted /\ Size(n) = k
               /\ \A i \in DOMAIN m.rows : n.rows[i] = m.rows[i]
               /\ Resembles(n.rows[k], s) /\ NothingMeasured(n.rows[k].data)
<1> DEFINE k == Size(m) + 1
           new == Checked(s, devs)
           rows == Append(m.rows, new)
           c == [m EXCEPT !.rows = rows]
           n == UpdateGraphs(c)
<1>1. m \in Lists /\ m.rows \in Seq(Signals) /\ Size(m) \in Nat /\ DOMAIN m.rows = 1 .. Size(m)
  BY RowsOf DEF Sound
<1>2. /\ new \in Signals /\ Resembles(new, s) /\ new.data = << >> /\ new.active = s.active
      /\ new.state = Verdict(new.expression, devs)
  BY CheckedSignal DEF Resembles
<1>3. AddSignal(m, s, devs) = n
  <2>1. CheckExpression([m EXCEPT !.rows = Append(@, s)], k, devs) = c
    <3> DEFINE r == Append(m.rows, s)
    <3>1. r \in Seq(Signals) /\ k \in DOMAIN r /\ r[k] = s
      BY <1>1 DEF Size
    <3>2. [r EXCEPT ![k] = Checked(@, devs)] = rows
      <4>1. [r EXCEPT ![k] = Checked(@, devs)] = [r EXCEPT ![k] = new]
        BY <3>1
      <4>2. \A j \in DOMAIN m.rows : r[j] = m.rows[j]
        BY <1>1 DEF Size
      <4>3. Len(r) = k /\ DOMAIN r = 1 .. k
        BY <1>1 DEF Size
      <4> HIDE DEF r, new
      <4>4. rows \in Seq(Signals) /\ Len(rows) = k
        BY <1>1, <1>2 DEF Size
      <4>5. \A j \in 1 .. k : rows[j] = IF j = k THEN new ELSE m.rows[j]
        BY <1>1, <1>2 DEF Size
      <4> HIDE DEF rows
      <4>6. [r EXCEPT ![k] = new] \in Seq(Signals) /\ Len([r EXCEPT ![k] = new]) = k
        BY <1>2, <3>1, <4>3
      <4>7. \A j \in 1 .. k : [r EXCEPT ![k] = new][j] = rows[j]
        BY <1>1, <3>1, <4>2, <4>3, <4>5
      <4> QED BY <4>1, <4>4, <4>6, <4>7, SeqEqual
    <3>3. CheckExpression([m EXCEPT !.rows = r], k, devs) = [m EXCEPT !.rows = [r EXCEPT ![k] = Checked(@, devs)]]
      BY <1>1 DEF CheckExpression, Lists
    <3> QED BY <1>1, <3>2, <3>3 DEF Lists
  <2> QED BY <2>1 DEF AddSignal
<1> HIDE DEF new
<1>4. /\ rows \in Seq(Signals) /\ Len(rows) = k /\ DOMAIN rows = 1 .. k
      /\ rows[k] = new /\ \A i \in DOMAIN m.rows : rows[i] = m.rows[i]
  BY <1>1, <1>2 DEF Size
<1> HIDE DEF rows
<1>5. /\ c \in Lists /\ c.rows = rows /\ c.plotted = m.plotted /\ c.graphs = m.graphs
      /\ c.selected = m.selected
  BY <1>1, <1>4, OtherRows
<1> HIDE DEF c
<1>13. k \in 1 .. k /\ k \notin DOMAIN m.rows /\ \A i \in 1 .. k : i # k => i \in DOMAIN m.rows
  BY <1>1
<1>14. m.selected \in DOMAIN m.rows \/ m.selected = 0
  BY <1>1 DEF Sound, SelectionShown
<1>15. m.selected \in 0 .. k
  BY <1>1, <1>14
<1> HIDE DEF k
<1>6. /\ \A i \in DOMAIN rows : ~rows[i].active => rows[i].data = << >>
      /\ \A i, j \in DOMAIN rows \ {k} :
             rows[i].active /\ rows[j].active => Times(rows[i]) = Times(rows[j])
      /\ ~m.plotted => \A i \in DOMAIN rows : rows[i].data = << >>
  <2>1. DataAligned(m)
    BY DEF Sound
  <2> QED BY <1>2, <1>4, <1>13, <2>1 DEF DataAligned
<1>7. /\ Redrawn(c, n) /\ DataAligned(n) /\ \A i \in DOMAIN m.rows : n.rows[i] = m.rows[i]
      /\ n.rows[k] = [new EXCEPT !.data = n.rows[k].data]
      /\ NothingMeasured(n.rows[k].data)
  <2>1. CASE s.active
    <3>1. k \in DOMAIN c.rows /\ c.rows[k].active /\ c.rows[k].data = << >>
      BY <1>2, <1>4, <1>5, <1>13, <2>1
    <3>2. /\ Redrawn(c, n) /\ DataAligned(n)
          /\ \A i \in DOMAIN c.rows \ {k} : n.rows[i] = c.rows[i]
          /\ n.rows[k] = [c.rows[k] EXCEPT !.data = n.rows[k].data]
          /\ NothingMeasured(n.rows[k].data)
      BY <1>5, <1>6, <3>1, UpdateNew
    <3>3. c.rows[k] = new
      BY <1>4, <1>5
    <3>4. \A i \in DOMAIN m.rows : i \in DOMAIN c.rows \ {k} /\ c.rows[i] = m.rows[i]
      BY <1>1, <1>4, <1>5, <1>13
    <3> HIDE DEF n
    <3>5. \A i \in DOMAIN m.rows : n.rows[i] = m.rows[i]
      BY <3>2, <3>4
    <3> QED BY <3>2, <3>3, <3>5
  <2>2. CASE ~s.active
    <3>1. DataAligned(c)
      BY <1>2, <1>4, <1>5, <1>6, <1>13, <2>2 DEF DataAligned
    <3>2. Redrawn(c, n) /\ n.rows = c.rows
      BY <1>5, <3>1, UpdateAligned
    <3>3. DataAligned(n)
      BY <3>1, <3>2 DEF DataAligned, Redrawn
    <3> QED BY <1>2, <1>4, <1>5, <1>13, <3>2, <3>3 DEF NothingMeasured, Signals
  <2> QED BY <2>1, <2>2
<1> HIDE DEF n
<1>8. Size(n) = k /\ DOMAIN n.rows = 1 .. k /\ n \in Lists
  BY <1>4, <1>5, <1>7 DEF Redrawn, Size
<1>9. Resembles(n.rows[k], s) /\ n.rows[k].state = new.state /\ n.rows[k].expression = new.expression
  <2>1. n.rows[k] \in Signals
    BY <1>8, <1>13, RowsOf
  <2> QED BY <1>2, <1>7, <2>1 DEF Resembles, SettingsOf, Signals
<1>10. Judged(n, devs)
  BY <1>2, <1>7, <1>8, <1>9, <1>13 DEF Judged, Sound
<1>11. SelectionShown(n)
  BY <1>5, <1>7, <1>8, <1>14, <1>15 DEF SelectionShown, Sound, Redrawn
<1>12. Sound(n, devs)
  BY <1>7, <1>8, <1>10, <1>11 DEF Sound, Redrawn
<1> QED BY <1>3, <1>5, <1>7, <1>8, <1>9, <1>12 DEF Redrawn, k

(* setVisible(), of a list that may still have to be drawn. *)
LEMMA ShownRow ==
    ASSUME NEW m \in Lists, SelectionShown(m), NEW i \in DOMAIN m.rows, NEW visible \in BOOLEAN
    PROVE  LET n == SetVisible(m, i, visible)
           IN  /\ n \in Lists /\ Size(n) = Size(m) /\ DOMAIN n.rows = DOMAIN m.rows
               /\ n.plotted = m.plotted /\ n.graphs = m.graphs /\ SelectionShown(n)
               /\ \A j \in DOMAIN m.rows \ {i} : n.rows[j] = m.rows[j]
               /\ n.rows[i] = [m.rows[i] EXCEPT !.visible = visible]
<1> DEFINE s == [m.rows[i] EXCEPT !.visible = visible]
           c == [m EXCEPT !.rows[i] = s]
           d == ShowGraph(c, i)
           n == SetVisible(m, i, visible)
<1>1. m.rows[i] \in Signals /\ DOMAIN m.rows = 1 .. Size(m) /\ Size(m) \in Nat
  BY RowsOf
<1>2. CASE m.rows[i].visible = visible
  <2>1. n = m /\ s = m.rows[i]
    BY <1>1, <1>2 DEF SetVisible, Signals
  <2> QED BY <2>1
<1>3. CASE m.rows[i].visible # visible
  <2>1. s \in Signals /\ s.visible = visible
    BY <1>1 DEF Signals
  <2>2. [m EXCEPT !.rows[i].visible = visible] = c
    BY <1>1 DEF Lists
  <2>3. n = IF ~visible /\ m.selected = i THEN SetSelected(d, 0) ELSE d
    BY <1>3, <2>2 DEF SetVisible
  <2> HIDE DEF n, s
  <2>4. /\ c \in Lists /\ Size(c) = Size(m) /\ c.plotted = m.plotted /\ c.graphs = m.graphs
        /\ c.selected = m.selected
        /\ \A j \in DOMAIN m.rows : c.rows[j] = IF j = i THEN s ELSE m.rows[j]
    BY <2>1, OtherRow
  <2> HIDE DEF c
  <2>5. /\ d \in Lists /\ d.rows = c.rows /\ d.plotted = c.plotted /\ d.graphs = c.graphs
        /\ d.selected = c.selected
    BY <2>4 DEF ShowGraph, UseGraph, Lists
  <2> HIDE DEF d
  <2>6. /\ n \in Lists /\ n.rows = c.rows /\ n.plotted = c.plotted /\ n.graphs = c.graphs
        /\ n.selected = IF ~visible /\ m.selected = i THEN 0 ELSE m.selected
    BY <2>3, <2>4, <2>5 DEF SetSelected, Lists
  <2>7. Size(n) = Size(m) /\ DOMAIN n.rows = DOMAIN m.rows
    BY <1>1, <2>4, <2>6, RowsOf DEF Size
  <2>8. SelectionShown(n)
    BY <1>1, <2>1, <2>4, <2>6, <2>7 DEF SelectionShown
  <2> QED BY <2>4, <2>6, <2>7, <2>8 DEF n, s
<1> QED BY <1>2, <1>3

(* The same list up to row i, which keeps its signal. *)
KeepsOthers(m, n, i) ==
    /\ n \in Lists /\ Size(n) = Size(m) /\ DOMAIN n.rows = DOMAIN m.rows /\ n.plotted = m.plotted
    /\ \A j \in DOMAIN m.rows \ {i} : n.rows[j] = m.rows[j]
    /\ n.rows[i].id = m.rows[i].id

(* A row that is as active as it was, and has samples of the same times or *)
(* is the only one that is plotted, leaves the list sound.                 *)
LEMMA RowEdited ==
    ASSUME NEW devs, NEW m, Sound(m, devs), NEW n, NEW i \in DOMAIN m.rows, KeepsOthers(m, n, i),
           n.graphs = m.graphs, SelectionShown(n),
           n.rows[i].active = m.rows[i].active,
           n.rows[i].state = Verdict(n.rows[i].expression, devs),
           \/ Times(n.rows[i]) = Times(m.rows[i])
           \/ /\ m.plotted /\ m.rows[i].active
              /\ \A j \in DOMAIN m.rows \ {i} : ~m.rows[j].active
    PROVE  Sound(n, devs)
<1>1. m \in Lists /\ n \in Lists /\ DataAligned(m) /\ Drawn(m) /\ Judged(m, devs)
  BY DEF Sound, KeepsOthers
<1>2. Judged(n, devs)
  BY <1>1 DEF KeepsOthers, Judged
<1>3. ActiveIds(n) = ActiveIds(m)
  <2>1. \A j \in DOMAIN m.rows : m.rows[j].id = n.rows[j].id /\ m.rows[j].active = n.rows[j].active
    BY DEF KeepsOthers
  <2> QED BY <1>1, <2>1, SameActiveOnes DEF KeepsOthers
<1>4. Drawn(n)
  BY <1>1, <1>3 DEF Drawn, KeepsOthers
<1>5. n.rows[i].data \in Seq(Samples) /\ m.rows[i].data \in Seq(Samples)
  BY <1>1, RowsOf DEF KeepsOthers
<1>6. Times(n.rows[i]) = Times(m.rows[i]) /\ m.rows[i].data = << >> => n.rows[i].data = << >>
  <2> SUFFICES ASSUME Times(n.rows[i]) = Times(m.rows[i]), m.rows[i].data = << >>
               PROVE  n.rows[i].data = << >>
    OBVIOUS
  <2>1. DOMAIN n.rows[i].data = {}
    BY DEF Times
  <2> QED BY <1>5, <2>1
<1>7. DataAligned(n)
  <2>1. CASE Times(n.rows[i]) = Times(m.rows[i])
    BY <1>1, <1>6, <2>1 DEF DataAligned, KeepsOthers
  <2>2. CASE /\ m.plotted /\ m.rows[i].active
             /\ \A j \in DOMAIN m.rows \ {i} : ~m.rows[j].active
    BY <1>1, <2>2 DEF DataAligned, KeepsOthers
  <2> QED BY <2>1, <2>2
<1> QED BY <1>1, <1>2, <1>4, <1>7 DEF Sound

(* setVisible() of a list that is as it should be. *)
LEMMA VisibleRow ==
    ASSUME NEW devs, NEW m, Sound(m, devs), NEW i \in DOMAIN m.rows, NEW visible \in BOOLEAN
    PROVE  LET n == SetVisible(m, i, visible)
           IN  /\ Sound(n, devs) /\ KeepsOthers(m, n, i)
               /\ n.rows[i].expression = m.rows[i].expression
               /\ n.rows[i].active = m.rows[i].active
               /\ n.rows[i].visible = visible
               /\ n.rows[i].data = m.rows[i].data
<1> DEFINE n == SetVisible(m, i, visible)
<1>1. m \in Lists /\ SelectionShown(m) /\ m.rows[i] \in Signals
      /\ m.rows[i].state = Verdict(m.rows[i].expression, devs)
  BY RowsOf DEF Sound, Judged
<1>2. /\ n \in Lists /\ Size(n) = Size(m) /\ DOMAIN n.rows = DOMAIN m.rows
      /\ n.plotted = m.plotted /\ n.graphs = m.graphs /\ SelectionShown(n)
      /\ \A j \in DOMAIN m.rows \ {i} : n.rows[j] = m.rows[j]
      /\ n.rows[i] = [m.rows[i] EXCEPT !.visible = visible]
  BY <1>1, ShownRow
<1> HIDE DEF n
<1>3. /\ n.rows[i].id = m.rows[i].id /\ n.rows[i].expression = m.rows[i].expression
      /\ n.rows[i].active = m.rows[i].active /\ n.rows[i].state = m.rows[i].state
      /\ n.rows[i].visible = visible /\ n.rows[i].data = m.rows[i].data
  BY <1>1, <1>2 DEF Signals
<1>4. KeepsOthers(m, n, i)
  BY <1>2, <1>3 DEF KeepsOthers
<1>5. Times(n.rows[i]) = Times(m.rows[i])
  BY <1>3 DEF Times
<1>6. Sound(n, devs)
  BY <1>1, <1>2, <1>3, <1>4, <1>5, RowEdited
<1> QED BY <1>3, <1>4, <1>6 DEF n

(* setSelectedGraph() *)
LEMMA SelectedRow ==
    ASSUME NEW devs, NEW m, Sound(m, devs), NEW i \in DOMAIN m.rows \cup {0}
    PROVE  Sound(SetSelected(m, i), devs) /\ SetSelected(m, i).rows = m.rows
           /\ SetSelected(m, i).plotted = m.plotted
<1> DEFINE n == [m EXCEPT !.selected = i]
<1>1. m \in Lists /\ DOMAIN m.rows = 1 .. Size(m) /\ Size(m) \in Nat
  BY RowsOf DEF Sound
<1>2. i \in 0 .. Size(m) /\ i \in Nat
  BY <1>1
<1>3. CASE i = 0 \/ m.rows[i].visible
  <2>1. SetSelected(m, i) = n
    BY <1>3 DEF SetSelected
  <2>2. n \in Lists /\ n.rows = m.rows /\ n.plotted = m.plotted /\ n.graphs = m.graphs /\ n.selected = i
    BY <1>1, <1>2 DEF Lists
  <2> HIDE DEF n
  <2>3. DataAligned(n) /\ Judged(n, devs)
    BY <2>2 DEF DataAligned, Judged, Sound
  <2>4. Drawn(n)
    BY <2>2 DEF Drawn, ActiveIds, ActiveRows, Active, Sound
  <2>5. SelectionShown(n)
    BY <1>2, <1>3, <2>2 DEF SelectionShown, Size
  <2> QED BY <2>1, <2>2, <2>3, <2>4, <2>5 DEF Sound
<1>4. CASE ~(i = 0 \/ m.rows[i].visible)
  BY <1>4 DEF SetSelected
<1> QED BY <1>3, <1>4

(* The selected signal stays visible. *)
LEMMA SelectionKept ==
    ASSUME NEW m \in Lists, SelectionShown(m), NEW n, Size(n) = Size(m), n.selected = m.selected,
           \A j \in DOMAIN m.rows : m.rows[j].visible => n.rows[j].visible
    PROVE  SelectionShown(n)
<1>1. DOMAIN m.rows = 1 .. Size(m) /\ Size(m) \in Nat
  BY RowsOf
<1>2. n.selected \in 0 .. Size(n)
  BY DEF SelectionShown
<1>3. ASSUME n.selected # 0 PROVE n.rows[n.selected].visible
  <2>1. m.selected \in DOMAIN m.rows /\ m.rows[m.selected].visible
    BY <1>1, <1>3 DEF SelectionShown
  <2> QED BY <2>1
<1> QED BY <1>2, <1>3 DEF SelectionShown

(* setActive(): the signal starts without measurements, or loses them. *)
LEMMA ActivatedRow ==
    ASSUME NEW devs, NEW m, Sound(m, devs), NEW i \in DOMAIN m.rows, NEW active \in BOOLEAN
    PROVE  LET n == SetActive(m, i, active)
           IN  /\ Sound(n, devs) /\ KeepsOthers(m, n, i)
               /\ n.rows[i].expression = m.rows[i].expression
               /\ n.rows[i].active = active
               /\ IF m.rows[i].active = active THEN n = m ELSE NothingMeasured(n.rows[i].data)
<1> DEFINE n == SetActive(m, i, active)
<1>1. /\ m \in Lists /\ SelectionShown(m) /\ m.rows[i] \in Signals
      /\ m.rows[i].state = Verdict(m.rows[i].expression, devs)
      /\ DataAligned(m) /\ Judged(m, devs)
  BY RowsOf DEF Sound, Judged
<1>2. CASE m.rows[i].active = active
  <2>1. n = m
    BY <1>2 DEF SetActive
  <2> QED BY <1>1, <1>2, <2>1 DEF KeepsOthers
<1>3. CASE m.rows[i].active # active /\ active
  <2> DEFINE s == [m.rows[i] EXCEPT !.active = TRUE]
             a == [m EXCEPT !.rows[i] = s]
             c == SetVisible(a, i, TRUE)
  <2>1. n = UpdateGraphs(c)
    BY <1>1, <1>3 DEF SetActive, Lists
  <2>2. /\ s \in Signals /\ s.active /\ s.id = m.rows[i].id /\ s.visible = m.rows[i].visible
        /\ s.expression = m.rows[i].expression /\ s.state = m.rows[i].state
        /\ s.data = m.rows[i].data /\ m.rows[i].data = << >>
    BY <1>1, <1>3 DEF Signals, DataAligned
  <2> HIDE DEF s
  <2>3. /\ a \in Lists /\ Size(a) = Size(m) /\ DOMAIN a.rows = DOMAIN m.rows
        /\ a.plotted = m.plotted /\ a.selected = m.selected
        /\ \A j \in DOMAIN m.rows : a.rows[j] = IF j = i THEN s ELSE m.rows[j]
    <3>1. /\ a \in Lists /\ Size(a) = Size(m) /\ a.plotted = m.plotted /\ a.selected = m.selected
          /\ \A j \in DOMAIN m.rows : a.rows[j] = IF j = i THEN s ELSE m.rows[j]
      BY <1>1, <2>2, OtherRow
    <3> QED BY <1>1, <3>1, RowsOf
  <2> HIDE DEF a
  <2>4. SelectionShown(a)
    <3>1. m.selected \in 0 .. Size(m) /\ (m.selected # 0 => m.rows[m.selected].visible)
      BY <1>1 DEF SelectionShown
    <3>2. m.selected # 0 => m.selected \in DOMAIN m.rows
      <4>1. Size(m) \in Nat /\ DOMAIN m.rows = 1 .. Size(m)
        BY ONLY <1>1, RowsOf
      <4> QED BY ONLY <3>1, <4>1
    <3>3. \A j \in DOMAIN m.rows : a.rows[j].visible = m.rows[j].visible
      BY <2>2, <2>3
    <3> QED BY <2>3, <3>1, <3>2, <3>3 DEF SelectionShown
  <2>5. /\ c \in Lists /\ Size(c) = Size(a) /\ DOMAIN c.rows = DOMAIN a.rows
        /\ c.plotted = a.plotted /\ SelectionShown(c)
        /\ \A j \in DOMAIN a.rows \ {i} : c.rows[j] = a.rows[j]
        /\ c.rows[i] = [s EXCEPT !.visible = TRUE]
    <3>1. i \in DOMAIN a.rows /\ a.rows[i] = s /\ TRUE \in BOOLEAN
      BY <2>3
    <3>2. /\ c \in Lists /\ Size(c) = Size(a) /\ DOMAIN c.rows = DOMAIN a.rows
          /\ c.plotted = a.plotted /\ SelectionShown(c)
          /\ \A j \in DOMAIN a.rows \ {i} : c.rows[j] = a.rows[j]
          /\ c.rows[i] = [a.rows[i] EXCEPT !.visible = TRUE]
      BY ONLY <2>3, <2>4, <3>1, ShownRow
    <3> QED BY <3>1, <3>2
  <2> HIDE DEF c, n
  <2>6. /\ c.rows[i].active /\ c.rows[i].data = << >> /\ c.rows[i].visible
        /\ c.rows[i].id = m.rows[i].id /\ c.rows[i].expression = m.rows[i].expression
        /\ c.rows[i].state = m.rows[i].state /\ c.rows[i] \in Signals
    BY <2>2, <2>5 DEF Signals
  <2>7. \A j \in DOMAIN m.rows \ {i} : c.rows[j] = m.rows[j]
    BY <2>3, <2>5
  <2>8. /\ \A j \in DOMAIN c.rows : ~c.rows[j].active => c.rows[j].data = << >>
        /\ \A j, k \in DOMAIN c.rows \ {i} :
              c.rows[j].active /\ c.rows[k].active => Times(c.rows[j]) = Times(c.rows[k])
        /\ ~c.plotted => \A j \in DOMAIN c.rows : c.rows[j].data = << >>
    <3>1. /\ DOMAIN c.rows = DOMAIN m.rows /\ c.plotted = m.plotted
          /\ \A j \in DOMAIN m.rows : j = i \/ c.rows[j] = m.rows[j]
      BY <2>3, <2>5, <2>7
    <3>2. c.rows[i].active /\ c.rows[i].data = << >>
      BY <2>6
    <3>3. \A j \in DOMAIN c.rows : ~c.rows[j].active => c.rows[j].data = << >>
      BY <1>1, <3>1, <3>2 DEF DataAligned
    <3>4. \A j, k \in DOMAIN c.rows \ {i} :
              c.rows[j].active /\ c.rows[k].active => Times(c.rows[j]) = Times(c.rows[k])
      BY <1>1, <3>1 DEF DataAligned
    <3>5. ~c.plotted => \A j \in DOMAIN c.rows : c.rows[j].data = << >>
      BY <1>1, <3>1, <3>2 DEF DataAligned
    <3> QED BY <3>3, <3>4, <3>5
  <2>9. /\ Redrawn(c, n) /\ DataAligned(n)
        /\ \A j \in DOMAIN c.rows \ {i} : n.rows[j] = c.rows[j]
        /\ n.rows[i] = [c.rows[i] EXCEPT !.data = n.rows[i].data]
        /\ NothingMeasured(n.rows[i].data)
    <3>1. i \in DOMAIN c.rows /\ c \in Lists
      BY <2>3, <2>5
    <3>2. c.rows[i].active /\ c.rows[i].data = << >>
      BY <2>6
    <3> QED BY <2>1, <2>8, <3>1, <3>2, UpdateNew
  <2>10. /\ n.rows[i].active /\ n.rows[i].visible
         /\ n.rows[i].id = m.rows[i].id /\ n.rows[i].expression = m.rows[i].expression
         /\ n.rows[i].state = m.rows[i].state
    BY <2>6, <2>9 DEF Signals
  <2>11. KeepsOthers(m, n, i)
    BY <2>3, <2>5, <2>7, <2>9, <2>10 DEF KeepsOthers, Redrawn
  <2>12. Judged(n, devs)
    BY <1>1, <2>10, <2>11 DEF Judged, KeepsOthers
  <2>13. SelectionShown(n)
    <3>1. Size(n) = Size(c) /\ n.selected = c.selected /\ DOMAIN c.rows = DOMAIN m.rows
      BY <2>3, <2>5, <2>9 DEF Redrawn
    <3>2. \A j \in DOMAIN c.rows : c.rows[j].visible => n.rows[j].visible
      BY <2>9, <2>10
    <3> QED BY <2>5, <3>1, <3>2, SelectionKept
  <2>14. Sound(n, devs)
    BY <2>9, <2>12, <2>13 DEF Sound, Redrawn
  <2> QED BY <1>3, <2>9, <2>10, <2>11, <2>14 DEF n
<1>4. CASE m.rows[i].active # active /\ ~active
  <2> DEFINE s == [m.rows[i] EXCEPT !.active = FALSE, !.data = << >>]
             c == [m EXCEPT !.rows[i] = s]
  <2>1. n = UpdateGraphs(c)
    <3>1. Deactivated(m, i) = c
      BY <1>1 DEF Deactivated, Lists
    <3> QED BY <1>4, <3>1 DEF SetActive
  <2>2. /\ s \in Signals /\ ~s.active /\ s.id = m.rows[i].id /\ s.visible = m.rows[i].visible
        /\ s.expression = m.rows[i].expression /\ s.state = m.rows[i].state
        /\ s.data = << >>
    <3> DEFINE r == m.rows[i]
    <3>1. r \in Signals
      BY <1>1
    <3> HIDE DEF r
    <3>2. << >> \in Seq(Samples)
      OBVIOUS
    <3>3. [r EXCEPT !.active = FALSE, !.data = << >>] \in Signals
      BY <3>1, <3>2 DEF Signals
    <3>4. s = [r EXCEPT !.active = FALSE, !.data = << >>]
      BY DEF r
    <3>5. /\ ~s.active /\ s.id = r.id /\ s.visible = r.visible /\ s.data = << >>
          /\ s.expression = r.expression /\ s.state = r.state
      BY <3>1, <3>4 DEF Signals
    <3> QED BY <3>3, <3>4, <3>5 DEF r
  <2> HIDE DEF s
  <2>3. /\ c \in Lists /\ Size(c) = Size(m) /\ DOMAIN c.rows = DOMAIN m.rows
        /\ c.plotted = m.plotted /\ c.selected = m.selected
        /\ \A j \in DOMAIN m.rows : c.rows[j] = IF j = i THEN s ELSE m.rows[j]
    <3>1. /\ c \in Lists /\ Size(c) = Size(m) /\ c.plotted = m.plotted /\ c.selected = m.selected
          /\ \A j \in DOMAIN m.rows : c.rows[j] = IF j = i THEN s ELSE m.rows[j]
      BY <1>1, <2>2, OtherRow
    <3> QED BY <1>1, <3>1, RowsOf
  <2> HIDE DEF c, n
  <2>4. DataAligned(c)
    BY <1>1, <2>2, <2>3 DEF DataAligned
  <2>5. Redrawn(c, n) /\ n.rows = c.rows
    BY <2>1, <2>3, <2>4, UpdateAligned
  <2>6. DataAligned(n)
    BY <2>4, <2>5 DEF Redrawn, DataAligned
  <2>7. KeepsOthers(m, n, i)
    BY <2>2, <2>3, <2>5 DEF KeepsOthers, Redrawn
  <2>8. Judged(n, devs)
    BY <1>1, <2>2, <2>3, <2>5 DEF Judged
  <2>9. SelectionShown(n)
    <3>1. Size(n) = Size(m) /\ n.selected = m.selected
      BY <2>3, <2>5 DEF Redrawn
    <3>2. \A j \in DOMAIN m.rows : m.rows[j].visible => n.rows[j].visible
      BY <2>2, <2>3, <2>5
    <3> QED BY <1>1, <3>1, <3>2, SelectionKept
  <2>10. Sound(n, devs)
    BY <2>5, <2>6, <2>8, <2>9 DEF Sound, Redrawn
  <2>11. n.rows[i] = s /\ DOMAIN s.data = {}
    BY <2>2, <2>3, <2>5
  <2>12. NothingMeasured(n.rows[i].data)
    BY <2>11 DEF NothingMeasured
  <2>13. s.active \in BOOLEAN
    BY <2>2 DEF Signals
  <2>14. n.rows[i].active = active /\ n.rows[i].expression = m.rows[i].expression
    BY <1>4, <2>2, <2>11, <2>13
  <2> HIDE DEF s
  <2> QED BY <1>4, <2>7, <2>10, <2>12, <2>14 DEF n
<1> QED BY <1>2, <1>3, <1>4

(* clearGraph(): nothing measured is left of the signal. *)
LEMMA ClearedRow ==
    ASSUME NEW m \in Lists, NEW i \in DOMAIN m.rows, m.plotted, m.rows[i].active
    PROVE  LET n == ClearGraph(m, i)
           IN  /\ n \in Lists /\ Size(n) = Size(m) /\ n.plotted = m.plotted
               /\ n.graphs = m.graphs /\ n.selected = m.selected
               /\ \A j \in DOMAIN m.rows \ {i} : n.rows[j] = m.rows[j]
               /\ n.rows[i] = [m.rows[i] EXCEPT !.data = n.rows[i].data]
               /\ NothingMeasured(n.rows[i].data)
               /\ \/ Times(n.rows[i]) = Times(m.rows[i])
                  \/ \A j \in DOMAIN m.rows \ {i} : ~m.rows[j].active
<1> DEFINE data == IF Len(ActiveRows(m)) = 1 THEN << >> ELSE Blank(m.rows[i].data)
           s == [m.rows[i] EXCEPT !.data = data]
           u == UseGraph(m, i)
           n == ClearGraph(m, i)
<1>1. m.rows[i] \in Signals /\ m.rows[i].data \in Seq(Samples) /\ << >> \in Seq(Samples)
  BY RowsOf
<1>2. /\ u \in Lists /\ u.rows = m.rows /\ u.plotted = m.plotted
      /\ u.graphs = m.graphs /\ u.selected = m.selected
  BY DEF UseGraph, Lists
<1>3. n = [u EXCEPT !.rows[i] = s]
  <2>1. n = [u EXCEPT !.rows[i].data = data]
    BY <1>2 DEF ClearGraph, Lists
  <2> HIDE DEF data, u, n
  <2> QED BY <1>2, <2>1 DEF Lists
<1>4. Blank(m.rows[i].data) \in Seq(Samples) /\ NothingMeasured(Blank(m.rows[i].data))
      /\ Times([m.rows[i] EXCEPT !.data = Blank(m.rows[i].data)]) = Times(m.rows[i])
  BY <1>1, BlankOf
<1>5. data \in Seq(Samples) /\ NothingMeasured(data)
  BY <1>1, <1>4 DEF NothingMeasured
<1>6. s \in Signals /\ s.data = data
  <2> HIDE DEF data
  <2> QED BY <1>1, <1>5 DEF Signals
<1>7. Times(s) = Times(m.rows[i]) \/ \A j \in DOMAIN m.rows \ {i} : ~m.rows[j].active
  <2>1. CASE Len(ActiveRows(m)) = 1
    <3> DEFINE a == Ascending(Active(m))
               k == Cardinality(Active(m))
    <3>1. Active(m) \in SUBSET (1 .. Size(m)) /\ Size(m) \in Nat
      BY ActiveOnes
    <3>2. /\ k \in Nat /\ a \in [1 .. k -> Active(m)]
          /\ \A x \in Active(m) : \E j \in 1 .. k : a[j] = x
      BY <3>1, AscendingOrder
    <3>3. Len(a) = 1
      BY <2>1 DEF ActiveRows
    <3> HIDE DEF a, k
    <3>4. Len(a) = k
      BY <3>2
    <3>5. \A x \in Active(m) : x = a[1]
      BY <3>2, <3>3, <3>4
    <3>6. i \in Active(m)
      BY DEF Active
    <3> QED BY <3>5, <3>6 DEF Active
  <2>2. CASE Len(ActiveRows(m)) # 1
    BY <1>4, <2>2
  <2> QED BY <2>1, <2>2
<1> HIDE DEF data, s, u, n
<1>8. /\ n \in Lists /\ Size(n) = Size(u) /\ n.plotted = u.plotted
      /\ n.graphs = u.graphs /\ n.selected = u.selected
      /\ \A j \in DOMAIN u.rows : n.rows[j] = IF j = i THEN s ELSE u.rows[j]
  <2>1. i \in DOMAIN u.rows /\ u \in Lists /\ s \in Signals
    BY <1>2, <1>6
  <2> QED BY <1>3, <2>1, OtherRow
<1>9. Size(u) = Size(m) /\ n.rows[i] = s /\ \A j \in DOMAIN m.rows \ {i} : n.rows[j] = m.rows[j]
  BY <1>2, <1>8 DEF Size
<1>10. s = [m.rows[i] EXCEPT !.data = s.data]
  BY <1>6 DEF s
<1> QED BY <1>2, <1>5, <1>6, <1>7, <1>8, <1>9, <1>10 DEF n

(* setExpression(): the new verdict, and nothing measured under the old    *)
(* expression.                                                             *)
LEMMA ExpressionRow ==
    ASSUME NEW devs, NEW m, Sound(m, devs), NEW i \in DOMAIN m.rows, NEW e \in Expressions
    PROVE  LET n == SetExpression(m, i, e, devs)
           IN  /\ Sound(n, devs) /\ KeepsOthers(m, n, i)
               /\ n.rows[i].expression = e
               /\ n.rows[i].active = m.rows[i].active
               /\ IF m.rows[i].expression = e THEN n = m ELSE NothingMeasured(n.rows[i].data)
<1> DEFINE n == SetExpression(m, i, e, devs)
<1>1. /\ m \in Lists /\ SelectionShown(m) /\ m.rows[i] \in Signals
      /\ DataAligned(m) /\ Judged(m, devs) /\ DOMAIN m.rows = 1 .. Size(m)
      /\ m.rows[i].active \in BOOLEAN /\ m.plotted \in BOOLEAN
  BY RowsOf DEF Sound, Judged, Lists
<1>2. CASE m.rows[i].expression = e
  <2>1. n = m
    BY <1>2 DEF SetExpression
  <2> QED BY <1>1, <1>2, <2>1 DEF KeepsOthers
<1>3. CASE m.rows[i].expression # e
  <2> DEFINE r == [m.rows[i] EXCEPT !.expression = e]
             a == [m EXCEPT !.rows[i] = r]
             c == ClearGraph(a, i)
             s == Checked(c.rows[i], devs)
  <2>1. n = CheckExpression(c, i, devs)
    BY <1>1, <1>3 DEF SetExpression, Lists
  <2>2. /\ r \in Signals /\ r.id = m.rows[i].id /\ r.expression = e
        /\ r.active = m.rows[i].active /\ r.visible = m.rows[i].visible
        /\ r.data = m.rows[i].data
    BY <1>1 DEF Signals
  <2> HIDE DEF r
  <2>3. /\ a \in Lists /\ Size(a) = Size(m) /\ DOMAIN a.rows = DOMAIN m.rows
        /\ a.plotted = m.plotted /\ a.graphs = m.graphs /\ a.selected = m.selected
        /\ a.rows[i] = r /\ \A j \in DOMAIN m.rows \ {i} : a.rows[j] = m.rows[j]
    <3>1. /\ a \in Lists /\ Size(a) = Size(m) /\ a.plotted = m.plotted
          /\ a.graphs = m.graphs /\ a.selected = m.selected
          /\ \A j \in DOMAIN m.rows : a.rows[j] = IF j = i THEN r ELSE m.rows[j]
      <4>1. m \in Lists /\ r \in Signals
        BY <1>1, <2>2
      <4> HIDE DEF c, s, n
      <4> QED BY <4>1, OtherRow
    <3> QED BY <1>1, <3>1, RowsOf
  <2> HIDE DEF a
  <2>4. /\ c \in Lists /\ Size(c) = Size(a) /\ c.plotted = a.plotted
        /\ c.graphs = a.graphs /\ c.selected = a.selected
        /\ \A j \in DOMAIN a.rows \ {i} : c.rows[j] = a.rows[j]
        /\ c.rows[i] \in Signals /\ c.rows[i].id = r.id /\ c.rows[i].expression = e
        /\ c.rows[i].active = r.active /\ c.rows[i].visible = r.visible
        /\ NothingMeasured(c.rows[i].data)
        /\ \/ Times(c.rows[i]) = Times(r)
           \/ /\ m.plotted /\ m.rows[i].active
              /\ \A j \in DOMAIN m.rows \ {i} : ~m.rows[j].active
    <3>1. i \in DOMAIN a.rows
      BY <2>3
    <3>2. CASE a.plotted /\ r.active
      <4>1. /\ c \in Lists /\ Size(c) = Size(a) /\ c.plotted = a.plotted
            /\ c.graphs = a.graphs /\ c.selected = a.selected
            /\ \A j \in DOMAIN a.rows \ {i} : c.rows[j] = a.rows[j]
            /\ c.rows[i] = [a.rows[i] EXCEPT !.data = c.rows[i].data]
            /\ NothingMeasured(c.rows[i].data)
            /\ \/ Times(c.rows[i]) = Times(a.rows[i])
               \/ \A j \in DOMAIN a.rows \ {i} : ~a.rows[j].active
        <5>1. a.plotted /\ a.rows[i].active
          BY <2>3, <3>2
        <5> QED BY <2>3, <3>1, <5>1, ClearedRow
      <4> HIDE DEF c
      <4>2. c.rows[i] \in Signals
        <5>1. i \in DOMAIN c.rows
          BY <2>3, <4>1, RowsOf
        <5> QED BY <4>1, <5>1, RowsOf
      <4>3. c.rows[i] = [r EXCEPT !.data = c.rows[i].data]
        BY <2>3, <4>1
      <4>4. /\ c.rows[i].id = r.id /\ c.rows[i].expression = e
            /\ c.rows[i].active = r.active /\ c.rows[i].visible = r.visible
        BY <2>2, <4>3 DEF Signals
      <4>5. \/ Times(c.rows[i]) = Times(r)
            \/ /\ m.plotted /\ m.rows[i].active
               /\ \A j \in DOMAIN m.rows \ {i} : ~m.rows[j].active
        BY <2>2, <2>3, <3>2, <4>1
      <4> QED BY <4>1, <4>2, <4>4, <4>5
    <3>3. CASE ~(a.plotted /\ r.active)
      <4>1. c = a
        BY <2>3, <3>3 DEF ClearGraph
      <4>2. r.data = << >>
        BY <1>1, <2>2, <2>3, <3>3 DEF DataAligned
      <4>3. NothingMeasured(r.data)
        BY <4>2 DEF NothingMeasured
      <4> HIDE DEF c
      <4> QED BY <2>2, <2>3, <4>1, <4>3
    <3> QED BY <3>2, <3>3
  <2> HIDE DEF c
  <2>5. n = [c EXCEPT !.rows[i] = s]
    BY <1>1, <2>1, <2>3, <2>4 DEF CheckExpression, Lists
  <2>6. /\ s \in Signals /\ s.id = r.id /\ s.expression = e /\ s.active = r.active
        /\ s.visible = r.visible /\ s.data = c.rows[i].data
        /\ s.state = Verdict(e, devs)
    BY <2>4, VerdictIsState DEF Checked, Signals
  <2> HIDE DEF s, n
  <2>7. DOMAIN c.rows = DOMAIN m.rows
    BY <1>1, <2>3, <2>4, RowsOf
  <2>8. /\ n \in Lists /\ Size(n) = Size(m) /\ n.plotted = m.plotted
        /\ n.graphs = m.graphs /\ n.selected = m.selected
        /\ n.rows[i] = s /\ \A j \in DOMAIN m.rows \ {i} : n.rows[j] = m.rows[j]
    <3>1. /\ n \in Lists /\ Size(n) = Size(c) /\ n.plotted = c.plotted
          /\ n.graphs = c.graphs /\ n.selected = c.selected
          /\ \A j \in DOMAIN c.rows : n.rows[j] = IF j = i THEN s ELSE c.rows[j]
      <4>1. i \in DOMAIN c.rows
        BY <2>7
      <4> QED BY <2>4, <2>5, <2>6, <4>1, OtherRow
    <3> QED BY <2>3, <2>4, <2>7, <3>1
  <2>9. KeepsOthers(m, n, i)
    BY <1>1, <2>2, <2>6, <2>8, RowsOf DEF KeepsOthers
  <2>10. SelectionShown(n)
    <3>1. \A j \in DOMAIN m.rows : m.rows[j].visible => n.rows[j].visible
      BY <2>2, <2>6, <2>8
    <3> QED BY <1>1, <2>8, <3>1, SelectionKept
  <2>11. /\ n.rows[i].active = m.rows[i].active
         /\ n.rows[i].state = Verdict(n.rows[i].expression, devs)
    BY <2>2, <2>6, <2>8
  <2>12. \/ Times(n.rows[i]) = Times(m.rows[i])
         \/ /\ m.plotted /\ m.rows[i].active
            /\ \A j \in DOMAIN m.rows \ {i} : ~m.rows[j].active
    <3>1. Times(s) = Times(c.rows[i]) /\ Times(r) = Times(m.rows[i])
      BY <2>2, <2>6 DEF Times
    <3> QED BY <2>4, <2>8, <3>1
  <2>13. Sound(n, devs)
    BY <2>8, <2>9, <2>10, <2>11, <2>12, RowEdited
  <2>14. NothingMeasured(n.rows[i].data) /\ n.rows[i].expression = e
    BY <2>4, <2>6, <2>8
  <2> QED BY <1>3, <2>9, <2>11, <2>13, <2>14 DEF n
<1> QED BY <1>2, <1>3

(* copySettingsToSource(): a row gets the settings of a draft row, and     *)
(* keeps what was measured as long as that still holds.                    *)
LEMMA CopiedRow ==
    ASSUME NEW m, Sound(m, devices), NEW i \in DOMAIN m.rows, NEW s \in Signals
    PROVE  LET n == CopySettings(m, s, i)
           IN  /\ Sound(n, devices) /\ KeepsOthers(m, n, i)
               /\ SettingsOf(n.rows[i]) = SettingsOf(s)
               /\ IF KeepsData(m.rows[i], s) THEN n.rows[i].data = m.rows[i].data
                  ELSE NothingMeasured(n.rows[i].data)
<1> DEFINE a == SetExpression(m, i, s.expression, devices)
           b == SetActive(a, i, s.active)
           n == SetVisible(b, i, s.visible)
<1>1. s.expression \in Expressions /\ s.active \in BOOLEAN /\ s.visible \in BOOLEAN
  BY DEF Signals
<1>2. /\ Sound(a, devices) /\ KeepsOthers(m, a, i)
      /\ a.rows[i].expression = s.expression /\ a.rows[i].active = m.rows[i].active
      /\ IF m.rows[i].expression = s.expression THEN a = m ELSE NothingMeasured(a.rows[i].data)
  BY <1>1, ExpressionRow
<1> HIDE DEF a
<1>3. i \in DOMAIN a.rows
  BY <1>2 DEF KeepsOthers
<1>4. /\ Sound(b, devices) /\ KeepsOthers(a, b, i)
      /\ b.rows[i].expression = a.rows[i].expression /\ b.rows[i].active = s.active
      /\ IF a.rows[i].active = s.active THEN b = a ELSE NothingMeasured(b.rows[i].data)
  BY <1>1, <1>2, <1>3, ActivatedRow
<1> HIDE DEF b
<1>5. i \in DOMAIN b.rows
  BY <1>3, <1>4 DEF KeepsOthers
<1>6. /\ Sound(n, devices) /\ KeepsOthers(b, n, i)
      /\ n.rows[i].expression = b.rows[i].expression /\ n.rows[i].active = b.rows[i].active
      /\ n.rows[i].visible = s.visible /\ n.rows[i].data = b.rows[i].data
  BY <1>1, <1>4, <1>5, VisibleRow
<1> HIDE DEF n
<1>7. KeepsOthers(m, n, i)
  BY <1>2, <1>4, <1>6 DEF KeepsOthers
<1>8. SettingsOf(n.rows[i]) = SettingsOf(s)
  BY <1>2, <1>4, <1>6 DEF SettingsOf
<1>9. CASE KeepsData(m.rows[i], s)
  BY <1>2, <1>4, <1>6, <1>7, <1>8, <1>9 DEF CopySettings, a, b, n, KeepsData
<1>10. CASE ~KeepsData(m.rows[i], s)
  <2>1. NothingMeasured(b.rows[i].data)
    <3>1. CASE m.rows[i].active # s.active
      BY <1>2, <1>4, <3>1
    <3>2. CASE m.rows[i].active = s.active /\ m.rows[i].expression # s.expression
      BY <1>2, <1>4, <3>2
    <3>3. CASE /\ m.rows[i].active = s.active /\ m.rows[i].expression = s.expression
               /\ ~m.rows[i].active
      <4>1. b = m /\ m.rows[i].data = << >>
        BY <1>2, <1>4, <3>3 DEF Sound, DataAligned
      <4> QED BY <4>1 DEF NothingMeasured
    <3> QED BY <1>10, <3>1, <3>2, <3>3 DEF KeepsData
  <2> QED BY <1>6, <1>7, <1>8, <1>10, <2>1 DEF CopySettings, a, b, n
<1> QED BY <1>9, <1>10

-----------------------------------------------------------------------------
(* Operations on every row. *)

(* A list whose rows are all changed. *)
WithRows(m, rows) == [m EXCEPT !.rows = SubSeq(rows, 1, Len(m.rows))]

(* Changing the rows changes nothing else of the list.                    *)
LEMMA EveryRowChanged ==
    ASSUME NEW m \in Lists, NEW rows \in [DOMAIN m.rows -> Signals], NEW n, n = WithRows(m, rows)
    PROVE  /\ n \in Lists /\ Size(n) = Size(m) /\ DOMAIN n.rows = DOMAIN m.rows
           /\ n.plotted = m.plotted /\ n.graphs = m.graphs /\ n.selected = m.selected
           /\ n.crashed = m.crashed /\ n.rows \in Seq(Signals)
           /\ \A i \in DOMAIN m.rows : n.rows[i] = rows[i]
<1>1. m.rows \in Seq(Signals) /\ DOMAIN m.rows = 1 .. Len(m.rows) /\ Len(m.rows) \in Nat
  BY RowsOf DEF Size
<1>2. rows \in Seq(Signals) /\ Len(rows) = Len(m.rows) /\ SubSeq(rows, 1, Len(m.rows)) = rows
  BY <1>1
<1>3. n = [m EXCEPT !.rows = rows]
  BY <1>2 DEF WithRows
<1>4. /\ n \in Lists /\ n.rows = rows /\ n.plotted = m.plotted
      /\ n.graphs = m.graphs /\ n.selected = m.selected /\ n.crashed = m.crashed
  BY <1>2, <1>3, OtherRows
<1> QED BY <1>1, <1>2, <1>4 DEF Size

(* The rows keep their signals and their activity, and active ones share   *)
(* their times: the list stays sound.                                      *)
LEMMA EveryRowEdited ==
    ASSUME NEW devs, NEW old, NEW m, Sound(m, old), NEW n \in Lists, Size(n) = Size(m),
           DOMAIN n.rows = DOMAIN m.rows, n.plotted = m.plotted, n.graphs = m.graphs,
           n.selected = m.selected,
           \A i \in DOMAIN m.rows :
              /\ n.rows[i].id = m.rows[i].id /\ n.rows[i].active = m.rows[i].active
              /\ n.rows[i].visible = m.rows[i].visible
              /\ n.rows[i].state = Verdict(n.rows[i].expression, devs),
           DataAligned(n)
    PROVE  Sound(n, devs)
<1>1. m \in Lists /\ SelectionShown(m) /\ Drawn(m)
  BY DEF Sound
<1>2. SelectionShown(n)
  BY <1>1, SelectionKept
<1>3. Drawn(n)
  <2>1. ActiveIds(n) = ActiveIds(m)
    BY <1>1, SameActiveOnes
  <2> QED BY <1>1, <2>1 DEF Drawn
<1> QED BY <1>2, <1>3 DEF Sound, Judged

(* handleDeviceListChanged() *)
LEMMA CheckedList ==
    ASSUME NEW devs, NEW old, NEW m, Sound(m, old)
    PROVE  LET n == CheckAll(m, devs)
           IN  /\ Sound(n, devs) /\ n.plotted = m.plotted /\ DOMAIN n.rows = DOMAIN m.rows
               /\ Size(n) = Size(m)
               /\ \A i \in DOMAIN m.rows :
                     /\ Resembles(n.rows[i], m.rows[i]) /\ n.rows[i].data = m.rows[i].data
<1> DEFINE rows == [i \in DOMAIN m.rows |-> Checked(m.rows[i], devs)]
           n == CheckAll(m, devs)
<1>1. m \in Lists /\ \A i \in DOMAIN m.rows : m.rows[i] \in Signals
  BY RowsOf DEF Sound
<1>2. \A i \in DOMAIN m.rows :
          /\ Resembles(rows[i], m.rows[i]) /\ rows[i].data = m.rows[i].data
          /\ rows[i].active = m.rows[i].active /\ rows[i].expression = m.rows[i].expression
          /\ rows[i].state = Verdict(m.rows[i].expression, devs)
  BY <1>1, CheckedSignal
<1>3. n = WithRows(m, rows)
  BY DEF CheckAll, MapRows, WithRows
<1>4. rows \in [DOMAIN m.rows -> Signals]
  BY <1>2 DEF Resembles
<1> HIDE DEF rows, n
<1>5. /\ n \in Lists /\ Size(n) = Size(m) /\ DOMAIN n.rows = DOMAIN m.rows
      /\ n.plotted = m.plotted /\ n.graphs = m.graphs /\ n.selected = m.selected
      /\ \A i \in DOMAIN m.rows : n.rows[i] = rows[i]
  BY <1>1, <1>3, <1>4, EveryRowChanged
<1>6. DataAligned(n)
  <2>1. DataAligned(m) /\ \A i \in DOMAIN m.rows : Times(n.rows[i]) = Times(m.rows[i])
    BY <1>2, <1>5 DEF Sound, Times
  <2> QED BY <1>2, <1>5, <2>1 DEF DataAligned
<1>7. \A i \in DOMAIN m.rows :
          /\ n.rows[i].id = m.rows[i].id /\ n.rows[i].active = m.rows[i].active
          /\ n.rows[i].visible = m.rows[i].visible
          /\ n.rows[i].state = Verdict(n.rows[i].expression, devs)
  BY <1>2, <1>5 DEF Resembles, SettingsOf
<1>8. Sound(n, devs)
  BY <1>5, <1>6, <1>7, EveryRowEdited
<1> QED BY <1>2, <1>5, <1>8 DEF n

(* A signal without its series. *)
LEMMA CopiedSignal ==
    ASSUME NEW s \in Signals
    PROVE  /\ CopyOf(s) \in Signals /\ Resembles(CopyOf(s), s) /\ CopyOf(s).data = << >>
           /\ CopyOf(s).id = s.id /\ CopyOf(s).active = s.active /\ CopyOf(s).visible = s.visible
           /\ CopyOf(s).expression = s.expression /\ CopyOf(s).state = s.state
<1>1. << >> \in Seq(Samples)
  OBVIOUS
<1>2. /\ CopyOf(s) \in Signals /\ CopyOf(s).data = << >>
      /\ CopyOf(s).id = s.id /\ CopyOf(s).active = s.active /\ CopyOf(s).visible = s.visible
      /\ CopyOf(s).expression = s.expression /\ CopyOf(s).state = s.state
  BY <1>1 DEF CopyOf, Signals
<1> QED BY <1>2 DEF Resembles, SettingsOf

(* clear(): the active signals lose their series. *)
LEMMA ListWithoutData ==
    ASSUME NEW m, Sound(m, devices)
    PROVE  LET n == MapRows(m, LAMBDA s : IF s.active THEN CopyOf(s) ELSE s)
           IN  /\ Sound(n, devices) /\ n.plotted = m.plotted /\ DOMAIN n.rows = DOMAIN m.rows
               /\ \A i \in DOMAIN m.rows : n.rows[i].id = m.rows[i].id
<1> DEFINE rows == [i \in DOMAIN m.rows |-> IF m.rows[i].active THEN CopyOf(m.rows[i]) ELSE m.rows[i]]
           n == MapRows(m, LAMBDA s : IF s.active THEN CopyOf(s) ELSE s)
<1>1. m \in Lists /\ DataAligned(m) /\ Judged(m, devices)
      /\ \A i \in DOMAIN m.rows : m.rows[i] \in Signals
  BY RowsOf DEF Sound
<1>2. \A i \in DOMAIN m.rows :
          /\ rows[i] \in Signals /\ rows[i].data = << >>
          /\ rows[i].id = m.rows[i].id /\ rows[i].active = m.rows[i].active
          /\ rows[i].visible = m.rows[i].visible
          /\ rows[i].state = Verdict(rows[i].expression, devices)
  BY <1>1, CopiedSignal DEF DataAligned, Judged
<1>3. n = WithRows(m, rows)
  BY DEF MapRows, WithRows
<1>4. rows \in [DOMAIN m.rows -> Signals]
  BY <1>2
<1> HIDE DEF rows, n
<1>5. /\ n \in Lists /\ Size(n) = Size(m) /\ DOMAIN n.rows = DOMAIN m.rows
      /\ n.plotted = m.plotted /\ n.graphs = m.graphs /\ n.selected = m.selected
      /\ \A i \in DOMAIN m.rows : n.rows[i] = rows[i]
  BY <1>1, <1>3, <1>4, EveryRowChanged
<1>6. DataAligned(n)
  BY <1>2, <1>5 DEF DataAligned, Times
<1>7. Sound(n, devices)
  <2>1. \A i \in DOMAIN m.rows :
          /\ n.rows[i].id = m.rows[i].id /\ n.rows[i].active = m.rows[i].active
          /\ n.rows[i].visible = m.rows[i].visible
          /\ n.rows[i].state = Verdict(n.rows[i].expression, devices)
    BY <1>2, <1>5
  <2> QED BY <1>5, <1>6, <2>1, EveryRowEdited
<1> QED BY <1>2, <1>5, <1>7 DEF n

(* A signal with one more sample. *)
LEMMA SampledSignal ==
    ASSUME NEW s \in Signals, NEW t \in 1 .. MaxSamples
    PROVE  /\ Sampled(s, t) \in Signals
           /\ Sampled(s, t).id = s.id /\ Sampled(s, t).active = s.active
           /\ Sampled(s, t).visible = s.visible /\ Sampled(s, t).expression = s.expression
           /\ Sampled(s, t).state = s.state
           /\ Times(Sampled(s, t)) =
                [k \in 1 .. Len(s.data) + 1 |-> IF k <= Len(s.data) THEN Times(s)[k] ELSE t]
<1> DEFINE sample == SampleOf(t, Zero, "Good")
           data == Append(s.data, sample)
<1>1. sample \in Samples /\ sample.at = t
  BY DEF Samples, SampleOf
<1> HIDE DEF sample
<1>2. s.data \in Seq(Samples)
  BY DEF Signals
<1>3. /\ data \in Seq(Samples) /\ DOMAIN data = 1 .. Len(s.data) + 1
      /\ \A k \in 1 .. Len(s.data) : data[k] = s.data[k]
      /\ data[Len(s.data) + 1] = sample /\ Len(s.data) \in Nat /\ DOMAIN s.data = 1 .. Len(s.data)
  BY <1>1, <1>2
<1>4. Sampled(s, t) = [s EXCEPT !.data = data]
  BY DEF Sampled, sample, Signals
<1> HIDE DEF data
<1>5. /\ Sampled(s, t) \in Signals /\ Sampled(s, t).data = data
      /\ Sampled(s, t).id = s.id /\ Sampled(s, t).active = s.active
      /\ Sampled(s, t).visible = s.visible /\ Sampled(s, t).expression = s.expression
      /\ Sampled(s, t).state = s.state
  BY <1>3, <1>4 DEF Signals
<1>6. \A k \in 1 .. Len(s.data) + 1 : data[k].at = IF k <= Len(s.data) THEN s.data[k].at ELSE t
  BY <1>1, <1>3
<1>7. Times(Sampled(s, t)) =
        [k \in 1 .. Len(s.data) + 1 |-> IF k <= Len(s.data) THEN s.data[k].at ELSE t]
  BY <1>3, <1>5, <1>6 DEF Times
<1>8. \A k \in 1 .. Len(s.data) : Times(s)[k] = s.data[k].at
  BY <1>3 DEF Times
<1> QED BY <1>3, <1>5, <1>7, <1>8

(* plotResults(): every active signal gets a sample of the same time. *)
LEMMA SampledList ==
    ASSUME NEW m, Sound(m, devices), m.plotted, NEW t \in 1 .. MaxSamples
    PROVE  LET n == MapRows(m, LAMBDA s : IF s.active THEN Sampled(s, t) ELSE s)
           IN  /\ Sound(n, devices) /\ n.plotted = m.plotted /\ DOMAIN n.rows = DOMAIN m.rows
               /\ \A i \in DOMAIN m.rows : n.rows[i].id = m.rows[i].id
<1> DEFINE rows == [i \in DOMAIN m.rows |-> IF m.rows[i].active THEN Sampled(m.rows[i], t) ELSE m.rows[i]]
           n == MapRows(m, LAMBDA s : IF s.active THEN Sampled(s, t) ELSE s)
<1>1. m \in Lists /\ DataAligned(m) /\ Judged(m, devices)
      /\ \A i \in DOMAIN m.rows : m.rows[i] \in Signals
  BY RowsOf DEF Sound
<1>2. \A i \in DOMAIN m.rows :
          /\ rows[i] \in Signals
          /\ rows[i].id = m.rows[i].id /\ rows[i].active = m.rows[i].active
          /\ rows[i].visible = m.rows[i].visible
          /\ rows[i].state = Verdict(rows[i].expression, devices)
          /\ ~m.rows[i].active => rows[i].data = << >>
  BY <1>1, SampledSignal DEF DataAligned, Judged
<1>8. \A i, j \in DOMAIN m.rows :
          m.rows[i].active /\ m.rows[j].active => Times(rows[i]) = Times(rows[j])
  <2> SUFFICES ASSUME NEW i \in DOMAIN m.rows, NEW j \in DOMAIN m.rows,
                      m.rows[i].active, m.rows[j].active
               PROVE  Times(rows[i]) = Times(rows[j])
    OBVIOUS
  <2>1. m.rows[i] \in Signals /\ m.rows[j] \in Signals /\ Times(m.rows[i]) = Times(m.rows[j])
    BY <1>1 DEF DataAligned
  <2>2. Len(m.rows[i].data) = Len(m.rows[j].data)
    BY <2>1, SameLength
  <2>3. /\ Times(Sampled(m.rows[i], t)) = [k \in 1 .. Len(m.rows[i].data) + 1 |->
                 IF k <= Len(m.rows[i].data) THEN Times(m.rows[i])[k] ELSE t]
        /\ Times(Sampled(m.rows[j], t)) = [k \in 1 .. Len(m.rows[j].data) + 1 |->
                 IF k <= Len(m.rows[j].data) THEN Times(m.rows[j])[k] ELSE t]
    BY <2>1, SampledSignal
  <2>4. rows[i] = Sampled(m.rows[i], t) /\ rows[j] = Sampled(m.rows[j], t)
    OBVIOUS
  <2> HIDE DEF rows
  <2> QED BY <2>1, <2>2, <2>3, <2>4
<1>3. n = WithRows(m, rows)
  BY DEF MapRows, WithRows
<1>4. rows \in [DOMAIN m.rows -> Signals]
  BY <1>2
<1> HIDE DEF rows, n
<1>5. /\ n \in Lists /\ Size(n) = Size(m) /\ DOMAIN n.rows = DOMAIN m.rows
      /\ n.plotted = m.plotted /\ n.graphs = m.graphs /\ n.selected = m.selected
      /\ \A i \in DOMAIN m.rows : n.rows[i] = rows[i]
  <2>1. m \in Lists
    BY <1>1
  <2> QED BY ONLY <1>3, <1>4, <2>1, EveryRowChanged
<1>6. DataAligned(n)
  BY <1>2, <1>5, <1>8 DEF DataAligned
<1>7. Sound(n, devices)
  <2>1. \A i \in DOMAIN m.rows :
          /\ n.rows[i].id = m.rows[i].id /\ n.rows[i].active = m.rows[i].active
          /\ n.rows[i].visible = m.rows[i].visible
          /\ n.rows[i].state = Verdict(n.rows[i].expression, devices)
    BY <1>2, <1>5
  <2> QED BY <1>5, <1>6, <2>1, EveryRowEdited
<1> QED BY <1>2, <1>5, <1>7 DEF n

(* The draft of a list: its signals, without their series and a plot. *)
LEMMA DraftedList ==
    ASSUME NEW m, Sound(m, devices)
    PROVE  LET n == DraftOf(m)
           IN  /\ Sound(n, devices) /\ ~n.plotted /\ DOMAIN n.rows = DOMAIN m.rows
               /\ Size(n) = Size(m)
               /\ \A i \in DOMAIN m.rows : n.rows[i].id = m.rows[i].id
<1> DEFINE rows == [i \in DOMAIN m.rows |-> CopyOf(m.rows[i])]
           c == MapRows(m, CopyOf)
           n == DraftOf(m)
<1>1. /\ m \in Lists /\ Judged(m, devices) /\ \A i \in DOMAIN m.rows : m.rows[i] \in Signals
      /\ DOMAIN m.rows = 1 .. Size(m) /\ Size(m) \in Nat
  BY RowsOf DEF Sound
<1>2. \A i \in DOMAIN m.rows :
          /\ rows[i] \in Signals /\ rows[i].data = << >>
          /\ rows[i].id = m.rows[i].id
          /\ rows[i].state = Verdict(rows[i].expression, devices)
  BY <1>1, CopiedSignal DEF Judged
<1>3. c = WithRows(m, rows)
  BY DEF MapRows, WithRows
<1>4. rows \in [DOMAIN m.rows -> Signals]
  BY <1>2
<1> HIDE DEF rows, c
<1>5. /\ c \in Lists /\ Size(c) = Size(m) /\ DOMAIN c.rows = DOMAIN m.rows
      /\ c.rows \in Seq(Signals) /\ \A i \in DOMAIN m.rows : c.rows[i] = rows[i]
  BY <1>1, <1>3, <1>4, EveryRowChanged
<1>6. NoDraft \in Lists /\ ~NoDraft.plotted /\ NoDraft.selected = 0
  BY DEF NoDraft, EmptyList, Lists
<1>7. n = [NoDraft EXCEPT !.rows = c.rows]
  BY DEF DraftOf, c
<1>8. n \in Lists /\ n.rows = c.rows /\ n.plotted = NoDraft.plotted /\ n.selected = NoDraft.selected
  BY <1>5, <1>6, <1>7, OtherRows
<1> HIDE DEF n
<1>9. Sound(n, devices)
  <2>1. /\ DOMAIN n.rows = DOMAIN m.rows /\ ~n.plotted
        /\ \A i \in DOMAIN m.rows : /\ n.rows[i].data = << >>
                                    /\ n.rows[i].state = Verdict(n.rows[i].expression, devices)
    BY <1>2, <1>5, <1>6, <1>8
  <2>2. DataAligned(n)
    BY ONLY <2>1 DEF DataAligned, Times
  <2>3. Drawn(n) /\ Judged(n, devices)
    BY ONLY <2>1 DEF Drawn, Judged
  <2>4. SelectionShown(n)
    BY <1>1, <1>5, <1>6, <1>8 DEF SelectionShown, Size
  <2> QED BY <1>8, <2>2, <2>3, <2>4 DEF Sound
<1> QED BY <1>2, <1>5, <1>6, <1>8, <1>9 DEF n, Size

-----------------------------------------------------------------------------
(* Several rows are removed. *)

(* The rows of D between low and r, and where row r is once they are gone. *)
Between(D, low, r) == {q \in D : low < q /\ q < r}
PlaceAfter(D, low, r) == r - Cardinality(Between(D, low, r))

(* One more row removed: the rows behind it move up by one, others stay. *)
LEMMA CountBetween ==
    ASSUME NEW n \in Nat, NEW D \in SUBSET (1 .. n), NEW low \in 0 .. n, NEW r \in 1 .. n
    PROVE  /\ PlaceAfter(D, low, r) \in Int
           /\ r <= low => PlaceAfter(D, low, r) = r
           /\ low < r => low < PlaceAfter(D, low, r)
           /\ low # 0 /\ low \in D /\ low < r =>
                 PlaceAfter(D, low - 1, r) = PlaceAfter(D, low, r) - 1
           /\ low # 0 /\ low \notin D => PlaceAfter(D, low - 1, r) = PlaceAfter(D, low, r)
<1> DEFINE b == Between(D, low, r)
           k == Cardinality(b)
<1>0. /\ \A q \in D : q \in Int /\ 1 <= q /\ q <= n
      /\ low \in Int /\ r \in Int /\ 0 <= low /\ 1 <= r
  OBVIOUS
<1>1. b \in SUBSET (1 .. n) /\ IsFiniteSet(b) /\ k \in Nat
  <2>1. b \in SUBSET (1 .. n)
    BY DEF Between
  <2> HIDE DEF b
  <2> QED BY <2>1, UpToIsFinite, FS_CardinalityType
<1>2. r <= low => k = 0
  <2>1. r <= low => \A q \in D : ~(low < q /\ q < r)
    BY <1>0
  <2>2. r <= low => b = {}
    BY <2>1 DEF Between
  <2> HIDE DEF b
  <2> QED BY <2>2, FS_EmptySet
<1>3. low < r => k <= r - low - 1
  <2> SUFFICES ASSUME low < r PROVE k <= r - low - 1
    OBVIOUS
  <2> DEFINE I == (low + 1) .. (r - 1)
  <2>1. b \subseteq I
    <3>1. \A q \in D : low < q /\ q < r => q \in I
      BY <1>0
    <3> HIDE DEF I
    <3> QED BY <3>1 DEF Between
  <2>2. IsFiniteSet(I) /\ Cardinality(I) = r - low - 1
    <3>1. /\ low + 1 \in Int /\ r - 1 \in Int
      OBVIOUS
    <3>2. /\ IsFiniteSet(I)
          /\ Cardinality(I) = IF low + 1 > r - 1 THEN 0 ELSE r - 1 - (low + 1) + 1
      BY <3>1, FS_Interval
    <3> QED BY <3>2
  <2> HIDE DEF b, I
  <2> QED BY <2>1, <2>2, FS_Subset
<1>4. low \in D /\ low < r /\ low # 0 => Cardinality(Between(D, low - 1, r)) = k + 1
  <2> SUFFICES ASSUME low \in D, low < r, low # 0
               PROVE  Cardinality(Between(D, low - 1, r)) = k + 1
    OBVIOUS
  <2>1. \A q \in D : low - 1 < q /\ q < r <=> (low < q /\ q < r) \/ q = low
    BY <1>0
  <2>2. Between(D, low - 1, r) = b \cup {low} /\ low \notin b
    <3>1. ~(low < low)
      BY <1>0
    <3> QED BY <2>1, <3>1 DEF Between
  <2> HIDE DEF b
  <2> QED BY <1>1, <2>2, FS_AddElement
<1>5. low \notin D /\ low # 0 => Between(D, low - 1, r) = b
  <2> SUFFICES ASSUME low \notin D PROVE Between(D, low - 1, r) = b
    OBVIOUS
  <2>1. \A q \in D : q # low /\ (low - 1 < q /\ q < r <=> low < q /\ q < r)
    BY <1>0
  <2> QED BY <2>1 DEF Between
<1> HIDE DEF b
<1>6. PlaceAfter(D, low, r) = r - k
  BY DEF PlaceAfter, b
<1> HIDE DEF k
<1>7. /\ low \in D /\ low < r /\ low # 0 => PlaceAfter(D, low - 1, r) = r - (k + 1)
      /\ low \notin D /\ low # 0 => PlaceAfter(D, low - 1, r) = r - k
  BY <1>4, <1>5 DEF PlaceAfter, k
<1> QED BY <1>1, <1>2, <1>3, <1>6, <1>7

(* The rows of D above low are gone, the others follow in their order. *)
StillThere(m, D, low) == {r \in DOMAIN m.rows : r <= low \/ r \notin D}

RowsLeft(n, m, D, low, devs) ==
    /\ Sound(n, devs) /\ n.plotted = m.plotted
    /\ \A r \in StillThere(m, D, low) :
          /\ PlaceAfter(D, low, r) \in DOMAIN n.rows
          /\ n.rows[PlaceAfter(D, low, r)] = m.rows[r]
    /\ \A r, q \in StillThere(m, D, low) : PlaceAfter(D, low, r) = PlaceAfter(D, low, q) => r = q
    /\ \A j \in DOMAIN n.rows : \E r \in StillThere(m, D, low) : PlaceAfter(D, low, r) = j

(* A turn of the loop in removeSignals(). *)
RemoveTurn(n, D, low) == IF low \in D THEN RemoveSignal(n, low) ELSE n

(* A turn of the loop removes the row it comes to, if it is to go.        *)
LEMMA RemovedInTurn ==
    ASSUME NEW devs, NEW m, Sound(m, devs), NEW D \in SUBSET DOMAIN m.rows, NEW n,
           NEW low \in DOMAIN m.rows, RowsLeft(n, m, D, low, devs)
    PROVE  RowsLeft(RemoveTurn(n, D, low), m, D, low - 1, devs)
<1> DEFINE A(r) == PlaceAfter(D, low, r)
           B(r) == PlaceAfter(D, low - 1, r)
           S == StillThere(m, D, low)
           T == StillThere(m, D, low - 1)
           N == Size(m)
<1>1. N \in Nat /\ DOMAIN m.rows = 1 .. N /\ low \in 1 .. N
  BY RowsOf DEF Sound
<1>2. ASSUME NEW r \in 1 .. N
      PROVE  /\ A(r) \in Int /\ (r <= low => A(r) = r) /\ (low < r => low < A(r))
             /\ low \in D /\ low < r => B(r) = A(r) - 1
             /\ low \notin D => B(r) = A(r)
             /\ r < low => B(r) = r
  <2>1. D \in SUBSET (1 .. N) /\ low \in 0 .. N /\ low - 1 \in 0 .. N /\ low # 0
    BY <1>1
  <2> HIDE DEF N
  <2>2. /\ A(r) \in Int /\ (r <= low => A(r) = r) /\ (low < r => low < A(r))
        /\ low \in D /\ low < r => B(r) = A(r) - 1
        /\ low \notin D => B(r) = A(r)
    BY <1>1, <2>1, CountBetween
  <2>3. r <= low - 1 => B(r) = r
    BY <1>1, <2>1, CountBetween
  <2> QED BY <1>1, <2>2, <2>3
<1>3. /\ \A r \in S : r \in 1 .. N /\ A(r) \in DOMAIN n.rows /\ n.rows[A(r)] = m.rows[r]
      /\ \A r, q \in S : A(r) = A(q) => r = q
      /\ \A j \in DOMAIN n.rows : \E r \in S : A(r) = j
      /\ Sound(n, devs) /\ n.plotted = m.plotted
  BY <1>1 DEF RowsLeft, StillThere
<1>4. /\ low \in S
      /\ low \in D => T = S \ {low}
      /\ low \notin D => T = S
  BY <1>1 DEF StillThere
<1> HIDE DEF S, T, A, B
<1>5. CASE low \notin D
  <2>1. \A r \in S : B(r) = A(r)
    BY <1>2, <1>3, <1>5
  <2> QED BY <1>3, <1>4, <1>5, <2>1 DEF RemoveTurn, RowsLeft, T, B
<1>6. CASE low \in D
  <2> DEFINE o == RemoveSignal(n, low)
  <2>1. low \in DOMAIN n.rows
    BY <1>1, <1>2, <1>3, <1>4
  <2>2. /\ Sound(o, devs) /\ o.plotted = n.plotted /\ Size(o) = Size(n) - 1
        /\ \A j \in 1 .. Size(n) - 1 : o.rows[j] = IF j < low THEN n.rows[j] ELSE n.rows[j + 1]
    BY <1>3, <2>1, RemovedRow
  <2>3. /\ Size(n) \in Nat /\ DOMAIN n.rows = 1 .. Size(n) /\ DOMAIN o.rows = 1 .. Size(n) - 1
    BY <1>3, <2>2, RowsOf DEF Sound
  <2> HIDE DEF o, N
  <2>4. ASSUME NEW r \in T
        PROVE  /\ r # low /\ B(r) = IF r < low THEN r ELSE A(r) - 1
               /\ r < low => A(r) = r
               /\ r > low => A(r) > low
               /\ r \in Nat /\ A(r) \in 1 .. Size(n)
    BY <1>1, <1>2, <1>3, <1>4, <1>6, <2>3
  <2>5. ASSUME NEW r \in T PROVE B(r) \in DOMAIN o.rows /\ o.rows[B(r)] = m.rows[r]
    <3>0. r \in S /\ n.rows[A(r)] = m.rows[r]
      BY <1>3, <1>4, <1>6
    <3>1. CASE r < low
      <4>1. B(r) = r /\ A(r) = r /\ r \in 1 .. Size(n) /\ low \in 1 .. Size(n)
        BY <2>1, <2>3, <2>4, <3>1
      <4>2. r \in 1 .. Size(n) - 1
        BY <1>1, <2>3, <3>1, <4>1
      <4> QED BY <2>2, <2>3, <3>0, <3>1, <4>1, <4>2
    <3>2. CASE r > low
      <4>1. B(r) = A(r) - 1 /\ A(r) > low /\ A(r) \in 1 .. Size(n) /\ low \in 1 .. Size(n)
        BY <1>1, <2>1, <2>3, <2>4, <3>2
      <4>2. B(r) \in 1 .. Size(n) - 1 /\ ~(B(r) < low) /\ B(r) + 1 = A(r)
        BY <2>3, <4>1
      <4> QED BY <2>2, <2>3, <3>0, <4>2
    <3> QED BY <1>1, <2>4, <3>1, <3>2
  <2>6. \A r, q \in T : B(r) = B(q) => r = q
    BY <1>1, <1>3, <1>4, <1>6, <2>3, <2>4
  <2>7. ASSUME NEW j \in DOMAIN o.rows PROVE \E r \in T : B(r) = j
    <3>1. CASE j < low
      <4>1. j \in DOMAIN n.rows
        BY <2>3
      <4>2. PICK r \in S : A(r) = j
        BY <1>3, <4>1
      <4>3. r \in 1 .. N
        BY <1>3
      <4>4. r < low
        BY <1>1, <1>2, <3>1, <4>2, <4>3
      <4> QED BY <1>1, <1>4, <1>6, <2>4, <4>2, <4>4
    <3>2. CASE ~(j < low)
      <4>1. j + 1 \in DOMAIN n.rows
        BY <2>3
      <4>2. PICK r \in S : A(r) = j + 1
        BY <1>3, <4>1
      <4>3. r \in 1 .. N
        BY <1>3
      <4>4. r > low
        <5>1. r \in Nat /\ low \in Nat /\ j \in Nat /\ (r <= low => A(r) = r)
          BY <1>1, <1>2, <2>3, <4>3
        <5> QED BY ONLY <3>2, <4>2, <5>1
      <4>5. r \in T
        BY <1>1, <1>4, <1>6, <4>2, <4>4
      <4>6. B(r) = j
        BY <1>1, <2>3, <2>4, <4>2, <4>4, <4>5
      <4> QED BY <4>5, <4>6
    <3> QED BY <3>1, <3>2
  <2> QED BY <1>3, <1>6, <2>2, <2>5, <2>6, <2>7 DEF RemoveTurn, RowsLeft, T, B, o
<1> QED BY <1>5, <1>6

(* removeSignals(): the loop down to the first row. *)
LEMMA RemovedRows ==
    ASSUME NEW devs, NEW m, Sound(m, devs), NEW D \in SUBSET DOMAIN m.rows
    PROVE  RowsLeft(RemoveSignals(m, D), m, D, 0, devs)
<1> DEFINE N == Size(m)
           Turn(l, seen) == RemoveTurn(l, D, N + 1 - seen)
           left[seen \in 0 .. N] == IF seen = 0 THEN m ELSE Turn(left[seen - 1], seen)
<1>1. N \in Nat /\ DOMAIN m.rows = 1 .. N
  BY RowsOf DEF Sound
<1>2. RemoveSignals(m, D) = left[N]
  BY DEF RemoveSignals, RemoveTurn
<1> HIDE DEF Turn
<1>3. left = [seen \in 0 .. N |-> IF seen = 0 THEN m ELSE Turn(left[seen - 1], seen)]
  <2> HIDE DEF N
  <2> DEFINE Works(n) == \E g : g = [k \in 0 .. n |-> IF k = 0 THEN m ELSE Turn(g[k - 1], k)]
             Failing == {n \in Nat : ~Works(n)}
  <2>1. Works(0)
    <3> DEFINE g == [k \in 0 .. 0 |-> m]
    <3>1. g = [k \in 0 .. 0 |-> IF k = 0 THEN m ELSE Turn(g[k - 1], k)]
      OBVIOUS
    <3> QED BY <3>1
  <2>2. ASSUME NEW n \in Nat, Works(n) PROVE Works(n + 1)
    <3>1. PICK g : g = [k \in 0 .. n |-> IF k = 0 THEN m ELSE Turn(g[k - 1], k)]
      BY <2>2
    <3> DEFINE h == [k \in 0 .. n + 1 |-> IF k = n + 1 THEN Turn(g[n], n + 1) ELSE g[k]]
    <3>2. ASSUME NEW k \in 0 .. n + 1 PROVE h[k] = IF k = 0 THEN m ELSE Turn(h[k - 1], k)
      <4>1. CASE k = n + 1
        BY <4>1
      <4>2. CASE k \in 0 .. n
        <5>1. h[k] = g[k] /\ (k # 0 => h[k - 1] = g[k - 1])
          BY <4>2
        <5>2. g[k] = IF k = 0 THEN m ELSE Turn(g[k - 1], k)
          BY <3>1, <4>2
        <5> QED BY <5>1, <5>2
      <4> QED BY <4>1, <4>2
    <3>3. h = [k \in 0 .. n + 1 |-> h[k]]
      OBVIOUS
    <3> HIDE DEF h
    <3> QED BY <3>2, <3>3
  <2> HIDE DEF Works
  <2>3. Failing = {}
    <3> SUFFICES ASSUME Failing # {} PROVE FALSE
      OBVIOUS
    <3>1. PICK n \in Failing : \A o \in Failing : n <= o
      BY LeastExists
    <3>2. n # 0 /\ n - 1 \in Nat /\ n - 1 \notin Failing
      BY <3>1, <2>1
    <3> QED BY <3>1, <3>2, <2>2
  <2>4. Works(N)
    BY <1>1, <2>3
  <2> QED BY <2>4 DEF Works
<1> HIDE DEF left
<1> DEFINE Failing == {seen \in 0 .. N : ~RowsLeft(left[seen], m, D, N - seen, devs)}
<1>4. 0 \notin Failing
  <2>1. left[0] = m
    BY <1>1, <1>3
  <2>2. StillThere(m, D, N) = DOMAIN m.rows
    BY <1>1 DEF StillThere
  <2>3. \A r \in DOMAIN m.rows : PlaceAfter(D, N, r) = r
    <3> HIDE DEF N
    <3>1. \A r \in 1 .. N : r <= N /\ N \in 0 .. N
      BY <1>1
    <3> QED BY <1>1, <3>1, CountBetween
  <2>4. RowsLeft(m, m, D, N, devs)
    BY <2>2, <2>3 DEF RowsLeft
  <2> QED BY <1>1, <2>1, <2>4
<1>5. Failing = {}
  <2> SUFFICES ASSUME Failing # {} PROVE FALSE
    OBVIOUS
  <2>1. Failing \in SUBSET Nat
    OBVIOUS
  <2>2. PICK seen \in Failing : \A other \in Failing : seen <= other
    <3> HIDE DEF Failing
    <3> QED BY <2>1, LeastExists
  <2> DEFINE low == N + 1 - seen
  <2> HIDE DEF N
  <2>3. /\ seen \in 0 .. N /\ seen # 0 /\ seen - 1 \in 0 .. N /\ seen - 1 \notin Failing
        /\ low \in DOMAIN m.rows /\ N - (seen - 1) = low /\ low - 1 = N - seen
    BY <1>1, <1>4, <2>2
  <2>4. RowsLeft(left[seen - 1], m, D, low, devs)
    BY <2>3
  <2>5. RowsLeft(RemoveTurn(left[seen - 1], D, low), m, D, low - 1, devs)
    <3> HIDE DEF low
    <3> QED BY <2>3, <2>4, RemovedInTurn
  <2>6. left[seen] = RemoveTurn(left[seen - 1], D, low)
    BY <1>3, <2>3 DEF Turn
  <2> QED BY <2>2, <2>3, <2>5, <2>6
<1> QED
  <2>1. N \in 0 .. N /\ N - N = 0
    BY <1>1
  <2> QED BY <1>2, <1>5, <2>1

-----------------------------------------------------------------------------
(***************************************************************************)
(* The inductive invariant.                                                *)
(***************************************************************************)

(* The list of the application: every signal has an id of its own. *)
SourceInv ==
    /\ Sound(source, devices) /\ source.plotted /\ Size(source) <= MaxSignals
    /\ \A i \in DOMAIN source.rows : 1 <= source.rows[i].id /\ source.rows[i].id <= lastId
    /\ \A i, j \in DOMAIN source.rows : source.rows[i].id = source.rows[j].id => i = j

(* The draft: a row in the list has at most one row in the draft. *)
DraftInv ==
    /\ Sound(draft, devices) /\ ~draft.plotted /\ Size(draft) <= MaxSignals
    /\ origins \in Seq(Nat) /\ Len(origins) = Size(draft)
    /\ \A d, e \in DOMAIN draft.rows : origins[d] = origins[e] /\ origins[d] # NewRow => d = e
    /\ OriginsFollowTheirSignal
    /\ ~open => Size(draft) = 0

CountersOK ==
    /\ open \in BOOLEAN /\ devices \in DeviceLists
    /\ lastId \in 0 .. MaxIds /\ now \in 0 .. MaxSamples /\ edits \in 0 .. MaxEdits

IInv == SourceInv /\ DraftInv /\ CountersOK

(* What the draft stands for. *)
LEMMA DraftRows ==
    ASSUME SourceInv, DraftInv
    PROVE  /\ source \in Lists /\ draft \in Lists /\ DOMAIN origins = DOMAIN draft.rows
           /\ Size(source) \in Nat /\ DOMAIN source.rows = 1 .. Size(source)
           /\ Size(draft) \in Nat /\ DOMAIN draft.rows = 1 .. Size(draft)
           /\ \A d \in DOMAIN draft.rows :
                 /\ draft.rows[d] \in Signals /\ draft.rows[d].data = << >>
                 /\ origins[d] = NewRow \/ origins[d] \in DOMAIN source.rows
<1>1. source \in Lists /\ draft \in Lists
  BY DEF SourceInv, DraftInv, Sound
<1>2. /\ Size(source) \in Nat /\ DOMAIN source.rows = 1 .. Size(source)
      /\ Size(draft) \in Nat /\ DOMAIN draft.rows = 1 .. Size(draft)
      /\ \A d \in DOMAIN draft.rows : draft.rows[d] \in Signals
  BY <1>1, RowsOf
<1>3. DOMAIN origins = DOMAIN draft.rows
  BY <1>2 DEF DraftInv
<1>4. \A d \in DOMAIN draft.rows :
          draft.rows[d].data = << >> /\ (origins[d] = NewRow \/ origins[d] \in DOMAIN source.rows)
  BY DEF DraftInv, Sound, DataAligned, OriginsFollowTheirSignal
<1> QED BY <1>1, <1>2, <1>3, <1>4

-----------------------------------------------------------------------------
(***************************************************************************)
(* Applying the draft.                                                     *)
(***************************************************************************)

KeptDraftRows == {d \in DOMAIN draft.rows : origins[d] # NewRow}

(* Once the dropped rows are gone, the kept rows of the draft and the rows *)
(* that are left stand for each other.                                     *)
LEMMA KeptPlaces ==
    ASSUME SourceInv, DraftInv
    PROVE  LET left == RemoveSignals(source, DroppedRows)
           IN  /\ Sound(left, devices) /\ left.plotted
               /\ \A d \in KeptDraftRows :
                     /\ KeptRows[d] \in DOMAIN left.rows
                     /\ left.rows[KeptRows[d]] = source.rows[origins[d]]
               /\ \A d, e \in KeptDraftRows : KeptRows[d] = KeptRows[e] => d = e
               /\ \A j \in DOMAIN left.rows : \E d \in KeptDraftRows : KeptRows[d] = j
<1> DEFINE left == RemoveSignals(source, DroppedRows)
           S == StillThere(source, DroppedRows, 0)
           A(r) == PlaceAfter(DroppedRows, 0, r)
<1>1. DroppedRows \in SUBSET DOMAIN source.rows
  BY DEF DroppedRows
<1>2. RowsLeft(left, source, DroppedRows, 0, devices)
  BY <1>1, RemovedRows DEF SourceInv
<1>3. /\ \A r \in S : A(r) \in DOMAIN left.rows /\ left.rows[A(r)] = source.rows[r]
      /\ \A r, q \in S : A(r) = A(q) => r = q
      /\ \A j \in DOMAIN left.rows : \E r \in S : A(r) = j
      /\ Sound(left, devices) /\ left.plotted
  BY <1>2 DEF RowsLeft, SourceInv
<1>4. \A d \in KeptDraftRows : origins[d] \in S /\ KeptRows[d] = A(origins[d])
  <2> TAKE d \in KeptDraftRows
  <2>1. d \in DOMAIN origins /\ origins[d] \in DOMAIN source.rows /\ origins[d] # NewRow
    BY DraftRows DEF KeptDraftRows
  <2>2. origins[d] \in S
    BY <2>1 DEF StillThere, DroppedRows, Range
  <2>3. {row \in DroppedRows : row < origins[d]} = Between(DroppedRows, 0, origins[d])
    <3>1. \A row \in DroppedRows : 0 < row
      BY <1>1, DraftRows
    <3> QED BY <3>1 DEF Between
  <2> QED BY <2>1, <2>2, <2>3 DEF KeptRows, RowAfterRemoval, PlaceAfter
<1>5. \A r \in S : \E d \in KeptDraftRows : origins[d] = r
  <2> TAKE r \in S
  <2>1. r \in DOMAIN source.rows /\ r \in Range(origins)
    BY DraftRows DEF StillThere, DroppedRows
  <2>2. r # NewRow
    BY <2>1, DraftRows DEF NewRow
  <2> QED BY <2>1, <2>2, DraftRows DEF Range, KeptDraftRows
<1>6. \A d, e \in KeptDraftRows : origins[d] = origins[e] => d = e
  BY DEF KeptDraftRows, DraftInv
<1> HIDE DEF left, S, A
<1>7. /\ \A d \in KeptDraftRows :
            KeptRows[d] \in DOMAIN left.rows /\ left.rows[KeptRows[d]] = source.rows[origins[d]]
      /\ \A d, e \in KeptDraftRows : KeptRows[d] = KeptRows[e] => d = e
      /\ \A j \in DOMAIN left.rows : \E d \in KeptDraftRows : KeptRows[d] = j
  <2>1. \A d, e \in KeptDraftRows : KeptRows[d] = KeptRows[e] => d = e
    BY <1>3, <1>4, <1>6
  <2>2. \A j \in DOMAIN left.rows : \E d \in KeptDraftRows : KeptRows[d] = j
    <3> TAKE j \in DOMAIN left.rows
    <3>1. PICK r \in S : A(r) = j
      BY <1>3
    <3>2. PICK d \in KeptDraftRows : origins[d] = r
      BY <1>5
    <3> QED BY <1>4, <3>1, <3>2
  <2> QED BY <1>3, <1>4, <2>1, <2>2
<1> QED BY <1>3, <1>7 DEF left

(* A kept row as the draft shows it. *)
AsInDraft(s, d) ==
    LET old == source.rows[origins[d]]
    IN  /\ s.id = old.id
        /\ SettingsOf(s) = SettingsOf(draft.rows[d])
        /\ IF KeepsData(old, draft.rows[d]) THEN s.data = old.data ELSE NothingMeasured(s.data)

(* The kept rows up to row d of the draft have its settings. *)
CopiedUpTo(n, d) ==
    LET left == RemoveSignals(source, DroppedRows)
    IN  /\ Sound(n, devices) /\ n.plotted /\ DOMAIN n.rows = DOMAIN left.rows
        /\ \A e \in KeptDraftRows :
              IF e <= d THEN AsInDraft(n.rows[KeptRows[e]], e)
              ELSE n.rows[KeptRows[e]] = source.rows[origins[e]]

(* A turn of the loop that copies the settings. *)
CopyTurn(n, d) ==
    IF origins[d] = NewRow THEN n ELSE CopySettings(n, draft.rows[d], KeptRows[d])

(* A turn copies the settings of one draft row, and touches no other row. *)
LEMMA CopiedInTurn ==
    ASSUME SourceInv, DraftInv, NEW d \in DOMAIN draft.rows, NEW n, CopiedUpTo(n, d - 1)
    PROVE  CopiedUpTo(CopyTurn(n, d), d)
<1> DEFINE left == RemoveSignals(source, DroppedRows)
           o == CopyTurn(n, d)
<1>1. /\ \A e \in KeptDraftRows : KeptRows[e] \in DOMAIN left.rows
      /\ \A e, f \in KeptDraftRows : KeptRows[e] = KeptRows[f] => e = f
  BY KeptPlaces
<1>2. /\ Sound(n, devices) /\ n.plotted /\ DOMAIN n.rows = DOMAIN left.rows
      /\ \A e \in KeptDraftRows :
            IF e <= d - 1 THEN AsInDraft(n.rows[KeptRows[e]], e)
            ELSE n.rows[KeptRows[e]] = source.rows[origins[e]]
  BY DEF CopiedUpTo
<1>3. /\ d \in Nat /\ KeptDraftRows \subseteq Nat /\ draft.rows[d] \in Signals
  BY DraftRows DEF KeptDraftRows
<1> HIDE DEF left
<1>4. CASE origins[d] = NewRow
  <2>1. o = n
    BY <1>4 DEF CopyTurn
  <2>2. \A e \in KeptDraftRows : e # d
    BY <1>4 DEF KeptDraftRows
  <2>3. \A e \in KeptDraftRows : e <= d <=> e <= d - 1
    BY <1>3, <2>2
  <2> QED BY <1>2, <2>1, <2>3 DEF CopiedUpTo, left
<1>5. CASE origins[d] # NewRow
  <2> DEFINE i == KeptRows[d]
             s == draft.rows[d]
  <2>1. o = CopySettings(n, s, i)
    BY <1>5 DEF CopyTurn
  <2>2. d \in KeptDraftRows /\ i \in DOMAIN n.rows /\ n.rows[i] = source.rows[origins[d]]
    BY <1>1, <1>2, <1>3, <1>5 DEF KeptDraftRows
  <2>3. /\ Sound(o, devices) /\ KeepsOthers(n, o, i)
        /\ SettingsOf(o.rows[i]) = SettingsOf(s)
        /\ IF KeepsData(n.rows[i], s) THEN o.rows[i].data = n.rows[i].data
           ELSE NothingMeasured(o.rows[i].data)
    <3> HIDE DEF o, i, s
    <3>1. s \in Signals
      BY <1>3 DEF s
    <3> QED BY <1>2, <2>1, <2>2, <3>1, CopiedRow
  <2> HIDE DEF o
  <2>4. AsInDraft(o.rows[i], d)
    BY <2>2, <2>3 DEF AsInDraft, KeepsOthers
  <2>5. \A e \in KeptDraftRows : e # d => o.rows[KeptRows[e]] = n.rows[KeptRows[e]]
    BY <1>1, <1>2, <2>2, <2>3 DEF KeepsOthers
  <2>6. ASSUME NEW e \in KeptDraftRows
        PROVE  IF e <= d THEN AsInDraft(o.rows[KeptRows[e]], e)
               ELSE o.rows[KeptRows[e]] = source.rows[origins[e]]
    <3>1. CASE e = d
      BY <1>3, <2>4, <3>1
    <3>2. CASE e # d
      <4>1. e <= d <=> e <= d - 1
        BY <1>3, <3>2
      <4> QED BY <1>2, <2>5, <3>2, <4>1
    <3> QED BY <3>1, <3>2
  <2>7. Sound(o, devices) /\ o.plotted /\ DOMAIN o.rows = DOMAIN left.rows
    BY <1>2, <2>3 DEF KeepsOthers
  <2> QED BY <2>6, <2>7 DEF CopiedUpTo, left, o
<1> QED BY <1>4, <1>5

(* The loop over the draft: every kept row ends with the draft's settings. *)
LEMMA UpdatedRows ==
    ASSUME SourceInv, DraftInv
    PROVE  CopiedUpTo(Updated, Size(draft))
<1> DEFINE N == Size(draft)
           left == RemoveSignals(source, DroppedRows)
           upTo[d \in 0 .. N] == IF d = 0 THEN left ELSE CopyTurn(upTo[d - 1], d)
<1>1. N \in Nat /\ DOMAIN draft.rows = 1 .. N /\ KeptDraftRows \subseteq 1 .. N
  BY DraftRows DEF KeptDraftRows
<1>2. Updated = upTo[N]
  BY DEF Updated, CopyTurn
<1> HIDE DEF left
<1>3. upTo = [d \in 0 .. N |-> IF d = 0 THEN left ELSE CopyTurn(upTo[d - 1], d)]
  <2> HIDE DEF N
  <2> DEFINE Works(n) == \E g : g = [k \in 0 .. n |-> IF k = 0 THEN left ELSE CopyTurn(g[k - 1], k)]
             Failing == {n \in Nat : ~Works(n)}
  <2>1. Works(0)
    <3> DEFINE g == [k \in 0 .. 0 |-> left]
    <3>1. g = [k \in 0 .. 0 |-> IF k = 0 THEN left ELSE CopyTurn(g[k - 1], k)]
      OBVIOUS
    <3> QED BY <3>1
  <2>2. ASSUME NEW n \in Nat, Works(n) PROVE Works(n + 1)
    <3>1. PICK g : g = [k \in 0 .. n |-> IF k = 0 THEN left ELSE CopyTurn(g[k - 1], k)]
      BY <2>2
    <3> DEFINE h == [k \in 0 .. n + 1 |-> IF k = n + 1 THEN CopyTurn(g[n], n + 1) ELSE g[k]]
    <3>2. ASSUME NEW k \in 0 .. n + 1 PROVE h[k] = IF k = 0 THEN left ELSE CopyTurn(h[k - 1], k)
      <4>1. CASE k = n + 1
        BY <4>1
      <4>2. CASE k \in 0 .. n
        <5>1. h[k] = g[k] /\ (k # 0 => h[k - 1] = g[k - 1])
          BY <4>2
        <5>2. g[k] = IF k = 0 THEN left ELSE CopyTurn(g[k - 1], k)
          BY <3>1, <4>2
        <5> QED BY <5>1, <5>2
      <4> QED BY <4>1, <4>2
    <3>3. h = [k \in 0 .. n + 1 |-> h[k]]
      OBVIOUS
    <3> HIDE DEF h
    <3> QED BY <3>2, <3>3
  <2> HIDE DEF Works
  <2>3. Failing = {}
    <3> SUFFICES ASSUME Failing # {} PROVE FALSE
      OBVIOUS
    <3>1. PICK n \in Failing : \A o \in Failing : n <= o
      BY LeastExists
    <3>2. n # 0 /\ n - 1 \in Nat /\ n - 1 \notin Failing
      BY <3>1, <2>1
    <3> QED BY <3>1, <3>2, <2>2
  <2>4. Works(N)
    BY <1>1, <2>3
  <2> QED BY <2>4 DEF Works
<1> HIDE DEF upTo
<1> DEFINE Failing == {d \in 0 .. N : ~CopiedUpTo(upTo[d], d)}
<1>4. 0 \notin Failing
  <2>1. upTo[0] = left
    BY <1>1, <1>3
  <2>2. \A e \in KeptDraftRows : ~(e <= 0)
    BY <1>1
  <2>3. CopiedUpTo(left, 0)
    BY <2>2, KeptPlaces DEF CopiedUpTo, left
  <2> QED BY <2>1, <2>3
<1>5. Failing = {}
  <2> SUFFICES ASSUME Failing # {} PROVE FALSE
    OBVIOUS
  <2>1. Failing \in SUBSET Nat
    OBVIOUS
  <2>2. PICK d \in Failing : \A other \in Failing : d <= other
    <3> HIDE DEF Failing
    <3> QED BY <2>1, LeastExists
  <2> HIDE DEF N
  <2>3. d \in 0 .. N /\ d \in DOMAIN draft.rows /\ d - 1 \in 0 .. N /\ d - 1 \notin Failing
    BY <1>1, <1>4, <2>2
  <2>4. CopiedUpTo(upTo[d - 1], d - 1)
    BY <2>3
  <2>5. CopiedUpTo(CopyTurn(upTo[d - 1], d), d)
    BY <2>3, <2>4, CopiedInTurn
  <2>6. upTo[d] = CopyTurn(upTo[d - 1], d)
    BY <1>1, <1>3, <2>3
  <2> QED BY <2>2, <2>3, <2>5, <2>6
<1>6. N \in 0 .. N
  BY <1>1
<1> QED BY <1>2, <1>5, <1>6

(* The new rows of the draft, in their order. *)
LEMMA NewDraftRows ==
    ASSUME SourceInv, DraftInv
    PROVE  /\ Len(AddedRows) \in Nat /\ DOMAIN AddedRows = 1 .. Len(AddedRows)
           /\ \A k \in 1 .. Len(AddedRows) :
                 AddedRows[k] \in DOMAIN draft.rows /\ origins[AddedRows[k]] = NewRow
           /\ \A j, k \in 1 .. Len(AddedRows) : AddedRows[j] = AddedRows[k] => j = k
           /\ \A d \in DOMAIN draft.rows \ KeptDraftRows : \E k \in 1 .. Len(AddedRows) : AddedRows[k] = d
<1> DEFINE S == {d \in DOMAIN origins : origins[d] = NewRow}
           n == Cardinality(S)
<1>1. S \in SUBSET (1 .. Size(draft)) /\ Size(draft) \in Nat /\ S = DOMAIN draft.rows \ KeptDraftRows
  BY DraftRows DEF KeptDraftRows
<1>2. \A d \in S : d \in DOMAIN draft.rows /\ origins[d] = NewRow
  BY DraftRows
<1>3. AddedRows = Ascending(S)
  BY DEF AddedRows
<1> HIDE DEF S
<1>4. /\ n \in Nat /\ AddedRows \in [1 .. n -> S]
      /\ \A i, j \in 1 .. n : AddedRows[i] = AddedRows[j] => i = j
      /\ \A x \in S : \E i \in 1 .. n : AddedRows[i] = x
  <2> DEFINE a == Ascending(S)
  <2>1. S \in SUBSET (1 .. Size(draft)) /\ Size(draft) \in Nat
    BY <1>1
  <2>2. /\ n \in Nat /\ a \in [1 .. n -> S]
        /\ \A i, j \in 1 .. n : a[i] = a[j] => i = j
        /\ \A x \in S : \E i \in 1 .. n : a[i] = x
    BY <2>1, AscendingOrder
  <2> QED BY <1>3, <2>2
<1> HIDE DEF n
<1>5. Len(AddedRows) = n /\ DOMAIN AddedRows = 1 .. n
  BY <1>4
<1> QED BY <1>1, <1>2, <1>4, <1>5

(* A new row as the draft shows it. *)
NewAsInDraft(s, d, id) ==
    s.id = id /\ SettingsOf(s) = SettingsOf(draft.rows[d]) /\ NothingMeasured(s.data)

(* The first k new rows of the draft are at the end of the list. *)
ExtendedUpTo(n, k) ==
    /\ Sound(n, devices) /\ n.plotted /\ Size(n) = Size(Updated) + k
    /\ \A j \in DOMAIN Updated.rows : n.rows[j] = Updated.rows[j]
    /\ \A q \in 1 .. k : NewAsInDraft(n.rows[Size(Updated) + q], AddedRows[q], lastId + q)

(* A turn of the loop that appends. *)
AddTurn(n, k) == AddSignal(n, [draft.rows[AddedRows[k]] EXCEPT !.id = lastId + k], devices)

(* A turn appends one new row, and leaves the others as they are.         *)
LEMMA ExtendedInTurn ==
    ASSUME IInv, NEW k \in 1 .. Len(AddedRows), NEW n, ExtendedUpTo(n, k - 1)
    PROVE  ExtendedUpTo(AddTurn(n, k), k)
<1> DEFINE U == Size(Updated)
           d == AddedRows[k]
           s == [draft.rows[d] EXCEPT !.id = lastId + k]
           o == AddTurn(n, k)
           new == o.rows[Size(n) + 1]
<1>1. /\ Sound(n, devices) /\ n.plotted /\ Size(n) = U + (k - 1)
      /\ \A j \in DOMAIN Updated.rows : n.rows[j] = Updated.rows[j]
      /\ \A q \in 1 .. k - 1 : NewAsInDraft(n.rows[U + q], AddedRows[q], lastId + q)
  BY DEF ExtendedUpTo
<1>2. U \in Nat /\ DOMAIN Updated.rows = 1 .. U
  BY UpdatedRows, RowsOf DEF CopiedUpTo, IInv, Sound
<1>3. /\ k \in Nat /\ k >= 1 /\ lastId \in Nat /\ draft.rows[d] \in Signals
      /\ draft.rows[d].data = << >>
  BY NewDraftRows, DraftRows, DraftAssumption DEF IInv, CountersOK
<1>4. /\ s \in Signals /\ s.id = lastId + k /\ SettingsOf(s) = SettingsOf(draft.rows[d])
      /\ s.data = << >>
  <2> DEFINE r == draft.rows[d]
             id == lastId + k
  <2>1. r \in Signals /\ r.data = << >> /\ id \in Nat
    BY <1>3
  <2>2. s = [r EXCEPT !.id = id]
    OBVIOUS
  <2> HIDE DEF s, r, id
  <2>3. s \in Signals /\ s.id = id /\ s.data = << >> /\ SettingsOf(s) = SettingsOf(r)
    BY ONLY <2>1, <2>2 DEF Signals, SettingsOf
  <2> QED BY <2>3 DEF r, id
<1>5. o = AddSignal(n, s, devices)
  BY DEF AddTurn
<1> HIDE DEF s, o
<1>6. /\ Sound(o, devices) /\ o.plotted = n.plotted /\ Size(o) = Size(n) + 1
      /\ \A i \in DOMAIN n.rows : o.rows[i] = n.rows[i]
      /\ Resembles(new, s) /\ NothingMeasured(new.data)
  <2>1. Sound(n, devices) /\ s \in Signals /\ s.data = << >>
    BY <1>1, <1>4
  <2> HIDE DEF U, d
  <2> QED BY <1>5, <2>1, AddedRow
<1>7. DOMAIN n.rows = 1 .. Size(n)
  BY <1>1, RowsOf DEF Sound
<1> HIDE DEF U
<1>8. Size(o) = U + k /\ Size(n) + 1 = U + k
  BY <1>1, <1>2, <1>3, <1>6
<1>9. \A j \in DOMAIN Updated.rows : o.rows[j] = Updated.rows[j]
  BY <1>1, <1>2, <1>3, <1>6, <1>7
<1>10. ASSUME NEW q \in 1 .. k PROVE NewAsInDraft(o.rows[U + q], AddedRows[q], lastId + q)
  <2>1. CASE q = k
    BY <1>4, <1>6, <1>8, <2>1 DEF NewAsInDraft, Resembles
  <2>2. CASE q # k
    <3>1. q \in 1 .. k - 1 /\ U + q \in DOMAIN n.rows
      BY <1>1, <1>2, <1>3, <1>7, <2>2
    <3> QED BY <1>1, <1>6, <3>1
  <2> QED BY <2>1, <2>2
<1> QED BY <1>1, <1>6, <1>8, <1>9, <1>10 DEF ExtendedUpTo, U, o

(* The loop over the new rows: all are appended, in the order of the draft. *)
LEMMA ExtendedRows ==
    ASSUME IInv
    PROVE  ExtendedUpTo(Extended, Len(AddedRows))
<1> DEFINE N == Len(AddedRows)
           upTo[k \in 0 .. N] == IF k = 0 THEN Updated ELSE AddTurn(upTo[k - 1], k)
<1>1. N \in Nat
  BY NewDraftRows DEF IInv
<1>2. Extended = upTo[N]
  BY DEF Extended, AddTurn
<1>3. upTo = [k \in 0 .. N |-> IF k = 0 THEN Updated ELSE AddTurn(upTo[k - 1], k)]
  <2> HIDE DEF N
  <2> DEFINE Works(n) == \E g : g = [k \in 0 .. n |-> IF k = 0 THEN Updated ELSE AddTurn(g[k - 1], k)]
             Failing == {n \in Nat : ~Works(n)}
  <2>1. Works(0)
    <3> DEFINE g == [k \in 0 .. 0 |-> Updated]
    <3>1. g = [k \in 0 .. 0 |-> IF k = 0 THEN Updated ELSE AddTurn(g[k - 1], k)]
      OBVIOUS
    <3> QED BY <3>1
  <2>2. ASSUME NEW n \in Nat, Works(n) PROVE Works(n + 1)
    <3>1. PICK g : g = [k \in 0 .. n |-> IF k = 0 THEN Updated ELSE AddTurn(g[k - 1], k)]
      BY <2>2
    <3> DEFINE h == [k \in 0 .. n + 1 |-> IF k = n + 1 THEN AddTurn(g[n], n + 1) ELSE g[k]]
    <3>2. ASSUME NEW k \in 0 .. n + 1 PROVE h[k] = IF k = 0 THEN Updated ELSE AddTurn(h[k - 1], k)
      <4>1. CASE k = n + 1
        BY <4>1
      <4>2. CASE k \in 0 .. n
        <5>1. h[k] = g[k] /\ (k # 0 => h[k - 1] = g[k - 1])
          BY <4>2
        <5>2. g[k] = IF k = 0 THEN Updated ELSE AddTurn(g[k - 1], k)
          BY <3>1, <4>2
        <5> QED BY <5>1, <5>2
      <4> QED BY <4>1, <4>2
    <3>3. h = [k \in 0 .. n + 1 |-> h[k]]
      OBVIOUS
    <3> HIDE DEF h
    <3> QED BY <3>2, <3>3
  <2> HIDE DEF Works
  <2>3. Failing = {}
    <3> SUFFICES ASSUME Failing # {} PROVE FALSE
      OBVIOUS
    <3>1. PICK n \in Failing : \A o \in Failing : n <= o
      BY LeastExists
    <3>2. n # 0 /\ n - 1 \in Nat /\ n - 1 \notin Failing
      BY <3>1, <2>1
    <3> QED BY <3>1, <3>2, <2>2
  <2>4. Works(N)
    BY <1>1, <2>3
  <2> QED BY <2>4 DEF Works
<1> HIDE DEF upTo
<1> DEFINE Failing == {k \in 0 .. N : ~ExtendedUpTo(upTo[k], k)}
<1>4. 0 \notin Failing
  <2>1. upTo[0] = Updated
    BY <1>1, <1>3
  <2>2. Sound(Updated, devices) /\ Updated.plotted
    BY UpdatedRows DEF CopiedUpTo, IInv
  <2>3. Size(Updated) \in Nat
    BY <2>2, RowsOf DEF Sound
  <2>4. ExtendedUpTo(Updated, 0)
    BY <2>2, <2>3 DEF ExtendedUpTo
  <2> QED BY <2>1, <2>4
<1>5. Failing = {}
  <2> SUFFICES ASSUME Failing # {} PROVE FALSE
    OBVIOUS
  <2>1. Failing \in SUBSET Nat
    OBVIOUS
  <2>2. PICK k \in Failing : \A other \in Failing : k <= other
    <3> HIDE DEF Failing
    <3> QED BY <2>1, LeastExists
  <2> HIDE DEF N
  <2>3. k \in 0 .. N /\ k \in 1 .. N /\ k - 1 \in 0 .. N /\ k - 1 \notin Failing
    BY <1>1, <1>4, <2>2
  <2>4. ExtendedUpTo(upTo[k - 1], k - 1)
    BY <2>3
  <2>5. ExtendedUpTo(AddTurn(upTo[k - 1], k), k)
    BY <2>3, <2>4, ExtendedInTurn DEF N
  <2>6. upTo[k] = AddTurn(upTo[k - 1], k)
    BY <1>1, <1>3, <2>3
  <2> QED BY <2>2, <2>3, <2>5, <2>6
<1>6. N \in 0 .. N
  BY <1>1
<1> QED BY <1>2, <1>5, <1>6

(* indexOf() *)
PlaceIn(s, v) == SelectInSeq(s, LAMBDA e : e = v)

(* indexOf() finds a place of a value that is in the sequence. *)
LEMMA FoundAt ==
    ASSUME NEW s, NEW n \in Nat, DOMAIN s = 1 .. n, Len(s) = n,
           NEW v, NEW k \in 1 .. n, s[k] = v
    PROVE  PlaceIn(s, v) \in 1 .. n /\ s[PlaceIn(s, v)] = v
<1> DEFINE I == {i \in 1 .. Len(s) : s[i] = v}
<1>1. I \in SUBSET Nat /\ k \in I
  OBVIOUS
<1>2. PlaceIn(s, v) = Min(I)
  BY <1>1 DEF SelectInSeq, PlaceIn
<1>3. Min(I) \in I
  <2> HIDE DEF I
  <2> QED BY <1>1, MinIsLeast
<1> QED BY <1>2, <1>3

(* Every row of the draft has a row of its own in the extended list. *)
LEMMA SourcePlaces ==
    ASSUME IInv
    PROVE  LET rows == SourceRows(Size(Updated))
           IN  /\ DOMAIN rows = 1 .. Size(draft) /\ rows \in Seq(Nat) /\ Len(rows) = Size(draft)
               /\ Size(Extended) = Size(draft)
               /\ \A d \in KeptDraftRows : rows[d] = KeptRows[d] /\ rows[d] \in DOMAIN Updated.rows
               /\ \A d \in DOMAIN draft.rows \ KeptDraftRows :
                     \E k \in 1 .. Len(AddedRows) : rows[d] = Size(Updated) + k /\ AddedRows[k] = d
               /\ \A r \in 1 .. Size(draft) : \E d \in DOMAIN rows : rows[d] = r
               /\ \A d, e \in DOMAIN rows : rows[d] = rows[e] => d = e
<1> DEFINE U == Size(Updated)
           L == Len(AddedRows)
           N == Size(draft)
           rows == SourceRows(U)
           left == RemoveSignals(source, DroppedRows)
<1>0. SourceInv /\ DraftInv
  BY DEF IInv
<1>1. /\ N \in Nat /\ DOMAIN draft.rows = 1 .. N /\ DOMAIN origins = 1 .. N
      /\ KeptDraftRows \subseteq 1 .. N
  BY <1>0, DraftRows DEF KeptDraftRows
<1>2. /\ L \in Nat /\ DOMAIN AddedRows = 1 .. L
      /\ \A k \in 1 .. L : AddedRows[k] \in DOMAIN draft.rows /\ origins[AddedRows[k]] = NewRow
      /\ \A j, k \in 1 .. L : AddedRows[j] = AddedRows[k] => j = k
      /\ \A d \in DOMAIN draft.rows \ KeptDraftRows : \E k \in 1 .. L : AddedRows[k] = d
  BY <1>0, NewDraftRows
<1>3. /\ Sound(Updated, devices) /\ DOMAIN Updated.rows = DOMAIN left.rows
  BY <1>0, UpdatedRows DEF CopiedUpTo
<1>4. U \in Nat /\ DOMAIN Updated.rows = 1 .. U
  BY <1>3, RowsOf DEF Sound
<1>5. /\ \A d \in KeptDraftRows : KeptRows[d] \in 1 .. U
      /\ \A d, e \in KeptDraftRows : KeptRows[d] = KeptRows[e] => d = e
      /\ \A j \in 1 .. U : \E d \in KeptDraftRows : KeptRows[d] = j
  BY <1>0, <1>3, <1>4, KeptPlaces
<1>6. Size(Extended) = U + L
  BY ExtendedRows DEF ExtendedUpTo
<1>7. \A k \in 1 .. L : PlaceIn(AddedRows, AddedRows[k]) = k
  <2> TAKE k \in 1 .. L
  <2> DEFINE v == AddedRows[k]
  <2>1. AddedRows[k] = v
    OBVIOUS
  <2> HIDE DEF v
  <2>2. PlaceIn(AddedRows, v) \in 1 .. L /\ AddedRows[PlaceIn(AddedRows, v)] = v
    BY <1>2, <2>1, FoundAt
  <2> QED BY <1>2, <2>1, <2>2
<1>8. rows = [d \in 1 .. N |-> IF d \in KeptDraftRows THEN KeptRows[d] ELSE U + PlaceIn(AddedRows, d)]
  BY <1>1 DEF SourceRows, KeptDraftRows, PlaceIn
<1> HIDE DEF rows, U, L, N, left
<1>9. /\ \A d \in KeptDraftRows : rows[d] = KeptRows[d] /\ rows[d] \in 1 .. U
      /\ \A k \in 1 .. L : AddedRows[k] \in 1 .. N \ KeptDraftRows /\ rows[AddedRows[k]] = U + k
  BY <1>1, <1>2, <1>5, <1>7, <1>8 DEF KeptDraftRows
<1>10. \A d \in 1 .. N \ KeptDraftRows : \E k \in 1 .. L : rows[d] = U + k /\ AddedRows[k] = d
  BY <1>1, <1>2, <1>9
<1>11. \A d \in 1 .. N : rows[d] \in 1 .. U + L
  <2> TAKE d \in 1 .. N
  <2>1. U \in Nat /\ L \in Nat
    BY ONLY <1>2, <1>4
  <2>2. CASE d \in KeptDraftRows
    <3>1. rows[d] \in 1 .. U
      BY ONLY <1>9, <2>2
    <3> QED BY ONLY <2>1, <3>1
  <2>3. CASE d \notin KeptDraftRows
    <3>1. PICK k \in 1 .. L : rows[d] = U + k
      BY ONLY <1>10, <2>3
    <3> QED BY ONLY <2>1, <3>1
  <2> QED BY ONLY <2>2, <2>3
<1>12. \A r \in 1 .. U + L : \E d \in 1 .. N : rows[d] = r
  <2> TAKE r \in 1 .. U + L
  <2>1. CASE r <= U
    <3>1. r \in 1 .. U
      BY <1>2, <1>4, <2>1
    <3> QED BY <1>1, <1>5, <1>9, <3>1
  <2>2. CASE ~(r <= U)
    <3>1. r - U \in 1 .. L /\ U + (r - U) = r
      BY <1>2, <1>4, <2>2
    <3> QED BY <1>9, <3>1
  <2> QED BY <2>1, <2>2
<1>13. \A d, e \in 1 .. N : rows[d] = rows[e] => d = e
  <2> SUFFICES ASSUME NEW d \in 1 .. N, NEW e \in 1 .. N, rows[d] = rows[e] PROVE d = e
    OBVIOUS
  <2>1. CASE d \in KeptDraftRows /\ e \in KeptDraftRows
    BY <1>5, <1>9, <2>1
  <2>2. CASE d \notin KeptDraftRows /\ e \notin KeptDraftRows
    <3>1. PICK j \in 1 .. L : rows[d] = U + j /\ AddedRows[j] = d
      BY <1>10, <2>2
    <3>2. PICK k \in 1 .. L : rows[e] = U + k /\ AddedRows[k] = e
      BY <1>10, <2>2
    <3>3. U + j = U + k
      BY <3>1, <3>2, Zenon
    <3>4. L \in Nat
      BY <1>2
    <3>5. j \in Nat /\ k \in Nat
      BY <3>1, <3>2, <3>4
    <3>6. j = k
      BY <1>4, <3>3, <3>5
    <3> QED BY <3>1, <3>2, <3>6
  <2>3. ASSUME NEW f \in KeptDraftRows, NEW g \in 1 .. N \ KeptDraftRows PROVE rows[f] # rows[g]
    <3>1. PICK k \in 1 .. L : rows[g] = U + k
      BY <1>10
    <3> QED BY <1>2, <1>4, <1>9, <3>1
  <2> QED BY <2>1, <2>2, <2>3
<1>14. /\ rows \in [1 .. N -> 1 .. U + L] /\ rows \in Seq(Nat) /\ Len(rows) = N
  <2>1. rows \in [1 .. N -> 1 .. U + L]
    BY <1>8, <1>11
  <2>2. N \in Nat /\ U \in Nat /\ L \in Nat
    BY <1>1, <1>2, <1>4
  <2> HIDE DEF rows, N, U, L
  <2>3. rows \in [1 .. N -> Nat]
    BY ONLY <2>1, <2>2
  <2> QED BY ONLY <2>1, <2>2, <2>3
<1>15. U + L = N
  <2>1. rows \in Injection(1 .. N, 1 .. U + L) /\ rows \in Surjection(1 .. N, 1 .. U + L)
    BY <1>12, <1>13, <1>14 DEF Injection, Surjection, IsInjective
  <2>2. /\ IsFiniteSet(1 .. U + L) /\ Cardinality(1 .. U + L) = U + L /\ Cardinality(1 .. N) = N
    <3>1. ASSUME NEW n \in Nat PROVE IsFiniteSet(1 .. n) /\ Cardinality(1 .. n) = n
      BY FS_Interval
    <3>2. U + L \in Nat
      BY <1>2, <1>4
    <3> QED BY <1>1, <3>1, <3>2
  <2>3. Cardinality(1 .. N) = Cardinality(1 .. U + L)
    BY <2>1, <2>2, FS_Injection
  <2> QED BY <2>2, <2>3
<1>16. DOMAIN rows = 1 .. N
  BY <1>14
<1> QED BY <1>1, <1>4, <1>6, <1>9, <1>10, <1>12, <1>13, <1>14, <1>15, <1>16 DEF U, N, L, rows

(* The rows of m stand in some order, the first ones in that of the draft. *)
PlacedUpTo(acc, m, rows, target, devs) ==
    LET at == acc.draftRowAt
        N == Size(m)
    IN  /\ Sound(acc.list, devs) /\ acc.list.plotted = m.plotted /\ Size(acc.list) = N
        /\ at \in Seq(Nat) /\ Len(at) = N
        /\ \A i \in 1 .. N : at[i] \in 1 .. N /\ acc.list.rows[i] = m.rows[rows[at[i]]]
        /\ \A d \in 1 .. N : \E i \in 1 .. N : at[i] = d
        /\ \A i \in 1 .. target : at[i] = i

(* A turn of the loop in moveSourceRowsIntoDraftOrder(). *)
MoveTurn(acc, target) ==
    LET current == PlaceIn(acc.draftRowAt, target)
    IN  [list |-> MoveSignal(acc.list, current, target),
         draftRowAt |-> InsertAt(RemoveAt(acc.draftRowAt, current), target, target)]

(* One more row is in its place, the ones before it stay. *)
LEMMA PlacedInTurn ==
    ASSUME NEW devs, NEW m \in Lists, NEW rows, NEW acc, NEW target \in 1 .. Size(m),
           PlacedUpTo(acc, m, rows, target - 1, devs)
    PROVE  PlacedUpTo(MoveTurn(acc, target), m, rows, target, devs)
<1> DEFINE N == Size(m)
           at == acc.draftRowAt
           list == acc.list
           current == PlaceIn(at, target)
           before(j) == PlaceBefore(current, target, j)
           after == Reinserted(at, current, target)
           moved == MoveSignal(list, current, target)
<1>1. N \in Nat /\ target \in 1 .. N
  BY RowsOf
<1>2. /\ Sound(list, devs) /\ list.plotted = m.plotted /\ Size(list) = N
      /\ at \in Seq(Nat) /\ Len(at) = N
      /\ \A i \in 1 .. N : at[i] \in 1 .. N /\ list.rows[i] = m.rows[rows[at[i]]]
      /\ \A d \in 1 .. N : \E i \in 1 .. N : at[i] = d
      /\ \A i \in 1 .. target - 1 : at[i] = i
  BY DEF PlacedUpTo
<1> HIDE DEF N, at, list
<1>3. current \in 1 .. N /\ at[current] = target
  <2>1. PICK i \in 1 .. N : at[i] = target
    BY <1>1, <1>2
  <2>2. DOMAIN at = 1 .. N
    BY <1>2
  <2>3. N \in Nat /\ DOMAIN at = 1 .. N /\ Len(at) = N /\ i \in 1 .. N /\ at[i] = target
    BY <1>1, <1>2, <2>1, <2>2
  <2> HIDE DEF before, after, moved
  <2> QED BY <2>3, FoundAt
<1>4. MoveTurn(acc, target) = [list |-> moved, draftRowAt |-> after]
  BY <1>3 DEF MoveTurn, Reinserted, at, list
<1> HIDE DEF current
<1>5. ~(current < target)
  <2> SUFFICES ASSUME current < target PROVE FALSE
    OBVIOUS
  <2>1. current \in 1 .. target - 1
    BY <1>1, <1>3
  <2> QED BY <1>1, <1>2, <1>3, <2>1
<1>6. /\ \A j \in 1 .. N : before(j) \in 1 .. N
      /\ \A i \in 1 .. N : \E j \in 1 .. N : before(j) = i
  <2>1. N \in Nat /\ current \in 1 .. N /\ target \in 1 .. N
    BY <1>1, <1>3
  <2> HIDE DEF before, after, moved
  <2>2. /\ \A j \in 1 .. N : PlaceBefore(current, target, j) \in 1 .. N
        /\ \A i \in 1 .. N : \E j \in 1 .. N : PlaceBefore(current, target, j) = i
    <3>1. \A j \in 1 .. N : PlaceBefore(current, target, j) \in 1 .. N
      BY <2>1, PlacesOfMove
    <3>2. ASSUME NEW i \in 1 .. N PROVE \E j \in 1 .. N : PlaceBefore(current, target, j) = i
      <4>1. /\ PlaceNow(current, target, i) \in 1 .. N
            /\ PlaceBefore(current, target, PlaceNow(current, target, i)) = i
        BY ONLY <2>1, <3>2, PlaceAndBack
      <4> QED BY <4>1
    <3> QED BY <3>1, <3>2
  <2> QED BY <2>2 DEF before
<1>7. before(target) = current /\ \A j \in 1 .. target - 1 : before(j) = j
  BY <1>1, <1>3, <1>5 DEF PlaceBefore
<1>8. /\ after \in Seq(Nat) /\ Len(after) = N
      /\ \A j \in 1 .. N : after[j] = at[before(j)]
  <2>1. at \in Seq(Nat) /\ current \in 1 .. Len(at) /\ target \in 1 .. Len(at)
    BY <1>1, <1>2, <1>3
  <2> HIDE DEF current, before, after, moved
  <2>2. IsMoved(Reinserted(at, current, target), Nat, at, current, target)
    BY ONLY <2>1, MovedTo
  <2>3. after = Reinserted(at, current, target) /\ \A j : before(j) = PlaceBefore(current, target, j)
    BY DEF after, before
  <2>4. N = Len(at)
    BY <1>2
  <2> HIDE DEF after, before
  <2> QED BY ONLY <2>2, <2>3, <2>4 DEF IsMoved
<1>9. DOMAIN list.rows = 1 .. N
  BY <1>2, RowsOf DEF Sound
<1>10. /\ Sound(moved, devs) /\ moved.plotted = list.plotted /\ Size(moved) = Size(list)
       /\ \A j \in 1 .. N : moved.rows[j] = list.rows[before(j)]
  <2>1. Sound(list, devs) /\ current \in DOMAIN list.rows /\ target \in DOMAIN list.rows
    BY <1>1, <1>2, <1>3, <1>9
  <2> HIDE DEF before
  <2>2. LET n == MoveSignal(list, current, target)
        IN  /\ Sound(n, devs) /\ n.plotted = list.plotted /\ Size(n) = Size(list)
            /\ \A j \in DOMAIN list.rows : n.rows[j] = list.rows[PlaceBefore(current, target, j)]
    BY <2>1, MovedRow
  <2> QED BY <1>9, <2>2 DEF before
<1> HIDE DEF before, after, moved
<1>11. \A i \in 1 .. N : after[i] \in 1 .. N /\ moved.rows[i] = m.rows[rows[after[i]]]
  <2> TAKE i \in 1 .. N
  <2>1. before(i) \in 1 .. N
    BY <1>6
  <2>2. at[before(i)] \in 1 .. N /\ list.rows[before(i)] = m.rows[rows[at[before(i)]]]
    BY <1>2, <2>1
  <2>3. after[i] = at[before(i)] /\ moved.rows[i] = list.rows[before(i)]
    BY <1>8, <1>10
  <2> QED BY <2>2, <2>3
<1>12. \A d \in 1 .. N : \E i \in 1 .. N : after[i] = d
  <2> TAKE d \in 1 .. N
  <2>1. PICK i \in 1 .. N : at[i] = d
    BY <1>2
  <2>2. PICK j \in 1 .. N : before(j) = i
    BY <1>6
  <2> QED BY <1>8, <2>1, <2>2
<1>13. \A i \in 1 .. target : after[i] = i
  <2> TAKE i \in 1 .. target
  <2>1. i = target \/ i \in 1 .. target - 1
    BY <1>1
  <2>2. i \in 1 .. N
    BY <1>1
  <2>3. CASE i = target
    BY <1>3, <1>7, <1>8, <2>2, <2>3
  <2>4. CASE i \in 1 .. target - 1
    BY <1>2, <1>7, <1>8, <2>2, <2>4
  <2> QED BY <2>1, <2>3, <2>4
<1> DEFINE new == [list |-> moved, draftRowAt |-> after]
<1>14. new.list = moved /\ new.draftRowAt = after /\ MoveTurn(acc, target) = new
  BY <1>4
<1> HIDE DEF new
<1> QED BY <1>2, <1>8, <1>10, <1>11, <1>12, <1>13, <1>14 DEF PlacedUpTo, N

(* A sequence of n rows in some order. *)
Permutes(rows, n) ==
    /\ DOMAIN rows = 1 .. n /\ Len(rows) = n
    /\ \A d \in 1 .. n : rows[d] \in 1 .. n
    /\ \A r \in 1 .. n : \E d \in 1 .. n : rows[d] = r
    /\ \A d, e \in 1 .. n : rows[d] = rows[e] => d = e

(* moveSourceRowsIntoDraftOrder(): the loop over the draft. *)
LEMMA PlacedRows ==
    ASSUME NEW devs, NEW m, Sound(m, devs), NEW rows, Permutes(rows, Size(m))
    PROVE  LET n == MoveIntoDraftOrder(m, rows)
           IN  /\ Sound(n, devs) /\ n.plotted = m.plotted /\ Size(n) = Size(m)
               /\ \A d \in 1 .. Size(m) : n.rows[d] = m.rows[rows[d]]
<1> DEFINE N == Size(m)
           first == [list |-> m, draftRowAt |-> Inverted(rows)]
           done[target \in 0 .. N] == IF target = 0 THEN first ELSE MoveTurn(done[target - 1], target)
<1>1. N \in Nat /\ DOMAIN m.rows = 1 .. N /\ m \in Lists /\ Len(rows) = N /\ DOMAIN rows = 1 .. N
  BY RowsOf DEF Sound, Permutes
<1>2. MoveIntoDraftOrder(m, rows) = done[N].list
  BY <1>1 DEF MoveIntoDraftOrder, MoveTurn, PlaceIn
<1>20. \A d \in 1 .. N : rows[d] \in 1 .. N
  BY DEF Permutes
<1>21. \A r \in 1 .. N : \E d \in 1 .. N : rows[d] = r
  BY DEF Permutes
<1>22. \A d, e \in 1 .. N : rows[d] = rows[e] => d = e
  BY DEF Permutes
<1> HIDE DEF first
<1>3. done = [target \in 0 .. N |-> IF target = 0 THEN first ELSE MoveTurn(done[target - 1], target)]
  <2> HIDE DEF N
  <2> DEFINE Works(n) == \E g : g = [k \in 0 .. n |-> IF k = 0 THEN first ELSE MoveTurn(g[k - 1], k)]
             Failing == {n \in Nat : ~Works(n)}
  <2>1. Works(0)
    <3> DEFINE g == [k \in 0 .. 0 |-> first]
    <3>1. g = [k \in 0 .. 0 |-> IF k = 0 THEN first ELSE MoveTurn(g[k - 1], k)]
      OBVIOUS
    <3> QED BY <3>1
  <2>2. ASSUME NEW n \in Nat, Works(n) PROVE Works(n + 1)
    <3>1. PICK g : g = [k \in 0 .. n |-> IF k = 0 THEN first ELSE MoveTurn(g[k - 1], k)]
      BY <2>2
    <3> DEFINE h == [k \in 0 .. n + 1 |-> IF k = n + 1 THEN MoveTurn(g[n], n + 1) ELSE g[k]]
    <3>2. ASSUME NEW k \in 0 .. n + 1 PROVE h[k] = IF k = 0 THEN first ELSE MoveTurn(h[k - 1], k)
      <4>1. CASE k = n + 1
        BY <4>1
      <4>2. CASE k \in 0 .. n
        <5>1. h[k] = g[k] /\ (k # 0 => h[k - 1] = g[k - 1])
          BY <4>2
        <5>2. g[k] = IF k = 0 THEN first ELSE MoveTurn(g[k - 1], k)
          BY <3>1, <4>2
        <5> QED BY <5>1, <5>2
      <4> QED BY <4>1, <4>2
    <3>3. h = [k \in 0 .. n + 1 |-> h[k]]
      OBVIOUS
    <3> HIDE DEF h
    <3>4. h = [k \in 0 .. n + 1 |-> IF k = 0 THEN first ELSE MoveTurn(h[k - 1], k)]
      BY <3>2, <3>3
    <3> QED BY <3>4
  <2> HIDE DEF Works
  <2>3. Failing = {}
    <3> SUFFICES ASSUME Failing # {} PROVE FALSE
      OBVIOUS
    <3>1. PICK n \in Failing : \A o \in Failing : n <= o
      BY LeastExists
    <3>2. n # 0 /\ n - 1 \in Nat /\ n - 1 \notin Failing
      BY <3>1, <2>1
    <3> QED BY <3>1, <3>2, <2>2
  <2>4. Works(N)
    BY <1>1, <2>3
  <2> QED BY <2>4 DEF Works
<1> HIDE DEF done
<1> DEFINE Failing == {target \in 0 .. N : ~PlacedUpTo(done[target], m, rows, target, devs)}
<1>4. 0 \notin Failing
  <2> DEFINE at == Inverted(rows)
  <2>1. done[0] = first
    BY <1>1, <1>3
  <2>2. at = [r \in 1 .. N |-> PlaceIn(rows, r)]
    BY <1>1 DEF Inverted, PlaceIn
  <2> HIDE DEF at, N
  <2>3. \A r \in 1 .. N : at[r] \in 1 .. N /\ rows[at[r]] = r
    <3> TAKE r \in 1 .. N
    <3>1. PICK d \in 1 .. N : rows[d] = r
      BY <1>21
    <3>2. PlaceIn(rows, r) \in 1 .. N /\ rows[PlaceIn(rows, r)] = r
      BY <1>1, <3>1, FoundAt
    <3> QED BY <2>2, <3>2
  <2>4. at \in Seq(Nat) /\ Len(at) = N
    <3>1. at \in [1 .. N -> Nat]
      BY <2>2, <2>3
    <3> QED BY <1>1, <3>1
  <2>5. \A d \in 1 .. N : \E r \in 1 .. N : at[r] = d
    <3> TAKE d \in 1 .. N
    <3>1. rows[d] \in 1 .. N /\ at[rows[d]] \in 1 .. N /\ rows[at[rows[d]]] = rows[d]
      BY <1>20, <2>3
    <3> QED BY <1>22, <3>1
  <2>6. first.list = m /\ first.draftRowAt = at
    BY DEF first, at
  <2>7. PlacedUpTo(first, m, rows, 0, devs)
    <3>1. \A i \in 1 .. N : at[i] \in 1 .. N /\ m.rows[i] = m.rows[rows[at[i]]]
      BY <2>3
    <3>2. 1 .. 0 = {}
      OBVIOUS
    <3> QED BY <2>4, <2>5, <2>6, <3>1, <3>2 DEF PlacedUpTo, N
  <2> QED BY <2>1, <2>7
<1>5. Failing = {}
  <2> SUFFICES ASSUME Failing # {} PROVE FALSE
    OBVIOUS
  <2>1. Failing \in SUBSET Nat
    OBVIOUS
  <2>2. PICK target \in Failing : \A other \in Failing : target <= other
    <3> HIDE DEF Failing
    <3> QED BY <2>1, LeastExists
  <2> HIDE DEF N
  <2>7. target \in 0 .. N /\ target # 0
    BY <1>4, <2>2
  <2>8. target \in 1 .. N /\ target - 1 \in 0 .. N /\ ~(target <= target - 1)
    <3>1. N \in Nat
      BY <1>1
    <3> HIDE DEF Failing
    <3> QED BY <2>7, <3>1
  <2>3. target # 0 /\ target \in 1 .. N /\ target \in 0 .. N /\ target - 1 \in 0 .. N /\ target - 1 \notin Failing
    <3> HIDE DEF Failing
    <3> QED BY <2>2, <2>7, <2>8
  <2>4. PlacedUpTo(done[target - 1], m, rows, target - 1, devs)
    BY <2>3
  <2>5. PlacedUpTo(MoveTurn(done[target - 1], target), m, rows, target, devs)
    BY <1>1, <2>3, <2>4, PlacedInTurn DEF N
  <2>6. done[target] = MoveTurn(done[target - 1], target)
    BY <1>3, <2>3
  <2> QED BY <2>2, <2>3, <2>5, <2>6
<1>6. PlacedUpTo(done[N], m, rows, N, devs)
  <2>1. N \in 0 .. N
    BY <1>1
  <2> QED BY <1>5, <2>1
<1> QED BY <1>1, <1>2, <1>6 DEF PlacedUpTo

(* The list after apply(): row by row what the draft shows. *)
LEMMA AppliedRows ==
    ASSUME IInv
    PROVE  /\ Sound(Applied, devices) /\ Applied.plotted /\ Size(Applied) = Size(draft)
           /\ \A d \in KeptDraftRows : AsInDraft(Applied.rows[d], d)
           /\ \A d \in DOMAIN draft.rows \ KeptDraftRows :
                 \E k \in 1 .. Len(AddedRows) :
                    AddedRows[k] = d /\ NewAsInDraft(Applied.rows[d], d, lastId + k)
<1> DEFINE U == Size(Updated)
           L == Len(AddedRows)
           N == Size(draft)
           rows == SourceRows(U)
<1>0. SourceInv /\ DraftInv
  BY DEF IInv
<1>1. N \in Nat /\ DOMAIN draft.rows = 1 .. N /\ KeptDraftRows \subseteq 1 .. N
  BY <1>0, DraftRows DEF KeptDraftRows
<1>2. /\ DOMAIN rows = 1 .. N /\ Len(rows) = N /\ Size(Extended) = N
      /\ \A d \in KeptDraftRows : rows[d] = KeptRows[d] /\ rows[d] \in DOMAIN Updated.rows
      /\ \A d \in DOMAIN draft.rows \ KeptDraftRows :
            \E k \in 1 .. L : rows[d] = U + k /\ AddedRows[k] = d
      /\ \A r \in 1 .. N : \E d \in DOMAIN rows : rows[d] = r
      /\ \A d, e \in DOMAIN rows : rows[d] = rows[e] => d = e
  BY SourcePlaces
<1>3. /\ Sound(Extended, devices) /\ Extended.plotted /\ Size(Extended) = U + L
      /\ \A j \in DOMAIN Updated.rows : Extended.rows[j] = Updated.rows[j]
      /\ \A q \in 1 .. L : NewAsInDraft(Extended.rows[U + q], AddedRows[q], lastId + q)
  BY ExtendedRows DEF ExtendedUpTo
<1>4. /\ Sound(Updated, devices)
      /\ \A d \in KeptDraftRows : d <= N => AsInDraft(Updated.rows[KeptRows[d]], d)
  BY <1>0, UpdatedRows DEF CopiedUpTo
<1>5. Applied = MoveIntoDraftOrder(Extended, rows)
  BY DEF Applied
<1>6. U \in Nat /\ L \in Nat /\ DOMAIN Updated.rows = 1 .. U /\ U + L = N
  BY <1>0, <1>2, <1>3, <1>4, RowsOf, NewDraftRows DEF Sound
<1> HIDE DEF U, L, N, rows
<1>7. \A d \in 1 .. N : rows[d] \in 1 .. N
  <2> TAKE d \in 1 .. N
  <2>1. CASE d \in KeptDraftRows
    BY <1>2, <1>6, <2>1
  <2>2. CASE d \notin KeptDraftRows
    <3>1. PICK k \in 1 .. L : rows[d] = U + k
      BY <1>1, <1>2, <2>2
    <3>2. U + k \in 1 .. U + L
      BY <1>6
    <3> QED BY <1>6, <3>1, <3>2
  <2> QED BY <2>1, <2>2
<1>8. /\ Sound(Applied, devices) /\ Applied.plotted = Extended.plotted /\ Size(Applied) = N
      /\ \A d \in 1 .. N : Applied.rows[d] = Extended.rows[rows[d]]
  <2>1. Size(Extended) = N /\ Permutes(rows, Size(Extended))
    BY <1>2, <1>7 DEF Permutes
  <2>2. LET n == MoveIntoDraftOrder(Extended, rows)
        IN  /\ Sound(n, devices) /\ n.plotted = Extended.plotted /\ Size(n) = Size(Extended)
            /\ \A d \in 1 .. Size(Extended) : n.rows[d] = Extended.rows[rows[d]]
    <3>1. Sound(Extended, devices) /\ Permutes(rows, Size(Extended))
      BY <1>3, <2>1
    <3> QED BY <3>1, PlacedRows
  <2> QED BY <1>5, <2>1, <2>2
<1>9. ASSUME NEW d \in KeptDraftRows PROVE AsInDraft(Applied.rows[d], d)
  <2>1. d \in 1 .. N /\ d <= N
    BY <1>1
  <2>2. Applied.rows[d] = Updated.rows[KeptRows[d]]
    BY <1>2, <1>3, <1>8, <2>1
  <2> QED BY <1>4, <2>1, <2>2
<1>10. ASSUME NEW d \in DOMAIN draft.rows \ KeptDraftRows
       PROVE  \E k \in 1 .. L : AddedRows[k] = d /\ NewAsInDraft(Applied.rows[d], d, lastId + k)
  <2>1. PICK k \in 1 .. L : rows[d] = U + k /\ AddedRows[k] = d
    BY <1>2
  <2>2. Applied.rows[d] = Extended.rows[U + k]
    BY <1>1, <1>8, <2>1
  <2> QED BY <1>3, <2>1, <2>2
<1> QED BY <1>3, <1>8, <1>9, <1>10 DEF L, N

(* Every signal of the list after apply() has an id of its own. *)
LEMMA AppliedIds ==
    ASSUME IInv
    PROVE  /\ lastId + Len(AddedRows) \in Nat
           /\ \A d \in DOMAIN Applied.rows :
                 1 <= Applied.rows[d].id /\ Applied.rows[d].id <= lastId + Len(AddedRows)
           /\ \A d, e \in DOMAIN Applied.rows : Applied.rows[d].id = Applied.rows[e].id => d = e
           /\ \A d \in DOMAIN draft.rows \ KeptDraftRows : lastId < Applied.rows[d].id
<1> DEFINE L == Len(AddedRows)
           id(d) == Applied.rows[d].id
           old(d) == source.rows[origins[d]].id
<1>0. SourceInv /\ DraftInv
  BY DEF IInv
<1>1. L \in Nat /\ lastId \in Nat
  BY <1>0, NewDraftRows, DraftAssumption DEF IInv, CountersOK
<1>2. /\ Sound(Applied, devices) /\ Size(Applied) = Size(draft)
      /\ \A d \in KeptDraftRows : AsInDraft(Applied.rows[d], d)
      /\ \A d \in DOMAIN draft.rows \ KeptDraftRows :
             \E k \in 1 .. L : AddedRows[k] = d /\ NewAsInDraft(Applied.rows[d], d, lastId + k)
  BY AppliedRows
<1>3. DOMAIN Applied.rows = DOMAIN draft.rows
  <2>1. Applied \in Lists
    BY <1>2 DEF Sound
  <2> QED BY <1>0, <1>2, <2>1, RowsOf, DraftRows
<1>4. \A d \in KeptDraftRows : id(d) = old(d) /\ d \in DOMAIN draft.rows /\ origins[d] \in DOMAIN source.rows
                               /\ origins[d] # NewRow
  BY <1>0, <1>2, DraftRows DEF AsInDraft, KeptDraftRows
<1>5. \A d \in KeptDraftRows : id(d) \in Nat /\ 1 <= id(d) /\ id(d) <= lastId
  <2> TAKE d \in KeptDraftRows
  <2>1. old(d) \in Nat /\ 1 <= old(d) /\ old(d) <= lastId
    BY <1>0, <1>4, DraftRows, RowsOf DEF SourceInv
  <2> QED BY <1>4, <2>1
<1>6. \A d \in DOMAIN draft.rows \ KeptDraftRows : \E k \in 1 .. L : AddedRows[k] = d /\ id(d) = lastId + k
  BY <1>2 DEF NewAsInDraft
<1> HIDE DEF L
<1>7. ASSUME NEW d \in DOMAIN draft.rows, NEW e \in DOMAIN draft.rows, id(d) = id(e)
      PROVE  d = e
  <2>1. CASE d \in KeptDraftRows /\ e \in KeptDraftRows
    <3>1. origins[d] = origins[e]
      BY <1>0, <1>4, <1>7, <2>1 DEF SourceInv
    <3> QED BY <1>0, <1>4, <2>1, <3>1 DEF DraftInv
  <2>2. CASE d \notin KeptDraftRows /\ e \notin KeptDraftRows
    <3>1. PICK j \in 1 .. L : AddedRows[j] = d /\ id(d) = lastId + j
      BY <1>6, <2>2
    <3>2. PICK k \in 1 .. L : AddedRows[k] = e /\ id(e) = lastId + k
      BY <1>6, <2>2
    <3>3. lastId + j = lastId + k
      BY <1>7, <3>1, <3>2
    <3>4. j \in Nat /\ k \in Nat
      BY <1>1
    <3>5. j = k
      BY <1>1, <3>3, <3>4
    <3> QED BY <3>1, <3>2, <3>5
  <2>3. ASSUME NEW f \in KeptDraftRows, NEW g \in DOMAIN draft.rows \ KeptDraftRows
        PROVE  id(f) # id(g)
    <3>1. PICK k \in 1 .. L : id(g) = lastId + k
      BY <1>6
    <3> QED BY <1>1, <1>5, <3>1
  <2> QED BY <1>7, <2>1, <2>2, <2>3
<1>8. ASSUME NEW d \in DOMAIN draft.rows \ KeptDraftRows
      PROVE  lastId < id(d) /\ 1 <= id(d) /\ id(d) <= lastId + L
  <2>1. PICK k \in 1 .. L : id(d) = lastId + k
    BY <1>6
  <2> QED BY <1>1, <2>1
<1>9. \A d \in DOMAIN draft.rows : 1 <= id(d) /\ id(d) <= lastId + L
  <2> TAKE d \in DOMAIN draft.rows
  <2>1. CASE d \in KeptDraftRows
    BY <1>1, <1>5, <2>1
  <2>2. CASE d \notin KeptDraftRows
    BY <1>8, <2>2
  <2> QED BY <2>1, <2>2
<1> QED BY <1>1, <1>3, <1>7, <1>8, <1>9 DEF L

-----------------------------------------------------------------------------
(* Loading a project file. *)

(* The first k signals of the file are in the list. *)
LoadedUpTo(l, k) ==
    /\ Sound(l, devices) /\ l.plotted /\ Size(l) = k
    /\ \A q \in 1 .. k : l.rows[q].id = lastId + q

(* A turn of the loop in applyGraphData(). *)
LoadTurn(l, k, active) ==
    AddSignal(l, Signal(lastId + k, DefaultExpression, k \in active, TRUE), devices)

(* The next signal of the file gets the next id and the last row. *)
LEMMA LoadedInTurn ==
    ASSUME IInv, NEW active, NEW k \in Nat, k # 0, NEW l, LoadedUpTo(l, k - 1)
    PROVE  LoadedUpTo(LoadTurn(l, k, active), k)
<1> DEFINE s == Signal(lastId + k, DefaultExpression, k \in active, TRUE)
           o == LoadTurn(l, k, active)
           new == o.rows[Size(l) + 1]
<1>1. /\ Sound(l, devices) /\ l.plotted /\ Size(l) = k - 1
      /\ \A q \in 1 .. k - 1 : l.rows[q].id = lastId + q
  BY DEF LoadedUpTo
<1>2. lastId \in Nat
  BY DraftAssumption DEF IInv, CountersOK
<1>3. s \in Signals /\ s.id = lastId + k /\ s.data = << >>
  <2>1. lastId + k \in Nat /\ (k \in active) \in BOOLEAN /\ DefaultExpression \in Expressions
    BY <1>2, ExpressionAssumption
  <2>2. "UNKNOWN" \in States /\ << >> \in Seq(Samples)
    BY DEF States
  <2> QED BY <2>1, <2>2 DEF Signal, Signals
<1>4. o = AddSignal(l, s, devices)
  BY DEF LoadTurn
<1> HIDE DEF s, o
<1>5. /\ Sound(o, devices) /\ o.plotted = l.plotted /\ Size(o) = Size(l) + 1
      /\ \A i \in DOMAIN l.rows : o.rows[i] = l.rows[i]
      /\ Resembles(new, s)
  <2>1. Sound(l, devices) /\ s \in Signals /\ s.data = << >>
    BY <1>1, <1>3
  <2> QED BY <1>4, <2>1, AddedRow
<1>6. DOMAIN l.rows = 1 .. k - 1
  BY <1>1, RowsOf DEF Sound
<1>7. ASSUME NEW q \in 1 .. k PROVE o.rows[q].id = lastId + q
  <2>1. CASE q = k
    BY <1>1, <1>3, <1>5, <2>1 DEF Resembles
  <2>2. CASE q # k
    BY <1>1, <1>5, <1>6, <2>2
  <2> QED BY <2>1, <2>2
<1> QED BY <1>1, <1>5, <1>7 DEF LoadedUpTo, o

(* applyGraphData(): the loop over the signals of the file. *)
LEMMA LoadedList ==
    ASSUME IInv, NEW n \in Nat, NEW active, LoadProject(n, active)
    PROVE  LoadedUpTo(source', n)
<1> DEFINE first == ClearList(source)
           Turn(l, k) == LoadTurn(l, k, active)
           upTo[k \in 0 .. n] == IF k = 0 THEN first ELSE Turn(upTo[k - 1], k)
<1>1. source' = upTo[n]
  BY DEF LoadProject, LoadTurn
<1> HIDE DEF first, Turn
<1>2. upTo = [k \in 0 .. n |-> IF k = 0 THEN first ELSE Turn(upTo[k - 1], k)]
  <2> DEFINE Works(o) == \E g : g = [k \in 0 .. o |-> IF k = 0 THEN first ELSE Turn(g[k - 1], k)]
             Failing == {o \in Nat : ~Works(o)}
  <2>1. Works(0)
    <3> DEFINE g == [k \in 0 .. 0 |-> first]
    <3>1. g = [k \in 0 .. 0 |-> IF k = 0 THEN first ELSE Turn(g[k - 1], k)]
      OBVIOUS
    <3> QED BY <3>1
  <2>2. ASSUME NEW o \in Nat, Works(o) PROVE Works(o + 1)
    <3>1. PICK g : g = [k \in 0 .. o |-> IF k = 0 THEN first ELSE Turn(g[k - 1], k)]
      BY <2>2
    <3> DEFINE h == [k \in 0 .. o + 1 |-> IF k = o + 1 THEN Turn(g[o], o + 1) ELSE g[k]]
    <3>2. ASSUME NEW k \in 0 .. o + 1 PROVE h[k] = IF k = 0 THEN first ELSE Turn(h[k - 1], k)
      <4>1. CASE k = o + 1
        BY <4>1
      <4>2. CASE k \in 0 .. o
        <5>1. h[k] = g[k] /\ (k # 0 => h[k - 1] = g[k - 1])
          BY <4>2
        <5>2. g[k] = IF k = 0 THEN first ELSE Turn(g[k - 1], k)
          BY <3>1, <4>2
        <5> QED BY <5>1, <5>2
      <4> QED BY <4>1, <4>2
    <3>3. h = [k \in 0 .. o + 1 |-> h[k]]
      OBVIOUS
    <3> HIDE DEF h
    <3>4. h = [k \in 0 .. o + 1 |-> IF k = 0 THEN first ELSE Turn(h[k - 1], k)]
      BY <3>2, <3>3
    <3> QED BY <3>4
  <2> HIDE DEF Works
  <2>3. Failing = {}
    <3> SUFFICES ASSUME Failing # {} PROVE FALSE
      OBVIOUS
    <3>1. PICK o \in Failing : \A p \in Failing : o <= p
      BY LeastExists
    <3>2. o # 0 /\ o - 1 \in Nat /\ o - 1 \notin Failing
      BY <3>1, <2>1
    <3> QED BY <3>1, <3>2, <2>2
  <2>4. Works(n)
    BY <2>3
  <2> QED BY <2>4 DEF Works
<1> HIDE DEF upTo
<1> DEFINE Failing == {k \in 0 .. n : ~LoadedUpTo(upTo[k], k)}
<1>3. 0 \notin Failing
  <2>1. upTo[0] = first
    BY <1>2
  <2>2. Sound(first, devices) /\ first.rows = << >> /\ first.plotted = source.plotted
    BY ClearedList DEF IInv, SourceInv, first
  <2>3. LoadedUpTo(first, 0)
    BY <2>2 DEF LoadedUpTo, Size, IInv, SourceInv
  <2> QED BY <2>1, <2>3
<1>4. Failing = {}
  <2> SUFFICES ASSUME Failing # {} PROVE FALSE
    OBVIOUS
  <2>1. Failing \in SUBSET Nat
    OBVIOUS
  <2>2. PICK k \in Failing : \A other \in Failing : k <= other
    <3> HIDE DEF Failing
    <3> QED BY <2>1, LeastExists
  <2>3. k \in 0 .. n /\ k # 0
    BY <1>3, <2>2
  <2>4. k \in Nat /\ k - 1 \in 0 .. n /\ ~(k <= k - 1)
    <3> HIDE DEF Failing
    <3> QED BY <2>3
  <2>5. k - 1 \notin Failing
    <3> HIDE DEF Failing
    <3> QED BY <2>2, <2>4
  <2>6. LoadedUpTo(upTo[k - 1], k - 1)
    BY <2>4, <2>5
  <2>7. LoadedUpTo(LoadTurn(upTo[k - 1], k, active), k)
    BY <2>3, <2>4, <2>6, LoadedInTurn
  <2>8. upTo[k] = LoadTurn(upTo[k - 1], k, active)
    BY <1>2, <2>3 DEF Turn
  <2> QED BY <2>2, <2>7, <2>8
<1>5. n \in 0 .. n
  OBVIOUS
<1> QED BY <1>1, <1>4, <1>5

-----------------------------------------------------------------------------
(***************************************************************************)
(* Every step keeps the invariant.                                         *)
(***************************************************************************)

(* A list with no signals is as it should be. *)
LEMMA EmptyIsSound ==
    ASSUME NEW devs, NEW plotted \in BOOLEAN
    PROVE  /\ Sound(EmptyList(plotted), devs) /\ EmptyList(plotted).rows = << >>
           /\ EmptyList(plotted).plotted = plotted /\ Size(EmptyList(plotted)) = 0
<1> DEFINE m == EmptyList(plotted)
<1>1. /\ m \in Lists /\ m.rows = << >> /\ m.plotted = plotted /\ m.graphs = << >>
      /\ m.selected = 0 /\ DOMAIN m.rows = {}
  BY DEF EmptyList, Lists
<1> HIDE DEF m
<1>2. Size(m) = 0
  BY <1>1 DEF Size
<1>3. ActiveIds(m) = << >>
  <2>1. Active(m) = {} /\ Cardinality({}) = 0
    BY <1>1, FS_EmptySet DEF Active
  <2>2. 0 \in Nat /\ {} \in SUBSET (1 .. 0)
    OBVIOUS
  <2>3. Ascending({}) \in [1 .. 0 -> {}]
    BY <2>1, <2>2, AscendingOrder
  <2>4. DOMAIN Ascending({}) = {}
    BY <2>3
  <2> QED BY <2>1, <2>4 DEF ActiveIds, ActiveRows
<1>4. DataAligned(m) /\ Drawn(m) /\ SelectionShown(m) /\ Judged(m, devs)
  BY <1>1, <1>2, <1>3 DEF DataAligned, Drawn, SelectionShown, Judged
<1> QED BY <1>1, <1>2, <1>4 DEF Sound, m

(* The same signals in the same rows. *)
SameSignals(n, m) ==
    DOMAIN n.rows = DOMAIN m.rows /\ \A i \in DOMAIN m.rows : n.rows[i].id = m.rows[i].id

(* The length is that of the rows. *)
LEMMA SameSize ==
    ASSUME NEW n \in Lists, NEW m \in Lists, SameSignals(n, m)
    PROVE  Size(n) = Size(m)
<1>1. /\ Size(n) \in Nat /\ Size(m) \in Nat /\ 1 .. Size(n) = 1 .. Size(m)
  BY RowsOf DEF SameSignals
<1> QED BY <1>1

(* An edit that leaves the signals of the list in their rows. *)
LEMMA SourceEdited ==
    ASSUME IInv, Sound(source', devices'), source'.plotted, SameSignals(source', source),
           lastId' = lastId
    PROVE  SourceInv'
<1>1. Size(source') = Size(source)
  BY SameSize DEF IInv, SourceInv, Sound
<1>2. \A i \in DOMAIN source'.rows : i \in DOMAIN source.rows /\ source'.rows[i].id = source.rows[i].id
  BY DEF SameSignals
<1> QED BY <1>1, <1>2 DEF IInv, SourceInv

(* An edit that leaves the signals of both lists in their rows. *)
LEMMA DraftEdited ==
    ASSUME IInv, SameSignals(source', source), Sound(draft', devices'), ~draft'.plotted,
           SameSignals(draft', draft), origins' = origins, open' = open
    PROVE  DraftInv'
<1>1. Size(draft') = Size(draft)
  BY SameSize DEF IInv, DraftInv, Sound
<1>2. DOMAIN draft'.rows = DOMAIN draft.rows
  BY DEF SameSignals
<1>3. \A d \in DOMAIN draft.rows : draft'.rows[d].id = draft.rows[d].id
  BY DEF SameSignals
<1>4. /\ DOMAIN source'.rows = DOMAIN source.rows
      /\ \A i \in DOMAIN source.rows : source'.rows[i].id = source.rows[i].id
  BY DEF SameSignals
<1>5. OriginsFollowTheirSignal'
  <2> SUFFICES ASSUME NEW d \in DOMAIN draft.rows
               PROVE  /\ origins[d] = NewRow <=> draft'.rows[d].id = NewId
                      /\ origins[d] # NewRow => /\ origins[d] \in DOMAIN source'.rows
                                                /\ source'.rows[origins[d]].id = draft'.rows[d].id
    BY <1>2 DEF OriginsFollowTheirSignal
  <2>1. /\ origins[d] = NewRow <=> draft.rows[d].id = NewId
        /\ origins[d] # NewRow => /\ origins[d] \in DOMAIN source.rows
                                  /\ source.rows[origins[d]].id = draft.rows[d].id
    BY DEF IInv, DraftInv, OriginsFollowTheirSignal
  <2> QED BY <1>3, <1>4, <2>1
<1> QED BY <1>1, <1>2, <1>5 DEF IInv, DraftInv

(* Rows of the draft are dropped or put in another order, and their        *)
(* origins with them: p[d] is the row that row d was.                      *)
LEMMA DraftRearranged ==
    ASSUME IInv, open, open' = open, source' = source, Sound(draft', devices'), ~draft'.plotted,
           Size(draft') <= Size(draft), origins' \in Seq(Nat), Len(origins') = Size(draft'),
           NEW p, \A d \in DOMAIN draft'.rows :
                     /\ p[d] \in DOMAIN draft.rows
                     /\ draft'.rows[d].id = draft.rows[p[d]].id /\ origins'[d] = origins[p[d]],
           \A d, e \in DOMAIN draft'.rows : p[d] = p[e] => d = e
    PROVE  DraftInv'
<1>1. Size(draft') <= MaxSignals
  <2>1. Size(draft') \in Nat /\ Size(draft) \in Nat /\ MaxSignals \in Nat
    BY RowsOf, DraftAssumption DEF IInv, DraftInv, Sound
  <2> QED BY <2>1 DEF IInv, DraftInv
<1>2. OriginsFollowTheirSignal'
  <2> SUFFICES ASSUME NEW d \in DOMAIN draft'.rows
               PROVE  /\ origins'[d] = NewRow <=> draft'.rows[d].id = NewId
                      /\ origins'[d] # NewRow => /\ origins'[d] \in DOMAIN source.rows
                                                 /\ source.rows[origins'[d]].id = draft'.rows[d].id
    BY DEF OriginsFollowTheirSignal
  <2>1. p[d] \in DOMAIN draft.rows /\ draft'.rows[d].id = draft.rows[p[d]].id /\ origins'[d] = origins[p[d]]
    OBVIOUS
  <2>2. \A e \in DOMAIN draft.rows :
            /\ origins[e] = NewRow <=> draft.rows[e].id = NewId
            /\ origins[e] # NewRow => /\ origins[e] \in DOMAIN source.rows
                                      /\ source.rows[origins[e]].id = draft.rows[e].id
    BY DEF IInv, DraftInv, OriginsFollowTheirSignal
  <2> QED BY <2>1, <2>2
<1>3. \A d, e \in DOMAIN draft'.rows : origins'[d] = origins'[e] /\ origins'[d] # NewRow => d = e
  <2> SUFFICES ASSUME NEW d \in DOMAIN draft'.rows, NEW e \in DOMAIN draft'.rows,
                      origins'[d] = origins'[e], origins'[d] # NewRow
               PROVE  d = e
    OBVIOUS
  <2>1. /\ p[d] \in DOMAIN draft.rows /\ origins'[d] = origins[p[d]]
        /\ p[e] \in DOMAIN draft.rows /\ origins'[e] = origins[p[e]]
    OBVIOUS
  <2>2. p[d] = p[e]
    BY <2>1 DEF IInv, DraftInv
  <2> QED BY <2>2
<1> QED BY <1>1, <1>2, <1>3 DEF DraftInv

(* The dialog is closed. *)
LEMMA DraftClosed ==
    ASSUME Close
    PROVE  DraftInv'
<1>1. /\ Sound(draft', devices') /\ draft'.rows = << >> /\ ~draft'.plotted /\ Size(draft') = 0
  BY EmptyIsSound DEF Close, NoDraft
<1>2. origins' = << >> /\ ~open'
  BY DEF Close
<1>3. DOMAIN draft'.rows = {}
  BY <1>1
<1>4. origins' \in Seq(Nat) /\ Len(origins') = 0 /\ MaxSignals \in Nat
  BY <1>2, DraftAssumption
<1> QED BY <1>1, <1>2, <1>3, <1>4 DEF DraftInv, OriginsFollowTheirSignal

(* What stays as it is while the application's list is edited. *)
LEMMA SourceOnly ==
    ASSUME IInv, NEW n, OnSource(n), Sound(n, devices), n.plotted, SameSignals(n, source)
    PROVE  SourceInv' /\ DraftInv' /\ (edits' \in 0 .. MaxEdits => CountersOK')
<1>1. /\ source' = n /\ open' = open /\ draft' = draft /\ origins' = origins
      /\ devices' = devices /\ lastId' = lastId /\ now' = now
  BY DEF OnSource
<1>2. Sound(draft', devices') /\ ~draft'.plotted /\ SameSignals(draft', draft)
  BY <1>1 DEF IInv, DraftInv, SameSignals
<1>3. SourceInv'
  BY <1>1, SourceEdited
<1>4. DraftInv'
  BY <1>1, <1>2, DraftEdited
<1> QED BY <1>1, <1>3, <1>4 DEF IInv, CountersOK

(* What stays as it is while the draft is edited. *)
LEMMA DraftOnly ==
    ASSUME IInv, NEW n, OnDraft(n)
    PROVE  /\ SourceInv' /\ CountersOK'
           /\ draft' = n /\ source' = source /\ open' = open /\ devices' = devices
<1>1. /\ source' = source /\ open' = open /\ devices' = devices /\ lastId' = lastId /\ now' = now
      /\ draft' = n /\ edits < MaxEdits /\ edits' = edits + 1
  BY DEF OnDraft, Edit
<1>2. edits' \in 0 .. MaxEdits
  BY <1>1, DraftAssumption DEF IInv, CountersOK
<1> QED BY <1>1, <1>2 DEF IInv, SourceInv, CountersOK

(* The user's edits are counted. *)
LEMMA Counted ==
    ASSUME IInv, Edit
    PROVE  edits' \in 0 .. MaxEdits
BY DraftAssumption DEF IInv, CountersOK, Edit

(* Showing or hiding a signal moves neither signals nor series.           *)
LEMMA ShowOrHideKeeps ==
    ASSUME IInv, NEW row \in DOMAIN source.rows, ShowOrHide(row)
    PROVE  IInv'
<1> DEFINE n == SetVisible(source, row, ~source.rows[row].visible)
<1>1. Sound(source, devices) /\ source.plotted
  BY DEF IInv, SourceInv
<1>2. (~source.rows[row].visible) \in BOOLEAN
  OBVIOUS
<1>3. Sound(n, devices) /\ KeepsOthers(source, n, row)
  BY <1>1, <1>2, VisibleRow
<1>4. OnSource(n) /\ Edit
  BY DEF ShowOrHide
<1> HIDE DEF n
<1>5. n.plotted /\ SameSignals(n, source)
  BY <1>1, <1>3 DEF KeepsOthers, SameSignals
<1>6. edits' \in 0 .. MaxEdits
  BY <1>4, Counted
<1> QED BY <1>3, <1>4, <1>5, <1>6, SourceOnly DEF IInv

(* Only a visible signal is selected.                                     *)
LEMMA SelectKeeps ==
    ASSUME IInv, NEW row \in DOMAIN source.rows, Select(row)
    PROVE  IInv'
<1> DEFINE n == SetSelected(source, row)
<1>1. Sound(source, devices) /\ source.plotted
  BY DEF IInv, SourceInv
<1>2. Sound(n, devices) /\ n.rows = source.rows /\ n.plotted = source.plotted
  BY <1>1, SelectedRow
<1>3. OnSource(n) /\ Edit
  BY DEF Select
<1> HIDE DEF n
<1>4. n.plotted /\ SameSignals(n, source)
  BY <1>1, <1>2 DEF SameSignals
<1>5. edits' \in 0 .. MaxEdits
  BY <1>3, Counted
<1> QED BY <1>2, <1>3, <1>4, <1>5, SourceOnly DEF IInv

(* A sample reaches every active signal, at one time.                     *)
LEMMA SampleKeeps ==
    ASSUME IInv, Sample
    PROVE  IInv'
<1>1. Sound(source, devices) /\ source.plotted
  BY DEF IInv, SourceInv
<1>2. now' \in 1 .. MaxSamples /\ now' \in 0 .. MaxSamples
  BY DraftAssumption DEF IInv, CountersOK, Sample
<1> DEFINE n == MapRows(source, LAMBDA s : IF s.active THEN Sampled(s, now') ELSE s)
<1>3. /\ Sound(n, devices) /\ n.plotted = source.plotted
      /\ DOMAIN n.rows = DOMAIN source.rows
      /\ \A i \in DOMAIN source.rows : n.rows[i].id = source.rows[i].id
  BY <1>1, <1>2, SampledList
<1>4. /\ source' = n /\ open' = open /\ draft' = draft /\ origins' = origins
      /\ devices' = devices /\ lastId' = lastId /\ edits' = edits
  BY DEF Sample
<1> HIDE DEF n
<1>5. n.plotted /\ SameSignals(n, source)
  BY <1>1, <1>3 DEF SameSignals
<1>6. SourceInv'
  BY <1>3, <1>4, <1>5, SourceEdited
<1>7. DraftInv'
  <2>1. Sound(draft', devices') /\ ~draft'.plotted /\ SameSignals(draft', draft)
    BY <1>4 DEF IInv, DraftInv, SameSignals
  <2> QED BY <1>4, <1>5, <2>1, DraftEdited
<1> QED BY <1>2, <1>4, <1>6, <1>7 DEF IInv, CountersOK

(* The series are cleared together.                                       *)
LEMMA ClearDataKeeps ==
    ASSUME IInv, ClearData
    PROVE  IInv'
<1>1. Sound(source, devices) /\ source.plotted
  BY DEF IInv, SourceInv
<1> DEFINE n == MapRows(source, LAMBDA s : IF s.active THEN CopyOf(s) ELSE s)
<1>2. /\ Sound(n, devices) /\ n.plotted = source.plotted
      /\ DOMAIN n.rows = DOMAIN source.rows
      /\ \A i \in DOMAIN source.rows : n.rows[i].id = source.rows[i].id
  BY <1>1, ListWithoutData
<1>3. OnSource(n) /\ edits' = edits
  BY DEF ClearData
<1> HIDE DEF n
<1>4. n.plotted /\ SameSignals(n, source)
  BY <1>1, <1>2 DEF SameSignals
<1>5. edits' \in 0 .. MaxEdits
  BY <1>3 DEF IInv, CountersOK
<1> QED BY <1>2, <1>3, <1>4, <1>5, SourceOnly DEF IInv

(* The signals of a file get ids that no signal had before.               *)
LEMMA LoadProjectKeeps ==
    ASSUME IInv, NEW n \in 1 .. MaxSignals, NEW active, LoadProject(n, active)
    PROVE  IInv'
<1>1. n \in Nat /\ n <= MaxSignals /\ lastId \in Nat
  BY DraftAssumption DEF IInv, CountersOK
<1>2. /\ Sound(source', devices) /\ source'.plotted /\ Size(source') = n
      /\ \A q \in 1 .. n : source'.rows[q].id = lastId + q
  BY <1>1, LoadedList DEF LoadedUpTo
<1>3. /\ ~open /\ lastId' = lastId + n /\ lastId + n <= MaxIds
      /\ open' = open /\ draft' = draft /\ origins' = origins
      /\ devices' = devices /\ now' = now /\ edits' = edits
  BY DEF LoadProject
<1>4. DOMAIN source'.rows = 1 .. n
  BY <1>2, RowsOf DEF Sound
<1>5. \A q \in 1 .. n : 1 <= source'.rows[q].id /\ source'.rows[q].id <= lastId + n
  BY <1>1, <1>2
<1>6. \A q, r \in 1 .. n : source'.rows[q].id = source'.rows[r].id => q = r
  BY <1>1, <1>2
<1>7. SourceInv'
  BY <1>1, <1>2, <1>3, <1>4, <1>5, <1>6 DEF SourceInv
<1>8. DraftInv'
  <2>1. DOMAIN draft.rows = {}
    BY <1>3, RowsOf DEF IInv, DraftInv, Sound
  <2> QED BY <1>3, <2>1 DEF IInv, DraftInv, OriginsFollowTheirSignal
<1>9. lastId' \in 0 .. MaxIds
  BY <1>1, <1>3, DraftAssumption
<1> QED BY <1>3, <1>7, <1>8, <1>9 DEF IInv, CountersOK

(* A new device list is judged in both lists.                             *)
LEMMA ChangeDevicesKeeps ==
    ASSUME IInv, NEW list \in DeviceLists, ChangeDevices(list)
    PROVE  IInv'
<1> DEFINE n == CheckAll(source, list)
           o == CheckAll(draft, list)
<1>1. Sound(source, devices) /\ source.plotted /\ Sound(draft, devices) /\ ~draft.plotted
  BY DEF IInv, SourceInv, DraftInv
<1>2. /\ Sound(n, list) /\ n.plotted = source.plotted /\ DOMAIN n.rows = DOMAIN source.rows
      /\ \A i \in DOMAIN source.rows : Resembles(n.rows[i], source.rows[i])
  BY <1>1, CheckedList
<1>3. /\ Sound(o, list) /\ o.plotted = draft.plotted /\ DOMAIN o.rows = DOMAIN draft.rows
      /\ \A i \in DOMAIN draft.rows : Resembles(o.rows[i], draft.rows[i])
  BY <1>1, CheckedList
<1>4. /\ source' = n /\ draft' = o /\ devices' = list /\ open' = open /\ origins' = origins
      /\ lastId' = lastId /\ now' = now /\ edits' = edits
  BY DEF ChangeDevices
<1> HIDE DEF n, o
<1>5. SameSignals(source', source) /\ SameSignals(draft', draft)
  BY <1>2, <1>3, <1>4 DEF SameSignals, Resembles
<1>6. SourceInv'
  BY <1>1, <1>2, <1>4, <1>5, SourceEdited
<1>7. DraftInv'
  BY <1>1, <1>3, <1>4, <1>5, DraftEdited
<1> QED BY <1>4, <1>6, <1>7 DEF IInv, CountersOK

(* The draft starts with each row standing for its own.                   *)
LEMMA OpenDialogKeeps ==
    ASSUME IInv, OpenDialog
    PROVE  IInv'
<1> DEFINE n == DraftOf(source)
           o == ResetOrigins(source)
<1>1. Sound(source, devices) /\ Size(source) <= MaxSignals
  BY DEF IInv, SourceInv
<1>2. /\ Sound(n, devices) /\ ~n.plotted /\ DOMAIN n.rows = DOMAIN source.rows
      /\ Size(n) = Size(source)
      /\ \A i \in DOMAIN source.rows : n.rows[i].id = source.rows[i].id
  BY <1>1, DraftedList
<1>3. /\ Size(source) \in Nat /\ DOMAIN source.rows = 1 .. Size(source)
  BY <1>1, RowsOf DEF Sound
<1>4. /\ o = [i \in 1 .. Size(source) |-> i] /\ o \in Seq(Nat) /\ Len(o) = Size(source)
  BY <1>3 DEF ResetOrigins
<1>5. /\ draft' = n /\ origins' = o /\ open' = TRUE /\ source' = source /\ devices' = devices
      /\ lastId' = lastId /\ now' = now /\ edits' = edits
  BY DEF OpenDialog
<1> HIDE DEF n, o
<1>6. \A i \in DOMAIN source.rows : 1 <= source.rows[i].id /\ source.rows[i].id \in Nat
  BY <1>1, RowsOf DEF IInv, SourceInv, Sound
<1>7. OriginsFollowTheirSignal'
  <2>1. \A d \in DOMAIN source.rows : o[d] = d /\ d # 0 /\ source.rows[d].id # 0
    BY <1>3, <1>4, <1>6
  <2> QED BY <1>2, <1>5, <2>1 DEF OriginsFollowTheirSignal, NewRow, NewId
<1>8. SourceInv' /\ CountersOK'
  BY <1>5 DEF IInv, SourceInv, CountersOK
<1>9. DraftInv'
  BY <1>1, <1>2, <1>3, <1>4, <1>5, <1>7 DEF DraftInv
<1> QED BY <1>8, <1>9 DEF IInv

(* A new row stands for no row of the list, and is judged as it is added. *)
LEMMA AddRowKeeps ==
    ASSUME IInv, AddRow
    PROVE  IInv'
<1> DEFINE s == Signal(NewId, DefaultExpression, TRUE, TRUE)
           n == AddSignal(draft, s, devices)
           k == Size(draft) + 1
<1>1. Sound(draft, devices) /\ ~draft.plotted
  BY DEF IInv, DraftInv
<1>2. s \in Signals /\ s.id = 0 /\ s.data = << >>
  <2>1. "UNKNOWN" \in States /\ << >> \in Seq(Samples) /\ DefaultExpression \in Expressions
    BY ExpressionAssumption DEF States
  <2> QED BY <2>1 DEF Signal, Signals, NewId
<1>3. open /\ Size(draft) < MaxSignals /\ OnDraft(n) /\ origins' = Append(origins, 0)
  BY DEF AddRow, NewRow
<1> HIDE DEF s
<1>4. /\ Sound(n, devices) /\ n.plotted = draft.plotted /\ Size(n) = k
      /\ \A i \in DOMAIN draft.rows : n.rows[i] = draft.rows[i]
      /\ Resembles(n.rows[k], s)
  BY <1>1, <1>2, AddedRow
<1>5. /\ SourceInv' /\ CountersOK'
      /\ draft' = n /\ source' = source /\ open' = open /\ devices' = devices
  BY <1>3, DraftOnly
<1> HIDE DEF n
<1>6. /\ Size(draft) \in Nat /\ DOMAIN draft.rows = 1 .. Size(draft) /\ DOMAIN n.rows = 1 .. k
      /\ MaxSignals \in Nat
  BY <1>1, <1>4, RowsOf, DraftAssumption DEF Sound
<1>7. /\ origins' \in Seq(Nat) /\ Len(origins') = k /\ origins'[k] = 0
      /\ \A d \in 1 .. Size(draft) : origins'[d] = origins[d]
  BY <1>3, <1>6 DEF IInv, DraftInv
<1>8. n.rows[k].id = 0
  BY <1>2, <1>4 DEF Resembles
<1>9. \A d \in 1 .. k : d = k \/ d \in 1 .. Size(draft)
  BY <1>6
<1>10. /\ \A d \in 1 .. Size(draft) :
             /\ origins[d] = 0 <=> draft.rows[d].id = 0
             /\ origins[d] # 0 => /\ origins[d] \in DOMAIN source.rows
                                  /\ source.rows[origins[d]].id = draft.rows[d].id
       /\ \A d, e \in 1 .. Size(draft) : origins[d] = origins[e] /\ origins[d] # 0 => d = e
  BY <1>6 DEF IInv, DraftInv, OriginsFollowTheirSignal, NewRow, NewId
<1>11. k <= MaxSignals
  BY <1>3, <1>6
<1> HIDE DEF k
<1>12. OriginsFollowTheirSignal'
  <2> SUFFICES ASSUME NEW d \in 1 .. k
               PROVE  /\ origins'[d] = 0 <=> n.rows[d].id = 0
                      /\ origins'[d] # 0 => /\ origins'[d] \in DOMAIN source.rows
                                            /\ source.rows[origins'[d]].id = n.rows[d].id
    BY <1>5, <1>6 DEF OriginsFollowTheirSignal, NewRow, NewId
  <2>1. CASE d = k
    BY <1>7, <1>8, <2>1
  <2>2. CASE d \in 1 .. Size(draft)
    <3>1. n.rows[d] = draft.rows[d] /\ origins'[d] = origins[d]
      BY <1>4, <1>6, <1>7, <2>2
    <3> QED BY <1>10, <2>2, <3>1
  <2> QED BY <1>9, <2>1, <2>2
<1>13. \A d, e \in 1 .. k : origins'[d] = origins'[e] /\ origins'[d] # 0 => d = e
  <2> SUFFICES ASSUME NEW d \in 1 .. k, NEW e \in 1 .. k, origins'[d] = origins'[e], origins'[d] # 0
               PROVE  d = e
    OBVIOUS
  <2>1. d \in 1 .. Size(draft) /\ e \in 1 .. Size(draft)
    BY <1>7, <1>9
  <2>2. origins'[d] = origins[d] /\ origins'[e] = origins[e]
    BY <1>7, <2>1
  <2> QED BY <1>10, <2>1, <2>2
<1>14. DraftInv'
  BY <1>1, <1>3, <1>4, <1>5, <1>6, <1>7, <1>11, <1>12, <1>13 DEF DraftInv, NewRow
<1> QED BY <1>5, <1>14 DEF IInv

(* The origin goes with the row.                                          *)
LEMMA RemoveRowKeeps ==
    ASSUME IInv, NEW row \in DOMAIN draft.rows, RemoveRow(row)
    PROVE  IInv'
<1> DEFINE n == RemoveSignal(draft, row)
           o == RemoveAt(origins, row)
           N == Size(draft)
<1>1. Sound(draft, devices) /\ ~draft.plotted /\ origins \in Seq(Nat) /\ Len(origins) = N
  BY DEF IInv, DraftInv
<1>2. N \in Nat /\ DOMAIN draft.rows = 1 .. N
  BY <1>1, RowsOf DEF Sound
<1>3. /\ Sound(n, devices) /\ n.plotted = draft.plotted /\ Size(n) = N - 1
      /\ \A j \in 1 .. N - 1 : n.rows[j] = IF j < row THEN draft.rows[j] ELSE draft.rows[j + 1]
  BY <1>1, RemovedRow
<1>4. /\ o \in Seq(Nat) /\ Len(o) = N - 1
      /\ \A j \in 1 .. N - 1 : o[j] = IF j < row THEN origins[j] ELSE origins[j + 1]
  <2>1. origins \in Seq(Nat) /\ row \in 1 .. Len(origins)
    BY <1>1, <1>2
  <2> HIDE DEF n, N
  <2>2. /\ o \in Seq(Nat) /\ Len(o) = Len(origins) - 1
        /\ \A q \in 1 .. Len(origins) - 1 : o[q] = IF q < row THEN origins[q] ELSE origins[q + 1]
    BY <2>1, TakenOut
  <2> QED BY <1>1, <2>2
<1>5. open /\ OnDraft(n) /\ origins' = o
  BY DEF RemoveRow
<1> HIDE DEF n, o
<1>6. /\ SourceInv' /\ CountersOK'
      /\ draft' = n /\ source' = source /\ open' = open /\ devices' = devices
  BY <1>5, DraftOnly
<1>7. DOMAIN n.rows = 1 .. N - 1
  BY <1>3, RowsOf DEF Sound
<1> DEFINE p == [j \in 1 .. N - 1 |-> IF j < row THEN j ELSE j + 1]
<1> HIDE DEF N
<1>8. \A j \in 1 .. N - 1 : p[j] \in 1 .. N /\ p[j] = IF j < row THEN j ELSE j + 1
  BY <1>2
<1>9. \A d, e \in 1 .. N - 1 : p[d] = p[e] => d = e
  BY <1>2
<1> HIDE DEF p
<1>10. \A d \in 1 .. N - 1 : /\ p[d] \in DOMAIN draft.rows
                             /\ n.rows[d].id = draft.rows[p[d]].id /\ o[d] = origins[p[d]]
  BY <1>2, <1>3, <1>4, <1>8
<1>11. N - 1 <= N
  BY <1>2
<1>12. DraftInv'
  <2>1. /\ Sound(draft', devices') /\ ~draft'.plotted /\ Size(draft') <= Size(draft)
        /\ origins' \in Seq(Nat) /\ Len(origins') = Size(draft') /\ DOMAIN draft'.rows = 1 .. N - 1
    BY <1>1, <1>3, <1>4, <1>5, <1>6, <1>7, <1>11 DEF N
  <2>2. \A d \in DOMAIN draft'.rows :
            /\ p[d] \in DOMAIN draft.rows
            /\ draft'.rows[d].id = draft.rows[p[d]].id /\ origins'[d] = origins[p[d]]
    BY <1>5, <1>6, <1>7, <1>10
  <2>3. \A d, e \in DOMAIN draft'.rows : p[d] = p[e] => d = e
    BY <1>6, <1>7, <1>9
  <2> QED BY <1>5, <1>6, <2>1, <2>2, <2>3, DraftRearranged
<1> QED BY <1>6, <1>12 DEF IInv

(* The origins move as the rows do.                                       *)
LEMMA MoveRowKeeps ==
    ASSUME IInv, NEW from \in DOMAIN draft.rows, NEW to \in DOMAIN draft.rows, MoveRow(from, to)
    PROVE  IInv'
<1> DEFINE n == MoveSignal(draft, from, to)
           o == Reinserted(origins, from, to)
           N == Size(draft)
           p == [j \in 1 .. N |-> PlaceBefore(from, to, j)]
<1>1. Sound(draft, devices) /\ ~draft.plotted /\ origins \in Seq(Nat) /\ Len(origins) = N
  BY DEF IInv, DraftInv
<1>2. N \in Nat /\ DOMAIN draft.rows = 1 .. N /\ from \in 1 .. N /\ to \in 1 .. N
  BY <1>1, RowsOf DEF Sound
<1>3. /\ Sound(n, devices) /\ n.plotted = draft.plotted /\ Size(n) = N
      /\ \A j \in DOMAIN draft.rows : n.rows[j] = draft.rows[PlaceBefore(from, to, j)]
  BY <1>1, MovedRow
<1>4. /\ o \in Seq(Nat) /\ Len(o) = N
      /\ \A j \in 1 .. N : o[j] = origins[PlaceBefore(from, to, j)]
  <2>1. from \in 1 .. Len(origins) /\ to \in 1 .. Len(origins)
    BY <1>1, <1>2
  <2> HIDE DEF n, N, p
  <2>2. origins \in Seq(Nat)
    BY <1>1
  <2>3. /\ o \in Seq(Nat) /\ Len(o) = Len(origins)
        /\ \A j \in 1 .. Len(origins) : o[j] = origins[PlaceBefore(from, to, j)]
    <3>1. IsMoved(Reinserted(origins, from, to), Nat, origins, from, to)
      BY ONLY <2>1, <2>2, MovedTo
    <3> QED BY <3>1 DEF IsMoved
  <2> QED BY <1>1, <2>3
<1>5. open /\ OnDraft(n) /\ origins' = o
  <2>1. OriginsMoved(from, to) = o
    BY <1>2 DEF OriginsMoved, Reinserted
  <2> QED BY <2>1 DEF MoveRow
<1> HIDE DEF n, o
<1>6. /\ SourceInv' /\ CountersOK'
      /\ draft' = n /\ source' = source /\ open' = open /\ devices' = devices
  BY <1>5, DraftOnly
<1>7. DOMAIN n.rows = 1 .. N
  BY <1>3, RowsOf DEF Sound
<1> HIDE DEF N
<1>8. /\ \A j \in 1 .. N : PlaceBefore(from, to, j) \in 1 .. N
      /\ \A i, j \in 1 .. N : PlaceBefore(from, to, i) = PlaceBefore(from, to, j) => i = j
  BY <1>2, PlacesOfMove
<1>9. \A j \in 1 .. N : p[j] = PlaceBefore(from, to, j)
  OBVIOUS
<1> HIDE DEF p
<1>10. \A d \in 1 .. N : /\ p[d] \in DOMAIN draft.rows
                         /\ n.rows[d].id = draft.rows[p[d]].id /\ o[d] = origins[p[d]]
  <2> TAKE d \in 1 .. N
  <2>1. d \in DOMAIN draft.rows /\ p[d] = PlaceBefore(from, to, d) /\ p[d] \in DOMAIN draft.rows
    BY <1>2, <1>8, <1>9
  <2>2. n.rows[d] = draft.rows[p[d]] /\ o[d] = origins[p[d]]
    BY <1>3, <1>4, <2>1
  <2> QED BY <2>1, <2>2
<1>11. DraftInv'
  <2>1. /\ Sound(draft', devices') /\ ~draft'.plotted /\ Size(draft') <= Size(draft)
        /\ origins' \in Seq(Nat) /\ Len(origins') = Size(draft') /\ DOMAIN draft'.rows = 1 .. N
    BY <1>1, <1>2, <1>3, <1>4, <1>5, <1>6, <1>7 DEF N
  <2>2. \A d \in DOMAIN draft'.rows :
            /\ p[d] \in DOMAIN draft.rows
            /\ draft'.rows[d].id = draft.rows[p[d]].id /\ origins'[d] = origins[p[d]]
    BY <1>5, <1>6, <1>7, <1>10
  <2>3. \A d, e \in DOMAIN draft'.rows : p[d] = p[e] => d = e
    BY <1>6, <1>7, <1>8, <1>9
  <2> QED BY <1>5, <1>6, <2>1, <2>2, <2>3, DraftRearranged
<1> QED BY <1>6, <1>11 DEF IInv

(* An edit of one row of the draft. *)
LEMMA DraftRowEdited ==
    ASSUME IInv, NEW n, OnDraft(n), origins' = origins, NEW row,
           Sound(n, devices), KeepsOthers(draft, n, row)
    PROVE  IInv'
<1>1. /\ SourceInv' /\ CountersOK'
      /\ draft' = n /\ source' = source /\ open' = open /\ devices' = devices
  BY DraftOnly
<1>2. n.plotted = draft.plotted /\ SameSignals(n, draft)
  BY DEF KeepsOthers, SameSignals
<1>3. DraftInv'
  <2>1. /\ SameSignals(source', source) /\ Sound(draft', devices') /\ ~draft'.plotted
        /\ SameSignals(draft', draft)
    BY <1>1, <1>2 DEF IInv, DraftInv, SameSignals
  <2> QED BY <1>1, <2>1, DraftEdited
<1> QED BY <1>1, <1>3 DEF IInv

(* A new expression gets a new verdict.                                   *)
LEMMA EditExpressionKeeps ==
    ASSUME IInv, NEW row \in DOMAIN draft.rows, NEW expression \in Expressions,
           EditExpression(row, expression)
    PROVE  IInv'
<1> DEFINE n == SetExpression(draft, row, expression, devices)
<1>1. Sound(draft, devices)
  BY DEF IInv, DraftInv
<1>2. Sound(n, devices) /\ KeepsOthers(draft, n, row)
  BY <1>1, ExpressionRow
<1>3. OnDraft(n) /\ origins' = origins
  BY DEF EditExpression
<1> HIDE DEF n
<1> QED BY <1>2, <1>3, DraftRowEdited

(* Activating a row of the draft shows it.                                *)
LEMMA ToggleActiveKeeps ==
    ASSUME IInv, NEW row \in DOMAIN draft.rows, ToggleActive(row)
    PROVE  IInv'
<1> DEFINE n == SetActive(draft, row, ~draft.rows[row].active)
<1>1. Sound(draft, devices)
  BY DEF IInv, DraftInv
<1>2. (~draft.rows[row].active) \in BOOLEAN
  OBVIOUS
<1>3. Sound(n, devices) /\ KeepsOthers(draft, n, row)
  BY <1>1, <1>2, ActivatedRow
<1>4. OnDraft(n) /\ origins' = origins
  BY DEF ToggleActive
<1> HIDE DEF n
<1> QED BY <1>3, <1>4, DraftRowEdited

(* A rejected draft leaves the list as it was.                            *)
LEMMA RejectKeeps ==
    ASSUME IInv, Reject
    PROVE  IInv'
<1>1. DraftInv'
  BY DraftClosed DEF Reject
<1> QED BY <1>1 DEF IInv, SourceInv, CountersOK, Reject, Close

(* The applied draft is a sound list of signals with ids of their own.    *)
LEMMA AcceptKeeps ==
    ASSUME IInv, Accept
    PROVE  IInv'
<1>1. DraftInv'
  BY DraftClosed DEF Accept
<1>2. open' = FALSE /\ devices' = devices /\ now' = now /\ edits' = edits
  BY DEF Accept, Close
<1>3. CASE HasChanges
  <2> DEFINE L == Len(AddedRows)
  <2>1. lastId' = lastId + L /\ lastId' <= MaxIds /\ source' = Applied
    BY <1>3 DEF Accept
  <2>2. Sound(Applied, devices) /\ Applied.plotted /\ Size(Applied) = Size(draft)
    BY AppliedRows
  <2>3. /\ lastId + L \in Nat
        /\ \A d \in DOMAIN Applied.rows : 1 <= Applied.rows[d].id /\ Applied.rows[d].id <= lastId + L
        /\ \A d, e \in DOMAIN Applied.rows : Applied.rows[d].id = Applied.rows[e].id => d = e
    BY AppliedIds
  <2>4. Size(draft) <= MaxSignals
    BY DEF IInv, DraftInv
  <2>5. SourceInv'
    BY <1>2, <2>1, <2>2, <2>3, <2>4 DEF SourceInv
  <2>6. lastId' \in 0 .. MaxIds
    BY <2>1, <2>3, DraftAssumption
  <2> QED BY <1>1, <1>2, <2>5, <2>6 DEF IInv, CountersOK
<1>4. CASE ~HasChanges
  <2>1. source' = source /\ lastId' = lastId
    BY <1>4 DEF Accept
  <2> QED BY <1>1, <1>2, <2>1 DEF IInv, SourceInv, CountersOK
<1> QED BY <1>3, <1>4

-----------------------------------------------------------------------------
(***************************************************************************)
(* The theorems.                                                           *)
(***************************************************************************)

(* The empty list and the closed dialog start the program. *)
LEMMA InitInv == Init => IInv
<1> SUFFICES ASSUME Init PROVE IInv
  OBVIOUS
<1>1. /\ Sound(source, devices) /\ source.rows = << >> /\ source.plotted /\ Size(source) = 0
      /\ Sound(draft, devices) /\ draft.rows = << >> /\ ~draft.plotted /\ Size(draft) = 0
  BY EmptyIsSound DEF Init, NoDraft
<1>2. /\ origins = << >> /\ ~open /\ open \in BOOLEAN /\ devices \in DeviceLists
      /\ lastId = 0 /\ now = 0 /\ edits = 0
  BY DEF Init
<1>3. DOMAIN source.rows = {} /\ DOMAIN draft.rows = {}
  BY <1>1
<1>4. origins \in Seq(Nat) /\ Len(origins) = 0
  BY <1>2
<1>5. {MaxSignals, MaxIds, MaxSamples, MaxEdits} \subseteq Nat
  BY DraftAssumption
<1>6. SourceInv
  BY <1>1, <1>3, <1>5 DEF SourceInv
<1>7. DraftInv
  BY <1>1, <1>2, <1>3, <1>4, <1>5 DEF DraftInv, OriginsFollowTheirSignal
<1>8. CountersOK
  BY <1>2, <1>5 DEF CountersOK
<1> QED BY <1>6, <1>7, <1>8 DEF IInv

(* Every step keeps the invariant. *)
LEMMA NextInv == IInv /\ [Next]_vars => IInv'
<1> SUFFICES ASSUME IInv, [Next]_vars PROVE IInv'
  OBVIOUS
<1>1. ASSUME NEW row \in DOMAIN source.rows, ShowOrHide(row) PROVE IInv'
  BY <1>1, ShowOrHideKeeps
<1>2. ASSUME NEW row \in DOMAIN source.rows, Select(row) PROVE IInv'
  BY <1>2, SelectKeeps
<1>3. CASE Sample
  BY <1>3, SampleKeeps
<1>4. CASE ClearData
  BY <1>4, ClearDataKeeps
<1>5. ASSUME NEW n \in 1 .. MaxSignals, NEW active \in SUBSET (1 .. MaxSignals), LoadProject(n, active)
      PROVE  IInv'
  BY <1>5, LoadProjectKeeps
<1>6. ASSUME NEW list \in DeviceLists, ChangeDevices(list) PROVE IInv'
  BY <1>6, ChangeDevicesKeeps
<1>7. CASE OpenDialog
  BY <1>7, OpenDialogKeeps
<1>8. CASE AddRow
  BY <1>8, AddRowKeeps
<1>9. ASSUME NEW row \in DOMAIN draft.rows, RemoveRow(row) PROVE IInv'
  BY <1>9, RemoveRowKeeps
<1>10. ASSUME NEW row \in DOMAIN draft.rows, NEW to \in DOMAIN draft.rows, MoveRow(row, to) PROVE IInv'
  BY <1>10, MoveRowKeeps
<1>11. ASSUME NEW row \in DOMAIN draft.rows, NEW expression \in Expressions,
              EditExpression(row, expression)
       PROVE  IInv'
  BY <1>11, EditExpressionKeeps
<1>12. ASSUME NEW row \in DOMAIN draft.rows, ToggleActive(row) PROVE IInv'
  BY <1>12, ToggleActiveKeeps
<1>13. CASE Accept
  BY <1>13, AcceptKeeps
<1>14. CASE Reject
  BY <1>14, RejectKeeps
<1>15. CASE UNCHANGED vars
  BY <1>15 DEF IInv, SourceInv, DraftInv, OriginsFollowTheirSignal, CountersOK, vars
<1> QED BY <1>1, <1>2, <1>3, <1>4, <1>5, <1>6, <1>7, <1>8, <1>9, <1>10, <1>11, <1>12, <1>13, <1>14, <1>15
        DEF Next

(* The invariant holds in every reachable state. *)
THEOREM Invariant == Spec => []IInv
BY InitInv, NextInv, PTL DEF Spec

(* Every variable keeps its type: the rows stay within the bounds, and an  *)
(* origin is a row or none.                                                *)
THEOREM SignalsTyped == Spec => []TypeOK
<1>1. IInv => TypeOK
  <2> SUFFICES ASSUME IInv PROVE TypeOK
    OBVIOUS
  <2>1. /\ source \in Lists /\ draft \in Lists /\ DOMAIN origins = DOMAIN draft.rows
        /\ Size(source) \in Nat /\ DOMAIN source.rows = 1 .. Size(source)
        /\ \A d \in DOMAIN draft.rows : origins[d] = NewRow \/ origins[d] \in DOMAIN source.rows
    BY DraftRows DEF IInv
  <2>2. {MaxSignals, MaxIds, MaxSamples, MaxEdits} \subseteq Nat /\ lastId \in 0 .. MaxIds
    BY DraftAssumption DEF IInv, CountersOK
  <2>3. \A i \in DOMAIN source.rows : source.rows[i].id \in 0 .. MaxIds
    <3> TAKE i \in DOMAIN source.rows
    <3>1. source.rows[i].id \in Nat /\ source.rows[i].id <= lastId
      BY <2>1, RowsOf DEF IInv, SourceInv
    <3> QED BY <2>2, <3>1
  <2>4. \A d \in DOMAIN draft.rows : draft.rows[d].id \in 0 .. MaxIds
    <3> TAKE d \in DOMAIN draft.rows
    <3>1. /\ origins[d] = NewRow <=> draft.rows[d].id = NewId
          /\ origins[d] # NewRow => /\ origins[d] \in DOMAIN source.rows
                                    /\ source.rows[origins[d]].id = draft.rows[d].id
      BY DEF IInv, DraftInv, OriginsFollowTheirSignal
    <3>2. CASE origins[d] = NewRow
      BY <2>2, <3>1, <3>2 DEF NewId
    <3>3. CASE origins[d] # NewRow
      BY <2>3, <3>1, <3>3
    <3> QED BY <3>2, <3>3
  <2>5. ASSUME NEW m \in Lists, SelectionShown(m), \A i \in DOMAIN m.rows : m.rows[i].id \in 0 .. MaxIds
        PROVE  ListOK(m)
    <3>1. \A s \in Signals : /\ s.expression \in Expressions /\ s.active \in BOOLEAN
                             /\ s.visible \in BOOLEAN /\ s.state \in States /\ s.data \in Seq(Samples)
      BY DEF Signals
    <3>2. \A i \in DOMAIN m.rows : m.rows[i] \in Signals
      BY RowsOf
    <3>3. m.crashed \in BOOLEAN
      BY DEF Lists
    <3> QED BY <2>5, <3>1, <3>2, <3>3 DEF ListOK, SelectionShown
  <2>6. ListOK(source) /\ ListOK(draft)
    BY <2>1, <2>3, <2>4, <2>5 DEF IInv, SourceInv, DraftInv, Sound
  <2>7. origins \in [DOMAIN draft.rows -> 0 .. MaxSignals]
    <3>1. \A d \in DOMAIN draft.rows : origins[d] \in 0 .. MaxSignals
      <4>1. Size(source) <= MaxSignals
        BY DEF IInv, SourceInv
      <4>2. \A r \in DOMAIN source.rows : r \in 0 .. MaxSignals
        BY <2>1, <2>2, <4>1
      <4>3. NewRow \in 0 .. MaxSignals
        BY <2>2 DEF NewRow
      <4> QED BY <2>1, <4>2, <4>3
    <3>2. origins = [d \in DOMAIN draft.rows |-> origins[d]]
      BY <2>1 DEF IInv, DraftInv
    <3> QED BY <3>1, <3>2
  <2> QED BY <2>6, <2>7 DEF TypeOK, IInv, CountersOK
<1> QED BY <1>1, Invariant, PTL

(* However rows were added, removed and dragged, a row of the draft knows  *)
(* the row of the list it was copied from: apply() writes no signal's      *)
(* settings over another one's.                                            *)
THEOREM OriginsKept == Spec => []OriginsFollowTheirSignal
<1>1. IInv => OriginsFollowTheirSignal
  BY DEF IInv, DraftInv
<1> QED BY <1>1, Invariant, PTL

(* The verdict shown is that of the present expression and devices.        *)
THEOREM VerdictsCurrent == Spec => []VerdictsAreCurrent
<1>1. IInv => VerdictsAreCurrent
  BY DEF IInv, SourceInv, DraftInv, Sound, Judged, VerdictsAreCurrent
<1> QED BY <1>1, Invariant, PTL

(* Plotted signals have samples of the same times, and the plot shows the  *)
(* active signals in the order of the list.                                *)
THEOREM SeriesStayAligned == Spec => []SeriesAligned
<1>1. IInv => SeriesAligned
  <2> SUFFICES ASSUME IInv PROVE SeriesAligned
    OBVIOUS
  <2>1. source \in Lists /\ DataAligned(source) /\ Drawn(source) /\ SelectionShown(source) /\ source.plotted
    BY DEF IInv, SourceInv, Sound
  <2>2. ASSUME NEW i \in DOMAIN source.rows, NEW j \in DOMAIN source.rows, source.rows[i].active
        PROVE  Times(source.rows[j]) = IF source.rows[j].active THEN Times(source.rows[i]) ELSE << >>
    <3>1. CASE source.rows[j].active
      BY <2>1, <2>2, <3>1 DEF DataAligned
    <3>2. CASE ~source.rows[j].active
      <4>1. source.rows[j].data = << >>
        BY <2>1, <3>2 DEF DataAligned
      <4>2. Times(source.rows[j]) = << >>
        BY <4>1 DEF Times
      <4> QED BY <3>2, <4>2
    <3> QED BY <3>1, <3>2
  <2> QED BY <2>1, <2>2 DEF SeriesAligned, Drawn, SelectionShown
<1> QED BY <1>1, Invariant, PTL

(* A signal is found by its id. *)
LEMMA FoundById ==
    ASSUME IInv, NEW i \in DOMAIN source.rows
    PROVE  Old(source.rows[i].id) = source.rows[i]
<1> DEFINE I == {j \in 1 .. Len(source.rows) : source.rows[j].id = source.rows[i].id}
<1>1. I \in SUBSET Nat /\ i \in I
  BY DraftRows DEF IInv, Size
<1>2. Old(source.rows[i].id) = source.rows[Min(I)]
  BY <1>1 DEF Old, SelectInSeq
<1>3. Min(I) \in I
  <2> HIDE DEF I
  <2> QED BY <1>1, MinIsLeast
<1>4. Min(I) = i
  <2>1. SourceInv /\ DraftInv
    BY DEF IInv
  <2>2. DOMAIN source.rows = 1 .. Len(source.rows)
    BY <2>1, DraftRows DEF Size
  <2>3. Min(I) \in DOMAIN source.rows /\ source.rows[Min(I)].id = source.rows[i].id
    BY <1>3, <2>2
  <2> HIDE DEF I
  <2> QED BY <2>1, <2>3 DEF SourceInv
<1> QED BY <1>2, <1>4

(* Accepting the dialog leaves the list as the draft shows it, with the    *)
(* data of every signal whose expression and activity stayed the same.     *)
THEOREM DraftApplied == Spec => DraftIsApplied
<1> DEFINE Shown(s, d) ==
        /\ SettingsOf(s) = SettingsOf(draft.rows[d])
        /\ IF draft.rows[d].id = NewId
           THEN s.id \notin {source.rows[i].id : i \in DOMAIN source.rows}
                /\ NothingMeasured(s.data)
           ELSE /\ s.id = draft.rows[d].id
                /\ IF KeepsData(Old(s.id), s) THEN s.data = Old(s.id).data
                   ELSE NothingMeasured(s.data)
<1>1. ASSUME IInv, Accept
      PROVE  Len(source'.rows) = Size(draft) /\ \A d \in DOMAIN draft.rows : Shown(source'.rows[d], d)
  <2>1. /\ source \in Lists /\ draft \in Lists /\ DOMAIN origins = DOMAIN draft.rows
        /\ \A d \in DOMAIN draft.rows : origins[d] = NewRow \/ origins[d] \in DOMAIN source.rows
    BY <1>1, DraftRows DEF IInv
  <2>2. \A d \in DOMAIN draft.rows :
            /\ origins[d] = NewRow <=> draft.rows[d].id = NewId
            /\ origins[d] # NewRow => /\ origins[d] \in DOMAIN source.rows
                                      /\ source.rows[origins[d]].id = draft.rows[d].id
    BY <1>1 DEF IInv, DraftInv, OriginsFollowTheirSignal
  <2>3. CASE HasChanges
    <3>1. source' = Applied
      BY <1>1, <2>3 DEF Accept
    <3>2. /\ Size(Applied) = Size(draft)
          /\ \A d \in KeptDraftRows : AsInDraft(Applied.rows[d], d)
          /\ \A d \in DOMAIN draft.rows \ KeptDraftRows :
                 \E k \in 1 .. Len(AddedRows) :
                    AddedRows[k] = d /\ NewAsInDraft(Applied.rows[d], d, lastId + k)
      BY <1>1, AppliedRows
    <3>3. ASSUME NEW d \in KeptDraftRows PROVE Shown(Applied.rows[d], d)
      <4> DEFINE s == Applied.rows[d]
                 old == source.rows[origins[d]]
      <4>1. /\ d \in DOMAIN draft.rows /\ origins[d] # NewRow
            /\ origins[d] \in DOMAIN source.rows /\ old.id = draft.rows[d].id
            /\ draft.rows[d].id # NewId
        BY <2>2 DEF KeptDraftRows
      <4>2. /\ s.id = old.id /\ SettingsOf(s) = SettingsOf(draft.rows[d])
            /\ IF KeepsData(old, draft.rows[d]) THEN s.data = old.data ELSE NothingMeasured(s.data)
        BY <3>2 DEF AsInDraft
      <4>3. Old(s.id) = old
        BY <1>1, <4>1, <4>2, FoundById
      <4>4. s.expression = draft.rows[d].expression /\ s.active = draft.rows[d].active
        BY <4>2 DEF SettingsOf
      <4>5. KeepsData(old, s) = KeepsData(old, draft.rows[d])
        BY <4>4 DEF KeepsData
      <4> QED BY <4>1, <4>2, <4>3, <4>5
    <3>4. ASSUME NEW d \in DOMAIN draft.rows \ KeptDraftRows PROVE Shown(Applied.rows[d], d)
      <4> DEFINE s == Applied.rows[d]
      <4>1. draft.rows[d].id = NewId
        BY <2>2 DEF KeptDraftRows
      <4>2. SettingsOf(s) = SettingsOf(draft.rows[d]) /\ NothingMeasured(s.data)
        BY <3>2 DEF NewAsInDraft
      <4>3. lastId < s.id
        BY <1>1, AppliedIds
      <4>4. s.id \in Nat
        <5>1. Sound(Applied, devices)
          BY <1>1, AppliedRows
        <5>2. Applied \in Lists /\ d \in DOMAIN Applied.rows
          BY <1>1, <3>2, <5>1, RowsOf, DraftRows DEF Sound, IInv
        <5> QED BY <5>2, RowsOf
      <4>5. ASSUME NEW i \in DOMAIN source.rows PROVE s.id # source.rows[i].id
        <5>1. source.rows[i].id <= lastId /\ source.rows[i].id \in Nat /\ lastId \in Nat
          BY <1>1, <2>1, RowsOf, DraftAssumption DEF IInv, SourceInv, CountersOK
        <5> QED BY <4>3, <4>4, <5>1
      <4> QED BY <4>1, <4>2, <4>5
    <3>5. \A d \in DOMAIN draft.rows : Shown(source'.rows[d], d)
      <4> HIDE DEF Shown
      <4> QED BY <3>1, <3>3, <3>4
    <3> QED BY <3>1, <3>2, <3>5 DEF Size
  <2>4. CASE ~HasChanges
    <3>1. source' = source /\ Size(draft) = Size(source)
      BY <1>1, <2>4 DEF Accept, HasChanges
    <3>2. ASSUME NEW d \in DOMAIN draft.rows PROVE Shown(source.rows[d], d)
      <4> DEFINE s == source.rows[d]
      <4>1. origins[d] = d /\ SettingsOf(draft.rows[d]) = SettingsOf(s)
        BY <2>4 DEF HasChanges
      <4>2. d # 0 /\ d \in DOMAIN source.rows
        BY <2>1, <3>1, RowsOf
      <4>3. s.id = draft.rows[d].id /\ draft.rows[d].id # NewId
        BY <2>2, <4>1, <4>2 DEF NewRow
      <4>4. Old(s.id) = s
        BY <1>1, <4>2, FoundById
      <4>5. KeepsData(s, s) \/ NothingMeasured(s.data)
        <5>1. ~s.active => s.data = << >>
          BY <1>1, <4>2 DEF IInv, SourceInv, Sound, DataAligned
        <5> QED BY <5>1 DEF KeepsData, NothingMeasured
      <4> HIDE DEF s
      <4> QED BY <4>1, <4>3, <4>4, <4>5 DEF s
    <3> QED BY <3>1, <3>2 DEF Size
  <2> QED BY <2>3, <2>4
<1>2. IInv /\ [Next]_vars =>
          [ Accept /\ Alive' =>
              Len(source'.rows) = Size(draft) /\ \A d \in DOMAIN draft.rows : Shown(source'.rows[d], d) ]_vars
  <2> HIDE DEF Shown
  <2> QED BY <1>1
<1> QED BY <1>2, Invariant, PTL DEF Spec, DraftIsApplied
=============================================================================
