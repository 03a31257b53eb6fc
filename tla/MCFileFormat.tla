----------------------------- MODULE MCFileFormat -----------------------------
(* Instances of DataFileFormat for TLC. *)
EXTENDS DataFileFormat

Whole(n) == [whole |-> n, frac |-> 0]
Fraction == [whole |-> 1, frac |-> 5]
Plain == <<Atom("text")>>
WithComma == <<Atom("a"), Comma, Atom("b")>>
WithBoth == <<Atom("a"), Semicolon, Atom("b"), Comma, Atom("c")>>

Cell(value, state, flags) == [value |-> value, quality |-> [state |-> state, flags |-> flags]]
Cells == { Cell(Fraction, "Good", {}), Cell(Whole(0), "NoValue", {}),
           Cell(Whole(7), "Degraded", {"Substituted", "OldData"}) }

Signal(label, axis) == [label |-> label, color |-> "red", axis |-> axis]
SignalLists == { <<Signal(label, 0)>> : label \in {Plain, WithComma, WithBoth} }
               \cup { <<Signal(WithBoth, 1), Signal(Plain, 0)>> , <<Signal(Plain, 1), Signal(Plain, 0)>> }
Rotated(cells, by) == [k \in 1 .. 2 |-> cells[((k + by) % 3) + 1]]
SampleLists(width) ==
    LET order == SetToSeq(Cells)
        rows(at) == { [at |-> at, cells |-> SubSeq(Rotated(order, by), 1, width)] : by \in 0 .. 2 }
        good == [k \in 1 .. width |-> Cell(Fraction, "Good", {})]
    IN  {<<>>} \cup { <<row>> : row \in rows(0) }
        \cup { <<row, [at |-> 5, cells |-> good]>> : row \in rows(0) }
AllContents ==
    UNION { [signals : {signals}, samples : SampleLists(Len(signals)), absolute : BOOLEAN] :
            signals \in SignalLists }
AllTexts == {Plain, WithComma}
AllPositions == {Fraction}
=============================================================================
