------------------------------ MODULE MCSignals ------------------------------
(* Instances of SignalListDraft for TLC. *)
EXTENDS SignalListDraft

\* The default expression reads device 1; "other" reads device 2.
TwoExpressions == {"default", "other"}
UsesOf == [e \in TwoExpressions |-> IF e = "default" THEN {1} ELSE {2}]
BothOrFirst == {{1}, {1, 2}}
=============================================================================
