------------------------------ MODULE MCLogging ------------------------------
(* Instances of LoggingSession for TLC. *)
EXTENDS LoggingSession

\* "sum" reads a point of each adapter, "pair" two of the first one's, of
\* which it shares one with "sum"; "lost" reads from a device that is gone.
MCExpressions == {"sum", "pair", "lost"}
MCReads == [e \in MCExpressions |-> CASE e = "sum" -> <<"p", "q">>
                                      [] e = "pair" -> <<"r", "p">>
                                      [] e = "lost" -> <<"q">>]
MCUses == [e \in MCExpressions |-> CASE e = "sum" -> {1, 2} [] e = "pair" -> {1} [] e = "lost" -> {3}]
MCAdapterOf == [p \in {"p", "q", "r"} |-> IF p = "q" THEN "beta" ELSE "alpha"]
On(e) == [expression |-> e, active |-> TRUE]
Off(e) == [expression |-> e, active |-> FALSE]
MCProjects == {<<On("sum"), On("pair")>>, <<On("pair"), Off("sum")>>, <<>>}
=============================================================================
