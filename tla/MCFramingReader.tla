-------------------------- MODULE MCFramingReader --------------------------
(* Instances of FramingReader for TLC. *)
EXTENDS FramingReader

\* Message 3 is larger than the largest body that is accepted.
Sizes == [m \in Messages |-> m]
=============================================================================
