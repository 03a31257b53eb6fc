----------------------------- MODULE OrderedSets -----------------------------
(***************************************************************************)
(* Sets of numbers in their order: the order in which a loop visits the    *)
(* keys of a QMap or the rows of a list.                                   *)
(***************************************************************************)
EXTENDS Naturals, FiniteSets

(* The members of a finite set of numbers, the least first. *)
Ascending(S) ==
    CHOOSE s \in [1 .. Cardinality(S) -> S] : \A i, j \in DOMAIN s : i < j => s[i] < s[j]
=============================================================================
