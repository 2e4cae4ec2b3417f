------------------------------ MODULE Ordering ------------------------------
(***************************************************************************)
(* Finite sets of numbers in their order, in which the code visits the     *)
(* keys of a std::map and the indices of a vector.                         *)
(***************************************************************************)
EXTENDS Integers, FiniteSets, Functions

Ascending(S) ==
    CHOOSE s \in [1..Cardinality(S) -> S] : Range(s) = S /\ \A i, j \in DOMAIN s : i < j => s[i] < s[j]

=============================================================================
