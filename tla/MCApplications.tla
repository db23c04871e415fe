--------------------------- MODULE MCApplications ---------------------------
(***************************************************************************)
(* Instances of Applications for TLC: requests are interchangeable.        *)
(***************************************************************************)
EXTENDS Applications, TLC

Symmetry == Permutations(Requests)
=============================================================================
