------------------------------ MODULE MCPolicy ------------------------------
(***************************************************************************)
(* Policy for TLC: four keys with two hashes, one of which clashes with    *)
(* the other.  Keys of the same hash are interchangeable.                  *)
(***************************************************************************)
EXTENDS Policy

CONSTANTS k1, k2, k3, k4

MCKey == {k1, k2, k3, k4}
MCHashOf == k1 :> 1 @@ k2 :> 1 @@ k3 :> 2 @@ k4 :> 2
MCClash == <<{2}, {}>>
Symmetry == Permutations({k1, k2}) \cup Permutations({k3, k4})
=============================================================================
