--------------------------- MODULE MCExpiryWheel ---------------------------
(***************************************************************************)
(* ExpiryWheel for TLC.  Keys and clients are interchangeable, and every   *)
(* property is an invariant.                                               *)
(***************************************************************************)
EXTENDS ExpiryWheel, TLC

Symmetry == Permutations(Keys) \cup Permutations(Clients)
=============================================================================
